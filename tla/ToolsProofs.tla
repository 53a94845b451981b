----------------------------- MODULE ToolsProofs ----------------------------
(***************************************************************************)
(* Proofs about the tools: every file entry is accounted for; one that a   *)
(* path leads to is the one that the path means, and does not depend on the*)
(* cache of directories; requests are answered accordingly, and what is    *)
(* listed and printed leads back.                                          *)
(*                                                                         *)
(* The account needs to know when a request may hold something at all,     *)
(* since a request that ends or begins without freeing would lose it: only *)
(* one that describes or lists does, and a context is closed from the time *)
(* a request begins to open it.  That nothing dangles needs to know that   *)
(* the directory of an entry was read, and so cannot have been freed, in   *)
(* the step that found the entry, and that a walk without an entry has not *)
(* left the root.                                                          *)
(*                                                                         *)
(* The rest is about recursive functions over a path.  They are followed   *)
(* from one place to the next: at the start of a name the walk is where    *)
(* the path before it leads (WalkMeans), a name that is listed is escaped  *)
(* and taken back a character at a time (NameReturns), and a path means    *)
(* the same whatever is put behind it (MeaningOfPrefix).                   *)
(***************************************************************************)
EXTENDS Tools, FiniteSetTheorems, SequenceTheorems, WellFoundedInduction, TLAPS

(* The states of a request.                                                *)
RequestStates == {"idle", "lookup", "stat", "read", "list", "done"}

(* A request, the contexts and the calls have their fields.                *)
RequestShape ==
  /\ request = [state |-> request.state, op |-> request.op, path |-> request.path,
                context |-> request.context, temporary |-> request.temporary,
                sub |-> request.sub, index |-> request.index, listed |-> request.listed,
                error |-> request.error, answer |-> request.answer]
  /\ request.state \in RequestStates
  /\ request.sub \in BOOLEAN

Shape ==
  /\ RequestShape
  /\ context = [c \in Contexts |-> context[c]]
  /\ calls \in Seq({calls[i] : i \in DOMAIN calls})
  /\ file_entries \in Int
  /\ lost \in Int

(* The function that prints runs only for a hierarchy.                     *)
Printing == info \notin {"hierarchy", "bodyfile"} => calls = <<>>

(* Only a request that describes or lists its own file entry has one, only *)
(* a list has a sub file entry, and the context that a request is to open  *)
(* is closed until it does.                                                *)
Holding ==
  /\ request.temporary # Closed => request.state \in {"stat", "list"}
  /\ request.sub => request.state = "list"
  /\ request.state = "lookup" =>
       /\ request.op # "none"
       /\ request.op \in OpenOps =>
            request.context \in Contexts /\ context[request.context] = Closed

Inv == Shape /\ Printing /\ Holding /\ FileEntriesAccounted

(* Contexts that are open.                                                 *)
OpenContexts(ctx) == {c \in Contexts : ctx[c] # Closed}

HeldByRequest(r) == (IF r.temporary # Closed THEN 1 ELSE 0) + (IF r.sub THEN 1 ELSE 0)

LEMMA OpenContextsFinite ==
  ASSUME NEW ctx
  PROVE  IsFiniteSet(OpenContexts(ctx)) /\ Cardinality(OpenContexts(ctx)) \in Nat
BY FS_Subset, FS_CardinalityType, MountAssumption DEF OpenContexts

LEMMA ContextOpened ==
  ASSUME NEW c \in Contexts, context = [d \in Contexts |-> context[d]],
         context[c] = Closed, NEW value, value # Closed
  PROVE  Cardinality(OpenContexts([context EXCEPT ![c] = value]))
           = Cardinality(OpenContexts(context)) + 1
<1> DEFINE opened == [context EXCEPT ![c] = value]
<1>1. OpenContexts(opened) = OpenContexts(context) \cup {c}
  BY DEF OpenContexts
<1>2. c \notin OpenContexts(context)
  BY DEF OpenContexts
<1> QED BY <1>1, <1>2, OpenContextsFinite, FS_AddElement

LEMMA ContextClosed ==
  ASSUME NEW c \in Contexts, context = [d \in Contexts |-> context[d]],
         context[c] # Closed
  PROVE  Cardinality(OpenContexts([context EXCEPT ![c] = Closed]))
           = Cardinality(OpenContexts(context)) - 1
<1> DEFINE closing == [context EXCEPT ![c] = Closed]
<1>1. OpenContexts(closing) = OpenContexts(context) \ {c}
  BY DEF OpenContexts
<1>2. c \in OpenContexts(context)
  BY DEF OpenContexts
<1> QED BY <1>1, <1>2, OpenContextsFinite, FS_RemoveElement

(* What is held, by contexts and by the request.                           *)
LEMMA HeldIs == Held = Cardinality(OpenContexts(context)) + HeldByRequest(request)
BY OpenContextsFinite DEF Held, OpenContexts, HeldByRequest
LEMMA HeldIsPrimed == Held' = Cardinality(OpenContexts(context')) + HeldByRequest(request')
BY OpenContextsFinite DEF Held, OpenContexts, HeldByRequest

LEMMA SequenceShape ==
  ASSUME NEW S, NEW s \in Seq(S)
  PROVE  s \in Seq({s[i] : i \in DOMAIN s})
OBVIOUS

LEMMA SequenceExcept ==
  ASSUME NEW S, NEW s \in Seq(S), NEW i \in 1 .. Len(s), NEW v
  PROVE  /\ [s EXCEPT ![i] = v] \in Seq(S \cup {v})
         /\ Len([s EXCEPT ![i] = v]) = Len(s)
<1> DEFINE t == [s EXCEPT ![i] = v]
<1>1. t = [j \in 1 .. Len(s) |-> IF j = i THEN v ELSE s[j]]
  OBVIOUS
<1>2. Len(s) \in Nat /\ \A j \in 1 .. Len(s) : t[j] \in S \cup {v}
  BY <1>1
<1> QED BY <1>1, <1>2

LEMMA SequenceFront ==
  ASSUME NEW S, NEW s \in Seq(S), s # <<>>
  PROVE  /\ Front(s) \in Seq(S)
         /\ Len(Front(s)) = Len(s) - 1
<1>1. Len(s) \in Nat \ {0}
  OBVIOUS
<1>2. \A i \in 1 .. Len(s) - 1 : s[i] \in S
  BY <1>1
<1> DEFINE n == Len(s) - 1
<1>3. n \in Nat /\ SubSeq(s, 1, n) = [i \in 1 .. n |-> s[i]]
  BY <1>1
<1>4. [i \in 1 .. n |-> s[i]] \in Seq(S) /\ Len([i \in 1 .. n |-> s[i]]) = n
  BY <1>2, <1>3
<1> QED BY <1>3, <1>4 DEF Front

-----------------------------------------------------------------------------
LEMMA InitAccounted == Init => Inv
<1> SUFFICES ASSUME Init PROVE Inv
  OBVIOUS
<1> USE DEF Init, LookupInit, MountInit, InfoInit
<1>1. RequestShape
  BY DEF RequestShape, RequestStates, Idle
<1>2. Shape
  BY <1>1 DEF Shape
<1>3. Printing /\ Holding
  BY DEF Printing, Holding, Idle
<1>4. OpenContexts(context) = {}
  BY DEF OpenContexts
<1>5. FileEntriesAccounted
  BY <1>4, HeldIs, FS_EmptySet DEF FileEntriesAccounted, HeldByRequest, Idle
<1> QED BY <1>2, <1>3, <1>5 DEF Inv

(* The account, in numbers.                                                *)
LEMMA Numbers ==
  ASSUME Inv
  PROVE  /\ Cardinality(OpenContexts(context)) \in Nat
         /\ HeldByRequest(request) \in Nat
         /\ Len(calls) \in Nat
         /\ file_entries \in Int
         /\ lost \in Int
         /\ file_entries = Cardinality(OpenContexts(context)) + HeldByRequest(request)
                             + Len(calls) + lost
<1>1. Len(calls) \in Nat /\ file_entries \in Int /\ lost \in Int
  BY DEF Inv, Shape
<1>2. HeldByRequest(request) \in Nat
  BY DEF HeldByRequest
<1> QED BY <1>1, <1>2, HeldIs, OpenContextsFinite DEF Inv, FileEntriesAccounted

(* A request goes on and holds as many file entries more as are allocated. *)
LEMMA RequestSteps ==
  ASSUME Inv, RequestShape', Holding',
         UNCHANGED <<context, lost, infoVars>>,
         file_entries' = file_entries + (HeldByRequest(request') - HeldByRequest(request))
  PROVE  Inv'
<1>1. HeldByRequest(request') \in Nat
  BY DEF HeldByRequest
<1>2. file_entries' \in Int
  BY <1>1, Numbers
<1>3. Shape'
  BY <1>2 DEF Inv, Shape, infoVars
<1>4. Printing'
  BY DEF Inv, Printing, infoVars
<1>5. Len(calls') = Len(calls)
  BY DEF infoVars
<1>6. file_entries' = Cardinality(OpenContexts(context')) + HeldByRequest(request')
                       + Len(calls') + lost'
  BY <1>1, <1>5, Numbers DEF infoVars
<1>7. FileEntriesAccounted'
  BY <1>6, HeldIsPrimed, <1>1, <1>5, Numbers DEF FileEntriesAccounted
<1> QED BY <1>3, <1>4, <1>7 DEF Inv

(* A step that leaves the calls alone, with its account.                   *)
LEMMA ContextSteps ==
  ASSUME Inv, RequestShape', Holding', UNCHANGED infoVars,
         context' = [c \in Contexts |-> context'[c]],
         lost' \in Int, file_entries' \in Int,
         file_entries' = Cardinality(OpenContexts(context')) + HeldByRequest(request')
                          + Len(calls) + lost'
  PROVE  Inv'
<1>1. Shape' /\ Printing'
  BY DEF Inv, Shape, Printing, infoVars
<1>2. Len(calls') = Len(calls)
  BY DEF infoVars
<1>3. Held' = Cardinality(OpenContexts(context')) + HeldByRequest(request')
  BY HeldIsPrimed
<1>4. FileEntriesAccounted'
  BY <1>2, <1>3 DEF FileEntriesAccounted
<1> QED BY <1>1, <1>4 DEF Inv

(* The info tool goes on while no request changes.                         *)
LEMMA CallsStep ==
  ASSUME Inv, NEW n \in Int,
         UNCHANGED <<tool, lost, context, request>>,
         calls' \in Seq({calls'[i] : i \in DOMAIN calls'}),
         Printing',
         Len(calls') = Len(calls) + n,
         file_entries' = file_entries + n
  PROVE  Inv'
<1>1. file_entries' \in Int
  BY Numbers
<1>2. Shape'
  BY <1>1 DEF Inv, Shape, RequestShape
<1>3. Holding'
  BY DEF Inv, Holding, OpenOps
<1>4. FileEntriesAccounted'
  BY SMTT(30), Numbers, HeldIs, HeldIsPrimed DEF FileEntriesAccounted
<1> QED BY <1>2, <1>3, <1>4 DEF Inv

-----------------------------------------------------------------------------
(* The steps of the mount tool.                                            *)

(* The fields of a request and what it holds, as far as a step needs them. *)
LEMMA RequestHolds ==
  ASSUME Inv
  PROVE  /\ RequestShape
         /\ Holding
         /\ context = [c \in Contexts |-> context[c]]
BY DEF Inv, Shape

(* A request ends: what it holds is freed.                                 *)
LEMMA EndSteps ==
  ASSUME Inv, NEW answered,
         answered \in {Answer("ok"), Fail("error")},
         Ended(answered),
         UNCHANGED <<tool, context, lost, infoVars>>
  PROVE  Inv'
<1>1. request' = [answered EXCEPT !.temporary = Closed, !.sub = FALSE]
  BY DEF Ended
<1>2. RequestShape' /\ request'.state = "done" /\ request'.temporary = Closed /\ request'.sub = FALSE
  BY <1>1, RequestHolds DEF RequestShape, RequestStates, Answer, Fail
<1>3. Holding'
  BY <1>2 DEF Holding
<1>4. HeldByRequest(request') = 0
  BY <1>2 DEF HeldByRequest
<1>5. file_entries' = file_entries - HeldByRequest(request)
  <2>1. file_entries' = file_entries - (IF request.temporary # Closed THEN 1 ELSE 0)
                                     - (IF request.sub THEN 1 ELSE 0)
    BY DEF Ended
  <2> QED BY SMTT(30), <2>1, Numbers DEF HeldByRequest
<1> QED BY <1>2, <1>3, <1>4, <1>5, Numbers, RequestSteps

(* A request that neither takes nor gives back.                            *)
LEMMA QuietSteps ==
  ASSUME Inv, RequestShape', Holding',
         UNCHANGED <<context, lost, file_entries, infoVars>>,
         request'.temporary = request.temporary, request'.sub = request.sub
  PROVE  Inv'
<1>1. HeldByRequest(request') = HeldByRequest(request)
  BY DEF HeldByRequest
<1> QED BY <1>1, Numbers, RequestSteps

LEMMA MountInvariant ==
  ASSUME Inv, MountNext, UNCHANGED infoVars
  PROVE  Inv'
<1> USE RequestHolds DEF RequestShape, RequestStates
<1>1. CASE OpenVolume
  BY <1>1, QuietSteps DEF OpenVolume, Holding, OpenOps
<1>2. CASE Unmount
  BY <1>2, QuietSteps DEF Unmount, Holding, OpenOps
<1>3. CASE RefuseOpen
  BY <1>3, QuietSteps DEF RefuseOpen, MayRequest, Holding, Idle
<1>4. CASE AskByPath
  <2>1. PICK op \in OpenOps \cup QueryOps, path \in HostPaths[tool], c \in Contexts :
          /\ op \in OpenOps => context[c] = Closed
          /\ \/ request' = [[Idle EXCEPT !.op = op, !.path = path, !.context = c]
                              EXCEPT !.state = "lookup"]
             \/ request' = [[Idle EXCEPT !.op = op, !.path = path, !.context = c]
                              EXCEPT !.state = "done", !.answer = "no entry"]
    BY <1>4 DEF AskByPath
  <2>2. request.temporary = Closed /\ request.sub = FALSE
    BY <1>4 DEF AskByPath, MayRequest, Holding
  <2>3. /\ RequestShape'
        /\ request'.op = op /\ request'.context = c
        /\ request'.temporary = Closed /\ request'.sub = FALSE
    BY <2>1 DEF Idle
  <2>4. op # "none"
    BY DEF OpenOps, QueryOps
  <2>5. Holding'
    BY <1>4, <2>1, <2>3, <2>4 DEF AskByPath, Holding, OpenOps
  <2> QED BY <1>4, <2>2, <2>3, <2>5, QuietSteps DEF AskByPath
<1>5. CASE AskOpen
  <2>1. request.temporary = Closed /\ request.sub = FALSE
    BY <1>5 DEF AskOpen, MayRequest, Holding
  <2>2. /\ RequestShape'
        /\ request'.state \in {"read", "list"}
        /\ request'.temporary = Closed /\ request'.sub = FALSE
    BY <1>5 DEF AskOpen, Idle
  <2>3. Holding'
    BY <2>2 DEF Holding
  <2> QED BY <1>5, <2>1, <2>2, <2>3, QuietSteps DEF AskOpen
<1>6. CASE Walk
  BY <1>6, QuietSteps DEF Walk, mountVars, Holding, OpenOps
<1>7. CASE FoundUnnamed
  BY <1>7, QuietSteps DEF FoundUnnamed, Fail, Holding
<1>8. CASE Stat
  BY <1>8, EndSteps DEF Stat
<1>9. CASE ReadFile
  BY <1>9, EndSteps DEF ReadFile
<1>10. CASE EndList
  BY <1>10, EndSteps DEF EndList
<1>11. CASE Return
  BY <1>11, QuietSteps DEF Return, Idle, Holding
<1>12. CASE StartList
  <2>1. CASE Ended(Fail("error"))
    BY <1>12, <2>1, EndSteps DEF StartList
  <2>2. CASE request' = [request EXCEPT !.index = 1] /\ UNCHANGED file_entries
    BY <1>12, <2>2, QuietSteps DEF StartList, Holding
  <2> QED BY <1>12, <2>1, <2>2 DEF StartList
<1>13. CASE GetSubFileEntry
  <2>1. CASE Ended(Fail("error"))
    BY <1>13, <2>1, EndSteps DEF GetSubFileEntry
  <2>2. CASE request' = [request EXCEPT !.sub = TRUE] /\ file_entries' = file_entries + 1
    <3>1. RequestShape' /\ Holding' /\ request'.temporary = request.temporary
      BY <1>13, <2>2 DEF GetSubFileEntry, Holding
    <3>2. HeldByRequest(request') = HeldByRequest(request) + 1
      BY <1>13, <2>2, <3>1 DEF GetSubFileEntry, HeldByRequest
    <3> QED BY <1>13, <2>2, <3>1, <3>2, Numbers, RequestSteps DEF GetSubFileEntry
  <2> QED BY <1>13, <2>1, <2>2 DEF GetSubFileEntry
<1>14. CASE FillSubFileEntry
  <2>1. CASE Ended(Fail("error"))
    BY <1>14, <2>1, EndSteps DEF FillSubFileEntry
  <2>2. CASE /\ file_entries' = file_entries - 1
             /\ request' = [request EXCEPT !.sub = FALSE, !.index = @ + 1,
                  !.listed = Append(@, FromFileEntryPath(SubEntries[request.index].name))]
    <3>1. RequestShape' /\ request'.temporary = request.temporary /\ request'.sub = FALSE
      BY <1>14, <2>2 DEF FillSubFileEntry
    <3>2. Holding'
      BY <1>14, <2>2 DEF FillSubFileEntry, Holding
    <3>3. HeldByRequest(request') = HeldByRequest(request) - 1
      BY <1>14, <3>1 DEF FillSubFileEntry, HeldByRequest
    <3> QED BY <1>14, <2>2, <3>1, <3>2, <3>3, Numbers, RequestSteps DEF FillSubFileEntry
  <2> QED BY <1>14, <2>1, <2>2 DEF FillSubFileEntry
<1>15. CASE NotFound
  <2>1. request' \in {Answer("no entry"), Fail("no entry")}
    BY <1>15 DEF NotFound
  <2>2. RequestShape' /\ Holding' /\ HeldByRequest(request') = HeldByRequest(request)
    BY <1>15, <2>1 DEF NotFound, Answer, Fail, Holding, HeldByRequest
  <2>3. context' = context /\ Len(calls) \in Nat
    BY <1>15, Numbers DEF NotFound
  <2>4. CASE lookup.result = 0
    <3>1. file_entries' = file_entries + 1 /\ lost' = lost + 1
      BY <1>15, <2>4 DEF NotFound
    <3>2. file_entries' = Cardinality(OpenContexts(context')) + HeldByRequest(request')
                           + Len(calls) + lost'
      BY <2>2, <2>3, <3>1, Numbers
    <3> QED BY <2>2, <2>3, <3>1, <3>2, Numbers, ContextSteps
  <2>5. CASE lookup.result # 0
    <3>1. file_entries' = file_entries /\ lost' = lost
      BY <1>15, <2>5 DEF NotFound
    <3> QED BY <2>2, <2>3, <3>1, Numbers, RequestSteps
  <2> QED BY <2>4, <2>5
<1>16. CASE Found
  <2> DEFINE opened == Opened(request.op, MadeFileEntry)
  <2>1. /\ request.temporary = Closed /\ request.sub = FALSE
        /\ opened # Closed
    BY <1>16 DEF Found, Holding, Opened, Closed
  <2>2. CASE request.op \in OpenOps
    <3>1. request.context \in Contexts /\ context[request.context] = Closed
      BY <1>16, <2>2 DEF Found, Holding
    <3>2. request' = Answer("ok") /\ context' = [context EXCEPT ![request.context] = opened]
      BY <1>16, <2>2 DEF Found
    <3>3. RequestShape' /\ Holding' /\ HeldByRequest(request') = HeldByRequest(request)
      BY <2>1, <3>2 DEF Answer, Holding, HeldByRequest
    <3>4. Cardinality(OpenContexts(context')) = Cardinality(OpenContexts(context)) + 1
      BY <2>1, <3>1, <3>2, ContextOpened
    <3>5. context' = [c \in Contexts |-> context'[c]]
      BY <3>2
    <3>6. file_entries' = file_entries + 1 /\ lost' = lost
      BY <1>16 DEF Found
    <3>7. file_entries' = Cardinality(OpenContexts(context')) + HeldByRequest(request')
                           + Len(calls) + lost'
      BY <3>3, <3>4, <3>6, Numbers
    <3> QED BY <3>3, <3>5, <3>6, <3>7, Numbers, ContextSteps
  <2>3. CASE request.op \notin OpenOps
    <3>1. /\ request' = [request EXCEPT !.temporary = opened,
                           !.state = IF request.op = "FindFiles" THEN "list" ELSE "stat"]
          /\ context' = context
      BY <1>16, <2>3 DEF Found
    <3>2. /\ RequestShape'
          /\ request'.state \in {"list", "stat"}
          /\ request'.temporary = opened
          /\ request'.sub = FALSE
      BY <2>1, <3>1
    <3>3. Holding'
      BY <3>2 DEF Holding
    <3>4. HeldByRequest(request') = HeldByRequest(request) + 1
      BY <2>1, <3>2 DEF HeldByRequest
    <3> QED BY <1>16, <3>1, <3>2, <3>3, <3>4, Numbers, RequestSteps DEF Found
  <2> QED BY <2>2, <2>3
<1>17. CASE CloseFile
  <2>1. PICK c \in Contexts : /\ context[c].op \in {"open", "CreateFile"}
                              /\ context' = [context EXCEPT ![c] = Closed]
    BY <1>17 DEF CloseFile
  <2>2. context[c] # Closed
    BY <2>1 DEF Closed
  <2>3. Cardinality(OpenContexts(context')) = Cardinality(OpenContexts(context)) - 1
    BY <2>1, <2>2, ContextClosed
  <2>4. /\ context' = [d \in Contexts |-> context'[d]]
        /\ RequestShape' /\ Holding' /\ HeldByRequest(request') = HeldByRequest(request)
    BY <1>17, <2>1 DEF CloseFile, MayRequest, Holding, OpenOps, HeldByRequest
  <2>5. file_entries' = file_entries - 1 /\ lost' = lost
    BY <1>17 DEF CloseFile
  <2>6. file_entries' = Cardinality(OpenContexts(context')) + HeldByRequest(request')
                         + Len(calls) + lost'
    BY <2>3, <2>4, <2>5, Numbers
  <2> QED BY <2>4, <2>5, <2>6, Numbers, ContextSteps
<1>18. CASE ReleaseDirectory
  <2>1. PICK c \in Contexts : /\ context[c].op = "opendir"
                              /\ context' = [context EXCEPT ![c] = Closed]
    BY <1>18 DEF ReleaseDirectory
  <2>2. context[c] # Closed
    BY <2>1 DEF Closed
  <2>3. Cardinality(OpenContexts(context')) = Cardinality(OpenContexts(context)) - 1
    BY <2>1, <2>2, ContextClosed
  <2>4. /\ context' = [d \in Contexts |-> context'[d]]
        /\ RequestShape' /\ Holding' /\ HeldByRequest(request') = HeldByRequest(request)
    BY <1>18, <2>1 DEF ReleaseDirectory, MayRequest, Holding, OpenOps, HeldByRequest
  <2>5. file_entries' = file_entries /\ lost' = lost + 1
    BY <1>18 DEF ReleaseDirectory
  <2>6. file_entries' = Cardinality(OpenContexts(context')) + HeldByRequest(request')
                         + Len(calls) + lost'
    BY <2>3, <2>4, <2>5, Numbers
  <2> QED BY <2>4, <2>5, <2>6, Numbers, ContextSteps
<1> QED
  BY <1>1, <1>2, <1>3, <1>4, <1>5, <1>6, <1>7, <1>8, <1>9, <1>10, <1>11, <1>12,
     <1>13, <1>14, <1>15, <1>16, <1>17, <1>18 DEF MountNext, Serve

-----------------------------------------------------------------------------
(* The steps of the info tool.                                             *)
LEMMA InfoInvariant ==
  ASSUME Inv, InfoNext
  PROVE  Inv'
<1> DEFINE S == {calls[i] : i \in DOMAIN calls}
<1>a. calls \in Seq(S) /\ Len(calls) \in Nat
  BY DEF Inv, Shape
<1>b. calls # <<>> => Len(calls) \in 1 .. Len(calls)
  BY <1>a
<1>1. CASE PrintHierarchy
  <2>1. calls = <<>>
    BY <1>1 DEF PrintHierarchy, Inv, Printing
  <2>2. /\ calls' \in Seq({calls'[i] : i \in DOMAIN calls'})
        /\ Len(calls') = Len(calls) + 1
    BY <1>1, <2>1 DEF PrintHierarchy
  <2>3. Printing'
    BY <1>1 DEF PrintHierarchy, Printing
  <2> QED BY <1>1, <2>2, <2>3, CallsStep DEF PrintHierarchy
<1>2. CASE PrintByPath \/ PrintByIdentifier \/ PrintVolume \/ WalkByPath \/ PrintFound \/ CloseInput
  <2>1. UNCHANGED <<tool, lost, context, request, calls, file_entries>>
    BY <1>2 DEF PrintByPath, PrintByIdentifier, PrintVolume, WalkByPath, PrintFound, CloseInput,
                mountVars, infoVars
  <2>2. Printing'
    BY <1>2 DEF PrintByPath, PrintByIdentifier, PrintVolume, WalkByPath, PrintFound, CloseInput,
                infoVars, Inv, Printing
  <2>3. Shape' /\ Holding'
    BY <2>1 DEF Inv, Shape, RequestShape, Holding, OpenOps
  <2>4. FileEntriesAccounted'
    BY <2>1 DEF Inv, FileEntriesAccounted, Held
  <2> QED BY <2>2, <2>3, <2>4 DEF Inv
<1>3. CASE FailHierarchy
  <2>1. calls' = <<>> /\ Printing'
    BY <1>3 DEF FailHierarchy, Printing
  <2>2. calls' \in Seq({calls'[i] : i \in DOMAIN calls'}) /\ Len(calls') = Len(calls) + (- Len(calls))
    BY <1>a, <2>1
  <2>3. file_entries' = file_entries + (- Len(calls))
    BY <1>3, <1>a, Numbers DEF FailHierarchy
  <2> QED BY <1>3, <1>a, <2>1, <2>2, <2>3, CallsStep DEF FailHierarchy
<1>4. CASE DigestBlock \/ PrintFileEntry
  <2>1. PICK value : calls' = [calls EXCEPT ![Len(calls)] = value]
    BY <1>4 DEF DigestBlock, PrintFileEntry
  <2>2. calls # <<>> /\ UNCHANGED <<info, tool, lost, context, request, file_entries>>
    BY <1>4 DEF DigestBlock, PrintFileEntry
  <2>3. calls' \in Seq(S \cup {value}) /\ Len(calls') = Len(calls)
    BY <1>a, <1>b, <2>1, <2>2, SequenceExcept
  <2>4. calls' \in Seq({calls'[i] : i \in DOMAIN calls'})
    BY <2>3, SequenceShape
  <2>5. Printing'
    BY <2>2, <2>1 DEF Inv, Printing
  <2>6. Len(calls') = Len(calls) + 0 /\ file_entries' = file_entries + 0
    BY <1>a, <2>2, <2>3, Numbers
  <2> QED BY <2>2, <2>4, <2>5, <2>6, CallsStep
<1>5. CASE CallForSubFileEntry
  <2>1. PICK new : calls' = Append(calls, new)
    BY <1>5 DEF CallForSubFileEntry
  <2>2. calls' \in Seq(S \cup {new}) /\ Len(calls') = Len(calls) + 1
    BY <1>a, <2>1
  <2>3. calls' \in Seq({calls'[i] : i \in DOMAIN calls'})
    BY <2>2, SequenceShape
  <2>4. Printing'
    BY <1>5 DEF CallForSubFileEntry, Inv, Printing
  <2>5. file_entries' = file_entries + 1 /\ UNCHANGED <<tool, lost, context, request>>
    BY <1>5 DEF CallForSubFileEntry
  <2>6. 1 \in Int
    OBVIOUS
  <2> QED BY SMTT(30), <2>2, <2>3, <2>4, <2>5, <2>6, CallsStep
<1>6. CASE ReturnFromCall
  <2> DEFINE n == 0 - 1
  <2>1. calls # <<>> /\ n \in Int /\ UNCHANGED <<tool, lost, context, request>>
    BY <1>6 DEF ReturnFromCall
  <2>2. CASE Len(calls) = 1
    <3>1. calls' = <<>> /\ info' = "close"
      BY <1>6, <2>2 DEF ReturnFromCall
    <3>2. calls' \in Seq({calls'[i] : i \in DOMAIN calls'}) /\ Len(calls') = Len(calls) + n
      BY <2>2, <3>1
    <3>3. Printing'
      BY <3>1 DEF Printing
    <3>4. file_entries' = file_entries + n
      BY <1>6, Numbers DEF ReturnFromCall
    <3> QED BY <2>1, <3>2, <3>3, <3>4, CallsStep
  <2>3. CASE Len(calls) # 1
    <3>1. Front(calls) \in Seq(S) /\ Len(Front(calls)) = Len(calls) - 1
      BY <1>a, <2>1, SequenceFront
    <3>2. Len(calls) - 1 \in 1 .. Len(Front(calls))
      BY <1>a, <1>b, <2>1, <2>3, <3>1
    <3>3. PICK value : calls' = [Front(calls) EXCEPT ![Len(calls) - 1] = value]
      BY <1>6, <2>3 DEF ReturnFromCall
    <3>4. calls' \in Seq(S \cup {value}) /\ Len(calls') = Len(calls) - 1
      BY <3>1, <3>2, <3>3, SequenceExcept
    <3>5. calls' \in Seq({calls'[i] : i \in DOMAIN calls'})
      BY <3>4, SequenceShape
    <3>6. Len(calls') = Len(calls) + n
      BY <1>a, <3>4
    <3>7. Printing'
      BY <1>6, <2>1, <2>3 DEF ReturnFromCall, Inv, Printing
    <3>8. file_entries' = file_entries + n
      BY <1>6, Numbers DEF ReturnFromCall
    <3> QED BY <2>1, <3>5, <3>6, <3>7, <3>8, CallsStep
  <2> QED BY <2>2, <2>3
<1> QED
  BY <1>1, <1>2, <1>3, <1>4, <1>5, <1>6 DEF InfoNext, InfoStep

LEMMA StepAccounted == Inv /\ [Next]_vars => Inv'
<1> SUFFICES ASSUME Inv, [Next]_vars PROVE Inv'
  OBVIOUS
<1>1. CASE MountNext /\ UNCHANGED <<infoVars, pythonVars>>
  BY <1>1, MountInvariant
<1>2. CASE InfoNext /\ UNCHANGED pythonVars
  BY <1>2, InfoInvariant
<1>3. CASE UNCHANGED toolVars
  <2>1. UNCHANGED <<tool, lost, context, request, calls, info, file_entries>>
    BY <1>3 DEF toolVars, mountVars, infoVars
  <2>2. Shape' /\ Printing' /\ Holding' /\ FileEntriesAccounted'
    BY <2>1 DEF Inv, Shape, RequestShape, Printing, Holding, OpenOps, FileEntriesAccounted, Held
  <2> QED BY <2>2 DEF Inv
<1> QED BY <1>1, <1>2, <1>3 DEF Next, vars

(* Every file entry that the tools have been given is held by a context, by*)
(* the request that is served or by a call that prints, or it is lost in   *)
(* one of the two ways the mount tool has (mount_handle.c:866,             *)
(* mount_fuse.c:1012): whatever the host asks for, in whatever order, and  *)
(* whichever call fails, none is freed twice and no other is lost.         *)
THEOREM EntriesAccounted == Spec => []FileEntriesAccounted
<1>1. Inv => FileEntriesAccounted
  BY DEF Inv
<1> QED BY <1>1, InitAccounted, StepAccounted, PTL DEF Spec

-----------------------------------------------------------------------------
(* The walk along a path.                                                  *)

(* While a walk goes on, the directory its entry was found in has not been *)
(* given up by the cache; without an entry it is at the root directory;    *)
(* and what it takes for the next directory can be read.                   *)
Walking ==
  lookup.state = "walk" =>
    /\ lookup.owner # Freed
    /\ lookup.entry = NoEntry => lookup.directory = Root
    /\ lookup.directory # Root => lookup.cluster \in DOMAIN Content

LookupShape ==
  lookup = [state |-> lookup.state, path |-> lookup.path, index |-> lookup.index,
            directory |-> lookup.directory, entry |-> lookup.entry, owner |-> lookup.owner,
            cluster |-> lookup.cluster, result |-> lookup.result]

LookupInv == LookupShape /\ Walking /\ NothingDangles

LEMMA FirstNatural ==
  ASSUME NEW T, T \subseteq Nat, T # {}
  PROVE  \E i \in T : \A j \in T : i <= j
<1>1. IsWellFoundedOn(OpToRel(<, Nat), Nat)
  BY NatLessThanWellFounded
<1>2. PICK i \in T : \A j \in T : ~ (<<j, i>> \in OpToRel(<, Nat))
  BY <1>1, WFMin
<1>3. \A j \in T : ~ (j < i)
  BY <1>2 DEF OpToRel
<1> QED BY <1>3

(* An entry that is found has a cluster that can be read.                  *)
LEMMA EntryFound ==
  ASSUME NEW directory \in DOMAIN Content, NEW string,
         EntryByName(directory, string) # NoEntry
  PROVE  EntryByName(directory, string).cluster \in DOMAIN Content
<1> DEFINE content == Content[directory]
           same == {i \in DOMAIN content : SameName(content[i].name, string)}
<1>1. same # {} /\ same \subseteq Nat
  BY PathLookupAssumption DEF EntryByName
<1>2. \E i \in same : \A j \in same : i <= j
  BY <1>1, FirstNatural
<1>3. PICK i \in DOMAIN content : EntryByName(directory, string) = content[i]
  BY <1>1, <1>2 DEF EntryByName
<1> QED BY <1>3, PathLookupAssumption

LEMMA NewLookupCorrect ==
  ASSUME NEW path, lookup' = NewLookup(path)
  PROVE  LookupInv'
BY DEF NewLookup, LookupInv, LookupShape, Walking, NothingDangles, NoEntry, Null, Freed

LEMMA NoLookupCorrect ==
  ASSUME lookup' = NoLookup
  PROVE  LookupInv'
BY DEF NoLookup, NewLookup, LookupInv, LookupShape, Walking, NothingDangles

LEMMA LookupStepCorrect ==
  ASSUME LookupInv, LookupStep
  PROVE  LookupInv'
<1> USE DEF LookupInv
<1>1. CASE EmptySegment
  <2>1. PICK cache : lookup' = [lookup EXCEPT !.directory = SegmentDirectory, !.state = "end",
          !.result = 0, !.index = SegmentEnd + 1, !.owner = Pointer(lookup.owner, cache)]
    BY <1>1 DEF EmptySegment
  <2>2. LookupShape' /\ lookup'.state = "end" /\ lookup'.result = 0
    BY <2>1 DEF LookupShape
  <2> QED BY <2>2 DEF Walking, NothingDangles
<1>2. CASE MissSegment
  <2>1. lookup' = [lookup EXCEPT !.directory = SegmentDirectory, !.state = "end", !.result = 0,
                     !.index = SegmentEnd + 1, !.entry = NoEntry, !.owner = Null]
    BY <1>2 DEF MissSegment
  <2>2. LookupShape' /\ lookup'.state = "end" /\ lookup'.result = 0
    BY <2>1 DEF LookupShape
  <2> QED BY <2>2 DEF Walking, NothingDangles
<1>3. CASE FindSegment
  <2> DEFINE entry == EntryByName(SegmentDirectory, Segment)
  <2>1. /\ entry # NoEntry
        /\ lookup' = [lookup EXCEPT
              !.directory = IF SegmentDirectory = Root THEN Null ELSE SegmentDirectory,
              !.index = SegmentEnd + 1, !.entry = entry, !.owner = SegmentDirectory,
              !.cluster = entry.cluster, !.result = 1]
    BY <1>3 DEF FindSegment
  <2>2. lookup.state = "walk"
    BY <1>3 DEF FindSegment, AtSegment
  <2>3. SegmentDirectory \in DOMAIN Content
    BY <2>2, PathLookupAssumption DEF Walking, SegmentDirectory
  <2>4. SegmentDirectory # Freed
    BY <2>3, PathLookupAssumption DEF Freed
  <2>5. entry.cluster \in DOMAIN Content
    BY <2>1, <2>3, EntryFound
  <2>6. /\ LookupShape'
        /\ lookup'.state = "walk" /\ lookup'.entry = entry
        /\ lookup'.owner = SegmentDirectory /\ lookup'.cluster = entry.cluster
    BY <2>1, <2>2 DEF LookupShape
  <2> QED BY <2>1, <2>4, <2>5, <2>6 DEF Walking, NothingDangles
<1>4. CASE FailSegment
  <2>1. LookupShape' /\ lookup'.state = "end" /\ lookup'.result = -1
    BY <1>4 DEF FailSegment, LookupShape
  <2> QED BY <2>1 DEF Walking, NothingDangles
<1>5. CASE EndPath
  <2>1. lookup.state = "walk"
    BY <1>5 DEF EndPath
  <2>2. /\ LookupShape'
        /\ lookup'.state = "end" /\ lookup'.owner = lookup.owner
        /\ lookup'.entry = lookup.entry /\ lookup'.directory = lookup.directory
    BY <1>5 DEF EndPath, LookupShape
  <2>3. NothingDangles'
    BY <2>1, <2>2 DEF Walking, NothingDangles, MadeFileEntry
  <2> QED BY <2>2, <2>3 DEF Walking
<1> QED BY <1>1, <1>2, <1>3, <1>4, <1>5 DEF LookupStep

LEMMA StepLookup == LookupInv /\ [Next]_vars => LookupInv'
<1> SUFFICES ASSUME LookupInv, [Next]_vars PROVE LookupInv'
  OBVIOUS
<1>1. CASE UNCHANGED lookup
  BY <1>1 DEF LookupInv, LookupShape, Walking, NothingDangles, MadeFileEntry
<1>2. CASE MountNext
  <2>1. \/ UNCHANGED lookup
        \/ lookup' = NoLookup
        \/ LookupStep
        \/ \E path : lookup' = NewLookup(path)
    BY <1>2 DEF MountNext, Serve, OpenVolume, Unmount, RefuseOpen, AskByPath, AskOpen, CloseFile,
                ReleaseDirectory, Walk, NotFound, FoundUnnamed, Found, Stat, ReadFile, StartList,
                GetSubFileEntry, FillSubFileEntry, EndList, Return, lookupVars
  <2> QED BY <1>1, <2>1, NoLookupCorrect, LookupStepCorrect, NewLookupCorrect
<1>3. CASE InfoNext
  <2>1. \/ UNCHANGED lookup
        \/ lookup' = NoLookup
        \/ LookupStep
        \/ \E path : lookup' = NewLookup(path)
    BY <1>3 DEF InfoNext, InfoStep, PrintHierarchy, PrintByPath, PrintByIdentifier, PrintVolume,
                FailHierarchy, DigestBlock, PrintFileEntry, CallForSubFileEntry, ReturnFromCall,
                WalkByPath, PrintFound, CloseInput, lookupVars
  <2> QED BY <1>1, <2>1, NoLookupCorrect, LookupStepCorrect, NewLookupCorrect
<1> QED BY <1>1, <1>2, <1>3 DEF Next, vars, toolVars, lookupVars

(* A file entry that a path leads to does not depend on the cache of       *)
(* directories, for every tree, every path and every size of the cache: the*)
(* entry is cloned from a directory that is still there, and the only      *)
(* directory that is borrowed is that of the root                          *)
(* (libfsfat_file_system.c:2885, 2899).                                    *)
THEOREM NoEntryDangles == Spec => []NothingDangles
<1>1. Init => LookupInv
  BY DEF Init, LookupInit, NoLookup, NewLookup, LookupInv, LookupShape, Walking, NothingDangles
<1>2. LookupInv => NothingDangles
  BY DEF LookupInv
<1> QED BY <1>1, <1>2, StepLookup, PTL DEF Spec
-----------------------------------------------------------------------------
(* What a path means.                                                      *)

(* A path is a sequence of characters.                                     *)
IsPath(path) == path \in Seq(ToSet(path))

(* Before its first place a path means the root directory.                 *)
NoMeaning == [start |-> 1, found |-> TRUE, cluster |-> Root, entry |-> NoEntry]

(* The loop over the places of a path, as far as place n.                  *)
MeansUpTo(path, n, meaning) ==
  meaning = [i \in 0 .. n |-> IF i = 0 THEN NoMeaning ELSE MeaningAfter(path, meaning[i - 1], i)]

LEMMA MeaningExists ==
  ASSUME NEW path, NEW n \in Nat
  PROVE  \E meaning : MeansUpTo(path, n, meaning)
<1> DEFINE Without == {k \in Nat : ~ \E meaning : MeansUpTo(path, k, meaning)}
<1> SUFFICES ASSUME Without # {} PROVE FALSE
  OBVIOUS
<1>1. PICK k \in Without : \A j \in Without : k <= j
  BY FirstNatural
<1>2. CASE k = 0
  <2>1. PICK meaning : meaning = [i \in 0 .. 0 |-> NoMeaning]
    OBVIOUS
  <2>2. MeansUpTo(path, 0, meaning)
    BY <2>1 DEF MeansUpTo
  <2> QED BY <1>1, <1>2, <2>2
<1>3. CASE k # 0
  <2>1. k - 1 \in Nat /\ ~ (k - 1 \in Without)
    BY <1>1, <1>3
  <2>2. PICK before : MeansUpTo(path, k - 1, before)
    BY <2>1
  <2>3. PICK last : last = MeaningAfter(path, before[k - 1], k)
    OBVIOUS
  <2>4. PICK meaning : meaning = [i \in 0 .. k |-> IF i = k THEN last ELSE before[i]]
    OBVIOUS
  <2>5. ASSUME NEW i \in 0 .. k
        PROVE  meaning[i] = IF i = 0 THEN NoMeaning ELSE MeaningAfter(path, meaning[i - 1], i)
    <3>1. CASE i = k
      <4>1. meaning[i] = last /\ meaning[i - 1] = before[k - 1]
        BY <1>1, <1>3, <2>4, <3>1
      <4> QED BY <1>3, <2>3, <3>1, <4>1
    <3>2. CASE i # k
      <4>1. i \in 0 .. k - 1 /\ meaning[i] = before[i]
        BY <1>1, <2>4, <3>2
      <4>2. i # 0 => meaning[i - 1] = before[i - 1]
        BY <1>1, <2>4, <3>2
      <4>3. before[i] = IF i = 0 THEN NoMeaning ELSE MeaningAfter(path, before[i - 1], i)
        BY <2>2, <4>1 DEF MeansUpTo
      <4> QED BY <4>1, <4>2, <4>3
    <3> QED BY <3>1, <3>2
  <2>6. MeansUpTo(path, k, meaning)
    BY <2>4, <2>5 DEF MeansUpTo
  <2> QED BY <1>1, <2>6
<1> QED BY <1>2, <1>3

(* Meaning is what its definition says.                                    *)
LEMMA MeaningIs ==
  ASSUME NEW path, IsPath(path)
  PROVE  /\ Meaning(path)[0] = NoMeaning
         /\ \A i \in 1 .. Len(path) + 1 :
              Meaning(path)[i] = MeaningAfter(path, Meaning(path)[i - 1], i)
<1>1. PICK n \in Nat : n = Len(path) + 1
  BY DEF IsPath
<1> DEFINE meaning[i \in 0 .. Len(path) + 1] ==
             IF i = 0 THEN NoMeaning ELSE MeaningAfter(path, meaning[i - 1], i)
<1>2. Meaning(path) = meaning
  BY DEF Meaning, NoMeaning
<1>3. meaning = [i \in 0 .. Len(path) + 1 |->
                   IF i = 0 THEN NoMeaning ELSE MeaningAfter(path, meaning[i - 1], i)]
  <2>1. \E f : f = [i \in 0 .. Len(path) + 1 |->
                      IF i = 0 THEN NoMeaning ELSE MeaningAfter(path, f[i - 1], i)]
    BY <1>1, MeaningExists DEF MeansUpTo
  <2> QED BY <2>1
<1> HIDE DEF meaning
<1>4. PICK f : f = meaning
  OBVIOUS
<1>5. f = [i \in 0 .. n |-> IF i = 0 THEN NoMeaning ELSE MeaningAfter(path, f[i - 1], i)]
  BY <1>1, <1>3, <1>4
<1>6. f[0] = NoMeaning /\ \A i \in 1 .. n : f[i] = MeaningAfter(path, f[i - 1], i)
  BY <1>5
<1> QED BY <1>1, <1>2, <1>4, <1>6

(* Within a name the meaning stays that of the names before it.            *)
LEMMA MeaningWithin ==
  ASSUME NEW path, IsPath(path), NEW a \in Nat, NEW b \in Nat, a <= b, b <= Len(path),
         \A j \in a + 1 .. b : path[j] # FileSystemSeparator
  PROVE  Meaning(path)[b] = Meaning(path)[a]
<1>0. Len(path) \in Nat
  BY DEF IsPath
<1> DEFINE Other == {k \in Nat : a <= k /\ k <= b /\ Meaning(path)[k] # Meaning(path)[a]}
<1> SUFFICES ASSUME Other # {} PROVE FALSE
  OBVIOUS
<1>1. PICK k \in Other : \A j \in Other : k <= j
  BY FirstNatural
<1>2. k # a
  BY <1>1
<1>3. k - 1 \in Nat /\ a <= k - 1 /\ k - 1 <= b /\ ~ (k - 1 \in Other)
  BY <1>1, <1>2
<1>4. Meaning(path)[k - 1] = Meaning(path)[a]
  BY <1>3
<1>5. k \in 1 .. Len(path) + 1 /\ k <= Len(path) /\ k \in a + 1 .. b
  BY <1>0, <1>1, <1>2
<1>6. Meaning(path)[k] = MeaningAfter(path, Meaning(path)[k - 1], k)
  BY <1>5, MeaningIs
<1>7. MeaningAfter(path, Meaning(path)[k - 1], k) = Meaning(path)[k - 1]
  BY <1>5 DEF MeaningAfter
<1> QED BY <1>1, <1>4, <1>6, <1>7

(* What a path means has its fields.                                       *)
IsMeaning(meaning) ==
  meaning = [start |-> meaning.start, found |-> meaning.found,
             cluster |-> meaning.cluster, entry |-> meaning.entry]

LEMMA MeaningGoesOn ==
  ASSUME NEW path, NEW meaning, IsMeaning(meaning), NEW i
  PROVE  /\ IsMeaning(MeaningAfter(path, meaning, i))
         /\ meaning.found = FALSE => MeaningAfter(path, meaning, i).found = FALSE
<1>1. PICK after : after = MeaningAfter(path, meaning, i)
  OBVIOUS
<1>2. CASE i <= Len(path) /\ path[i] # FileSystemSeparator
  <2>1. after = meaning
    BY <1>1, <1>2 DEF MeaningAfter
  <2> QED BY <1>1, <2>1
<1>3. CASE ~ (i <= Len(path) /\ path[i] # FileSystemSeparator)
  <2>1. CASE i = 1 \/ (i = Len(path) + 1 /\ meaning.start = i)
    <3>1. after = [meaning EXCEPT !.start = i + 1]
      BY <1>1, <1>3, <2>1 DEF MeaningAfter
    <3>2. IsMeaning(after) /\ after.found = meaning.found
      BY <3>1 DEF IsMeaning
    <3> QED BY <1>1, <3>2
  <2>2. CASE ~ (i = 1 \/ (i = Len(path) + 1 /\ meaning.start = i))
    <3>1. PICK entry : entry = IF meaning.found /\ SubSeq(path, meaning.start, i - 1) # <<>>
                                 THEN EntryByName(meaning.cluster, SubSeq(path, meaning.start, i - 1))
                                 ELSE NoEntry
      OBVIOUS
    <3>2. after = [start |-> i + 1, found |-> entry # NoEntry, cluster |-> entry.cluster,
                   entry |-> entry]
      BY <1>1, <1>3, <2>2, <3>1 DEF MeaningAfter
    <3>3. IsMeaning(after) /\ after.found = (entry # NoEntry)
      BY <3>2 DEF IsMeaning
    <3> QED BY <1>1, <3>1, <3>3
  <2> QED BY <2>1, <2>2
<1> QED BY <1>2, <1>3

LEMMA MeaningShape ==
  ASSUME NEW path, IsPath(path), NEW k \in Nat, k <= Len(path) + 1
  PROVE  IsMeaning(Meaning(path)[k])
<1>0. PICK n \in Nat : n = Len(path) + 1
  BY DEF IsPath
<1> DEFINE Not == {i \in Nat : i <= n /\ ~ IsMeaning(Meaning(path)[i])}
<1> SUFFICES ASSUME Not # {} PROVE FALSE
  BY <1>0
<1>1. PICK i \in Not : \A j \in Not : i <= j
  BY FirstNatural
<1>2. CASE i = 0
  <2>1. IsMeaning(Meaning(path)[0])
    BY MeaningIs DEF IsMeaning, NoMeaning
  <2> QED BY <1>1, <1>2, <2>1
<1>3. CASE i # 0
  <2>1. i - 1 \in Nat /\ i - 1 <= n /\ ~ (i - 1 \in Not) /\ i \in 1 .. n
    BY <1>1, <1>3
  <2>2. PICK before : before = Meaning(path)[i - 1]
    OBVIOUS
  <2>3. IsMeaning(before)
    BY <2>1, <2>2
  <2>4. Meaning(path)[i] = MeaningAfter(path, before, i)
    BY <1>0, <2>1, <2>2, MeaningIs
  <2>5. IsMeaning(MeaningAfter(path, before, i))
    BY <2>3, MeaningGoesOn
  <2> QED BY <1>1, <2>4, <2>5
<1> QED BY <1>2, <1>3

(* Names that lead nowhere lead nowhere with more names after them.        *)
Lost(meaning) == meaning.found = FALSE

LEMMA LostForGood ==
  ASSUME NEW path, IsPath(path), NEW a \in Nat, a <= Len(path) + 1,
         Lost(Meaning(path)[a])
  PROVE  Lost(Resolve(path))
<1>0. PICK n \in Nat : n = Len(path) + 1
  BY DEF IsPath
<1> DEFINE Again == {k \in Nat : a <= k /\ k <= n /\ ~ Lost(Meaning(path)[k])}
<1>1. Again = {}
  <2> SUFFICES ASSUME Again # {} PROVE FALSE
    OBVIOUS
  <2>1. PICK k \in Again : \A j \in Again : k <= j
    BY FirstNatural
  <2>2. k # a
    BY <2>1
  <2>3. k - 1 \in Nat /\ a <= k - 1 /\ k - 1 <= n /\ ~ (k - 1 \in Again) /\ k \in 1 .. n
    BY <1>0, <2>1, <2>2
  <2>4. PICK before : before = Meaning(path)[k - 1]
    OBVIOUS
  <2>5. Lost(before)
    BY <2>3, <2>4
  <2>6. IsMeaning(before)
    BY <1>0, <2>3, <2>4, MeaningShape
  <2>7. Meaning(path)[k] = MeaningAfter(path, before, k)
    BY <1>0, <2>3, <2>4, MeaningIs
  <2>8. Lost(MeaningAfter(path, before, k))
    BY <2>5, <2>6, MeaningGoesOn DEF Lost
  <2> QED BY <2>1, <2>7, <2>8
<1>2. a \in Nat /\ a <= n
  BY <1>0
<1>3. Lost(Meaning(path)[n])
  <2> SUFFICES ASSUME ~ Lost(Meaning(path)[n]) PROVE FALSE
    OBVIOUS
  <2>1. n \in Again
    BY <1>2
  <2> QED BY <1>1, <2>1
<1> QED BY <1>0, <1>3 DEF Resolve

-----------------------------------------------------------------------------
(* The walk finds what the path means.                                     *)

(* The walk has the meaning of the names that it has gone along: they lead *)
(* to its entry, and its directory for the next name is the one that entry *)
(* opens.  It is past the first name once it has an entry.                 *)
WalkMeans ==
  lookup.state = "walk" =>
    /\ IsPath(lookup.path)
    /\ lookup.index \in Nat \ {0}
    /\ lookup.index <= Len(lookup.path) + 2
    /\ Meaning(lookup.path)[lookup.index - 1] =
         [start |-> lookup.index, found |-> TRUE, cluster |-> SegmentDirectory,
          entry |-> lookup.entry]
    /\ lookup.entry = NoEntry =>
         /\ lookup.directory = Root
         /\ lookup.index = IF Len(lookup.path) > 0 /\ lookup.path[1] = FileSystemSeparator
                             THEN 2 ELSE 1
    /\ lookup.entry # NoEntry =>
         lookup.result = 1 /\ lookup.index > 1 /\ Len(lookup.path) > 1

PathInv == LookupShape /\ WalkMeans /\ PathResolved

LEMMA SegmentEnds ==
  ASSUME IsPath(lookup.path), lookup.index \in Nat \ {0}, lookup.index <= Len(lookup.path)
  PROVE  /\ SegmentEnd \in Nat
         /\ lookup.index <= SegmentEnd /\ SegmentEnd <= Len(lookup.path) + 1
         /\ SegmentEnd = Len(lookup.path) + 1 \/ lookup.path[SegmentEnd] = FileSystemSeparator
         /\ \A j \in lookup.index .. SegmentEnd - 1 : lookup.path[j] # FileSystemSeparator
<1>1. PICK n \in Nat : n = Len(lookup.path)
  BY DEF IsPath
<1>2. PICK first \in Nat : first = lookup.index
  OBVIOUS
<1> DEFINE Marks == {i \in Nat : first <= i /\ i <= n + 1
                                   /\ (i = n + 1 \/ lookup.path[i] = FileSystemSeparator)}
<1>3. n + 1 \in Marks
  BY <1>1, <1>2
<1>4. PICK i \in Marks : \A j \in Marks : i <= j
  BY <1>3, FirstNatural
<1>5. /\ i \in first .. n + 1
      /\ i = n + 1 \/ lookup.path[i] = FileSystemSeparator
      /\ \A j \in first .. i - 1 : lookup.path[j] # FileSystemSeparator
  <2>1. ASSUME NEW j \in first .. i - 1 PROVE lookup.path[j] # FileSystemSeparator
    <3>1. j \in Nat /\ first <= j /\ j <= n + 1 /\ ~ (j \in Marks)
      BY <1>4
    <3> QED BY <3>1
  <2> QED BY <1>4, <2>1
<1>6. PICK end : end = SegmentEnd
  OBVIOUS
<1>7. /\ end \in first .. n + 1
      /\ end = n + 1 \/ lookup.path[end] = FileSystemSeparator
      /\ \A j \in first .. end - 1 : lookup.path[j] # FileSystemSeparator
  BY <1>1, <1>2, <1>5, <1>6 DEF SegmentEnd
<1> QED BY <1>1, <1>2, <1>6, <1>7

(* The entry of a name: an empty one has none.                             *)
SegmentEntry ==
  IF Segment # <<>> THEN EntryByName(SegmentDirectory, Segment) ELSE NoEntry

(* What the path means after the segment.                                  *)
LEMMA SegmentMeans ==
  ASSUME LookupShape, WalkMeans, AtSegment
  PROVE  /\ SegmentEnd \in Nat
         /\ lookup.index <= SegmentEnd /\ SegmentEnd <= Len(lookup.path) + 1
         /\ Meaning(lookup.path)[SegmentEnd] =
              [start |-> SegmentEnd + 1, found |-> SegmentEntry # NoEntry,
               cluster |-> SegmentEntry.cluster, entry |-> SegmentEntry]
<1>1. PICK path : path = lookup.path /\ IsPath(path)
  BY DEF WalkMeans, AtSegment
<1>2. PICK n \in Nat : n = Len(path)
  BY <1>1 DEF IsPath
<1>3. PICK first \in Nat : first = lookup.index /\ first # 0 /\ first <= n /\ n > 1
  BY <1>1, <1>2 DEF WalkMeans, AtSegment
<1>4. PICK end \in Nat : end = SegmentEnd
  BY <1>1, <1>2, <1>3, SegmentEnds
<1>5. /\ first <= end /\ end <= n + 1
      /\ end = n + 1 \/ path[end] = FileSystemSeparator
      /\ \A j \in first .. end - 1 : path[j] # FileSystemSeparator
  BY <1>1, <1>2, <1>3, <1>4, SegmentEnds
<1>6. PICK before : before = Meaning(path)[first - 1]
  OBVIOUS
<1>7. before = [start |-> first, found |-> TRUE, cluster |-> SegmentDirectory,
                entry |-> lookup.entry]
  BY <1>1, <1>3, <1>6 DEF WalkMeans, AtSegment
<1>8. Meaning(path)[end - 1] = before
  <2>1. first - 1 \in Nat /\ end - 1 \in Nat /\ first - 1 <= end - 1 /\ end - 1 <= Len(path)
    BY <1>2, <1>3, <1>5
  <2>2. \A j \in (first - 1) + 1 .. end - 1 : path[j] # FileSystemSeparator
    BY <1>5
  <2> QED BY <1>1, <1>6, <2>1, <2>2, MeaningWithin
<1>9. Meaning(path)[end] = MeaningAfter(path, before, end)
  BY <1>1, <1>2, <1>3, <1>5, <1>8, MeaningIs
<1>10. end # 1
  <2> SUFFICES ASSUME end = 1 PROVE FALSE
    OBVIOUS
  <2>1. first = 1 /\ path[1] = FileSystemSeparator
    BY <1>3, <1>5
  <2> QED BY <1>1, <1>2, <1>3, <2>1 DEF WalkMeans, AtSegment
<1>11. ~ (end = n + 1 /\ before.start = end)
  BY <1>3, <1>7
<1>12. ~ (end <= n /\ path[end] # FileSystemSeparator)
  BY <1>5
<1>13. SubSeq(path, before.start, end - 1) = Segment /\ before.found = TRUE
        /\ before.cluster = SegmentDirectory
  BY <1>1, <1>3, <1>4, <1>7 DEF Segment
<1>14. PICK entry : entry = SegmentEntry
  OBVIOUS
<1>15. entry = IF before.found /\ SubSeq(path, before.start, end - 1) # <<>>
                 THEN EntryByName(before.cluster, SubSeq(path, before.start, end - 1))
                 ELSE NoEntry
  BY <1>13, <1>14 DEF SegmentEntry
<1>16. MeaningAfter(path, before, end) =
         [start |-> end + 1, found |-> entry # NoEntry, cluster |-> entry.cluster,
          entry |-> entry]
  BY <1>2, <1>10, <1>11, <1>12, <1>15 DEF MeaningAfter
<1> QED BY <1>1, <1>2, <1>3, <1>4, <1>5, <1>9, <1>14, <1>16

(* At the end of the path its meaning is that of the walk.                 *)
LEMMA PathMeans ==
  ASSUME LookupShape, WalkMeans, lookup.state = "walk",
         lookup.index > Len(lookup.path)
  PROVE  Resolve(lookup.path).found = TRUE /\ Resolve(lookup.path).entry = lookup.entry
<1>1. PICK path : path = lookup.path /\ IsPath(path)
  BY DEF WalkMeans
<1>2. PICK n \in Nat : n = Len(path)
  BY <1>1 DEF IsPath
<1>3. PICK i \in Nat : i = lookup.index /\ (i = n + 1 \/ i = n + 2)
  BY <1>1, <1>2 DEF WalkMeans
<1>4. PICK before : before = Meaning(path)[i - 1]
  OBVIOUS
<1>5. before = [start |-> i, found |-> TRUE, cluster |-> SegmentDirectory, entry |-> lookup.entry]
  BY <1>1, <1>3, <1>4 DEF WalkMeans
<1>6. CASE i = n + 2
  <2>1. Resolve(path) = before
    BY <1>2, <1>4, <1>6 DEF Resolve
  <2> QED BY <1>1, <1>5, <2>1
<1>7. CASE i = n + 1
  <2>1. Meaning(path)[i] = MeaningAfter(path, before, i)
    BY <1>1, <1>2, <1>4, <1>7, MeaningIs
  <2>2. MeaningAfter(path, before, i) = [before EXCEPT !.start = i + 1]
    BY <1>2, <1>5, <1>7 DEF MeaningAfter
  <2>3. Resolve(path) = [before EXCEPT !.start = i + 1]
    BY <1>2, <1>7, <2>1, <2>2 DEF Resolve
  <2> QED BY <1>1, <1>5, <2>3
<1> QED BY <1>3, <1>6, <1>7

-----------------------------------------------------------------------------
(* Paths of the host, turned into paths of the library.                    *)

(* The characters that the path of the library may have.                   *)
Characters(path) == ToSet(path) \cup {Separator} \cup Replaced \cup DOMAIN EightDigits

IsCopy(copy, S) ==
  /\ copy = [state |-> copy.state, text |-> copy.text]
  /\ copy.text \in Seq(S)

(* A character is copied to the end of the text, or nothing is.            *)
LEMMA CopyGoesOn ==
  ASSUME NEW S, NEW copy, IsCopy(copy, S), NEW c \in S,
         Separator \in S, Replaced \subseteq S, DOMAIN EightDigits \subseteq S
  PROVE  /\ IsCopy(CopyCharacter(copy, c), S)
         /\ \/ CopyCharacter(copy, c).text = copy.text
            \/ \E d \in S : CopyCharacter(copy, c).text = Append(copy.text, d)
<1>1. PICK after : after = CopyCharacter(copy, c)
  OBVIOUS
<1>2. \/ after = copy
      \/ \E state : after = [copy EXCEPT !.state = state]
      \/ \E d \in S : after = [state |-> "plain", text |-> Append(copy.text, d)]
  <2>1. CASE copy.state = "failed"
    BY <1>1, <2>1 DEF CopyCharacter
  <2>2. CASE copy.state = "plain"
    BY <1>1, <2>2 DEF CopyCharacter
  <2>3. CASE copy.state = "escape"
    BY <1>1, <2>3 DEF CopyCharacter
  <2>4. CASE copy.state \notin {"failed", "plain", "escape"}
    <3>1. PICK announced : announced = Announced(copy.state)
      OBVIOUS
    <3>2. PICK value : value = Coded(announced.codes, c)
      OBVIOUS
    <3>3. announced.allowed \subseteq S
      BY <3>1 DEF Announced
    <3>4. after = IF value \in announced.allowed
                    THEN [state |-> "plain", text |-> Append(copy.text, value)]
                    ELSE [copy EXCEPT !.state = "failed"]
      BY <1>1, <2>4, <3>1, <3>2 DEF CopyCharacter
    <3> QED BY <3>3, <3>4
  <2> QED BY <2>1, <2>2, <2>3, <2>4
<1>3. CASE after = copy
  BY <1>1, <1>3
<1>4. CASE \E state : after = [copy EXCEPT !.state = state]
  <2>1. PICK state : after = [copy EXCEPT !.state = state]
    BY <1>4
  <2>2. after = [state |-> state, text |-> copy.text]
    BY <2>1 DEF IsCopy
  <2> QED BY <1>1, <2>2 DEF IsCopy
<1>5. CASE \E d \in S : after = [state |-> "plain", text |-> Append(copy.text, d)]
  <2>1. PICK d \in S : after = [state |-> "plain", text |-> Append(copy.text, d)]
    BY <1>5
  <2>2. copy.text \in Seq(S) /\ Append(copy.text, d) \in Seq(S)
    BY DEF IsCopy
  <2> QED BY <1>1, <2>1, <2>2 DEF IsCopy
<1> QED BY <1>2, <1>3, <1>4, <1>5

(* The loop over the characters, as far as character n.                    *)
CopiesUpTo(path, n, copied) ==
  copied = [i \in 0 .. n |-> IF i = 0 THEN [state |-> "plain", text |-> <<>>]
                             ELSE CopyCharacter(copied[i - 1], path[i])]

LEMMA CopyExists ==
  ASSUME NEW path, NEW n \in Nat
  PROVE  \E copied : CopiesUpTo(path, n, copied)
<1> DEFINE Without == {k \in Nat : ~ \E copied : CopiesUpTo(path, k, copied)}
<1> SUFFICES ASSUME Without # {} PROVE FALSE
  OBVIOUS
<1>1. PICK k \in Without : \A j \in Without : k <= j
  BY FirstNatural
<1>2. CASE k = 0
  <2>1. PICK copied : copied = [i \in 0 .. 0 |-> [state |-> "plain", text |-> <<>>]]
    OBVIOUS
  <2>2. CopiesUpTo(path, 0, copied)
    BY <2>1 DEF CopiesUpTo
  <2> QED BY <1>1, <1>2, <2>2
<1>3. CASE k # 0
  <2>1. k - 1 \in Nat /\ ~ (k - 1 \in Without)
    BY <1>1, <1>3
  <2>2. PICK before : CopiesUpTo(path, k - 1, before)
    BY <2>1
  <2>3. PICK last : last = CopyCharacter(before[k - 1], path[k])
    OBVIOUS
  <2>4. PICK copied : copied = [i \in 0 .. k |-> IF i = k THEN last ELSE before[i]]
    OBVIOUS
  <2>5. ASSUME NEW i \in 0 .. k
        PROVE  copied[i] = IF i = 0 THEN [state |-> "plain", text |-> <<>>]
                           ELSE CopyCharacter(copied[i - 1], path[i])
    <3>1. CASE i = k
      <4>1. copied[i] = last /\ copied[i - 1] = before[k - 1]
        BY <1>1, <1>3, <2>4, <3>1
      <4> QED BY <1>3, <2>3, <3>1, <4>1
    <3>2. CASE i # k
      <4>1. i \in 0 .. k - 1 /\ copied[i] = before[i]
        BY <1>1, <2>4, <3>2
      <4>2. i # 0 => copied[i - 1] = before[i - 1]
        BY <1>1, <2>4, <3>2
      <4>3. before[i] = IF i = 0 THEN [state |-> "plain", text |-> <<>>]
                        ELSE CopyCharacter(before[i - 1], path[i])
        BY <2>2, <4>1 DEF CopiesUpTo
      <4> QED BY <4>1, <4>2, <4>3
    <3> QED BY <3>1, <3>2
  <2>6. CopiesUpTo(path, k, copied)
    BY <2>4, <2>5 DEF CopiesUpTo
  <2> QED BY <1>1, <2>6
<1> QED BY <1>2, <1>3

LEMMA CopiedIs ==
  ASSUME NEW path, IsPath(path)
  PROVE  /\ Copied(path)[0] = [state |-> "plain", text |-> <<>>]
         /\ \A i \in 1 .. Len(path) :
              Copied(path)[i] = CopyCharacter(Copied(path)[i - 1], path[i])
<1>1. PICK n \in Nat : n = Len(path)
  BY DEF IsPath
<1> DEFINE copied[i \in 0 .. Len(path)] ==
             IF i = 0 THEN [state |-> "plain", text |-> <<>>]
             ELSE CopyCharacter(copied[i - 1], path[i])
<1>2. Copied(path) = copied
  BY DEF Copied
<1>3. copied = [i \in 0 .. Len(path) |-> IF i = 0 THEN [state |-> "plain", text |-> <<>>]
                                         ELSE CopyCharacter(copied[i - 1], path[i])]
  <2>1. \E f : f = [i \in 0 .. Len(path) |-> IF i = 0 THEN [state |-> "plain", text |-> <<>>]
                                             ELSE CopyCharacter(f[i - 1], path[i])]
    BY <1>1, CopyExists DEF CopiesUpTo
  <2> QED BY <2>1
<1> HIDE DEF copied
<1>4. PICK f : f = copied
  OBVIOUS
<1>5. f = [i \in 0 .. n |-> IF i = 0 THEN [state |-> "plain", text |-> <<>>]
                            ELSE CopyCharacter(f[i - 1], path[i])]
  BY <1>1, <1>3, <1>4
<1>6. /\ f[0] = [state |-> "plain", text |-> <<>>]
      /\ \A i \in 1 .. n : f[i] = CopyCharacter(f[i - 1], path[i])
  BY <1>5
<1> QED BY <1>1, <1>2, <1>4, <1>6

(* The text of a path is one of characters and begins with a separator     *)
(* from the first character on.                                            *)
Begun(copy, S) == IsCopy(copy, S) /\ Len(copy.text) > 0 /\ copy.text[1] = Separator

LEMMA CopyBegins ==
  ASSUME NEW path, IsPath(path), path # <<>>, path[1] = PathSeparator,
         NEW k \in Nat, 1 <= k, k <= Len(path)
  PROVE  Begun(Copied(path)[k], Characters(path))
<1>0. PICK n \in Nat : n = Len(path) /\ n # 0
  BY DEF IsPath
<1> DEFINE Not == {i \in Nat : 1 <= i /\ i <= n /\ ~ Begun(Copied(path)[i], Characters(path))}
<1> SUFFICES ASSUME Not # {} PROVE FALSE
  BY <1>0
<1>1. PICK i \in Not : \A j \in Not : i <= j
  BY FirstNatural
<1>2. PICK before : before = Copied(path)[i - 1]
  OBVIOUS
<1>3. Copied(path)[i] = CopyCharacter(before, path[i])
  BY <1>0, <1>1, <1>2, CopiedIs
<1>4. PICK after : after = CopyCharacter(before, path[i])
  OBVIOUS
<1>5. CASE i = 1
  <2>1. before = [state |-> "plain", text |-> <<>>]
    BY <1>2, <1>5, CopiedIs
  <2>2. after = [state |-> "plain", text |-> Append(<<>>, Separator)]
    BY <1>4, <1>5, <2>1 DEF CopyCharacter
  <2>3. PICK text : text = <<Separator>>
    OBVIOUS
  <2>4. after = [state |-> "plain", text |-> text]
    BY <2>2, <2>3
  <2>5. text \in Seq(Characters(path)) /\ Len(text) > 0 /\ text[1] = Separator
    BY <2>3 DEF Characters
  <2>6. Begun(after, Characters(path))
    BY <2>4, <2>5 DEF Begun, IsCopy
  <2> QED BY <1>1, <1>3, <1>4, <2>6
<1>6. CASE i # 1
  <2>1. i - 1 \in Nat /\ 1 <= i - 1 /\ i - 1 <= n /\ ~ (i - 1 \in Not)
    BY <1>1, <1>6
  <2>2. Begun(before, Characters(path))
    BY <1>2, <2>1
  <2>3. IsCopy(before, Characters(path))
    BY <2>2 DEF Begun
  <2>4. path[i] \in Characters(path)
    BY <1>0, <1>1 DEF Characters, IsPath
  <2>5. /\ Separator \in Characters(path) /\ Replaced \subseteq Characters(path)
        /\ DOMAIN EightDigits \subseteq Characters(path)
    BY DEF Characters
  <2>6. /\ IsCopy(after, Characters(path))
        /\ \/ after.text = before.text
           \/ \E d \in Characters(path) : after.text = Append(before.text, d)
    <3>1. PICK S : S = Characters(path)
      OBVIOUS
    <3>2. PICK c \in S : c = path[i]
      BY <2>4, <3>1
    <3>3. IsCopy(before, S) /\ Separator \in S /\ Replaced \subseteq S /\ DOMAIN EightDigits \subseteq S
      BY <2>3, <2>5, <3>1
    <3>4. /\ IsCopy(CopyCharacter(before, c), S)
          /\ \/ CopyCharacter(before, c).text = before.text
             \/ \E d \in S : CopyCharacter(before, c).text = Append(before.text, d)
      BY <3>3, CopyGoesOn
    <3> QED BY <1>4, <3>1, <3>2, <3>4
  <2>7. Len(after.text) > 0 /\ after.text[1] = Separator
    BY <2>2, <2>6 DEF Begun, IsCopy
  <2>8. Begun(after, Characters(path))
    BY <2>6, <2>7 DEF Begun
  <2> QED BY <1>1, <1>3, <1>4, <2>8
<1> QED BY <1>5, <1>6

(* A path that is valid is turned into one that begins with a separator.   *)
LEMMA ConvertedPath ==
  ASSUME NEW path, IsPath(path), ToFileEntryPath(path).valid
  PROVE  /\ IsPath(ToFileEntryPath(path).text)
         /\ Len(ToFileEntryPath(path).text) > 0
         /\ ToFileEntryPath(path).text[1] = FileSystemSeparator
<1>1. PICK copy : copy = Copied(path)[Len(path)]
  OBVIOUS
<1>2. /\ path # <<>> /\ path[1] = PathSeparator
      /\ ToFileEntryPath(path).text = copy.text
  BY <1>1 DEF ToFileEntryPath
<1>3. Len(path) \in Nat /\ 1 <= Len(path) /\ Len(path) <= Len(path)
  BY <1>2 DEF IsPath
<1>4. Begun(copy, Characters(path))
  BY <1>1, <1>2, <1>3, CopyBegins
<1>5. PICK text : text = copy.text
  OBVIOUS
<1>6. text \in Seq(Characters(path)) /\ Len(text) > 0 /\ text[1] = Separator
  BY <1>4, <1>5 DEF Begun, IsCopy
<1>7. text \in Seq(ToSet(text))
  BY <1>6 DEF ToSet
<1> QED BY <1>2, <1>5, <1>6, <1>7 DEF IsPath, Separator, FileSystemSeparator

(* A path stays one without the separator at its end.                      *)
LEMMA WithoutSeparatorIsPath ==
  ASSUME NEW path, IsPath(path)
  PROVE  IsPath(WithoutSeparator(path))
<1>1. CASE WithoutSeparator(path) = path
  BY <1>1
<1>2. CASE WithoutSeparator(path) # path
  <2>1. WithoutSeparator(path) = Front(path) /\ Len(path) >= 2
    BY <1>2 DEF WithoutSeparator
  <2>2. path \in Seq(ToSet(path)) /\ path # <<>>
    BY <2>1 DEF IsPath
  <2>3. Front(path) \in Seq(ToSet(path))
    BY <2>2, SequenceFront
  <2>4. PICK front : front = Front(path)
    OBVIOUS
  <2>5. front \in Seq(ToSet(front))
    BY <2>3, <2>4 DEF ToSet
  <2> QED BY <2>1, <2>4, <2>5 DEF IsPath
<1> QED BY <1>1, <1>2

-----------------------------------------------------------------------------
(* The steps of a walk.                                                    *)

LEMMA ResolvedWhileWalking ==
  ASSUME LookupShape', WalkMeans', lookup'.state = "walk"
  PROVE  PathInv'
BY DEF PathInv, PathResolved

(* A walk that begins is at the first name of its path.                    *)
LEMMA NewLookupResolved ==
  ASSUME NEW path, IsPath(path), lookup' = NewLookup(path)
  PROVE  PathInv'
<1>1. /\ lookup'.state = "walk" /\ lookup'.path = path /\ lookup'.entry = NoEntry
      /\ lookup'.directory = Root /\ LookupShape'
      /\ lookup'.index = IF Len(path) > 0 /\ path[1] = FileSystemSeparator THEN 2 ELSE 1
  BY DEF NewLookup, LookupShape
<1>2. SegmentDirectory' = Root
  BY <1>1 DEF SegmentDirectory
<1>3. Len(path) \in Nat
  BY DEF IsPath
<1>4. Meaning(path)[0] = NoMeaning
  BY MeaningIs
<1>5. CASE Len(path) > 0 /\ path[1] = FileSystemSeparator
  <2>1. Meaning(path)[1] = MeaningAfter(path, NoMeaning, 1)
    BY <1>3, <1>4, <1>5, MeaningIs
  <2>2. MeaningAfter(path, NoMeaning, 1) = [NoMeaning EXCEPT !.start = 2]
    BY <1>5 DEF MeaningAfter
  <2>3. Meaning(path)[1] = [start |-> 2, found |-> TRUE, cluster |-> Root, entry |-> NoEntry]
    BY <2>1, <2>2 DEF NoMeaning
  <2>4. lookup'.index = 2 /\ 2 - 1 = 1
    BY <1>1, <1>5
  <2>5. WalkMeans'
    BY <1>1, <1>2, <1>3, <1>5, <2>3, <2>4 DEF WalkMeans
  <2> QED BY <1>1, <2>5, ResolvedWhileWalking
<1>6. CASE ~ (Len(path) > 0 /\ path[1] = FileSystemSeparator)
  <2>1. lookup'.index = 1 /\ lookup'.index - 1 = 0
    BY <1>1, <1>6
  <2>2. WalkMeans'
    <3>1. Meaning(lookup'.path)[lookup'.index - 1] =
            [start |-> lookup'.index, found |-> TRUE, cluster |-> SegmentDirectory',
             entry |-> lookup'.entry]
      BY <1>1, <1>2, <1>4, <2>1 DEF NoMeaning
    <3>2. lookup'.index \in Nat \ {0} /\ lookup'.index <= Len(lookup'.path) + 2
      BY <1>1, <1>3, <2>1
    <3> QED BY <1>1, <3>1, <3>2 DEF WalkMeans
  <2> QED BY <1>1, <2>2, ResolvedWhileWalking
<1> QED BY <1>5, <1>6

LEMMA NoLookupResolved ==
  ASSUME lookup' = NoLookup
  PROVE  PathInv'
BY DEF NoLookup, NewLookup, PathInv, LookupShape, WalkMeans, PathResolved

(* A walk that ends without an entry has been led nowhere.                 *)
LEMMA EndsWithoutEntry ==
  ASSUME PathInv, AtSegment, SegmentEntry = NoEntry,
         LookupShape', lookup'.state = "end", lookup'.result = 0, lookup'.path = lookup.path
  PROVE  PathInv'
<1>1. IsPath(lookup.path)
  BY DEF PathInv, WalkMeans, AtSegment
<1>2. PICK end \in Nat : end = SegmentEnd /\ end <= Len(lookup.path) + 1
  BY SegmentMeans DEF PathInv
<1>3. PICK meaning : meaning = Meaning(lookup.path)[end]
  OBVIOUS
<1>4. meaning = [start |-> end + 1, found |-> SegmentEntry # NoEntry,
                 cluster |-> SegmentEntry.cluster, entry |-> SegmentEntry]
  BY <1>2, <1>3, SegmentMeans DEF PathInv
<1>5. Lost(meaning)
  BY <1>4 DEF Lost
<1>6. Lost(Resolve(lookup.path))
  BY <1>1, <1>2, <1>3, <1>5, LostForGood
<1>7. Resolve(lookup'.path).found = FALSE
  BY <1>6 DEF Lost
<1>8. (lookup'.result = 1) = FALSE
  OBVIOUS
<1>9. PathResolved'
  BY <1>7, <1>8 DEF PathResolved
<1> QED BY <1>9 DEF PathInv, WalkMeans

LEMMA LookupStepResolved ==
  ASSUME PathInv, LookupStep
  PROVE  PathInv'
<1>1. CASE EmptySegment
  <2>1. PICK cache : lookup' = [lookup EXCEPT !.directory = SegmentDirectory, !.state = "end",
          !.result = 0, !.index = SegmentEnd + 1, !.owner = Pointer(lookup.owner, cache)]
    BY <1>1 DEF EmptySegment
  <2>2. LookupShape' /\ lookup'.state = "end" /\ lookup'.result = 0 /\ lookup'.path = lookup.path
    BY <2>1 DEF PathInv, LookupShape
  <2>3. AtSegment /\ SegmentEntry = NoEntry
    BY <1>1 DEF EmptySegment, SegmentEntry
  <2> QED BY <2>2, <2>3, EndsWithoutEntry
<1>2. CASE MissSegment
  <2>1. lookup' = [lookup EXCEPT !.directory = SegmentDirectory, !.state = "end", !.result = 0,
                     !.index = SegmentEnd + 1, !.entry = NoEntry, !.owner = Null]
    BY <1>2 DEF MissSegment
  <2>2. LookupShape' /\ lookup'.state = "end" /\ lookup'.result = 0 /\ lookup'.path = lookup.path
    BY <2>1 DEF PathInv, LookupShape
  <2>3. AtSegment /\ SegmentEntry = NoEntry
    BY <1>2 DEF MissSegment, SegmentEntry
  <2> QED BY <2>2, <2>3, EndsWithoutEntry
<1>3. CASE FindSegment
  <2>1. PICK entry : entry = SegmentEntry
    OBVIOUS
  <2>2. /\ entry # NoEntry /\ AtSegment
        /\ lookup' = [lookup EXCEPT
              !.directory = IF SegmentDirectory = Root THEN Null ELSE SegmentDirectory,
              !.index = SegmentEnd + 1, !.entry = entry, !.owner = SegmentDirectory,
              !.cluster = entry.cluster, !.result = 1]
    BY <1>3, <2>1 DEF FindSegment, SegmentEntry
  <2>3. /\ LookupShape'
        /\ lookup'.state = "walk" /\ lookup'.entry = entry /\ lookup'.path = lookup.path
        /\ lookup'.directory = IF SegmentDirectory = Root THEN Null ELSE SegmentDirectory
        /\ lookup'.cluster = entry.cluster /\ lookup'.result = 1
        /\ lookup'.index = SegmentEnd + 1
    BY <2>2 DEF PathInv, LookupShape, AtSegment
  <2>4. Root # Null
    BY PathLookupAssumption DEF Null
  <2>5. SegmentDirectory' = entry.cluster
    BY <2>3, <2>4 DEF SegmentDirectory
  <2>6. PICK end \in Nat : end = SegmentEnd
    BY <2>2, SegmentMeans DEF PathInv
  <2>7. /\ lookup.index <= end /\ end <= Len(lookup.path) + 1
        /\ Meaning(lookup.path)[end] = [start |-> end + 1, found |-> TRUE,
                                        cluster |-> entry.cluster, entry |-> entry]
    BY <2>1, <2>2, <2>6, SegmentMeans DEF PathInv
  <2>8. /\ IsPath(lookup.path) /\ Len(lookup.path) \in Nat /\ Len(lookup.path) > 1
        /\ lookup.index \in Nat \ {0}
    BY <2>2 DEF PathInv, WalkMeans, AtSegment, IsPath
  <2>9. lookup'.index \in Nat \ {0} /\ lookup'.index > 1 /\ lookup'.index - 1 = end
        /\ lookup'.index = end + 1 /\ lookup'.index <= Len(lookup.path) + 2
    BY <2>3, <2>6, <2>7, <2>8
  <2>10. WalkMeans'
    BY <2>2, <2>3, <2>5, <2>7, <2>8, <2>9 DEF WalkMeans
  <2> QED BY <2>3, <2>10, ResolvedWhileWalking
<1>4. CASE FailSegment
  <2>1. LookupShape' /\ lookup'.state = "end" /\ lookup'.result = -1
    BY <1>4 DEF FailSegment, PathInv, LookupShape
  <2> QED BY <2>1 DEF PathInv, WalkMeans, PathResolved
<1>5. CASE EndPath
  <2>1. /\ lookup.state = "walk"
        /\ lookup' = [lookup EXCEPT !.state = "end",
                        !.result = IF Len(lookup.path) <= 1 THEN 1 ELSE lookup.result]
    BY <1>5 DEF EndPath
  <2>2. /\ LookupShape'
        /\ lookup'.state = "end" /\ lookup'.path = lookup.path /\ lookup'.entry = lookup.entry
        /\ lookup'.result = IF Len(lookup.path) <= 1 THEN 1 ELSE lookup.result
    BY <2>1 DEF PathInv, LookupShape
  <2>3. PICK n \in Nat : n = Len(lookup.path)
    BY <2>1 DEF PathInv, WalkMeans, IsPath
  <2>4. n = 0 \/ n = 1 \/ n > 1
    OBVIOUS
  <2>5. PathResolved'
    <3> SUFFICES ASSUME n # 1 \/ lookup.path[1] = FileSystemSeparator
                 PROVE  PathResolved'
      BY <2>2, <2>3 DEF PathResolved
    <3>1. lookup.index > n
      <4>1. CASE n > 1
        BY <1>5, <2>3, <4>1 DEF EndPath
      <4>2. CASE ~ (n > 1)
        <5>1. lookup.entry = NoEntry
          BY <2>1, <2>3, <4>2 DEF PathInv, WalkMeans
        <5>2. lookup.index = IF n > 0 /\ lookup.path[1] = FileSystemSeparator THEN 2 ELSE 1
          BY <2>1, <2>3, <5>1 DEF PathInv, WalkMeans
        <5>3. n = 0 \/ n = 1
          BY <2>4, <4>2
        <5> QED BY <5>2, <5>3
      <4> QED BY <4>1, <4>2
    <3>2. Resolve(lookup.path).found = TRUE /\ Resolve(lookup.path).entry = lookup.entry
      BY <2>1, <2>3, <3>1, PathMeans DEF PathInv
    <3>3. lookup'.result = 1
      <4>1. CASE n <= 1
        BY <2>2, <2>3, <4>1
      <4>2. CASE n > 1
        <5>1. lookup.entry # NoEntry
          BY <2>1, <2>3, <3>1, <4>2 DEF PathInv, WalkMeans
        <5> QED BY <2>1, <2>2, <2>3, <4>2, <5>1 DEF PathInv, WalkMeans
      <4> QED BY <4>1, <4>2
    <3> QED BY <2>2, <3>2, <3>3 DEF PathResolved
  <2> QED BY <2>2, <2>5 DEF PathInv, WalkMeans
<1> QED BY <1>1, <1>2, <1>3, <1>4, <1>5 DEF LookupStep

(* What is looked up is a path.                                            *)
LEMMA AskedPath ==
  ASSUME AskByPath, mount_handle = "open" => tool \in {"fuse", "dokan"}
  PROVE  UNCHANGED lookup \/ \E path : IsPath(path) /\ lookup' = NewLookup(path)
<1>1. PICK path \in HostPaths[tool] :
        LET converted == ToFileEntryPath(WithoutSeparator(path))
        IN IF converted.valid THEN lookup' = NewLookup(converted.text) ELSE UNCHANGED lookup
  BY DEF AskByPath
<1>2. tool \in {"fuse", "dokan"}
  BY DEF AskByPath, MayRequest
<1>3. IsPath(path)
  BY <1>2, MountAssumption DEF IsPath
<1>4. IsPath(WithoutSeparator(path))
  BY <1>3, WithoutSeparatorIsPath
<1>5. CASE ToFileEntryPath(WithoutSeparator(path)).valid
  BY <1>1, <1>4, <1>5, ConvertedPath
<1>6. CASE ~ ToFileEntryPath(WithoutSeparator(path)).valid
  BY <1>1, <1>6
<1> QED BY <1>5, <1>6

(* Only the mount tool mounts, under one of its hosts.                     *)
Mounts == mount_handle # "none" => tool \in {"fuse", "dokan"}

LEMMA MountsStays == Mounts /\ [Next]_vars => Mounts'
<1> SUFFICES ASSUME Mounts, [Next]_vars PROVE Mounts'
  OBVIOUS
<1>1. UNCHANGED tool
  BY DEF Next, vars, toolVars, mountVars, MountNext, InfoNext, InfoStep, Serve, OpenVolume,
         Unmount, RefuseOpen, AskByPath, AskOpen, CloseFile, ReleaseDirectory, Walk, NotFound,
         FoundUnnamed, Found, Stat, ReadFile, StartList, GetSubFileEntry, FillSubFileEntry,
         EndList, Return, PrintHierarchy, PrintByPath, PrintByIdentifier, PrintVolume,
         FailHierarchy, DigestBlock, PrintFileEntry, CallForSubFileEntry, ReturnFromCall,
         WalkByPath, PrintFound, CloseInput
<1>2. UNCHANGED mount_handle \/ mount_handle # "none"
  BY DEF Next, vars, toolVars, mountVars, MountNext, InfoNext, InfoStep, Serve, OpenVolume,
         Unmount, RefuseOpen, AskByPath, AskOpen, CloseFile, ReleaseDirectory, Walk, NotFound,
         FoundUnnamed, Found, Stat, ReadFile, StartList, GetSubFileEntry, FillSubFileEntry,
         EndList, Return, PrintHierarchy, PrintByPath, PrintByIdentifier, PrintVolume,
         FailHierarchy, DigestBlock, PrintFileEntry, CallForSubFileEntry, ReturnFromCall,
         WalkByPath, PrintFound, CloseInput
<1> QED BY <1>1, <1>2 DEF Mounts

LEMMA StepResolved == Mounts /\ PathInv /\ [Next]_vars => PathInv'
<1> SUFFICES ASSUME Mounts, PathInv, [Next]_vars PROVE PathInv'
  OBVIOUS
<1>1. CASE UNCHANGED lookup
  BY <1>1 DEF PathInv, LookupShape, WalkMeans, PathResolved, SegmentDirectory
<1>2. CASE MountNext
  <2>1. CASE AskByPath
    BY <1>1, <2>1, AskedPath, NewLookupResolved DEF Mounts
  <2>2. CASE ~ AskByPath
    <3>1. UNCHANGED lookup \/ lookup' = NoLookup \/ LookupStep
      BY <1>2, <2>2 DEF MountNext, Serve, OpenVolume, Unmount, RefuseOpen, AskOpen, CloseFile,
                  ReleaseDirectory, Walk, NotFound, FoundUnnamed, Found, Stat, ReadFile,
                  StartList, GetSubFileEntry, FillSubFileEntry, EndList, Return, lookupVars
    <3> QED BY <1>1, <3>1, NoLookupResolved, LookupStepResolved
  <2> QED BY <2>1, <2>2
<1>3. CASE InfoNext
  <2>1. CASE PrintByPath
    <3>1. PICK path \in InfoPaths : lookup' = NewLookup(path)
      BY <2>1 DEF PrintByPath
    <3>2. IsPath(path)
      BY InfoAssumption DEF IsPath
    <3> QED BY <3>1, <3>2, NewLookupResolved
  <2>2. CASE ~ PrintByPath
    <3>1. UNCHANGED lookup \/ lookup' = NoLookup \/ LookupStep
      BY <1>3, <2>2 DEF InfoNext, InfoStep, PrintHierarchy, PrintByIdentifier, PrintVolume,
                FailHierarchy, DigestBlock, PrintFileEntry, CallForSubFileEntry, ReturnFromCall,
                WalkByPath, PrintFound, CloseInput, lookupVars
    <3> QED BY <1>1, <3>1, NoLookupResolved, LookupStepResolved
  <2> QED BY <2>1, <2>2
<1> QED BY <1>1, <1>2, <1>3 DEF Next, vars, toolVars, lookupVars

(* Whatever the tree and the path, and whatever the cache gives up during  *)
(* the walk: a walk that does not fail finds the entry that the names of   *)
(* the path lead to, and none if they lead nowhere                         *)
(* (libfsfat_file_system.c:2765).                                          *)
THEOREM PathsAreResolved == Spec => []PathResolved
<1>1. Init => Mounts /\ PathInv
  BY DEF Init, LookupInit, NoLookup, NewLookup, MountInit, Mounts, PathInv, LookupShape,
         WalkMeans, PathResolved
<1>2. PathInv => PathResolved
  BY DEF PathInv
<1> QED BY <1>1, <1>2, MountsStays, StepResolved, PTL DEF Spec

-----------------------------------------------------------------------------
(* Answers to requests by path.                                            *)

(* The path of a request, converted.                                       *)
Converted(path) == ToFileEntryPath(WithoutSeparator(path))

(* What a conversion gives depends on the host only.                       *)
LEMMA HostStays ==
  ASSUME UNCHANGED tool
  PROVE  /\ PathSeparator' = PathSeparator /\ EscapeCharacter' = EscapeCharacter
         /\ Replaced' = Replaced
<1>1. PathSeparator' = PathSeparator /\ EscapeCharacter' = EscapeCharacter
  BY DEF PathSeparator, EscapeCharacter
<1> QED BY <1>1 DEF Replaced

LEMMA CopyCharacterStays ==
  ASSUME UNCHANGED tool, NEW copy, NEW c
  PROVE  CopyCharacter(copy, c)' = CopyCharacter(copy, c)
<1>1. \A d : Announced(d)' = Announced(d)
  BY HostStays DEF Announced
<1> QED BY <1>1, HostStays DEF CopyCharacter

LEMMA CopiedStays ==
  ASSUME UNCHANGED tool, NEW path
  PROVE  Copied(path)' = Copied(path)
<1>1. \A copy, c : CopyCharacter(copy, c)' = CopyCharacter(copy, c)
  BY CopyCharacterStays
<1> QED BY <1>1 DEF Copied

LEMMA ToFileEntryPathStays ==
  ASSUME UNCHANGED tool, NEW path
  PROVE  ToFileEntryPath(path)' = ToFileEntryPath(path)
<1>1. Copied(path)' = Copied(path)
  BY CopiedStays
<1>2. PathSeparator' = PathSeparator
  BY HostStays
<1> QED BY <1>1, <1>2, Zenon DEF ToFileEntryPath

LEMMA ConvertedStays ==
  ASSUME UNCHANGED tool, NEW path
  PROVE  /\ Converted(path)' = Converted(path)
         /\ WithoutSeparator(path)' = WithoutSeparator(path)
<1>1. WithoutSeparator(path)' = WithoutSeparator(path)
  BY HostStays DEF WithoutSeparator
<1>2. PICK without : without = WithoutSeparator(path)
  OBVIOUS
<1>3. ToFileEntryPath(without)' = ToFileEntryPath(without)
  BY ToFileEntryPathStays
<1> QED BY <1>1, <1>2, <1>3, Zenon DEF Converted

(* A behaviour is the run of one program: the info tool or a host that     *)
(* asks the mount tool.                                                    *)
OneTool ==
  /\ tool # "info" => info = "closed"
  /\ request.state # "idle" => tool \in {"fuse", "dokan"}

LEMMA OneToolStays ==
  ASSUME Inv, Mounts, OneTool, [Next]_vars
  PROVE  OneTool' /\ UNCHANGED tool
<1>1. UNCHANGED tool
  BY DEF Next, vars, toolVars, mountVars, MountNext, InfoNext, InfoStep, Serve, OpenVolume,
         Unmount, RefuseOpen, AskByPath, AskOpen, CloseFile, ReleaseDirectory, Walk, NotFound,
         FoundUnnamed, Found, Stat, ReadFile, StartList, GetSubFileEntry, FillSubFileEntry,
         EndList, Return, PrintHierarchy, PrintByPath, PrintByIdentifier, PrintVolume,
         FailHierarchy, DigestBlock, PrintFileEntry, CallForSubFileEntry, ReturnFromCall,
         WalkByPath, PrintFound, CloseInput
<1>2. \/ MountNext /\ UNCHANGED info
      \/ InfoNext
      \/ UNCHANGED <<info, request>>
  BY DEF Next, vars, toolVars, mountVars, infoVars
<1>3. CASE UNCHANGED <<info, request>>
  BY <1>1, <1>3 DEF OneTool
<1>4. CASE InfoNext
  <2>1. info # "closed" /\ UNCHANGED request
    BY <1>4 DEF Inv, Printing, InfoNext, InfoStep, PrintHierarchy, PrintByPath,
                PrintByIdentifier, PrintVolume, FailHierarchy, DigestBlock, PrintFileEntry,
                CallForSubFileEntry, ReturnFromCall, WalkByPath, PrintFound, CloseInput, mountVars
  <2> QED BY <1>1, <2>1 DEF OneTool
<1>5. CASE MountNext /\ UNCHANGED info
  <2>1. CASE RefuseOpen \/ AskByPath \/ AskOpen
    <3>1. tool \in {"fuse", "dokan"}
      BY <2>1 DEF RefuseOpen, AskByPath, AskOpen, MayRequest, Mounts
    <3> QED BY <1>1, <1>5, <3>1 DEF OneTool
  <2>2. CASE ~ (RefuseOpen \/ AskByPath \/ AskOpen)
    <3>1. UNCHANGED request \/ request.state # "idle"
      BY <1>5, <2>2, RequestHolds
         DEF MountNext, Serve, OpenVolume, Unmount, CloseFile, ReleaseDirectory, Walk, NotFound,
             FoundUnnamed, Found, Stat, ReadFile, StartList, GetSubFileEntry, FillSubFileEntry,
             EndList, Return, Holding
    <3> QED BY <1>1, <1>5, <3>1 DEF OneTool
  <2> QED BY <2>1, <2>2
<1> QED BY <1>1, <1>2, <1>3, <1>4, <1>5

(* A request by path walks along the path that its own is converted to,    *)
(* which begins with a separator; once it has an entry of its own its path *)
(* leads somewhere.  A request that uses its context has no path.          *)
Answering ==
  /\ request.state = "lookup" =>
       /\ Converted(request.path).valid
       /\ lookup.path = Converted(request.path).text
       /\ Len(lookup.path) > 0 /\ lookup.path[1] = FileSystemSeparator
  /\ request.state \in {"stat", "list"} /\ request.path # <<>> =>
       /\ Converted(request.path).valid
       /\ Resolve(Converted(request.path).text).found = TRUE
       /\ request.op \notin OpenOps
  /\ request.state = "read" => request.path = <<>>

Answered == Answering /\ AnsweredByPath

(* What AnsweredByPath says, in terms of the path that is looked up.       *)
AnsweredRight ==
  /\ Converted(request.path).valid =>
       /\ (request.answer = "ok") = Resolve(Converted(request.path).text).found
       /\ request.answer = "ok" /\ request.op \in OpenOps =>
            /\ WithoutSeparator(request.path) = request.path
            /\ context[request.context].entry = Resolve(Converted(request.path).text).entry
  /\ ~ Converted(request.path).valid => request.answer = "no entry"

LEMMA RightIsAnswered ==
  ASSUME request.state = "done" /\ request.path # <<>> /\ ~ request.error => AnsweredRight
  PROVE  AnsweredByPath
BY DEF AnsweredByPath, AnsweredRight, Converted, Meant

(* The answer stays right while the request and what it opened stay.       *)
LEMMA StaysAnswered ==
  ASSUME Answered, UNCHANGED <<tool, request, context>>,
         request.state = "lookup" => lookup'.path = lookup.path
  PROVE  Answered'
<1>1. PICK path : path = request.path /\ path = request'.path
  OBVIOUS
<1>2. Converted(path)' = Converted(path) /\ WithoutSeparator(path)' = WithoutSeparator(path)
  BY ConvertedStays
<1>3. OpenOps' = OpenOps
  BY DEF OpenOps
<1>4. Answering'
  BY <1>1, <1>2, <1>3 DEF Answered, Answering
<1>5. ASSUME request.state = "done" /\ path # <<>> /\ ~ request.error
      PROVE  /\ Converted(path).valid =>
                  /\ (request.answer = "ok") = Resolve(Converted(path).text).found
                  /\ request.answer = "ok" /\ request.op \in OpenOps =>
                       context[request.context].entry = Meant(path).entry
             /\ ~ Converted(path).valid => request.answer = "no entry"
  BY <1>1, <1>5 DEF Answered, AnsweredByPath, Converted, Meant
<1>6. Meant(path)' = Meant(path)
  <2>1. ToFileEntryPath(path)' = ToFileEntryPath(path)
    BY ToFileEntryPathStays
  <2> QED BY <2>1 DEF Meant
<1>7. AnsweredByPath'
  BY <1>1, <1>2, <1>3, <1>5, <1>6 DEF AnsweredByPath, Converted, Meant
<1> QED BY <1>4, <1>7 DEF Answered

(* A request that is not done has no answer to be wrong.                   *)
LEMMA NotDone ==
  ASSUME Answering', request'.state # "done"
  PROVE  Answered'
BY DEF Answered, AnsweredByPath

LEMMA DoneRight ==
  ASSUME request'.state = "done",
         request'.path # <<>> /\ ~ request'.error => AnsweredRight'
  PROVE  Answered'
<1>1. Answering'
  BY DEF Answering
<1>2. AnsweredByPath'
  BY DEF AnsweredByPath, AnsweredRight, Converted, Meant
<1> QED BY <1>1, <1>2 DEF Answered

LEMMA EndAnswered ==
  ASSUME Inv, Answered, request.state \in {"stat", "list", "read"}, UNCHANGED <<tool, context>>,
         NEW answered \in {Answer("ok"), Fail("error")}, Ended(answered)
  PROVE  Answered'
<1>1. request' = [answered EXCEPT !.temporary = Closed, !.sub = FALSE]
  BY DEF Ended
<1>2. PICK path : path = request.path
  OBVIOUS
<1>3. /\ request'.state = "done" /\ request'.path = path /\ request'.op = request.op
      /\ request'.error \/ request'.answer = "ok"
  BY <1>1, <1>2, RequestHolds DEF RequestShape, Answer, Fail
<1>4. Converted(path)' = Converted(path) /\ OpenOps' = OpenOps
  BY ConvertedStays DEF OpenOps
<1>5. ASSUME path # <<>>, ~ request'.error PROVE AnsweredRight'
  <2>1. /\ Converted(path).valid
        /\ Resolve(Converted(path).text).found = TRUE
        /\ request.op \notin OpenOps
    BY <1>2, <1>5 DEF Answered, Answering
  <2>2. (request'.answer = "ok") = TRUE
    BY <1>3, <1>5
  <2> QED BY <1>3, <1>4, <2>1, <2>2 DEF AnsweredRight
<1> QED BY <1>3, <1>5, DoneRight

(* A list that goes on stays the same request.                             *)
LEMMA ListAnswered ==
  ASSUME Answered, request.state = "list", UNCHANGED <<tool, context>>,
         request'.state = request.state, request'.path = request.path, request'.op = request.op
  PROVE  Answered'
<1>1. PICK path : path = request.path
  OBVIOUS
<1>2. Converted(path)' = Converted(path) /\ OpenOps' = OpenOps
  BY ConvertedStays DEF OpenOps
<1>3. Answering'
  BY <1>1, <1>2 DEF Answered, Answering
<1> QED BY <1>3, NotDone

LEMMA AskAnswered ==
  ASSUME AskByPath, Mounts
  PROVE  Answered'
<1>1. PICK path \in HostPaths[tool], op \in OpenOps \cup QueryOps, c \in Contexts :
        LET converted == ToFileEntryPath(WithoutSeparator(path))
            asked == [Idle EXCEPT !.op = op, !.path = path, !.context = c]
        IN IF converted.valid
             THEN /\ request' = [asked EXCEPT !.state = "lookup"]
                  /\ lookup' = NewLookup(converted.text)
             ELSE request' = [asked EXCEPT !.state = "done", !.answer = "no entry"]
  BY DEF AskByPath
<1>2. UNCHANGED tool
  BY DEF AskByPath
<1>3. Converted(path)' = Converted(path)
  BY <1>2, ConvertedStays
<1>4. CASE Converted(path).valid
  <2>1. request'.state = "lookup" /\ request'.path = path
    BY <1>1, <1>4 DEF Converted, Idle
  <2>2. lookup'.path = Converted(path).text
    BY <1>1, <1>4 DEF Converted, NewLookup
  <2>3. Len(lookup'.path) > 0 /\ lookup'.path[1] = FileSystemSeparator
    <3>1. tool \in {"fuse", "dokan"}
      BY DEF AskByPath, MayRequest, Mounts
    <3>2. PICK without : without = WithoutSeparator(path)
      OBVIOUS
    <3>3. IsPath(without)
      BY <3>1, <3>2, MountAssumption, WithoutSeparatorIsPath DEF IsPath
    <3>4. ToFileEntryPath(without).valid
      BY <1>4, <3>2 DEF Converted
    <3> QED BY <2>2, <3>2, <3>3, <3>4, ConvertedPath DEF Converted
  <2>4. Answering'
    BY <1>3, <1>4, <2>1, <2>2, <2>3 DEF Answering
  <2> QED BY <2>1, <2>4, NotDone
<1>5. CASE ~ Converted(path).valid
  <2>1. request'.state = "done" /\ request'.path = path /\ request'.answer = "no entry"
    BY <1>1, <1>5 DEF Converted, Idle
  <2>2. AnsweredRight'
    BY <1>3, <1>5, <2>1 DEF AnsweredRight
  <2> QED BY <2>1, <2>2, DoneRight
<1> QED BY <1>4, <1>5

(* The walk of a request has ended.                                        *)
LEMMA LookedUp ==
  ASSUME PathInv, Answered, request.state = "lookup", lookup.state = "end",
         lookup.result # -1
  PROVE  /\ Converted(request.path).valid
         /\ (lookup.result = 1) = Resolve(Converted(request.path).text).found
         /\ lookup.result = 1 => lookup.entry = Resolve(Converted(request.path).text).entry
<1>1. /\ Converted(request.path).valid
      /\ lookup.path = Converted(request.path).text
      /\ Len(lookup.path) # 1 \/ lookup.path[1] = FileSystemSeparator
  BY DEF Answered, Answering
<1>2. /\ (lookup.result = 1) = Resolve(lookup.path).found
      /\ lookup.result = 1 => lookup.entry = Resolve(lookup.path).entry
  BY <1>1 DEF PathInv, PathResolved
<1> QED BY <1>1, <1>2

(* A walk that found an entry is answered with that entry.                 *)
LEMMA FoundAnswered ==
  ASSUME Inv, PathInv, Answered, Found
  PROVE  Answered'
<1>1. /\ request.state = "lookup" /\ lookup.state = "end" /\ lookup.result = 1
      /\ WithoutSeparator(request.path) = request.path
      /\ UNCHANGED tool
  BY DEF Found, NameFails
<1>2. PICK path : path = request.path
  OBVIOUS
<1>3. /\ Converted(path).valid
      /\ (1 = 1) = Resolve(Converted(path).text).found
      /\ lookup.entry = Resolve(Converted(path).text).entry
  BY <1>1, <1>2, LookedUp
<1>4. /\ Converted(path)' = Converted(path) /\ OpenOps' = OpenOps
      /\ WithoutSeparator(path)' = WithoutSeparator(path)
  BY <1>1, ConvertedStays DEF OpenOps
<1>5. CASE request.op \in OpenOps
  <2>1. /\ request' = Answer("ok")
        /\ context' = [context EXCEPT ![request.context] = Opened(request.op, MadeFileEntry)]
    BY <1>5 DEF Found
  <2>2. /\ request'.state = "done" /\ request'.path = path /\ request'.answer = "ok"
        /\ request'.context = request.context
    BY <1>2, <2>1, RequestHolds DEF Answer, RequestShape
  <2>3. request.context \in Contexts /\ context = [c \in Contexts |-> context[c]]
    BY <1>1, <1>5, RequestHolds DEF Holding
  <2>4. context'[request.context] = Opened(request.op, MadeFileEntry)
    BY <2>1, <2>3
  <2>5. context'[request'.context].entry = lookup.entry
    BY <2>2, <2>4 DEF Opened, MadeFileEntry
  <2>6. (request'.answer = "ok") = Resolve(Converted(path).text).found
    BY <1>3, <2>2
  <2>7. AnsweredRight'
    BY <1>1, <1>2, <1>3, <1>4, <2>2, <2>5, <2>6 DEF AnsweredRight
  <2> QED BY <2>2, <2>7, DoneRight
<1>6. CASE request.op \notin OpenOps
  <2>1. request' = [request EXCEPT !.temporary = Opened(request.op, MadeFileEntry),
                      !.state = IF request.op = "FindFiles" THEN "list" ELSE "stat"]
    BY <1>6 DEF Found
  <2>2. /\ request'.state \in {"stat", "list"} /\ request'.path = path
        /\ request'.op = request.op
    BY <1>2, <2>1, RequestHolds DEF RequestShape
  <2>3. Resolve(Converted(path).text).found = TRUE
    BY <1>3
  <2>4. Answering'
    BY <1>3, <1>4, <1>6, <2>2, <2>3 DEF Answering
  <2> QED BY <2>2, <2>4, NotDone
<1> QED BY <1>5, <1>6

(* A walk that found none, or failed, is answered without an entry.        *)
LEMMA NoneAnswered ==
  ASSUME Inv, PathInv, Answered, NotFound \/ FoundUnnamed
  PROVE  Answered'
<1>1. request.state = "lookup" /\ lookup.state = "end" /\ UNCHANGED tool
  BY DEF NotFound, FoundUnnamed
<1>2. PICK path : path = request.path
  OBVIOUS
<1>3. Converted(path)' = Converted(path)
  BY <1>1, ConvertedStays
<1>4. CASE request' = Fail("no entry")
  <2>1. request'.state = "done" /\ request'.error
    BY <1>4, RequestHolds DEF Fail, RequestShape
  <2> QED BY <2>1, DoneRight
<1>5. CASE request' = Answer("no entry") /\ lookup.result = 0
  <2>1. request'.state = "done" /\ request'.path = path /\ request'.answer = "no entry"
    BY <1>2, <1>5, RequestHolds DEF Answer, RequestShape
  <2>2. lookup.result # -1 /\ lookup.result # 1
    <3>1. 0 # -1 /\ 0 # 1
      OBVIOUS
    <3> QED BY <1>5, <3>1
  <2>3. /\ Converted(request.path).valid
        /\ (lookup.result = 1) = Resolve(Converted(request.path).text).found
    BY <1>1, <2>2, LookedUp
  <2>4. (request'.answer = "ok") = (lookup.result = 1)
    BY <2>1, <2>2
  <2>5. AnsweredRight'
    BY <1>2, <1>3, <2>1, <2>3, <2>4 DEF AnsweredRight
  <2> QED BY <2>1, <2>5, DoneRight
<1> QED BY <1>4, <1>5 DEF NotFound, FoundUnnamed

LEMMA MountAnswered ==
  ASSUME Inv, Mounts, PathInv, Answered, MountNext
  PROVE  Answered'
<1>1. CASE OpenVolume \/ Unmount
  BY <1>1, StaysAnswered DEF OpenVolume, Unmount, lookupVars
<1>2. CASE RefuseOpen
  <2>1. request'.state = "done" /\ request'.path = <<>>
    BY <1>2 DEF RefuseOpen, Idle
  <2> QED BY <2>1, DoneRight
<1>3. CASE AskByPath
  BY <1>3, AskAnswered
<1>4. CASE AskOpen
  <2>1. request'.state \in {"list", "read"} /\ request'.path = <<>>
    BY <1>4 DEF AskOpen, Idle
  <2>2. Answering'
    BY <2>1 DEF Answering
  <2> QED BY <2>1, <2>2, NotDone
<1>5. CASE CloseFile \/ ReleaseDirectory
  <2>1. request'.state = "idle"
    BY <1>5 DEF CloseFile, ReleaseDirectory, MayRequest
  <2>2. Answering'
    BY <2>1 DEF Answering
  <2> QED BY <2>1, <2>2, NotDone
<1>6. CASE Walk
  <2>1. lookup'.path = lookup.path
    BY <1>6 DEF Walk, LookupStep, EmptySegment, MissSegment, FindSegment, FailSegment, EndPath,
                PathInv, LookupShape
  <2> QED BY <1>6, <2>1, StaysAnswered DEF Walk, mountVars
<1>7. CASE NotFound \/ FoundUnnamed
  BY <1>7, NoneAnswered
<1>8. CASE Found
  BY <1>8, FoundAnswered
<1>9. CASE Stat \/ ReadFile
  BY <1>9, EndAnswered DEF Stat, ReadFile
<1>10. CASE StartList \/ GetSubFileEntry \/ FillSubFileEntry \/ EndList
  <2>1. request.state = "list" /\ UNCHANGED <<tool, context>>
    BY <1>10, RequestHolds DEF StartList, GetSubFileEntry, FillSubFileEntry, EndList, Holding
  <2>2. \/ \E answered \in {Answer("ok"), Fail("error")} : Ended(answered)
        \/ /\ request'.state = request.state /\ request'.path = request.path
           /\ request'.op = request.op
    BY <1>10, RequestHolds
       DEF StartList, GetSubFileEntry, FillSubFileEntry, EndList, RequestShape
  <2> QED BY <2>1, <2>2, EndAnswered, ListAnswered
<1>11. CASE Return
  <2>1. request'.state = "idle"
    BY <1>11 DEF Return, Idle
  <2>2. Answering'
    BY <2>1 DEF Answering
  <2> QED BY <2>1, <2>2, NotDone
<1> QED BY <1>1, <1>2, <1>3, <1>4, <1>5, <1>6, <1>7, <1>8, <1>9, <1>10, <1>11
        DEF MountNext, Serve

AnswerInv == Inv /\ Mounts /\ PathInv /\ OneTool /\ Answered

LEMMA StepAnswered == AnswerInv /\ [Next]_vars => AnswerInv'
<1> SUFFICES ASSUME Inv, Mounts, PathInv, OneTool, Answered, [Next]_vars
             PROVE  AnswerInv'
  BY DEF AnswerInv
<1>1. Inv' /\ Mounts' /\ PathInv' /\ OneTool'
  BY StepAccounted, MountsStays, StepResolved, OneToolStays
<1>2. Answered'
  <2>1. CASE UNCHANGED <<tool, request, context, lookup>>
    BY <2>1, StaysAnswered
  <2>2. CASE MountNext
    BY <2>2, MountAnswered
  <2>3. CASE InfoNext
    <3>1. info # "closed" /\ UNCHANGED <<tool, request, context>>
      BY <2>3 DEF Inv, Printing, InfoNext, InfoStep, PrintHierarchy, PrintByPath,
                  PrintByIdentifier, PrintVolume, FailHierarchy, DigestBlock, PrintFileEntry,
                  CallForSubFileEntry, ReturnFromCall, WalkByPath, PrintFound, CloseInput,
                  mountVars
    <3>2. request.state = "idle"
      BY <3>1 DEF OneTool
    <3> QED BY <3>1, <3>2, StaysAnswered
  <2> QED BY <2>1, <2>2, <2>3 DEF Next, vars, toolVars, mountVars, lookupVars
<1> QED BY <1>1, <1>2 DEF AnswerInv

LEMMA InitAnswered == Init => AnswerInv
<1> SUFFICES ASSUME Init PROVE AnswerInv
  OBVIOUS
<1>1. Mounts /\ PathInv
  BY DEF Init, LookupInit, NoLookup, NewLookup, MountInit, Mounts, PathInv, LookupShape,
         WalkMeans, PathResolved
<1>2. OneTool
  BY DEF Init, MountInit, InfoInit, Idle, OneTool
<1>3. Answered
  BY DEF Init, MountInit, Idle, Answered, Answering, AnsweredByPath
<1> QED BY <1>1, <1>2, <1>3, InitAccounted DEF AnswerInv

(* Under FUSE and under Dokan, for every path that the host asks for and   *)
(* whatever was asked before: a file is opened or described exactly if its *)
(* path, converted, leads to an entry of the volume, and the context holds *)
(* the entry of just that path (mount_fuse.c:357, mount_handle.c:848).     *)
THEOREM RequestsAreAnswered == Spec => []AnsweredByPath
<1>1. AnswerInv => AnsweredByPath
  BY DEF AnswerInv, Answered
<1> QED BY <1>1, InitAnswered, StepAnswered, PTL DEF Spec

-----------------------------------------------------------------------------
(* Names of a list, turned into paths again.                               *)

LEMMA SequenceIsPath ==
  ASSUME NEW S, NEW s \in Seq(S)
  PROVE  IsPath(s)
BY SequenceShape DEF IsPath, ToSet

(* The sequences that are joined, as far as sequence n.                    *)
JoinsUpTo(seqs, n, joined) ==
  joined = [i \in 1 .. n |-> IF i = 1 THEN seqs[i] ELSE joined[i - 1] \o seqs[i]]

LEMMA JoinsExist ==
  ASSUME NEW seqs, NEW n \in Nat
  PROVE  \E joined : JoinsUpTo(seqs, n, joined)
<1> DEFINE Without == {k \in Nat : ~ \E joined : JoinsUpTo(seqs, k, joined)}
<1> SUFFICES ASSUME Without # {} PROVE FALSE
  OBVIOUS
<1>1. PICK k \in Without : \A j \in Without : k <= j
  BY FirstNatural
<1>2. CASE k = 0
  <2>1. PICK joined : joined = [i \in 1 .. 0 |-> 0]
    OBVIOUS
  <2>2. JoinsUpTo(seqs, 0, joined)
    BY <2>1 DEF JoinsUpTo
  <2> QED BY <1>1, <1>2, <2>2
<1>3. CASE k # 0
  <2>1. k - 1 \in Nat /\ ~ (k - 1 \in Without)
    BY <1>1, <1>3
  <2>2. PICK before : JoinsUpTo(seqs, k - 1, before)
    BY <2>1
  <2>3. PICK last : last = IF k = 1 THEN seqs[k] ELSE before[k - 1] \o seqs[k]
    OBVIOUS
  <2>4. PICK joined : joined = [i \in 1 .. k |-> IF i = k THEN last ELSE before[i]]
    OBVIOUS
  <2>5. ASSUME NEW i \in 1 .. k
        PROVE  joined[i] = IF i = 1 THEN seqs[i] ELSE joined[i - 1] \o seqs[i]
    <3>1. CASE i = k
      <4>1. joined[i] = last /\ (i # 1 => joined[i - 1] = before[k - 1])
        BY <1>1, <1>3, <2>4, <3>1
      <4> QED BY <2>3, <3>1, <4>1
    <3>2. CASE i # k
      <4>1. i \in 1 .. k - 1 /\ joined[i] = before[i]
        BY <1>1, <2>4, <3>2
      <4>2. i # 1 => joined[i - 1] = before[i - 1]
        BY <1>1, <2>4, <3>2
      <4>3. before[i] = IF i = 1 THEN seqs[i] ELSE before[i - 1] \o seqs[i]
        BY <2>2, <4>1 DEF JoinsUpTo
      <4> QED BY <4>1, <4>2, <4>3
    <3> QED BY <3>1, <3>2
  <2>6. JoinsUpTo(seqs, k, joined)
    BY <2>4, <2>5 DEF JoinsUpTo
  <2> QED BY <1>1, <2>6
<1> QED BY <1>2, <1>3

LEMMA FlattenIs ==
  ASSUME NEW seqs, NEW n \in Nat, n # 0, Len(seqs) = n
  PROVE  \E joined : /\ FlattenSeq(seqs) = joined[n]
                     /\ joined[1] = seqs[1]
                     /\ \A i \in 2 .. n : joined[i] = joined[i - 1] \o seqs[i]
<1> DEFINE flatten[i \in 1 .. Len(seqs)] ==
             IF i = 1 THEN seqs[i] ELSE flatten[i - 1] \o seqs[i]
<1>1. FlattenSeq(seqs) = flatten[Len(seqs)]
  BY DEF FlattenSeq
<1>2. flatten = [i \in 1 .. Len(seqs) |-> IF i = 1 THEN seqs[i] ELSE flatten[i - 1] \o seqs[i]]
  <2>1. \E f : f = [i \in 1 .. Len(seqs) |-> IF i = 1 THEN seqs[i] ELSE f[i - 1] \o seqs[i]]
    BY JoinsExist DEF JoinsUpTo
  <2> QED BY <2>1
<1> HIDE DEF flatten
<1>3. PICK joined : joined = flatten
  OBVIOUS
<1>4. joined = [i \in 1 .. n |-> IF i = 1 THEN seqs[i] ELSE joined[i - 1] \o seqs[i]]
  BY <1>2, <1>3
<1>5. \A i \in 1 .. n : joined[i] = IF i = 1 THEN seqs[i] ELSE joined[i - 1] \o seqs[i]
  BY <1>4, Zenon
<1>6. joined[1] = seqs[1]
  BY <1>5
<1>7. \A i \in 2 .. n : i \in 1 .. n /\ i # 1
  OBVIOUS
<1>8. \A i \in 2 .. n : joined[i] = joined[i - 1] \o seqs[i]
  BY <1>5, <1>7, Zenon
<1> QED BY <1>1, <1>3, <1>6, <1>8

(* The characters of a path are copied whatever follows them.              *)
LEMMA CopyOfPrefix ==
  ASSUME NEW S, NEW p \in Seq(S), NEW q \in Seq(S), NEW k \in Nat, k <= Len(p)
  PROVE  Copied(p \o q)[k] = Copied(p)[k]
<1>1. PICK m \in Nat : m = Len(p)
  OBVIOUS
<1>2. PICK r \in Seq(S) : r = p \o q
  BY ConcatProperties
<1>3. /\ Len(r) \in Nat /\ m <= Len(r)
      /\ \A i \in 1 .. m : i \in 1 .. Len(r) /\ r[i] = p[i]
  BY <1>1, <1>2
<1>4. IsPath(p) /\ IsPath(r)
  BY SequenceIsPath
<1> DEFINE Not == {i \in Nat : i <= m /\ Copied(r)[i] # Copied(p)[i]}
<1> SUFFICES ASSUME Not # {} PROVE FALSE
  BY <1>1, <1>2
<1>5. PICK i \in Not : \A j \in Not : i <= j
  BY FirstNatural
<1>6. i \in Nat /\ i <= m /\ Copied(r)[i] # Copied(p)[i]
  BY <1>5
<1>7. CASE i = 0
  BY <1>4, <1>6, <1>7, CopiedIs
<1>8. CASE i # 0
  <2>1. i - 1 \in Nat /\ i - 1 <= m /\ ~ (i <= i - 1) /\ i \in 1 .. m
    BY <1>1, <1>6, <1>8
  <2>2. Copied(r)[i - 1] = Copied(p)[i - 1]
    BY <1>5, <2>1
  <2>3. Copied(p)[i] = CopyCharacter(Copied(p)[i - 1], p[i])
    BY <1>1, <1>4, <2>1, CopiedIs
  <2>4. Copied(r)[i] = CopyCharacter(Copied(r)[i - 1], r[i])
    BY <1>3, <1>4, <2>1, CopiedIs
  <2>5. r[i] = p[i]
    BY <1>3, <2>1
  <2> QED BY <1>6, <2>2, <2>3, <2>4, <2>5
<1> QED BY <1>7, <1>8

LEMMA CopyOfNext ==
  ASSUME NEW S, NEW p \in Seq(S), NEW q \in Seq(S), NEW j \in Nat, 1 <= j, j <= Len(q)
  PROVE  Copied(p \o q)[Len(p) + j] = CopyCharacter(Copied(p \o q)[Len(p) + j - 1], q[j])
<1>1. PICK m \in Nat : m = Len(p)
  OBVIOUS
<1>2. PICK r \in Seq(S) : r = p \o q
  BY ConcatProperties
<1>3. Len(r) = m + Len(q) /\ Len(q) \in Nat
  BY <1>1, <1>2
<1>4. m + j \in 1 .. Len(r) /\ r[m + j] = q[j]
  BY <1>1, <1>2, <1>3
<1>5. IsPath(r)
  BY SequenceIsPath
<1>6. Copied(r)[m + j] = CopyCharacter(Copied(r)[m + j - 1], r[m + j])
  BY <1>4, <1>5, CopiedIs
<1> QED BY <1>1, <1>2, <1>4, <1>6

(* The escape character is none of those that follow it, and not the       *)
(* separator.                                                              *)
LEMMA HostCharacters ==
  /\ EscapeCharacter \notin {PathSeparator, "x", "U"}
  /\ PathSeparator \in Replaced
  /\ EscapeCharacter \notin Replaced
  /\ Replaced \subseteq {"\n", "/", "\\", ":"}
BY DEF PathSeparator, EscapeCharacter, Replaced

(* The digits of a code stand for the character that has it.               *)
LEMMA DigitsReturn ==
  /\ DOMAIN TwoDigits = {"\n", "/", "\\", ":"}
  /\ DOMAIN EightDigits = {"U+2028"}
  /\ \A c \in DOMAIN TwoDigits : Coded(TwoDigits, TwoDigits[c]) = c
  /\ \A c \in DOMAIN EightDigits : Coded(EightDigits, EightDigits[c]) = c
<1>1. /\ DOMAIN TwoDigits = {"\n", "/", "\\", ":"}
      /\ TwoDigits["\n"] = "0a" /\ TwoDigits["/"] = "2f"
      /\ TwoDigits["\\"] = "5c" /\ TwoDigits[":"] = "3a"
  BY DEF TwoDigits
<1>2. DOMAIN EightDigits = {"U+2028"} /\ EightDigits["U+2028"] = "00002028"
  BY DEF EightDigits
<1>3. \A c \in DOMAIN TwoDigits, d \in DOMAIN TwoDigits : TwoDigits[c] = TwoDigits[d] => c = d
  BY <1>1
<1>4. \A c \in DOMAIN TwoDigits : Coded(TwoDigits, TwoDigits[c]) = c
  BY <1>3 DEF Coded
<1>5. \A c \in DOMAIN EightDigits : Coded(EightDigits, EightDigits[c]) = c
  BY <1>2 DEF Coded
<1> QED BY <1>1, <1>2, <1>4, <1>5

(* How a copy goes on from each state.                                     *)
At(state, text) == [state |-> state, text |-> text]

LEMMA CopyPlain ==
  ASSUME NEW text
  PROVE  /\ CopyCharacter(At("plain", text), PathSeparator) = At("plain", Append(text, Separator))
         /\ CopyCharacter(At("plain", text), EscapeCharacter) = At("escape", text)
         /\ \A c : c \notin {PathSeparator, EscapeCharacter} =>
              CopyCharacter(At("plain", text), c) = At("plain", Append(text, c))
BY HostCharacters DEF CopyCharacter, At

LEMMA CopyEscape ==
  ASSUME NEW text
  PROVE  /\ CopyCharacter(At("escape", text), EscapeCharacter)
              = At("plain", Append(text, EscapeCharacter))
         /\ CopyCharacter(At("escape", text), "x") = At("x", text)
         /\ CopyCharacter(At("escape", text), "U") = At("U", text)
<1>1. Announced("x").allowed # {}
  BY HostCharacters DEF Announced
<1>2. Announced("U").allowed # {}
  BY DigitsReturn DEF Announced
<1>3. CopyCharacter(At("escape", text), EscapeCharacter)
        = At("plain", Append(text, EscapeCharacter))
  BY DEF CopyCharacter, At
<1>4. CopyCharacter(At("escape", text), "x") = At("x", text)
  BY <1>1, HostCharacters DEF CopyCharacter, At
<1>5. CopyCharacter(At("escape", text), "U") = At("U", text)
  BY <1>2, HostCharacters DEF CopyCharacter, At
<1> QED BY <1>3, <1>4, <1>5

LEMMA CopyDigits ==
  ASSUME NEW text
  PROVE  /\ \A c \in Replaced :
              CopyCharacter(At("x", text), TwoDigits[c]) = At("plain", Append(text, c))
         /\ \A c \in DOMAIN EightDigits :
              CopyCharacter(At("U", text), EightDigits[c]) = At("plain", Append(text, c))
<1>1. Announced("x") = [codes |-> TwoDigits, allowed |-> Replaced]
  BY DEF Announced
<1>2. Announced("U") = [codes |-> EightDigits, allowed |-> DOMAIN EightDigits]
  BY DEF Announced
<1>3. ASSUME NEW c \in Replaced
      PROVE  CopyCharacter(At("x", text), TwoDigits[c]) = At("plain", Append(text, c))
  <2>1. Coded(TwoDigits, TwoDigits[c]) = c
    BY HostCharacters, DigitsReturn
  <2>2. PICK digits : digits = TwoDigits[c]
    OBVIOUS
  <2>3. Coded(Announced("x").codes, digits) = c /\ c \in Announced("x").allowed
    BY <1>1, <2>1, <2>2
  <2>4. CopyCharacter(At("x", text), digits) = At("plain", Append(text, c))
    BY <2>3 DEF CopyCharacter, At
  <2> QED BY <2>2, <2>4
<1>4. ASSUME NEW c \in DOMAIN EightDigits
      PROVE  CopyCharacter(At("U", text), EightDigits[c]) = At("plain", Append(text, c))
  <2>1. Coded(EightDigits, EightDigits[c]) = c
    BY DigitsReturn
  <2>2. PICK digits : digits = EightDigits[c]
    OBVIOUS
  <2>3. Coded(Announced("U").codes, digits) = c /\ c \in Announced("U").allowed
    BY <1>2, <2>1, <2>2
  <2>4. CopyCharacter(At("U", text), digits) = At("plain", Append(text, c))
    BY <2>3 DEF CopyCharacter, At
  <2> QED BY <2>2, <2>4
<1> QED BY <1>3, <1>4

(* A character of a name, escaped, is copied as itself.                    *)
LEMMA CharacterReturns ==
  ASSUME NEW S, NEW p \in Seq(S), NEW c, EscapedCharacter(c) \in Seq(S), NEW text,
         Copied(p)[Len(p)] = At("plain", text)
  PROVE  Copied(p \o EscapedCharacter(c))[Len(p \o EscapedCharacter(c))]
           = At("plain", Append(text, c))
<1>1. PICK m \in Nat : m = Len(p)
  OBVIOUS
<1>2. PICK e \in Seq(S) : e = EscapedCharacter(c)
  OBVIOUS
<1>3. PICK copied : copied = Copied(p \o e)
  OBVIOUS
<1>4. copied[m] = At("plain", text)
  <2>1. m <= Len(p)
    BY <1>1
  <2>2. Copied(p \o e)[m] = Copied(p)[m]
    BY <2>1, CopyOfPrefix
  <2> QED BY <1>1, <1>3, <2>2
<1>5. ASSUME NEW j \in Nat, 1 <= j, j <= Len(e)
      PROVE  copied[m + j] = CopyCharacter(copied[m + j - 1], e[j])
  <2>1. Copied(p \o e)[Len(p) + j] = CopyCharacter(Copied(p \o e)[Len(p) + j - 1], e[j])
    BY <1>5, CopyOfNext
  <2> QED BY <1>1, <1>3, <2>1
<1>6. Len(p \o e) = m + Len(e)
  BY <1>1, ConcatProperties
<1>7. SUFFICES copied[m + Len(e)] = At("plain", Append(text, c))
  BY <1>2, <1>3, <1>6
<1>8. ASSUME NEW d, e = <<d>>, CopyCharacter(At("plain", text), d) = At("plain", Append(text, c))
      PROVE  copied[m + Len(e)] = At("plain", Append(text, c))
  <2>1. Len(e) = 1 /\ e[1] = d /\ m + 1 - 1 = m
    BY <1>8
  <2>2. copied[m + 1] = CopyCharacter(copied[m + 1 - 1], e[1])
    BY <1>5, <2>1
  <2> QED BY <1>4, <1>8, <2>1, <2>2
<1>9. ASSUME NEW a, NEW b, NEW d, NEW middle, e = <<a, b>> \/ e = <<a, b, d>>,
             CopyCharacter(At("plain", text), a) = At("escape", text),
             CopyCharacter(At("escape", text), b) = middle
      PROVE  copied[m + 2] = middle
  <2>1. /\ Len(e) \in Nat /\ 1 <= Len(e) /\ 2 <= Len(e) /\ e[1] = a /\ e[2] = b
        /\ m + 1 - 1 = m /\ m + 2 - 1 = m + 1
    <3>1. CASE e = <<a, b>>
      BY <3>1
    <3>2. CASE e = <<a, b, d>>
      BY <3>2
    <3> QED BY <1>9, <3>1, <3>2
  <2>2. copied[m + 1] = CopyCharacter(copied[m + 1 - 1], e[1])
    BY <1>5, <2>1
  <2>3. copied[m + 2] = CopyCharacter(copied[m + 2 - 1], e[2])
    BY <1>5, <2>1
  <2> QED BY <1>4, <1>9, <2>1, <2>2, <2>3
<1>10. ASSUME NEW b, NEW d, e = <<EscapeCharacter, b, d>>,
              CopyCharacter(At("escape", text), b) = At(b, text),
              CopyCharacter(At(b, text), d) = At("plain", Append(text, c))
       PROVE  copied[m + Len(e)] = At("plain", Append(text, c))
  <2>1. copied[m + 2] = At(b, text)
    <3>1. CopyCharacter(At("plain", text), EscapeCharacter) = At("escape", text)
      BY CopyPlain
    <3> QED BY <1>9, <1>10, <3>1
  <2>2. Len(e) = 3 /\ e[3] = d /\ m + 3 - 1 = m + 2
    BY <1>10
  <2>3. copied[m + 3] = CopyCharacter(copied[m + 3 - 1], e[3])
    BY <1>5, <2>2
  <2> QED BY <1>10, <2>1, <2>2, <2>3
<1>11. CASE c \in Replaced
  <2>1. e = <<EscapeCharacter, "x", TwoDigits[c]>>
    BY <1>2, <1>11 DEF EscapedCharacter
  <2> QED BY <1>10, <1>11, <2>1, CopyEscape, CopyDigits
<1>12. CASE c \notin Replaced /\ c \in DOMAIN EightDigits
  <2>1. e = <<EscapeCharacter, "U", EightDigits[c]>>
    BY <1>2, <1>12 DEF EscapedCharacter
  <2> QED BY <1>10, <1>12, <2>1, CopyEscape, CopyDigits
<1>13. CASE c \notin Replaced /\ c \notin DOMAIN EightDigits /\ c = EscapeCharacter
  <2>1. e = <<EscapeCharacter, EscapeCharacter>>
    BY <1>2, <1>13 DEF EscapedCharacter
  <2>2. copied[m + 2] = At("plain", Append(text, EscapeCharacter))
    BY <1>9, <2>1, CopyPlain, CopyEscape
  <2>3. Len(e) = 2
    BY <2>1
  <2> QED BY <1>13, <2>2, <2>3
<1>14. CASE c \notin Replaced /\ c \notin DOMAIN EightDigits /\ c # EscapeCharacter
  <2>1. e = <<c>>
    BY <1>2, <1>14 DEF EscapedCharacter
  <2>2. c \notin {PathSeparator, EscapeCharacter}
    BY <1>14, HostCharacters
  <2>3. CopyCharacter(At("plain", text), c) = At("plain", Append(text, c))
    BY <2>2, CopyPlain
  <2> QED BY <1>8, <2>1, <2>3
<1> QED BY <1>11, <1>12, <1>13, <1>14

(* The path so far is copied to the separator and the first i characters   *)
(* of the name.                                                            *)
Reads(path, name, i) ==
  \E text \in Seq(ToSet(name) \cup {Separator}) :
    /\ Copied(path)[Len(path)] = At("plain", text)
    /\ Len(text) = i + 1
    /\ text[1] = Separator
    /\ \A j \in 1 .. i : text[j + 1] = name[j]

LEMMA ReadsSeparator ==
  ASSUME NEW name
  PROVE  Reads(<<PathSeparator>>, name, 0)
<1>1. PICK p \in Seq({PathSeparator}) : p = <<PathSeparator>>
  <2>1. <<PathSeparator>> \in Seq({PathSeparator})
    OBVIOUS
  <2> QED BY <2>1
<1>2. Len(p) = 1 /\ p[1] = PathSeparator /\ 1 - 1 = 0 /\ 1 \in 1 .. Len(p)
  BY <1>1
<1>3. IsPath(p)
  BY SequenceIsPath
<1>4. Copied(p)[0] = At("plain", <<>>) /\ Copied(p)[1] = CopyCharacter(Copied(p)[1 - 1], p[1])
  BY <1>2, <1>3, CopiedIs DEF At
<1>5. CopyCharacter(At("plain", <<>>), PathSeparator) = At("plain", Append(<<>>, Separator))
  BY CopyPlain
<1>6. PICK text : text = Append(<<>>, Separator)
  OBVIOUS
<1>7. Copied(p)[Len(p)] = At("plain", text)
  BY <1>2, <1>4, <1>5, <1>6
<1>8. /\ text \in Seq(ToSet(name) \cup {Separator}) /\ Len(text) = 0 + 1 /\ text[1] = Separator
      /\ \A j \in 1 .. 0 : text[j + 1] = name[j]
  BY <1>6
<1> QED BY <1>1, <1>7, <1>8 DEF Reads

LEMMA ReadsOn ==
  ASSUME NEW S, NEW p \in Seq(S), NEW name, IsPath(name), NEW i \in Nat, i < Len(name),
         EscapedCharacter(name[i + 1]) \in Seq(S), Reads(p, name, i)
  PROVE  Reads(p \o EscapedCharacter(name[i + 1]), name, i + 1)
<1>1. PICK before \in Seq(ToSet(name) \cup {Separator}) :
        /\ Copied(p)[Len(p)] = At("plain", before)
        /\ Len(before) = i + 1
        /\ before[1] = Separator
        /\ \A j \in 1 .. i : before[j + 1] = name[j]
  BY DEF Reads
<1>2. PICK c : c = name[i + 1]
  OBVIOUS
<1>3. PICK path : path = p \o EscapedCharacter(c)
  OBVIOUS
<1>4. PICK text : text = Append(before, c)
  OBVIOUS
<1>5. Copied(path)[Len(path)] = At("plain", text)
  BY <1>1, <1>2, <1>3, <1>4, CharacterReturns
<1>6. c \in ToSet(name)
  BY <1>2 DEF IsPath
<1>7. /\ text \in Seq(ToSet(name) \cup {Separator}) /\ Len(text) = i + 1 + 1
      /\ text[1] = Separator /\ text[i + 1 + 1] = c
      /\ \A k \in 1 .. i + 1 : text[k] = before[k]
  BY <1>1, <1>4, <1>6
<1>8. ASSUME NEW j \in 1 .. i + 1 PROVE text[j + 1] = name[j]
  <2>1. CASE j = i + 1
    BY <1>2, <1>7, <2>1
  <2>2. CASE j # i + 1
    <3>1. j \in 1 .. i /\ j + 1 \in 1 .. i + 1
      BY <2>2
    <3> QED BY <1>1, <1>7, <3>1
  <2> QED BY <2>1, <2>2
<1> QED BY <1>2, <1>3, <1>5, <1>7, <1>8 DEF Reads

(* The characters a path may have that a name is turned into.              *)
Written(name) ==
  ToSet(name) \cup {PathSeparator, EscapeCharacter, "x", "U"}
    \cup {TwoDigits[c] : c \in DOMAIN TwoDigits} \cup {EightDigits[c] : c \in DOMAIN EightDigits}

LEMMA EscapedIsWritten ==
  ASSUME NEW name, NEW c \in ToSet(name)
  PROVE  EscapedCharacter(c) \in Seq(Written(name))
<1>1. PICK S : S = Written(name)
  OBVIOUS
<1>2. /\ c \in S /\ EscapeCharacter \in S /\ "x" \in S /\ "U" \in S
      /\ \A d \in DOMAIN TwoDigits : TwoDigits[d] \in S
      /\ \A d \in DOMAIN EightDigits : EightDigits[d] \in S
  BY <1>1 DEF Written
<1>3. CASE c \in Replaced
  <2>1. PICK digits \in S : digits = TwoDigits[c]
    BY <1>2, <1>3, HostCharacters, DigitsReturn
  <2>2. EscapedCharacter(c) = <<EscapeCharacter, "x", digits>>
    BY <1>3, <2>1 DEF EscapedCharacter
  <2> QED BY <1>1, <1>2, <2>1, <2>2
<1>4. CASE c \notin Replaced /\ c \in DOMAIN EightDigits
  <2>1. PICK digits \in S : digits = EightDigits[c]
    BY <1>2, <1>4
  <2>2. EscapedCharacter(c) = <<EscapeCharacter, "U", digits>>
    BY <1>4, <2>1 DEF EscapedCharacter
  <2> QED BY <1>1, <1>2, <2>1, <2>2
<1>5. CASE c \notin Replaced /\ c \notin DOMAIN EightDigits
  <2>1. EscapedCharacter(c) = <<EscapeCharacter, EscapeCharacter>> \/ EscapedCharacter(c) = <<c>>
    BY <1>5 DEF EscapedCharacter
  <2>2. <<EscapeCharacter, EscapeCharacter>> \in Seq(S) /\ <<c>> \in Seq(S)
    BY <1>2
  <2> QED BY <1>1, <2>1, <2>2, Zenon
<1> QED BY <1>3, <1>4, <1>5

(* A name, escaped for the host and put after a separator, is converted to *)
(* the name again, whatever its characters are.                            *)
LEMMA NameReturns ==
  ASSUME NEW name, IsPath(name)
  PROVE  /\ ToFileEntryPath(<<PathSeparator>> \o FromFileEntryPath(name)).valid
         /\ ToFileEntryPath(<<PathSeparator>> \o FromFileEntryPath(name)).text
              = <<Separator>> \o name
<1>1. PICK n \in Nat : n = Len(name)
  BY DEF IsPath
<1>2. PICK S : S = Written(name)
  OBVIOUS
<1>3. PICK first : first = <<PathSeparator>>
  OBVIOUS
<1>4. first \in Seq(S) /\ Len(first) = 1 /\ first[1] = PathSeparator
  <2>1. PathSeparator \in S
    BY <1>2 DEF Written
  <2>2. <<PathSeparator>> \in Seq(S)
    BY <2>1
  <2> QED BY <1>3, <2>2
<1>5. \A t \in Seq(S), u \in Seq(S) : (first \o t) \o u = first \o (t \o u)
  BY <1>4, ConcatAssociative
<1>6. PICK seqs : seqs = [i \in DOMAIN name |-> EscapedCharacter(name[i])]
  OBVIOUS
<1>7. DOMAIN name = 1 .. n /\ \A i \in 1 .. n : name[i] \in ToSet(name)
  BY <1>1 DEF IsPath
<1>8. \A i \in 1 .. n : seqs[i] = EscapedCharacter(name[i]) /\ seqs[i] \in Seq(S)
  BY <1>2, <1>6, <1>7, EscapedIsWritten
<1>9. Len(seqs) = n
  BY <1>6, <1>7
<1>10. PICK path : path = first \o FlattenSeq(seqs)
  OBVIOUS
<1>11. path \in Seq(S) /\ Len(path) > 0 /\ path[1] = PathSeparator /\ Reads(path, name, n)
  <2>1. CASE n = 0
    <3>1. FlattenSeq(seqs) = <<>>
      BY <1>6, <1>7, <1>9, <2>1 DEF FlattenSeq
    <3>2. path = first
      BY <1>4, <1>10, <3>1
    <3> QED BY <1>3, <1>4, <2>1, <3>2, ReadsSeparator
  <2>2. CASE n # 0
    <3>1. PICK joined : /\ FlattenSeq(seqs) = joined[n]
                        /\ joined[1] = seqs[1]
                        /\ \A i \in 2 .. n : joined[i] = joined[i - 1] \o seqs[i]
      BY <1>9, <2>2, FlattenIs
    <3> DEFINE Right(i) == joined[i] \in Seq(S) /\ Reads(first \o joined[i], name, i)
               Not == {i \in Nat : 1 <= i /\ i <= n /\ ~ Right(i)}
    <3>2. Not = {}
      <4> SUFFICES ASSUME Not # {} PROVE FALSE
        OBVIOUS
      <4>1. PICK i \in Not : \A j \in Not : i <= j
        BY FirstNatural
      <4>2. i \in Nat /\ 1 <= i /\ i <= n /\ ~ Right(i)
        BY <4>1
      <4>3. PICK k \in Nat : k = i - 1
        BY <4>2
      <4>4. k + 1 = i /\ k < n /\ i \in 1 .. n
        BY <4>2, <4>3
      <4>5. seqs[i] = EscapedCharacter(name[k + 1]) /\ seqs[i] \in Seq(S)
        BY <1>8, <4>4
      <4>6. CASE k = 0
        <5>1. joined[i] = seqs[i]
          BY <3>1, <4>4, <4>6
        <5>2. Reads(first, name, k)
          BY <1>3, <4>6, ReadsSeparator
        <5>3. Reads(first \o seqs[i], name, k + 1)
          BY <1>1, <1>4, <4>4, <4>5, <5>2, ReadsOn
        <5> QED BY <4>2, <4>4, <4>5, <5>1, <5>3
      <4>7. CASE k # 0
        <5>1. 1 <= k /\ k <= n /\ ~ (i <= k) /\ i \in 2 .. n
          BY <4>2, <4>4, <4>7
        <5>2. Right(k)
          BY <4>1, <5>1
        <5>3. joined[i] = joined[k] \o seqs[i]
          BY <3>1, <4>3, <5>1
        <5>4. PICK p : p = first \o joined[k]
          OBVIOUS
        <5>5. p \in Seq(S)
          BY <1>4, <5>2, <5>4, ConcatProperties
        <5>6. Reads(p \o seqs[i], name, k + 1)
          BY <1>1, <4>4, <4>5, <5>2, <5>4, <5>5, ReadsOn
        <5>7. joined[i] \in Seq(S)
          BY <4>5, <5>2, <5>3, ConcatProperties
        <5>8. first \o joined[i] = p \o seqs[i]
          BY <1>5, <4>5, <5>2, <5>3, <5>4
        <5> QED BY <4>2, <4>4, <5>6, <5>7, <5>8
      <4> QED BY <4>6, <4>7
    <3>3. Right(n)
      BY <1>1, <2>2, <3>2
    <3>4. path = first \o joined[n]
      BY <1>10, <3>1
    <3>5. path \in Seq(S) /\ Len(path) > 0 /\ path[1] = PathSeparator
      BY <1>4, <3>3, <3>4, ConcatProperties
    <3> QED BY <3>3, <3>4, <3>5
  <2> QED BY <2>1, <2>2
<1>12. PICK text \in Seq(ToSet(name) \cup {Separator}) :
         /\ Copied(path)[Len(path)] = At("plain", text)
         /\ Len(text) = n + 1
         /\ text[1] = Separator
         /\ \A j \in 1 .. n : text[j + 1] = name[j]
  BY <1>11 DEF Reads
<1>13. ToFileEntryPath(path) = [valid |-> TRUE, text |-> text]
  <2>1. path # <<>>
    BY <1>11
  <2> QED BY <1>11, <1>12, <2>1 DEF ToFileEntryPath, At
<1>14. text = <<Separator>> \o name
  <2>1. name \in Seq(ToSet(name) \cup {Separator})
    BY DEF IsPath
  <2>2. PICK whole \in Seq(ToSet(name) \cup {Separator}) : whole = <<Separator>> \o name
    <3>1. <<Separator>> \in Seq(ToSet(name) \cup {Separator})
      OBVIOUS
    <3> QED BY <2>1, <3>1, ConcatProperties
  <2>3. Len(whole) = n + 1 /\ whole[1] = Separator /\ \A j \in 1 .. n : whole[j + 1] = name[j]
    BY <1>1, <2>1, <2>2
  <2>4. ASSUME NEW i \in 1 .. n + 1 PROVE text[i] = whole[i]
    <3>1. CASE i = 1
      BY <1>12, <2>3, <3>1
    <3>2. CASE i # 1
      <4>1. PICK j \in 1 .. n : j + 1 = i
        BY <3>2
      <4> QED BY <1>12, <2>3, <4>1
    <3> QED BY <3>1, <3>2
  <2>5. text = whole
    BY <1>12, <2>3, <2>4
  <2> QED BY <2>2, <2>5
<1>15. path = <<PathSeparator>> \o FromFileEntryPath(name)
  BY <1>3, <1>6, <1>10 DEF FromFileEntryPath
<1>16. ToFileEntryPath(path).valid /\ ToFileEntryPath(path).text = <<Separator>> \o name
  BY <1>13, <1>14
<1> QED BY <1>15, <1>16, Zenon

-----------------------------------------------------------------------------
(* What lists are made of.                                                 *)

(* An entry of a directory of the volume, or none for the root directory.  *)
IsEntry(entry) ==
  \/ entry = NoEntry
  \/ \E c \in DOMAIN Content : \E i \in DOMAIN Content[c] : entry = Content[c][i]

(* The walk and the contexts have entries of the volume.                   *)
Known == IsEntry(lookup.entry) /\ \A c \in Contexts : IsEntry(context[c].entry)

(* The entry whose directory is listed: that of the path that Dokan asks   *)
(* for, or of the context that FUSE gives.                                 *)
ListedEntry ==
  IF request.op = "FindFiles" THEN Resolve(Converted(request.path).text).entry
  ELSE context[request.context].entry

(* The first n names of the entries, escaped, and in their order.          *)
NamesListed(listed, content, n) ==
  /\ listed \in Seq(ToSet(listed))
  /\ Len(listed) = n
  /\ \A i \in 1 .. n : listed[i] = FromFileEntryPath(content[i].name)

(* A request that lists has listed the names before the one it is at, of   *)
(* the directory it is to list; no other request is one that lists.        *)
Listing ==
  /\ request.state = "lookup" =>
       request.op # "readdir" /\ request.index = 0 /\ request.listed = <<>>
  /\ request.state \in {"stat", "read"} => request.op \notin ListOps
  /\ request.state = "list" =>
       /\ Listed.entry = ListedEntry
       /\ IsEntry(ListedEntry)
       /\ request.index \in Nat
       /\ request.index <= Len(SubEntriesOf(ListedEntry)) + 1
       /\ NamesListed(request.listed, SubEntriesOf(ListedEntry),
                      IF request.index = 0 THEN 0 ELSE request.index - 1)
  /\ request.sub => request.index # 0 /\ request.index <= Len(SubEntriesOf(ListedEntry))
  /\ request.state = "done" /\ request.op \in ListOps /\ request.answer = "ok" =>
       /\ IsEntry(ListedEntry)
       /\ NamesListed(request.listed, SubEntriesOf(ListedEntry), Len(SubEntriesOf(ListedEntry)))

LEMMA EntryIsEntry ==
  ASSUME NEW directory \in DOMAIN Content, NEW string
  PROVE  IsEntry(EntryByName(directory, string))
<1> DEFINE content == Content[directory]
           same == {i \in DOMAIN content : SameName(content[i].name, string)}
<1>1. CASE same = {}
  BY <1>1 DEF EntryByName, IsEntry
<1>2. CASE same # {}
  <2>1. same \subseteq Nat
    BY PathLookupAssumption
  <2>2. \E i \in same : \A j \in same : i <= j
    BY <1>2, <2>1, FirstNatural
  <2>3. PICK i \in DOMAIN content : EntryByName(directory, string) = content[i]
    BY <1>2, <2>2 DEF EntryByName
  <2> QED BY <2>3 DEF IsEntry
<1> QED BY <1>1, <1>2

(* The sub entries of an entry are a sequence, and their names are.        *)
LEMMA SubEntriesAre ==
  ASSUME NEW entry, IsEntry(entry)
  PROVE  /\ Len(SubEntriesOf(entry)) \in Nat
         /\ DOMAIN SubEntriesOf(entry) = 1 .. Len(SubEntriesOf(entry))
         /\ \A i \in 1 .. Len(SubEntriesOf(entry)) : IsPath(SubEntriesOf(entry)[i].name)
<1>1. PICK content : content = SubEntriesOf(entry)
  OBVIOUS
<1>2. content = <<>> \/ \E c \in DOMAIN Content : content = Content[c]
  <2>1. CASE entry = NoEntry
    BY <1>1, <2>1, PathLookupAssumption DEF SubEntriesOf
  <2>2. CASE entry # NoEntry /\ entry.kind = "directory"
    <3>1. content = Content[entry.cluster]
      BY <1>1, <2>2 DEF SubEntriesOf
    <3>2. PICK c \in DOMAIN Content : \E i \in DOMAIN Content[c] : entry = Content[c][i]
      BY <2>2 DEF IsEntry
    <3>3. entry.cluster \in DOMAIN Content
      BY <3>2, PathLookupAssumption
    <3> QED BY <3>1, <3>3
  <2>3. CASE entry # NoEntry /\ entry.kind # "directory"
    BY <1>1, <2>3 DEF SubEntriesOf
  <2> QED BY <2>1, <2>2, <2>3
<1>3. CASE content = <<>>
  <2>1. Len(content) = 0 /\ DOMAIN content = 1 .. 0
    BY <1>3
  <2> QED BY <1>1, <2>1
<1>4. CASE \E c \in DOMAIN Content : content = Content[c]
  <2>1. PICK c \in DOMAIN Content : content = Content[c]
    BY <1>4
  <2>2. content \in Seq(ToSet(content)) /\ \A i \in DOMAIN content : IsPath(content[i].name)
    BY <2>1, PathLookupAssumption DEF IsPath
  <2>3. Len(content) \in Nat /\ DOMAIN content = 1 .. Len(content)
    BY <2>2
  <2> QED BY <1>1, <2>2, <2>3
<1> QED BY <1>2, <1>3, <1>4

LEMMA WalkKnown ==
  ASSUME LookupInv, IsEntry(lookup.entry), LookupStep
  PROVE  IsEntry(lookup'.entry)
<1>1. LookupShape
  BY DEF LookupInv
<1>2. CASE EmptySegment \/ FailSegment \/ EndPath
  <2>1. lookup'.entry = lookup.entry
    BY <1>1, <1>2 DEF EmptySegment, FailSegment, EndPath, LookupShape
  <2> QED BY <2>1
<1>3. CASE MissSegment
  <2>1. lookup'.entry = NoEntry
    BY <1>1, <1>3 DEF MissSegment, LookupShape
  <2> QED BY <2>1 DEF IsEntry
<1>4. CASE FindSegment
  <2>1. lookup.state = "walk"
    BY <1>4 DEF FindSegment, AtSegment
  <2>2. SegmentDirectory \in DOMAIN Content
    BY <2>1, PathLookupAssumption DEF LookupInv, Walking, SegmentDirectory
  <2>3. lookup'.entry = EntryByName(SegmentDirectory, Segment)
    BY <1>1, <1>4 DEF FindSegment, LookupShape
  <2> QED BY <2>2, <2>3, EntryIsEntry
<1> QED BY <1>2, <1>3, <1>4 DEF LookupStep

LEMMA ContextKnown ==
  ASSUME Inv, Known, MountNext, NEW c \in Contexts
  PROVE  IsEntry(context'[c].entry)
<1>1. context = [d \in Contexts |-> context[d]] /\ IsEntry(context[c].entry)
  BY RequestHolds DEF Known
<1>2. CASE UNCHANGED context
  BY <1>1, <1>2
<1>3. CASE CloseFile \/ ReleaseDirectory
  <2>1. PICK d \in Contexts : context' = [context EXCEPT ![d] = Closed]
    BY <1>3 DEF CloseFile, ReleaseDirectory
  <2>2. context'[c] = IF c = d THEN Closed ELSE context[c]
    BY <1>1, <2>1
  <2>3. Closed.entry = NoEntry
    BY DEF Closed
  <2> QED BY <1>1, <2>2, <2>3 DEF IsEntry
<1>4. CASE Found /\ ~ UNCHANGED context
  <2>1. context' = [context EXCEPT ![request.context] = Opened(request.op, MadeFileEntry)]
    BY <1>4 DEF Found
  <2>2. PICK opened : opened = Opened(request.op, MadeFileEntry)
    OBVIOUS
  <2>3. opened.entry = lookup.entry
    BY <2>2 DEF Opened, MadeFileEntry
  <2>4. context'[c] = opened \/ context'[c] = context[c]
    BY <1>1, <2>1, <2>2
  <2> QED BY <1>1, <2>3, <2>4 DEF Known
<1> QED BY <1>2, <1>3, <1>4
        DEF MountNext, Serve, OpenVolume, Unmount, RefuseOpen, AskByPath, AskOpen, Walk,
            NotFound, FoundUnnamed, Stat, ReadFile, StartList, GetSubFileEntry,
            FillSubFileEntry, EndList, Return, mountVars

LEMMA StepKnown ==
  ASSUME Inv, LookupInv, Known, [Next]_vars
  PROVE  Known'
<1>1. IsEntry(lookup'.entry)
  <2>1. NoLookup.entry = NoEntry /\ \A path : NewLookup(path).entry = NoEntry
    BY DEF NoLookup, NewLookup
  <2>2. \/ UNCHANGED lookup
        \/ lookup' = NoLookup
        \/ LookupStep
        \/ \E path : lookup' = NewLookup(path)
    <3>1. CASE MountNext
      BY <3>1 DEF MountNext, Serve, OpenVolume, Unmount, RefuseOpen, AskByPath, AskOpen,
                  CloseFile, ReleaseDirectory, Walk, NotFound, FoundUnnamed, Found, Stat,
                  ReadFile, StartList, GetSubFileEntry, FillSubFileEntry, EndList, Return,
                  lookupVars
    <3>2. CASE InfoNext
      BY <3>2 DEF InfoNext, InfoStep, PrintHierarchy, PrintByPath, PrintByIdentifier,
                  PrintVolume, FailHierarchy, DigestBlock, PrintFileEntry, CallForSubFileEntry,
                  ReturnFromCall, WalkByPath, PrintFound, CloseInput, lookupVars
    <3> QED BY <3>1, <3>2 DEF Next, vars, toolVars, lookupVars
  <2>3. CASE UNCHANGED lookup
    BY <2>3 DEF Known
  <2>4. CASE LookupStep
    BY <2>4, WalkKnown DEF Known
  <2>5. CASE lookup' = NoLookup \/ \E path : lookup' = NewLookup(path)
    <3>1. lookup'.entry = NoEntry
      BY <2>1, <2>5
    <3> QED BY <3>1 DEF IsEntry
  <2> QED BY <2>2, <2>3, <2>4, <2>5
<1>2. ASSUME NEW c \in Contexts PROVE IsEntry(context'[c].entry)
  <2>1. CASE MountNext
    BY <2>1, ContextKnown
  <2>2. CASE UNCHANGED context
    BY <2>2 DEF Known
  <2>3. InfoNext => UNCHANGED context
    BY DEF InfoNext, InfoStep, PrintHierarchy, PrintByPath, PrintByIdentifier, PrintVolume,
           FailHierarchy, DigestBlock, PrintFileEntry, CallForSubFileEntry, ReturnFromCall,
           WalkByPath, PrintFound, CloseInput, mountVars
  <2> QED BY <2>1, <2>2, <2>3 DEF Next, vars, toolVars, mountVars
<1> QED BY <1>1, <1>2 DEF Known, IsEntry

(* What is listed depends on the host and on the entry only.               *)
LEMMA FromStays ==
  ASSUME UNCHANGED tool, NEW name
  PROVE  FromFileEntryPath(name)' = FromFileEntryPath(name)
<1>1. \A c : EscapedCharacter(c)' = EscapedCharacter(c)
  BY HostStays DEF EscapedCharacter
<1> QED BY <1>1 DEF FromFileEntryPath

LEMMA NamesListedStays ==
  ASSUME UNCHANGED tool, NEW listed, NEW content, NEW n
  PROVE  NamesListed(listed, content, n)' = NamesListed(listed, content, n)
<1>1. \A name : FromFileEntryPath(name)' = FromFileEntryPath(name)
  BY FromStays
<1> QED BY <1>1 DEF NamesListed

LEMMA ListedEntryStays ==
  ASSUME UNCHANGED <<tool, context>>,
         request'.op = request.op, request'.path = request.path,
         request'.context = request.context
  PROVE  ListedEntry' = ListedEntry
<1>1. PICK path : path = request.path
  OBVIOUS
<1>2. Converted(path)' = Converted(path)
  BY ConvertedStays
<1> QED BY <1>1, <1>2 DEF ListedEntry

LEMMA NothingListed ==
  ASSUME NEW content
  PROVE  NamesListed(<<>>, content, 0)
BY DEF NamesListed

(* A request that does not list, or whose list failed.                     *)
LEMMA NoListing ==
  ASSUME request'.state \in {"idle", "done"}, ~ request'.sub,
         request'.state = "done" => request'.op \notin ListOps \/ request'.answer # "ok"
  PROVE  Listing'
BY DEF Listing, ListOps

LEMMA ListingStays ==
  ASSUME Listing, UNCHANGED <<tool, request, context>>
  PROVE  Listing'
<1>1. PICK entry : entry = ListedEntry /\ entry = ListedEntry'
  BY ListedEntryStays
<1>2. PICK content : content = SubEntriesOf(entry)
  OBVIOUS
<1>3. PICK listed : listed = request.listed /\ listed = request'.listed
  OBVIOUS
<1>4. PICK n : n = (IF request.index = 0 THEN 0 ELSE request.index - 1)
               /\ n = (IF request'.index = 0 THEN 0 ELSE request'.index - 1)
  OBVIOUS
<1>5. /\ NamesListed(listed, content, n)' = NamesListed(listed, content, n)
      /\ NamesListed(listed, content, Len(content))' = NamesListed(listed, content, Len(content))
  BY NamesListedStays
<1>6. Listed' = Listed
  BY DEF Listed
<1>7. request.state = "list" => /\ Listed.entry = entry /\ IsEntry(entry)
                                /\ request.index \in Nat /\ request.index <= Len(content) + 1
                                /\ NamesListed(listed, content, n)
  BY <1>1, <1>2, <1>3, <1>4 DEF Listing
<1>8. request.state = "done" /\ request.op \in ListOps /\ request.answer = "ok" =>
        IsEntry(entry) /\ NamesListed(listed, content, Len(content))
  BY <1>1, <1>2, <1>3 DEF Listing
<1>9. request.sub => request.index # 0 /\ request.index <= Len(content)
  BY <1>1, <1>2 DEF Listing
<1>10. /\ request.state = "lookup" =>
            request.op # "readdir" /\ request.index = 0 /\ request.listed = <<>>
       /\ request.state \in {"stat", "read"} => request.op \notin ListOps
  BY DEF Listing
<1>11. request'.state = "list" =>
         /\ Listed'.entry = ListedEntry' /\ IsEntry(ListedEntry')
         /\ request'.index \in Nat /\ request'.index <= Len(SubEntriesOf(ListedEntry')) + 1
         /\ NamesListed(request.listed, SubEntriesOf(ListedEntry),
                        IF request.index = 0 THEN 0 ELSE request.index - 1)'
  BY <1>1, <1>2, <1>3, <1>4, <1>5, <1>6, <1>7
<1>12. request'.state = "done" /\ request'.op \in ListOps /\ request'.answer = "ok" =>
         /\ IsEntry(ListedEntry')
         /\ NamesListed(request.listed, SubEntriesOf(ListedEntry),
                        Len(SubEntriesOf(ListedEntry)))'
  BY <1>1, <1>2, <1>3, <1>5, <1>8
<1>13. request'.sub => request'.index # 0 /\ request'.index <= Len(SubEntriesOf(ListedEntry'))
  BY <1>1, <1>2, <1>9
<1> QED BY <1>10, <1>11, <1>12, <1>13 DEF Listing, ListOps, IsEntry, SubEntriesOf

(* A list that goes on, at the same entry or at the next.                  *)
LEMMA ListGoesOn ==
  ASSUME Listing, request.state = "list", UNCHANGED <<tool, context>>,
         request'.state = "list", request'.op = request.op, request'.path = request.path,
         request'.context = request.context, request'.temporary = request.temporary,
         NEW content, content = SubEntriesOf(ListedEntry),
         request'.index \in Nat \ {0}, request'.index <= Len(content) + 1,
         request'.sub => request'.index <= Len(content),
         NEW listed, listed = request'.listed, NamesListed(listed, content, request'.index - 1)
  PROVE  Listing'
<1>1. PICK entry : entry = ListedEntry /\ entry = ListedEntry'
  BY ListedEntryStays
<1>2. PICK n : n = request'.index - 1
  OBVIOUS
<1>3. NamesListed(listed, content, n)' = NamesListed(listed, content, n)
  BY NamesListedStays
<1>4. Listed' = Listed
  BY DEF Listed
<1>5. Listed.entry = entry /\ IsEntry(entry)
  BY <1>1 DEF Listing
<1>6. /\ Listed'.entry = ListedEntry' /\ IsEntry(ListedEntry')
      /\ content = SubEntriesOf(ListedEntry')
  BY <1>1, <1>4, <1>5
<1>7. NamesListed(request.listed, SubEntriesOf(ListedEntry),
                  IF request.index = 0 THEN 0 ELSE request.index - 1)'
  <2>1. n = IF request'.index = 0 THEN 0 ELSE request'.index - 1
    BY <1>2
  <2> QED BY <1>2, <1>3, <1>6, <2>1, Zenon
<1> QED BY <1>6, <1>7 DEF Listing, IsEntry, SubEntriesOf

(* The host asks for what an open directory lists.                         *)
LEMMA AskedToList ==
  ASSUME Inv, Known, AskOpen
  PROVE  Listing'
<1>1. PICK c \in Contexts, op \in {"read", "readdir", "ReadFile"} :
        request' = [Idle EXCEPT !.state = IF op = "readdir" THEN "list" ELSE "read",
                      !.op = op, !.context = c]
  BY DEF AskOpen
<1>2. /\ request'.op = op /\ request'.context = c /\ request'.temporary = Closed
      /\ ~ request'.sub /\ request'.index = 0 /\ request'.listed = <<>>
      /\ request'.state = IF op = "readdir" THEN "list" ELSE "read"
  BY <1>1 DEF Idle
<1>3. UNCHANGED <<tool, context>>
  BY DEF AskOpen
<1>4. CASE op # "readdir"
  BY <1>2, <1>4 DEF Listing, ListOps
<1>5. CASE op = "readdir"
  <2>1. PICK entry : entry = context[c].entry
    OBVIOUS
  <2>2. ListedEntry' = entry /\ Listed'.entry = entry
    BY <1>2, <1>3, <1>5, <2>1 DEF ListedEntry, Listed
  <2>3. IsEntry(entry)
    BY <2>1 DEF Known
  <2>4. Len(SubEntriesOf(entry)) \in Nat
    BY <2>3, SubEntriesAre
  <2>5. PICK content : content = SubEntriesOf(entry)
    OBVIOUS
  <2>6. NamesListed(<<>>, content, 0)'
    BY <1>3, NothingListed, NamesListedStays
  <2>7. 0 \in Nat /\ 0 <= Len(SubEntriesOf(entry)) + 1
    BY <2>4
  <2> QED BY <1>2, <1>5, <2>2, <2>3, <2>5, <2>6, <2>7 DEF Listing, IsEntry, SubEntriesOf
<1> QED BY <1>4, <1>5

(* The path of a request is looked up: a query of FindFiles goes on to list*)
(* the entry that was found.                                               *)
LEMMA FoundToList ==
  ASSUME Inv, PathInv, Answered, Known, Listing, Found
  PROVE  Listing'
<1>1. /\ request.state = "lookup" /\ lookup.state = "end" /\ lookup.result = 1
      /\ UNCHANGED tool
  BY DEF Found
<1>2. /\ request.op # "readdir" /\ request.index = 0 /\ request.listed = <<>>
      /\ ~ request.sub
  BY <1>1, RequestHolds DEF Listing, Holding
<1>3. CASE request.op \in OpenOps
  <2>1. request' = Answer("ok")
    BY <1>3 DEF Found
  <2>2. request'.state = "done" /\ request'.op = request.op /\ ~ request'.sub
    BY <1>2, <2>1, RequestHolds DEF Answer, RequestShape
  <2>3. request.op \notin ListOps
    BY <1>3 DEF OpenOps, ListOps
  <2> QED BY <2>2, <2>3, NoListing
<1>4. CASE request.op \notin OpenOps
  <2>1. /\ request' = [request EXCEPT !.temporary = Opened(request.op, MadeFileEntry),
                         !.state = IF request.op = "FindFiles" THEN "list" ELSE "stat"]
        /\ UNCHANGED context
    BY <1>4 DEF Found
  <2>2. PICK opened : opened = Opened(request.op, MadeFileEntry)
    OBVIOUS
  <2>3. /\ request'.temporary = opened /\ request'.op = request.op
        /\ request'.path = request.path /\ request'.context = request.context
        /\ ~ request'.sub /\ request'.index = 0 /\ request'.listed = <<>>
        /\ request'.state = IF request.op = "FindFiles" THEN "list" ELSE "stat"
    BY <1>2, <2>1, <2>2, RequestHolds DEF RequestShape
  <2>4. CASE request.op # "FindFiles"
    BY <1>2, <2>3, <2>4 DEF Listing, ListOps
  <2>5. CASE request.op = "FindFiles"
    <3>1. opened.op = request.op /\ opened.entry = lookup.entry
      BY <2>2 DEF Opened, MadeFileEntry
    <3>2. opened # Closed
      BY <2>5, <3>1 DEF Closed
    <3>3. PICK entry : entry = lookup.entry
      OBVIOUS
    <3>4. Listed'.entry = entry
      BY <2>3, <3>1, <3>2, <3>3 DEF Listed
    <3>5. ListedEntry = entry
      BY <1>1, <2>5, <3>3, LookedUp DEF ListedEntry
    <3>6. ListedEntry' = entry
      BY <1>1, <2>1, <2>3, <3>5, ListedEntryStays
    <3>7. IsEntry(entry)
      BY <3>3 DEF Known
    <3>8. Len(SubEntriesOf(entry)) \in Nat
      BY <3>7, SubEntriesAre
    <3>9. PICK content : content = SubEntriesOf(entry)
      OBVIOUS
    <3>10. NamesListed(<<>>, content, 0)'
      BY <1>1, NothingListed, NamesListedStays
    <3>11. 0 \in Nat /\ 0 <= Len(SubEntriesOf(entry)) + 1
      BY <3>8
    <3> QED BY <2>3, <2>5, <3>4, <3>6, <3>7, <3>9, <3>10, <3>11
            DEF Listing, IsEntry, SubEntriesOf
  <2> QED BY <2>4, <2>5
<1> QED BY <1>3, <1>4

(* A request ends: if it has listed, to the end of the directory.          *)
LEMMA EndedList ==
  ASSUME Inv, Listing, request.state \in {"stat", "read", "list"}, UNCHANGED <<tool, context>>,
         NEW answered \in {Answer("ok"), Fail("error")}, Ended(answered),
         request.state = "list" /\ answered = Answer("ok") => request.index > Len(SubEntries)
  PROVE  Listing'
<1>1. request' = [answered EXCEPT !.temporary = Closed, !.sub = FALSE]
  BY DEF Ended
<1>2. /\ request'.state = "done" /\ ~ request'.sub /\ request'.op = request.op
      /\ request'.path = request.path /\ request'.context = request.context
      /\ request'.listed = request.listed
      /\ answered = Answer("ok") \/ request'.answer = "error"
  BY <1>1, RequestHolds DEF RequestShape, Answer, Fail
<1>3. CASE request.state # "list" \/ answered # Answer("ok")
  <2>1. request'.op \notin ListOps \/ request'.answer # "ok"
    BY <1>2, <1>3 DEF Listing
  <2> QED BY <1>2, <2>1, NoListing
<1>4. CASE request.state = "list" /\ answered = Answer("ok")
  <2>1. PICK entry : entry = ListedEntry /\ entry = ListedEntry'
    BY <1>2, ListedEntryStays
  <2>2. PICK content : content = SubEntriesOf(entry)
    OBVIOUS
  <2>3. /\ Listed.entry = entry /\ IsEntry(entry) /\ request.index \in Nat
        /\ request.index <= Len(content) + 1
        /\ NamesListed(request.listed, content, IF request.index = 0 THEN 0 ELSE request.index - 1)
    BY <1>4, <2>1, <2>2 DEF Listing
  <2>4. Len(content) \in Nat
    BY <2>2, <2>3, SubEntriesAre
  <2>5. request.index > Len(content)
    BY <1>4, <2>2, <2>3 DEF SubEntries
  <2>6. Len(content) = IF request.index = 0 THEN 0 ELSE request.index - 1
    BY <2>3, <2>4, <2>5
  <2>7. PICK listed : listed = request.listed
    OBVIOUS
  <2>8. NamesListed(listed, content, Len(content))
    BY <2>3, <2>6, <2>7
  <2>9. NamesListed(listed, content, Len(content))'
    BY <2>8, NamesListedStays
  <2> QED BY <1>2, <2>1, <2>2, <2>3, <2>7, <2>9 DEF Listing, IsEntry, SubEntriesOf
<1> QED BY <1>3, <1>4

(* A list that starts, gets a sub file entry or fills in its name.         *)
LEMMA ListStep ==
  ASSUME Inv, Listing, StartList \/ GetSubFileEntry \/ FillSubFileEntry,
         ~ \E answered \in {Answer("ok"), Fail("error")} : Ended(answered)
  PROVE  Listing'
<1>1. request.state = "list" /\ UNCHANGED <<tool, context>>
  BY RequestHolds DEF StartList, GetSubFileEntry, FillSubFileEntry, Holding
<1>2. PICK entry : entry = ListedEntry
  OBVIOUS
<1>3. PICK content : content = SubEntriesOf(entry)
  OBVIOUS
<1>4. PICK i \in Nat : i = request.index
  BY <1>1 DEF Listing
<1>5. /\ Listed.entry = entry /\ IsEntry(entry) /\ i <= Len(content) + 1
      /\ NamesListed(request.listed, content, IF i = 0 THEN 0 ELSE i - 1)
      /\ request.sub => i # 0 /\ i <= Len(content)
  BY <1>1, <1>2, <1>3, <1>4 DEF Listing
<1>6. Len(content) \in Nat /\ SubEntries = content
  BY <1>3, <1>5, SubEntriesAre DEF SubEntries
<1>7. CASE StartList
  <2>1. request' = [request EXCEPT !.index = 1] /\ i = 0
    BY <1>4, <1>7 DEF StartList
  <2>2. /\ request'.state = "list" /\ request'.op = request.op /\ request'.path = request.path
        /\ request'.context = request.context /\ request'.temporary = request.temporary
        /\ request'.index = 1 /\ request'.sub = request.sub /\ request'.listed = request.listed
    BY <1>1, <2>1, RequestHolds DEF RequestShape
  <2>3. ~ request'.sub
    BY <1>5, <2>1, <2>2
  <2>4. PICK listed : listed = request'.listed
    OBVIOUS
  <2>5. NamesListed(listed, content, request'.index - 1)
    <3>1. request'.index - 1 = 0
      BY <2>2
    <3> QED BY <1>5, <2>1, <2>2, <2>4, <3>1
  <2>6. request'.index \in Nat \ {0} /\ request'.index <= Len(content) + 1
    BY <1>6, <2>2
  <2> QED BY <1>1, <1>2, <1>3, <2>2, <2>3, <2>4, <2>5, <2>6, ListGoesOn
<1>8. CASE GetSubFileEntry
  <2>1. request' = [request EXCEPT !.sub = TRUE] /\ i \in 1 .. Len(content)
    BY <1>4, <1>6, <1>8 DEF GetSubFileEntry
  <2>2. /\ request'.state = "list" /\ request'.op = request.op /\ request'.path = request.path
        /\ request'.context = request.context /\ request'.temporary = request.temporary
        /\ request'.index = i /\ request'.listed = request.listed
    BY <1>1, <1>4, <2>1, RequestHolds DEF RequestShape
  <2>3. PICK listed : listed = request'.listed
    OBVIOUS
  <2>4. NamesListed(listed, content, request'.index - 1)
    <3>1. i # 0
      BY <2>1
    <3> QED BY <1>5, <2>2, <2>3, <3>1
  <2>5. request'.index \in Nat \ {0} /\ request'.index <= Len(content)
        /\ request'.index <= Len(content) + 1
    BY <1>6, <2>1, <2>2
  <2> QED BY <1>1, <1>2, <1>3, <2>2, <2>3, <2>4, <2>5, ListGoesOn
<1>9. CASE FillSubFileEntry
  <2>1. PICK written : written = FromFileEntryPath(content[i].name)
    OBVIOUS
  <2>2. /\ request' = [request EXCEPT !.sub = FALSE, !.index = @ + 1,
                                      !.listed = Append(@, written)]
        /\ request.sub
    BY <1>4, <1>6, <1>9, <2>1 DEF FillSubFileEntry
  <2>3. /\ request'.state = "list" /\ request'.op = request.op /\ request'.path = request.path
        /\ request'.context = request.context /\ request'.temporary = request.temporary
        /\ request'.index = i + 1 /\ request'.listed = Append(request.listed, written)
        /\ ~ request'.sub
    BY <1>1, <1>4, <2>2, RequestHolds DEF RequestShape
  <2>4. i # 0 /\ i <= Len(content)
    BY <1>5, <2>2
  <2>5. PICK before : before = request.listed
    OBVIOUS
  <2>6. PICK listed : listed = request'.listed
    OBVIOUS
  <2>7. NamesListed(before, content, i - 1) /\ listed = Append(before, written)
    BY <1>5, <2>3, <2>4, <2>5, <2>6
  <2>8. NamesListed(listed, content, i)
    <3>1. before \in Seq(ToSet(before)) /\ Len(before) = i - 1
      BY <2>7 DEF NamesListed
    <3>2. /\ listed \in Seq(ToSet(before) \cup {written}) /\ Len(listed) = i
          /\ listed[i] = written /\ \A j \in 1 .. i - 1 : listed[j] = before[j]
      BY <2>4, <2>7, <3>1
    <3>3. listed \in Seq(ToSet(listed))
      BY <3>2, SequenceIsPath DEF IsPath
    <3>4. ASSUME NEW j \in 1 .. i PROVE listed[j] = FromFileEntryPath(content[j].name)
      <4>1. CASE j = i
        BY <2>1, <3>2, <4>1
      <4>2. CASE j # i
        <5>1. j \in 1 .. i - 1
          BY <4>2
        <5>2. before[j] = FromFileEntryPath(content[j].name)
          BY <2>7, <5>1 DEF NamesListed
        <5> QED BY <3>2, <5>1, <5>2
      <4> QED BY <4>1, <4>2
    <3> QED BY <3>2, <3>3, <3>4 DEF NamesListed
  <2>9. NamesListed(listed, content, request'.index - 1)
    <3>1. i + 1 - 1 = i
      OBVIOUS
    <3> QED BY <2>3, <2>8, <3>1
  <2>10. request'.index \in Nat \ {0} /\ request'.index <= Len(content) + 1
    BY <1>6, <2>3, <2>4
  <2> QED BY <1>1, <1>2, <1>3, <2>3, <2>6, <2>9, <2>10, ListGoesOn
<1> QED BY <1>7, <1>8, <1>9

LEMMA MountListing ==
  ASSUME Inv, PathInv, Answered, Known, Listing, MountNext
  PROVE  Listing'
<1>1. CASE OpenVolume \/ Unmount \/ Walk
  BY <1>1, ListingStays DEF OpenVolume, Unmount, Walk, mountVars
<1>2. CASE RefuseOpen
  <2>1. /\ request'.state = "done" /\ ~ request'.sub /\ request'.answer = "refused"
    BY <1>2 DEF RefuseOpen, Idle
  <2> QED BY <2>1, NoListing
<1>3. CASE AskByPath
  <2>1. /\ request'.state \in {"lookup", "done"} /\ ~ request'.sub /\ request'.index = 0
        /\ request'.listed = <<>> /\ request'.op \in OpenOps \cup QueryOps
        /\ request'.state = "done" => request'.answer = "no entry"
    <3>1. PICK op \in OpenOps \cup QueryOps, path \in HostPaths[tool], c \in Contexts :
            \/ request' = [[Idle EXCEPT !.op = op, !.path = path, !.context = c]
                             EXCEPT !.state = "lookup"]
            \/ request' = [[Idle EXCEPT !.op = op, !.path = path, !.context = c]
                             EXCEPT !.state = "done", !.answer = "no entry"]
      BY <1>3 DEF AskByPath
    <3>2. PICK asked : asked = [Idle EXCEPT !.op = op, !.path = path, !.context = c]
      OBVIOUS
    <3>3. asked = [state |-> "idle", op |-> op, path |-> path, context |-> c,
                   temporary |-> Closed, sub |-> FALSE, index |-> 0, listed |-> <<>>,
                   error |-> FALSE, answer |-> "none"]
      BY <3>2 DEF Idle
    <3>4. CASE request' = [asked EXCEPT !.state = "lookup"]
      BY <3>3, <3>4
    <3>5. CASE request' = [asked EXCEPT !.state = "done", !.answer = "no entry"]
      BY <3>3, <3>5
    <3> QED BY <3>1, <3>2, <3>4, <3>5
  <2>2. request'.op # "readdir"
    BY <2>1 DEF OpenOps, QueryOps
  <2>3. CASE request'.state = "done"
    BY <2>1, <2>3, NoListing
  <2>4. CASE request'.state = "lookup"
    BY <2>1, <2>2, <2>4 DEF Listing
  <2> QED BY <2>1, <2>3, <2>4
<1>4. CASE AskOpen
  BY <1>4, AskedToList
<1>5. CASE CloseFile \/ ReleaseDirectory
  <2>1. request'.state = "idle" /\ ~ request'.sub
    BY <1>5, RequestHolds DEF CloseFile, ReleaseDirectory, MayRequest, Holding
  <2> QED BY <2>1, NoListing
<1>6. CASE NotFound \/ FoundUnnamed
  <2>1. /\ request.state = "lookup"
        /\ request' = Answer("no entry") \/ request' = Fail("no entry")
    BY <1>6 DEF NotFound, FoundUnnamed
  <2>2. request'.state = "done" /\ ~ request'.sub /\ request'.answer = "no entry"
    BY <2>1, RequestHolds DEF Answer, Fail, RequestShape, Holding
  <2> QED BY <2>2, NoListing
<1>7. CASE Found
  BY <1>7, FoundToList
<1>8. CASE Stat \/ ReadFile
  BY <1>8, EndedList DEF Stat, ReadFile
<1>9. CASE StartList \/ GetSubFileEntry \/ FillSubFileEntry
  <2>1. request.state = "list" /\ UNCHANGED <<tool, context>>
    BY <1>9, RequestHolds DEF StartList, GetSubFileEntry, FillSubFileEntry, Holding
  <2>2. CASE Ended(Fail("error"))
    <3>1. Fail("error") # Answer("ok")
      <4>1. Fail("error").answer = "error" /\ Answer("ok").answer = "ok"
        BY RequestHolds DEF Fail, Answer, RequestShape
      <4> QED BY <4>1
    <3> QED BY <2>1, <2>2, <3>1, EndedList
  <2>3. CASE Ended(Answer("ok"))
    <3>1. request'.state = "done"
      BY <2>3, RequestHolds DEF Ended, Answer, RequestShape
    <3>2. request'.state = "list" \/ Ended(Fail("error"))
      BY <1>9, <2>1, RequestHolds
         DEF StartList, GetSubFileEntry, FillSubFileEntry, RequestShape
    <3> QED BY <2>2, <3>1, <3>2
  <2> QED BY <1>9, <2>2, <2>3, ListStep
<1>10. CASE EndList
  BY <1>10, EndedList DEF EndList
<1>11. CASE Return
  <2>1. request'.state = "idle" /\ ~ request'.sub
    BY <1>11 DEF Return, Idle
  <2> QED BY <2>1, NoListing
<1> QED BY <1>1, <1>2, <1>3, <1>4, <1>5, <1>6, <1>7, <1>8, <1>9, <1>10, <1>11
        DEF MountNext, Serve

ListInv == AnswerInv /\ LookupInv /\ Known /\ Listing

LEMMA StepListing == ListInv /\ [Next]_vars => ListInv'
<1> SUFFICES ASSUME AnswerInv, LookupInv, Known, Listing, [Next]_vars PROVE ListInv'
  BY DEF ListInv
<1>1. AnswerInv' /\ LookupInv'
  BY StepAnswered, StepLookup
<1>2. Known'
  BY StepKnown DEF AnswerInv
<1>3. Listing'
  <2>1. CASE UNCHANGED <<tool, request, context>>
    BY <2>1, ListingStays
  <2>2. CASE MountNext
    BY <2>2, MountListing DEF AnswerInv
  <2>3. CASE InfoNext
    <3>1. UNCHANGED <<tool, request, context>>
      BY <2>3 DEF InfoNext, InfoStep, PrintHierarchy, PrintByPath, PrintByIdentifier,
                  PrintVolume, FailHierarchy, DigestBlock, PrintFileEntry, CallForSubFileEntry,
                  ReturnFromCall, WalkByPath, PrintFound, CloseInput, mountVars
    <3> QED BY <3>1, ListingStays
  <2> QED BY <2>1, <2>2, <2>3 DEF Next, vars, toolVars, mountVars
<1> QED BY <1>1, <1>2, <1>3 DEF ListInv

(* What has been listed can be opened.                                     *)
LEMMA ListedOpens == ListInv => ListedCanBeOpened
<1> SUFFICES ASSUME Listing,
                    request.op \in ListOps /\ request.state = "done" /\ request.answer = "ok"
             PROVE  ListedCanBeOpened
  BY DEF ListInv, ListedCanBeOpened
<1>1. PICK entry : entry = ListedEntry
  OBVIOUS
<1>2. PICK content : content = SubEntriesOf(entry)
  OBVIOUS
<1>3. IsEntry(entry) /\ NamesListed(request.listed, content, Len(content))
  BY <1>1, <1>2 DEF Listing
<1>4. /\ DOMAIN content = 1 .. Len(content)
      /\ \A i \in 1 .. Len(content) : IsPath(content[i].name)
  BY <1>2, <1>3, SubEntriesAre
<1>5. Len(request.listed) = Len(content)
  BY <1>3 DEF NamesListed
<1>6. ASSUME NEW i \in DOMAIN content
      PROVE  LET converted == ToFileEntryPath(<<PathSeparator>> \o request.listed[i])
             IN converted.valid /\ converted.text = <<Separator>> \o content[i].name
  <2>1. PICK name : name = content[i].name
    OBVIOUS
  <2>2. IsPath(name) /\ request.listed[i] = FromFileEntryPath(name)
    BY <1>3, <1>4, <2>1 DEF NamesListed
  <2> QED BY <2>1, <2>2, NameReturns
<1>7. entry = IF request.op = "FindFiles" THEN Meant(WithoutSeparator(request.path)).entry
              ELSE context[request.context].entry
  BY <1>1 DEF ListedEntry, Meant, Converted
<1> QED BY <1>2, <1>5, <1>6, <1>7 DEF ListedCanBeOpened

LEMMA InitListing == Init => ListInv
<1> SUFFICES ASSUME Init PROVE ListInv
  OBVIOUS
<1>1. AnswerInv
  BY InitAnswered
<1>2. LookupInv
  BY DEF Init, LookupInit, NoLookup, NewLookup, LookupInv, LookupShape, Walking, NothingDangles
<1>3. Known
  BY DEF Init, LookupInit, MountInit, NoLookup, NewLookup, Closed, Known, IsEntry
<1>4. Listing
  BY DEF Init, MountInit, Idle, Listing
<1> QED BY <1>1, <1>2, <1>3, <1>4 DEF ListInv

(* A list that is answered has every entry of its directory once and in    *)
(* their order, and each name, whatever characters it has, is escaped so   *)
(* that the path the host makes of it is converted to just that name       *)
(* (mount_fuse.c:818, mount_path_string.c).                                *)
THEOREM WhatIsListedOpens == Spec => []ListedCanBeOpened
<1> QED BY InitListing, ListedOpens, StepListing, PTL DEF Spec

-----------------------------------------------------------------------------
(* Paths that are printed.                                                 *)

(* The cluster where the sub entries of an entry are.                      *)
ClusterOf(entry) == IF entry = NoEntry THEN Root ELSE entry.cluster

(* A path that leads to a directory and ends with the separator after it.  *)
Leads(path, entry) ==
  /\ IsPath(path)
  /\ Len(path) > 0
  /\ path[Len(path)] = FileSystemSeparator
  /\ Meaning(path)[Len(path)] =
       [start |-> Len(path) + 1, found |-> TRUE, cluster |-> ClusterOf(entry), entry |-> entry]

(* A call prints the root directory, or a sub entry of the directory that  *)
(* its path leads to.                                                      *)
CallRight(called) ==
  /\ called = [entry |-> called.entry, path |-> called.path, index |-> called.index,
               blocks |-> called.blocks]
  /\ \/ called.entry = NoEntry /\ called.path = <<FileSystemSeparator>>
     \/ \E d : /\ IsEntry(d)
               /\ Leads(called.path, d)
               /\ \E i \in DOMAIN SubEntriesOf(d) : called.entry = SubEntriesOf(d)[i]

(* The path of an entry leads to it.                                       *)
PrintedRight(path, entry) ==
  Len(path) > 1 =>
    /\ Resolve(path).found = TRUE
    /\ SameName(Resolve(path).entry.name, entry.name)
    /\ Resolve(path).entry.id <= entry.id

PrintInv ==
  /\ \A i \in DOMAIN calls : CallRight(calls[i])
  /\ \A p \in printed : p.text = ValueString(p.path) /\ PrintedRight(p.path, p.entry)

LEMMA PrintedIs ==
  ASSUME NEW path, NEW entry
  PROVE  /\ Printed(path, entry).path = path
         /\ Printed(path, entry).text = ValueString(path)
         /\ Printed(path, entry).entry = entry
BY DEF Printed

LEMMA StartsAfter ==
  ASSUME NEW path, IsPath(path), NEW k \in Nat, k <= Len(path) + 1
  PROVE  Meaning(path)[k].start \in Nat \ {0}
<1>0. PICK n \in Nat : n = Len(path) + 1
  BY DEF IsPath
<1> DEFINE Not == {i \in Nat : i <= n /\ Meaning(path)[i].start \notin Nat \ {0}}
<1> SUFFICES ASSUME Not # {} PROVE FALSE
  BY <1>0
<1>1. PICK i \in Not : \A j \in Not : i <= j
  BY FirstNatural
<1>2. CASE i = 0
  <2>1. Meaning(path)[0].start = 1
    BY MeaningIs DEF NoMeaning
  <2> QED BY <1>1, <1>2, <2>1
<1>3. CASE i # 0
  <2>1. i \in Nat /\ i - 1 \in Nat /\ i - 1 <= n /\ ~ (i - 1 \in Not) /\ i \in 1 .. n
    BY <1>1, <1>3
  <2>2. PICK before : before = Meaning(path)[i - 1]
    OBVIOUS
  <2>3. before.start \in Nat \ {0} /\ IsMeaning(before)
    BY <1>0, <2>1, <2>2, MeaningShape
  <2>4. PICK after : after = MeaningAfter(path, before, i) /\ after = Meaning(path)[i]
    BY <1>0, <2>1, <2>2, MeaningIs
  <2>5. after = before \/ after = [before EXCEPT !.start = i + 1] \/ after.start = i + 1
    BY <2>4 DEF MeaningAfter
  <2>6. after.start = before.start \/ after.start = i + 1
    BY <2>3, <2>5 DEF IsMeaning
  <2>7. after.start \in Nat \ {0}
    BY <2>1, <2>3, <2>6
  <2> QED BY <1>1, <2>4, <2>7
<1> QED BY <1>2, <1>3

LEMMA SameSegment ==
  ASSUME NEW S, NEW p \in Seq(S), NEW q \in Seq(S), NEW a \in Nat \ {0}, NEW b \in Nat,
         b <= Len(p)
  PROVE  SubSeq(p \o q, a, b) = SubSeq(p, a, b)
<1>1. \A i \in 1 .. Len(p) : (p \o q)[i] = p[i]
  BY ConcatProperties
<1>2. PICK r : r = p \o q
  OBVIOUS
<1>3. SubSeq(r, a, b) = [i \in 1 .. (1 + b - a) |-> r[i + a - 1]]
  OBVIOUS
<1>4. SubSeq(p, a, b) = [i \in 1 .. (1 + b - a) |-> p[i + a - 1]]
  OBVIOUS
<1>5. ASSUME NEW i \in 1 .. (1 + b - a) PROVE r[i + a - 1] = p[i + a - 1]
  <2>1. i + a - 1 \in 1 .. Len(p)
    OBVIOUS
  <2> QED BY <1>1, <1>2, <2>1
<1> QED BY <1>2, <1>3, <1>4, <1>5

(* Names mean what they mean whatever follows them.                        *)
LEMMA MeaningOfPrefix ==
  ASSUME NEW S, NEW p \in Seq(S), NEW q \in Seq(S), NEW k \in Nat, k <= Len(p)
  PROVE  Meaning(p \o q)[k] = Meaning(p)[k]
<1>1. PICK m \in Nat : m = Len(p)
  OBVIOUS
<1>2. PICK r \in Seq(S) : r = p \o q
  BY ConcatProperties
<1>3. /\ Len(r) \in Nat /\ m <= Len(r)
      /\ \A i \in 1 .. m : i \in 1 .. Len(r) /\ r[i] = p[i]
  BY <1>1, <1>2, ConcatProperties
<1>4. IsPath(p) /\ IsPath(r)
  BY SequenceIsPath
<1> DEFINE Not == {i \in Nat : i <= m /\ Meaning(r)[i] # Meaning(p)[i]}
<1> SUFFICES ASSUME Not # {} PROVE FALSE
  BY <1>1, <1>2
<1>5. PICK i \in Not : \A j \in Not : i <= j
  BY FirstNatural
<1>6. i \in Nat /\ i <= m /\ Meaning(r)[i] # Meaning(p)[i]
  BY <1>5
<1>7. CASE i = 0
  BY <1>4, <1>6, <1>7, MeaningIs
<1>8. CASE i # 0
  <2>1. i - 1 \in Nat /\ i - 1 <= m /\ ~ (i <= i - 1) /\ i \in 1 .. m
    BY <1>1, <1>6, <1>8
  <2>2. Meaning(r)[i - 1] = Meaning(p)[i - 1]
    BY <1>5, <2>1
  <2>3. PICK before : before = Meaning(p)[i - 1]
    OBVIOUS
  <2>4. i \in 1 .. Len(p) + 1 /\ i \in 1 .. Len(r) + 1 /\ i - 1 <= Len(p) + 1
    BY <1>1, <1>3, <2>1
  <2>5. Meaning(p)[i] = MeaningAfter(p, before, i)
    BY <1>4, <2>3, <2>4, MeaningIs
  <2>6. Meaning(r)[i] = MeaningAfter(r, before, i)
    BY <1>4, <2>2, <2>3, <2>4, MeaningIs
  <2>7. r[i] = p[i] /\ i <= Len(r) /\ i <= Len(p) /\ i # Len(r) + 1 /\ i # Len(p) + 1
    BY <1>1, <1>3, <2>1
  <2>8. SubSeq(r, before.start, i - 1) = SubSeq(p, before.start, i - 1)
    <3>1. PICK a \in Nat \ {0} : a = before.start
      BY <1>4, <2>1, <2>3, <2>4, StartsAfter
    <3>2. PICK b \in Nat : b = i - 1 /\ b <= Len(p)
      BY <1>1, <2>1
    <3>3. SubSeq(p \o q, a, b) = SubSeq(p, a, b)
      BY <3>2, SameSegment
    <3> QED BY <1>2, <3>1, <3>2, <3>3
  <2>9. MeaningAfter(r, before, i) = MeaningAfter(p, before, i)
    BY <2>7, <2>8 DEF MeaningAfter
  <2> QED BY <1>6, <2>5, <2>6, <2>9
<1> QED BY <1>7, <1>8

(* What is known after a place where the name of an entry ends.            *)
MeaningOfName(i, entry) ==
  [start |-> i + 1, found |-> entry # NoEntry, cluster |-> entry.cluster, entry |-> entry]

(* A name after a path that leads to a directory is looked up there,       *)
(* whether it is the last one or a separator follows it.                   *)
LEMMA NameMeans ==
  ASSUME NEW S, NEW path \in Seq(S), NEW d, Leads(path, d),
         NEW q \in Seq(S), NEW n \in Nat \ {0}, n <= Len(q),
         \A j \in 1 .. n : q[j] # FileSystemSeparator,
         n = Len(q) \/ q[n + 1] = FileSystemSeparator
  PROVE  Meaning(path \o q)[Len(path) + n + 1] =
           MeaningOfName(Len(path) + n + 1, EntryByName(ClusterOf(d), SubSeq(q, 1, n)))
<1>0. PICK entry : entry = EntryByName(ClusterOf(d), SubSeq(q, 1, n))
  OBVIOUS
<1>1. PICK l \in Nat : l = Len(path)
  OBVIOUS
<1>2. PICK t \in Seq(S) : t = path \o q
  BY ConcatProperties
<1>3. PICK m \in Nat : m = Len(q)
  OBVIOUS
<1>4. Len(t) = l + m /\ \A j \in 1 .. m : t[l + j] = q[j]
  BY <1>1, <1>2, <1>3, ConcatProperties
<1>5. IsPath(t)
  BY SequenceIsPath
<1>6. PICK before : before = Meaning(t)[l]
  OBVIOUS
<1>7. before = [start |-> l + 1, found |-> TRUE, cluster |-> ClusterOf(d), entry |-> d]
  <2>1. Meaning(path \o q)[l] = Meaning(path)[l]
    <3>1. l <= Len(path)
      BY <1>1
    <3> QED BY <3>1, MeaningOfPrefix
  <2> QED BY <1>1, <1>2, <1>6, <2>1 DEF Leads
<1>8. PICK b \in Nat : b = l + n /\ l <= b /\ b <= Len(t) /\ l > 0
  <2>1. l > 0
    BY <1>1 DEF Leads
  <2>2. n <= m
    BY <1>3
  <2>3. l + n \in Nat /\ l <= l + n /\ l + n <= Len(t)
    BY <1>4, <2>2
  <2> QED BY <2>1, <2>3
<1>9. \A j \in l + 1 .. b : t[j] # FileSystemSeparator
  <2> SUFFICES ASSUME NEW j \in l + 1 .. b PROVE t[j] # FileSystemSeparator
    OBVIOUS
  <2>1. PICK k \in 1 .. n : k = j - l
    BY <1>8
  <2>2. k \in 1 .. m /\ l + k = j
    BY <1>3, <2>1
  <2> QED BY <1>4, <2>1, <2>2
<1>10. Meaning(t)[b] = before
  BY <1>5, <1>6, <1>8, <1>9, MeaningWithin
<1>11. PICK i \in Nat : i = b + 1
  OBVIOUS
<1>12. Meaning(t)[i] = MeaningAfter(t, before, i)
  <2>1. i \in 1 .. Len(t) + 1 /\ i - 1 = b
    BY <1>4, <1>8, <1>11
  <2> QED BY <1>5, <1>10, <2>1, MeaningIs
<1>13. ~ (i <= Len(t) /\ t[i] # FileSystemSeparator)
  <2>1. CASE n = m
    BY <1>4, <1>8, <1>11, <2>1
  <2>2. CASE n # m
    <3>1. n + 1 \in 1 .. m /\ l + (n + 1) = i
      BY <1>3, <1>8, <1>11, <2>2
    <3> QED BY <1>3, <1>4, <2>2, <3>1
  <2> QED BY <2>1, <2>2
<1>14. i # 1 /\ before.start = l + 1 /\ before.start # i /\ before.found = TRUE
       /\ before.cluster = ClusterOf(d)
  BY <1>7, <1>8, <1>11
<1>15. PICK name : name = SubSeq(q, 1, n)
  OBVIOUS
<1>16. name # <<>> /\ SubSeq(t, l + 1, i - 1) = name
  <2>1. name = [j \in 1 .. n |-> q[j]]
    BY <1>15
  <2>2. SubSeq(t, l + 1, b) = [j \in 1 .. (1 + b - (l + 1)) |-> t[j + (l + 1) - 1]]
    OBVIOUS
  <2>3. 1 + b - (l + 1) = n /\ i - 1 = b
    BY <1>8, <1>11
  <2>4. ASSUME NEW j \in 1 .. n PROVE t[j + (l + 1) - 1] = q[j]
    <3>1. j + (l + 1) - 1 = l + j /\ j \in 1 .. m
      BY <1>3
    <3> QED BY <1>4, <3>1
  <2>5. name # <<>>
    <3>1. 1 \in DOMAIN name
      BY <2>1
    <3>2. DOMAIN <<>> = {}
      OBVIOUS
    <3> QED BY <3>1, <3>2
  <2> QED BY <2>1, <2>2, <2>3, <2>4, <2>5
<1>17. MeaningAfter(t, before, i) = MeaningOfName(i, entry)
  BY <1>0, <1>13, <1>14, <1>15, <1>16 DEF MeaningAfter, MeaningOfName
<1>18. i = l + n + 1
  BY <1>8, <1>11
<1> QED BY <1>0, <1>1, <1>2, <1>12, <1>17, <1>18

(* The first entry of a name is no other than one that comes first.        *)
LEMMA FirstOfName ==
  ASSUME NEW c \in DOMAIN Content, NEW k \in DOMAIN Content[c], NEW entry, entry = Content[c][k]
  PROVE  \E j \in DOMAIN Content[c] :
           /\ j \in 1 .. k
           /\ EntryByName(c, entry.name) = Content[c][j]
           /\ SameName(Content[c][j].name, entry.name)
<1> DEFINE content == Content[c]
           same == {i \in DOMAIN content : SameName(content[i].name, entry.name)}
<1>1. content \in Seq(ToSet(content))
  BY PathLookupAssumption
<1>2. k \in same
  BY DEF SameName
<1>3. same \subseteq Nat /\ \A i \in DOMAIN content : i \in Nat \ {0}
  BY <1>1
<1>4. \E i \in same : \A j \in same : i <= j
  BY <1>2, <1>3, FirstNatural
<1>5. PICK j \in same : EntryByName(c, entry.name) = content[j] /\ \A i \in same : j <= i
  BY <1>2, <1>4 DEF EntryByName
<1>6. j \in 1 .. k
  BY <1>2, <1>3, <1>5
<1> QED BY <1>5, <1>6

(* A sub entry and the directory where it is.                              *)
LEMMA SubEntryIs ==
  ASSUME NEW d, IsEntry(d), NEW k \in DOMAIN SubEntriesOf(d), NEW entry,
         entry = SubEntriesOf(d)[k]
  PROVE  /\ ClusterOf(d) \in DOMAIN Content
         /\ k \in DOMAIN Content[ClusterOf(d)]
         /\ entry = Content[ClusterOf(d)][k]
         /\ IsEntry(entry)
<1>1. CASE d = NoEntry
  BY <1>1, PathLookupAssumption DEF SubEntriesOf, ClusterOf, IsEntry
<1>2. CASE d # NoEntry
  <2>1. d.kind = "directory" /\ SubEntriesOf(d) = Content[d.cluster]
    <3>1. CASE d.kind # "directory"
      <4>1. SubEntriesOf(d) = <<>>
        BY <1>2, <3>1 DEF SubEntriesOf
      <4> QED BY <4>1
    <3> QED BY <1>2, <3>1 DEF SubEntriesOf
  <2>2. PICK c \in DOMAIN Content : \E i \in DOMAIN Content[c] : d = Content[c][i]
    BY <1>2 DEF IsEntry
  <2>3. ClusterOf(d) = d.cluster /\ d.cluster \in DOMAIN Content
    BY <1>2, <2>2, PathLookupAssumption DEF ClusterOf
  <2> QED BY <2>1, <2>3 DEF IsEntry
<1> QED BY <1>1, <1>2

(* Where the names of directories are distinct, the name of an entry leads *)
(* to one of the same name that is not after it: to itself if it is a      *)
(* directory.                                                              *)
LEMMA NameLeads ==
  ASSUME NamesDistinct, NEW c \in DOMAIN Content, NEW k \in DOMAIN Content[c],
         NEW entry, entry = Content[c][k]
  PROVE  /\ IsPath(entry.name) /\ entry.name # <<>>
         /\ \A j \in DOMAIN entry.name : entry.name[j] # FileSystemSeparator
         /\ EntryByName(c, entry.name) # NoEntry
         /\ SameName(EntryByName(c, entry.name).name, entry.name)
         /\ EntryByName(c, entry.name).id <= entry.id
         /\ entry.kind = "directory" => EntryByName(c, entry.name) = entry
<1>1. /\ IsPath(entry.name) /\ entry.name # <<>>
      /\ FileSystemSeparator \notin ToSet(entry.name)
      /\ entry.id \in Int
  BY PathLookupAssumption DEF NamesDistinct, IsPath
<1>2. \A j \in DOMAIN entry.name : entry.name[j] # FileSystemSeparator
  BY <1>1 DEF ToSet
<1>3. PICK j \in DOMAIN Content[c] :
        /\ j \in 1 .. k
        /\ EntryByName(c, entry.name) = Content[c][j]
        /\ SameName(Content[c][j].name, entry.name)
  BY FirstOfName
<1>4. PICK first : first = Content[c][j]
  OBVIOUS
<1>5. first.name # <<>> /\ first.id \in Int
  BY <1>4 DEF NamesDistinct
<1>6. first # NoEntry
  BY <1>5 DEF NoEntry
<1>7. k \in Nat /\ j \in Nat /\ (j = k \/ j \in 1 .. k - 1)
  <2>1. Content[c] \in Seq(ToSet(Content[c]))
    BY PathLookupAssumption
  <2>2. k \in Nat \ {0}
    BY <2>1
  <2> QED BY <1>3, <2>2
<1>8. CASE j = k
  BY <1>1, <1>2, <1>3, <1>4, <1>6, <1>8
<1>9. CASE j \in 1 .. k - 1
  <2>1. /\ first.id <= entry.id
        /\ entry.kind = "directory" => ~ SameName(first.name, entry.name)
    BY <1>4, <1>9 DEF NamesDistinct
  <2> QED BY <1>1, <1>2, <1>3, <1>4, <1>6, <2>1
<1> QED BY <1>7, <1>8, <1>9

(* The path of a sub entry of a directory leads to the first entry of that *)
(* name; with a separator after it, to the directory it is.                *)
LEMMA SubPathMeans ==
  ASSUME NamesDistinct, NEW d, IsEntry(d), NEW path, Leads(path, d),
         NEW k \in DOMAIN SubEntriesOf(d), NEW entry, entry = SubEntriesOf(d)[k]
  PROVE  /\ PrintedRight(path \o entry.name, entry)
         /\ entry.kind = "directory" =>
              entry # NoEntry /\ Leads(path \o entry.name \o <<FileSystemSeparator>>, entry)
<1>1. PICK c \in DOMAIN Content :
        c = ClusterOf(d) /\ k \in DOMAIN Content[c] /\ entry = Content[c][k]
  BY SubEntryIs
<1>2. PICK first : first = EntryByName(c, entry.name)
  OBVIOUS
<1>3. /\ IsPath(entry.name) /\ entry.name # <<>>
      /\ \A j \in DOMAIN entry.name : entry.name[j] # FileSystemSeparator
      /\ first # NoEntry
      /\ SameName(first.name, entry.name)
      /\ first.id <= entry.id
      /\ entry.kind = "directory" => first = entry
  BY <1>1, <1>2, NameLeads
<1>4. PICK name : name = entry.name
  OBVIOUS
<1>5. PICK S : S = ToSet(path) \cup ToSet(name) \cup {FileSystemSeparator}
  OBVIOUS
<1>6. path \in Seq(S) /\ name \in Seq(S) /\ <<FileSystemSeparator>> \in Seq(S)
  <2>1. path \in Seq(ToSet(path)) /\ name \in Seq(ToSet(name))
    BY <1>3, <1>4 DEF Leads, IsPath
  <2>2. FileSystemSeparator \in S
    BY <1>5
  <2> QED BY <1>5, <2>1, <2>2
<1>7. PICK n \in Nat \ {0} : n = Len(name)
  BY <1>3, <1>4, <1>6
<1>8. PICK l \in Nat \ {0} : l = Len(path)
  BY <1>6 DEF Leads
<1>9. \A j \in 1 .. n : name[j] # FileSystemSeparator
  BY <1>3, <1>4, <1>6, <1>7
<1>10. SubSeq(name, 1, n) = name
  BY <1>6, <1>7
<1>11. (first # NoEntry) = TRUE
  BY <1>3
<1>12. PrintedRight(path \o entry.name, entry)
  <2>1. n <= Len(name) /\ (n = Len(name) \/ name[n + 1] = FileSystemSeparator)
    BY <1>7
  <2>2. Meaning(path \o name)[Len(path) + n + 1] =
          MeaningOfName(Len(path) + n + 1, EntryByName(ClusterOf(d), SubSeq(name, 1, n)))
    BY <1>6, <1>9, <2>1, NameMeans
  <2>3. PICK whole : whole = path \o name
    OBVIOUS
  <2>4. Len(whole) + 1 = Len(path) + n + 1
    BY <1>6, <1>7, <1>8, <2>3, ConcatProperties
  <2>5. Resolve(whole) = MeaningOfName(Len(whole) + 1, first)
    BY <1>1, <1>2, <1>4, <1>10, <2>2, <2>3, <2>4 DEF Resolve
  <2>6. Resolve(whole).found = TRUE /\ Resolve(whole).entry = first
    <3>1. MeaningOfName(Len(whole) + 1, first) =
            [start |-> Len(whole) + 2, found |-> TRUE, cluster |-> first.cluster, entry |-> first]
      <4>1. Len(whole) + 1 + 1 = Len(whole) + 2
        BY <1>7, <1>8, <2>4, <1>6
      <4> QED BY <1>11, <4>1 DEF MeaningOfName
    <3> QED BY <2>5, <3>1
  <2>7. PrintedRight(whole, entry)
    BY <1>3, <2>6 DEF PrintedRight
  <2> QED BY <1>4, <2>3, <2>7
<1>13. ASSUME entry.kind = "directory"
       PROVE  entry # NoEntry /\ Leads(path \o entry.name \o <<FileSystemSeparator>>, entry)
  <2>1. first = entry
    BY <1>3, <1>13
  <2>2. PICK q \in Seq(S) : q = name \o <<FileSystemSeparator>>
    BY <1>6, ConcatProperties
  <2>3. Len(q) = n + 1 /\ q[n + 1] = FileSystemSeparator /\ \A j \in 1 .. n : q[j] = name[j]
    BY <1>6, <1>7, <2>2
  <2>4. SubSeq(q, 1, n) = name
    <3>1. SubSeq(q, 1, n) = [j \in 1 .. n |-> q[j]]
      BY <2>2, <2>3
    <3>2. name = [j \in 1 .. n |-> name[j]]
      BY <1>6, <1>7
    <3> QED BY <2>3, <3>1, <3>2
  <2>5. Meaning(path \o q)[Len(path) + n + 1] = MeaningOfName(Len(path) + n + 1, first)
    <3>1. n <= Len(q) /\ (n = Len(q) \/ q[n + 1] = FileSystemSeparator)
      BY <2>3
    <3>2. \A j \in 1 .. n : q[j] # FileSystemSeparator
      BY <1>9, <2>3
    <3>3. Meaning(path \o q)[Len(path) + n + 1] =
            MeaningOfName(Len(path) + n + 1, EntryByName(ClusterOf(d), SubSeq(q, 1, n)))
      <4>1. path \in Seq(S) /\ q \in Seq(S)
        BY <1>6
      <4> QED BY <3>1, <3>2, <4>1, NameMeans, SMTT(30)
    <3> QED BY <1>1, <1>2, <1>4, <2>4, <3>3
  <2>6. PICK whole \in Seq(S) : whole = path \o q
    BY <1>6, ConcatProperties
  <2>7. /\ Len(whole) = l + (n + 1) /\ whole[l + (n + 1)] = FileSystemSeparator
        /\ l + (n + 1) > 0
    <3>1. n + 1 \in 1 .. Len(q)
      BY <2>3
    <3>2. Len(whole) = l + Len(q) /\ \A j \in 1 .. Len(q) : whole[l + j] = q[j]
      BY <1>6, <1>8, <2>6, ConcatProperties
    <3>3. whole[l + (n + 1)] = q[n + 1]
      BY <3>1, <3>2
    <3> QED BY <2>3, <3>2, <3>3
  <2>8. IsPath(whole)
    BY <2>6, SequenceIsPath
  <2>9. entry # NoEntry /\ ClusterOf(entry) = first.cluster
    BY <1>3, <2>1 DEF ClusterOf
  <2>10. Len(path) + n + 1 = Len(whole)
    BY <1>8, <2>7
  <2>11. Leads(whole, entry)
    <3>1. Meaning(whole)[Len(whole)] = MeaningOfName(Len(whole), first)
      BY <2>5, <2>6, <2>10
    <3>2. MeaningOfName(Len(whole), first) =
            [start |-> Len(whole) + 1, found |-> TRUE, cluster |-> first.cluster, entry |-> first]
      BY <1>11 DEF MeaningOfName
    <3> QED BY <2>1, <2>7, <2>8, <2>9, <3>1, <3>2 DEF Leads
  <2>12. whole = path \o name \o <<FileSystemSeparator>>
    BY <1>6, <2>2, <2>6, ConcatAssociative
  <2> QED BY <1>4, <2>9, <2>11, <2>12
<1> QED BY <1>12, <1>13

(* The root directory's own path, which is no more than its separator.     *)
LEMMA RootLeads ==
  /\ Leads(<<FileSystemSeparator>>, NoEntry)
  /\ PrintedRight(<<FileSystemSeparator>> \o NoEntry.name, NoEntry)
<1>1. PICK path : path = <<FileSystemSeparator>>
  OBVIOUS
<1>2. Len(path) = 1 /\ path[1] = FileSystemSeparator /\ 1 - 1 = 0 /\ 1 \in 1 .. Len(path) + 1
  BY <1>1
<1>3. path \in Seq({FileSystemSeparator})
  BY <1>1
<1>4. IsPath(path)
  BY <1>3, SequenceIsPath
<1>5. Meaning(path)[1] = MeaningAfter(path, NoMeaning, 1)
  BY <1>2, <1>4, MeaningIs
<1>6. MeaningAfter(path, NoMeaning, 1) = [NoMeaning EXCEPT !.start = 2]
  BY <1>2 DEF MeaningAfter
<1>7. Meaning(path)[1] = [start |-> 1 + 1, found |-> TRUE, cluster |-> Root, entry |-> NoEntry]
  <2>1. Meaning(path)[1] = [start |-> 2, found |-> TRUE, cluster |-> Root, entry |-> NoEntry]
    BY <1>5, <1>6 DEF NoMeaning
  <2>2. 1 + 1 = 2
    OBVIOUS
  <2> QED BY <2>1, <2>2
<1>8. Leads(path, NoEntry)
  BY <1>2, <1>4, <1>7 DEF Leads, ClusterOf
<1>9. path \o NoEntry.name = path
  BY <1>1 DEF NoEntry
<1>10. ~ (Len(path) > 1)
  BY <1>2
<1> QED BY <1>1, <1>8, <1>9, <1>10 DEF PrintedRight

(* A call prints a path that leads there, and calls for the sub entries    *)
(* with one that does.                                                     *)
LEMMA CallPrints ==
  ASSUME NamesDistinct, NEW called, CallRight(called)
  PROVE  PrintedRight(called.path \o called.entry.name, called.entry)
<1>1. CASE called.entry = NoEntry /\ called.path = <<FileSystemSeparator>>
  BY <1>1, RootLeads
<1>2. CASE \E d : /\ IsEntry(d)
                  /\ Leads(called.path, d)
                  /\ \E i \in DOMAIN SubEntriesOf(d) : called.entry = SubEntriesOf(d)[i]
  <2>1. PICK d : /\ IsEntry(d) /\ Leads(called.path, d)
                 /\ \E i \in DOMAIN SubEntriesOf(d) : called.entry = SubEntriesOf(d)[i]
    BY <1>2
  <2>2. PICK path, entry : path = called.path /\ entry = called.entry
    OBVIOUS
  <2>3. PrintedRight(path \o entry.name, entry)
    BY <2>1, <2>2, SubPathMeans
  <2> QED BY <2>2, <2>3
<1> QED BY <1>1, <1>2 DEF CallRight

LEMMA CallLeads ==
  ASSUME NamesDistinct, NEW called, CallRight(called),
         NEW k \in DOMAIN SubEntriesOf(called.entry)
  PROVE  /\ IsEntry(called.entry)
         /\ Leads(IF called.entry.name = <<>> THEN called.path
                  ELSE called.path \o called.entry.name \o <<FileSystemSeparator>>,
                  called.entry)
<1>1. CASE called.entry = NoEntry /\ called.path = <<FileSystemSeparator>>
  <2>1. called.entry.name = <<>>
    BY <1>1 DEF NoEntry
  <2> QED BY <1>1, <2>1, RootLeads DEF IsEntry
<1>2. CASE \E d : /\ IsEntry(d)
                  /\ Leads(called.path, d)
                  /\ \E i \in DOMAIN SubEntriesOf(d) : called.entry = SubEntriesOf(d)[i]
  <2>1. PICK d : /\ IsEntry(d) /\ Leads(called.path, d)
                 /\ \E i \in DOMAIN SubEntriesOf(d) : called.entry = SubEntriesOf(d)[i]
    BY <1>2
  <2>2. PICK path, entry : path = called.path /\ entry = called.entry
    OBVIOUS
  <2>3. PICK i \in DOMAIN SubEntriesOf(d) : entry = SubEntriesOf(d)[i]
    BY <2>1, <2>2
  <2>4. PICK c \in DOMAIN Content : i \in DOMAIN Content[c] /\ entry = Content[c][i]
    BY <2>1, <2>3, SubEntryIs
  <2>5. IsEntry(entry) /\ entry.name # <<>>
    BY <2>4 DEF IsEntry, NamesDistinct
  <2>6. entry.kind = "directory"
    <3>1. entry # NoEntry
      BY <2>5 DEF NoEntry
    <3>2. entry.kind # "directory" => SubEntriesOf(entry) = <<>>
      BY <3>1 DEF SubEntriesOf
    <3>3. DOMAIN <<>> = {}
      OBVIOUS
    <3> QED BY <2>2, <3>2, <3>3
  <2>7. Leads(path \o entry.name \o <<FileSystemSeparator>>, entry)
    BY <2>1, <2>2, <2>3, <2>6, SubPathMeans
  <2> QED BY <2>2, <2>5, <2>7
<1> QED BY <1>1, <1>2 DEF CallRight

(* A call goes on with the path and the entry it has.                      *)
LEMMA CallStays ==
  ASSUME NEW a, CallRight(a), NEW v, NEW b,
         b = [a EXCEPT !.index = v] \/ b = [a EXCEPT !.blocks = v]
  PROVE  CallRight(b)
<1>1. a = [entry |-> a.entry, path |-> a.path, index |-> a.index, blocks |-> a.blocks]
  BY DEF CallRight
<1>2. b = [entry |-> a.entry, path |-> a.path, index |-> b.index, blocks |-> b.blocks]
  <2>1. CASE b = [a EXCEPT !.index = v]
    BY <1>1, <2>1
  <2>2. CASE b = [a EXCEPT !.blocks = v]
    BY <1>1, <2>2
  <2> QED BY <2>1, <2>2
<1>3. b.entry = a.entry /\ b.path = a.path
  BY <1>2
<1> QED BY <1>2, <1>3 DEF CallRight

LEMMA CallEntryIs ==
  ASSUME NEW called, CallRight(called)
  PROVE  IsEntry(called.entry)
<1>1. CASE called.entry = NoEntry
  BY <1>1 DEF IsEntry
<1>2. CASE \E d : /\ IsEntry(d)
                  /\ Leads(called.path, d)
                  /\ \E i \in DOMAIN SubEntriesOf(d) : called.entry = SubEntriesOf(d)[i]
  BY <1>2, SubEntryIs
<1> QED BY <1>1, <1>2 DEF CallRight

LEMMA CallsStay ==
  ASSUME NEW S, NEW s \in Seq(S), \A i \in DOMAIN s : CallRight(s[i]),
         NEW n \in 1 .. Len(s), NEW new, CallRight(new)
  PROVE  \A i \in DOMAIN [s EXCEPT ![n] = new] : CallRight([s EXCEPT ![n] = new][i])
OBVIOUS

(* The call that runs is the last one.                                     *)
LEMMA CallIsRight ==
  ASSUME Inv, PrintInv, calls # <<>>
  PROVE  /\ calls \in Seq({calls[i] : i \in DOMAIN calls})
         /\ Len(calls) \in Nat \ {0}
         /\ Len(calls) \in 1 .. Len(calls)
         /\ DOMAIN calls = 1 .. Len(calls)
         /\ Call = calls[Len(calls)]
         /\ CallRight(Call)
<1>1. calls \in Seq({calls[i] : i \in DOMAIN calls})
  BY DEF Inv, Shape
<1>2. Len(calls) \in Nat \ {0} /\ DOMAIN calls = 1 .. Len(calls)
  BY <1>1
<1>3. Len(calls) \in 1 .. Len(calls)
  BY <1>2
<1>4. Call = calls[Len(calls)]
  BY DEF Call, Last
<1> QED BY <1>1, <1>2, <1>3, <1>4 DEF PrintInv

(* The walk by a path finds the entry that it is then printed with.        *)
LEMMA FoundIsPrinted ==
  ASSUME NamesDistinct, PathInv, Known, lookup.state = "end", lookup.result = 1
  PROVE  PrintedRight(lookup.path, lookup.entry)
<1>1. PICK path, entry : path = lookup.path /\ entry = lookup.entry
  OBVIOUS
<1>2. entry.id \in Int
  <2>1. CASE entry = NoEntry
    BY <2>1 DEF NoEntry, Null
  <2>2. CASE entry # NoEntry
    BY <1>1, <2>2 DEF Known, IsEntry, NamesDistinct
  <2> QED BY <2>1, <2>2
<1>3. ASSUME Len(path) > 1
      PROVE  Resolve(path).found = TRUE /\ Resolve(path).entry = entry
  <2>1. Len(path) # 1
    <3>1. ~ (1 > 1)
      OBVIOUS
    <3> QED BY <1>3, <3>1
  <2>2. lookup.result # -1
    OBVIOUS
  <2>3. (1 = 1) = Resolve(path).found /\ entry = Resolve(path).entry
    BY <1>1, <2>1, <2>2 DEF PathInv, PathResolved
  <2> QED BY <2>3
<1>4. entry.id <= entry.id
  BY <1>2
<1>5. PrintedRight(path, entry)
  BY <1>3, <1>4 DEF PrintedRight, SameName
<1> QED BY <1>1, <1>5

LEMMA PrintsOn ==
  ASSUME NamesDistinct, Inv, PathInv, Known, PrintInv, InfoNext
  PROVE  PrintInv'
<1> DEFINE S == {calls[i] : i \in DOMAIN calls}
           n == Len(calls)
<1>1. CASE PrintHierarchy
  <2>1. PICK called : called = Called(NoEntry, <<FileSystemSeparator>>)
    OBVIOUS
  <2>2. CallRight(called)
    BY <2>1 DEF Called, CallRight
  <2>3. calls' = <<called>> /\ UNCHANGED printed
    BY <1>1, <2>1 DEF PrintHierarchy
  <2>4. \A i \in DOMAIN <<called>> : CallRight(<<called>>[i])
    BY <2>2
  <2> QED BY <2>3, <2>4 DEF PrintInv
<1>2. CASE FailHierarchy
  <2>1. calls' = <<>> /\ UNCHANGED printed
    BY <1>2 DEF FailHierarchy
  <2> QED BY <2>1 DEF PrintInv
<1>3. CASE DigestBlock
  <2>1. calls # <<>> /\ UNCHANGED printed
    BY <1>3 DEF DigestBlock
  <2>2. PICK new : new = [calls[n] EXCEPT !.blocks = calls[n].blocks - 1]
    OBVIOUS
  <2>3. calls' = [calls EXCEPT ![n] = new]
    BY <1>3, <2>2 DEF DigestBlock
  <2>4. CallRight(new)
    BY <2>1, <2>2, CallIsRight, CallStays
  <2>5. \A i \in DOMAIN calls' : CallRight(calls'[i])
    BY <2>1, <2>3, <2>4, CallIsRight, CallsStay DEF PrintInv
  <2> QED BY <2>1, <2>5 DEF PrintInv
<1>4. CASE PrintFileEntry
  <2>1. calls # <<>>
    BY <1>4 DEF PrintFileEntry
  <2>2. PICK new : new = [calls[n] EXCEPT !.index = 1]
    OBVIOUS
  <2>3. calls' = [calls EXCEPT ![n] = new]
    BY <1>4, <2>2 DEF PrintFileEntry
  <2>4. CallRight(new)
    BY <2>1, <2>2, CallIsRight, CallStays
  <2>5. \A i \in DOMAIN calls' : CallRight(calls'[i])
    BY <2>1, <2>3, <2>4, CallIsRight, CallsStay DEF PrintInv
  <2>6. PICK called : called = Call
    OBVIOUS
  <2>7. PrintedRight(called.path \o called.entry.name, called.entry)
    BY <2>1, <2>6, CallIsRight, CallPrints
  <2>8. PICK line : line = Printed(called.path \o called.entry.name, called.entry)
    OBVIOUS
  <2>9. printed' = printed \cup {line}
    BY <1>4, <2>6, <2>8 DEF PrintFileEntry
  <2>10. line.text = ValueString(line.path) /\ PrintedRight(line.path, line.entry)
    BY <2>7, <2>8, PrintedIs
  <2> QED BY <2>5, <2>9, <2>10 DEF PrintInv
<1>5. CASE CallForSubFileEntry
  <2>1. calls # <<>> /\ UNCHANGED printed
    BY <1>5 DEF CallForSubFileEntry
  <2>2. PICK called : called = Call
    OBVIOUS
  <2>3. CallRight(called)
    BY <2>1, <2>2, CallIsRight
  <2>4. PICK k : k = called.index
    OBVIOUS
  <2>5. k \in 1 .. Len(SubEntriesOf(called.entry))
    BY <1>5, <2>2, <2>4 DEF CallForSubFileEntry
  <2>6. k \in DOMAIN SubEntriesOf(called.entry) /\ IsEntry(called.entry)
    BY <2>3, <2>5, CallEntryIs, SubEntriesAre
  <2>7. PICK path : path = SubPath
    OBVIOUS
  <2>8. Leads(path, called.entry)
    BY <2>2, <2>3, <2>6, <2>7, CallLeads DEF SubPath
  <2>9. PICK new : new = Called(SubEntriesOf(called.entry)[k], path)
    OBVIOUS
  <2>10. /\ new.entry = SubEntriesOf(called.entry)[k] /\ new.path = path
         /\ new = [entry |-> new.entry, path |-> new.path, index |-> new.index,
                   blocks |-> new.blocks]
    BY <2>9 DEF Called
  <2>11. CallRight(new)
    BY <2>6, <2>8, <2>10 DEF CallRight
  <2>12. calls' = Append(calls, new)
    BY <1>5, <2>2, <2>4, <2>7, <2>9 DEF CallForSubFileEntry
  <2>13. \A i \in DOMAIN calls' : CallRight(calls'[i])
    <3>1. calls \in Seq(S) /\ \A i \in 1 .. n : CallRight(calls[i])
      BY <2>1, CallIsRight DEF PrintInv
    <3>2. \A i \in 1 .. n : calls'[i] = calls[i]
      BY <2>12, <3>1
    <3>3. calls'[n + 1] = new /\ DOMAIN calls' = 1 .. n + 1 /\ n \in Nat
      BY <2>12, <3>1
    <3>4. \A i \in 1 .. n + 1 : i \in 1 .. n \/ i = n + 1
      BY <3>3
    <3> QED BY <2>11, <3>1, <3>2, <3>3, <3>4
  <2> QED BY <2>1, <2>13 DEF PrintInv
<1>6. CASE ReturnFromCall
  <2>1. calls # <<>> /\ UNCHANGED printed
    BY <1>6 DEF ReturnFromCall
  <2>2. CASE n = 1
    <3>1. calls' = <<>>
      BY <1>6, <2>2 DEF ReturnFromCall
    <3> QED BY <2>1, <3>1 DEF PrintInv
  <2>3. CASE n # 1
    <3>1. calls \in Seq(S) /\ n \in Nat \ {0} /\ \A i \in 1 .. n : CallRight(calls[i])
      BY <2>1, CallIsRight DEF PrintInv
    <3>2. PICK front \in Seq(S) : front = Front(calls) /\ Len(front) = n - 1
      BY <2>1, <3>1, SequenceFront
    <3>3. n - 1 \in 1 .. Len(front) /\ DOMAIN front = 1 .. n - 1
      BY <2>3, <3>1, <3>2
    <3>4. \A i \in 1 .. n - 1 : front[i] = calls[i] /\ i \in 1 .. n
      BY <3>1, <3>2 DEF Front
    <3>5. \A i \in DOMAIN front : CallRight(front[i])
      BY <3>1, <3>3, <3>4
    <3>6. PICK new : new = [front[n - 1] EXCEPT !.index = front[n - 1].index + 1]
      OBVIOUS
    <3>7. calls' = [front EXCEPT ![n - 1] = new]
      BY <1>6, <2>3, <3>2, <3>6 DEF ReturnFromCall
    <3>8. CallRight(front[n - 1])
      BY <3>3, <3>5
    <3>9. CallRight(new)
      BY <3>6, <3>8, CallStays
    <3>10. \A i \in DOMAIN calls' : CallRight(calls'[i])
      BY <3>3, <3>5, <3>7, <3>9, CallsStay
    <3> QED BY <2>1, <3>10 DEF PrintInv
  <2> QED BY <2>2, <2>3
<1>7. CASE PrintFound
  <2>1. UNCHANGED calls
    BY <1>7 DEF PrintFound
  <2>2. CASE lookup.result = 1
    <3>1. PrintedRight(lookup.path, lookup.entry)
      BY <1>7, <2>2, FoundIsPrinted DEF PrintFound
    <3>2. PICK line : line = Printed(lookup.path, lookup.entry)
      OBVIOUS
    <3>3. printed' = {line}
      BY <1>7, <2>2, <3>2 DEF PrintFound
    <3>4. line.text = ValueString(line.path) /\ PrintedRight(line.path, line.entry)
      BY <3>1, <3>2, PrintedIs
    <3> QED BY <2>1, <3>3, <3>4 DEF PrintInv
  <2>3. CASE lookup.result # 1
    <3>1. UNCHANGED printed
      BY <1>7, <2>3 DEF PrintFound
    <3> QED BY <2>1, <3>1 DEF PrintInv
  <2> QED BY <2>2, <2>3
<1>8. CASE PrintByIdentifier
  <2>1. UNCHANGED calls
    BY <1>8 DEF PrintByIdentifier
  <2>2. ASSUME NEW p \in printed'
        PROVE  p.text = ValueString(p.path) /\ PrintedRight(p.path, p.entry)
    <3>1. PICK entry : p = Printed(<<>>, entry)
      BY <1>8, <2>2 DEF PrintByIdentifier
    <3>2. p.path = <<>> /\ p.text = ValueString(p.path)
      BY <3>1, PrintedIs
    <3>3. Len(<<>>) = 0 /\ ~ (0 > 1)
      OBVIOUS
    <3>4. ~ (Len(p.path) > 1)
      BY <3>2, <3>3
    <3> QED BY <3>2, <3>4 DEF PrintedRight
  <2> QED BY <2>1, <2>2 DEF PrintInv
<1>9. CASE PrintByPath \/ PrintVolume \/ WalkByPath \/ CloseInput
  <2>1. UNCHANGED <<calls, printed>>
    BY <1>9 DEF PrintByPath, PrintVolume, WalkByPath, CloseInput, infoVars
  <2> QED BY <2>1 DEF PrintInv
<1> QED BY <1>1, <1>2, <1>3, <1>4, <1>5, <1>6, <1>7, <1>8, <1>9 DEF InfoNext, InfoStep

LEMMA StepPrinted ==
  ASSUME NamesDistinct, Inv, PathInv, Known, PrintInv, [Next]_vars
  PROVE  PrintInv'
<1>1. CASE InfoNext
  BY <1>1, PrintsOn
<1>2. CASE UNCHANGED <<calls, printed>>
  BY <1>2 DEF PrintInv
<1> QED BY <1>1, <1>2 DEF Next, vars, toolVars, infoVars

(* Where the names of the volume tell its entries apart, what the info     *)
(* tool prints for a path without control characters leads to the entry it *)
(* is printed with, or to the first of its name: the path put together on  *)
(* the way down (info_handle.c:1743) is the one a lookup takes apart       *)
(* (libfsfat_file_system.c:2787), however deep the directory is.           *)
THEOREM PrintedPathsAreRight == NamesDistinct => (Spec => []PrintedPathsLead)
<1> SUFFICES ASSUME NamesDistinct PROVE Spec => []PrintedPathsLead
  OBVIOUS
<1>1. Init => ListInv /\ PrintInv
  <2> SUFFICES ASSUME Init PROVE ListInv /\ PrintInv
    OBVIOUS
  <2>1. calls = <<>> /\ printed = {}
    BY DEF Init, InfoInit
  <2> QED BY <2>1, InitListing DEF PrintInv
<1>2. ListInv /\ PrintInv /\ [Next]_vars => (ListInv /\ PrintInv)'
  <2> SUFFICES ASSUME ListInv, PrintInv, [Next]_vars PROVE ListInv' /\ PrintInv'
    OBVIOUS
  <2>1. ListInv'
    BY StepListing
  <2>2. PrintInv'
    BY StepPrinted DEF ListInv, AnswerInv
  <2> QED BY <2>1, <2>2
<1>3. ListInv /\ PrintInv => PrintedPathsLead
  <2> SUFFICES ASSUME PrintInv, NEW p \in printed, Len(p.path) > 1,
                      ControlCharacter \notin ToSet(p.path)
               PROVE  /\ Resolve(p.text).found
                      /\ SameName(Resolve(p.text).entry.name, p.entry.name)
                      /\ Resolve(p.text).entry.id <= p.entry.id
    BY DEF PrintedPathsLead
  <2>1. p.text = p.path
    BY DEF PrintInv, ValueString
  <2> QED BY <2>1 DEF PrintInv, PrintedRight
<1> QED BY <1>1, <1>2, <1>3, PTL DEF Spec
=============================================================================
