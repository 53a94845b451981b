---------------------------- MODULE PythonProofs ----------------------------
(***************************************************************************)
(* Proofs about the Python binding: the file object is held as long as it  *)
(* is needed, the volume outlives the file entries that point into it, and *)
(* what a script is given depends only on the calls that get in its way.   *)
(*                                                                         *)
(* The references are the heart of it.  An object is freed when they are   *)
(* gone, so that they have to count what refers to it: a name, the calls on*)
(* it and the objects whose parent it is, one more or less of these in     *)
(* every step.  Then a file entry keeps its volume object and a sequence   *)
(* its file entry, a call is on an object that is there, and no step frees *)
(* what another needs.                                                     *)
(***************************************************************************)
EXTENDS Tools, FiniteSetTheorems, WellFoundedInduction, TLAPS

(* What the variables hold.                                                *)
Operations == {"open", "open_file_object", "close", "volume_entry", "sub_file_entry",
               "sub_file_entries", "read", "next", "item"}

CallRecord ==
  [op : Operations, on : Objects, step : {"begun", "sought", "returned"},
   disturbed : BOOLEAN, index : Nat,
   result : {"none", "ok", "error", "found", "data", "other data"}, opening : Nat]

EntryRecord == [type : {"entry"}, parent : {VolumeObject}, opening : Nat]

SequenceRecord ==
  [type : {"sequence"}, parent : Objects \ {VolumeObject}, current_index : Nat,
   given : Seq(Nat), shared : BOOLEAN]

ObjectRecord == {NoObject} \cup [type : {"volume"}] \cup EntryRecord \cup SequenceRecord

PythonTypeOK ==
  /\ references \in [Objects -> Int]
  /\ object \in [Objects -> ObjectRecord]
  /\ names \subseteq Objects
  /\ volume \in [state : {"freed", "closed", "open"}, with : {"none", "name", "file_object"},
                 opening : Nat]
  /\ file_io_handle \in BOOLEAN
  /\ file_object_references \in Int
  /\ call \in [Threads -> {NoCall} \cup CallRecord]

(* The volume object is there as long as the library has a volume, a file  *)
(* entry only with the volume object, a sequence only with its file entry; *)
(* and a name and a call are of an object that is there.                   *)
Present ==
  /\ \A o \in Objects : object[o].type = "volume" => o = VolumeObject
  /\ object[VolumeObject].type \in {"none", "volume"}
  /\ volume.state = "freed" <=> object[VolumeObject] = NoObject
  /\ \A o \in Objects : object[o].type = "entry" => object[VolumeObject].type = "volume"
  /\ \A o \in Objects : object[o].type = "sequence" => object[object[o].parent].type = "entry"
  /\ \A o \in names : object[o] # NoObject
  /\ \A t \in Threads : call[t] # NoCall => call[t].op \in OpsOn(object[call[t].on].type)

(* Only the owner opens and closes, and only a read is between its seek and*)
(* its end.                                                                *)
OwnersCalls ==
  \A t \in Threads :
    /\ call[t].op \in {"open", "open_file_object", "close"} => t = Owner
    /\ call[t].step = "sought" => call[t].op = "read"

(* The calls under way, the calls on an object and the objects that keep it*)
(* are finitely many, and the references count them.                       *)
Callers == {t \in Threads : call[t] # NoCall}

CallsOn(o) == {t \in Threads : call[t] # NoCall /\ call[t].on = o}

ChildrenOf(o) ==
  {p \in Objects \ {VolumeObject} : object[p] # NoObject /\ object[p].parent = o}

Counted ==
  /\ IsFiniteSet(Callers)
  /\ \A o \in Objects : references[o] = Referring(o)

(* A file entry of the library is of the opening that there is, or of one  *)
(* that a call of close ended.                                             *)
OpeningsKept ==
  \A opening \in OpeningsInUse :
    opening \in closed \/ (volume.state = "open" /\ opening = volume.opening)

(* How far the owner has come with the volume when it opens or closes.     *)
HandleSteps ==
  /\ volume.state # "open" => volume.with = "none"
  /\ call[Owner].op = "open_file_object" =>
       IF call[Owner].step = "returned" /\ call[Owner].result = "ok"
       THEN volume.with = "file_object"
       ELSE volume.with # "file_object"
  /\ Returned(Owner, "open_file_object") => call[Owner].result \in {"ok", "error"}
  /\ Returned(Owner, "close") /\ call[Owner].result = "ok" => volume.with = "none"

(* A read that was not disturbed finds the IO handle where it left it.     *)
Answers ==
  \A t \in Threads : call[t].step = "sought" => position = t \/ call[t].disturbed

(* Only one call at a time asks a sequence that is not shared for its next *)
(* item, and the index is still the one that it began with.                *)
NextAlone ==
  \A t \in Threads : \A o \in Sequences :
    call[t].op = "next" /\ call[t].on = o /\ ~ object[o].shared =>
      /\ call[t].index = object[o].current_index
      /\ \A u \in Threads : call[u].op = "next" /\ call[u].on = o => u = t

PythonInv ==
  /\ PythonTypeOK
  /\ Present
  /\ OwnersCalls
  /\ Counted
  /\ OpeningsKept
  /\ HandleSteps
  /\ HandleOwned
  /\ Answers
  /\ NextAlone
  /\ UndisturbedAnswers

-----------------------------------------------------------------------------
LEMMA FirstNatural ==
  ASSUME NEW T, T \subseteq Nat, T # {}
  PROVE  \E i \in T : \A j \in T : i <= j
<1>1. IsWellFoundedOn(OpToRel(<, Nat), Nat)
  BY NatLessThanWellFounded
<1>2. PICK i \in T : \A j \in T : ~ (<<j, i>> \in OpToRel(<, Nat))
  BY <1>1, WFMin
<1>3. \A j \in T : ~ (j < i)
  BY <1>2 DEF OpToRel
<1> QED BY <1>3

LEMMA NewIsFree == Free # {} => New \in Free
<1>1. Free \subseteq Nat
  BY PythonAssumption DEF Free, Objects
<1> QED BY <1>1, FirstNatural DEF New

LEMMA ObjectIs ==
  ASSUME PythonTypeOK, NEW o \in Objects
  PROVE  /\ object[o] \in ObjectRecord
         /\ object[o] = NoObject <=> object[o].type = "none"
BY DEF PythonTypeOK, ObjectRecord, EntryRecord, SequenceRecord, NoObject

LEMMA CallIs ==
  ASSUME PythonTypeOK, NEW t \in Threads
  PROVE  /\ call[t] = NoCall <=> call[t].op = "none"
         /\ call[t] = NoCall <=> call[t].step = "none"
         /\ call[t] # NoCall => call[t] \in CallRecord
<1>1. NoCall.op = "none" /\ NoCall.step = "none"
  BY DEF NoCall
<1>2. \A c \in CallRecord : c.op # "none" /\ c.step # "none"
  BY DEF CallRecord, Operations
<1>3. call[t] \in {NoCall} \cup CallRecord
  BY DEF PythonTypeOK
<1> QED BY <1>1, <1>2, <1>3

LEMMA NoCallRecord == NoCall \notin CallRecord
<1>1. NoCall.op = "none"
  BY DEF NoCall
<1>2. \A c \in CallRecord : c.op # "none"
  BY DEF CallRecord, Operations
<1> QED BY <1>1, <1>2

(* What the library does changes nothing of a call but how far it has come *)
(* and what it gives.                                                      *)
Library(t) ==
  \/ LibraryOpen(t) \/ LibraryClose(t) \/ LibraryLookup(t)
  \/ LibraryNumberOfSubFileEntries(t) \/ Seek(t) \/ LibraryRead(t)

CallsStay ==
  \A u \in Threads :
    /\ call'[u] = NoCall <=> call[u] = NoCall
    /\ call'[u].op = call[u].op
    /\ call[u] # NoCall =>
         /\ call'[u].on = call[u].on /\ call'[u].index = call[u].index
         /\ call[u].disturbed => call'[u].disturbed

Results == {"none", "ok", "error", "found", "data", "other data"}

LEMMA Returning ==
  ASSUME PythonTypeOK, NEW t \in Threads, call[t] # NoCall, NEW others \in SUBSET Callers,
         NEW result \in Results,
         LibraryReturns(t, result, others)
  PROVE  /\ call' \in [Threads -> {NoCall} \cup CallRecord]
         /\ CallsStay
         /\ call'[t].step = "returned" /\ call'[t].result = result
         /\ call'[t].disturbed = call[t].disturbed /\ call'[t].opening = volume.opening
         /\ \A u \in Threads \ {t} : call'[u].step = call[u].step
         /\ \A u \in Threads \ {t} : call[u] # NoCall =>
              call'[u].result = call[u].result /\ call'[u].opening = call[u].opening
         /\ \A u \in others \ {t} : call'[u].disturbed
         /\ \A u \in Threads \ others : u # t => call'[u] = call[u]
<1>1. call[t] \in CallRecord /\ volume.opening \in Nat
  BY CallIs DEF PythonTypeOK
<1>2. call' = [u \in Threads |->
                 IF u = t THEN [call[t] EXCEPT !.step = "returned", !.result = result,
                                               !.opening = volume.opening]
                 ELSE IF u \in others THEN [call[u] EXCEPT !.disturbed = TRUE]
                 ELSE call[u]]
  BY DEF LibraryReturns
<1>3. call'[t] = [call[t] EXCEPT !.step = "returned", !.result = result,
                                 !.opening = volume.opening]
  BY <1>2
<1>4. /\ call'[t] \in CallRecord /\ call'[t].op = call[t].op /\ call'[t].on = call[t].on
      /\ call'[t].index = call[t].index /\ call'[t].disturbed = call[t].disturbed
      /\ call'[t].step = "returned" /\ call'[t].result = result
      /\ call'[t].opening = volume.opening
  BY <1>1, <1>3 DEF CallRecord, Results
<1>5. \A u \in others \ {t} : call'[u] = [call[u] EXCEPT !.disturbed = TRUE]
  BY <1>2 DEF Callers
<1>6. \A u \in others : u \in Threads /\ call[u] \in CallRecord
  BY CallIs DEF Callers
<1>7. \A u \in others \ {t} :
        /\ call'[u] \in CallRecord /\ call'[u].op = call[u].op /\ call'[u].on = call[u].on
        /\ call'[u].index = call[u].index /\ call'[u].disturbed
        /\ call'[u].step = call[u].step /\ call'[u].result = call[u].result
        /\ call'[u].opening = call[u].opening
  BY ZenonT(60), <1>5, <1>6 DEF CallRecord
<1>8. \A u \in Threads : u \notin others /\ u # t => call'[u] = call[u]
  BY <1>2
<1>10. CallsStay
  BY <1>1, <1>4, <1>6, <1>7, <1>8, NoCallRecord DEF CallsStay
<1>11. call' \in [Threads -> {NoCall} \cup CallRecord]
  <2>1. \A u \in Threads : call'[u] \in {NoCall} \cup CallRecord
    BY <1>4, <1>7, <1>8 DEF PythonTypeOK
  <2> QED BY <1>2, <2>1
<1> QED BY <1>4, <1>7, <1>8, <1>10, <1>11

LEMMA Seeking ==
  ASSUME PythonTypeOK, NEW t \in Threads, Seek(t)
  PROVE  /\ call' \in [Threads -> {NoCall} \cup CallRecord]
         /\ CallsStay
         /\ call'[t].step = "sought" /\ call'[t].result = call[t].result
         /\ \A u \in Threads \ {t} : call'[u].step = call[u].step
         /\ \A u \in Threads : call[u] # NoCall =>
              call'[u].result = call[u].result /\ call'[u].opening = call[u].opening
         /\ \A u \in Readers \ {t} : call'[u].disturbed
<1>1. call[t] \in CallRecord
  BY CallIs DEF Seek, CallBegun
<1>2. call' = [u \in Threads |->
                 IF u = t THEN [call[t] EXCEPT !.step = "sought"]
                 ELSE IF u \in Readers THEN [call[u] EXCEPT !.disturbed = TRUE]
                 ELSE call[u]]
  BY DEF Seek
<1>3. call'[t] = [call[t] EXCEPT !.step = "sought"]
  BY <1>2
<1>4. /\ call'[t] \in CallRecord /\ call'[t].op = call[t].op /\ call'[t].on = call[t].on
      /\ call'[t].index = call[t].index /\ call'[t].disturbed = call[t].disturbed
      /\ call'[t].step = "sought" /\ call'[t].result = call[t].result
      /\ call'[t].opening = call[t].opening
  BY <1>1, <1>3 DEF CallRecord
<1>5. \A u \in Readers \ {t} : call'[u] = [call[u] EXCEPT !.disturbed = TRUE]
  BY <1>2 DEF Readers
<1>6. \A u \in Readers : u \in Threads /\ call[u] \in CallRecord
  BY CallIs DEF Readers
<1>7. \A u \in Readers \ {t} :
        /\ call'[u] \in CallRecord /\ call'[u].op = call[u].op /\ call'[u].on = call[u].on
        /\ call'[u].index = call[u].index /\ call'[u].disturbed
        /\ call'[u].step = call[u].step /\ call'[u].result = call[u].result
        /\ call'[u].opening = call[u].opening
  BY ZenonT(60), <1>5, <1>6 DEF CallRecord
<1>8. \A u \in Threads : u \notin Readers /\ u # t => call'[u] = call[u]
  BY <1>2
<1>10. CallsStay
  BY <1>1, <1>4, <1>6, <1>7, <1>8, NoCallRecord DEF CallsStay
<1>11. call' \in [Threads -> {NoCall} \cup CallRecord]
  <2>1. \A u \in Threads : call'[u] \in {NoCall} \cup CallRecord
    BY <1>4, <1>7, <1>8 DEF PythonTypeOK
  <2> QED BY <1>2, <2>1
<1> QED BY <1>4, <1>7, <1>8, <1>10, <1>11

LEMMA LibraryStays ==
  ASSUME PythonTypeOK, NEW t \in Threads, Library(t)
  PROVE  /\ PythonTypeOK'
         /\ CallsStay
         /\ UNCHANGED <<references, object, names, file_io_handle, file_object_references>>
<1>1. UNCHANGED <<references, object, names, file_io_handle, file_object_references>>
  BY DEF Library, LibraryOpen, LibraryClose, LibraryLookup, LibraryNumberOfSubFileEntries, Seek,
         LibraryRead
<1>2. call[t] # NoCall
  BY CallIs DEF Library, LibraryOpen, LibraryClose, LibraryLookup, LibraryNumberOfSubFileEntries,
                Seek, LibraryRead, CallBegun
<1>3. Readers \in SUBSET Callers
  BY CallIs DEF Readers, Callers
<1>4. {} \in SUBSET Callers
  OBVIOUS
<1>5. call' \in [Threads -> {NoCall} \cup CallRecord] /\ CallsStay
  <2>1. CASE LibraryOpen(t)
    BY <1>2, <1>4, <2>1, Returning DEF Results, LibraryOpen
  <2>2. CASE LibraryClose(t)
    BY <1>2, <1>4, <2>2, Returning DEF Results, LibraryClose
  <2>3. CASE LibraryLookup(t)
    BY <1>2, <1>3, <1>4, <2>3, Returning DEF Results, LibraryLookup
  <2>4. CASE LibraryNumberOfSubFileEntries(t)
    BY <1>2, <1>3, <1>4, <2>4, Returning DEF Results, LibraryNumberOfSubFileEntries
  <2>5. CASE Seek(t)
    BY <2>5, Seeking
  <2>6. CASE LibraryRead(t)
    BY <1>2, <1>3, <1>4, <2>6, Returning DEF Results, LibraryRead
  <2> QED BY <2>1, <2>2, <2>3, <2>4, <2>5, <2>6 DEF Library
<1>6. volume' \in [state : {"freed", "closed", "open"}, with : {"none", "name", "file_object"},
                   opening : Nat]
  <2>1. volume \in [state : {"freed", "closed", "open"}, with : {"none", "name", "file_object"},
                    opening : Nat]
    BY DEF PythonTypeOK
  <2>2. CASE UNCHANGED volume
    BY <2>1, <2>2
  <2>3. CASE volume' = [state |-> "open", opening |-> volume.opening + 1,
                        with |-> IF call[t].op = "open" THEN "name" ELSE "file_object"]
    BY <2>1, <2>3
  <2>4. CASE volume' = [volume EXCEPT !.state = "closed", !.with = "none"]
    BY <2>1, <2>4
  <2> QED BY <2>2, <2>3, <2>4 DEF Library, LibraryOpen, LibraryClose, LibraryLookup,
                                  LibraryNumberOfSubFileEntries, Seek, LibraryRead
<1> QED BY <1>1, <1>5, <1>6 DEF PythonTypeOK

LEMMA OpsOnIs ==
  ASSUME NEW type \in {"none", "volume", "entry", "sequence"}, NEW op \in OpsOn(type)
  PROVE  /\ op \in Operations
         /\ type # "none"
         /\ op \in {"open", "open_file_object", "close", "volume_entry"} => type = "volume"
         /\ op \in {"sub_file_entry", "sub_file_entries", "read"} => type = "entry"
         /\ op \in {"next", "item"} => type = "sequence"
BY DEF OpsOn, Operations

LEMMA TypeIs ==
  ASSUME PythonTypeOK, NEW o \in Objects
  PROVE  /\ object[o].type \in {"none", "volume", "entry", "sequence"}
         /\ object[o].type = "entry" =>
              object[o] \in EntryRecord
         /\ object[o].type = "sequence" =>
              object[o] \in SequenceRecord
BY DEF PythonTypeOK, ObjectRecord, EntryRecord, SequenceRecord, NoObject

LEMMA CallOn ==
  ASSUME PythonTypeOK, Present, NEW t \in Threads, call[t] # NoCall
  PROVE  /\ call[t].on \in Objects
         /\ object[call[t].on].type # "none"
         /\ call[t].op \in {"open", "open_file_object", "close", "volume_entry"} =>
              object[call[t].on].type = "volume" /\ call[t].on = VolumeObject
         /\ call[t].op \in {"sub_file_entry", "sub_file_entries", "read"} =>
              object[call[t].on].type = "entry"
         /\ call[t].op \in {"next", "item"} => object[call[t].on].type = "sequence"
<1>1. call[t] \in CallRecord
  BY CallIs
<1>2. call[t].on \in Objects
  BY <1>1 DEF CallRecord
<1>3. call[t].op \in OpsOn(object[call[t].on].type)
  BY DEF Present
<1> QED BY <1>2, <1>3, OpsOnIs, TypeIs DEF Present

(* What calls of next do to a sequence.                                    *)
Moved(s, index, given) == [s EXCEPT !.current_index = index, !.given = given]

SharedByCalls(s) == [s EXCEPT !.shared = TRUE, !.given = <<>>]

LEMMA SequenceMoved ==
  ASSUME NEW s \in SequenceRecord, NEW index \in Nat, NEW given \in Seq(Nat)
  PROVE  /\ Moved(s, index, given) \in SequenceRecord
         /\ Moved(s, index, given).type = "sequence"
         /\ Moved(s, index, given).parent = s.parent
         /\ Moved(s, index, given).shared = s.shared
         /\ Moved(s, index, given).current_index = index
         /\ Moved(s, index, given).given = given
BY DEF SequenceRecord, Moved

LEMMA SequenceShared ==
  ASSUME NEW s \in SequenceRecord
  PROVE  /\ SharedByCalls(s) \in SequenceRecord
         /\ SharedByCalls(s).type = "sequence"
         /\ SharedByCalls(s).parent = s.parent
         /\ SharedByCalls(s).shared
<1>1. <<>> \in Seq(Nat)
  OBVIOUS
<1> DEFINE none == <<>>
           shared == [s EXCEPT !.shared = TRUE, !.given = none]
<1>2. none \in Seq(Nat)
  BY <1>1
<1> HIDE DEF none
<1>3. /\ shared \in SequenceRecord /\ shared.type = "sequence"
      /\ shared.parent = s.parent /\ shared.shared
  BY <1>2 DEF SequenceRecord
<1> QED BY <1>3 DEF SharedByCalls, none

LEMMA BeginType ==
  ASSUME PythonTypeOK, Present, NEW t \in Threads, NEW op, NEW o \in Objects, Begin(t, op, o)
  PROVE  PythonTypeOK'
<1>1. op \in OpsOn(object[o].type)
  BY DEF Begin
<1>2. op \in Operations /\ (op = "next" => object[o].type = "sequence")
  BY <1>1, TypeIs, OpsOnIs
<1>3. call' \in [Threads -> {NoCall} \cup CallRecord]
  <2>1. (IF op = "next" THEN object[o].current_index ELSE 0) \in Nat
    BY <1>2, TypeIs DEF SequenceRecord
  <2>2. [op |-> op, on |-> o, step |-> "begun", disturbed |-> FALSE,
         index |-> IF op = "next" THEN object[o].current_index ELSE 0,
         result |-> "none", opening |-> 0] \in CallRecord
    BY <1>2, <2>1 DEF CallRecord
  <2> QED BY <2>2 DEF Begin, PythonTypeOK
<1>4. object' \in [Objects -> ObjectRecord]
  <2>1. CASE object' = object
    BY <2>1 DEF PythonTypeOK
  <2>2. CASE op = "next" /\ object' = [object EXCEPT ![o].shared = TRUE, ![o].given = <<>>]
    <3>1. object' = [object EXCEPT ![o] = SharedByCalls(object[o])]
      BY <2>2 DEF PythonTypeOK, SharedByCalls
    <3>2. SharedByCalls(object[o]) \in ObjectRecord
      BY <1>2, <2>2, TypeIs, SequenceShared DEF ObjectRecord
    <3> QED BY <3>1, <3>2 DEF PythonTypeOK
  <2> QED BY <2>1, <2>2 DEF Begin
<1>5. references' \in [Objects -> Int]
  BY DEF Begin, Increased, PythonTypeOK
<1> QED BY <1>3, <1>4, <1>5 DEF Begin, PythonTypeOK

(* The end of a call that does not give anything.                          *)
LEMMA EndType ==
  ASSUME PythonTypeOK, NEW t \in Threads,
         call' = [call EXCEPT ![t] = NoCall]
  PROVE  /\ call' \in [Threads -> {NoCall} \cup CallRecord]
         /\ call'[t] = NoCall
         /\ \A u \in Threads \ {t} : call'[u] = call[u]
BY DEF PythonTypeOK

LEMMA CountsType ==
  ASSUME NEW counts \in [Objects -> Int], NEW o \in Objects
  PROVE  /\ Increased(counts, o) \in [Objects -> Int]
         /\ Increased(counts, o)[o] = counts[o] + 1
         /\ \A p \in Objects \ {o} : Increased(counts, o)[p] = counts[p]
         /\ Decreased(counts, o) \in [Objects -> Int]
         /\ Decreased(counts, o)[o] = counts[o] - 1
         /\ \A p \in Objects \ {o} : Decreased(counts, o)[p] = counts[p]
BY DEF Increased, Decreased

(* The sequence that a call for the next item is on when that ends.        *)
LEMMA AfterNextIs ==
  ASSUME PythonTypeOK, Present, NEW t \in Threads, Returned(t, "next")
  PROVE  LET o == call[t].on IN
         /\ AfterNext(t) \in [Objects -> ObjectRecord]
         /\ \A p \in Objects \ {o} : AfterNext(t)[p] = object[p]
         /\ o \in Objects
         /\ object[o].type = "sequence"
         /\ AfterNext(t)[o] \in SequenceRecord
         /\ AfterNext(t)[o].parent = object[o].parent
         /\ AfterNext(t)[o].shared = object[o].shared
         /\ AfterNext(t)[o].current_index = object[o].current_index + IF Given(t) THEN 1 ELSE 0
         /\ AfterNext(t)[o].given = IF Given(t) /\ ~ object[o].shared
                                    THEN Append(object[o].given, call[t].index)
                                    ELSE object[o].given
<1> DEFINE o == call[t].on
           given == IF Given(t) /\ ~ object[o].shared
                    THEN Append(object[o].given, call[t].index)
                    ELSE object[o].given
           sequence == Moved(object[o], IndexAfter(t), given)
<1>1. call[t] \in CallRecord
  BY CallIs DEF Returned
<1>2. /\ o \in Objects
      /\ object[o] \in SequenceRecord
  BY <1>1, CallOn, TypeIs, CallIs DEF Returned
<1>3. IndexAfter(t) \in Nat
  BY <1>2 DEF IndexAfter, SequenceRecord
<1>4. given \in Seq(Nat)
  <2>1. object[o].given \in Seq(Nat) /\ call[t].index \in Nat
    BY <1>1, <1>2 DEF CallRecord, SequenceRecord
  <2>2. Append(object[o].given, call[t].index) \in Seq(Nat)
    BY <2>1
  <2> QED BY <2>1, <2>2
<1>5. AfterNext(t) = [object EXCEPT ![o] = sequence]
  BY <1>2 DEF AfterNext, Moved, PythonTypeOK
<1>6. /\ sequence \in SequenceRecord /\ sequence.type = "sequence"
      /\ sequence.parent = object[o].parent /\ sequence.shared = object[o].shared
      /\ sequence.current_index = IndexAfter(t) /\ sequence.given = given
  <2> HIDE DEF given
  <2> QED BY <1>2, <1>3, <1>4, SequenceMoved
<1>7. object[o].type = "sequence"
  BY <1>2 DEF SequenceRecord
<1>8. /\ AfterNext(t) \in [Objects -> ObjectRecord]
      /\ \A p \in Objects \ {o} : AfterNext(t)[p] = object[p]
      /\ AfterNext(t)[o] = sequence
  <2> HIDE DEF sequence
  <2> QED BY <1>2, <1>5, <1>6 DEF PythonTypeOK, ObjectRecord
<1> HIDE DEF sequence
<1> QED BY <1>2, <1>6, <1>7, <1>8 DEF IndexAfter

-----------------------------------------------------------------------------
(* What refers to an object: a name, calls, and objects that have it as    *)
(* their parent.                                                           *)
NamesOf(o) == {n \in names : n = o}

LEMMA ReferringIs ==
  ASSUME NEW o
  PROVE  /\ Referring(o) = Cardinality(NamesOf(o)) + Cardinality(CallsOn(o))
                             + Cardinality(ChildrenOf(o))
         /\ Referring(o)' = Cardinality(NamesOf(o)') + Cardinality(CallsOn(o)')
                              + Cardinality(ChildrenOf(o)')
BY DEF Referring, NamesOf, CallsOn, ChildrenOf

LEMMA NamesCount ==
  ASSUME NEW o
  PROVE  /\ Cardinality(NamesOf(o)) = IF o \in names THEN 1 ELSE 0
         /\ Cardinality(NamesOf(o)') = IF o \in names' THEN 1 ELSE 0
<1>1. NamesOf(o) = IF o \in names THEN {o} ELSE {}
  BY DEF NamesOf
<1>2. NamesOf(o)' = IF o \in names' THEN {o} ELSE {}
  BY DEF NamesOf
<1> QED BY <1>1, <1>2, FS_EmptySet, FS_Singleton

LEMMA CallsFinite ==
  ASSUME IsFiniteSet(Callers), NEW o
  PROVE  IsFiniteSet(CallsOn(o)) /\ Cardinality(CallsOn(o)) \in Nat
<1>1. CallsOn(o) \in SUBSET Callers
  BY DEF CallsOn, Callers
<1> QED BY <1>1, FS_Subset, FS_CardinalityType

LEMMA ChildrenFinite ==
  ASSUME NEW o
  PROVE  /\ IsFiniteSet(ChildrenOf(o)) /\ Cardinality(ChildrenOf(o)) \in Nat
         /\ IsFiniteSet(ChildrenOf(o)') /\ Cardinality(ChildrenOf(o)') \in Nat
<1>1. IsFiniteSet(Objects)
  <2>1. NumberOfObjects \in Int /\ 0 \in Int
    BY PythonAssumption
  <2> QED BY <2>1, FS_Interval DEF Objects
<1>2. ChildrenOf(o) \in SUBSET Objects /\ ChildrenOf(o)' \in SUBSET Objects
  BY DEF ChildrenOf
<1> QED BY <1>1, <1>2, FS_Subset, FS_CardinalityType

LEMMA CallsSame ==
  ASSUME PythonTypeOK, CallsStay
  PROVE  Callers' = Callers /\ \A o : CallsOn(o)' = CallsOn(o)
BY DEF Callers, CallsOn, CallsStay

LEMMA CallAdded ==
  ASSUME PythonTypeOK, IsFiniteSet(Callers), NEW t \in Threads, call[t] = NoCall,
         NEW c, c # NoCall, call' = [call EXCEPT ![t] = c], NEW q, q = c.on
  PROVE  /\ IsFiniteSet(Callers')
         /\ Cardinality(CallsOn(q)') = Cardinality(CallsOn(q)) + 1
         /\ \A o : o # q => CallsOn(o)' = CallsOn(o)
<1>1. call'[t] = c /\ \A u \in Threads \ {t} : call'[u] = call[u]
  BY DEF PythonTypeOK
<1>2. Callers' = Callers \cup {t}
  BY <1>1 DEF Callers
<1>3. CallsOn(q)' = CallsOn(q) \cup {t} /\ t \notin CallsOn(q)
  BY <1>1 DEF CallsOn
<1>4. \A o : o # q => CallsOn(o)' = CallsOn(o)
  BY <1>1 DEF CallsOn
<1> QED BY <1>2, <1>3, <1>4, CallsFinite, FS_AddElement

LEMMA CallRemoved ==
  ASSUME PythonTypeOK, IsFiniteSet(Callers), NEW t \in Threads, call[t] # NoCall,
         call' = [call EXCEPT ![t] = NoCall], NEW q, q = call[t].on
  PROVE  /\ IsFiniteSet(Callers')
         /\ Cardinality(CallsOn(q)') = Cardinality(CallsOn(q)) - 1
         /\ \A o : o # q => CallsOn(o)' = CallsOn(o)
<1>1. call'[t] = NoCall /\ \A u \in Threads \ {t} : call'[u] = call[u]
  BY EndType
<1>2. Callers' = Callers \ {t}
  BY <1>1 DEF Callers
<1>3. CallsOn(q)' = CallsOn(q) \ {t} /\ t \in CallsOn(q)
  BY <1>1 DEF CallsOn
<1>4. \A o : o # q => CallsOn(o)' = CallsOn(o)
  BY <1>1 DEF CallsOn
<1> QED BY ZenonT(60), <1>2, <1>3, <1>4, CallsFinite, FS_RemoveElement

(* Objects stay what they are, with the parents that they have.            *)
Stays(p) ==
  \/ object'[p] = object[p]
  \/ /\ object[p] \in SequenceRecord /\ object'[p] \in SequenceRecord
     /\ object'[p].parent = object[p].parent

LEMMA StaysIs ==
  ASSUME NEW p, Stays(p)
  PROVE  /\ object'[p].type = object[p].type
         /\ object'[p].parent = object[p].parent
         /\ object'[p] = NoObject <=> object[p] = NoObject
<1>1. \A s \in SequenceRecord : s.type = "sequence"
  BY DEF SequenceRecord
<1>2. NoObject.type = "none"
  BY DEF NoObject
<1> QED BY <1>1, <1>2 DEF Stays

LEMMA ChildrenSame ==
  ASSUME \A p \in Objects : Stays(p)
  PROVE  \A o : ChildrenOf(o)' = ChildrenOf(o)
BY StaysIs DEF ChildrenOf

LEMMA ChildAdded ==
  ASSUME NEW n \in Objects \ {VolumeObject}, object[n] = NoObject, object'[n] # NoObject,
         \A p \in Objects \ {n} : Stays(p), NEW q, q = object'[n].parent
  PROVE  /\ Cardinality(ChildrenOf(q)') = Cardinality(ChildrenOf(q)) + 1
         /\ \A o : o # q => ChildrenOf(o)' = ChildrenOf(o)
<1>1. \A p \in Objects \ {n} :
        /\ object'[p].parent = object[p].parent
        /\ object'[p] = NoObject <=> object[p] = NoObject
  BY StaysIs
<1>2. n \notin ChildrenOf(q) /\ ChildrenOf(q)' = ChildrenOf(q) \cup {n}
  BY <1>1 DEF ChildrenOf
<1>3. \A o : o # q => ChildrenOf(o)' = ChildrenOf(o)
  BY <1>1 DEF ChildrenOf
<1> QED BY <1>2, <1>3, ChildrenFinite, FS_AddElement

LEMMA ChildRemoved ==
  ASSUME NEW n \in Objects \ {VolumeObject}, object[n] # NoObject, object'[n] = NoObject,
         \A p \in Objects \ {n} : object'[p] = object[p], NEW q, q = object[n].parent
  PROVE  /\ Cardinality(ChildrenOf(q)') = Cardinality(ChildrenOf(q)) - 1
         /\ \A o : o # q => ChildrenOf(o)' = ChildrenOf(o)
<1>1. n \in ChildrenOf(q) /\ ChildrenOf(q)' = ChildrenOf(q) \ {n}
  BY DEF ChildrenOf
<1>2. \A o : o # q => ChildrenOf(o)' = ChildrenOf(o)
  BY DEF ChildrenOf
<1> QED BY <1>1, <1>2, ChildrenFinite, FS_RemoveElement

(* An object without references has no name, no call and no child.         *)
LEMMA NothingRefers ==
  ASSUME Counted, NEW o \in Objects, references[o] = 0
  PROVE  o \notin names /\ CallsOn(o) = {} /\ ChildrenOf(o) = {}
<1>1. Cardinality(NamesOf(o)) \in Nat /\ (o \in names => Cardinality(NamesOf(o)) = 1)
  BY NamesCount
<1>2. Cardinality(CallsOn(o)) \in Nat /\ Cardinality(ChildrenOf(o)) \in Nat
  BY CallsFinite, ChildrenFinite DEF Counted
<1>3. Cardinality(NamesOf(o)) + Cardinality(CallsOn(o)) + Cardinality(ChildrenOf(o)) = 0
  BY ReferringIs DEF Counted
<1>4. /\ Cardinality(NamesOf(o)) = 0 /\ Cardinality(CallsOn(o)) = 0
      /\ Cardinality(ChildrenOf(o)) = 0
  BY <1>1, <1>2, <1>3
<1> QED BY <1>1, <1>4, CallsFinite, ChildrenFinite, FS_EmptySet DEF Counted

-----------------------------------------------------------------------------
(* A call ends in one of three ways: it gives nothing, a file entry, or a  *)
(* sequence.                                                               *)
Plain(t) ==
  /\ object' \in [Objects -> ObjectRecord]
  /\ \A p \in Objects : Stays(p)
  /\ names' = names
  /\ references' = Decreased(references, call[t].on)

Gives(n) ==
  /\ object[n] = NoObject
  /\ object' \in [Objects -> ObjectRecord]
  /\ \A p \in Objects \ {n} : Stays(p)
  /\ names' = names \cup {n}

GivesEntry(t, n) ==
  /\ Gives(n)
  /\ object'[n] = [type |-> "entry", parent |-> VolumeObject, opening |-> call[t].opening]
  /\ call[t].op \in Lookups /\ call[t].step = "returned" /\ call[t].result = "found"
  /\ references' =
       Decreased(Increased(Increased(references, n), VolumeObject), call[t].on)

GivesSequence(t, n) ==
  /\ Gives(n)
  /\ object'[n] = [type |-> "sequence", parent |-> call[t].on, current_index |-> 0,
                   given |-> <<>>, shared |-> FALSE]
  /\ object[call[t].on].type = "entry"
  /\ references' = Increased(references, n)

End(t) == EndOpenOrClose(t) \/ EndLookup(t) \/ EndSubFileEntries(t) \/ EndRead(t)

LEMMA EndCalls ==
  ASSUME PythonTypeOK, NEW t \in Threads, End(t)
  PROVE  /\ call[t] # NoCall
         /\ call[t].step = "returned"
         /\ call' = [call EXCEPT ![t] = NoCall]
         /\ UNCHANGED <<volume, closed, position>>
         /\ ~ EndOpenOrClose(t) => UNCHANGED <<file_io_handle, file_object_references>>
<1>1. call[t].step = "returned" /\ call' = [call EXCEPT ![t] = NoCall]
  BY DEF End, EndOpenOrClose, EndLookup, EndSubFileEntries, EndRead, Returned
<1>2. call[t] # NoCall
  BY <1>1, CallIs
<1> QED BY <1>1, <1>2 DEF End, EndOpenOrClose, EndLookup, EndSubFileEntries, EndRead

LEMMA PutObject ==
  ASSUME NEW kept \in [Objects -> ObjectRecord], NEW n \in Objects, NEW r \in ObjectRecord,
         object' = [kept EXCEPT ![n] = r]
  PROVE  /\ object' \in [Objects -> ObjectRecord]
         /\ object'[n] = r
         /\ \A p \in Objects \ {n} : object'[p] = kept[p]
OBVIOUS

LEMMA LookupEnds ==
  ASSUME PythonTypeOK, Present, NEW t \in Threads, EndLookup(t)
  PROVE  Plain(t) \/ \E n \in Objects \ {VolumeObject} : GivesEntry(t, n)
<1> DEFINE o == call[t].on
           kept == IF call[t].op = "next" THEN AfterNext(t) ELSE object
<1>1. call[t] \in CallRecord /\ call[t].op \in Lookups /\ call[t].step = "returned"
  <2>1. call[t].op \in Lookups /\ call[t].step = "returned"
    BY DEF EndLookup, Returned
  <2>2. call[t] # NoCall
    BY <2>1, CallIs
  <2> QED BY <2>1, <2>2, CallIs
<1>2. o \in Objects /\ object[o].type # "none"
  BY <1>1, CallOn, NoCallRecord
<1>3. Parent(o) = VolumeObject /\ object[VolumeObject].type = "volume"
  <2>1. \A p \in Objects : object[p].type = "entry" =>
           object[p].parent = VolumeObject /\ object[VolumeObject].type = "volume"
    BY TypeIs DEF EntryRecord, Present
  <2>2. object[o].type = "sequence" =>
           object[o].parent \in Objects /\ object[object[o].parent].type = "entry"
    BY <1>2, TypeIs DEF SequenceRecord, Present
  <2>3. object[o].type = "volume" => o = VolumeObject
    BY <1>2 DEF Present
  <2>4. o = VolumeObject => object[o].type = "volume"
    BY <1>2 DEF Present
  <2> QED BY <1>2, <2>1, <2>2, <2>3, <2>4, TypeIs DEF Parent, EntryOf
<1>4. /\ kept \in [Objects -> ObjectRecord]
      /\ \A p \in Objects : kept[p] # object[p] =>
           /\ object[p] \in SequenceRecord /\ kept[p] \in SequenceRecord
           /\ kept[p].parent = object[p].parent
  <2>1. CASE call[t].op = "next"
    <3>1. Returned(t, "next")
      BY <1>1, <2>1 DEF Returned
    <3>2. object[o] \in SequenceRecord
      BY <3>1, AfterNextIs, TypeIs
    <3> QED BY <2>1, <3>1, <3>2, AfterNextIs
  <2>2. CASE call[t].op # "next"
    BY <2>2 DEF PythonTypeOK
  <2> QED BY <2>1, <2>2
<1> HIDE DEF kept
<1>5. CASE ~ Given(t)
  <2>1. object' = kept /\ names' = names /\ references' = Decreased(references, o)
    BY <1>5 DEF EndLookup, kept
  <2> QED BY <1>4, <2>1 DEF Plain, Stays
<1>6. CASE Given(t)
  <2> DEFINE entry == [type |-> "entry", parent |-> VolumeObject, opening |-> call[t].opening]
             n == New
  <2>1. n \in Free
    BY <1>6, NewIsFree DEF Given
  <2>2. n \in Objects \ {VolumeObject} /\ object[n] = NoObject
    BY <1>3, <2>1 DEF Free, NoObject
  <2>3. /\ object' = [kept EXCEPT ![n] = entry]
        /\ names' = names \cup {n}
        /\ references' = Decreased(Increased(Increased(references, n), VolumeObject), o)
    BY <1>3, <1>6 DEF EndLookup, kept, ParentKept
  <2>4. entry \in ObjectRecord
    BY <1>1 DEF ObjectRecord, EntryRecord, CallRecord
  <2> HIDE DEF n
  <2>5. /\ object' \in [Objects -> ObjectRecord] /\ object'[n] = entry
        /\ \A p \in Objects \ {n} : object'[p] = kept[p]
    BY <1>4, <2>2, <2>3, <2>4, PutObject
  <2>6. \A p \in Objects \ {n} : Stays(p)
    BY <1>4, <2>5 DEF Stays
  <2>7. call[t].result = "found"
    BY <1>6 DEF Given
  <2>8. GivesEntry(t, n)
    BY <1>1, <2>2, <2>3, <2>5, <2>6, <2>7 DEF GivesEntry, Gives
  <2> QED BY <2>2, <2>8
<1> QED BY <1>5, <1>6

LEMMA EndSteps ==
  ASSUME PythonTypeOK, Present, NEW t \in Threads, End(t)
  PROVE  \/ Plain(t)
         \/ \E n \in Objects \ {VolumeObject} : GivesEntry(t, n) \/ GivesSequence(t, n)
<1>1. CASE EndOpenOrClose(t)
  BY <1>1 DEF EndOpenOrClose, Plain, Stays, PythonTypeOK
<1>2. CASE EndLookup(t)
  BY <1>2, LookupEnds
<1>3. CASE EndRead(t)
  BY <1>3 DEF EndRead, Plain, Stays, PythonTypeOK
<1>4. CASE EndSubFileEntries(t)
  <2> DEFINE o == call[t].on
  <2>1. call[t] # NoCall /\ call[t].op = "sub_file_entries"
    BY <1>4, CallIs DEF EndSubFileEntries, Returned
  <2>2. o \in Objects /\ object[o].type = "entry"
    BY <2>1, CallOn
  <2>3. CASE call[t].result = "ok" /\ Free # {} /\ Cardinality(Sequences) < NumberOfSequences
    <3> DEFINE sequence == [type |-> "sequence", parent |-> o, current_index |-> 0,
                            given |-> <<>>, shared |-> FALSE]
               n == New
    <3>1. n \in Free
      BY <2>3, NewIsFree
    <3>2. n \in Objects \ {VolumeObject} /\ object[n] = NoObject /\ o # VolumeObject
      BY <2>2, <3>1 DEF Free, NoObject, Present
    <3>3. /\ object' = [object EXCEPT ![n] = sequence]
          /\ names' = names \cup {n}
          /\ references' = Increased(references, n)
      BY <1>4, <2>3 DEF EndSubFileEntries
    <3>4. sequence \in SequenceRecord
      BY <2>2, <3>2 DEF SequenceRecord
    <3> HIDE DEF n, sequence
    <3>5. /\ object' \in [Objects -> ObjectRecord] /\ object'[n] = sequence
          /\ \A p \in Objects \ {n} : object'[p] = object[p]
      BY <3>2, <3>3, <3>4, PutObject DEF PythonTypeOK, ObjectRecord
    <3>6. GivesSequence(t, n)
      BY <2>2, <3>2, <3>3, <3>5 DEF GivesSequence, Gives, Stays, sequence
    <3> QED BY <3>2, <3>6
  <2>4. CASE ~ (call[t].result = "ok" /\ Free # {} /\ Cardinality(Sequences) < NumberOfSequences)
    BY <1>4, <2>4 DEF EndSubFileEntries, Plain, Stays, PythonTypeOK
  <2> QED BY <2>3, <2>4
<1> QED BY <1>1, <1>2, <1>3, <1>4 DEF End

(* The openings whose file entries are in use.                             *)
Uses(opening) ==
  \/ \E o \in Objects : object[o].type = "entry" /\ object[o].opening = opening
  \/ \E t \in Threads : /\ call[t].op \in Lookups /\ call[t].step = "returned"
                        /\ call[t].result = "found" /\ call[t].opening = opening

LEMMA UsesIs ==
  /\ \A opening : opening \in OpeningsInUse <=> Uses(opening)
  /\ \A opening : opening \in OpeningsInUse' <=> Uses(opening)'
BY DEF OpeningsInUse, Uses, Returned

(* A sequence that gave its items in order.                                *)
InOrder(s) ==
  /\ s.given = [i \in 1 .. Len(s.given) |-> i - 1]
  /\ s.current_index = Len(s.given)

LEMMA UndisturbedIs ==
  /\ UndisturbedAnswers <=>
       /\ \A t \in Threads :
            call[t].op = "read" /\ call[t].step = "returned" /\ call[t].result = "other data" =>
              call[t].disturbed
       /\ \A o \in Objects :
            object[o].type = "sequence" /\ ~ object[o].shared => InOrder(object[o])
  /\ UndisturbedAnswers' <=>
       /\ \A t \in Threads :
            call'[t].op = "read" /\ call'[t].step = "returned" /\ call'[t].result = "other data" =>
              call'[t].disturbed
       /\ \A o \in Objects :
            object'[o].type = "sequence" /\ ~ object'[o].shared => InOrder(object'[o])
BY DEF UndisturbedAnswers, Sequences, InOrder, Returned

LEMMA UndisturbedStays ==
  ASSUME NextAlone, UndisturbedAnswers, call' = call,
         \A o \in Objects : object'[o].type = "sequence" => object'[o] = object[o]
  PROVE  NextAlone' /\ UndisturbedAnswers'
<1>1. NextAlone'
  BY DEF NextAlone, Sequences
<1>2. UndisturbedAnswers'
  BY UndisturbedIs
<1> QED BY <1>1, <1>2

-----------------------------------------------------------------------------
(* A call begins.                                                          *)
LEMMA BeginIs ==
  ASSUME PythonTypeOK, Present, NEW t \in Threads, NEW op, NEW o \in Objects, Begin(t, op, o)
  PROVE  /\ call[t] = NoCall
         /\ op \in Operations
         /\ op \in OpsOn(object[o].type)
         /\ op \in {"open", "open_file_object", "close"} => t = Owner
         /\ op = "next" => object[o] \in SequenceRecord
         /\ \A p \in Objects : Stays(p)
         /\ references' = Increased(references, o)
         /\ \A u \in Threads \ {t} : call'[u] = call[u]
         /\ \E c : /\ c # NoCall /\ call' = [call EXCEPT ![t] = c]
                   /\ call'[t] = c
                   /\ c.op = op /\ c.on = o /\ c.step = "begun" /\ c.result = "none"
                   /\ c.index = IF op = "next" THEN object[o].current_index ELSE 0
         /\ \A p \in Objects \ {o} : object'[p] = object[p]
         /\ \/ object' = object
            \/ op = "next" /\ object[o] \in SequenceRecord /\ object'[o].shared
         /\ op = "next" /\ (\E u \in Threads : call[u] # NoCall /\ call[u].on = o) =>
              object'[o].shared
<1>1. /\ op \in Operations /\ op \in OpsOn(object[o].type)
      /\ op = "next" => object[o] \in SequenceRecord
  BY TypeIs, OpsOnIs DEF Begin
<1>2. CASE object' = object /\
           ~ (op = "next" /\ \E u \in Threads : call[u] # NoCall /\ call[u].on = o)
  <2>1. \A p \in Objects : object'[p] = object[p] /\ Stays(p)
    BY <1>2 DEF Stays
  <2> DEFINE c == [op |-> op, on |-> o, step |-> "begun", disturbed |-> FALSE,
                   index |-> IF op = "next" THEN object[o].current_index ELSE 0,
                   result |-> "none", opening |-> 0]
  <2>2. /\ c.op = op /\ c.on = o /\ c.step = "begun" /\ c.result = "none"
        /\ c.index = IF op = "next" THEN object[o].current_index ELSE 0
    OBVIOUS
  <2>3. call' = [call EXCEPT ![t] = c]
    BY DEF Begin
  <2> HIDE DEF c
  <2>4. c # NoCall
    BY <1>1, <2>2 DEF NoCall, Operations
  <2>5. call'[t] = c /\ \A u \in Threads \ {t} : call'[u] = call[u]
    BY <2>3 DEF PythonTypeOK
  <2> QED BY <1>1, <1>2, <2>1, <2>2, <2>3, <2>4, <2>5 DEF Begin
<1>3. CASE /\ op = "next" /\ \E u \in Threads : call[u] # NoCall /\ call[u].on = o
           /\ object' = [object EXCEPT ![o].shared = TRUE, ![o].given = <<>>]
  <2>1. object' = [object EXCEPT ![o] = SharedByCalls(object[o])]
    BY <1>3 DEF SharedByCalls, PythonTypeOK
  <2>2. object'[o] = SharedByCalls(object[o]) /\ \A p \in Objects \ {o} : object'[p] = object[p]
    BY <2>1 DEF PythonTypeOK
  <2>3. /\ object'[o].shared /\ object'[o] \in SequenceRecord
        /\ object'[o].parent = object[o].parent
    BY <1>1, <1>3, <2>2, SequenceShared
  <2>4. \A p \in Objects : Stays(p)
    BY <1>1, <1>3, <2>2, <2>3 DEF Stays
  <2> DEFINE c == [op |-> op, on |-> o, step |-> "begun", disturbed |-> FALSE,
                   index |-> IF op = "next" THEN object[o].current_index ELSE 0,
                   result |-> "none", opening |-> 0]
  <2>5. /\ c.op = op /\ c.on = o /\ c.step = "begun" /\ c.result = "none"
        /\ c.index = IF op = "next" THEN object[o].current_index ELSE 0
    OBVIOUS
  <2>6. call' = [call EXCEPT ![t] = c]
    BY DEF Begin
  <2> HIDE DEF c
  <2>7. c # NoCall
    BY <1>1, <2>5 DEF NoCall, Operations
  <2>8. call'[t] = c /\ \A u \in Threads \ {t} : call'[u] = call[u]
    BY <2>6 DEF PythonTypeOK
  <2> QED BY <1>1, <1>3, <2>2, <2>3, <2>4, <2>5, <2>6, <2>7, <2>8 DEF Begin
<1> QED BY <1>2, <1>3 DEF Begin

LEMMA BeginKeeps ==
  ASSUME PythonInv, NEW t \in Threads, NEW op, NEW o \in Objects, Begin(t, op, o)
  PROVE  PythonInv'
<1>1. PythonTypeOK'
  BY BeginType DEF PythonInv
<1>2. PICK c : /\ c # NoCall /\ call' = [call EXCEPT ![t] = c]
               /\ call'[t] = c
               /\ c.op = op /\ c.on = o /\ c.step = "begun" /\ c.result = "none"
               /\ c.index = IF op = "next" THEN object[o].current_index ELSE 0
  BY BeginIs DEF PythonInv
<1>3. /\ call[t] = NoCall
      /\ op \in Operations /\ op \in OpsOn(object[o].type)
      /\ op \in {"open", "open_file_object", "close"} => t = Owner
      /\ op = "next" => object[o] \in SequenceRecord
      /\ \A p \in Objects : Stays(p)
      /\ references' = Increased(references, o)
      /\ \A u \in Threads \ {t} : call'[u] = call[u]
      /\ \A p \in Objects \ {o} : object'[p] = object[p]
      /\ object' = object \/ (op = "next" /\ object[o] \in SequenceRecord /\ object'[o].shared)
      /\ op = "next" /\ (\E u \in Threads : call[u] # NoCall /\ call[u].on = o) =>
           object'[o].shared
  BY BeginIs DEF PythonInv
<1>0. UNCHANGED <<names, volume, position, closed>>
  BY DEF Begin
<1>4. \A p \in Objects : /\ object'[p].type = object[p].type
                         /\ object'[p].parent = object[p].parent
                         /\ object'[p] = NoObject <=> object[p] = NoObject
  BY <1>3, StaysIs
<1>5. Present'
  <2>1. \A u \in Threads : call'[u] # NoCall =>
          call'[u].on \in Objects /\ call'[u].op \in OpsOn(object[call'[u].on].type)
    <3>1. \A u \in Threads \ {t} : call[u] # NoCall =>
            call[u].on \in Objects /\ call[u].op \in OpsOn(object[call[u].on].type)
      BY CallOn DEF PythonInv, Present
    <3> QED BY <1>2, <1>3, <3>1
  <2>2. \A u \in Threads : call'[u] # NoCall => call'[u].op \in OpsOn(object'[call'[u].on].type)
    BY <1>4, <2>1
  <2>3. \A p \in Objects : object[p].type = "sequence" => object[p].parent \in Objects
    BY TypeIs DEF PythonInv, SequenceRecord
  <2>4. VolumeObject \in Objects /\ names \subseteq Objects
    BY PythonAssumption DEF PythonInv, PythonTypeOK, VolumeObject, Objects
  <2> QED BY <1>0, <1>4, <2>2, <2>3, <2>4 DEF PythonInv, Present
<1>6. OwnersCalls'
  BY <1>2, <1>3 DEF PythonInv, OwnersCalls
<1>7. Counted'
  <2>1. /\ IsFiniteSet(Callers')
        /\ Cardinality(CallsOn(o)') = Cardinality(CallsOn(o)) + 1
        /\ \A p : p # o => CallsOn(p)' = CallsOn(p)
    <3>1. PythonTypeOK /\ IsFiniteSet(Callers) /\ call[t] = NoCall
      BY <1>3 DEF PythonInv, Counted
    <3>2. c # NoCall /\ call' = [call EXCEPT ![t] = c] /\ o = c.on
      BY <1>2
    <3> QED BY <3>1, <3>2, CallAdded
  <2>2. \A p : ChildrenOf(p)' = ChildrenOf(p) /\ NamesOf(p)' = NamesOf(p)
    BY <1>0, <1>3, ChildrenSame DEF NamesOf
  <2>3. ASSUME NEW p \in Objects PROVE references'[p] = Referring(p)'
    <3>1. references[p] = Cardinality(NamesOf(p)) + Cardinality(CallsOn(p))
                            + Cardinality(ChildrenOf(p))
      BY ReferringIs DEF PythonInv, Counted
    <3>2. /\ Cardinality(NamesOf(p)) \in Nat /\ Cardinality(CallsOn(p)) \in Nat
          /\ Cardinality(ChildrenOf(p)) \in Nat
      BY NamesCount, CallsFinite, ChildrenFinite DEF PythonInv, Counted
    <3>3. references'[p] = references[p] + IF p = o THEN 1 ELSE 0
      BY <1>3, CountsType DEF PythonInv, PythonTypeOK
    <3>4. Cardinality(CallsOn(p)') = Cardinality(CallsOn(p)) + IF p = o THEN 1 ELSE 0
      BY <2>1, <3>2
    <3> QED BY <2>2, <3>1, <3>2, <3>3, <3>4, ReferringIs
  <2> QED BY <2>1, <2>3 DEF Counted
<1>8. OpeningsKept'
  <2>1. \A p \in Objects : object'[p].type = "entry" => object'[p] = object[p]
    BY <1>3, <1>4 DEF SequenceRecord
  <2>2. \A opening : Uses(opening)' => Uses(opening)
    BY <1>2, <1>3, <2>1 DEF Uses
  <2> QED BY <1>0, <2>2, UsesIs DEF PythonInv, OpeningsKept
<1>9. HandleSteps' /\ HandleOwned'
  <2>1. CASE op = "open_file_object"
    <3>1. /\ ~ file_io_handle /\ file_io_handle' = TRUE
          /\ file_object_references' = file_object_references + 1
      BY <2>1 DEF Begin
    <3>2. t = Owner
      BY <1>3, <2>1
    <3>3. volume.with # "file_object" /\ file_object_references' = 1
      BY <3>1 DEF PythonInv, HandleOwned
    <3>4. HandleSteps'
      BY <1>0, <1>2, <2>1, <3>2, <3>3 DEF PythonInv, HandleSteps, Returned
    <3>5. HandleOwned'
      BY <1>0, <1>2, <2>1, <3>1, <3>2, <3>3 DEF HandleOwned
    <3> QED BY <3>4, <3>5
  <2>2. CASE op # "open_file_object"
    <3>1. file_io_handle' = file_io_handle /\ file_object_references' = file_object_references
      BY <2>2 DEF Begin, PythonInv, PythonTypeOK
    <3>2. CASE t = Owner
      BY <1>0, <1>2, <1>3, <2>2, <3>1, <3>2
         DEF PythonInv, HandleSteps, HandleOwned, HandleFreed, Returned, NoCall
    <3>3. CASE t # Owner
      BY <1>0, <1>3, <3>1, <3>3, PythonAssumption
         DEF PythonInv, HandleSteps, HandleOwned, HandleFreed, Returned
    <3> QED BY <3>2, <3>3
  <2> QED BY <2>1, <2>2
<1>10. Answers'
  BY <1>0, <1>2, <1>3 DEF PythonInv, Answers
<1>11. NextAlone'
  <2> SUFFICES ASSUME NEW u \in Threads, NEW p \in Objects, object'[p].type = "sequence",
                      call'[u].op = "next", call'[u].on = p, ~ object'[p].shared
               PROVE  /\ call'[u].index = object'[p].current_index
                      /\ \A v \in Threads : call'[v].op = "next" /\ call'[v].on = p => v = u
    BY DEF NextAlone, Sequences
  <2>1. object'[p] = object[p] /\ object[p].type = "sequence"
    BY <1>3
  <2>2. CASE op = "next" /\ p = o
    <3>1. \A v \in Threads : call[v] # NoCall => call[v].on # o
      BY <1>3, <2>2
    <3>2. \A v \in Threads \ {t} : call'[v].op = "next" => call'[v].on # o
      BY <1>3, <3>1 DEF NoCall
    <3> QED BY <1>2, <2>1, <2>2, <3>2
  <2>3. CASE ~ (op = "next" /\ p = o)
    <3>1. ~ (call'[t].op = "next" /\ call'[t].on = p)
      BY <1>2, <2>3
    <3> QED BY <1>3, <2>1, <3>1 DEF PythonInv, NextAlone, Sequences
  <2> QED BY <2>2, <2>3
<1>12. UndisturbedAnswers'
  <2>1. \A p \in Objects : object'[p].type = "sequence" /\ ~ object'[p].shared =>
           object'[p] = object[p]
    BY <1>3
  <2>2. \A u \in Threads : call'[u].step = "returned" => call'[u] = call[u]
    BY <1>2, <1>3
  <2> QED BY <1>3, <2>1, <2>2, UndisturbedIs DEF PythonInv, Returned
<1> QED BY <1>1, <1>5, <1>6, <1>7, <1>8, <1>9, <1>10, <1>11, <1>12 DEF PythonInv

-----------------------------------------------------------------------------
(* The library works.                                                      *)
LEMMA LibraryKeepsObjects ==
  ASSUME PythonInv, NEW t \in Threads, Library(t)
  PROVE  /\ PythonTypeOK' /\ Present' /\ Counted' /\ NextAlone'
<1>1. /\ PythonTypeOK' /\ CallsStay
      /\ UNCHANGED <<references, object, file_io_handle, file_object_references>>
      /\ names' = names
  BY LibraryStays DEF PythonInv
<1>2. volume'.state = "freed" <=> volume.state = "freed"
  <2>1. CASE UNCHANGED volume
    BY <2>1
  <2>2. CASE volume.state = "closed" /\ volume'.state = "open"
    BY <2>2
  <2>3. CASE volume.state = "open" /\ volume' = [volume EXCEPT !.state = "closed", !.with = "none"]
    BY <2>3 DEF PythonInv, PythonTypeOK
  <2>4. CASE LibraryOpen(t)
    BY <2>1, <2>2, <2>4 DEF LibraryOpen
  <2>5. CASE LibraryClose(t)
    BY <2>1, <2>3, <2>5 DEF LibraryClose
  <2> QED BY <2>1, <2>4, <2>5 DEF Library, LibraryLookup, LibraryNumberOfSubFileEntries, Seek,
                                  LibraryRead
<1>3. Present'
  <2>1. \A u \in Threads : call'[u] # NoCall => call'[u].op \in OpsOn(object[call'[u].on].type)
    BY <1>1 DEF CallsStay, PythonInv, Present
  <2> QED BY <1>1, <1>2, <2>1 DEF PythonInv, Present
<1>4. Counted'
  <2>1. Callers' = Callers /\ \A o : CallsOn(o)' = CallsOn(o)
    BY <1>1, CallsSame DEF PythonInv
  <2>2. \A o : NamesOf(o)' = NamesOf(o) /\ ChildrenOf(o)' = ChildrenOf(o)
    BY <1>1 DEF NamesOf, ChildrenOf
  <2>3. \A o : Referring(o)' = Referring(o)
    BY <2>1, <2>2, ReferringIs
  <2> QED BY <1>1, <2>1, <2>3 DEF PythonInv, Counted
<1>5. NextAlone'
  <2>1. \A u \in Threads : call'[u].op = "next" =>
          /\ call[u].op = "next" /\ call'[u].on = call[u].on /\ call'[u].index = call[u].index
    BY <1>1, CallIs DEF CallsStay, PythonInv
  <2> QED BY <1>1, <2>1 DEF PythonInv, NextAlone, Sequences
<1> QED BY <1>1, <1>3, <1>4, <1>5

(* What the library gives, and what it does to other calls.                *)
LEMMA LibraryAnswers ==
  ASSUME PythonInv, NEW t \in Threads, Library(t)
  PROVE  /\ OwnersCalls' /\ Answers' /\ UndisturbedAnswers'
<1>1. /\ PythonTypeOK' /\ CallsStay /\ object' = object
  BY LibraryStays DEF PythonInv
<1>2. /\ call[t] # NoCall /\ Readers \in SUBSET Callers /\ {} \in SUBSET Callers
      /\ call[t].op = "read" => Seek(t) \/ LibraryRead(t)
      /\ call[t].op # "read" => ~ Seek(t) /\ ~ LibraryRead(t)
  <2>1. Readers \in SUBSET Callers
    BY CallIs DEF PythonInv, Readers, Callers
  <2> QED BY <2>1, CallIs DEF PythonInv, Library, LibraryOpen, LibraryClose, LibraryLookup,
                              LibraryNumberOfSubFileEntries, Seek, LibraryRead, CallBegun, Lookups
<1>3. \A u \in Threads : call[u].step = "sought" => u \in Readers /\ call[u] # NoCall
  BY CallIs DEF PythonInv, Readers
<1>4. ASSUME NEW result \in Results,
             LibraryReturns(t, result, {}), UNCHANGED position,
             result # "other data"
      PROVE  OwnersCalls' /\ Answers' /\ UndisturbedAnswers'
  <2>1. /\ call'[t].step = "returned" /\ call'[t].result = result
        /\ \A u \in Threads \ {t} : call'[u] = call[u]
    <3>1. PythonTypeOK
      BY DEF PythonInv
    <3> DEFINE others == {}
    <3>2. /\ others \in SUBSET Callers /\ LibraryReturns(t, result, others)
          /\ \A u \in Threads : u \notin others
      BY <1>4
    <3> HIDE DEF others
    <3> QED BY <1>2, <3>1, <3>2, Returning
  <2>2. OwnersCalls'
    BY <1>1, <2>1 DEF CallsStay, PythonInv, OwnersCalls
  <2>3. Answers'
    BY <1>4, <2>1 DEF PythonInv, Answers
  <2>4. UndisturbedAnswers'
    BY <1>1, <1>4, <2>1, UndisturbedIs DEF PythonInv, Returned
  <2> QED BY <2>2, <2>3, <2>4
<1>5. ASSUME NEW result \in Results,
             LibraryReturns(t, result, Readers),
             Readers # {} => position' = t, Readers = {} => position' \in {position, t},
             result = "other data" => call[t].step = "sought" /\ position # t
      PROVE  OwnersCalls' /\ Answers' /\ UndisturbedAnswers'
  <2>1. /\ call'[t].step = "returned" /\ call'[t].result = result
        /\ call'[t].disturbed = call[t].disturbed
        /\ \A u \in Threads \ {t} : call'[u].step = call[u].step
        /\ \A u \in Threads \ {t} : call[u] # NoCall => call'[u].result = call[u].result
        /\ \A u \in Readers \ {t} : call'[u].disturbed
    <3>1. PythonTypeOK
      BY DEF PythonInv
    <3> QED BY ZenonT(60), <1>2, <1>5, <3>1, Returning
  <2>2. OwnersCalls'
    BY <1>1, <2>1 DEF CallsStay, PythonInv, OwnersCalls
  <2>3. Answers'
    BY <1>3, <2>1 DEF Answers
  <2>4. ASSUME NEW u \in Threads, call'[u].op = "read", call'[u].step = "returned",
               call'[u].result = "other data"
        PROVE  call'[u].disturbed
    <3>1. CASE u = t
      BY <1>5, <2>1, <2>4, <3>1 DEF PythonInv, Answers
    <3>2. CASE u # t
      <4>1. call[u] # NoCall /\ call[u].op = "read"
        BY <1>1, <2>4, CallIs DEF CallsStay, PythonInv
      <4>2. call[u].step = "returned" /\ call[u].result = "other data"
        BY <2>1, <2>4, <3>2, <4>1
      <4>3. call[u].disturbed
        BY <4>1, <4>2, UndisturbedIs DEF PythonInv, Returned
      <4> QED BY <1>1, <4>1, <4>3 DEF CallsStay
    <3> QED BY <3>1, <3>2
  <2>5. UndisturbedAnswers'
    BY <1>1, <2>4, UndisturbedIs DEF PythonInv, Returned
  <2> QED BY <2>2, <2>3, <2>5
<1>6. CASE LibraryOpen(t)
  BY <1>4, <1>6 DEF Results, LibraryOpen
<1>7. CASE LibraryClose(t)
  BY <1>4, <1>7 DEF Results, LibraryClose
<1>8. CASE LibraryLookup(t)
  BY <1>4, <1>5, <1>8 DEF Results, LibraryLookup, MoveHandle
<1>9. CASE LibraryNumberOfSubFileEntries(t)
  BY <1>4, <1>5, <1>9 DEF Results, LibraryNumberOfSubFileEntries, MoveHandle
<1>10. CASE LibraryRead(t)
  BY <1>4, <1>5, <1>10 DEF Results, LibraryRead
<1>11. CASE Seek(t)
  <2>1. /\ call'[t].step = "sought" /\ call'[t].result = call[t].result
        /\ \A u \in Threads \ {t} : call'[u].step = call[u].step
        /\ \A u \in Threads : call[u] # NoCall => call'[u].result = call[u].result
        /\ \A u \in Readers \ {t} : call'[u].disturbed
    BY <1>11, Seeking DEF PythonInv
  <2>2. position' = t /\ call[t].op = "read"
    BY <1>11 DEF Seek, CallBegun
  <2>3. OwnersCalls'
    BY <1>1, <2>1, <2>2 DEF CallsStay, PythonInv, OwnersCalls
  <2>4. Answers'
    BY <1>3, <2>1, <2>2 DEF Answers
  <2>5. ASSUME NEW u \in Threads, call'[u].op = "read", call'[u].step = "returned",
               call'[u].result = "other data"
        PROVE  call'[u].disturbed
    <3>1. u # t /\ call[u] # NoCall /\ call[u].op = "read"
      BY <1>1, <2>1, <2>5, CallIs DEF CallsStay, PythonInv
    <3>2. call[u].step = "returned" /\ call[u].result = "other data"
      BY <2>1, <2>5, <3>1
    <3>3. call[u].disturbed
      BY <3>1, <3>2, UndisturbedIs DEF PythonInv, Returned
    <3> QED BY <1>1, <3>1, <3>3 DEF CallsStay
  <2>6. UndisturbedAnswers'
    BY <1>1, <2>5, UndisturbedIs DEF PythonInv, Returned
  <2> QED BY <2>3, <2>4, <2>6
<1> QED BY <1>6, <1>7, <1>8, <1>9, <1>10, <1>11 DEF Library

(* The volume opens and closes under the handle.                           *)
LEMMA LibraryHandles ==
  ASSUME PythonInv, NEW t \in Threads, Library(t)
  PROVE  OpeningsKept' /\ HandleSteps' /\ HandleOwned'
<1>1. /\ CallsStay /\ object' = object
      /\ UNCHANGED <<file_io_handle, file_object_references>>
  BY LibraryStays DEF PythonInv
<1>2. call[t] # NoCall /\ call[t].step \in {"begun", "sought"}
  BY CallIs DEF PythonInv, Library, LibraryOpen, LibraryClose, LibraryLookup,
                LibraryNumberOfSubFileEntries, Seek, LibraryRead, CallBegun
<1>3. /\ \A u \in Threads \ {t} : call'[u].step = call[u].step
      /\ \A u \in Threads \ {t} : call[u] # NoCall =>
           call'[u].result = call[u].result /\ call'[u].opening = call[u].opening
  <2>1. Readers \in SUBSET Callers /\ {} \in SUBSET Callers
    BY CallIs DEF PythonInv, Readers, Callers
  <2>2. PythonTypeOK
    BY DEF PythonInv
  <2>3. CASE Seek(t)
    BY <2>2, <2>3, Seeking
  <2>4. CASE \E result \in Results : \E others \in SUBSET Callers :
               LibraryReturns(t, result, others)
    BY <1>2, <2>2, <2>4, Returning
  <2>5. \/ Seek(t)
        \/ \E result \in Results : LibraryReturns(t, result, {}) \/ LibraryReturns(t, result, Readers)
    BY DEF Results, Library, LibraryOpen, LibraryClose, LibraryLookup,
           LibraryNumberOfSubFileEntries, LibraryRead
  <2> QED BY <2>1, <2>3, <2>4, <2>5
<1>4. \A u \in Threads \ {t} :
        /\ call'[u].op = call[u].op
        /\ call'[u].step = call[u].step
        /\ call[u] # NoCall => call'[u].result = call[u].result
  BY <1>1, <1>3 DEF CallsStay
<1>5. Owner \in Threads /\ call'[t].op = call[t].op
  BY <1>1, PythonAssumption DEF CallsStay
<1>6. /\ \A result \in Results : LibraryReturns(t, result, {}) =>
           call'[t].step = "returned" /\ call'[t].result = result
      /\ \A result \in Results : LibraryReturns(t, result, Readers) =>
           /\ call'[t].step = "returned" /\ call'[t].result = result
           /\ call'[t].opening = volume.opening
  <2>1. Readers \in SUBSET Callers /\ {} \in SUBSET Callers
    BY CallIs DEF PythonInv, Readers, Callers
  <2>2. PythonTypeOK
    BY DEF PythonInv
  <2> QED BY <1>2, <2>1, <2>2, Returning
<1>7. CASE LibraryOpen(t)
  <2>1. t = Owner /\ call[t].op \in {"open", "open_file_object"} /\ call[t].step = "begun"
    BY <1>7 DEF LibraryOpen, CallBegun, PythonInv, OwnersCalls
  <2>2. CASE volume' = volume /\ LibraryReturns(t, "error", {}) /\ closed' = closed
    <3>1. call'[t].step = "returned" /\ call'[t].result = "error"
      BY <1>6, <2>2 DEF Results
    <3>2. OpeningsKept'
      <4>1. \A opening : Uses(opening)' => Uses(opening)
        BY <1>1, <1>4, <1>3, <3>1, CallIs DEF Uses, PythonInv, Lookups, NoCall
      <4> QED BY <2>2, <4>1, UsesIs DEF PythonInv, OpeningsKept
    <3>3. HandleSteps' /\ HandleOwned'
      BY <1>1, <1>5, <2>1, <2>2, <3>1
         DEF PythonInv, HandleSteps, HandleOwned, HandleFreed, Returned
    <3> QED BY <3>2, <3>3
  <2>3. CASE /\ volume.state = "closed" /\ LibraryReturns(t, "ok", {}) /\ closed' = closed
             /\ volume' = [state |-> "open", opening |-> volume.opening + 1,
                           with |-> IF call[t].op = "open" THEN "name" ELSE "file_object"]
    <3>1. call'[t].step = "returned" /\ call'[t].result = "ok"
      BY <1>6, <2>3 DEF Results
    <3>2. OpeningsKept'
      <4>1. \A opening : Uses(opening)' => Uses(opening)
        BY <1>1, <1>4, <1>3, <3>1, CallIs DEF Uses, PythonInv, Lookups, NoCall
      <4> QED BY <2>3, <4>1, UsesIs DEF PythonInv, OpeningsKept
    <3>3. /\ volume'.state = "open"
          /\ volume'.with = IF call[t].op = "open" THEN "name" ELSE "file_object"
      BY <2>3
    <3>4. HandleSteps' /\ HandleOwned'
      BY <1>1, <1>5, <2>1, <2>3, <3>1, <3>3
         DEF PythonInv, HandleSteps, HandleOwned, HandleFreed, Returned
    <3> QED BY <3>2, <3>4
  <2> QED BY <1>7, <2>2, <2>3 DEF LibraryOpen
<1>8. CASE LibraryClose(t)
  <2>1. t = Owner /\ call[t].op = "close" /\ call[t].step = "begun"
    BY <1>8 DEF LibraryClose, CallBegun, PythonInv, OwnersCalls
  <2>2. CASE volume.state # "open" /\ volume' = volume /\ LibraryReturns(t, "error", {}) /\ closed' = closed
    <3>1. call'[t].step = "returned" /\ call'[t].result = "error"
      BY <1>6, <2>2 DEF Results
    <3>2. OpeningsKept'
      <4>1. \A opening : Uses(opening)' => Uses(opening)
        BY <1>1, <1>4, <1>3, <3>1, CallIs DEF Uses, PythonInv, Lookups, NoCall
      <4> QED BY <2>2, <4>1, UsesIs DEF PythonInv, OpeningsKept
    <3>3. HandleSteps' /\ HandleOwned'
      BY <1>1, <1>5, <2>1, <2>2, <3>1
         DEF PythonInv, HandleSteps, HandleOwned, HandleFreed, Returned
    <3> QED BY <3>2, <3>3
  <2>3. CASE /\ volume.state = "open" /\ volume' = [volume EXCEPT !.state = "closed", !.with = "none"]
             /\ closed' = closed \cup {volume.opening} /\ LibraryReturns(t, "ok", {})
    <3>1. call'[t].step = "returned" /\ call'[t].result = "ok"
      BY <1>6, <2>3 DEF Results
    <3>2. /\ volume'.state = "closed" /\ volume'.with = "none"
      BY <2>3 DEF PythonInv, PythonTypeOK
    <3>3. OpeningsKept'
      <4>1. \A opening : Uses(opening)' => Uses(opening)
        BY <1>1, <1>4, <1>3, <3>1, CallIs DEF Uses, PythonInv, Lookups, NoCall
      <4> QED BY <2>3, <4>1, UsesIs DEF PythonInv, OpeningsKept
    <3>4. HandleSteps' /\ HandleOwned'
      BY <1>1, <1>5, <2>1, <3>1, <3>2
         DEF PythonInv, HandleSteps, HandleOwned, HandleFreed, Returned
    <3> QED BY <3>3, <3>4
  <2> QED BY <1>8, <2>2, <2>3 DEF LibraryClose
<1>9. CASE /\ LibraryLookup(t) \/ LibraryNumberOfSubFileEntries(t) \/ Seek(t) \/ LibraryRead(t)
  <2>1. /\ volume' = volume /\ closed' = closed
        /\ call[t].op \notin {"open", "open_file_object", "close"}
    BY <1>9 DEF LibraryLookup, LibraryNumberOfSubFileEntries, Seek, LibraryRead, CallBegun, Lookups
  <2>2. HandleSteps' /\ HandleOwned'
    <3>1. CASE t = Owner
      BY <1>1, <1>5, <2>1, <3>1
         DEF PythonInv, HandleSteps, HandleOwned, HandleFreed, Returned
    <3>2. CASE t # Owner /\ call[Owner] = NoCall
      <4>1. call'[Owner] = NoCall
        BY <1>1, <1>5, <3>2 DEF CallsStay
      <4> QED BY <1>1, <2>1, <3>2, <4>1
              DEF PythonInv, HandleSteps, HandleOwned, HandleFreed, Returned
    <3>3. CASE t # Owner /\ call[Owner] # NoCall
      <4>1. /\ call'[Owner].op = call[Owner].op /\ call'[Owner].step = call[Owner].step
            /\ call'[Owner].result = call[Owner].result
        BY <1>4, <1>5, <3>3
      <4> QED BY <1>1, <2>1, <4>1
              DEF PythonInv, HandleSteps, HandleOwned, HandleFreed, Returned
    <3> QED BY <3>1, <3>2, <3>3
  <2>3. ASSUME NEW opening, Uses(opening)'
        PROVE  Uses(opening) \/ (volume.state = "open" /\ opening = volume.opening)
    <3>1. CASE \E o \in Objects : object'[o].type = "entry" /\ object'[o].opening = opening
      BY <1>1, <3>1 DEF Uses
    <3>2. CASE \E u \in Threads \ {t} :
                  /\ call'[u].op \in Lookups /\ call'[u].step = "returned"
                  /\ call'[u].result = "found" /\ call'[u].opening = opening
      BY <1>1, <1>3, <1>4, <3>2, CallIs DEF Uses, PythonInv, Lookups
    <3>3. CASE /\ call'[t].op \in Lookups /\ call'[t].step = "returned"
               /\ call'[t].result = "found" /\ call'[t].opening = opening
      <4>1. LibraryLookup(t)
        BY <1>5, <1>9, <3>3
           DEF LibraryNumberOfSubFileEntries, Seek, LibraryRead, CallBegun, Lookups
      <4>2. ~ LibraryReturns(t, "error", {})
        BY <1>6, <3>3 DEF Results
      <4>3. Usable(t) /\ LibraryReturns(t, "found", Readers)
        BY <4>1, <4>2 DEF LibraryLookup
      <4> QED BY <1>6, <3>3, <4>3 DEF Usable, Results
    <3> QED BY <2>3, <3>1, <3>2, <3>3 DEF Uses
  <2>4. OpeningsKept'
    BY <2>1, <2>3, UsesIs DEF PythonInv, OpeningsKept
  <2> QED BY <2>2, <2>4
<1> QED BY <1>7, <1>8, <1>9 DEF Library

LEMMA LibraryKeeps ==
  ASSUME PythonInv, NEW t \in Threads, Library(t)
  PROVE  PythonInv'
BY LibraryKeepsObjects, LibraryAnswers, LibraryHandles DEF PythonInv

-----------------------------------------------------------------------------
(* A call ends.                                                            *)
LEMMA NumbersOf ==
  ASSUME PythonInv, NEW p \in Objects
  PROVE  /\ references[p] \in Int
         /\ references[p] = Cardinality(NamesOf(p)) + Cardinality(CallsOn(p))
                              + Cardinality(ChildrenOf(p))
         /\ Cardinality(NamesOf(p)) \in Nat /\ Cardinality(CallsOn(p)) \in Nat
         /\ Cardinality(ChildrenOf(p)) \in Nat
<1>1. IsFiniteSet(Callers) /\ references[p] = Referring(p)
  BY DEF PythonInv, Counted
<1>2. references[p] \in Int
  BY DEF PythonInv, PythonTypeOK
<1> QED BY <1>1, <1>2, ReferringIs, NamesCount, CallsFinite, ChildrenFinite

LEMMA EndCounted ==
  ASSUME PythonInv, NEW t \in Threads, End(t)
  PROVE  Counted'
<1>1. /\ call[t] # NoCall /\ call' = [call EXCEPT ![t] = NoCall]
  BY EndCalls DEF PythonInv
<1>2. PICK o \in Objects : o = call[t].on /\ object[o].type # "none"
  BY <1>1, CallOn DEF PythonInv
<1>3. PythonTypeOK /\ Present /\ IsFiniteSet(Callers)
  BY DEF PythonInv, Counted
<1>4. /\ IsFiniteSet(Callers')
      /\ Cardinality(CallsOn(o)') = Cardinality(CallsOn(o)) - 1
      /\ \A p : p # o => CallsOn(p)' = CallsOn(p)
  BY <1>1, <1>2, <1>3, CallRemoved
<1>5. \A p \in Objects : Cardinality(CallsOn(p)') = Cardinality(CallsOn(p)) - IF p = o THEN 1 ELSE 0
  BY <1>4, NumbersOf
<1>6. VolumeObject \in Objects
  BY PythonAssumption DEF VolumeObject, Objects
<1>7. references \in [Objects -> Int]
  BY DEF PythonInv, PythonTypeOK
<1>8. CASE Plain(t)
  <2>1. ASSUME NEW p \in Objects PROVE references'[p] = Referring(p)'
    <3>1. ChildrenOf(p)' = ChildrenOf(p) /\ NamesOf(p)' = NamesOf(p)
      BY <1>8, ChildrenSame DEF Plain, NamesOf
    <3>2. references'[p] = references[p] - IF p = o THEN 1 ELSE 0
      BY <1>2, <1>7, <1>8, CountsType DEF Plain
    <3>3. Referring(p)' = Cardinality(NamesOf(p)) + Cardinality(CallsOn(p)')
                            + Cardinality(ChildrenOf(p))
      BY <3>1, ReferringIs
    <3>4. Cardinality(CallsOn(p)') = Cardinality(CallsOn(p)) - IF p = o THEN 1 ELSE 0
      BY <1>5
    <3> QED BY <3>2, <3>3, <3>4, NumbersOf
  <2> QED BY <1>4, <2>1 DEF Counted
<1>9. ASSUME NEW n \in Objects \ {VolumeObject}, Gives(n), NEW q \in Objects, q = object'[n].parent,
             object'[n] # NoObject,
             \A p \in Objects : references'[p] = references[p] + (IF p = n THEN 1 ELSE 0)
                                   + (IF p = q THEN 1 ELSE 0) - (IF p = o THEN 1 ELSE 0)
      PROVE  Counted'
  <2>1. \A p \in Objects : Cardinality(ChildrenOf(p)') = Cardinality(ChildrenOf(p))
                             + IF p = q THEN 1 ELSE 0
    <3>1. /\ Cardinality(ChildrenOf(q)') = Cardinality(ChildrenOf(q)) + 1
          /\ \A p : p # q => ChildrenOf(p)' = ChildrenOf(p)
      BY <1>9, ChildAdded DEF Gives
    <3> QED BY <3>1, NumbersOf
  <2>2. \A p \in Objects : Cardinality(NamesOf(p)') = Cardinality(NamesOf(p))
                             + IF p = n THEN 1 ELSE 0
    <3>1. n \notin names /\ names' = names \cup {n}
      BY <1>9 DEF PythonInv, Present, Gives
    <3> QED BY <3>1, NamesCount
  <2>3. ASSUME NEW p \in Objects PROVE references'[p] = Referring(p)'
    BY <1>5, <1>9, <2>1, <2>2, NumbersOf, ReferringIs
  <2> QED BY <1>4, <2>3 DEF Counted
<1>10. ASSUME NEW n \in Objects \ {VolumeObject}, GivesEntry(t, n) PROVE Counted'
  <2>1. references' = Decreased(Increased(Increased(references, n), VolumeObject), o)
    BY <1>2, <1>10 DEF GivesEntry
  <2>2. \A p \in Objects : references'[p] = references[p] + (IF p = n THEN 1 ELSE 0)
                             + (IF p = VolumeObject THEN 1 ELSE 0) - (IF p = o THEN 1 ELSE 0)
    <3> DEFINE first == Increased(references, n)
               second == Increased(first, VolumeObject)
    <3>1. /\ first \in [Objects -> Int]
          /\ \A p \in Objects : first[p] = references[p] + IF p = n THEN 1 ELSE 0
      BY <1>7, CountsType
    <3> HIDE DEF first
    <3>2. /\ second \in [Objects -> Int]
          /\ \A p \in Objects : second[p] = first[p] + IF p = VolumeObject THEN 1 ELSE 0
      BY <1>6, <3>1, CountsType
    <3>3. references' = Decreased(second, o)
      BY <2>1 DEF first
    <3> HIDE DEF second
    <3>4. \A p \in Objects : references'[p] = second[p] - IF p = o THEN 1 ELSE 0
      BY <1>2, <3>2, <3>3, CountsType
    <3> QED BY <1>7, <3>1, <3>2, <3>4
  <2>3. object'[n].parent = VolumeObject /\ object'[n] # NoObject
    BY <1>10 DEF GivesEntry, NoObject
  <2> QED BY <1>6, <1>9, <1>10, <2>2, <2>3 DEF GivesEntry
<1>11. ASSUME NEW n \in Objects \ {VolumeObject}, GivesSequence(t, n) PROVE Counted'
  <2>1. object'[n].parent = o /\ object'[n] # NoObject
    BY <1>2, <1>11 DEF GivesSequence, NoObject
  <2>2. \A p \in Objects : references'[p] = references[p] + (IF p = n THEN 1 ELSE 0)
    BY <1>7, <1>11, CountsType DEF GivesSequence
  <2>3. \A p \in Objects : references'[p] = references[p] + (IF p = n THEN 1 ELSE 0)
                             + (IF p = o THEN 1 ELSE 0) - (IF p = o THEN 1 ELSE 0)
    BY <1>7, <2>2
  <2> QED BY <1>9, <1>11, <2>1, <2>3 DEF GivesSequence
<1> QED BY <1>3, <1>8, <1>10, <1>11, EndSteps

LEMMA EndPresent ==
  ASSUME PythonInv, NEW t \in Threads, End(t)
  PROVE  PythonTypeOK' /\ Present' /\ OpeningsKept'
<1>1. /\ call[t] # NoCall /\ call[t].step = "returned"
      /\ call' = [call EXCEPT ![t] = NoCall]
      /\ UNCHANGED <<volume, closed>>
      /\ ~ EndOpenOrClose(t) => UNCHANGED <<file_io_handle, file_object_references>>
  BY EndCalls DEF PythonInv
<1>2. /\ call' \in [Threads -> {NoCall} \cup CallRecord]
      /\ call'[t] = NoCall
      /\ \A u \in Threads \ {t} : call'[u] = call[u]
  BY <1>1, EndType DEF PythonInv
<1>3. PICK o \in Objects : o = call[t].on /\ object[o].type # "none"
  BY <1>1, CallOn DEF PythonInv
<1>4. PythonTypeOK /\ Present
  BY DEF PythonInv
<1>5. VolumeObject \in Objects /\ names \subseteq Objects
  BY <1>4, PythonAssumption DEF VolumeObject, Objects, PythonTypeOK
<1>6. \A u \in Threads : call'[u] # NoCall =>
        call'[u].on \in Objects /\ call'[u].op \in OpsOn(object[call'[u].on].type)
  BY <1>2, <1>4, CallOn DEF Present
<1>7. \A p \in Objects : object[p].type = "sequence" => object[p].parent \in Objects
  BY <1>4, TypeIs DEF SequenceRecord
<1>8. \A p \in Objects \ {VolumeObject} : Stays(p) => (object'[p].type = "entry" => object'[p] = object[p])
  BY StaysIs DEF Stays, SequenceRecord
<1>9. file_io_handle' \in BOOLEAN /\ file_object_references' \in Int
  <2>1. CASE EndOpenOrClose(t)
    <3>1. file_io_handle' \in BOOLEAN
      BY <2>1, Zenon DEF EndOpenOrClose
    <3>2. file_object_references' = file_object_references - IF HandleFreed(t) THEN 1 ELSE 0
      BY <2>1 DEF EndOpenOrClose
    <3> QED BY <1>4, <3>1, <3>2 DEF PythonTypeOK
  <2>2. CASE ~ EndOpenOrClose(t)
    BY <1>1, <1>4, <2>2 DEF PythonTypeOK
  <2> QED BY <2>1, <2>2
<1>10. volume' \in [state : {"freed", "closed", "open"}, with : {"none", "name", "file_object"},
                    opening : Nat]
  BY <1>1, <1>4 DEF PythonTypeOK
<1>11. references \in [Objects -> Int]
  BY <1>4 DEF PythonTypeOK
<1>12. CASE Plain(t)
  <2>1. \A p \in Objects : /\ object'[p].type = object[p].type
                           /\ object'[p].parent = object[p].parent
                           /\ object'[p] = NoObject <=> object[p] = NoObject
    BY <1>12, StaysIs DEF Plain
  <2>2. PythonTypeOK'
    BY <1>2, <1>3, <1>5, <1>9, <1>10, <1>11, <1>12, CountsType DEF Plain, PythonTypeOK
  <2>3. Present'
    <3>1. \A u \in Threads : call'[u] # NoCall => call'[u].op \in OpsOn(object'[call'[u].on].type)
      BY <1>6, <2>1
    <3>2. names' = names
      BY <1>12 DEF Plain
    <3> QED BY <1>1, <1>4, <1>5, <1>7, <2>1, <3>1, <3>2 DEF Present
  <2>4. OpeningsKept'
    <3>1. \A p \in Objects : object'[p].type = "entry" => object'[p] = object[p]
      BY <1>12, <2>1 DEF Plain, Stays, SequenceRecord
    <3>2. \A opening : Uses(opening)' => Uses(opening)
      BY <1>2, <3>1 DEF Uses, NoCall
    <3> QED BY <1>1, <3>2, UsesIs DEF PythonInv, OpeningsKept
  <2> QED BY <2>2, <2>3, <2>4
<1>13. ASSUME NEW n \in Objects \ {VolumeObject}, GivesEntry(t, n) \/ GivesSequence(t, n)
       PROVE  PythonTypeOK' /\ Present' /\ OpeningsKept'
  <2>1. Gives(n)
    BY <1>13 DEF GivesEntry, GivesSequence
  <2>2. \A p \in Objects \ {n} : /\ object'[p].type = object[p].type
                                 /\ object'[p].parent = object[p].parent
                                 /\ object'[p] = NoObject <=> object[p] = NoObject
    BY <2>1, StaysIs DEF Gives
  <2>3. /\ object[n] = NoObject /\ object[n].type = "none" /\ object' \in [Objects -> ObjectRecord]
        /\ names' = names \cup {n}
    BY <2>1 DEF Gives, NoObject
  <2>4. references' \in [Objects -> Int]
    <3>1. CASE GivesEntry(t, n)
      <4>1. /\ references' = Decreased(Increased(Increased(references, n), VolumeObject), o)
        BY <1>3, <3>1 DEF GivesEntry
      <4>2. Increased(references, n) \in [Objects -> Int]
        BY <1>11, CountsType
      <4>3. Increased(Increased(references, n), VolumeObject) \in [Objects -> Int]
        BY <1>5, <4>2, CountsType
      <4> QED BY <1>3, <4>1, <4>3, CountsType
    <3>2. CASE GivesSequence(t, n)
      BY <1>11, <3>2, CountsType DEF GivesSequence
    <3> QED BY <1>13, <3>1, <3>2
  <2>5. PythonTypeOK'
    BY <1>2, <1>5, <1>9, <1>10, <2>3, <2>4 DEF PythonTypeOK
  <2>6. /\ object'[n].type \in {"entry", "sequence"}
        /\ object'[n].type = "entry" => object[VolumeObject].type = "volume"
        /\ object'[n].type = "sequence" => object'[n].parent = o /\ object[o].type = "entry"
    <3>1. object[o].type = "entry" \/ object[o].type = "volume" \/ object[o].type = "sequence"
      BY <1>3, <1>4, TypeIs
    <3>2. object[VolumeObject].type = "volume"
      BY <1>3, <1>4, <1>7, <3>1 DEF Present
    <3> QED BY <1>3, <1>13, <3>2 DEF GivesEntry, GivesSequence
  <2>7. Present'
    <3>1. \A u \in Threads : call'[u] # NoCall => call'[u].op \in OpsOn(object'[call'[u].on].type)
      <4>1. OpsOn("none") = {}
        BY DEF OpsOn
      <4> QED BY <1>6, <2>2, <2>3, <4>1
    <3>2. \A p \in Objects : object[p].type = "sequence" =>
            object[p].parent # n /\ object'[object[p].parent].type = "entry"
      BY <1>4, <1>7, <2>2, <2>3 DEF Present
    <3>3. \A p \in Objects \ {n} : object'[p].type = "sequence" =>
            object'[object'[p].parent].type = "entry"
      BY <2>2, <3>2
    <3>4. object'[n].type = "sequence" => object'[object'[n].parent].type = "entry"
      BY <1>3, <2>2, <2>3, <2>6
    <3>5. VolumeObject \in Objects \ {n}
      BY <1>5
    <3>6. \A p \in Objects : object'[p].type = "sequence" =>
            object'[object'[p].parent].type = "entry"
      BY <3>3, <3>4
    <3>7. /\ \A p \in Objects : object'[p].type = "volume" => p = VolumeObject
          /\ object'[VolumeObject].type \in {"none", "volume"}
          /\ volume'.state = "freed" <=> object'[VolumeObject] = NoObject
      BY <1>1, <1>4, <2>2, <2>6, <3>5 DEF Present
    <3>8. \A p \in Objects : object'[p].type = "entry" => object'[VolumeObject].type = "volume"
      BY <1>4, <2>2, <2>6, <3>5 DEF Present
    <3>9. \A p \in names' : object'[p] # NoObject
      <4>1. object'[n] # NoObject
        BY <2>6 DEF NoObject
      <4> QED BY <1>4, <1>5, <2>2, <2>3, <4>1 DEF Present
    <3> QED BY <3>1, <3>6, <3>7, <3>8, <3>9 DEF Present
  <2>8. OpeningsKept'
    <3>1. \A p \in Objects \ {n} : object'[p].type = "entry" => object'[p] = object[p]
      BY <2>1, <2>2 DEF Gives, Stays, SequenceRecord
    <3>2. object'[n].type = "entry" =>
            /\ call[t].op \in Lookups /\ call[t].result = "found"
            /\ object'[n].opening = call[t].opening
      BY <1>13 DEF GivesEntry, GivesSequence
    <3>3. \A opening : Uses(opening)' => Uses(opening)
      BY <1>1, <1>2, <3>1, <3>2 DEF Uses, NoCall
    <3> QED BY <1>1, <3>3, UsesIs DEF PythonInv, OpeningsKept
  <2> QED BY <2>5, <2>7, <2>8
<1> QED BY <1>4, <1>12, <1>13, EndSteps

LEMMA EndAnswers ==
  ASSUME PythonInv, NEW t \in Threads, End(t)
  PROVE  OwnersCalls' /\ HandleSteps' /\ HandleOwned' /\ Answers'
<1>1. /\ call[t] # NoCall /\ call[t].step = "returned"
      /\ call' = [call EXCEPT ![t] = NoCall]
      /\ UNCHANGED <<volume, closed, position>>
      /\ ~ EndOpenOrClose(t) => UNCHANGED <<file_io_handle, file_object_references>>
  BY EndCalls DEF PythonInv
<1>2. /\ call'[t] = NoCall
      /\ \A u \in Threads \ {t} : call'[u] = call[u]
      /\ NoCall.op = "none" /\ NoCall.step = "none"
  BY <1>1, EndType DEF PythonInv, NoCall
<1>3. OwnersCalls' /\ Answers'
  BY <1>1, <1>2 DEF PythonInv, OwnersCalls, Answers
<1>4. HandleSteps'
  <2>1. call'[Owner].op # "none" => call'[Owner] = call[Owner]
    BY <1>2, PythonAssumption
  <2> QED BY <1>1, <2>1 DEF PythonInv, HandleSteps, Returned
<1>5. HandleOwned'
  <2>1. CASE EndOpenOrClose(t)
    <3>1. /\ call[t].op \in {"open", "open_file_object", "close"}
          /\ file_io_handle' = (file_io_handle /\ ~ HandleFreed(t))
          /\ file_object_references' = file_object_references - IF HandleFreed(t) THEN 1 ELSE 0
      BY <2>1 DEF EndOpenOrClose, Returned
    <3>2. t = Owner
      BY <3>1 DEF PythonInv, OwnersCalls
    <3>3. CASE HandleFreed(t)
      <4>1. file_io_handle /\ volume.with # "file_object"
        BY <1>1, <3>2, <3>3 DEF PythonInv, HandleOwned, HandleSteps, HandleFreed, Returned
      <4>2. ~ file_io_handle' /\ file_object_references' = 0
        <5>1. ~ file_io_handle'
          BY <3>1, <3>3, Zenon
        <5>2. file_object_references = 1
          BY <4>1 DEF PythonInv, HandleOwned
        <5> QED BY <3>1, <3>3, <5>1, <5>2
      <4> QED BY <1>1, <1>2, <3>2, <4>1, <4>2 DEF HandleOwned, Returned
    <3>4. CASE ~ HandleFreed(t)
      <4>1. /\ file_io_handle' = file_io_handle
            /\ file_object_references' = file_object_references
        BY <3>1, <3>4 DEF PythonInv, PythonTypeOK
      <4>2. file_io_handle <=> volume.with = "file_object"
        BY <1>1, <3>2, <3>4 DEF PythonInv, HandleOwned, HandleSteps, HandleFreed, Returned
      <4> QED BY <1>1, <1>2, <3>2, <4>1, <4>2 DEF PythonInv, HandleOwned, Returned
    <3> QED BY <3>3, <3>4
  <2>2. CASE ~ EndOpenOrClose(t)
    <3>1. call[t].op \notin {"open", "open_file_object", "close"}
      BY <1>1, <2>2 DEF End, EndLookup, EndSubFileEntries, EndRead, Returned, Lookups
    <3>2. CASE t = Owner
      BY <1>1, <1>2, <2>2, <3>1, <3>2 DEF PythonInv, HandleOwned, HandleFreed, Returned
    <3>3. CASE t # Owner
      BY <1>1, <1>2, <2>2, <3>3, PythonAssumption DEF PythonInv, HandleOwned, HandleFreed, Returned
    <3> QED BY <3>2, <3>3
  <2> QED BY <2>1, <2>2
<1> QED BY <1>3, <1>4, <1>5

(* One more item, in order.                                                *)
LEMMA InOrderMoved ==
  ASSUME NEW s \in SequenceRecord, InOrder(s), NEW r,
         r.current_index = s.current_index + 1,
         r.given = Append(s.given, s.current_index)
  PROVE  InOrder(r)
<1>1. /\ s.given \in Seq(Nat) /\ Len(s.given) \in Nat
      /\ s.current_index = Len(s.given)
      /\ s.given = [i \in 1 .. Len(s.given) |-> i - 1]
  BY DEF SequenceRecord, InOrder
<1> DEFINE n == Len(s.given)
<1>2. Append(s.given, n) = [i \in 1 .. n + 1 |-> IF i = n + 1 THEN n ELSE s.given[i]]
  BY <1>1
<1>3. Len(r.given) = n + 1
  BY <1>1
<1>4. \A i \in 1 .. n : s.given[i] = i - 1
  BY <1>1
<1>5. \A i \in 1 .. n + 1 : (IF i = n + 1 THEN n ELSE s.given[i]) = i - 1
  BY <1>1, <1>4
<1>6. r.given = [i \in 1 .. n + 1 |-> i - 1]
  BY <1>1, <1>2, <1>5
<1> QED BY <1>1, <1>3, <1>6 DEF InOrder

(* The call for the next item of a sequence that nobody else asks is the   *)
(* only one, and so is the index that it began with.                       *)
LEMMA EndItems ==
  ASSUME PythonInv, NEW t \in Threads, End(t), NEW p \in Objects,
         object'[p].type = "sequence", ~ object'[p].shared
  PROVE  /\ InOrder(object'[p])
         /\ \/ object'[p] = object[p]
            \/ call[t].op = "next" /\ call[t].on = p
            \/ object[p].type = "none"
<1>1. PythonTypeOK /\ Present /\ call[t] # NoCall
  BY EndCalls DEF PythonInv
<1>2. CASE object'[p] = object[p]
  BY <1>2, UndisturbedIs DEF PythonInv
<1>3. CASE object'[p] # object[p] /\ object[p].type = "none"
  <2>1. object[p] = NoObject
    BY <1>1, <1>3, ObjectIs
  <2>2. ~ Stays(p)
    BY <1>3, <2>1, StaysIs DEF NoObject
  <2>3. PICK n \in Objects \ {VolumeObject} : GivesEntry(t, n) \/ GivesSequence(t, n)
    BY <1>1, <2>2, EndSteps DEF Plain
  <2>4. n = p
    BY <2>2, <2>3 DEF GivesEntry, GivesSequence, Gives
  <2>5. GivesSequence(t, p)
    BY <2>3, <2>4 DEF GivesEntry
  <2>6. /\ object'[p].given = <<>> /\ object'[p].current_index = 0
    BY <2>5 DEF GivesSequence
  <2>7. InOrder(object'[p])
    BY <2>6 DEF InOrder
  <2> QED BY <1>3, <2>7
<1>4. CASE object'[p] # object[p] /\ object[p].type # "none"
  <2>1. EndLookup(t) /\ call[t].op = "next"
    <3>1. EndLookup(t) \/ EndSubFileEntries(t)
      BY <1>4 DEF End, EndOpenOrClose, EndRead
    <3>2. object[p] # NoObject
      BY <1>1, <1>4, ObjectIs
    <3>3. New \in Free => p # New
      BY <3>2 DEF Free
    <3>4. object' # object
      BY <1>4
    <3>5. ~ EndSubFileEntries(t)
      BY <1>1, <1>4, <3>3, NewIsFree DEF EndSubFileEntries, PythonTypeOK
    <3>6. call[t].op # "next" => ~ EndLookup(t)
      BY <1>1, <1>4, <3>3, NewIsFree DEF EndLookup, Given, PythonTypeOK
    <3> QED BY <3>1, <3>5, <3>6
  <2>2. Returned(t, "next")
    BY <2>1 DEF EndLookup, Returned
  <2> DEFINE q == call[t].on
  <2>3. /\ AfterNext(t) \in [Objects -> ObjectRecord]
        /\ \A r \in Objects \ {q} : AfterNext(t)[r] = object[r]
        /\ q \in Objects
        /\ object[q].type = "sequence"
        /\ AfterNext(t)[q].shared = object[q].shared
        /\ AfterNext(t)[q].current_index = object[q].current_index + IF Given(t) THEN 1 ELSE 0
        /\ AfterNext(t)[q].given = IF Given(t) /\ ~ object[q].shared
                                   THEN Append(object[q].given, call[t].index)
                                   ELSE object[q].given
    BY <1>1, <2>2, AfterNextIs
  <2>4. object[p] # NoObject
    BY <1>1, <1>4, ObjectIs
  <2>5. object'[p] = AfterNext(t)[p]
    <3>1. CASE Given(t)
      <4>1. New \in Free
        BY <3>1, NewIsFree DEF Given
      <4>2. p # New
        BY <2>4, <4>1 DEF Free
      <4>3. \E entry : object' = [AfterNext(t) EXCEPT ![New] = entry]
        BY <2>1, <3>1 DEF EndLookup
      <4> QED BY <2>3, <4>2, <4>3
    <3>2. CASE ~ Given(t)
      BY <2>1, <3>2 DEF EndLookup
    <3> QED BY <3>1, <3>2
  <2>6. p = q
    BY <1>4, <2>3, <2>5
  <2>7. ~ object[p].shared
    BY <2>3, <2>5, <2>6
  <2>8. call[t].index = object[p].current_index
    BY <2>2, <2>3, <2>6, <2>7 DEF PythonInv, NextAlone, Sequences, Returned
  <2>9. object[p] \in SequenceRecord /\ InOrder(object[p])
    BY <1>1, <2>3, <2>6, <2>7, TypeIs, UndisturbedIs DEF PythonInv
  <2>10. CASE Given(t)
    <3>1. /\ object'[p].current_index = object[p].current_index + 1
          /\ object'[p].given = Append(object[p].given, object[p].current_index)
      BY <2>3, <2>5, <2>6, <2>7, <2>8, <2>10
    <3>2. InOrder(object'[p])
      BY <2>9, <3>1, InOrderMoved
    <3> QED BY <2>2, <2>6, <3>2 DEF Returned
  <2>11. CASE ~ Given(t)
    <3>1. /\ object'[p].current_index = object[p].current_index
          /\ object'[p].given = object[p].given
      BY <2>3, <2>5, <2>6, <2>9, <2>11 DEF SequenceRecord
    <3>2. InOrder(object'[p])
      BY <2>9, <3>1 DEF InOrder
    <3> QED BY <2>2, <2>6, <3>2 DEF Returned
  <2> QED BY <2>10, <2>11
<1> QED BY <1>2, <1>3, <1>4

LEMMA EndKeeps ==
  ASSUME PythonInv, NEW t \in Threads, End(t)
  PROVE  PythonInv'
<1>1. /\ call[t] # NoCall /\ call' = [call EXCEPT ![t] = NoCall]
  BY EndCalls DEF PythonInv
<1>2. /\ call'[t] = NoCall
      /\ \A u \in Threads \ {t} : call'[u] = call[u]
      /\ NoCall.op = "none" /\ NoCall.step = "none"
  BY <1>1, EndType DEF PythonInv, NoCall
<1>3. NextAlone'
  <2> SUFFICES ASSUME NEW u \in Threads, NEW p \in Objects, object'[p].type = "sequence",
                      call'[u].op = "next", call'[u].on = p, ~ object'[p].shared
               PROVE  /\ call'[u].index = object'[p].current_index
                      /\ \A v \in Threads : call'[v].op = "next" /\ call'[v].on = p => v = u
    BY DEF NextAlone, Sequences
  <2>1. u # t /\ call[u] = call'[u] /\ call[u] # NoCall
    BY <1>2
  <2>2. object[p].type = "sequence"
    BY <2>1, CallOn DEF PythonInv
  <2>3. CASE object'[p] = object[p]
    BY <1>2, <2>1, <2>2, <2>3 DEF PythonInv, NextAlone, Sequences
  <2>4. CASE object'[p] # object[p]
    <3>1. call[t].op = "next" /\ call[t].on = p
      BY <2>2, <2>4, EndItems
    <3>2. ~ object[p].shared
      <4>1. EndLookup(t)
        BY <3>1 DEF End, EndOpenOrClose, EndLookup, EndSubFileEntries, EndRead, Returned
      <4>2. Returned(t, "next")
        BY <3>1, <4>1 DEF EndLookup, Returned
      <4>3. PythonTypeOK /\ Present
        BY DEF PythonInv
      <4>4. AfterNext(t)[p].shared = object[p].shared /\ AfterNext(t) \in [Objects -> ObjectRecord]
        BY <3>1, <4>2, <4>3, AfterNextIs
      <4>5. object'[p] = AfterNext(t)[p]
        <5>1. CASE Given(t)
          <6>1. New \in Free
            BY <5>1, NewIsFree DEF Given
          <6>2. p # New
            BY <2>2, <6>1 DEF Free, NoObject
          <6>3. \E entry : object' = [AfterNext(t) EXCEPT ![New] = entry]
            BY <3>1, <4>1, <5>1 DEF EndLookup
          <6> QED BY <4>4, <6>2, <6>3
        <5>2. CASE ~ Given(t)
          BY <3>1, <4>1, <5>2 DEF EndLookup
        <5> QED BY <5>1, <5>2
      <4> QED BY <4>4, <4>5
    <3>3. t = u
      BY <2>1, <2>2, <3>1, <3>2 DEF PythonInv, NextAlone, Sequences
    <3> QED BY <2>1, <3>3
  <2> QED BY <2>3, <2>4
<1>4. UndisturbedAnswers'
  BY <1>2, EndItems, UndisturbedIs DEF PythonInv, Returned
<1> QED BY <1>3, <1>4, EndCounted, EndPresent, EndAnswers DEF PythonInv

-----------------------------------------------------------------------------
(* Objects go.                                                             *)
LEMMA DropKeeps ==
  ASSUME PythonInv, NEW o \in Objects, Drop(o)
  PROVE  PythonInv'
<1>1. /\ o \in names /\ names' = names \ {o} /\ references' = Decreased(references, o)
      /\ UNCHANGED <<object, volume, file_io_handle, file_object_references, position,
                     closed, call>>
  BY DEF Drop
<1>2. references' \in [Objects -> Int]
  BY <1>1, CountsType DEF PythonInv, PythonTypeOK
<1>3. PythonTypeOK' /\ Present' /\ OwnersCalls' /\ OpeningsKept'
  <2>1. PythonTypeOK'
    BY <1>1, <1>2 DEF PythonInv, PythonTypeOK
  <2>2. \A opening : Uses(opening)' => Uses(opening)
    BY <1>1 DEF Uses
  <2> QED BY <1>1, <2>1, <2>2, UsesIs DEF PythonInv, Present, OwnersCalls, OpeningsKept
<1>4. Counted'
  <2>1. /\ Callers' = Callers
        /\ \A p : CallsOn(p)' = CallsOn(p) /\ ChildrenOf(p)' = ChildrenOf(p)
    BY <1>1 DEF Callers, CallsOn, ChildrenOf
  <2>2. ASSUME NEW p \in Objects PROVE references'[p] = Referring(p)'
    <3>1. Cardinality(NamesOf(p)') = Cardinality(NamesOf(p)) - IF p = o THEN 1 ELSE 0
      BY <1>1, NamesCount
    <3>2. references'[p] = references[p] - IF p = o THEN 1 ELSE 0
      BY <1>1, CountsType DEF PythonInv, PythonTypeOK
    <3>3. Referring(p)' = Cardinality(NamesOf(p)') + Cardinality(CallsOn(p))
                            + Cardinality(ChildrenOf(p))
      BY <2>1, ReferringIs
    <3> QED BY <3>1, <3>2, <3>3, NumbersOf
  <2> QED BY <2>1, <2>2 DEF PythonInv, Counted
<1>5. HandleSteps' /\ HandleOwned' /\ Answers'
  BY <1>1 DEF PythonInv, HandleSteps, HandleOwned, Answers, Returned, HandleFreed
<1>6. NextAlone' /\ UndisturbedAnswers'
  BY <1>1, UndisturbedStays DEF PythonInv
<1> QED BY <1>3, <1>4, <1>5, <1>6 DEF PythonInv

LEMMA DeallocateObjectKeeps ==
  ASSUME PythonInv, NEW o \in Objects, DeallocateObject(o)
  PROVE  PythonInv'
<1>1. /\ object[o] # NoObject /\ references[o] = 0 /\ o # VolumeObject
      /\ references' = Decreased(references, object[o].parent)
      /\ object' = [object EXCEPT ![o] = NoObject]
      /\ UNCHANGED <<names, volume, file_io_handle, file_object_references, position,
                     closed, call>>
  BY DEF DeallocateObject, Unreferenced
<1>2. PythonTypeOK /\ Present
  BY DEF PythonInv
<1>3. o \notin names /\ CallsOn(o) = {} /\ ChildrenOf(o) = {}
  BY <1>1, NothingRefers DEF PythonInv
<1>4. VolumeObject \in Objects
  BY PythonAssumption DEF VolumeObject, Objects
<1>5. PICK q \in Objects : q = object[o].parent
  <2>1. object[o].type = "entry" \/ object[o].type = "sequence"
    BY <1>1, <1>2, ObjectIs, TypeIs DEF Present
  <2> QED BY <1>2, <1>4, <2>1, TypeIs DEF EntryRecord, SequenceRecord
<1>6. /\ object'[o] = NoObject /\ NoObject.type = "none" /\ object' \in [Objects -> ObjectRecord]
      /\ \A p \in Objects \ {o} : object'[p] = object[p]
  BY <1>1, <1>2 DEF PythonTypeOK, ObjectRecord, NoObject
<1>7. references' \in [Objects -> Int]
  BY <1>1, <1>5, CountsType DEF PythonInv, PythonTypeOK
<1>8. PythonTypeOK'
  BY <1>1, <1>2, <1>6, <1>7 DEF PythonTypeOK
<1>9. Present'
  <2>1. \A t \in Threads : call[t] # NoCall => call[t].on \in Objects \ {o}
    BY <1>2, <1>3, CallOn DEF CallsOn
  <2>2. \A p \in Objects \ {VolumeObject} : object[p] # NoObject => object[p].parent # o
    BY <1>3 DEF ChildrenOf
  <2>3. \A p \in Objects : object[p].type = "sequence" => object[p].parent \in Objects \ {o}
    <3>1. \A p \in Objects : object[p].type = "sequence" => p # VolumeObject /\ object[p] # NoObject
      BY <1>2, <1>6 DEF Present
    <3> QED BY <1>2, <2>2, <3>1, TypeIs DEF SequenceRecord
  <2>4. \A t \in Threads : call'[t] # NoCall => call'[t].op \in OpsOn(object'[call'[t].on].type)
    BY <1>1, <1>2, <1>6, <2>1 DEF Present
  <2>5. \A p \in Objects : object'[p].type = "sequence" => object'[object'[p].parent].type = "entry"
    BY <1>2, <1>6, <2>3 DEF Present
  <2>6. \A p \in names' : object'[p] # NoObject
    BY <1>1, <1>2, <1>3, <1>6 DEF Present, PythonTypeOK
  <2>7. VolumeObject \in Objects \ {o}
    BY <1>1, <1>4
  <2> QED BY <1>1, <1>2, <1>6, <2>4, <2>5, <2>6, <2>7 DEF Present
<1>10. OwnersCalls' /\ HandleSteps' /\ HandleOwned' /\ Answers'
  BY <1>1 DEF PythonInv, OwnersCalls, HandleSteps, HandleOwned, Answers, Returned, HandleFreed
<1>11. Counted'
  <2>1. /\ Callers' = Callers
        /\ \A p : CallsOn(p)' = CallsOn(p) /\ NamesOf(p)' = NamesOf(p)
    BY <1>1 DEF Callers, CallsOn, NamesOf
  <2>2. \A p \in Objects : Cardinality(ChildrenOf(p)') = Cardinality(ChildrenOf(p))
                             - IF p = q THEN 1 ELSE 0
    <3>1. /\ Cardinality(ChildrenOf(q)') = Cardinality(ChildrenOf(q)) - 1
          /\ \A p : p # q => ChildrenOf(p)' = ChildrenOf(p)
      BY <1>1, <1>5, <1>6, ChildRemoved
    <3> QED BY <3>1, NumbersOf
  <2>3. ASSUME NEW p \in Objects PROVE references'[p] = Referring(p)'
    <3>1. references'[p] = references[p] - IF p = q THEN 1 ELSE 0
      BY <1>1, <1>5, CountsType DEF PythonInv, PythonTypeOK
    <3>2. Referring(p)' = Cardinality(NamesOf(p)) + Cardinality(CallsOn(p))
                            + Cardinality(ChildrenOf(p)')
      BY <2>1, ReferringIs
    <3> QED BY <2>2, <3>1, <3>2, NumbersOf
  <2> QED BY <2>1, <2>3 DEF PythonInv, Counted
<1>12. OpeningsKept'
  <2>1. \A opening : Uses(opening)' => Uses(opening)
    BY <1>1, <1>6 DEF Uses
  <2> QED BY <1>1, <2>1, UsesIs DEF PythonInv, OpeningsKept
<1>13. NextAlone' /\ UndisturbedAnswers'
  <2>1. \A p \in Objects : object'[p].type = "sequence" => object'[p] = object[p]
    BY <1>6
  <2> QED BY <1>1, <2>1, UndisturbedStays DEF PythonInv
<1> QED BY <1>8, <1>9, <1>10, <1>11, <1>12, <1>13 DEF PythonInv

(* The volume object goes only after all others, and outside of calls.     *)
LEMMA DeallocateVolumeKeeps ==
  ASSUME PythonInv, DeallocateVolume
  PROVE  PythonInv'
<1>1. /\ object[VolumeObject] # NoObject /\ references[VolumeObject] = 0
      /\ volume' = [volume EXCEPT !.state = "freed", !.with = "none"]
      /\ object' = [object EXCEPT ![VolumeObject] = NoObject]
      /\ file_io_handle' = FALSE
      /\ file_object_references' = file_object_references - IF file_io_handle THEN 1 ELSE 0
      /\ UNCHANGED <<references, names, position, closed, call>>
  BY DEF DeallocateVolume, Unreferenced
<1>2. PythonTypeOK /\ Present
  BY DEF PythonInv
<1>3. VolumeObject \in Objects
  BY PythonAssumption DEF VolumeObject, Objects
<1>4. /\ VolumeObject \notin names /\ CallsOn(VolumeObject) = {}
      /\ ChildrenOf(VolumeObject) = {}
  BY <1>1, <1>3, NothingRefers DEF PythonInv
<1>5. \A o \in Objects \ {VolumeObject} : object[o] = NoObject
  <2>1. \A o \in Objects \ {VolumeObject} : object[o].type # "entry"
    <3> SUFFICES ASSUME NEW o \in Objects \ {VolumeObject}, object[o].type = "entry"
                 PROVE  FALSE
      OBVIOUS
    <3>1. object[o] # NoObject /\ object[o].parent = VolumeObject
      BY <1>2, ObjectIs, TypeIs DEF EntryRecord
    <3> QED BY <1>4, <3>1 DEF ChildrenOf
  <2>2. \A o \in Objects : object[o].type # "sequence"
    BY <1>2, <2>1, TypeIs DEF Present, SequenceRecord
  <2> QED BY <1>2, <2>1, <2>2, ObjectIs, TypeIs DEF Present
<1>6. \A t \in Threads : call[t] = NoCall
  <2> SUFFICES ASSUME NEW t \in Threads, call[t] # NoCall PROVE FALSE
    OBVIOUS
  <2>1. call[t].on \in Objects /\ object[call[t].on].type # "none"
    BY <1>2, CallOn
  <2>2. call[t].on = VolumeObject
    BY <1>2, <1>5, <2>1, ObjectIs
  <2> QED BY <1>4, <2>2 DEF CallsOn
<1>7. \A o \in Objects : object'[o] = NoObject
  BY <1>1, <1>2, <1>5 DEF PythonTypeOK
<1>8. /\ volume' \in [state : {"freed", "closed", "open"}, with : {"none", "name", "file_object"},
                      opening : Nat]
      /\ volume'.state = "freed" /\ volume'.with = "none"
  BY <1>1, <1>2 DEF PythonTypeOK
<1>9. PythonTypeOK'
  <2>1. object' \in [Objects -> ObjectRecord]
    BY <1>1, <1>2 DEF PythonTypeOK, ObjectRecord
  <2>2. file_object_references' \in Int
    BY <1>1, <1>2 DEF PythonTypeOK
  <2> QED BY <1>1, <1>2, <1>8, <2>1, <2>2 DEF PythonTypeOK
<1>10. \A o \in Objects : object'[o].type = "none"
  BY <1>7 DEF NoObject
<1>11. names = {}
  BY <1>2, <1>4, <1>5 DEF Present, PythonTypeOK
<1>12. Present'
  BY <1>1, <1>3, <1>6, <1>7, <1>8, <1>10, <1>11 DEF Present
<1>13. OwnersCalls' /\ Answers' /\ NextAlone'
  BY <1>1, <1>6 DEF PythonInv, OwnersCalls, Answers, NextAlone, NoCall
<1>14. Counted'
  <2>1. /\ Callers' = Callers
        /\ \A p : CallsOn(p)' = CallsOn(p) /\ NamesOf(p)' = NamesOf(p)
    BY <1>1 DEF Callers, CallsOn, NamesOf
  <2>2. \A p \in Objects : ChildrenOf(p)' = ChildrenOf(p)
    BY <1>5, <1>7 DEF ChildrenOf
  <2>3. \A p \in Objects : Referring(p)' = Referring(p)
    BY <2>1, <2>2, ReferringIs
  <2> QED BY <1>1, <2>1, <2>3 DEF PythonInv, Counted
<1>15. OpeningsKept'
  <2>1. \A opening : ~ Uses(opening)'
    BY <1>1, <1>6, <1>10 DEF Uses, NoCall
  <2> QED BY <2>1, UsesIs DEF OpeningsKept
<1>16. HandleSteps' /\ HandleOwned'
  <2>1. call'[Owner] = NoCall
    BY <1>1, <1>6, PythonAssumption
  <2>2. file_object_references' = 0
    BY <1>1 DEF PythonInv, HandleOwned
  <2> QED BY <1>1, <1>8, <2>1, <2>2 DEF HandleSteps, HandleOwned, Returned, NoCall
<1>17. UndisturbedAnswers'
  <2>1. \A t \in Threads : call'[t].op = "none"
    BY <1>1, <1>6 DEF NoCall
  <2> QED BY <1>10, <2>1, UndisturbedIs
<1> QED BY <1>9, <1>12, <1>13, <1>14, <1>15, <1>16, <1>17 DEF PythonInv

-----------------------------------------------------------------------------
LEMMA PythonInitCorrect == Init => PythonInv
<1> SUFFICES ASSUME Init PROVE PythonInv
  OBVIOUS
<1>1. PythonInit \/ PythonIdle
  BY DEF Init
<1>2. VolumeObject \in Objects /\ Owner \in Threads
  BY PythonAssumption DEF VolumeObject, Objects
<1>3. /\ call = [t \in Threads |-> NoCall]
      /\ volume.state \in {"closed", "freed"} /\ volume.with = "none"
      /\ file_io_handle = FALSE /\ file_object_references = 0
      /\ \A o \in Objects \ {VolumeObject} : object[o] = NoObject
      /\ NoObject.type = "none" /\ NoCall.op = "none" /\ NoCall.step = "none"
  BY <1>1 DEF PythonInit, PythonIdle, NoObject, NoCall
<1>4. PythonTypeOK
  <2>1. object \in [Objects -> ObjectRecord]
    BY <1>1 DEF PythonInit, PythonIdle, ObjectRecord
  <2>2. references \in [Objects -> Int] /\ names \subseteq Objects
    BY <1>1, <1>2 DEF PythonInit, PythonIdle
  <2>3. volume \in [state : {"freed", "closed", "open"}, with : {"none", "name", "file_object"},
                    opening : Nat]
    BY <1>1 DEF PythonInit, PythonIdle
  <2>4. call \in [Threads -> {NoCall} \cup CallRecord]
    BY <1>3
  <2>5. file_io_handle \in BOOLEAN
    BY <1>3, Zenon
  <2>6. file_object_references \in Int
    BY <1>3
  <2> QED BY <2>1, <2>2, <2>3, <2>4, <2>5, <2>6 DEF PythonTypeOK
<1>5. Present
  BY <1>1, <1>2, <1>3 DEF PythonInit, PythonIdle, Present
<1>6. OwnersCalls /\ Answers /\ NextAlone /\ HandleSteps /\ HandleOwned
  BY <1>2, <1>3 DEF OwnersCalls, Answers, NextAlone, HandleSteps, HandleOwned, Returned
<1>7. Counted
  <2>1. Callers = {} /\ \A o \in Objects : CallsOn(o) = {} /\ ChildrenOf(o) = {}
    BY <1>3 DEF Callers, CallsOn, ChildrenOf
  <2>2. \A o \in Objects : references[o] = IF o \in names THEN 1 ELSE 0
    BY <1>1, <1>2 DEF PythonInit, PythonIdle
  <2>3. ASSUME NEW o \in Objects PROVE references[o] = Referring(o)
    <3>1. Cardinality(CallsOn(o)) = 0 /\ Cardinality(ChildrenOf(o)) = 0
      BY <2>1, FS_EmptySet
    <3>2. Cardinality(NamesOf(o)) = IF o \in names THEN 1 ELSE 0
      BY NamesCount
    <3> QED BY <2>2, <3>1, <3>2, ReferringIs
  <2> QED BY <2>1, <2>3, FS_EmptySet DEF Counted
<1>8. OpeningsKept
  <2>1. \A o \in Objects : object[o].type # "entry"
    BY <1>1, <1>2, <1>3 DEF PythonInit, PythonIdle
  <2>2. \A opening : ~ Uses(opening)
    BY <1>3, <2>1 DEF Uses
  <2> QED BY <2>2, UsesIs DEF OpeningsKept
<1>9. UndisturbedAnswers
  <2>1. \A o \in Objects : object[o].type # "sequence"
    BY <1>1, <1>2, <1>3 DEF PythonInit, PythonIdle
  <2> QED BY <1>3, <2>1, UndisturbedIs DEF Returned
<1> QED BY <1>4, <1>5, <1>6, <1>7, <1>8, <1>9 DEF PythonInv

LEMMA PythonStepCorrect == PythonInv /\ [Next]_vars => PythonInv'
<1> SUFFICES ASSUME PythonInv, [Next]_vars PROVE PythonInv'
  OBVIOUS
<1>1. CASE UNCHANGED pythonVars
  <2>1. /\ UNCHANGED <<references, object, names, volume, file_io_handle>>
        /\ UNCHANGED <<file_object_references, position, closed, call>>
    BY <1>1 DEF pythonVars
  <2>2. PythonTypeOK' /\ Present' /\ OwnersCalls' /\ HandleSteps' /\ HandleOwned'
    BY <2>1 DEF PythonInv, PythonTypeOK, Present, OwnersCalls, HandleSteps, HandleOwned, Returned,
                HandleFreed
  <2>3. Counted' /\ OpeningsKept'
    BY <2>1 DEF PythonInv, Counted, Callers, Referring, OpeningsKept, OpeningsInUse, Returned
  <2>4. Answers' /\ NextAlone' /\ UndisturbedAnswers'
    BY <2>1, UndisturbedStays DEF PythonInv, Answers
  <2> QED BY <2>2, <2>3, <2>4 DEF PythonInv
<1>2. CASE PythonStep
  <2>1. ASSUME NEW t \in Threads,
               \E o \in Objects : \E op \in OpsOn(object[o].type) : Begin(t, op, o)
        PROVE  PythonInv'
    BY <2>1, BeginKeeps
  <2>2. ASSUME NEW t \in Threads, Library(t) PROVE PythonInv'
    BY <2>2, LibraryKeeps
  <2>3. ASSUME NEW t \in Threads, End(t) PROVE PythonInv'
    BY <2>3, EndKeeps
  <2>4. ASSUME NEW o \in Objects, Drop(o) \/ DeallocateObject(o) PROVE PythonInv'
    BY <2>4, DropKeeps, DeallocateObjectKeeps
  <2>5. CASE DeallocateVolume
    BY <2>5, DeallocateVolumeKeeps
  <2> QED BY <1>2, <2>1, <2>2, <2>3, <2>4, <2>5 DEF PythonStep, Library, End
<1> QED BY <1>1, <1>2 DEF Next, vars, PythonNext

LEMMA PythonInvariant == Spec => []PythonInv
BY PythonInitCorrect, PythonStepCorrect, PTL DEF Spec

(* The file object that the volume is opened with is held exactly as long  *)
(* as the library uses it or the call that opens or closes the volume is   *)
(* under way, for every number of threads, of objects and of openings      *)
(* (pyfsfat_volume.c:697, 752, 804).                                       *)
THEOREM HandleIsOwned == Spec => []HandleOwned
<1>1. PythonInv => HandleOwned
  BY DEF PythonInv
<1> QED BY <1>1, PythonInvariant, PTL

(* As long as a file entry of the library is there, so is the volume that  *)
(* it points into, and only a call of close closes it; and the references  *)
(* that the interpreter counts are those that there are, whatever the      *)
(* scripts do with how many threads and objects (pyfsfat_file_entry.c:401, *)
(* 506, pyfsfat_file_entries.c:204, 288).                                  *)
THEOREM VolumeOutlives == Spec => []VolumeOutlivesEntries
<1>1. ASSUME PythonInv PROVE VolumeOutlivesEntries
  <2>1. PythonTypeOK /\ Present
    BY <1>1 DEF PythonInv
  <2>2. ASSUME NEW opening \in OpeningsInUse PROVE volume.state # "freed"
    <3>1. VolumeObject \in Objects
      BY PythonAssumption DEF VolumeObject, Objects
    <3>2. CASE \E o \in Objects : object[o].type = "entry"
      BY <2>1, <3>1, <3>2 DEF Present, NoObject
    <3>3. CASE \E t \in Threads : call[t] # NoCall
      <4>1. PICK t \in Threads : call[t] # NoCall
        BY <3>3
      <4>2. call[t].on \in Objects /\ object[call[t].on].type # "none"
        BY <2>1, <4>1, CallOn
      <4>3. \E o \in Objects : object[o].type \in {"volume", "entry"}
        BY <2>1, <4>2, TypeIs DEF Present, SequenceRecord
      <4> QED BY <2>1, <3>1, <4>3 DEF Present, NoObject
    <3>4. Uses(opening)
      BY UsesIs
    <3> QED BY <2>1, <3>2, <3>3, <3>4, CallIs DEF Uses, Lookups
  <2> QED BY <1>1, <2>2 DEF PythonInv, OpeningsKept, Counted, VolumeOutlivesEntries
<1> QED BY <1>1, PythonInvariant, PTL

(* A read gives other data only if another call was in its way, and a      *)
(* sequence that is asked by one call at a time gives all of its items in  *)
(* order, for every number of threads and of items                         *)
(* (libfsfat_cluster_block_data.c:78, pyfsfat_file_entries.c:448).         *)
THEOREM AnswersUndisturbed == Spec => []UndisturbedAnswers
<1>1. PythonInv => UndisturbedAnswers
  BY DEF PythonInv
<1> QED BY <1>1, PythonInvariant, PTL
=============================================================================
