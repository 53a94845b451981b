--------------------------- MODULE PythonBinding ----------------------------
(***************************************************************************)
(* The Python binding (pyfsfat_volume.c, pyfsfat_file_entry.c,             *)
(* pyfsfat_file_entries.c, pyfsfat_file_object_io_handle.c): one volume    *)
(* object, the file entries and sequences of file entries a script gets    *)
(* from it, and the file object that the volume may be opened with.        *)
(*                                                                         *)
(* A call of the library lets go of the interpreter: it begins and ends    *)
(* with the interpreter held, and in between other threads get on with     *)
(* theirs.  One thread, the owner, opens and closes the volume.  What a    *)
(* call does with a file entry of a volume that was closed is undefined;   *)
(* here it fails.                                                          *)
(***************************************************************************)
EXTENDS Integers, Sequences, FiniteSets

CONSTANTS
  Threads,
  Owner,
  Scripts,                (* sets of the methods that a script calls       *)
  NumberOfObjects,        (* file entries and sequences at one time        *)
  NumberOfSequences,      (* of these                                      *)
  NumberOfItems,          (* sub file entries of a directory               *)
  MaxOpenings

ASSUME PythonAssumption ==
  /\ Owner \in Threads
  /\ {NumberOfObjects, NumberOfSequences, NumberOfItems, MaxOpenings} \subseteq Nat

VARIABLES
  script,
  references,             (* to the volume object and to the others, as the*)
                          (* interpreter counts them                       *)
  object,                 (* the file entries and sequences                *)
  names,                  (* what the script has a name for                *)
  volume,                 (* of the library                                *)
  file_io_handle,         (* of the volume object: of the file object      *)
  file_object_references,
  position,               (* the thread that moved the IO handle last, as  *)
                          (* far as another one depends on it              *)
  closed,                 (* openings that ended with a call of close      *)
  call                    (* of a thread                                   *)

pythonVars == <<script, references, object, names, volume, file_io_handle,
                file_object_references, position, closed, call>>

VolumeObject == 0

Objects == 0 .. NumberOfObjects

NoCall == [op |-> "none", step |-> "none"]

NoObject == [type |-> "none"]

PythonIdle ==
  /\ script = {}
  /\ references = [o \in Objects |-> 0]
  /\ object = [o \in Objects |-> NoObject]
  /\ names = {}
  /\ volume = [state |-> "freed", with |-> "none", opening |-> 0]
  /\ file_io_handle = FALSE
  /\ file_object_references = 0
  /\ position = "none"
  /\ closed = {}
  /\ call = [t \in Threads |-> NoCall]

(* The script has made a volume object.                                    *)
PythonInit ==
  /\ script \in Scripts
  /\ references = [o \in Objects |-> IF o = VolumeObject THEN 1 ELSE 0]
  /\ object = [o \in Objects |-> IF o = VolumeObject THEN [type |-> "volume"] ELSE NoObject]
  /\ names = {VolumeObject}
  /\ volume = [state |-> "closed", with |-> "none", opening |-> 0]
  /\ file_io_handle = FALSE
  /\ file_object_references = 0
  /\ position = "none"
  /\ closed = {}
  /\ call = [t \in Threads |-> NoCall]

Increased(counts, o) == [counts EXCEPT ![o] = @ + 1]

Decreased(counts, o) == [counts EXCEPT ![o] = @ - 1]

(***************************************************************************)
(* A call begins.                                                          *)
(***************************************************************************)

(* Calls that give a file entry: of the volume (its root directory, or an  *)
(* entry by path or by identifier), of a file entry (by index or by name)  *)
(* and of a sequence (the next one, or by index).                          *)
Lookups == {"volume_entry", "sub_file_entry", "next", "item"}

OpsOn(type) ==
  CASE type = "volume"   -> {"open", "open_file_object", "close", "volume_entry"}
    [] type = "entry"    -> {"sub_file_entry", "sub_file_entries", "read"}
    [] type = "sequence" -> {"next", "item"}
    [] type = "none"     -> {}

(* The interpreter holds the object that a method is called on.            *)
Begin(t, op, o) ==
  /\ call[t] = NoCall
  /\ o \in names
  /\ op \in OpsOn(object[o].type) \cap script
  /\ op \in {"open", "open_file_object", "close"} => t = Owner
  /\ op = "next" => object[o].current_index < NumberOfItems
  /\ op = "open_file_object" => ~ file_io_handle
  /\ references' = Increased(references, o)
  /\ call' = [call EXCEPT ![t] =
                [op |-> op, on |-> o, step |-> "begun", disturbed |-> FALSE,
                 index |-> IF op = "next" THEN object[o].current_index ELSE 0,
                 result |-> "none", opening |-> 0]]
  /\ object' = IF op = "next" /\ \E u \in Threads : call[u] # NoCall /\ call[u].on = o
               THEN [object EXCEPT ![o].shared = TRUE, ![o].given = <<>>]
               ELSE object
  /\ file_io_handle' = (file_io_handle \/ op = "open_file_object")
  /\ file_object_references' = file_object_references + IF op = "open_file_object" THEN 1 ELSE 0
  /\ UNCHANGED <<names, volume, position, closed>>

(***************************************************************************)
(* The library does what it was called for, without the interpreter.       *)
(***************************************************************************)

CallBegun(t, op) == call[t].op = op /\ call[t].step = "begun"

(* A call of another thread that is between its seek and its read may be   *)
(* disturbed.                                                              *)
LibraryReturns(t, result, others) ==
  call' = [u \in Threads |->
             IF u = t THEN [call[t] EXCEPT !.step = "returned", !.result = result,
                                           !.opening = volume.opening]
             ELSE IF u \in others THEN [call[u] EXCEPT !.disturbed = TRUE]
             ELSE call[u]]

Readers == {u \in Threads : call[u].step = "sought"}

LibraryOpen(t) ==
  /\ CallBegun(t, "open") \/ CallBegun(t, "open_file_object")
  /\ \/ /\ volume.state = "closed"
        /\ volume.opening < MaxOpenings
        /\ volume' = [state |-> "open", opening |-> volume.opening + 1,
                      with |-> IF call[t].op = "open" THEN "name" ELSE "file_object"]
        /\ LibraryReturns(t, "ok", {})
     \/ LibraryReturns(t, "error", {}) /\ UNCHANGED volume
  /\ UNCHANGED <<references, object, names, file_io_handle, file_object_references,
                 position, closed>>

(* An open volume is closed: the callback that closes a file object does   *)
(* nothing that could fail, and so the library's close does not fail either*)
(* after it has let go of the handle (libfsfat_volume.c:847-911).          *)
LibraryClose(t) ==
  /\ CallBegun(t, "close")
  /\ IF volume.state = "open"
     THEN /\ volume' = [volume EXCEPT !.state = "closed", !.with = "none"]
          /\ closed' = closed \cup {volume.opening}
          /\ LibraryReturns(t, "ok", {})
     ELSE LibraryReturns(t, "error", {}) /\ UNCHANGED <<volume, closed>>
  /\ UNCHANGED <<references, object, names, file_io_handle, file_object_references, position>>

EntryOf(o) == IF object[o].type = "sequence" THEN object[o].parent ELSE o

(* The entry that the call is about is one of the volume as it is open.    *)
Usable(t) ==
  /\ volume.state = "open"
  /\ call[t].on # VolumeObject => object[EntryOf(call[t].on)].opening = volume.opening

(* Where the IO handle is matters to a call between its seek and its read, *)
(* and is kept for these.                                                  *)
MoveHandle(t) ==
  position' = IF Readers # {} THEN t ELSE position

(* Looking an entry up moves the IO handle.  It may be found, and it may   *)
(* not be there or fail.                                                   *)
LibraryLookup(t) ==
  /\ \E op \in Lookups : CallBegun(t, op)
  /\ \/ /\ Usable(t)
        /\ MoveHandle(t)
        /\ LibraryReturns(t, "found", Readers)
     \/ LibraryReturns(t, "error", {}) /\ UNCHANGED position
  /\ UNCHANGED <<references, object, names, volume, file_io_handle,
                 file_object_references, closed>>

LibraryNumberOfSubFileEntries(t) ==
  /\ CallBegun(t, "sub_file_entries")
  /\ \/ Usable(t) /\ MoveHandle(t) /\ LibraryReturns(t, "ok", Readers)
     \/ LibraryReturns(t, "error", {}) /\ UNCHANGED position
  /\ UNCHANGED <<references, object, names, volume, file_io_handle,
                 file_object_references, closed>>

(* Data of a file is read with a seek and a read of the one IO handle of   *)
(* the volume, under the lock of nothing but the file entry.               *)
Seek(t) ==
  /\ CallBegun(t, "read")
  /\ Usable(t)
  /\ position' = t
  /\ call' = [u \in Threads |->
                IF u = t THEN [call[t] EXCEPT !.step = "sought"]
                ELSE IF u \in Readers THEN [call[u] EXCEPT !.disturbed = TRUE]
                ELSE call[u]]
  /\ UNCHANGED <<references, object, names, volume, file_io_handle,
                 file_object_references, closed>>

LibraryRead(t) ==
  /\ call[t].op = "read"
  /\ \/ /\ call[t].step = "sought"
        /\ LibraryReturns(t, IF position = t THEN "data" ELSE "other data", Readers)
        /\ position' = t
     \/ /\ call[t].step \in {"begun", "sought"}
        /\ LibraryReturns(t, "error", {})
        /\ UNCHANGED position
  /\ UNCHANGED <<references, object, names, volume, file_io_handle,
                 file_object_references, closed>>

(***************************************************************************)
(* A call ends, with the interpreter.                                      *)
(***************************************************************************)

Returned(t, op) == call[t].op = op /\ call[t].step = "returned"

Free == {o \in Objects : object[o] = NoObject}

(* Mutation: the handle stays when the volume cannot be opened.            *)
HandleKept(t) ==
  call[t].op = "close" /\ call[t].result = "ok" /\ file_io_handle

(* The handle goes when the volume could not be opened with it, and when   *)
(* the volume has been closed; a failed close leaves it.                   *)
HandleFreed(t) ==
  \/ call[t].op = "open_file_object" /\ call[t].result = "error"
  \/ call[t].op = "close" /\ call[t].result = "ok" /\ file_io_handle

EndOpenOrClose(t) ==
  /\ \E op \in {"open", "open_file_object", "close"} : Returned(t, op)
  /\ file_io_handle' = (file_io_handle /\ ~ HandleFreed(t))
  /\ file_object_references' = file_object_references - IF HandleFreed(t) THEN 1 ELSE 0
  /\ references' = Decreased(references, call[t].on)
  /\ call' = [call EXCEPT ![t] = NoCall]
  /\ UNCHANGED <<object, names, volume, position, closed>>

(* A file entry keeps the volume object, wherever it comes from.           *)
Parent(o) ==
  IF o = VolumeObject THEN VolumeObject ELSE object[EntryOf(o)].parent

(* Mutation: the reference is borrowed.                                    *)
ParentBorrowed(counts, o) == counts

ParentKept(counts, o) == Increased(counts, Parent(o))

(* The first object that is free: there is no memory for more of them.     *)
New == CHOOSE o \in Free : \A p \in Free : o <= p

Given(t) == call[t].result = "found" /\ Free # {}

(* Mutation: the next file entry is counted whether it is there or not.    *)
IndexAfterEither(t) == object[call[t].on].current_index + 1

(* The index moves when the call ends, whatever other calls have done to it*)
(* meanwhile.                                                              *)
IndexAfter(t) ==
  object[call[t].on].current_index + IF Given(t) THEN 1 ELSE 0

(* The items that were given are kept to be compared with those there are, *)
(* as long as one thread at a time asks for them.                          *)
AfterNext(t) ==
  [object EXCEPT ![call[t].on].current_index = IndexAfter(t),
                 ![call[t].on].given =
                   IF Given(t) /\ ~ object[call[t].on].shared THEN Append(@, call[t].index) ELSE @]

(* A file entry that there is no memory for an object of is freed again.   *)
EndLookup(t) ==
  LET o    == call[t].on
      kept == IF call[t].op = "next" THEN AfterNext(t) ELSE object
  IN
  /\ \E op \in Lookups : Returned(t, op)
  /\ IF Given(t)
     THEN /\ object' = [kept EXCEPT ![New] = [type    |-> "entry",
                                              parent  |-> Parent(o),
                                              opening |-> call[t].opening]]
          /\ names' = names \cup {New}
          /\ references' = Decreased(ParentKept(Increased(references, New), o), o)
     ELSE /\ object' = kept
          /\ references' = Decreased(references, o)
          /\ UNCHANGED names
  /\ call' = [call EXCEPT ![t] = NoCall]
  /\ UNCHANGED <<volume, file_io_handle, file_object_references, position, closed>>

Sequences == {o \in Objects : object[o].type = "sequence"}

(* A sequence keeps the file entry it was asked of.                        *)
EndSubFileEntries(t) ==
  LET o == call[t].on
  IN
  /\ Returned(t, "sub_file_entries")
  /\ IF call[t].result = "ok" /\ Free # {} /\ Cardinality(Sequences) < NumberOfSequences
     THEN /\ object' = [object EXCEPT ![New] = [type |-> "sequence", parent |-> o,
                                                current_index |-> 0, given |-> <<>>,
                                                shared |-> FALSE]]
          /\ names' = names \cup {New}
          /\ references' = Increased(references, New)
     ELSE /\ references' = Decreased(references, o)
          /\ UNCHANGED <<object, names>>
  /\ call' = [call EXCEPT ![t] = NoCall]
  /\ UNCHANGED <<volume, file_io_handle, file_object_references, position, closed>>

EndRead(t) ==
  /\ Returned(t, "read")
  /\ references' = Decreased(references, call[t].on)
  /\ call' = [call EXCEPT ![t] = NoCall]
  /\ UNCHANGED <<object, names, volume, file_io_handle, file_object_references,
                 position, closed>>

(***************************************************************************)
(* Objects go when nothing refers to them any more.                        *)
(***************************************************************************)

Drop(o) ==
  /\ o \in names
  /\ names' = names \ {o}
  /\ references' = Decreased(references, o)
  /\ UNCHANGED <<object, volume, file_io_handle, file_object_references, position,
                 closed, call>>

Unreferenced(o) == object[o] # NoObject /\ references[o] = 0

(* A file entry is freed, and only then its volume object let go.          *)
DeallocateObject(o) ==
  /\ Unreferenced(o)
  /\ o # VolumeObject
  /\ references' = Decreased(references, object[o].parent)
  /\ object' = [object EXCEPT ![o] = NoObject]
  /\ UNCHANGED <<names, volume, file_io_handle, file_object_references, position,
                 closed, call>>

(* The volume is closed if need be, and the handle freed if it is there.   *)
DeallocateVolume ==
  /\ Unreferenced(VolumeObject)
  /\ volume' = [volume EXCEPT !.state = "freed", !.with = "none"]
  /\ object' = [object EXCEPT ![VolumeObject] = NoObject]
  /\ file_io_handle' = FALSE
  /\ file_object_references' = file_object_references - IF file_io_handle THEN 1 ELSE 0
  /\ UNCHANGED <<references, names, position, closed, call>>

PythonStep ==
  \/ \E t \in Threads :
       \/ \E o \in Objects : \E op \in OpsOn(object[o].type) : Begin(t, op, o)
       \/ LibraryOpen(t) \/ LibraryClose(t)
       \/ LibraryLookup(t) \/ LibraryNumberOfSubFileEntries(t)
       \/ Seek(t) \/ LibraryRead(t)
       \/ EndOpenOrClose(t) \/ EndLookup(t) \/ EndSubFileEntries(t) \/ EndRead(t)
  \/ \E o \in Objects : Drop(o) \/ DeallocateObject(o)
  \/ DeallocateVolume

PythonNext == PythonStep /\ UNCHANGED script

(***************************************************************************)
(* Properties.                                                             *)
(***************************************************************************)

(* The file entries of the library that are allocated: of objects, and on  *)
(* their way to one.                                                       *)
OpeningsInUse ==
  {object[o].opening : o \in {p \in Objects : object[p].type = "entry"}}
    \cup {call[t].opening : t \in {u \in Threads : \E op \in Lookups :
                                     Returned(u, op) /\ call[u].result = "found"}}

Referring(o) ==
  Cardinality({n \in names : n = o})
    + Cardinality({t \in Threads : call[t] # NoCall /\ call[t].on = o})
    + Cardinality({p \in Objects \ {VolumeObject} :
                     object[p] # NoObject /\ object[p].parent = o})

(* A file entry of the library keeps pointers to the file system and the IO*)
(* handle of its volume (libfsfat_file_entry.c:219).  Under a script they  *)
(* stay good: the volume is not freed, nor closed by anything but a call of*)
(* close, as long as a file entry of that opening is there.  No object is  *)
(* let go too often for that, and none too seldom to go in the end: what   *)
(* refers to an object is what its references count.                       *)
VolumeOutlivesEntries ==
  /\ \A opening \in OpeningsInUse :
       /\ volume.state # "freed"
       /\ opening \in closed \/ (volume.state = "open" /\ opening = volume.opening)
  /\ \A o \in Objects : references[o] = Referring(o)

(* The file object is held while the library uses it, and while a call that*)
(* opens or closes the volume is about to; and no longer, so that a failed *)
(* open is not in the way of the next (pyfsfat_volume.c:697).              *)
HandleOwned ==
  /\ file_io_handle <=>
       \/ volume.with = "file_object"
       \/ call[Owner].op = "open_file_object" /\ call[Owner].step # "none"
       \/ Returned(Owner, "close") /\ HandleFreed(Owner)
  /\ file_object_references = IF file_io_handle THEN 1 ELSE 0

(* What a script reads is data of the file, and a sequence gives it every  *)
(* item once and in order, failures in between or not: unless two threads  *)
(* are at it at once.  Then a read may give data of somewhere else, for the*)
(* lock of a file entry does not cover the IO handle of its volume         *)
(* (libfsfat_cluster_block_data.c:78 and 127), and an item may be left out *)
(* (pyfsfat_file_entries.c:448).                                           *)
UndisturbedAnswers ==
  /\ \A t \in Threads :
       Returned(t, "read") /\ call[t].result = "other data" => call[t].disturbed
  /\ \A o \in Sequences : ~ object[o].shared =>
         /\ object[o].given = [i \in 1 .. Len(object[o].given) |-> i - 1]
         /\ object[o].current_index = Len(object[o].given)
=============================================================================
