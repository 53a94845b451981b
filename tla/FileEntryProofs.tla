--------------------------- MODULE FileEntryProofs --------------------------
(***************************************************************************)
(* Proofs about a file entry that any number of threads use: the fields    *)
(* keep their types, the calls implement one atomic cursor, all extents are*)
(* answered, and a thread that alone lists fails only for a reason and     *)
(* loses nothing.                                                          *)
(*                                                                         *)
(* A thread that holds the lock for reading may create the data stream     *)
(* while others do.  The argument is that such a thread has seen the entry *)
(* without a stream since it took the lock, that an offset moves only in a *)
(* stream and under the lock for writing, and that the offset of the entry *)
(* is thus still 0 when the thread installs its stream.                    *)
(***************************************************************************)
EXTENDS FileEntry, FiniteSetTheorems, TLAPS

(* The steps of a thread that holds the lock.                              *)
Building == {"get_stream", "append_extent", "set_stream"}

Inside ==
  Building \cup
  {"get_value", "check_directory", "get_directory", "read_directory", "set_directory",
   "free_directory", "load_directory", "use_directory", "fail",
   "check_stream", "use_stream", "release"}

Typed ==
  /\ operations \in [Threads -> SUBSET AllOps]
  /\ is_root \in BOOLEAN
  /\ pc \in [Threads -> Inside \cup {"idle", "grab", "freed"}]
  /\ op \in [Threads -> AllOps \cup {"none"}]
  /\ \A t \in Threads : pc[t] \in Inside \cup {"grab"} => op[t] \in AllOps
  /\ created \in Nat
  /\ walked \in [Threads -> Nat]
  /\ \A t \in Threads :
       pc[t] \in {"idle", "grab", "check_stream", "get_stream"} => walked[t] = 0
  /\ \A t \in Threads : pc[t] = "append_extent" => walked[t] < number_of_extents

(* A writer excludes the readers, and the other writers.                   *)
Locked ==
  /\ writer # Nobody => readers = {}
  /\ \A t \in Threads : pc[t] \in Inside =>
       IF op[t] \in WriteOps THEN writer = t ELSE t \in readers

(* The offset is 0 until a stream is there, and while one is built.        *)
OffsetWaits ==
  /\ cluster_block_stream = None
       => offset = 0 \/ (\A t \in Threads : pc[t] = "freed")
  /\ \A t \in Threads : pc[t] \in Building => offset = 0
  /\ \A t \in Threads : pc[t] = "use_stream" => cluster_block_stream # None

Inv == TypeOK /\ Typed /\ Locked /\ OffsetWaits

-----------------------------------------------------------------------------
(***************************************************************************)
(* Offsets stay natural numbers.                                           *)
(***************************************************************************)

LEMMA SizeType == Typed => data_size \in Nat /\ number_of_extents \in Nat
  BY FileEntryAssumption DEF Typed, data_size, number_of_extents

LEMMA ReadCountType ==
  ASSUME Typed, NEW at \in Nat, NEW buffer_size \in ReadSizes
  PROVE  ReadCount(at, buffer_size) \in Nat
  BY SizeType, FileEntryAssumption DEF ReadCount

LEMMA ReadDataType ==
  ASSUME Typed, NEW t \in Threads, NEW at \in Nat, NEW buffer_size \in ReadSizes,
         ReadData(t, at, buffer_size)
  PROVE  offset' \in Nat /\ Goto(t, "release")
<1>1. ReadCount(at, buffer_size) \in Nat
  BY ReadCountType
<1> QED
  BY <1>1 DEF ReadData, PartlyRead, Leave

-----------------------------------------------------------------------------
(***************************************************************************)
(* A call that is refused changes only what was answered last.             *)
(***************************************************************************)

Resting ==
  UNCHANGED <<inputs, pc, op, lock, directory_fields, stream_fields, created, outcome>>

LEMMA NextCases ==
  ASSUME [Next]_vars
  PROVE  \/ \E t \in Threads : \E operation \in operations[t] : Call(t, operation)
         \/ \E t \in Threads : Steps(t)
         \/ Free
         \/ Resting
<1>1. UNCHANGED vars => Resting
  BY DEF vars, Resting
<1>2. \A t \in Threads : \A operation \in operations[t] : Refuse(t, operation) => Resting
  BY DEF Refuse, Resting
<1> QED
  BY <1>1, <1>2 DEF Next

-----------------------------------------------------------------------------
(***************************************************************************)
(* The invariant holds initially.                                          *)
(***************************************************************************)

LEMMA InvInit == Init => Inv
<1> SUFFICES ASSUME Init PROVE Inv
  OBVIOUS
<1>1. created \in Nat /\ directories \subseteq 1 .. created
  <2>1. CASE is_root
    <3>1. directories = {1}
      BY <2>1 DEF Init, RootDirectory, None
    <3>2. created = 1
      BY <3>1, FS_Singleton DEF Init
    <3> QED
      BY <3>1, <3>2
  <2>2. CASE ~ is_root
    <3>1. directories = {}
      BY <2>2 DEF Init, None
    <3>2. created = 0
      BY <3>1, FS_EmptySet DEF Init
    <3> QED
      BY <3>1, <3>2
  <2> QED
    BY <2>1, <2>2
<1>2. Typed
  BY <1>1, FileEntryAssumption DEF Init, Typed, Inside, Building
<1>3. TypeOK
  <2>1. <<>> \in Seq(1 .. number_of_extents)
    OBVIOUS
  <2> QED
    BY <1>1, <2>1 DEF Init, TypeOK
<1>4. Locked
  BY DEF Init, Locked, Inside, Building
<1>5. OffsetWaits
  BY DEF Init, OffsetWaits, Building
<1> QED
  BY <1>2, <1>3, <1>4, <1>5 DEF Inv

-----------------------------------------------------------------------------
(***************************************************************************)
(* Every step keeps the invariant.                                         *)
(***************************************************************************)

LEMMA CallKeeps ==
  ASSUME Inv, NEW t \in Threads, NEW operation \in operations[t], Call(t, operation)
  PROVE  Inv'
  BY DEF Inv, TypeOK, Typed, Locked, OffsetWaits, Inside, Building, Goto, inputs, lock,
      directory_fields, stream_fields, number_of_extents, Call

LEMMA GrabKeeps ==
  ASSUME Inv, NEW t \in Threads, Grab(t)
  PROVE  Inv'
  BY FileEntryAssumption
  DEF Inv, TypeOK, Typed, Locked, OffsetWaits, Inside, Building, Goto, inputs,
      directory_fields, stream_fields, number_of_extents, Grab, GrabsForWrite

LEMMA ReleaseKeeps ==
  ASSUME Inv, NEW t \in Threads, Release(t)
  PROVE  Inv'
  BY DEF Inv, TypeOK, Typed, Locked, OffsetWaits, Inside, Building, Goto, inputs,
      number_of_extents, Release

LEMMA GetterStepsKeeps ==
  ASSUME Inv, NEW t \in Threads, GetterSteps(t)
  PROVE  Inv'
<1>1. pc[t] = "get_value" /\ pc' = [pc EXCEPT ![t] = "release"]
  BY DEF GetterSteps, GetField, GetFromDirectoryEntry, Leave, Goto
<1>2. UNCHANGED <<inputs, op, lock, directory_fields, stream_fields, created>>
  BY DEF GetterSteps, GetField, GetFromDirectoryEntry
<1> QED
  BY <1>1, <1>2
  DEF Inv, TypeOK, Typed, Locked, OffsetWaits, Inside, Building, inputs, lock,
      directory_fields, stream_fields, number_of_extents

LEMMA CheckDirectoryKeeps ==
  ASSUME Inv, NEW t \in Threads, CheckDirectory(t)
  PROVE  Inv'
  BY DEF Inv, TypeOK, Typed, Locked, OffsetWaits, Inside, Building, Goto, inputs, lock,
      directory_fields, stream_fields, number_of_extents, CheckDirectory

LEMMA GetDirectoryKeeps ==
  ASSUME Inv, NEW t \in Threads, GetDirectory(t)
  PROVE  Inv'
<1>1. PICK step \in {"load_directory", "fail", "read_directory"} : Goto(t, step)
  BY DEF GetDirectory, FailDirectory
<1>2. pc[t] \in Inside \ Building /\ step \in Inside \ Building
      /\ step \notin {"check_stream", "get_stream", "append_extent", "use_stream"}
      /\ pc[t] # "freed"
  BY DEF GetDirectory, Inside, Building
<1>3. UNCHANGED <<inputs, op, lock, directory_fields, stream_fields, created>>
  BY DEF GetDirectory
<1>4. TypeOK'
  BY <1>3 DEF Inv, TypeOK, inputs, lock, directory_fields, stream_fields, number_of_extents
<1>5. pc' = [pc EXCEPT ![t] = step] /\ pc \in [Threads -> Inside \cup {"idle", "grab", "freed"}]
  BY <1>1 DEF Goto, Inv, Typed
<1>6. Typed'
  BY <1>2, <1>3, <1>5
  DEF Inv, Typed, inputs, stream_fields, number_of_extents
<1>7. Locked'
  BY <1>2, <1>3, <1>5 DEF Inv, Typed, Locked, lock
<1>8. OffsetWaits'
  <2>1. \A u \in Threads : pc'[u] = IF u = t THEN step ELSE pc[u]
    BY <1>5
  <2>2. UNCHANGED <<cluster_block_stream, offset>>
    BY <1>3 DEF stream_fields
  <2> QED
    BY <1>2, <2>1, <2>2 DEF Inv, OffsetWaits
<1> QED
  BY <1>4, <1>6, <1>7, <1>8 DEF Inv

LEMMA ReadDirectoryKeeps ==
  ASSUME Inv, NEW t \in Threads, ReadDirectory(t)
  PROVE  Inv'
<1>1. created \in Nat /\ directories \subseteq 1 .. created
  BY DEF Inv, Typed, TypeOK
<1>2. \/ created' = created /\ directories' = directories
      \/ created' = created + 1 /\ directories' = directories \cup {created'}
  BY DEF ReadDirectory
<1>3. /\ created' \in Nat
      /\ 1 .. created \subseteq 1 .. created'
      /\ directories' \subseteq 1 .. created'
  <2>1. CASE created' = created /\ directories' = directories
    BY <1>1, <2>1
  <2>2. CASE created' = created + 1 /\ directories' = directories \cup {created'}
    <3>1. created + 1 \in 1 .. created + 1 /\ 1 .. created \subseteq 1 .. created + 1
      BY <1>1
    <3> QED
      BY <1>1, <2>2, <3>1
  <2> QED
    BY <1>2, <2>1, <2>2
<1>4. TypeOK'
  BY <1>3 DEF ReadDirectory, Inv, TypeOK, inputs, lock, stream_fields, number_of_extents
<1>5. pc' \in [Threads -> Inside \cup {"idle", "grab", "freed"}]
  BY DEF ReadDirectory, Goto, Inv, Typed, Inside
<1>6. \A u \in Threads : u # t => pc'[u] = pc[u]
  BY DEF ReadDirectory, Goto, Inv, Typed
<1>7. pc[t] = "read_directory" /\ pc'[t] \in {"set_directory", "free_directory"}
  BY DEF ReadDirectory, Goto, Inv, Typed
<1>8. pc[t] \in Inside /\ pc'[t] \in Inside /\ pc'[t] \notin Building
  BY <1>7 DEF Inside, Building
<1>9. Typed'
  BY <1>3, <1>5, <1>6, <1>7, <1>8
  DEF ReadDirectory, Inv, Typed, inputs, stream_fields, number_of_extents
<1>10. Locked'
  BY <1>6, <1>8 DEF ReadDirectory, Inv, Locked, lock
<1>11. OffsetWaits'
  BY <1>6, <1>7, <1>8 DEF ReadDirectory, Inv, OffsetWaits, stream_fields
<1> QED
  BY <1>4, <1>9, <1>10, <1>11 DEF Inv

LEMMA SetDirectoryKeeps ==
  ASSUME Inv, NEW t \in Threads, SetDirectory(t)
  PROVE  Inv'
  BY DEF Inv, TypeOK, Typed, Locked, OffsetWaits, Inside, Building, Goto, inputs, lock,
      stream_fields, number_of_extents, SetDirectory

LEMMA FreeDirectoryKeeps ==
  ASSUME Inv, NEW t \in Threads, FreeDirectory(t)
  PROVE  Inv'
  BY DEF Inv, TypeOK, Typed, Locked, OffsetWaits, Inside, Building, Goto,
      inputs, lock, directory_fields, stream_fields, outcome,
      number_of_extents, FreeDirectory, FailDirectory

LEMMA LoadDirectoryKeeps ==
  ASSUME Inv, NEW t \in Threads, LoadDirectory(t)
  PROVE  Inv'
  BY DEF Inv, TypeOK, Typed, Locked, OffsetWaits, Inside, Building, Goto, inputs, lock,
      stream_fields, number_of_extents, LoadDirectory

LEMMA UseDirectoryKeeps ==
  ASSUME Inv, NEW t \in Threads, UseDirectory(t)
  PROVE  Inv'
  BY DEF Inv, TypeOK, Typed, Locked, OffsetWaits, Inside, Building, Goto,
      inputs, lock, directory_fields, stream_fields, outcome,
      number_of_extents, UseDirectory, Leave

LEMMA FailKeeps ==
  ASSUME Inv, NEW t \in Threads, Fail(t)
  PROVE  Inv'
  BY DEF Inv, TypeOK, Typed, Locked, OffsetWaits, Inside, Building, Goto, inputs, lock,
      directory_fields, stream_fields, number_of_extents, Fail, Leave

LEMMA CheckStreamKeeps ==
  ASSUME Inv, NEW t \in Threads, CheckStream(t)
  PROVE  Inv'
  BY DEF Inv, TypeOK, Typed, Locked, OffsetWaits, Inside, Building, Goto, inputs, lock,
      directory_fields, stream_fields, number_of_extents, CheckStream

LEMMA GetStreamKeeps ==
  ASSUME Inv, NEW t \in Threads, GetStream(t)
  PROVE  Inv'
  BY SizeType
  DEF Inv, TypeOK, Typed, Locked, OffsetWaits, Inside, Building, Goto, inputs, lock,
      directory_fields, stream_fields, number_of_extents, GetStream

LEMMA AppendExtentKeeps ==
  ASSUME Inv, NEW t \in Threads, AppendExtent(t)
  PROVE  Inv'
<1>1. /\ data_extents_array' \in Seq(1 .. number_of_extents)
      /\ walked' \in [Threads -> Nat]
      /\ \A u \in Threads : u # t => walked'[u] = walked[u]
      /\ pc'[t] = "append_extent" => walked'[t] < number_of_extents
  <2>1. walked[t] + 1 \in 1 .. number_of_extents
    BY SizeType DEF AppendExtent, Inv, Typed
  <2>2. CASE broken /\ walked[t] = number_of_extents - 1
    BY <2>2 DEF AppendExtent, Goto, Inv, Typed, TypeOK
  <2>3. CASE ~ (broken /\ walked[t] = number_of_extents - 1)
    <3>1. walked' = [walked EXCEPT ![t] = @ + 1] /\ walked'[t] = walked[t] + 1
      BY <2>3 DEF AppendExtent, Inv, Typed
    <3>2. data_extents_array' = Append(data_extents_array, walked[t] + 1)
      BY <2>3, <3>1 DEF AppendExtent
    <3>3. data_extents_array' \in Seq(1 .. number_of_extents)
      BY <2>1, <3>2 DEF Inv, TypeOK
    <3>4. pc'[t] = "append_extent" => walked'[t] # number_of_extents
      BY <2>3 DEF AppendExtent, Goto, Inv, Typed
    <3> QED
      BY <2>1, <3>1, <3>3, <3>4, SizeType DEF Inv, Typed
  <2> QED
    BY <2>2, <2>3
<1>2. /\ pc' \in [Threads -> Inside \cup {"idle", "grab", "freed"}]
      /\ \A u \in Threads : u # t => pc'[u] = pc[u]
      /\ pc[t] \in Building
      /\ pc'[t] \in {"fail", "set_stream", "append_extent"}
  BY DEF AppendExtent, Goto, Inv, Typed, Inside, Building
<1>3. TypeOK'
  BY <1>1 DEF AppendExtent, Inv, TypeOK, inputs, lock, directory_fields, number_of_extents
<1>4. Typed'
  BY <1>1, <1>2 DEF AppendExtent, Inv, Typed, Inside, Building, inputs, number_of_extents
<1>5. Locked'
  BY <1>2 DEF AppendExtent, Inv, Locked, Inside, Building, lock
<1>6. OffsetWaits'
  BY <1>2 DEF AppendExtent, Inv, OffsetWaits, Inside, Building
<1> QED
  BY <1>3, <1>4, <1>5, <1>6 DEF Inv

LEMMA SetStreamKeeps ==
  ASSUME Inv, NEW t \in Threads, SetStream(t)
  PROVE  Inv'
<1>1. created \in Nat /\ created' = created + 1
  BY DEF SetStream, Inv, Typed
<1>2. 1 .. created \subseteq 1 .. created' /\ created' \in 1 .. created' /\ created' # None
  BY <1>1 DEF None
<1>3. /\ pc' = [pc EXCEPT ![t] = "use_stream"]
      /\ pc[t] = "set_stream"
      /\ cluster_block_stream' = created'
      /\ streams' = streams \cup {created'}
      /\ offset' = 0
  BY DEF SetStream, Goto
<1>4. TypeOK'
  <2>1. streams' \subseteq 1 .. created' /\ cluster_block_stream' \in streams'
    BY <1>2, <1>3 DEF Inv, TypeOK
  <2>2. directories' \subseteq 1 .. created'
    BY <1>2 DEF SetStream, Inv, TypeOK, directory_fields
  <2>3. data_extents_array' \in Seq(1 .. number_of_extents')
    BY DEF SetStream, Inv, TypeOK, number_of_extents, inputs
  <2> QED
    BY <1>3, <2>1, <2>2, <2>3 DEF SetStream, Inv, TypeOK, lock
<1>5. Typed'
  BY <1>1, <1>3 DEF SetStream, Inv, Typed, Inside, Building, inputs, number_of_extents
<1>6. Locked'
  BY <1>3 DEF SetStream, Inv, Typed, Locked, Inside, Building, lock
<1>7. OffsetWaits'
  BY <1>2, <1>3 DEF Inv, Typed, OffsetWaits, Building
<1> QED
  BY <1>4, <1>5, <1>6, <1>7 DEF Inv

(* A call that uses the stream moves the offset only under the lock for     *)
(* writing, and no other thread is then between taking and releasing it.   *)
LEMMA UseStreamKeeps ==
  ASSUME Inv, NEW t \in Threads, pc[t] = "use_stream", Goto(t, "release"),
         StreamUnchanged, offset' \in Nat, offset' = offset \/ op[t] \in WriteOps
  PROVE  Inv'
<1>1. /\ pc' \in [Threads -> Inside \cup {"idle", "grab", "freed"}]
      /\ \A u \in Threads : u # t => pc'[u] = pc[u]
      /\ pc[t] \in Inside /\ pc[t] \notin Building
      /\ pc'[t] = "release" /\ pc'[t] \in Inside /\ pc'[t] \notin Building
  BY DEF Goto, Inv, Typed, Inside, Building
<1>2. \A u \in Threads : pc'[u] \in Building => offset' = 0
  <2> SUFFICES ASSUME NEW u \in Threads, pc'[u] \in Building
               PROVE  offset' = 0
    OBVIOUS
  <2>1. u # t /\ pc[u] \in Building /\ pc[u] \in Inside
    BY <1>1 DEF Inside
  <2>2. CASE op[t] \in WriteOps
    <3>1. writer = t
      BY <1>1, <2>2 DEF Inv, Locked
    <3>2. readers = {}
      BY <3>1, FileEntryAssumption DEF Inv, Locked
    <3>3. writer = u \/ u \in readers
      BY <2>1 DEF Inv, Locked
    <3> QED
      BY <2>1, <3>1, <3>2, <3>3
  <2>3. CASE offset' = offset
    BY <2>1, <2>3 DEF Inv, OffsetWaits
  <2> QED
    BY <2>2, <2>3
<1>3. TypeOK'
  BY DEF StreamUnchanged, Inv, TypeOK, inputs, lock, directory_fields, number_of_extents
<1>4. Typed'
  BY <1>1 DEF StreamUnchanged, Inv, Typed, inputs, number_of_extents
<1>5. Locked'
  BY <1>1 DEF StreamUnchanged, Inv, Locked, lock
<1>6. cluster_block_stream' = cluster_block_stream /\ cluster_block_stream # None
  BY DEF StreamUnchanged, Inv, OffsetWaits
<1>7. OffsetWaits'
  BY <1>1, <1>2, <1>6 DEF Inv, OffsetWaits
<1> QED
  BY <1>3, <1>4, <1>5, <1>7 DEF Inv

LEMMA TargetType ==
  ASSUME Inv, NEW at \in Nat, NEW distance \in Distances,
         NEW whence \in {"set", "current", "end"}
  PROVE  Target(at, distance, whence) \in Int
  BY SizeType, FileEntryAssumption DEF Inv, Target

LEMMA ReadBufferKeeps ==
  ASSUME Inv, NEW t \in Threads, NEW buffer_size \in ReadSizes,
         ReadBuffer(t, buffer_size)
  PROVE  Inv'
<1>1. offset \in Nat /\ Typed
  BY DEF Inv, TypeOK
<1>2. offset' \in Nat /\ Goto(t, "release")
  BY <1>1, ReadDataType DEF ReadBuffer
<1> QED
  BY <1>2, UseStreamKeeps DEF ReadBuffer, WriteOps

LEMMA ReadBufferAtOffsetKeeps ==
  ASSUME Inv, NEW t \in Threads, NEW buffer_size \in ReadSizes, NEW at \in Distances,
         ReadBufferAtOffset(t, buffer_size, at)
  PROVE  Inv'
<1>1. offset' \in Nat /\ Goto(t, "release")
  <2>1. CASE at < 0
    BY <2>1, FileEntryAssumption DEF ReadBufferAtOffset, Inv, TypeOK, Leave
  <2>2. CASE at >= 0
    <3>1. at \in Nat /\ ~ (at < 0) /\ Typed
      BY <2>2, FileEntryAssumption DEF Inv
    <3> QED
      BY <3>1, ReadDataType DEF ReadBufferAtOffset
  <2> QED
    BY <2>1, <2>2, FileEntryAssumption
<1> QED
  BY <1>1, UseStreamKeeps DEF ReadBufferAtOffset, WriteOps

LEMMA SeekOffsetKeeps ==
  ASSUME Inv, NEW t \in Threads, NEW distance \in Distances,
         NEW whence \in {"set", "current", "end"}, SeekOffset(t, distance, whence)
  PROVE  Inv'
<1>1. offset \in Nat /\ Target(offset, distance, whence) \in Int
  BY TargetType DEF Inv, TypeOK
<1>2. offset' \in Nat
  BY <1>1 DEF SeekOffset
<1> QED
  BY <1>2, UseStreamKeeps DEF SeekOffset, Leave, WriteOps

LEMMA GetOffsetKeeps ==
  ASSUME Inv, NEW t \in Threads, NEW index,
         GetOffset(t) \/ GetNumberOfExtents(t) \/ GetExtentByIndex(t, index)
  PROVE  Inv'
<1>1. offset' \in Nat
  BY DEF GetOffset, GetNumberOfExtents, GetExtentByIndex, Inv, TypeOK
<1> QED
  BY <1>1, UseStreamKeeps DEF GetOffset, GetNumberOfExtents, GetExtentByIndex, Leave

LEMMA FreeKeeps ==
  ASSUME Inv, Free
  PROVE  Inv'
<1>1. /\ pc' = [t \in Threads |-> "freed"]
      /\ cluster_block_stream' = None
      /\ data_extents_array' = <<>>
      /\ directories' \subseteq directories
      /\ streams' \subseteq streams
  BY DEF Free
<1>2. data_extents_array' \in Seq(1 .. number_of_extents')
  BY <1>1
<1>3. TypeOK'
  BY <1>1, <1>2 DEF Free, Inv, TypeOK, lock
<1>4. Typed'
  BY <1>1 DEF Free, Inv, Typed, Inside, Building, inputs
<1>5. Locked'
  BY <1>1 DEF Free, Inv, Locked, Inside, Building, lock
<1>6. OffsetWaits'
  BY <1>1 DEF OffsetWaits, Building
<1> QED
  BY <1>3, <1>4, <1>5, <1>6 DEF Inv

LEMMA RestingKeeps ==
  ASSUME Inv, Resting
  PROVE  Inv'
  BY DEF Inv, TypeOK, Typed, Locked, OffsetWaits, Resting, inputs, lock, directory_fields,
      stream_fields, number_of_extents

LEMMA InvNext == Inv /\ [Next]_vars => Inv'
<1> SUFFICES ASSUME Inv, [Next]_vars PROVE Inv'
  OBVIOUS
<1>1. ASSUME NEW t \in Threads, NEW operation \in operations[t], Call(t, operation)
      PROVE  Inv'
  BY <1>1, CallKeeps
<1>2. ASSUME NEW t \in Threads, DirectorySteps(t)
      PROVE  Inv'
  BY <1>2, CheckDirectoryKeeps, GetDirectoryKeeps, ReadDirectoryKeeps, SetDirectoryKeeps,
     FreeDirectoryKeeps, LoadDirectoryKeeps, UseDirectoryKeeps
  DEF DirectorySteps
<1>3. ASSUME NEW t \in Threads, UseStream(t)
      PROVE  Inv'
  BY <1>3, ReadBufferKeeps, ReadBufferAtOffsetKeeps, SeekOffsetKeeps, GetOffsetKeeps
  DEF UseStream
<1>4. ASSUME NEW t \in Threads, StreamSteps(t)
      PROVE  Inv'
  BY <1>3, <1>4, CheckStreamKeeps, GetStreamKeeps, AppendExtentKeeps, SetStreamKeeps
  DEF StreamSteps
<1>5. ASSUME NEW t \in Threads, Steps(t)
      PROVE  Inv'
  BY <1>2, <1>4, <1>5, GrabKeeps, GetterStepsKeeps, FailKeeps, ReleaseKeeps DEF Steps
<1> QED
  BY <1>1, <1>5, FreeKeeps, RestingKeeps, NextCases

LEMMA Invariant == Spec => []Inv
<1> QED
  BY InvInit, InvNext, PTL DEF Spec

(* The fields of the entry keep their types, and what they point to is     *)
(* allocated, whatever number of threads use the entry                     *)
(* (libfsfat_internal_file_entry_t).                                       *)
THEOREM TypeCorrect == Spec => []TypeOK
<1>1. Inv => TypeOK
  BY DEF Inv
<1> QED
  BY <1>1, Invariant, PTL

-----------------------------------------------------------------------------
(***************************************************************************)
(* The calls implement an atomic cursor.                                   *)
(***************************************************************************)

LEMMA CursorStarts == Init => Cursor!CursorInit
<1> SUFFICES ASSUME Init PROVE Cursor!CursorInit
  OBVIOUS
<1>1. data_size \in Nat
  BY SizeType, InvInit DEF Inv
<1>2. offset = 0 /\ answer = [op |-> "none"]
  BY DEF Init
<1> QED
  BY <1>1, <1>2 DEF Cursor!CursorInit, CursorAnswer

(* A step that leaves the offset and the answer alone.                     *)
LEMMA Silent ==
  ASSUME UNCHANGED <<offset, answer, inputs>>
  PROVE  UNCHANGED Cursor!cursorVars
  BY DEF Cursor!cursorVars, CursorAnswer, inputs, data_size

(* A step that fails, or one that answers something else.                  *)
LEMMA OtherAnswer ==
  ASSUME UNCHANGED <<offset, inputs>>, answer'.op # "none",
         \/ answer'.op \in GetterOps \cup DirectoryOps
         \/ answer'.op \in {"get_number_of_extents", "get_extent_by_index"}
         \/ answer'.result = -1 /\ answer'.op # "failed_read"
  PROVE  Cursor!CursorNext
<1>1. CursorAnswer' = [op |-> "other"]
  BY DEF CursorAnswer
<1>2. data_size' = data_size
  BY DEF inputs, data_size
<1> QED
  BY <1>1, <1>2 DEF Cursor!CursorNext, Cursor!CursorOther

(* The answers of the calls that read, seek or ask for the offset.         *)
LEMMA CursorAnswers ==
  ASSUME \/ /\ answer'.op \in {"read_buffer", "read_buffer_at_offset", "seek_offset",
                               "get_offset"}
            /\ answer'.result \in Nat
         \/ answer'.op = "failed_read"
  PROVE  CursorAnswer' = answer'
<1>1. answer'.op \notin GetterOps \cup DirectoryOps
                      \cup {"get_number_of_extents", "get_extent_by_index", "none"}
  BY DEF GetterOps, DirectoryOps
<1>2. ~ (answer'.result = -1 /\ answer'.op # "failed_read")
  OBVIOUS
<1> QED
  BY <1>1, <1>2 DEF CursorAnswer

LEMMA ReadsAsOne ==
  ASSUME Inv, NEW t \in Threads, NEW buffer_size \in ReadSizes,
         ReadBuffer(t, buffer_size)
  PROVE  Cursor!CursorNext
<1>1. ReadCount(offset, buffer_size) \in Nat /\ op[t] = "read_buffer"
  BY ReadCountType DEF Inv, TypeOK, ReadBuffer
<1>2. data_size' = data_size
  BY DEF ReadBuffer, StreamUnchanged, inputs, data_size
<1>3. /\ ReadCount(offset, buffer_size) = Cursor!ReadCount(offset, buffer_size)
      /\ PartlyRead(offset, buffer_size) = Cursor!PartlyRead(offset, buffer_size)
  BY DEF ReadCount, Cursor!ReadCount, PartlyRead, Cursor!PartlyRead
<1>4. CASE /\ offset' = offset + ReadCount(offset, buffer_size)
           /\ Leave(t, [op |-> op[t], at |-> offset,
                        result |-> ReadCount(offset, buffer_size)])
  <2>1. answer' = [op |-> "read_buffer", at |-> offset,
                   result |-> ReadCount(offset, buffer_size)]
    BY <1>1, <1>4 DEF Leave
  <2>2. CursorAnswer' = answer'
    BY <1>1, <2>1, CursorAnswers
  <2>3. Cursor!CursorRead(buffer_size)
    BY <1>3, <1>4, <2>1, <2>2 DEF Cursor!CursorRead
  <2> QED
    BY <1>2, <2>3 DEF Cursor!CursorNext
<1>5. CASE /\ offset' \in PartlyRead(offset, buffer_size)
           /\ Leave(t, [op |-> "failed_read", at |-> offset, result |-> -1])
  <2>1. answer' = [op |-> "failed_read", at |-> offset, result |-> -1]
    BY <1>1, <1>5 DEF Leave
  <2>2. answer'.op = "failed_read"
    BY <2>1
  <2>3. CursorAnswer' = answer'
    BY <2>2, CursorAnswers
  <2>4. Cursor!CursorReadFails(buffer_size)
    BY <1>3, <1>5, <2>1, <2>3 DEF Cursor!CursorReadFails
  <2> QED
    BY <1>2, <2>4 DEF Cursor!CursorNext
<1> QED
  BY <1>4, <1>5 DEF ReadBuffer, ReadData

LEMMA ReadsAtAsOne ==
  ASSUME Inv, NEW t \in Threads, NEW buffer_size \in ReadSizes, NEW at \in Distances,
         ReadBufferAtOffset(t, buffer_size, at)
  PROVE  Cursor!CursorNext
<1>1. op[t] = "read_buffer_at_offset"
  BY DEF ReadBufferAtOffset
<1>2. data_size' = data_size /\ UNCHANGED inputs
  BY DEF ReadBufferAtOffset, StreamUnchanged, inputs, data_size
<1>3. /\ ReadCount(at, buffer_size) = Cursor!ReadCount(at, buffer_size)
      /\ PartlyRead(at, buffer_size) = Cursor!PartlyRead(at, buffer_size)
  BY DEF ReadCount, Cursor!ReadCount, PartlyRead, Cursor!PartlyRead
<1>4. CASE at < 0 /\ Leave(t, Failure(t)) /\ UNCHANGED offset
  <2>1. answer'.op = "read_buffer_at_offset" /\ answer'.result = -1
    BY <1>1, <1>4 DEF Leave, Failure
  <2> QED
    BY <1>2, <1>4, <2>1, OtherAnswer
<1>5. CASE /\ at >= 0
           /\ offset' = at + ReadCount(at, buffer_size)
           /\ Leave(t, [op |-> op[t], at |-> at, result |-> ReadCount(at, buffer_size)])
  <2>1. ReadCount(at, buffer_size) \in Nat
    BY <1>5, ReadCountType, FileEntryAssumption DEF Inv
  <2>2. answer' = [op |-> "read_buffer_at_offset", at |-> at,
                   result |-> ReadCount(at, buffer_size)]
    BY <1>1, <1>5 DEF Leave
  <2>3. CursorAnswer' = answer'
    BY <2>1, <2>2, CursorAnswers
  <2>4. Cursor!CursorReadAt(buffer_size, at)
    BY <1>3, <1>5, <2>2, <2>3 DEF Cursor!CursorReadAt
  <2> QED
    BY <1>2, <2>4 DEF Cursor!CursorNext
<1>6. CASE /\ at >= 0
           /\ offset' \in PartlyRead(at, buffer_size)
           /\ Leave(t, [op |-> "failed_read", at |-> at, result |-> -1])
  <2>1. answer' = [op |-> "failed_read", at |-> at, result |-> -1]
    BY <1>1, <1>6 DEF Leave
  <2>2. answer'.op = "failed_read"
    BY <2>1
  <2>3. CursorAnswer' = answer'
    BY <2>2, CursorAnswers
  <2>4. Cursor!CursorReadAtFails(buffer_size, at)
    BY <1>3, <1>6, <2>1, <2>3 DEF Cursor!CursorReadAtFails
  <2> QED
    BY <1>2, <2>4 DEF Cursor!CursorNext
<1> QED
  BY <1>4, <1>5, <1>6 DEF ReadBufferAtOffset, ReadData

LEMMA SeeksAsOne ==
  ASSUME Inv, NEW t \in Threads, NEW distance \in Distances,
         NEW whence \in {"set", "current", "end"}, SeekOffset(t, distance, whence)
  PROVE  Cursor!CursorNext
<1>1. CASE Leave(t, Failure(t)) /\ UNCHANGED offset
  <2>1. answer'.op = "seek_offset" /\ answer'.result = -1
    BY <1>1 DEF SeekOffset, Leave, Failure
  <2> QED
    BY <1>1, <2>1, OtherAnswer DEF SeekOffset, StreamUnchanged
<1>2. CASE /\ Target(offset, distance, whence) >= 0
           /\ offset' = Target(offset, distance, whence)
           /\ Leave(t, [op |-> op[t], at |-> offset, result |-> offset'])
  <2>1. offset' \in Nat
    <3>1. offset \in Nat /\ Target(offset, distance, whence) \in Int
      BY TargetType DEF Inv, TypeOK
    <3> QED
      BY <1>2, <3>1
  <2>2. answer' = [op |-> "seek_offset", at |-> offset, result |-> offset']
    BY <1>2 DEF SeekOffset, Leave
  <2>3. CursorAnswer' = answer'
    BY <2>1, <2>2, CursorAnswers
  <2>4. data_size' = data_size
    BY DEF SeekOffset, StreamUnchanged, inputs, data_size
  <2>5. Target(offset, distance, whence) = Cursor!Target(offset, distance, whence)
    BY DEF Target, Cursor!Target
  <2>6. Cursor!CursorSeek(distance, whence)
    BY <1>2, <2>2, <2>3, <2>5 DEF Cursor!CursorSeek
  <2> QED
    BY <2>4, <2>6 DEF Cursor!CursorNext, Cursor!Whences
<1> QED
  BY <1>1, <1>2 DEF SeekOffset

LEMMA GetsOffsetAsOne ==
  ASSUME Inv, NEW t \in Threads, GetOffset(t)
  PROVE  Cursor!CursorNext
<1>1. answer' = [op |-> "get_offset", at |-> offset, result |-> offset]
  BY DEF GetOffset, Leave
<1>2. CursorAnswer' = answer'
  BY <1>1, CursorAnswers DEF Inv, TypeOK
<1>3. data_size' = data_size
  BY DEF GetOffset, StreamUnchanged, inputs, data_size
<1>4. Cursor!CursorGetOffset
  BY <1>1, <1>2 DEF GetOffset, Cursor!CursorGetOffset
<1> QED
  BY <1>3, <1>4 DEF Cursor!CursorNext

(* The stream is installed while the offset still waits at 0.              *)
LEMMA SetStreamSilent ==
  ASSUME Inv, NEW t \in Threads, SetStream(t)
  PROVE  UNCHANGED <<offset, answer, inputs>>
<1>1. offset = 0
  BY DEF SetStream, Building, Inv, OffsetWaits
<1> QED
  BY <1>1 DEF SetStream

LEMMA UseDirectoryAsOther ==
  ASSUME NEW t \in Threads, UseDirectory(t)
  PROVE  Cursor!CursorNext
<1>1. answer'.op \in DirectoryOps /\ answer'.op # "none"
  BY DEF UseDirectory, Leave, DirectoryOps
<1> QED
  BY <1>1, OtherAnswer DEF UseDirectory, stream_fields

LEMMA GetNumberAsOther ==
  ASSUME NEW t \in Threads, GetNumberOfExtents(t)
  PROVE  Cursor!CursorNext
<1>1. answer'.op = "get_number_of_extents"
  BY DEF GetNumberOfExtents, Leave
<1> QED
  BY <1>1, OtherAnswer DEF GetNumberOfExtents, StreamUnchanged

LEMMA GetExtentAsOther ==
  ASSUME NEW t \in Threads, NEW index, GetExtentByIndex(t, index)
  PROVE  Cursor!CursorNext
<1>1. answer'.op = "get_extent_by_index"
  BY DEF GetExtentByIndex, Leave, Failure
<1> QED
  BY <1>1, OtherAnswer DEF GetExtentByIndex, StreamUnchanged

LEMMA GetterAsOther ==
  ASSUME NEW t \in Threads, GetterSteps(t)
  PROVE  Cursor!CursorNext
<1>1. answer'.op \in GetterOps /\ answer'.op # "none"
  BY DEF GetterSteps, GetField, GetFromDirectoryEntry, Leave, GetterOps
<1> QED
  BY <1>1, OtherAnswer DEF GetterSteps, GetField, GetFromDirectoryEntry, stream_fields

LEMMA FailAsOther ==
  ASSUME Inv, NEW t \in Threads, Fail(t)
  PROVE  Cursor!CursorNext
<1>1. answer'.op = op[t] /\ answer'.result = -1
  BY DEF Fail, Leave, Failure
<1>2. op[t] # "none" /\ op[t] # "failed_read"
  BY DEF Fail, Inv, Typed, Inside, AllOps, GetterOps, DirectoryOps, StreamOps, SharedStreamOps, WriteOps
<1> QED
  BY <1>1, <1>2, OtherAnswer DEF Fail, stream_fields

LEMMA CursorSteps == Inv /\ [Next]_vars => [Cursor!CursorNext]_(Cursor!cursorVars)
<1> SUFFICES ASSUME Inv, [Next]_vars
             PROVE  Cursor!CursorNext \/ UNCHANGED Cursor!cursorVars
  OBVIOUS
<1>1. ASSUME NEW t \in Threads, NEW operation \in operations[t], Call(t, operation)
      PROVE  UNCHANGED Cursor!cursorVars
  BY <1>1, Silent DEF Call, stream_fields
<1>2. ASSUME NEW t \in Threads, Grab(t) \/ Release(t)
      PROVE  UNCHANGED Cursor!cursorVars
  BY <1>2, Silent DEF Grab, Release, stream_fields
<1>3. ASSUME NEW t \in Threads, DirectorySteps(t)
      PROVE  Cursor!CursorNext \/ UNCHANGED Cursor!cursorVars
  <2>1. CASE UseDirectory(t)
    BY <2>1, UseDirectoryAsOther
  <2>2. CASE ~ UseDirectory(t)
    BY <1>3, <2>2, Silent
    DEF DirectorySteps, CheckDirectory, GetDirectory, ReadDirectory, SetDirectory,
        FreeDirectory, LoadDirectory, stream_fields
  <2> QED
    BY <2>1, <2>2
<1>4. ASSUME NEW t \in Threads, UseStream(t)
      PROVE  Cursor!CursorNext
  BY <1>4, ReadsAsOne, ReadsAtAsOne, SeeksAsOne, GetsOffsetAsOne, GetNumberAsOther,
     GetExtentAsOther
  DEF UseStream
<1>5. ASSUME NEW t \in Threads, CheckStream(t) \/ GetStream(t) \/ AppendExtent(t)
      PROVE  UNCHANGED Cursor!cursorVars
  BY <1>5, Silent DEF CheckStream, GetStream, AppendExtent, stream_fields
<1>6. ASSUME NEW t \in Threads, SetStream(t)
      PROVE  UNCHANGED Cursor!cursorVars
  BY <1>6, Silent, SetStreamSilent
<1>7. ASSUME NEW t \in Threads, Steps(t)
      PROVE  Cursor!CursorNext \/ UNCHANGED Cursor!cursorVars
  BY <1>2, <1>3, <1>4, <1>5, <1>6, <1>7, GetterAsOther, FailAsOther
  DEF Steps, StreamSteps
<1>8. CASE Free
  BY <1>8, Silent DEF Free
<1>9. CASE UNCHANGED vars
  BY <1>9, Silent DEF vars, stream_fields
<1>10. ASSUME NEW t \in Threads, NEW operation \in operations[t], Refuse(t, operation)
       PROVE  Cursor!CursorNext
  <2>1. answer'.op = operation /\ answer'.result = -1
    BY <1>10 DEF Refuse
  <2>2. operation # "none" /\ operation # "failed_read"
    BY <1>10 DEF Refuse, RegularFileOps, WriteOps
  <2> QED
    BY <1>10, <2>1, <2>2, OtherAnswer DEF Refuse, stream_fields
<1> QED
  BY <1>1, <1>7, <1>8, <1>9, <1>10 DEF Next

(* However the calls of the threads interleave, reads and seeks move one   *)
(* offset as if each of them were a single step, for any number of threads *)
(* and any size of the file: a thread that creates the stream while it     *)
(* holds the lock for reading never sets back an offset that another call  *)
(* has moved (file_entry.c:2371, 2028).                                    *)
THEOREM CursorImplemented == Spec => ImplementsCursor
<1> QED
  BY CursorStarts, CursorSteps, Invariant, PTL
  DEF Spec, ImplementsCursor, Cursor!CursorSpec
-----------------------------------------------------------------------------
(***************************************************************************)
(* The entry of the root never frees the directory it borrows.             *)
(***************************************************************************)

(* The steps of a thread that has found no directory.                      *)
Reading == {"get_directory", "read_directory", "set_directory", "free_directory"}

Borrowed ==
  is_root =>
    /\ RootDirectory \in directories
    /\ ~ managed
    /\ directory = RootDirectory \/ (\A t \in Threads : pc[t] = "freed")
    /\ \A t \in Threads : pc[t] \notin Reading

LEMMA BorrowedInit == Init => Borrowed
  BY DEF Init, Borrowed, Reading, RootDirectory, None

LEMMA BorrowedDirectorySteps ==
  ASSUME Inv, Borrowed, NEW t \in Threads, DirectorySteps(t)
  PROVE  Borrowed'
<1>1. pc \in [Threads -> Inside \cup {"idle", "grab", "freed"}]
  BY DEF Inv, Typed
<1>2. CASE CheckDirectory(t)
  BY <1>1, <1>2
  DEF CheckDirectory, Goto, Borrowed, Reading, RootDirectory, None, inputs, directory_fields
<1>3. CASE LoadDirectory(t)
  BY <1>1, <1>3 DEF LoadDirectory, Goto, Borrowed, Reading, inputs
<1>4. CASE UseDirectory(t)
  BY <1>1, <1>4 DEF UseDirectory, Leave, Goto, Borrowed, Reading, inputs, directory_fields
<1>5. CASE GetDirectory(t) \/ ReadDirectory(t) \/ SetDirectory(t) \/ FreeDirectory(t)
  <2>1. pc[t] \in Reading
    BY <1>5 DEF GetDirectory, ReadDirectory, SetDirectory, FreeDirectory, Reading
  <2>2. is_root' = is_root
    BY <1>5 DEF GetDirectory, ReadDirectory, SetDirectory, FreeDirectory, inputs
  <2> QED
    BY <2>1, <2>2 DEF Borrowed
<1> QED
  BY <1>2, <1>3, <1>4, <1>5 DEF DirectorySteps

LEMMA BorrowedStreamSteps ==
  ASSUME Inv, Borrowed, NEW t \in Threads, StreamSteps(t)
  PROVE  Borrowed'
<1>1. pc \in [Threads -> Inside \cup {"idle", "grab", "freed"}]
  BY DEF Inv, Typed
<1>2. CASE CheckStream(t) \/ GetStream(t) \/ AppendExtent(t) \/ SetStream(t)
  BY <1>1, <1>2
  DEF CheckStream, GetStream, AppendExtent, SetStream, Goto, Borrowed, Reading,
      inputs, directory_fields
<1>3. CASE UseStream(t)
  <2>1. pc[t] = "use_stream" /\ Goto(t, "release") /\ StreamUnchanged
    BY <1>3
    DEF UseStream, ReadBuffer, ReadBufferAtOffset, ReadData, SeekOffset, GetOffset,
        GetNumberOfExtents, GetExtentByIndex, Leave
  <2> QED
    BY <1>1, <2>1 DEF StreamUnchanged, Goto, Borrowed, Reading, inputs, directory_fields
<1> QED
  BY <1>2, <1>3 DEF StreamSteps

LEMMA BorrowedNext == Inv /\ Borrowed /\ [Next]_vars => Borrowed'
<1> SUFFICES ASSUME Inv, Borrowed, [Next]_vars PROVE Borrowed'
  OBVIOUS
<1>1. pc \in [Threads -> Inside \cup {"idle", "grab", "freed"}]
  BY DEF Inv, Typed
<1>2. ASSUME NEW t \in Threads, NEW operation \in operations[t], Call(t, operation)
      PROVE  Borrowed'
  BY <1>1, <1>2 DEF Call, Goto, Borrowed, Reading, inputs, directory_fields
<1>3. ASSUME NEW t \in Threads, Grab(t)
      PROVE  Borrowed'
  BY <1>1, <1>3 DEF Grab, Goto, Borrowed, Reading, inputs, directory_fields
<1>4. ASSUME NEW t \in Threads, GetterSteps(t) \/ Fail(t) \/ Release(t)
      PROVE  Borrowed'
  BY <1>1, <1>4
  DEF GetterSteps, GetField, GetFromDirectoryEntry, Fail, Leave, Release, Goto, Borrowed, Reading, inputs, directory_fields
<1>5. ASSUME NEW t \in Threads, Steps(t)
      PROVE  Borrowed'
  BY <1>3, <1>4, <1>5, BorrowedDirectorySteps, BorrowedStreamSteps DEF Steps
<1>6. CASE Free
  BY <1>6 DEF Free, Borrowed, Reading, inputs
<1>7. CASE Resting
  BY <1>7 DEF Resting, Borrowed, inputs, directory_fields
<1> QED
  BY <1>2, <1>5, <1>6, <1>7, NextCases

(* The entry of the root directory never frees the directory of the file   *)
(* system, neither on an error path nor at its own end, whatever number of *)
(* threads list it (LIBFSFAT_FILE_ENTRY_FLAG_MANAGE_DIRECTORY).            *)
THEOREM RootKept == Spec => []RootDirectoryKept
<1>1. Borrowed => RootDirectoryKept
  BY DEF Borrowed, RootDirectoryKept
<1> QED
  BY <1>1, BorrowedInit, BorrowedNext, Invariant, PTL DEF Spec
-----------------------------------------------------------------------------
(* A thread works on what its operation needs, and calls only what it may. *)
ListSteps ==
  {"check_directory", "get_directory", "read_directory", "set_directory",
   "free_directory", "load_directory", "use_directory"}

StreamWalk == {"append_extent", "set_stream"}

Called ==
  \A t \in Threads :
    /\ pc[t] \in Inside \cup {"grab"} => op[t] \in operations[t]
    /\ pc[t] = "get_value" => op[t] \in GetterOps
    /\ pc[t] \in ListSteps => op[t] \in DirectoryOps
    /\ pc[t] \in Building \cup {"check_stream", "use_stream"} => op[t] \in StreamOps

(* Why a thread that uses the directory alone may fail.                    *)
NoDirectory(t) == io_failed[t] \/ ~ (is_directory \/ is_root)

DirectoryWork(t) ==
  /\ pc[t] \in {"get_directory", "read_directory", "set_directory", "free_directory"}
       => directory = None
  /\ pc[t] = "read_directory" => is_directory
  /\ pc[t] = "set_directory" => held[t] # None
  /\ pc[t] = "free_directory" => io_failed[t]
  /\ pc[t] = "load_directory" /\ directory = None => NoDirectory(t)
  /\ pc[t] = "use_directory" /\ held[t] = None => NoDirectory(t)
  /\ pc[t] = "fail" /\ op[t] \in DirectoryOps => io_failed[t]
  /\ pc[t] \in ListSteps => result[t] = 1 \/ io_failed[t]

DirectoriesAllocated ==
  ~ is_root =>
    /\ directory # None => managed
    /\ directories \subseteq
         {directory} \cup {held[t] : t \in {u \in Threads : pc[u] = "set_directory"}}

(* What a call has met so far.                                             *)
Kinds ==
  /\ directory \in Nat
  /\ held \in [Threads -> Nat]
  /\ result \in [Threads -> {-1, 1}]
  /\ io_failed \in [Threads -> BOOLEAN]
  /\ \A t \in Threads : pc[t] \in {"idle", "grab"} => result[t] = 1

Listing ==
  Alone(DirectoryOps) =>
    /\ \A t \in Threads : DirectoryWork(t)
    /\ DirectoriesAllocated

Extents(array) == {array[i] : i \in DOMAIN array}

(* The runs of a chain in the order of the file.                           *)
InOrder(n) == [i \in 1 .. n |-> i]

Walking ==
  /\ broken => /\ cluster_block_stream = None
               /\ number_of_extents # 0
               /\ \A t \in Threads : pc[t] # "set_stream"
  /\ \A t \in Threads :
       /\ pc[t] = "set_stream" => walked[t] = number_of_extents
       /\ pc[t] \in StreamWalk => 1 .. walked[t] \subseteq Extents(data_extents_array)
  /\ cluster_block_stream # None => 1 .. number_of_extents \subseteq Extents(data_extents_array)

WalkingAlone ==
  Alone(StreamOps) =>
    /\ streams \subseteq {cluster_block_stream}
    /\ \A t \in Threads : pc[t] \in Building => cluster_block_stream = None
    /\ ~ broken =>
         /\ \A t \in Threads :
              pc[t] \in StreamWalk => data_extents_array = InOrder(walked[t])
         /\ cluster_block_stream # None => data_extents_array = InOrder(number_of_extents)
         /\ \/ cluster_block_stream # None
            \/ \E t \in Threads : pc[t] \in StreamWalk
            \/ data_extents_array = <<>>

-----------------------------------------------------------------------------
(***************************************************************************)
(* A thread calls what it may, and is where its operation takes it.        *)
(***************************************************************************)

LEMMA CalledInit == Init => Called
  BY DEF Init, Called, Inside, Building, ListSteps

(* A thread that only goes on to another step of its operation.            *)
LEMMA CalledMoves ==
  ASSUME Inv, Called, NEW t \in Threads, NEW step, Goto(t, step), UNCHANGED <<inputs, op>>,
         pc[t] \in Inside \cup {"grab"}, step \in Inside,
         step = "get_value" => op[t] \in GetterOps,
         step \in ListSteps => op[t] \in DirectoryOps,
         step \in Building \cup {"check_stream", "use_stream"} => op[t] \in StreamOps
  PROVE  Called'
<1>1. pc \in [Threads -> Inside \cup {"idle", "grab", "freed"}]
  BY DEF Inv, Typed
<1>2. \A u \in Threads : pc'[u] = IF u = t THEN step ELSE pc[u]
  BY <1>1 DEF Goto
<1>3. operations' = operations /\ op' = op
  BY DEF inputs
<1> QED
  BY <1>2, <1>3 DEF Called

LEMMA CalledListSteps ==
  ASSUME Inv, Called, NEW t \in Threads, DirectorySteps(t)
  PROVE  Called'
<1>1. pc[t] \in ListSteps /\ UNCHANGED <<inputs, op>>
  BY DEF DirectorySteps, CheckDirectory, GetDirectory, ReadDirectory, SetDirectory,
         FreeDirectory, LoadDirectory, UseDirectory, ListSteps
<1>2. PICK step \in ListSteps \cup {"fail", "release"} : Goto(t, step)
  BY DEF DirectorySteps, CheckDirectory, GetDirectory, ReadDirectory, SetDirectory,
         FreeDirectory, LoadDirectory, UseDirectory, FailDirectory, Leave, ListSteps
<1>3. op[t] \in DirectoryOps
  BY <1>1 DEF Called
<1> QED
  BY <1>1, <1>2, <1>3, CalledMoves DEF ListSteps, Inside, Building

LEMMA UsesStream ==
  ASSUME NEW t \in Threads, UseStream(t)
  PROVE  pc[t] = "use_stream" /\ Goto(t, "release") /\ StreamUnchanged
  BY DEF UseStream, ReadBuffer, ReadBufferAtOffset, ReadData, SeekOffset, GetOffset,
         GetNumberOfExtents, GetExtentByIndex, Leave

LEMMA CalledStreamSteps ==
  ASSUME Inv, Called, NEW t \in Threads, StreamSteps(t)
  PROVE  Called'
<1>1. pc[t] \in Building \cup {"check_stream", "use_stream"} /\ UNCHANGED <<inputs, op>>
  BY UsesStream
  DEF StreamSteps, CheckStream, GetStream, AppendExtent, SetStream, StreamUnchanged, Building
<1>2. PICK step \in Building \cup {"use_stream", "fail", "release"} : Goto(t, step)
  BY UsesStream
  DEF StreamSteps, CheckStream, GetStream, AppendExtent, SetStream, Building
<1>3. op[t] \in StreamOps
  BY <1>1 DEF Called
<1> QED
  BY <1>1, <1>2, <1>3, CalledMoves DEF ListSteps, Inside, Building

LEMMA CalledNext == Inv /\ Called /\ [Next]_vars => Called'
<1> SUFFICES ASSUME Inv, Called, [Next]_vars PROVE Called'
  OBVIOUS
<1>1. /\ pc \in [Threads -> Inside \cup {"idle", "grab", "freed"}]
      /\ op \in [Threads -> AllOps \cup {"none"}]
  BY DEF Inv, Typed
<1>2. ASSUME NEW t \in Threads, NEW operation \in operations[t], Call(t, operation)
      PROVE  Called'
  BY <1>1, <1>2 DEF Call, Goto, Called, Inside, Building, ListSteps, inputs
<1>3. ASSUME NEW t \in Threads, Grab(t)
      PROVE  Called'
  <2>1. op[t] \in AllOps
    BY <1>3 DEF Grab, Inv, Typed
  <2>2. pc[t] = "grab" /\ UNCHANGED <<inputs, op>>
    BY <1>3 DEF Grab
  <2>3. Goto(t, IF op[t] \in GetterOps THEN "get_value"
                ELSE IF op[t] \in DirectoryOps THEN "check_directory" ELSE "check_stream")
    BY <1>3 DEF Grab
  <2> QED
    BY <2>1, <2>2, <2>3, CalledMoves DEF AllOps, Inside, Building, ListSteps
<1>4. ASSUME NEW t \in Threads, GetterSteps(t) \/ Fail(t)
      PROVE  Called'
  <2>1. pc[t] \in {"get_value", "fail"} /\ Goto(t, "release") /\ UNCHANGED <<inputs, op>>
    BY <1>4 DEF GetterSteps, GetField, GetFromDirectoryEntry, Fail, Leave
  <2> QED
    BY <2>1, CalledMoves DEF Inside, Building, ListSteps
<1>5. ASSUME NEW t \in Threads, Release(t)
      PROVE  Called'
  BY <1>1, <1>5 DEF Release, Goto, Called, Inside, Building, ListSteps, inputs
<1>6. ASSUME NEW t \in Threads, Steps(t)
      PROVE  Called'
  BY <1>3, <1>4, <1>5, <1>6, CalledListSteps, CalledStreamSteps DEF Steps
<1>7. CASE Free
  BY <1>7 DEF Free, Called, Inside, Building, ListSteps
<1>8. CASE Resting
  BY <1>8 DEF Resting, Called, inputs
<1> QED
  BY <1>2, <1>6, <1>7, <1>8, NextCases

LEMMA OneLister ==
  ASSUME Called, Alone(DirectoryOps), NEW t \in Threads, NEW u \in Threads,
         pc[t] \in ListSteps, pc[u] \in ListSteps
  PROVE  t = u
<1>1. op[t] \in operations[t] \cap DirectoryOps /\ op[u] \in operations[u] \cap DirectoryOps
  BY DEF Called, ListSteps, Inside
<1> QED
  BY <1>1 DEF Alone

LEMMA OneWalker ==
  ASSUME Called, Alone(StreamOps), NEW t \in Threads, NEW u \in Threads,
         pc[t] \in Building \cup {"check_stream", "use_stream"},
         pc[u] \in Building \cup {"check_stream", "use_stream"}
  PROVE  t = u
<1>1. op[t] \in operations[t] \cap StreamOps /\ op[u] \in operations[u] \cap StreamOps
  BY DEF Called, Inside, Building
<1> QED
  BY <1>1 DEF Alone

-----------------------------------------------------------------------------
(***************************************************************************)
(* The directory in the hands of the one thread that lists.                *)
(***************************************************************************)

LEMMA KindsInit == Init => Kinds
  BY DEF Init, Kinds, None, RootDirectory

LEMMA KindsListSteps ==
  ASSUME Inv, Kinds, NEW t \in Threads, DirectorySteps(t)
  PROVE  Kinds'
<1>1. pc[t] \in ListSteps
  BY DEF DirectorySteps, CheckDirectory, GetDirectory, ReadDirectory, SetDirectory,
         FreeDirectory, LoadDirectory, UseDirectory, ListSteps
<1>2. PICK step \in ListSteps \cup {"fail", "release"} : Goto(t, step)
  BY DEF DirectorySteps, CheckDirectory, GetDirectory, ReadDirectory, SetDirectory,
         FreeDirectory, LoadDirectory, UseDirectory, FailDirectory, Leave, ListSteps
<1>3. \A u \in Threads : pc'[u] \in {"idle", "grab"} => u # t /\ pc'[u] = pc[u]
  <2>1. pc \in [Threads -> Inside \cup {"idle", "grab", "freed"}]
    BY DEF Inv, Typed
  <2> QED
    BY <1>2, <2>1 DEF Goto, ListSteps
<1>4. directory' \in Nat /\ held' \in [Threads -> Nat]
  <2>1. created \in Nat
    BY DEF Inv, Typed
  <2> QED
    BY <2>1
    DEF Kinds, DirectorySteps, CheckDirectory, GetDirectory, ReadDirectory, SetDirectory,
        FreeDirectory, LoadDirectory, UseDirectory, directory_fields, None
<1>5. io_failed' \in [Threads -> BOOLEAN]
  BY DEF Kinds, DirectorySteps, CheckDirectory, GetDirectory, ReadDirectory, SetDirectory,
         FreeDirectory, LoadDirectory, UseDirectory, outcome
<1>6. result' = result \/ result' = [result EXCEPT ![t] = -1]
  BY DEF DirectorySteps, CheckDirectory, GetDirectory, ReadDirectory, SetDirectory,
         FreeDirectory, LoadDirectory, UseDirectory, FailDirectory, outcome
<1> QED
  BY <1>3, <1>4, <1>5, <1>6 DEF Kinds

LEMMA KindsNext == Inv /\ Kinds /\ [Next]_vars => Kinds'
<1> SUFFICES ASSUME Inv, Kinds, [Next]_vars PROVE Kinds'
  OBVIOUS
<1>1. pc \in [Threads -> Inside \cup {"idle", "grab", "freed"}]
  BY DEF Inv, Typed
<1>2. ASSUME NEW t \in Threads, NEW operation \in operations[t], Call(t, operation)
      PROVE  Kinds'
  BY <1>1, <1>2 DEF Call, Goto, Kinds, directory_fields, outcome
<1>3. ASSUME NEW t \in Threads, Grab(t)
      PROVE  Kinds'
  BY <1>1, <1>3 DEF Grab, Goto, Kinds, directory_fields, outcome
<1>4. ASSUME NEW t \in Threads, GetterSteps(t) \/ Fail(t)
      PROVE  Kinds'
  BY <1>1, <1>4
  DEF GetterSteps, GetField, GetFromDirectoryEntry, Fail, Leave, Goto, Kinds,
      directory_fields, outcome
<1>5. ASSUME NEW t \in Threads, Release(t)
      PROVE  Kinds'
  BY <1>1, <1>5 DEF Release, Goto, Kinds, None
<1>6. ASSUME NEW t \in Threads, StreamSteps(t)
      PROVE  Kinds'
  <2>1. UNCHANGED <<directory_fields, outcome>>
    BY <1>6, UsesStream
    DEF StreamSteps, CheckStream, GetStream, AppendExtent, SetStream, StreamUnchanged
  <2>2. PICK step \in Building \cup {"use_stream", "fail", "release"} : Goto(t, step)
    BY <1>6, UsesStream
    DEF StreamSteps, CheckStream, GetStream, AppendExtent, SetStream, Building
  <2> QED
    BY <1>1, <2>1, <2>2 DEF Goto, Kinds, Building, directory_fields, outcome
<1>7. ASSUME NEW t \in Threads, Steps(t)
      PROVE  Kinds'
  BY <1>3, <1>4, <1>5, <1>6, <1>7, KindsListSteps DEF Steps
<1>8. CASE Free
  BY <1>8 DEF Free, Kinds, outcome, None
<1>9. CASE Resting
  BY <1>9 DEF Resting, Kinds, directory_fields, outcome
<1> QED
  BY <1>2, <1>7, <1>8, <1>9, NextCases

LEMMA ListingInit == Init => Listing
  BY DEF Init, Listing, DirectoryWork, DirectoriesAllocated, ListSteps, None

(* A step that leaves the directory and what is held alone, and with it    *)
(* the thread at no directory, or where it was.                            *)
LEMMA ListingElsewhere ==
  ASSUME Inv, Kinds, Called, Listing, NEW t \in Threads, NEW step,
         pc[t] # "set_directory", Goto(t, step),
         step \in ListSteps => step = "check_directory" /\ result'[t] = 1,
         step = "fail" => op'[t] \notin DirectoryOps,
         \A u \in Threads \ {t} :
           /\ op'[u] = op[u] /\ held'[u] = held[u]
           /\ io_failed'[u] = io_failed[u] /\ result'[u] = result[u],
         UNCHANGED <<inputs, directory, managed, directories>>
  PROVE  Listing'
<1> SUFFICES ASSUME Alone(DirectoryOps)' PROVE Listing'
  BY DEF Listing
<1>1. pc \in [Threads -> Inside \cup {"idle", "grab", "freed"}]
  BY DEF Inv, Typed
<1>2. Alone(DirectoryOps)
  BY DEF Alone, inputs
<1>3. \A u \in Threads : pc'[u] = IF u = t THEN step ELSE pc[u]
  BY <1>1 DEF Goto
<1>4. ASSUME NEW u \in Threads \ {t}
      PROVE  DirectoryWork(u)'
  <2>1. DirectoryWork(u)
    BY <1>2 DEF Listing
  <2>2. NoDirectory(u)' <=> NoDirectory(u)
    BY DEF NoDirectory, inputs
  <2> QED
    BY <1>3, <2>1, <2>2 DEF DirectoryWork, inputs
<1>5. DirectoryWork(t)'
  BY <1>3 DEF DirectoryWork, ListSteps
<1>6. DirectoriesAllocated'
  <2>1. \A u \in Threads : pc[u] = "set_directory" => pc'[u] = "set_directory" /\ held'[u] = held[u]
    BY <1>3
  <2>2. DirectoriesAllocated
    BY <1>2 DEF Listing
  <2> QED
    BY <2>1, <2>2 DEF DirectoriesAllocated, inputs
<1> QED
  BY <1>4, <1>5, <1>6 DEF Listing

(* A step of the one thread that lists.  Nobody else is at a directory, and*)
(* what the others have met stays as it is.                                *)
LEMMA ListingMoves ==
  ASSUME Inv, Kinds, Called, Listing, NEW t \in Threads, NEW step,
         pc[t] \in ListSteps, Goto(t, step), UNCHANGED <<inputs, op>>,
         \A u \in Threads \ {t} : io_failed'[u] = io_failed[u],
         Alone(DirectoryOps) => DirectoryWork(t)' /\ DirectoriesAllocated'
  PROVE  Listing'
<1> SUFFICES ASSUME Alone(DirectoryOps)' PROVE Listing'
  BY DEF Listing
<1>1. pc \in [Threads -> Inside \cup {"idle", "grab", "freed"}]
  BY DEF Inv, Typed
<1>2. Alone(DirectoryOps)
  BY DEF Alone, inputs
<1>3. \A u \in Threads : pc'[u] = IF u = t THEN step ELSE pc[u]
  BY <1>1 DEF Goto
<1>4. ASSUME NEW u \in Threads \ {t}
      PROVE  DirectoryWork(u)'
  <2>1. DirectoryWork(u)
    BY <1>2 DEF Listing
  <2>2. pc[u] \notin ListSteps
    BY <1>2, OneLister
  <2>3. pc'[u] = pc[u] /\ op'[u] = op[u]
    BY <1>3
  <2> QED
    BY <2>1, <2>2, <2>3 DEF DirectoryWork, ListSteps
<1> QED
  BY <1>2, <1>4 DEF Listing

LEMMA ListingListSteps ==
  ASSUME Inv, Kinds, Called, Borrowed, Listing, NEW t \in Threads, DirectorySteps(t)
  PROVE  Listing'
<1>1. pc \in [Threads -> Inside \cup {"idle", "grab", "freed"}]
  BY DEF Inv, Typed
<1>2. pc[t] \in ListSteps /\ UNCHANGED <<inputs, op>>
  BY DEF DirectorySteps, CheckDirectory, GetDirectory, ReadDirectory, SetDirectory,
         FreeDirectory, LoadDirectory, UseDirectory, ListSteps
<1>3. PICK step \in ListSteps \cup {"fail", "release"} : Goto(t, step)
  BY DEF DirectorySteps, CheckDirectory, GetDirectory, ReadDirectory, SetDirectory,
         FreeDirectory, LoadDirectory, UseDirectory, FailDirectory, Leave, ListSteps
<1>4. \A u \in Threads : pc'[u] = IF u = t THEN step ELSE pc[u]
  BY <1>1, <1>3 DEF Goto
<1>5. \A u \in Threads \ {t} : io_failed'[u] = io_failed[u]
  BY DEF DirectorySteps, CheckDirectory, GetDirectory, ReadDirectory, SetDirectory,
         FreeDirectory, LoadDirectory, UseDirectory, outcome, Kinds
<1> SUFFICES ASSUME Alone(DirectoryOps)
             PROVE  DirectoryWork(t)' /\ DirectoriesAllocated'
  BY <1>2, <1>3, <1>5, ListingMoves
<1>6. DirectoryWork(t) /\ DirectoriesAllocated
  BY DEF Listing
<1>7. \A u \in Threads : pc[u] = "set_directory" => u = t
  BY <1>2, OneLister DEF ListSteps
<1>8. is_root' = is_root /\ is_directory' = is_directory
  BY <1>2 DEF inputs
<1>9. op[t] \in DirectoryOps
  BY <1>2 DEF Called
<1>10. CASE CheckDirectory(t)
  <2>1. UNCHANGED <<directory_fields, outcome>>
    BY <1>10 DEF CheckDirectory
  <2>2. directory # None <=> pc'[t] = "load_directory"
    BY <1>10, <1>1 DEF CheckDirectory, Goto
  <2>3. pc[t] = "check_directory" /\ pc'[t] \in {"load_directory", "get_directory"}
    BY <1>10, <1>1 DEF CheckDirectory, Goto
  <2>4. DirectoryWork(t)'
    BY <1>6, <2>1, <2>2, <2>3
    DEF DirectoryWork, ListSteps, directory_fields, outcome
  <2>5. DirectoriesAllocated'
    BY <1>4, <1>6, <1>7, <1>8, <2>1, <2>3 DEF DirectoriesAllocated, directory_fields
  <2> QED
    BY <2>4, <2>5
<1>11. CASE GetDirectory(t)
  <2>1. UNCHANGED <<directory_fields, io_failed>> /\ directory = None /\ UNCHANGED result
    BY <1>6, <1>11 DEF GetDirectory, DirectoryWork
  <2>2. pc[t] = "get_directory"
        /\ pc'[t] = IF is_directory THEN "read_directory" ELSE "load_directory"
    BY <1>11, <1>1, <2>1 DEF GetDirectory, Goto
  <2>3. ~ is_root
    BY <2>2 DEF Borrowed, Reading
  <2>4. DirectoryWork(t)'
    BY <1>6, <1>8, <2>1, <2>2, <2>3
    DEF DirectoryWork, ListSteps, directory_fields, NoDirectory
  <2>5. DirectoriesAllocated'
    BY <1>4, <1>6, <1>7, <1>8, <2>1, <2>2 DEF DirectoriesAllocated, directory_fields
  <2> QED
    BY <2>4, <2>5
<1>12. CASE ReadDirectory(t)
  <2>1. pc[t] = "read_directory" /\ directory = None /\ UNCHANGED <<directory, managed, result>>
    BY <1>6, <1>12 DEF ReadDirectory, DirectoryWork
  <2>2. created \in Nat
    BY DEF Inv, Typed
  <2>3. \/ /\ held'[t] = created' /\ created' = created + 1
           /\ directories' = directories \cup {created'}
           /\ pc'[t] = "set_directory" /\ io_failed' = io_failed
        \/ /\ io_failed'[t] /\ directories' = directories
           /\ pc'[t] = "free_directory"
    BY <1>12, <1>1, <2>1 DEF ReadDirectory, Goto, Kinds
  <2>4. DirectoryWork(t)'
    <3>1. CASE pc'[t] = "set_directory"
      BY <1>6, <2>1, <2>2, <2>3, <3>1 DEF DirectoryWork, ListSteps, None
    <3>2. CASE pc'[t] = "free_directory"
      BY <2>1, <2>3, <3>2 DEF DirectoryWork, ListSteps
    <3> QED
      BY <2>3, <3>1, <3>2
  <2>5. DirectoriesAllocated'
    BY <1>4, <1>6, <1>7, <1>8, <2>1, <2>3 DEF DirectoriesAllocated
  <2> QED
    BY <2>4, <2>5
<1>13. CASE SetDirectory(t)
  <2>1. /\ pc[t] = "set_directory" /\ pc'[t] = "load_directory"
        /\ directory' = held[t] /\ managed' = TRUE
        /\ UNCHANGED <<directories, held, outcome>>
    BY <1>13, <1>1 DEF SetDirectory, Goto
  <2>2. DirectoryWork(t)'
    BY <1>6, <2>1 DEF DirectoryWork, ListSteps, outcome
  <2>3. directory = None
    BY <1>6, <2>1 DEF DirectoryWork
  <2>4. ~ is_root => directories \subseteq {directory', None}
    BY <1>6, <1>7, <2>1, <2>3 DEF DirectoriesAllocated
  <2>5. directories \subseteq 1 .. created
    BY DEF Inv, TypeOK
  <2>6. None \notin 1 .. created
    BY DEF None
  <2>7. DirectoriesAllocated'
    BY <1>8, <2>1, <2>4, <2>5, <2>6 DEF DirectoriesAllocated
  <2> QED
    BY <2>2, <2>7
<1>14. CASE FreeDirectory(t)
  <2>1. /\ pc[t] = "free_directory" /\ directory' = None
        /\ directories' = directories \ {directory}
        /\ UNCHANGED <<managed, held, io_failed>>
        /\ pc'[t] \in {"load_directory", "fail"}
    BY <1>14, <1>1 DEF FreeDirectory, FailDirectory, Goto
  <2>2. io_failed[t]
    BY <1>6, <2>1 DEF DirectoryWork
  <2>3. DirectoryWork(t)'
    BY <2>1, <2>2 DEF DirectoryWork, ListSteps, NoDirectory
  <2>4. DirectoriesAllocated'
    BY <1>4, <1>6, <1>7, <1>8, <2>1 DEF DirectoriesAllocated
  <2> QED
    BY <2>3, <2>4
<1>15. CASE LoadDirectory(t)
  <2>1. /\ pc[t] = "load_directory" /\ pc'[t] = "use_directory"
        /\ held'[t] = directory
        /\ UNCHANGED <<directory, managed, directories, outcome>>
    BY <1>15, <1>1 DEF LoadDirectory, Goto, Kinds
  <2>2. DirectoryWork(t)'
    BY <1>6, <1>8, <2>1 DEF DirectoryWork, ListSteps, NoDirectory, outcome
  <2>3. DirectoriesAllocated'
    BY <1>4, <1>6, <1>7, <1>8, <2>1 DEF DirectoriesAllocated
  <2> QED
    BY <2>2, <2>3
<1>16. CASE UseDirectory(t)
  <2>1. /\ pc[t] = "use_directory" /\ pc'[t] = "release"
        /\ UNCHANGED <<directory_fields, outcome>>
    BY <1>16, <1>1 DEF UseDirectory, Leave, Goto
  <2>2. DirectoryWork(t)'
    BY <2>1 DEF DirectoryWork, ListSteps
  <2>3. DirectoriesAllocated'
    BY <1>4, <1>6, <1>7, <1>8, <2>1 DEF DirectoriesAllocated, directory_fields
  <2> QED
    BY <2>2, <2>3
<1> QED
  BY <1>10, <1>11, <1>12, <1>13, <1>14, <1>15, <1>16 DEF DirectorySteps

LEMMA ListingStreamSteps ==
  ASSUME Inv, Kinds, Called, Listing, NEW t \in Threads, StreamSteps(t)
  PROVE  Listing'
<1>1. pc[t] \in Building \cup {"check_stream", "use_stream"}
  BY UsesStream DEF StreamSteps, CheckStream, GetStream, AppendExtent, SetStream, Building
<1>2. PICK step \in Building \cup {"use_stream", "fail", "release"} : Goto(t, step)
  BY UsesStream
  DEF StreamSteps, CheckStream, GetStream, AppendExtent, SetStream, Building
<1>3. UNCHANGED <<inputs, op, directory_fields, outcome>>
  BY UsesStream
  DEF StreamSteps, CheckStream, GetStream, AppendExtent, SetStream, StreamUnchanged
<1>4. op[t] \in StreamOps
  BY <1>1 DEF Called
<1>5. op'[t] \notin DirectoryOps
  BY <1>3, <1>4 DEF StreamOps, SharedStreamOps, WriteOps, DirectoryOps
<1>6. pc[t] # "set_directory" /\ step \notin ListSteps
  BY <1>1, <1>2 DEF Building, ListSteps
<1> QED
  BY <1>2, <1>3, <1>5, <1>6, ListingElsewhere DEF directory_fields, outcome

LEMMA ListingNext ==
  Inv /\ Kinds /\ Called /\ Borrowed /\ Listing /\ [Next]_vars => Listing'
<1> SUFFICES ASSUME Inv, Kinds, Called, Borrowed, Listing, [Next]_vars PROVE Listing'
  OBVIOUS
<1>1. ASSUME NEW t \in Threads, NEW operation \in operations[t], Call(t, operation)
      PROVE  Listing'
  <2>1. pc[t] # "set_directory" /\ Goto(t, "grab") /\ "grab" \notin ListSteps
    BY <1>1 DEF Call, ListSteps
  <2>2. \A u \in Threads \ {t} : op'[u] = op[u]
    BY <1>1 DEF Call, Inv, Typed
  <2>3. UNCHANGED <<inputs, directory_fields, outcome>>
    BY <1>1 DEF Call
  <2> QED
    BY <2>1, <2>2, <2>3, ListingElsewhere DEF directory_fields, outcome
<1>2. ASSUME NEW t \in Threads, Grab(t)
      PROVE  Listing'
  <2>1. PICK step \in {"get_value", "check_directory", "check_stream"} : Goto(t, step)
    BY <1>2 DEF Grab
  <2>2. pc[t] # "set_directory" /\ result[t] = 1 /\ step # "fail"
        /\ (step \in ListSteps => step = "check_directory")
    BY <1>2, <2>1 DEF Grab, Kinds, ListSteps
  <2>3. UNCHANGED <<inputs, op, directory_fields, outcome>>
    BY <1>2 DEF Grab
  <2> QED
    BY <2>1, <2>2, <2>3, ListingElsewhere DEF directory_fields, outcome
<1>3. ASSUME NEW t \in Threads, GetterSteps(t) \/ Fail(t)
      PROVE  Listing'
  <2>1. pc[t] # "set_directory" /\ Goto(t, "release") /\ "release" \notin ListSteps
    BY <1>3 DEF GetterSteps, GetField, GetFromDirectoryEntry, Fail, Leave, ListSteps
  <2>2. UNCHANGED <<inputs, op, directory_fields, outcome>>
    BY <1>3 DEF GetterSteps, GetField, GetFromDirectoryEntry, Fail
  <2> QED
    BY <2>1, <2>2, ListingElsewhere DEF directory_fields, outcome
<1>4. ASSUME NEW t \in Threads, Release(t)
      PROVE  Listing'
  <2>1. pc[t] # "set_directory" /\ Goto(t, "idle") /\ "idle" \notin ListSteps
    BY <1>4 DEF Release, ListSteps
  <2>2. \A u \in Threads \ {t} :
          /\ op'[u] = op[u] /\ held'[u] = held[u]
          /\ io_failed'[u] = io_failed[u] /\ result'[u] = result[u]
    BY <1>4 DEF Release, Inv, Typed, Kinds
  <2>3. UNCHANGED <<inputs, directory, managed, directories>>
    BY <1>4 DEF Release
  <2> QED
    BY <2>1, <2>2, <2>3, ListingElsewhere
<1>5. ASSUME NEW t \in Threads, Steps(t)
      PROVE  Listing'
  BY <1>2, <1>3, <1>4, <1>5, ListingListSteps, ListingStreamSteps DEF Steps
<1>6. CASE Free
  <2> SUFFICES ASSUME Alone(DirectoryOps)' PROVE Listing'
    BY DEF Listing
  <2>1. Alone(DirectoryOps)
    BY <1>6 DEF Free, Alone, inputs
  <2>2. DirectoriesAllocated
    BY <2>1 DEF Listing
  <2>3. \A t \in Threads : DirectoryWork(t)'
    BY <1>6 DEF Free, DirectoryWork, ListSteps
  <2>4. DirectoriesAllocated'
    <3>1. {held[u] : u \in {u \in Threads : pc[u] = "set_directory"}} = {}
      BY <1>6 DEF Free
    <3>2. directories \subseteq 1 .. created /\ created \in Nat
      BY DEF Inv, TypeOK, Typed
    <3> QED
      BY <1>6, <2>2, <3>1, <3>2 DEF Free, DirectoriesAllocated, inputs, None
  <2> QED
    BY <2>3, <2>4 DEF Listing
<1>7. CASE Resting
  <2>1. UNCHANGED <<inputs, pc, op, directory_fields, outcome>>
    BY <1>7 DEF Resting
  <2> QED
    BY <2>1
    DEF Listing, Alone, DirectoryWork, NoDirectory, DirectoriesAllocated, inputs,
        directory_fields, outcome
<1> QED
  BY <1>1, <1>5, <1>6, <1>7, NextCases

(* What a call that lists answers.                                         *)
LEMMA ListerAnswers ==
  ASSUME Inv, Kinds, Called, Borrowed, Listing, NEW t \in Threads, UseDirectory(t),
         Alone(DirectoryOps)
  PROVE  SubFileEntriesAlwaysAnswered'
<1>1. DirectoryWork(t)
  BY DEF Listing
<1>2. held[t] = None => NoDirectory(t)
  BY <1>1 DEF UseDirectory, DirectoryWork
<1>3. is_root' = is_root /\ is_directory' = is_directory
  BY DEF UseDirectory, inputs
<1>4. result[t] = 1 \/ io_failed[t]
  BY <1>1 DEF UseDirectory, DirectoryWork, ListSteps
<1>5. answer'.io_failed = io_failed[t]
  BY DEF UseDirectory, Leave
<1>6. answer'.result = -1 => io_failed[t] \/ NoDirectory(t) \/ ~ answer'.found
  <2>1. CASE op[t] = "get_number_of_sub_file_entries"
    BY <1>4, <2>1 DEF UseDirectory, Leave
  <2>2. CASE op[t] = "get_sub_file_entry_by_index"
    BY <1>2, <2>2 DEF UseDirectory, Leave
  <2>3. CASE op[t] = "get_sub_file_entry_by_name"
    BY <1>2, <2>3 DEF UseDirectory, Leave
  <2> QED
    BY <2>1, <2>2, <2>3 DEF UseDirectory
<1> QED
  BY <1>3, <1>5, <1>6 DEF SubFileEntriesAlwaysAnswered, NoDirectory

LEMMA InputsKept == [Next]_vars => UNCHANGED inputs
  BY ZenonT(60) DEF Next, Call, Refuse, Steps, Grab, Release, GetterSteps, GetField, GetFromDirectoryEntry,
      DirectorySteps, CheckDirectory, GetDirectory, ReadDirectory, SetDirectory,
      FreeDirectory, LoadDirectory, UseDirectory, Fail, StreamSteps, CheckStream,
      GetStream, AppendExtent, SetStream, UseStream, ReadBuffer, ReadBufferAtOffset,
      SeekOffset, GetOffset, GetNumberOfExtents, GetExtentByIndex, StreamUnchanged,
      Free, vars

LEMMA AnsweredNext ==
  /\ Inv /\ Kinds /\ Called /\ Borrowed /\ Listing
  /\ SubFileEntriesAnswered /\ [Next]_vars
  => SubFileEntriesAnswered'
<1> SUFFICES ASSUME Inv, Kinds, Called, Borrowed, Listing, SubFileEntriesAnswered, [Next]_vars,
                    Alone(DirectoryOps)'
             PROVE  SubFileEntriesAlwaysAnswered'
  BY DEF SubFileEntriesAnswered
<1>1. UNCHANGED inputs
  BY InputsKept
<1>2. Alone(DirectoryOps) /\ SubFileEntriesAlwaysAnswered
  BY <1>1 DEF SubFileEntriesAnswered, Alone, inputs
<1>3. CASE answer' = answer
  BY <1>1, <1>2, <1>3 DEF SubFileEntriesAlwaysAnswered, inputs
<1>4. ASSUME NEW t \in Threads, GetterSteps(t) \/ UseStream(t)
      PROVE  SubFileEntriesAlwaysAnswered'
  <2>1. op[t] \in GetterOps \cup StreamOps
    BY <1>4, UsesStream DEF GetterSteps, GetField, GetFromDirectoryEntry, GetterOps, Called
  <2>2. answer'.op = op[t] \/ answer'.op = "failed_read"
    BY <1>4
    DEF GetterSteps, GetField, GetFromDirectoryEntry, UseStream, ReadBuffer,
        ReadBufferAtOffset, ReadData, SeekOffset, GetOffset, GetNumberOfExtents, GetExtentByIndex,
        Leave, Failure
  <2> QED
    BY <2>1, <2>2
    DEF SubFileEntriesAlwaysAnswered, GetterOps, StreamOps, SharedStreamOps, WriteOps,
        DirectoryOps
<1>5. ASSUME NEW t \in Threads, Fail(t)
      PROVE  SubFileEntriesAlwaysAnswered'
  <2>1. answer' = Failure(t) /\ pc[t] = "fail"
    BY <1>5 DEF Fail, Leave
  <2>2. op[t] \in DirectoryOps => io_failed[t]
    BY <1>2, <2>1 DEF Listing, DirectoryWork
  <2> QED
    BY <2>1, <2>2 DEF SubFileEntriesAlwaysAnswered, Failure
<1>6. ASSUME NEW t \in Threads, UseDirectory(t)
      PROVE  SubFileEntriesAlwaysAnswered'
  BY <1>2, <1>6, ListerAnswers
<1>7. ASSUME NEW t \in Threads, NEW operation \in operations[t], Refuse(t, operation)
      PROVE  SubFileEntriesAlwaysAnswered'
  <2>1. answer'.op = operation /\ operation \in RegularFileOps
    BY <1>7 DEF Refuse
  <2> QED
    BY <2>1 DEF SubFileEntriesAlwaysAnswered, RegularFileOps, WriteOps, DirectoryOps
<1>8. \/ answer' = answer
      \/ \E t \in Threads : GetterSteps(t) \/ UseStream(t) \/ Fail(t) \/ UseDirectory(t)
      \/ \E t \in Threads : \E operation \in operations[t] : Refuse(t, operation)
  BY DEF Next, Call, Steps, Grab, Release,
         DirectorySteps, CheckDirectory, GetDirectory, ReadDirectory, SetDirectory,
         FreeDirectory, LoadDirectory, StreamSteps, CheckStream,
         GetStream, AppendExtent, SetStream, Free, vars
<1> QED
  BY <1>3, <1>4, <1>5, <1>6, <1>7, <1>8

LEMMA ListingInvariant == Spec => [](Inv /\ Kinds /\ Called /\ Borrowed /\ Listing)
<1> QED
  BY KindsInit, KindsNext, CalledInit, CalledNext, BorrowedInit, BorrowedNext, ListingInit,
     ListingNext, Invariant, PTL DEF Spec

(* A thread that alone lists an entry fails only for a reason: it met a    *)
(* read error, the entry is no directory, or it has no such sub entry;     *)
(* whatever any number of other threads do with the data, and after any    *)
(* history of failures (libfsfat_file_entry_get_number_of_sub_file_entries,*)
(* 1138).                                                                  *)
THEOREM AloneAnswered == Spec => []SubFileEntriesAnswered
<1>1. Init => SubFileEntriesAnswered
  BY DEF Init, SubFileEntriesAnswered, SubFileEntriesAlwaysAnswered, DirectoryOps
<1> QED
  BY <1>1, AnsweredNext, ListingInvariant, PTL DEF Spec

-----------------------------------------------------------------------------
(***************************************************************************)
(* The extents of the file, which walks put into one array.                *)
(***************************************************************************)

LEMMA WalkingInit == Init => Walking
  BY DEF Init, Walking, StreamWalk

LEMMA AppendedExtents ==
  ASSUME NEW S, NEW array \in Seq(S), NEW e \in S
  PROVE  Extents(Append(array, e)) = Extents(array) \cup {e}
<1>1. /\ DOMAIN Append(array, e) = 1 .. Len(array) + 1
      /\ \A i \in 1 .. Len(array) : Append(array, e)[i] = array[i]
      /\ Append(array, e)[Len(array) + 1] = e
      /\ Len(array) \in Nat /\ DOMAIN array = 1 .. Len(array)
  OBVIOUS
<1>2. 1 .. Len(array) + 1 = 1 .. Len(array) \cup {Len(array) + 1}
  BY <1>1
<1> QED
  BY <1>1, <1>2 DEF Extents

LEMMA AppendedInOrder ==
  ASSUME NEW n \in Nat
  PROVE  Append(InOrder(n), n + 1) = InOrder(n + 1)
<1>1. InOrder(n) \in Seq(Nat) /\ Len(InOrder(n)) = n
  BY DEF InOrder
<1>2. Append(InOrder(n), n + 1) = [i \in 1 .. n + 1 |-> IF i = n + 1 THEN n + 1 ELSE InOrder(n)[i]]
  BY <1>1
<1>3. \A i \in 1 .. n + 1 : (IF i = n + 1 THEN n + 1 ELSE InOrder(n)[i]) = i
  BY DEF InOrder
<1> QED
  BY <1>2, <1>3 DEF InOrder

(* A step to elsewhere, with nothing done to the stream and the extents.   *)
LEMMA WalkingElsewhere ==
  ASSUME Inv, Walking, NEW t \in Threads, NEW step, Goto(t, step), step \notin StreamWalk,
         \A u \in Threads \ {t} : walked'[u] = walked[u],
         UNCHANGED <<inputs, cluster_block_stream, data_extents_array>>
  PROVE  Walking'
<1>1. pc \in [Threads -> Inside \cup {"idle", "grab", "freed"}]
  BY DEF Inv, Typed
<1>2. \A u \in Threads : pc'[u] = IF u = t THEN step ELSE pc[u]
  BY <1>1 DEF Goto
<1> QED
  BY <1>2 DEF Walking, StreamWalk, inputs, number_of_extents

LEMMA WalkingStreamSteps ==
  ASSUME Inv, Walking, NEW t \in Threads, StreamSteps(t)
  PROVE  Walking'
<1>1. pc \in [Threads -> Inside \cup {"idle", "grab", "freed"}]
  BY DEF Inv, Typed
<1>2. CASE CheckStream(t)
  <2>1. PICK step \in {"get_stream", "use_stream"} : Goto(t, step)
    BY <1>2 DEF CheckStream
  <2> QED
    BY <1>2, <2>1, WalkingElsewhere DEF CheckStream, StreamWalk, stream_fields
<1>3. CASE GetStream(t)
  <2>1. UNCHANGED <<inputs, stream_fields>> /\ pc[t] = "get_stream"
    BY <1>3 DEF GetStream
  <2>2. walked[t] = 0
    BY <2>1 DEF Inv, Typed
  <2>3. \A u \in Threads \ {t} : pc'[u] = pc[u]
    BY <1>1, <1>3 DEF GetStream, Goto
  <2>4. pc'[t] = "set_stream" => number_of_extents = 0
    BY <1>1, <1>3 DEF GetStream, Goto
  <2>5. 1 .. 0 = {}
    OBVIOUS
  <2> QED
    BY <2>1, <2>2, <2>3, <2>4, <2>5
    DEF Walking, stream_fields, inputs, number_of_extents
<1>4. CASE AppendExtent(t)
  <2>1. /\ pc[t] = "append_extent" /\ walked[t] \in Nat /\ number_of_extents \in Nat
        /\ walked[t] < number_of_extents
        /\ data_extents_array \in Seq(1 .. number_of_extents)
    BY <1>4, SizeType DEF AppendExtent, Inv, Typed, TypeOK
  <2>2. CASE Goto(t, "fail") /\ UNCHANGED <<data_extents_array, walked>>
    BY <1>4, <2>2, WalkingElsewhere DEF AppendExtent, StreamWalk
  <2>3. CASE /\ ~ (broken /\ walked[t] = number_of_extents - 1)
             /\ walked' = [walked EXCEPT ![t] = @ + 1]
             /\ data_extents_array' = Append(data_extents_array, walked'[t])
             /\ Goto(t, IF walked'[t] = number_of_extents
                        THEN "set_stream" ELSE "append_extent")
    <3>1. /\ walked'[t] = walked[t] + 1
          /\ \A u \in Threads \ {t} : walked'[u] = walked[u]
      BY <2>3 DEF Inv, Typed
    <3>2. \A u \in Threads \ {t} : pc'[u] = pc[u]
      BY <1>1, <2>3 DEF Goto
    <3>3. /\ pc'[t] \in {"set_stream", "append_extent"}
          /\ pc'[t] = "set_stream" => walked'[t] = number_of_extents
      BY <1>1, <2>3 DEF Goto
    <3>4. walked[t] + 1 \in 1 .. number_of_extents
      BY <2>1
    <3>5. Extents(data_extents_array') = Extents(data_extents_array) \cup {walked[t] + 1}
      BY SMTT(30), <2>1, <2>3, <3>1, <3>4, AppendedExtents
    <3>6. 1 .. walked[t] + 1 = 1 .. walked[t] \cup {walked[t] + 1}
      BY <2>1
    <3>7. 1 .. walked'[t] \subseteq Extents(data_extents_array')
      BY <2>1, <3>1, <3>5, <3>6 DEF Walking, StreamWalk
    <3>8. broken => pc'[t] # "set_stream"
      BY <2>1, <2>3, <3>1, <3>3
    <3>9. UNCHANGED <<inputs, cluster_block_stream, number_of_extents>>
      BY <1>4 DEF AppendExtent, inputs, number_of_extents
    <3> QED
      BY <3>2, <3>3, <3>5, <3>1, <3>7, <3>8, <3>9 DEF Walking, inputs, StreamWalk
  <2> QED
    BY <1>4, <2>2, <2>3 DEF AppendExtent
<1>5. CASE SetStream(t)
  <2>1. ~ broken /\ 1 .. number_of_extents \subseteq Extents(data_extents_array)
    BY <1>5 DEF SetStream, Walking, StreamWalk
  <2>2. UNCHANGED <<inputs, data_extents_array, walked, number_of_extents>>
    BY <1>5 DEF SetStream, inputs, number_of_extents
  <2>3. /\ pc'[t] = "use_stream"
        /\ \A u \in Threads \ {t} : pc'[u] = pc[u]
    BY <1>1, <1>5 DEF SetStream, Goto
  <2> QED
    BY <2>1, <2>2, <2>3 DEF Walking, inputs, StreamWalk
<1>6. CASE UseStream(t)
  BY <1>6, UsesStream, WalkingElsewhere DEF StreamUnchanged, StreamWalk
<1> QED
  BY <1>2, <1>3, <1>4, <1>5, <1>6 DEF StreamSteps

LEMMA WalkingNext == Inv /\ Walking /\ [Next]_vars => Walking'
<1> SUFFICES ASSUME Inv, Walking, [Next]_vars PROVE Walking'
  OBVIOUS
<1>1. ASSUME NEW t \in Threads, NEW operation \in operations[t], Call(t, operation)
      PROVE  Walking'
  BY <1>1, WalkingElsewhere DEF Call, StreamWalk, stream_fields
<1>2. ASSUME NEW t \in Threads, Grab(t)
      PROVE  Walking'
  <2>1. PICK step \in {"get_value", "check_directory", "check_stream"} : Goto(t, step)
    BY <1>2 DEF Grab
  <2> QED
    BY <1>2, <2>1, WalkingElsewhere DEF Grab, StreamWalk, stream_fields
<1>3. ASSUME NEW t \in Threads, GetterSteps(t) \/ Fail(t)
      PROVE  Walking'
  BY <1>3, WalkingElsewhere
  DEF GetterSteps, GetField, GetFromDirectoryEntry, Fail, Leave, StreamWalk, stream_fields
<1>4. ASSUME NEW t \in Threads, Release(t)
      PROVE  Walking'
  <2>1. \A u \in Threads \ {t} : walked'[u] = walked[u]
    BY <1>4 DEF Release, Inv, Typed
  <2> QED
    BY <1>4, <2>1, WalkingElsewhere DEF Release, StreamWalk
<1>5. ASSUME NEW t \in Threads, DirectorySteps(t)
      PROVE  Walking'
  <2>1. PICK step \in ListSteps \cup {"fail", "release"} : Goto(t, step)
    BY <1>5
    DEF DirectorySteps, CheckDirectory, GetDirectory, ReadDirectory, SetDirectory,
        FreeDirectory, LoadDirectory, UseDirectory, FailDirectory, Leave, ListSteps
  <2>2. UNCHANGED <<inputs, stream_fields>>
    BY <1>5
    DEF DirectorySteps, CheckDirectory, GetDirectory, ReadDirectory, SetDirectory,
        FreeDirectory, LoadDirectory, UseDirectory
  <2> QED
    BY <2>1, <2>2, WalkingElsewhere DEF ListSteps, StreamWalk, stream_fields
<1>6. ASSUME NEW t \in Threads, Steps(t)
      PROVE  Walking'
  BY <1>2, <1>3, <1>4, <1>5, <1>6, WalkingStreamSteps DEF Steps
<1>7. CASE Free
  BY <1>7 DEF Free, Walking, StreamWalk, inputs, number_of_extents
<1>8. CASE Resting
  BY <1>8 DEF Resting, Walking, stream_fields, inputs, number_of_extents
<1> QED
  BY <1>1, <1>6, <1>7, <1>8, NextCases

LEMMA WalkingAloneInit == Init => WalkingAlone
  BY DEF Init, WalkingAlone, Building, StreamWalk

(* A step to elsewhere.                                                    *)
LEMMA WalkingAloneElsewhere ==
  ASSUME Inv, WalkingAlone, NEW t \in Threads, NEW step, Goto(t, step),
         step \notin Building, broken \/ pc[t] \notin StreamWalk,
         \A u \in Threads \ {t} : walked'[u] = walked[u],
         UNCHANGED <<inputs, streams, cluster_block_stream, data_extents_array>>
  PROVE  WalkingAlone'
<1>1. pc \in [Threads -> Inside \cup {"idle", "grab", "freed"}]
  BY DEF Inv, Typed
<1>2. \A u \in Threads : pc'[u] = IF u = t THEN step ELSE pc[u]
  BY <1>1 DEF Goto
<1>3. UNCHANGED <<Alone(StreamOps), number_of_extents, broken>>
  BY DEF Alone, inputs, number_of_extents
<1>4. step \notin StreamWalk
  BY DEF StreamWalk, Building
<1>5. ~ broken /\ (\E u \in Threads : pc[u] \in StreamWalk)
        => \E u \in Threads : pc'[u] \in StreamWalk
  BY <1>2
<1> QED
  BY <1>2, <1>3, <1>4, <1>5 DEF WalkingAlone

(* A step of the one thread that builds the stream.                        *)
LEMMA WalkingAloneMoves ==
  ASSUME Inv, Called, WalkingAlone, NEW t \in Threads, NEW step, Goto(t, step),
         pc[t] \in Building \cup {"check_stream", "use_stream"}, UNCHANGED inputs,
         Alone(StreamOps) =>
           /\ streams' \subseteq {cluster_block_stream'}
           /\ step \in Building => cluster_block_stream' = None
           /\ ~ broken =>
                /\ step \in StreamWalk => data_extents_array' = InOrder(walked'[t])
                /\ cluster_block_stream' # None => data_extents_array' = InOrder(number_of_extents)
                /\ \/ cluster_block_stream' # None
                   \/ step \in StreamWalk
                   \/ data_extents_array' = <<>>
  PROVE  WalkingAlone'
<1> SUFFICES ASSUME Alone(StreamOps)' PROVE WalkingAlone'
  BY DEF WalkingAlone
<1>1. pc \in [Threads -> Inside \cup {"idle", "grab", "freed"}]
  BY DEF Inv, Typed
<1>2. \A u \in Threads : pc'[u] = IF u = t THEN step ELSE pc[u]
  BY <1>1 DEF Goto
<1>3. Alone(StreamOps) /\ broken' = broken /\ number_of_extents' = number_of_extents
  BY DEF Alone, inputs, number_of_extents
<1>4. \A u \in Threads : pc'[u] \in Building => u = t
  BY <1>2, <1>3, OneWalker
<1>5. StreamWalk \subseteq Building
  BY DEF StreamWalk, Building
<1>6. \A u \in Threads : pc'[u] \in Building => cluster_block_stream' = None
  BY <1>2, <1>3, <1>4
<1>7. ~ broken => \A u \in Threads : pc'[u] \in StreamWalk => data_extents_array' = InOrder(walked'[u])
  BY <1>2, <1>3, <1>4, <1>5
<1>8. ~ broken => \/ cluster_block_stream' # None
                  \/ \E u \in Threads : pc'[u] \in StreamWalk
                  \/ data_extents_array' = <<>>
  BY <1>2, <1>3
<1> QED
  BY <1>3, <1>6, <1>7, <1>8 DEF WalkingAlone

LEMMA WalkingAloneStreamSteps ==
  ASSUME Inv, Called, Walking, WalkingAlone, NEW t \in Threads, StreamSteps(t)
  PROVE  WalkingAlone'
<1>1. pc \in [Threads -> Inside \cup {"idle", "grab", "freed"}]
  BY DEF Inv, Typed
<1>2. ASSUME Alone(StreamOps), NEW u \in Threads, pc[u] \in StreamWalk,
             pc[t] \in Building \cup {"check_stream", "use_stream"}
      PROVE  u = t
  BY <1>2, OneWalker DEF StreamWalk, Building
<1>3. CASE CheckStream(t)
  <2>1. PICK step \in {"get_stream", "use_stream"} :
          Goto(t, step) /\ (step = "get_stream" => cluster_block_stream = None)
    BY <1>3 DEF CheckStream
  <2>2. /\ pc[t] = "check_stream" /\ UNCHANGED <<inputs, stream_fields>>
        /\ step \notin StreamWalk
    BY <1>3, <2>1 DEF CheckStream, StreamWalk
  <2>3. Alone(StreamOps) => \A u \in Threads : pc[u] \notin StreamWalk
    BY <1>2, <2>2 DEF StreamWalk
  <2> QED
    BY <2>1, <2>2, <2>3, WalkingAloneMoves DEF Building, WalkingAlone, stream_fields
<1>4. CASE GetStream(t)
  <2>1. pc[t] = "get_stream" /\ UNCHANGED <<inputs, stream_fields>>
    BY <1>4 DEF GetStream
  <2>2. walked[t] = 0
    BY <2>1 DEF Inv, Typed
  <2>3. Alone(StreamOps) =>
          /\ cluster_block_stream = None
          /\ \A u \in Threads : pc[u] \notin StreamWalk
    BY <1>2, <2>1 DEF StreamWalk, Building, WalkingAlone
  <2>4. InOrder(0) = <<>>
    BY DEF InOrder
  <2>5. PICK step \in {"fail", "set_stream", "append_extent"} :
          Goto(t, step) /\ (step = "fail" => cluster_block_stream # None)
    BY <1>4 DEF GetStream
  <2> QED
    BY <2>1, <2>2, <2>3, <2>4, <2>5, WalkingAloneMoves
    DEF WalkingAlone, stream_fields, StreamWalk, Building
<1>5. CASE AppendExtent(t)
  <2>1. /\ pc[t] = "append_extent" /\ walked[t] \in Nat
        /\ UNCHANGED <<inputs, streams, cluster_block_stream>>
    BY <1>5 DEF AppendExtent, Inv, Typed
  <2>2. CASE broken /\ Goto(t, "fail") /\ UNCHANGED <<data_extents_array, walked>>
    BY <2>1, <2>2, WalkingAloneElsewhere DEF StreamWalk, Building
  <2>3. CASE /\ walked' = [walked EXCEPT ![t] = @ + 1]
             /\ data_extents_array' = Append(data_extents_array, walked'[t])
             /\ Goto(t, IF walked'[t] = number_of_extents
                        THEN "set_stream" ELSE "append_extent")
    <3>1. walked'[t] = walked[t] + 1
      BY <2>3 DEF Inv, Typed
    <3>2. PICK step \in StreamWalk : Goto(t, step)
      BY <2>3 DEF StreamWalk
    <3>3. Alone(StreamOps) => cluster_block_stream = None /\ streams \subseteq {cluster_block_stream}
      BY <2>1 DEF Building, WalkingAlone
    <3>4. Alone(StreamOps) /\ ~ broken => data_extents_array = InOrder(walked[t])
      BY <2>1 DEF StreamWalk, WalkingAlone
    <3>5. Append(InOrder(walked[t]), walked[t] + 1) = InOrder(walked[t] + 1)
      BY <2>1, AppendedInOrder
    <3>6. Alone(StreamOps) /\ ~ broken => data_extents_array' = InOrder(walked'[t])
      BY <2>3, <3>1, <3>4, <3>5
    <3>7. pc[t] \in Building
      BY <2>1 DEF Building
    <3> QED
      BY <2>1, <3>2, <3>3, <3>6, <3>7, WalkingAloneMoves
  <2> QED
    BY <1>5, <2>2, <2>3 DEF AppendExtent
<1>6. CASE SetStream(t)
  <2>1. /\ pc[t] = "set_stream" /\ Goto(t, "use_stream")
        /\ cluster_block_stream' = created' /\ streams' = streams \cup {created'}
        /\ UNCHANGED <<inputs, data_extents_array, walked>>
    BY <1>6 DEF SetStream
  <2>2. walked[t] = number_of_extents
    BY <2>1 DEF Walking
  <2>3. created' \in Nat \ {0}
    BY <1>6 DEF SetStream, Inv, Typed
  <2>4. Alone(StreamOps) => streams = {}
    <3>1. streams \subseteq 1 .. created
      BY DEF Inv, TypeOK
    <3>2. Alone(StreamOps) => streams \subseteq {None}
      BY <2>1 DEF WalkingAlone, Building
    <3>3. None \notin 1 .. created
      BY DEF None
    <3> QED
      BY <3>1, <3>2, <3>3
  <2>5. Alone(StreamOps) /\ ~ broken => data_extents_array' = InOrder(number_of_extents)
    BY <2>1, <2>2 DEF WalkingAlone, StreamWalk
  <2>6. created' # None
    BY <2>3 DEF None
  <2>7. pc[t] \in Building /\ "use_stream" \notin Building \cup StreamWalk
    BY <2>1 DEF Building, StreamWalk
  <2>8. Alone(StreamOps) => streams' \subseteq {cluster_block_stream'}
    BY <2>1, <2>4
  <2>9. cluster_block_stream' # None
    BY <2>1, <2>6
  <2> QED
    BY <2>1, <2>5, <2>7, <2>8, <2>9, WalkingAloneMoves
<1>7. CASE UseStream(t)
  BY <1>7, UsesStream, WalkingAloneElsewhere DEF StreamUnchanged, StreamWalk, Building
<1> QED
  BY <1>3, <1>4, <1>5, <1>6, <1>7 DEF StreamSteps

LEMMA WalkingAloneNext ==
  Inv /\ Called /\ Walking /\ WalkingAlone /\ [Next]_vars => WalkingAlone'
<1> SUFFICES ASSUME Inv, Called, Walking, WalkingAlone, [Next]_vars PROVE WalkingAlone'
  OBVIOUS
<1>1. ASSUME NEW t \in Threads, NEW operation \in operations[t], Call(t, operation)
      PROVE  WalkingAlone'
  BY <1>1, WalkingAloneElsewhere DEF Call, StreamWalk, Building, stream_fields
<1>2. ASSUME NEW t \in Threads, Grab(t)
      PROVE  WalkingAlone'
  <2>1. PICK step \in {"get_value", "check_directory", "check_stream"} : Goto(t, step)
    BY <1>2 DEF Grab
  <2> QED
    BY <1>2, <2>1, WalkingAloneElsewhere DEF Grab, StreamWalk, Building, stream_fields
<1>3. ASSUME NEW t \in Threads, GetterSteps(t) \/ Fail(t)
      PROVE  WalkingAlone'
  BY <1>3, WalkingAloneElsewhere
  DEF GetterSteps, GetField, GetFromDirectoryEntry, Fail, Leave, StreamWalk, Building,
      stream_fields
<1>4. ASSUME NEW t \in Threads, Release(t)
      PROVE  WalkingAlone'
  <2>1. \A u \in Threads \ {t} : walked'[u] = walked[u]
    BY <1>4 DEF Release, Inv, Typed
  <2> QED
    BY <1>4, <2>1, WalkingAloneElsewhere DEF Release, StreamWalk, Building
<1>5. ASSUME NEW t \in Threads, DirectorySteps(t)
      PROVE  WalkingAlone'
  <2>1. PICK step \in ListSteps \cup {"fail", "release"} : Goto(t, step)
    BY <1>5
    DEF DirectorySteps, CheckDirectory, GetDirectory, ReadDirectory, SetDirectory,
        FreeDirectory, LoadDirectory, UseDirectory, FailDirectory, Leave, ListSteps
  <2>2. UNCHANGED <<inputs, stream_fields>> /\ pc[t] \in ListSteps
    BY <1>5
    DEF DirectorySteps, CheckDirectory, GetDirectory, ReadDirectory, SetDirectory,
        FreeDirectory, LoadDirectory, UseDirectory, ListSteps
  <2> QED
    BY <2>1, <2>2, WalkingAloneElsewhere DEF ListSteps, StreamWalk, Building, stream_fields
<1>6. ASSUME NEW t \in Threads, Steps(t)
      PROVE  WalkingAlone'
  BY <1>2, <1>3, <1>4, <1>5, <1>6, WalkingAloneStreamSteps DEF Steps
<1>7. CASE Free
  <2>1. \A t \in Threads : pc[t] = "idle" /\ pc'[t] = "freed"
    BY <1>7 DEF Free
  <2>2. /\ UNCHANGED inputs /\ streams' = streams \ {cluster_block_stream}
        /\ cluster_block_stream' = None /\ data_extents_array' = <<>>
    BY <1>7 DEF Free
  <2>3. Alone(StreamOps)' => Alone(StreamOps)
    BY <2>2 DEF Alone, inputs
  <2> QED
    BY <2>1, <2>2, <2>3 DEF WalkingAlone, StreamWalk, Building
<1>8. CASE Resting
  <2>1. UNCHANGED <<inputs, pc, stream_fields>>
    BY <1>8 DEF Resting
  <2> QED
    BY <2>1
    DEF WalkingAlone, Alone, stream_fields, inputs, number_of_extents
<1> QED
  BY <1>1, <1>6, <1>7, <1>8, NextCases

LEMMA WalkingInvariant == Spec => [](Inv /\ Called /\ Walking /\ WalkingAlone)
<1> QED
  BY CalledInit, CalledNext, WalkingInit, WalkingNext, WalkingAloneInit, WalkingAloneNext,
     Invariant, PTL DEF Spec

LEMMA OnlyRuns ==
  ASSUME NEW S, NEW array \in Seq(S)
  PROVE  Extents(array) \subseteq S
<1>1. \A i \in DOMAIN array : array[i] \in S
  OBVIOUS
<1> QED
  BY <1>1 DEF Extents

LEMMA ExtentsNext ==
  Inv /\ Called /\ Walking /\ WalkingAlone /\ ExtentsAnswered /\ [Next]_vars
    => ExtentsAnswered'
<1> SUFFICES ASSUME Inv, Called, Walking, WalkingAlone, ExtentsAnswered, [Next]_vars
             PROVE  ExtentsAnswered'
  OBVIOUS
<1>1. UNCHANGED inputs
  BY InputsKept
<1>2. number_of_extents' = number_of_extents /\ (Alone(StreamOps)' => Alone(StreamOps))
  BY <1>1 DEF inputs, number_of_extents, Alone
<1>3. CASE answer' = answer
  BY <1>2, <1>3 DEF ExtentsAnswered
<1>4. CASE answer'.op \notin {"get_number_of_extents", "get_extent_by_index"}
  BY <1>4 DEF ExtentsAnswered
<1>5. CASE answer'.result = -1
  BY <1>5 DEF ExtentsAnswered
<1>6. ASSUME NEW t \in Threads, pc[t] = "use_stream"
      PROVE  /\ Extents(data_extents_array) = 1 .. number_of_extents
             /\ Alone(StreamOps) => data_extents_array = InOrder(number_of_extents)
  <2>1. cluster_block_stream # None
    BY <1>6 DEF Inv, OffsetWaits
  <2>2. Extents(data_extents_array) \subseteq 1 .. number_of_extents
    BY OnlyRuns DEF Inv, TypeOK
  <2> QED
    BY <2>1, <2>2 DEF Walking, WalkingAlone
<1>7. ASSUME NEW t \in Threads, GetNumberOfExtents(t)
      PROVE  ExtentsAnswered'
  <2>1. answer' = [op |-> "get_number_of_extents", result |-> 1, extents |-> data_extents_array]
    BY <1>7 DEF GetNumberOfExtents, Leave
  <2>2. pc[t] = "use_stream"
    BY <1>7 DEF GetNumberOfExtents
  <2> QED
    BY <1>2, <1>6, <2>1, <2>2 DEF ExtentsAnswered, Extents, InOrder
<1>8. ASSUME NEW t \in Threads, NEW index \in 1 .. NumberOfExtents + 1,
             GetExtentByIndex(t, index), answer'.result # -1
      PROVE  ExtentsAnswered'
  <2>1. /\ index \in DOMAIN data_extents_array
        /\ answer' = [op |-> "get_extent_by_index", result |-> 1, index |-> index,
                      extent |-> data_extents_array[index]]
    BY <1>8 DEF GetExtentByIndex, Leave, Failure
  <2>2. pc[t] = "use_stream"
    BY <1>8 DEF GetExtentByIndex
  <2>3. Alone(StreamOps) => data_extents_array[index] = index
    BY <1>6, <2>1, <2>2 DEF InOrder
  <2> QED
    BY <1>2, <2>1, <2>3 DEF ExtentsAnswered
<1>9. ASSUME NEW t \in Threads, Fail(t)
      PROVE  answer'.result = -1
  BY <1>9 DEF Fail, Leave, Failure
<1>10. ASSUME NEW t \in Threads, DirectorySteps(t) \/ GetterSteps(t), answer' # answer
       PROVE  answer'.op \notin {"get_number_of_extents", "get_extent_by_index"}
  BY <1>10
  DEF DirectorySteps, CheckDirectory, GetDirectory, ReadDirectory, SetDirectory,
      FreeDirectory, LoadDirectory, UseDirectory, GetterSteps, GetField,
      GetFromDirectoryEntry, Leave
<1>11. ASSUME NEW t \in Threads, UseStream(t)
       PROVE  \/ GetNumberOfExtents(t)
              \/ \E index \in 1 .. NumberOfExtents + 1 : GetExtentByIndex(t, index)
              \/ answer'.op \notin {"get_number_of_extents", "get_extent_by_index"}
  BY <1>11
  DEF UseStream, ReadBuffer, ReadBufferAtOffset, ReadData, SeekOffset, GetOffset, Leave, Failure
<1>12. ASSUME NEW t \in Threads, NEW operation \in operations[t], Refuse(t, operation)
       PROVE  answer'.result = -1
  BY <1>12 DEF Refuse
<1>13. \/ answer' = answer
       \/ \E t \in Threads : GetterSteps(t) \/ UseStream(t) \/ Fail(t) \/ DirectorySteps(t)
       \/ \E t \in Threads : \E operation \in operations[t] : Refuse(t, operation)
  BY DEF Next, Call, Steps, Grab, Release, StreamSteps, CheckStream, GetStream,
         AppendExtent, SetStream, Free, vars
<1> QED
  BY <1>3, <1>4, <1>5, <1>7, <1>8, <1>9, <1>10, <1>11, <1>12, <1>13

(* A call that gets the extents of a file gets all runs of its chain,      *)
(* though walks of any number of threads under the lock for reading go into*)
(* the one array (file_entry.c:2537); and a thread that alone uses the data*)
(* gets them in order, for every number of runs.                           *)
THEOREM ExtentsComplete == Spec => []ExtentsAnswered
<1>1. Init => ExtentsAnswered
  BY DEF Init, ExtentsAnswered
<1> QED
  BY <1>1, ExtentsNext, WalkingInvariant, PTL DEF Spec

-----------------------------------------------------------------------------
(***************************************************************************)
(* A freed entry.                                                          *)
(***************************************************************************)

Gone ==
  ~ is_root /\ (\A t \in Threads : pc[t] = "freed")
    => directory = None /\ cluster_block_stream = None

LEMMA GoneNext == Inv /\ Called /\ Gone /\ [Next]_vars => Gone'
<1> SUFFICES ASSUME Inv, Called, Gone, [Next]_vars PROVE Gone'
  OBVIOUS
<1>1. pc \in [Threads -> Inside \cup {"idle", "grab", "freed"}]
  BY DEF Inv, Typed
<1>2. ASSUME NEW t \in Threads, NEW operation \in operations[t], Call(t, operation)
      PROVE  Gone'
  BY <1>1, <1>2 DEF Call, Goto, Gone
<1>3. ASSUME NEW t \in Threads, Steps(t)
      PROVE  Gone'
  <2>1. PICK step \in Inside \cup {"idle"} : Goto(t, step)
    BY <1>3, UsesStream
    DEF Steps, Grab, GetterSteps, GetField, GetFromDirectoryEntry, DirectorySteps,
        CheckDirectory, GetDirectory, ReadDirectory, SetDirectory, FreeDirectory,
        LoadDirectory, UseDirectory, FailDirectory, StreamSteps, CheckStream, GetStream,
        AppendExtent, SetStream, Fail, Release, Leave, Inside, Building
  <2>2. pc'[t] # "freed"
    BY <1>1, <2>1 DEF Goto, Inside, Building
  <2> QED
    BY <2>2 DEF Gone
<1>4. CASE Free
  BY <1>4 DEF Free, Gone
<1>5. CASE Resting
  BY <1>5 DEF Resting, Gone, inputs, directory_fields, stream_fields
<1> QED
  BY <1>2, <1>3, <1>4, <1>5, NextCases

(* A freed entry has freed the directory and the stream that it created:   *)
(* none was lost on the way, neither by a failure nor by a second reading, *)
(* if only one thread could create it, whatever the others did             *)
(* (libfsfat_file_entry_free).                                             *)
THEOREM EverythingFreed == Spec => []FreedCompletely
<1>1. Init => Gone
  BY DEF Init, Gone
<1>2. Inv /\ Listing /\ WalkingAlone /\ Gone => FreedCompletely
  <2> SUFFICES ASSUME Inv, Listing, WalkingAlone, Gone, ~ is_root,
                      \A t \in Threads : pc[t] = "freed"
               PROVE  /\ Alone(DirectoryOps) => directories = {}
                      /\ Alone(StreamOps) => streams = {}
    BY DEF FreedCompletely
  <2>1. directory = None /\ cluster_block_stream = None
    BY DEF Gone
  <2>2. {held[u] : u \in {u \in Threads : pc[u] = "set_directory"}} = {}
    OBVIOUS
  <2>3. Alone(DirectoryOps) => directories \subseteq {None}
    BY <2>1, <2>2 DEF Listing, DirectoriesAllocated
  <2>4. Alone(StreamOps) => streams \subseteq {None}
    BY <2>1 DEF WalkingAlone
  <2>5. None \notin directories /\ None \notin streams
    BY DEF Inv, TypeOK, Typed, None
  <2> QED
    BY <2>3, <2>4, <2>5
<1> QED
  BY <1>1, <1>2, GoneNext, ListingInvariant, WalkingInvariant, PTL DEF Spec
=============================================================================
