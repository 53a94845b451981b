----------------------------- MODULE FileEntry ------------------------------
(***************************************************************************)
(* One file entry (libfsfat_file_entry.c) used by several threads.         *)
(*                                                                         *)
(* The entry has a read/write lock.  Its directory and its data stream are *)
(* created by the first call that needs them, which may hold the lock only *)
(* for reading: the steps of such calls interleave.  One action is a step  *)
(* between two accesses to the fields of the entry.                        *)
(*                                                                         *)
(* Reading a directory and walking a cluster chain are modules of their    *)
(* own; here a directory is an object that is allocated and freed, and a   *)
(* walk appends the extents of the file one by one.                        *)
(***************************************************************************)
EXTENDS Integers, Sequences, FiniteSets

CONSTANTS
  Threads,
  Operations,       (* the operations each thread calls, by the callers    *)
  DataSize,         (* size of the data of an entry, but for the root      *)
  ReadSizes,        (* sizes of the buffers of the callers                 *)
  Distances,        (* offsets the callers pass to seek and read at        *)
  NumberOfExtents,  (* runs of clusters of an entry, but for the root      *)
  Roots,            (* whether the entry is that of the root directory     *)
  SubFileEntries,   (* file entries of the directory                       *)
  MaxCalls          (* bounds the calls of a behaviour                     *)

Nobody == "nobody"

(* The functions that get a value: "get_size" for those of a field of the  *)
(* entry, "get_name" for those of its directory entry.                     *)
GetterOps == {"get_size", "get_name"}

DirectoryOps ==
  {"get_number_of_sub_file_entries", "get_sub_file_entry_by_index",
   "get_sub_file_entry_by_name"}

SharedStreamOps == {"get_offset", "get_number_of_extents", "get_extent_by_index"}

WriteOps == {"read_buffer", "read_buffer_at_offset", "seek_offset"}

StreamOps == SharedStreamOps \cup WriteOps

(* The operations that look at the attributes before they take the lock.   *)
RegularFileOps == WriteOps \cup {"get_offset"}

AllOps == GetterOps \cup DirectoryOps \cup StreamOps

ASSUME FileEntryAssumption ==
  /\ Operations \subseteq [Threads -> SUBSET AllOps]
  /\ Nobody \notin Threads
  /\ DataSize \in Nat
  /\ ReadSizes \subseteq Nat
  /\ Distances \subseteq Int
  /\ NumberOfExtents \in Nat
  /\ Roots \subseteq BOOLEAN
  /\ SubFileEntries \in Nat
  /\ MaxCalls \in Nat

None == 0

(* The directory of the file system, which the entry of the root borrows.  *)
RootDirectory == 1

VARIABLES
  operations,           (* the operations that each thread calls           *)
  is_root,
  is_directory,         (* the directory attribute of the entry            *)
  unsupported,          (* with those of a device and of a volume label    *)
  broken,               (* the cluster chain of the file cannot be walked  *)
  pc,                   (* the next step of each thread                    *)
  op,                   (* the operation of each thread                    *)
  readers,              (* threads that hold the lock for reading          *)
  writer,               (* the thread that holds it for writing            *)
  directory,            (* the directory, None before it is read           *)
  managed,              (* the entry frees the directory                   *)
  directories,          (* directories that are allocated                  *)
  held,                 (* the directory a thread is working with          *)
  cluster_block_stream, (* the stream, None before it is built             *)
  offset,               (* the offset of that stream                       *)
  streams,              (* streams that are allocated                      *)
  data_extents_array,
  created,              (* objects created so far                          *)
  walked,               (* extents the walk of a thread has appended       *)
  result,               (* the result of a thread's call so far            *)
  io_failed,            (* the call of a thread met a read error           *)
  answer,               (* what the last call returned                     *)
  calls                 (* calls made so far                               *)

lock == <<readers, writer>>
directory_fields == <<directory, managed, directories, held>>
stream_fields == <<cluster_block_stream, offset, streams, data_extents_array, walked>>
inputs == <<operations, is_root, is_directory, unsupported, broken>>

(* The root has no directory entry that gives it a start cluster or a size.*)
data_size == IF is_root THEN 0 ELSE DataSize

number_of_extents == IF is_root THEN 0 ELSE NumberOfExtents

outcome == <<result, io_failed>>

vars == <<inputs, pc, op, lock, directory_fields, stream_fields, created,
          outcome, answer, calls>>

Init ==
  /\ operations \in Operations
  /\ is_root \in Roots
  /\ is_directory \in (IF is_root THEN {FALSE} ELSE BOOLEAN)
  /\ unsupported \in (IF is_directory THEN BOOLEAN ELSE {FALSE})
  /\ broken \in (IF number_of_extents = 0 THEN {FALSE} ELSE BOOLEAN)
  /\ pc = [t \in Threads |-> "idle"]
  /\ op = [t \in Threads |-> "none"]
  /\ readers = {}
  /\ writer = Nobody
  /\ directory = IF is_root THEN RootDirectory ELSE None
  /\ managed = FALSE
  /\ directories = {directory} \ {None}
  /\ held = [t \in Threads |-> None]
  /\ cluster_block_stream = None
  /\ offset = 0
  /\ streams = {}
  /\ data_extents_array = <<>>
  /\ created = Cardinality(directories)
  /\ walked = [t \in Threads |-> 0]
  /\ result = [t \in Threads |-> 1]
  /\ io_failed = [t \in Threads |-> FALSE]
  /\ answer = [op |-> "none"]
  /\ calls = 0

Goto(t, step) == pc' = [pc EXCEPT ![t] = step]

(* A thread leaves the call with its result; it still holds the lock.      *)
Leave(t, record) ==
  /\ Goto(t, "release")
  /\ answer' = record

Failure(t) == [op |-> op[t], result |-> -1, io_failed |-> io_failed[t], found |-> TRUE]

(***************************************************************************)
(* The lock.                                                               *)
(***************************************************************************)

(* What is no regular file is refused before the lock is taken.            *)
Refuse(t, operation) ==
  /\ pc[t] = "idle"
  /\ unsupported
  /\ operation \in RegularFileOps
  /\ calls < MaxCalls
  /\ calls' = calls + 1
  /\ answer' = [op |-> operation, result |-> -1, io_failed |-> FALSE, found |-> TRUE]
  /\ UNCHANGED <<inputs, pc, op, lock, directory_fields, stream_fields, created,
                 outcome>>

Call(t, operation) ==
  /\ pc[t] = "idle"
  /\ ~ (unsupported /\ operation \in RegularFileOps)
  /\ calls < MaxCalls
  /\ calls' = calls + 1
  /\ op' = [op EXCEPT ![t] = operation]
  /\ Goto(t, "grab")
  /\ UNCHANGED <<inputs, lock, directory_fields, stream_fields, created,
                 outcome, answer>>

(* Mutation: a seek takes the lock for reading.                            *)
GrabsForWriteButSeek(operation) == operation \in WriteOps \ {"seek_offset"}

(* The operations that take the lock for writing.                          *)
GrabsForWrite(operation) == operation \in WriteOps

Grab(t) ==
  /\ pc[t] = "grab"
  /\ writer = Nobody
  /\ \/ /\ GrabsForWrite(op[t])
        /\ readers = {}
        /\ writer' = t
        /\ UNCHANGED readers
     \/ /\ ~ GrabsForWrite(op[t])
        /\ readers' = readers \cup {t}
        /\ UNCHANGED writer
  /\ Goto(t, IF op[t] \in GetterOps THEN "get_value"
             ELSE IF op[t] \in DirectoryOps THEN "check_directory" ELSE "check_stream")
  /\ UNCHANGED <<inputs, op, directory_fields, stream_fields, created,
                 outcome, answer, calls>>

Release(t) ==
  /\ pc[t] = "release"
  /\ readers' = readers \ {t}
  /\ writer' = IF writer = t THEN Nobody ELSE writer
  /\ op' = [op EXCEPT ![t] = "none"]
  /\ held' = [held EXCEPT ![t] = None]
  /\ walked' = [walked EXCEPT ![t] = 0]
  /\ result' = [result EXCEPT ![t] = 1]
  /\ io_failed' = [io_failed EXCEPT ![t] = FALSE]
  /\ Goto(t, "idle")
  /\ UNCHANGED <<inputs, directory, managed, directories, cluster_block_stream,
                 offset, streams, data_extents_array, created, answer, calls>>

(***************************************************************************)
(* The values.  The root has no directory entry: 0, "not available".       *)
(***************************************************************************)

GetField(t) ==
  /\ pc[t] = "get_value"
  /\ op[t] = "get_size"
  /\ Leave(t, [op |-> op[t], result |-> 1, size |-> data_size])
  /\ UNCHANGED <<inputs, op, lock, directory_fields, stream_fields, created,
                 outcome, calls>>

GetFromDirectoryEntry(t) ==
  /\ pc[t] = "get_value"
  /\ op[t] = "get_name"
  /\ Leave(t, [op |-> op[t], result |-> IF is_root THEN 0 ELSE 1])
  /\ UNCHANGED <<inputs, op, lock, directory_fields, stream_fields, created,
                 outcome, calls>>

(***************************************************************************)
(* The directory: libfsfat_internal_file_entry_get_directory and the       *)
(* operations that call it.                                                *)
(***************************************************************************)

(* Mutation: nobody looks whether the directory was read before.           *)
CheckDirectoryNever(t) ==
  /\ pc[t] = "check_directory"
  /\ Goto(t, "get_directory")
  /\ UNCHANGED <<inputs, op, lock, directory_fields, stream_fields, created,
                 outcome, answer, calls>>

CheckDirectory(t) ==
  /\ pc[t] = "check_directory"
  /\ Goto(t, IF directory = None THEN "get_directory" ELSE "load_directory")
  /\ UNCHANGED <<inputs, op, lock, directory_fields, stream_fields, created,
                 outcome, answer, calls>>

(* What the operations do when the directory cannot be determined: the     *)
(* number is still asked of a directory that is there by now.              *)
FailDirectory(t) ==
  /\ result' = [result EXCEPT ![t] = -1]
  /\ Goto(t, IF op[t] = "get_number_of_sub_file_entries" THEN "load_directory" ELSE "fail")

GetDirectory(t) ==
  /\ pc[t] = "get_directory"
  /\ \/ /\ directory # None
        /\ FailDirectory(t)
     \/ /\ directory = None
        /\ Goto(t, IF is_directory THEN "read_directory" ELSE "load_directory")
        /\ UNCHANGED result
  /\ UNCHANGED <<inputs, op, lock, directory_fields, stream_fields, created,
                 io_failed, answer, calls>>

(* libfsfat_file_system_read_directory refuses a directory that is set, or *)
(* builds one, or fails on the way and frees what it built.                *)
ReadDirectory(t) ==
  /\ pc[t] = "read_directory"
  /\ \/ /\ directory # None
        /\ Goto(t, "free_directory")
        /\ UNCHANGED <<directories, held, created, io_failed>>
     \/ /\ directory = None
        /\ created' = created + 1
        /\ directories' = directories \cup {created'}
        /\ held' = [held EXCEPT ![t] = created']
        /\ Goto(t, "set_directory")
        /\ UNCHANGED io_failed
     \/ /\ directory = None
        /\ io_failed' = [io_failed EXCEPT ![t] = TRUE]
        /\ Goto(t, "free_directory")
        /\ UNCHANGED <<directories, held, created>>
  /\ UNCHANGED <<inputs, op, lock, directory, managed, stream_fields, result,
                 answer, calls>>

(* Mutation: the entry is not told that the directory is its own.          *)
SetDirectoryUnmanaged(t) ==
  /\ pc[t] = "set_directory"
  /\ directory' = held[t]
  /\ Goto(t, "load_directory")
  /\ UNCHANGED <<inputs, op, lock, managed, directories, held, stream_fields,
                 created, outcome, answer, calls>>

SetDirectory(t) ==
  /\ pc[t] = "set_directory"
  /\ directory' = held[t]
  /\ managed' = TRUE
  /\ Goto(t, "load_directory")
  /\ UNCHANGED <<inputs, op, lock, directories, held, stream_fields, created,
                 outcome, answer, calls>>

(* The label on_error: frees the directory of the entry, whoever set it.   *)
FreeDirectory(t) ==
  /\ pc[t] = "free_directory"
  /\ directories' = directories \ {directory}
  /\ directory' = None
  /\ FailDirectory(t)
  /\ UNCHANGED <<inputs, op, lock, managed, held, stream_fields, created,
                 io_failed, answer, calls>>

(* Reads the field of the entry; the callee works with the value.          *)
LoadDirectory(t) ==
  /\ pc[t] = "load_directory"
  /\ held' = [held EXCEPT ![t] = directory]
  /\ Goto(t, "use_directory")
  /\ UNCHANGED <<inputs, op, lock, directory, managed, directories,
                 stream_fields, created, outcome, answer, calls>>

(* A sub entry is cloned and initialized.  A name that is not there is     *)
(* answered like an error.                                                 *)
UseDirectory(t) ==
  /\ pc[t] = "use_directory"
  /\ \/ /\ op[t] = "get_number_of_sub_file_entries"
        /\ Leave(t, [op        |-> op[t],
                     result    |-> result[t],
                     io_failed |-> io_failed[t],
                     found     |-> TRUE,
                     number    |-> IF held[t] = None THEN 0 ELSE SubFileEntries])
     \/ /\ op[t] = "get_sub_file_entry_by_index"
        /\ Leave(t, [op        |-> op[t],
                     result    |-> IF held[t] = None THEN -1 ELSE 1,
                     io_failed |-> io_failed[t],
                     found     |-> TRUE])
     \/ /\ op[t] = "get_sub_file_entry_by_name"
        /\ \E found \in BOOLEAN :
             Leave(t, [op        |-> op[t],
                       result    |-> IF held[t] = None \/ ~ found THEN -1 ELSE 1,
                       io_failed |-> io_failed[t],
                       found     |-> found])
  /\ UNCHANGED <<inputs, op, lock, directory_fields, stream_fields, created,
                 outcome, calls>>

(* Mutation: the error path returns without releasing the lock.            *)
FailHoldingLock(t) ==
  /\ pc[t] = "fail"
  /\ Goto(t, "idle")
  /\ answer' = Failure(t)
  /\ UNCHANGED <<inputs, op, lock, directory_fields, stream_fields, created,
                 outcome, calls>>

Fail(t) ==
  /\ pc[t] = "fail"
  /\ Leave(t, Failure(t))
  /\ UNCHANGED <<inputs, op, lock, directory_fields, stream_fields, created,
                 outcome, calls>>

(***************************************************************************)
(* The data stream: libfsfat_file_system_get_data_stream, as a walk over   *)
(* the extents of the file, and the operations that call it.               *)
(***************************************************************************)

CheckStream(t) ==
  /\ pc[t] = "check_stream"
  /\ Goto(t, IF cluster_block_stream = None THEN "get_stream" ELSE "use_stream")
  /\ UNCHANGED <<inputs, op, lock, directory_fields, stream_fields, created,
                 outcome, answer, calls>>

GetStream(t) ==
  /\ pc[t] = "get_stream"
  /\ Goto(t, IF cluster_block_stream # None THEN "fail"
             ELSE IF number_of_extents = 0 THEN "set_stream" ELSE "append_extent")
  /\ UNCHANGED <<inputs, op, lock, directory_fields, stream_fields, created,
                 outcome, answer, calls>>

(* The walk of a broken chain fails at the last run.                       *)
AppendExtent(t) ==
  /\ pc[t] = "append_extent"
  /\ \/ /\ broken
        /\ walked[t] = number_of_extents - 1
        /\ Goto(t, "fail")
        /\ UNCHANGED <<data_extents_array, walked>>
     \/ /\ ~ (broken /\ walked[t] = number_of_extents - 1)
        /\ walked' = [walked EXCEPT ![t] = @ + 1]
        /\ data_extents_array' = Append(data_extents_array, walked'[t])
        /\ Goto(t, IF walked'[t] = number_of_extents
                   THEN "set_stream" ELSE "append_extent")
  /\ UNCHANGED <<inputs, op, lock, directory_fields, cluster_block_stream,
                 offset, streams, created, outcome, answer, calls>>

(* Mutation: the stream does not reach the entry.                          *)
SetStreamForgotten(t) ==
  /\ pc[t] = "set_stream"
  /\ created' = created + 1
  /\ streams' = streams \cup {created'}
  /\ Goto(t, "use_stream")
  /\ UNCHANGED <<inputs, op, lock, directory_fields, cluster_block_stream, offset,
                 data_extents_array, walked, outcome, answer, calls>>

SetStream(t) ==
  /\ pc[t] = "set_stream"
  /\ created' = created + 1
  /\ streams' = streams \cup {created'}
  /\ cluster_block_stream' = created'
  /\ offset' = 0
  /\ Goto(t, "use_stream")
  /\ UNCHANGED <<inputs, op, lock, directory_fields, data_extents_array, walked,
                 outcome, answer, calls>>

(* The number of bytes libfdata reads at an offset of the stream.          *)
ReadCount(at, buffer_size) ==
  IF at >= data_size THEN 0
  ELSE IF buffer_size > data_size - at THEN data_size - at
  ELSE buffer_size

StreamUnchanged ==
  UNCHANGED <<inputs, op, lock, directory_fields, cluster_block_stream, streams,
              data_extents_array, walked, created, outcome, calls>>

(* Where libfdata leaves the offset when the read of a segment fails.      *)
PartlyRead(at, buffer_size) ==
  {at + read_count : read_count \in 0 .. ReadCount(at, buffer_size) - 1}

(* Reads at an offset, the current one or the one libfdata has moved to.   *)
ReadData(t, at, buffer_size) ==
  \/ /\ offset' = at + ReadCount(at, buffer_size)
     /\ Leave(t, [op |-> op[t], at |-> at, result |-> ReadCount(at, buffer_size)])
  \/ /\ offset' \in PartlyRead(at, buffer_size)
     /\ Leave(t, [op |-> "failed_read", at |-> at, result |-> -1])

ReadBuffer(t, buffer_size) ==
  /\ pc[t] = "use_stream"
  /\ op[t] = "read_buffer"
  /\ ReadData(t, offset, buffer_size)
  /\ StreamUnchanged

ReadBufferAtOffset(t, buffer_size, at) ==
  /\ pc[t] = "use_stream"
  /\ op[t] = "read_buffer_at_offset"
  /\ \/ /\ at < 0
        /\ Leave(t, Failure(t))
        /\ UNCHANGED offset
     \/ /\ at >= 0
        /\ ReadData(t, at, buffer_size)
  /\ StreamUnchanged

Target(at, distance, whence) ==
  CASE whence = "set"     -> distance
    [] whence = "current" -> at + distance
    [] whence = "end"     -> data_size + distance

(* The argument doubles as the result: a distance of -1 is taken for an    *)
(* error of the step before.                                               *)
SeekOffset(t, distance, whence) ==
  /\ pc[t] = "use_stream"
  /\ op[t] = "seek_offset"
  /\ \/ /\ distance = -1 \/ Target(offset, distance, whence) < 0
        /\ Leave(t, Failure(t))
        /\ UNCHANGED offset
     \/ /\ distance # -1
        /\ Target(offset, distance, whence) >= 0
        /\ offset' = Target(offset, distance, whence)
        /\ Leave(t, [op |-> op[t], at |-> offset, result |-> offset'])
  /\ StreamUnchanged

GetOffset(t) ==
  /\ pc[t] = "use_stream"
  /\ op[t] = "get_offset"
  /\ Leave(t, [op |-> op[t], at |-> offset, result |-> offset])
  /\ UNCHANGED offset
  /\ StreamUnchanged

GetExtentByIndex(t, index) ==
  /\ pc[t] = "use_stream"
  /\ op[t] = "get_extent_by_index"
  /\ \/ /\ index \in DOMAIN data_extents_array
        /\ Leave(t, [op |-> op[t], result |-> 1, index |-> index,
                     extent |-> data_extents_array[index]])
     \/ /\ index \notin DOMAIN data_extents_array
        /\ Leave(t, Failure(t))
  /\ UNCHANGED offset
  /\ StreamUnchanged

GetNumberOfExtents(t) ==
  /\ pc[t] = "use_stream"
  /\ op[t] = "get_number_of_extents"
  /\ Leave(t, [op |-> op[t], result |-> 1, extents |-> data_extents_array])
  /\ UNCHANGED offset
  /\ StreamUnchanged

(***************************************************************************)
(* The caller frees the entry when no thread uses it any more.             *)
(***************************************************************************)

(* Mutation: the pointer to the freed stream stays.                        *)
FreeKeepsPointer ==
  /\ \A t \in Threads : pc[t] = "idle"
  /\ pc' = [t \in Threads |-> "freed"]
  /\ directories' = IF managed THEN directories \ {directory} ELSE directories
  /\ directory' = None
  /\ streams' = streams \ {cluster_block_stream}
  /\ data_extents_array' = <<>>
  /\ UNCHANGED <<inputs, op, lock, managed, held, cluster_block_stream, offset, walked, created,
                 outcome, answer, calls>>

(* Mutation: the directory is freed, whoever it belongs to.                *)
FreeUnmanaged ==
  /\ \A t \in Threads : pc[t] = "idle"
  /\ pc' = [t \in Threads |-> "freed"]
  /\ directories' = directories \ {directory}
  /\ directory' = None
  /\ streams' = streams \ {cluster_block_stream}
  /\ cluster_block_stream' = None
  /\ data_extents_array' = <<>>
  /\ UNCHANGED <<inputs, op, lock, managed, held, offset, walked, created,
                 outcome, answer, calls>>

Free ==
  /\ \A t \in Threads : pc[t] = "idle"
  /\ pc' = [t \in Threads |-> "freed"]
  /\ directories' = IF managed THEN directories \ {directory} ELSE directories
  /\ directory' = None
  /\ streams' = streams \ {cluster_block_stream}
  /\ cluster_block_stream' = None
  /\ data_extents_array' = <<>>
  /\ UNCHANGED <<inputs, op, lock, managed, held, offset, walked, created,
                 outcome, answer, calls>>

GetterSteps(t) == GetField(t) \/ GetFromDirectoryEntry(t)

DirectorySteps(t) ==
  \/ CheckDirectory(t) \/ GetDirectory(t) \/ ReadDirectory(t)
  \/ SetDirectory(t) \/ FreeDirectory(t) \/ LoadDirectory(t)
  \/ UseDirectory(t)

UseStream(t) ==
  \/ \E buffer_size \in ReadSizes : ReadBuffer(t, buffer_size)
  \/ \E buffer_size \in ReadSizes, at \in Distances :
        ReadBufferAtOffset(t, buffer_size, at)
  \/ \E distance \in Distances, whence \in {"set", "current", "end"} :
        SeekOffset(t, distance, whence)
  \/ GetOffset(t)
  \/ GetNumberOfExtents(t)
  \/ \E index \in 1 .. NumberOfExtents + 1 : GetExtentByIndex(t, index)

StreamSteps(t) ==
  \/ CheckStream(t) \/ GetStream(t) \/ AppendExtent(t) \/ SetStream(t)
  \/ UseStream(t)

Steps(t) ==
  \/ Grab(t) \/ GetterSteps(t) \/ DirectorySteps(t) \/ StreamSteps(t)
  \/ Fail(t) \/ Release(t)

Next ==
  \/ \E t \in Threads : \E operation \in operations[t] :
        Call(t, operation) \/ Refuse(t, operation)
  \/ \E t \in Threads : Steps(t)
  \/ Free

(* A thread inside a call keeps running.                                   *)
Spec == Init /\ [][Next]_vars /\ \A t \in Threads : WF_vars(Steps(t))

(***************************************************************************)
(* Properties.                                                             *)
(***************************************************************************)

(* The fields of the entry: what it points to is allocated                 *)
(* (libfsfat_internal_file_entry_t).                                       *)
TypeOK ==
  /\ readers \subseteq Threads
  /\ writer \in Threads \cup {Nobody}
  /\ cluster_block_stream \in streams \cup {None}
  /\ offset \in Nat
  /\ data_extents_array \in Seq(1 .. number_of_extents)
  /\ directories \subseteq 1 .. created
  /\ streams \subseteq 1 .. created

CursorAnswer ==
  IF answer.op = "none" THEN answer
  ELSE IF \/ answer.op \in GetterOps \cup DirectoryOps
          \/ answer.op \in {"get_number_of_extents", "get_extent_by_index"}
          \/ answer.result = -1 /\ answer.op # "failed_read"
  THEN [op |-> "other"]
  ELSE answer

Cursor == INSTANCE FileCursor
            WITH offset <- offset, answer <- CursorAnswer

(* However the calls of the threads interleave, reads and seeks move one   *)
(* offset as if each of them were a single step.  Several threads may      *)
(* build the stream at the same time, with the lock taken for reading, and *)
(* the last one replaces the streams of the others: this never sets back   *)
(* an offset that a read or a seek has moved (file_entry.c:2371, 2028).  A *)
(* read that fails leaves the offset where it stopped, one at an offset    *)
(* not where it was before the call (2176): every other call that fails    *)
(* leaves it alone.                                                        *)
ImplementsCursor == Cursor!CursorSpec

(* A call ends: no lock is left behind on an error path.                   *)
CallsEnd == \A t \in Threads : (pc[t] = "grab") ~> (pc[t] = "idle")

(* The entry of the root uses the directory of the file system and never   *)
(* frees it, neither on an error path nor at its own end                   *)
(* (LIBFSFAT_FILE_ENTRY_FLAG_MANAGE_DIRECTORY).                            *)
RootDirectoryKept == is_root => RootDirectory \in directories

(* At most one thread calls these operations. *)
Alone(ops) ==
  \A t, u \in Threads : operations[t] \cap ops # {} /\ operations[u] \cap ops # {} => t = u

(* A call fails only for a reason: the volume could not be read, the entry *)
(* is not a directory, or it has no such sub entry                         *)
(* (libfsfat_file_entry_get_number_of_sub_file_entries, 1138).             *)
SubFileEntriesAlwaysAnswered ==
  answer.op \in DirectoryOps /\ answer.result = -1
    => answer.io_failed \/ ~ (is_directory \/ is_root) \/ ~ answer.found

(* That is so if one thread alone uses the directory, whatever the others  *)
(* do with the data.                                                       *)
SubFileEntriesAnswered == Alone(DirectoryOps) => SubFileEntriesAlwaysAnswered

(* The extents of a file are the runs of its chain: all of them are there, *)
(* though walks of several threads that hold the lock for reading go into  *)
(* the one array (file_entry.c:2537); and if one thread alone uses the     *)
(* data then each is there once and in order, and an index is that of the  *)
(* run in the chain.                                                       *)
ExtentsAnswered ==
  /\ answer.op = "get_number_of_extents" /\ answer.result = 1 =>
       /\ {answer.extents[i] : i \in DOMAIN answer.extents} = 1 .. number_of_extents
       /\ Alone(StreamOps) => answer.extents = [i \in 1 .. number_of_extents |-> i]
  /\ answer.op = "get_extent_by_index" /\ answer.result = 1 /\ Alone(StreamOps) =>
       answer.extent = answer.index

(* Freeing the entry frees the directory and the stream it created: none   *)
(* was lost on the way, if only one thread could create it                 *)
(* (libfsfat_file_entry_free).                                             *)
FreedCompletely ==
  ~ is_root /\ (\A t \in Threads : pc[t] = "freed") =>
    /\ Alone(DirectoryOps) => directories = {}
    /\ Alone(StreamOps) => streams = {}
=============================================================================
