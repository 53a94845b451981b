------------------------------- MODULE Volume -------------------------------
(***************************************************************************)
(* Opening and closing a volume (libfsfat_volume.c) by several threads.    *)
(*                                                                         *)
(* An open tests the fields of the volume, reads the file system into it   *)
(* and only then takes the lock, once to set the file IO handle and, when  *)
(* it created the handle itself, once more to set the flag that says so.   *)
(* The steps outside of the lock are actions of their own; what happens    *)
(* inside of the lock is one action, but for a close: the file system is   *)
(* freed before the pointer to it is cleared, and an open may look at it   *)
(* in between.                                                             *)
(***************************************************************************)
EXTENDS Integers, FiniteSets

CONSTANTS
  Threads,
  Operations,      (* the operations each thread calls                     *)
  CallerHandles,   (* file IO handles of the callers                       *)
  LibraryHandles,  (* file IO handles an open by name creates              *)
  Disciplines,     (* whether the callers let no other call run during an  *)
                   (* open, a subset of BOOLEAN                            *)
  MaxCalls         (* bounds the calls of a behaviour                      *)

OpenOps == {"open", "open_file_io_handle"}

AllOps == OpenOps \cup {"close", "get_root_directory"}

None == "none"

ASSUME VolumeAssumption ==
  /\ Operations \in [Threads -> SUBSET AllOps]
  /\ CallerHandles \cap LibraryHandles = {}
  /\ None \notin CallerHandles \cup LibraryHandles
  /\ Disciplines \subseteq BOOLEAN
  /\ MaxCalls \in Nat

Handles == CallerHandles \cup LibraryHandles

NoFileSystem == 0

VARIABLES
  file_io_handle,     (* the handle of the volume, or None                 *)
  created_in_library,
  opened_in_library,
  io_handle,          (* "clear", or "set" by an open                      *)
  file_system,        (* the file system of the volume, or NoFileSystem    *)
  file_systems,       (* how far each allocated file system was read       *)
  created,            (* file systems created so far                       *)
  handles,            (* "absent", "closed", "open" or "freed"             *)
  lent,               (* how the callers hand over their handles           *)
  serial_opens,       (* the discipline of the callers                     *)
  pc,                 (* the next step of each thread                      *)
  op,                 (* the operation of each thread                      *)
  own_handle,         (* the handle a thread is opening                    *)
  own_opened,         (* and whether it opened it                          *)
  reason,             (* why the call of a thread fails                    *)
  answer,             (* what the last call returned                       *)
  calls               (* calls made so far                                 *)

volume_fields == <<file_io_handle, created_in_library, opened_in_library>>

system_fields == <<io_handle, file_system, file_systems, created>>

callers == <<lent, serial_opens>>

own == <<own_handle, own_opened>>

vars == <<volume_fields, system_fields, handles, callers, pc, op, own, reason,
          answer, calls>>

Init ==
  /\ file_io_handle = None
  /\ created_in_library = FALSE
  /\ opened_in_library = FALSE
  /\ io_handle = "clear"
  /\ file_system = NoFileSystem
  /\ file_systems = <<>>
  /\ created = 0
  /\ serial_opens \in Disciplines
  /\ lent \in [CallerHandles -> {"closed", "open"}]
  /\ handles = [h \in Handles |-> IF h \in CallerHandles THEN lent[h] ELSE "absent"]
  /\ pc = [t \in Threads |-> "idle"]
  /\ op = [t \in Threads |-> None]
  /\ own_handle = [t \in Threads |-> None]
  /\ own_opened = [t \in Threads |-> FALSE]
  /\ reason = [t \in Threads |-> None]
  /\ answer = [op |-> None]
  /\ calls = 0

Goto(t, step) == pc' = [pc EXCEPT ![t] = step]

Return(t, record) ==
  /\ Goto(t, "idle")
  /\ op' = [op EXCEPT ![t] = None]
  /\ own_handle' = [own_handle EXCEPT ![t] = None]
  /\ own_opened' = [own_opened EXCEPT ![t] = FALSE]
  /\ reason' = [reason EXCEPT ![t] = None]
  /\ answer' = record
  /\ UNCHANGED <<callers, calls>>

(***************************************************************************)
(* Calls.                                                                  *)
(***************************************************************************)

(* The write lock of the volume is free.                                   *)
Unlocked == \A t \in Threads : pc[t] # "clear_closed"

(* The discipline of callers that open a volume before they share it.      *)
Allowed(t, operation) ==
  serial_opens =>
    /\ \A u \in Threads : op[u] \notin OpenOps
    /\ operation \in OpenOps => \A u \in Threads : op[u] = None

Call(t, operation, handle, step) ==
  /\ pc[t] = "idle"
  /\ operation \in Operations[t]
  /\ Allowed(t, operation)
  /\ calls < MaxCalls
  /\ calls' = calls + 1
  /\ op' = [op EXCEPT ![t] = operation]
  /\ own_handle' = [own_handle EXCEPT ![t] = handle]
  /\ Goto(t, step)
  /\ UNCHANGED <<volume_fields, system_fields, callers, own_opened, reason, answer>>

(* libfsfat_volume_open creates the handle.                                *)
CallOpen(t) ==
  \E h \in LibraryHandles :
    /\ handles[h] = "absent"
    /\ handles' = [handles EXCEPT ![h] = "closed"]
    /\ Call(t, "open", h, "check_handle")

(* The caller hands over a handle that no volume uses.                     *)
CallOpenHandle(t) ==
  \E h \in CallerHandles :
    /\ handles[h] # "freed"
    /\ h # file_io_handle
    /\ \A u \in Threads : own_handle[u] # h
    /\ Call(t, "open_file_io_handle", h, "check_handle")
    /\ UNCHANGED handles

CallClose(t) == Call(t, "close", None, "check_close") /\ UNCHANGED handles

CallGetRoot(t) ==
  Call(t, "get_root_directory", None, "check_root") /\ UNCHANGED handles

(***************************************************************************)
(* Open.                                                                   *)
(***************************************************************************)

FailWith(t, why, step) ==
  /\ reason' = [reason EXCEPT ![t] = why]
  /\ Goto(t, step)

CheckHandle(t) ==
  /\ pc[t] = "check_handle"
  /\ \/ /\ file_io_handle # None
        /\ FailWith(t, "already open", "close_handle")
     \/ /\ file_io_handle = None
        /\ Goto(t, "open_handle")
        /\ UNCHANGED reason
  /\ UNCHANGED <<volume_fields, system_fields, handles, callers, op, own, answer, calls>>

OpenHandle(t) ==
  /\ pc[t] = "open_handle"
  /\ \/ /\ handles[own_handle[t]] = "open"
        /\ Goto(t, "check_file_system")
        /\ UNCHANGED <<handles, own_opened, reason>>
     \/ /\ handles[own_handle[t]] = "closed"
        /\ handles' = [handles EXCEPT ![own_handle[t]] = "open"]
        /\ own_opened' = [own_opened EXCEPT ![t] = TRUE]
        /\ Goto(t, "check_file_system")
        /\ UNCHANGED reason
     \/ /\ handles[own_handle[t]] = "closed"
        /\ FailWith(t, "io", "close_handle")
        /\ UNCHANGED <<handles, own_opened>>
  /\ UNCHANGED <<volume_fields, system_fields, callers, op, own_handle, answer, calls>>

(* libfsfat_internal_volume_open_read: a file system that is set is left   *)
(* alone; otherwise the boot record is read and fills the IO handle.       *)
CheckFileSystem(t) ==
  /\ pc[t] = "check_file_system"
  /\ \/ /\ file_system # NoFileSystem
        /\ FailWith(t, "file system set", "close_handle")
        /\ UNCHANGED io_handle
     \/ /\ file_system = NoFileSystem
        /\ Goto(t, "initialize")
        /\ io_handle' = "set"
        /\ UNCHANGED reason
     \/ /\ file_system = NoFileSystem
        /\ FailWith(t, "io", "free_file_system")
        /\ io_handle' = "set"
  /\ UNCHANGED <<volume_fields, file_system, file_systems, created, handles,
                 callers, op, own, answer, calls>>

InitializeFileSystem(t) ==
  /\ pc[t] = "initialize"
  /\ \/ /\ file_system # NoFileSystem
        /\ FailWith(t, "file system set", "free_file_system")
        /\ UNCHANGED <<file_system, file_systems, created>>
     \/ /\ file_system = NoFileSystem
        /\ created' = created + 1
        /\ file_system' = created'
        /\ file_systems' = [f \in DOMAIN file_systems \cup {created'} |->
                              IF f = created' THEN "empty" ELSE file_systems[f]]
        /\ Goto(t, "read_table")
        /\ UNCHANGED reason
  /\ UNCHANGED <<volume_fields, io_handle, handles, callers, op, own, answer, calls>>

FileSystemIsAllocated == file_system \in DOMAIN file_systems

(* Reads the next part of the file system that the volume has now.  With a *)
(* file system that was freed anything may come out.                       *)
ReadPart(t, before, after, step) ==
  /\ \/ /\ FileSystemIsAllocated
        /\ file_systems[file_system] = before
        /\ file_systems' = [file_systems EXCEPT ![file_system] = after]
        /\ Goto(t, step)
        /\ UNCHANGED reason
     \/ /\ FileSystemIsAllocated
        /\ FailWith(t, IF file_systems[file_system] = before THEN "io" ELSE "read before",
                    "free_file_system")
        /\ UNCHANGED file_systems
     \/ /\ ~ FileSystemIsAllocated
        /\ FailWith(t, "no file system", "free_file_system")
        /\ UNCHANGED file_systems
     \/ /\ ~ FileSystemIsAllocated
        /\ file_system # NoFileSystem
        /\ Goto(t, step)
        /\ UNCHANGED <<file_systems, reason>>
  /\ UNCHANGED <<volume_fields, io_handle, file_system, created, handles, callers,
                 op, own, answer, calls>>

ReadAllocationTable(t) ==
  pc[t] = "read_table" /\ ReadPart(t, "empty", "table", "read_root")

ReadRootDirectory(t) ==
  pc[t] = "read_root" /\ ReadPart(t, "table", "complete", "set_handle")

FreedFileSystems == [f \in DOMAIN file_systems \ {file_system} |-> file_systems[f]]

(* Mutation: the error path leaves the file system in the volume.          *)
FreeFileSystemNot(t) ==
  /\ pc[t] = "free_file_system"
  /\ Goto(t, "close_handle")
  /\ UNCHANGED <<volume_fields, system_fields, handles, callers, op, own, reason,
                 answer, calls>>

(* The label on_error of open_read frees the file system that the volume   *)
(* has now, whoever built it, without the lock.                            *)
FreeFileSystem(t) ==
  /\ pc[t] = "free_file_system"
  /\ file_systems' = FreedFileSystems
  /\ Goto(t, IF file_system = NoFileSystem THEN "close_handle" ELSE "clear_file_system")
  /\ UNCHANGED <<volume_fields, io_handle, file_system, created, handles, callers, op,
                 own, reason, answer, calls>>

(* Mutation: the pointer to the freed file system stays.                   *)
ClearFileSystemNot(t) ==
  /\ pc[t] = "clear_file_system"
  /\ Goto(t, "close_handle")
  /\ UNCHANGED <<volume_fields, system_fields, handles, callers, op, own, reason,
                 answer, calls>>

ClearFileSystem(t) ==
  /\ pc[t] = "clear_file_system"
  /\ file_system' = NoFileSystem
  /\ Goto(t, "close_handle")
  /\ UNCHANGED <<volume_fields, io_handle, file_systems, created, handles, callers,
                 op, own, reason, answer, calls>>

(* The labels on_error of open_file_io_handle and of open.                 *)
CloseHandle(t) ==
  /\ pc[t] = "close_handle"
  /\ handles' = [handles EXCEPT ![own_handle[t]] =
                   IF op[t] = "open" THEN "freed"
                   ELSE IF own_opened[t] THEN "closed"
                   ELSE @]
  /\ Return(t, [op |-> op[t], result |-> -1, reason |-> reason[t]])
  /\ UNCHANGED <<volume_fields, system_fields>>

SetHandle(t) ==
  /\ pc[t] = "set_handle"
  /\ Unlocked
  /\ file_io_handle' = own_handle[t]
  /\ opened_in_library' = own_opened[t]
  /\ \/ /\ op[t] = "open"
        /\ Goto(t, "set_created")
        /\ UNCHANGED <<op, own, reason, answer, callers, calls>>
     \/ /\ op[t] = "open_file_io_handle"
        /\ Return(t, [op |-> op[t], result |-> 1])
  /\ UNCHANGED <<created_in_library, system_fields, handles>>

SetCreated(t) ==
  /\ pc[t] = "set_created"
  /\ Unlocked
  /\ created_in_library' = TRUE
  /\ Return(t, [op |-> op[t], result |-> 1])
  /\ UNCHANGED <<file_io_handle, opened_in_library, system_fields, handles>>

(***************************************************************************)
(* Close, and the use of an open volume.                                   *)
(***************************************************************************)

CheckClose(t) ==
  /\ pc[t] = "check_close"
  /\ \/ /\ file_io_handle = None
        /\ Return(t, [op |-> op[t], result |-> -1])
     \/ /\ file_io_handle # None
        /\ Goto(t, "close")
        /\ UNCHANGED <<op, own, reason, answer, callers, calls>>
  /\ UNCHANGED <<volume_fields, system_fields, handles>>

(* Mutation: the handle that an open by name created is not freed.         *)
HandlesAfterCloseOpened ==
  [h \in Handles |->
     IF h = file_io_handle /\ opened_in_library THEN "closed" ELSE handles[h]]

HandlesAfterClose ==
  [h \in Handles |->
     IF h # file_io_handle THEN handles[h]
     ELSE IF created_in_library THEN "freed"
     ELSE IF opened_in_library THEN "closed"
     ELSE handles[h]]

(* Mutation: the flag of a handle created in the library stays.            *)
CloseVolumeKeepsFlag ==
  /\ handles' = HandlesAfterClose
  /\ opened_in_library' = FALSE
  /\ file_io_handle' = None
  /\ io_handle' = "clear"
  /\ file_systems' = FreedFileSystems
  /\ UNCHANGED <<created, created_in_library>>

CloseVolume ==
  /\ handles' = HandlesAfterClose
  /\ opened_in_library' = FALSE
  /\ created_in_library' = FALSE
  /\ file_io_handle' = None
  /\ io_handle' = "clear"
  /\ file_systems' = FreedFileSystems
  /\ UNCHANGED created

(* The volume may have been closed since the test.                         *)
Close(t) ==
  /\ pc[t] = "close"
  /\ Unlocked
  /\ CloseVolume
  /\ Goto(t, "clear_closed")
  /\ UNCHANGED <<file_system, op, own, reason, answer, callers, calls>>

ClearClosed(t) ==
  /\ pc[t] = "clear_closed"
  /\ file_system' = NoFileSystem
  /\ Return(t, [op |-> op[t], result |-> 0])
  /\ UNCHANGED <<volume_fields, io_handle, file_systems, created, handles>>

CheckRoot(t) ==
  /\ pc[t] = "check_root"
  /\ \/ /\ file_system = NoFileSystem
        /\ Return(t, [op |-> op[t], result |-> -1])
     \/ /\ file_system # NoFileSystem
        /\ Goto(t, "get_root")
        /\ UNCHANGED <<op, own, reason, answer, callers, calls>>
  /\ UNCHANGED <<volume_fields, system_fields, handles>>

(* Mutation: what was tested before the lock is not tested again.          *)
RootIsThereUntested == TRUE

RootIsThere == file_system # NoFileSystem

(* The entry of the root borrows the root directory and the handle.        *)
GetRoot(t) ==
  /\ pc[t] = "get_root"
  /\ Unlocked
  /\ \/ /\ RootIsThere
        /\ Return(t, [op       |-> op[t],
                      result   |-> 1,
                      complete |-> /\ file_io_handle # None
                                   /\ FileSystemIsAllocated
                                   /\ file_systems[file_system] = "complete"])
     \/ /\ ~ FileSystemIsAllocated
        /\ Return(t, [op |-> op[t], result |-> -1])
  /\ UNCHANGED <<volume_fields, system_fields, handles>>

(* libfsfat_volume_free, which closes a volume that is open.               *)
Free ==
  /\ \A t \in Threads : pc[t] = "idle"
  /\ pc' = [t \in Threads |-> "freed"]
  /\ IF file_io_handle # None
     THEN CloseVolume /\ file_system' = NoFileSystem
     ELSE UNCHANGED <<volume_fields, system_fields, handles>>
  /\ UNCHANGED <<callers, op, own, reason, answer, calls>>

Calls(t) == CallOpen(t) \/ CallOpenHandle(t) \/ CallClose(t) \/ CallGetRoot(t)

Steps(t) ==
  \/ CheckHandle(t) \/ OpenHandle(t) \/ CheckFileSystem(t)
  \/ InitializeFileSystem(t) \/ ReadAllocationTable(t) \/ ReadRootDirectory(t)
  \/ FreeFileSystem(t) \/ ClearFileSystem(t) \/ CloseHandle(t) \/ SetHandle(t)
  \/ SetCreated(t) \/ CheckClose(t) \/ Close(t) \/ ClearClosed(t) \/ CheckRoot(t)
  \/ GetRoot(t)

Next == (\E t \in Threads : Calls(t) \/ Steps(t)) \/ Free

Spec == Init /\ [][Next]_vars

(***************************************************************************)
(* Properties.                                                             *)
(***************************************************************************)

(* What the volume points to is allocated and open, however the calls      *)
(* interleave, except while an error path or a close is about to clear the *)
(* pointer (libfsfat_internal_volume_t, libfsfat_volume_close).            *)
TypeOK ==
  /\ file_io_handle \in Handles \cup {None}
  /\ handles \in [Handles -> {"absent", "closed", "open", "freed"}]
  /\ \/ FileSystemIsAllocated
     \/ file_system = NoFileSystem
     \/ \E t \in Threads : pc[t] \in {"clear_file_system", "clear_closed"}
  /\ file_io_handle # None => handles[file_io_handle] = "open"

(* The properties below are about callers that open a volume before they   *)
(* share it: serial_opens.                                                 *)

Quiet == \A t \in Threads : op[t] = None

Closed == Quiet /\ file_io_handle = None

(* While the volume is closed, after any history of opens that fail or     *)
(* succeed and of closes, every handle is back: those of the callers as    *)
(* they were handed over, those of the library freed                       *)
(* (file_io_handle_opened_in_library, _created_in_library).                *)
HandlesReturned ==
  serial_opens /\ Closed =>
    /\ \A h \in CallerHandles : handles[h] = lent[h]
    /\ \A h \in LibraryHandles : handles[h] \in {"absent", "freed"}

(* A closed volume keeps no file system and no flag of a handle it had     *)
(* (on_error of open_read, libfsfat_volume_close).                         *)
ClosedIsEmpty ==
  serial_opens /\ Closed =>
    /\ file_systems = <<>>
    /\ ~ opened_in_library
    /\ ~ created_in_library

(* An open fails only because the volume is open or cannot be read: an     *)
(* open that failed before leaves nothing in its way.                      *)
OpenSucceeds ==
  serial_opens /\ answer.op \in OpenOps /\ answer.result = -1
    => answer.reason \in {"io", "already open"}

(* The entry of the root has its directory and its handle: the volume is   *)
(* not handed out before it is open or after it was closed                 *)
(* (libfsfat_volume_get_root_directory).                                   *)
RootComplete ==
  answer.op = "get_root_directory" /\ answer.result = 1 => answer.complete

(* The same for callers that open before they share.                       *)
SerialRootComplete == serial_opens => RootComplete
=============================================================================
