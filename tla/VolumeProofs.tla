---------------------------- MODULE VolumeProofs ----------------------------
(***************************************************************************)
(* Proofs about a volume that any number of threads open and close: what   *)
(* it points to is allocated and open, whatever the threads do, and every  *)
(* handle is given back when the callers open before they share.           *)
(***************************************************************************)
EXTENDS Volume, TLAPS

(* The steps of an open that has not handed its handle to the volume.      *)
Opening ==
  {"check_handle", "open_handle", "check_file_system", "initialize", "read_table",
   "read_root", "free_file_system", "clear_file_system", "close_handle", "set_handle"}

(* Those of them that come after the handle was opened.                    *)
Opened == {"check_file_system", "initialize", "read_table", "read_root", "set_handle"}

Closing == {"check_close", "close", "clear_closed"}

Using == {"check_root", "get_root"}

(* The steps of a thread fit its operation.                                *)
Placed ==
  /\ pc \in [Threads -> Opening \cup Closing \cup Using
                          \cup {"idle", "set_created", "freed"}]
  /\ op \in [Threads -> AllOps \cup {None}]
  /\ own_handle \in [Threads -> Handles \cup {None}]
  /\ own_opened \in [Threads -> BOOLEAN]
  /\ opened_in_library \in BOOLEAN
  /\ created_in_library \in BOOLEAN
  /\ lent \in [CallerHandles -> {"closed", "open"}]
  /\ \A t \in Threads :
       /\ pc[t] \in Opening => op[t] \in OpenOps
       /\ pc[t] = "set_created" => op[t] = "open"
       /\ pc[t] \in Closing => op[t] = "close"
       /\ pc[t] \in Using => op[t] = "get_root_directory"

(* An open works with a handle of its own.                                 *)
Owned ==
  /\ \A t \in Threads : pc[t] \in Opening =>
       /\ own_handle[t] \in Handles
       /\ own_handle[t] # file_io_handle
       /\ handles[own_handle[t]] # "absent"
       /\ pc[t] \in Opened => handles[own_handle[t]] = "open"
  /\ \A t, u \in Threads :
       pc[t] \in Opening /\ pc[u] \in Opening /\ t # u => own_handle[t] # own_handle[u]
  /\ \A h \in CallerHandles : handles[h] # "absent"

Inv == TypeOK /\ Placed /\ Owned

-----------------------------------------------------------------------------

LEMMA InvInit == Init => Inv
<1> SUFFICES ASSUME Init PROVE Inv
  OBVIOUS
<1>1. /\ handles \in [Handles -> {"absent", "closed", "open", "freed"}]
      /\ \A h \in CallerHandles : handles[h] # "absent"
  BY DEF Init, Handles
<1>2. TypeOK
  BY <1>1 DEF Init, TypeOK
<1>3. Placed
  BY DEF Init, Placed, Opening, Closing, Using
<1>4. Owned
  BY <1>1 DEF Init, Owned, Opening
<1> QED
  BY <1>2, <1>3, <1>4 DEF Inv

LEMMA CallOpenKeeps ==
  ASSUME Inv, NEW t \in Threads, CallOpen(t)
  PROVE  Inv'
  BY VolumeAssumption
  DEF CallOpen, Call, Goto, Inv, TypeOK, Placed, Owned, Opening, Opened, Closing,
      Using, Handles, FileSystemIsAllocated, volume_fields, system_fields, callers,
      AllOps, OpenOps

LEMMA CallOpenHandleKeeps ==
  ASSUME Inv, NEW t \in Threads, CallOpenHandle(t)
  PROVE  Inv'
  BY DEF CallOpenHandle, Call, Goto, Inv, TypeOK, Placed, Owned, Opening, Opened,
      Closing, Using, Handles, FileSystemIsAllocated, volume_fields, system_fields,
      callers, AllOps, OpenOps

LEMMA CallOtherKeeps ==
  ASSUME Inv, NEW t \in Threads, CallClose(t) \/ CallGetRoot(t)
  PROVE  Inv'
  BY DEF CallClose, CallGetRoot, Call, Goto, Inv, TypeOK, Placed, Owned, Opening,
      Closing, Using, FileSystemIsAllocated, volume_fields, system_fields, callers,
      AllOps

(* A step of an open that changes nothing of the handles.                  *)
LEMMA OpeningKeeps ==
  ASSUME Inv, NEW t \in Threads, pc[t] \in Opening \ {"clear_file_system"},
         NEW step \in Opening, Goto(t, step),
         step \in Opened => pc[t] \in Opened,
         UNCHANGED <<volume_fields, handles, callers, op, own>>,
         \/ FileSystemIsAllocated'
         \/ file_system' = file_system /\ DOMAIN file_systems' = DOMAIN file_systems
  PROVE  Inv'
<1>1. /\ pc' = [pc EXCEPT ![t] = step]
      /\ pc' \in [Threads -> Opening \cup Closing \cup Using
                                \cup {"idle", "set_created", "freed"}]
      /\ \A u \in Threads : pc'[u] = IF u = t THEN step ELSE pc[u]
  BY DEF Goto, Inv, Placed
<1>2. Placed'
  BY <1>1 DEF Inv, Placed, Opening, Closing, Using, volume_fields, callers, own
<1>3. Owned'
  BY <1>1 DEF Inv, Owned, Opening, Opened, volume_fields, own
<1>4. TypeOK'
  <2>1. \A u \in Threads : pc[u] \in {"clear_file_system", "clear_closed"} => pc'[u] = pc[u]
    BY <1>1 DEF Opening
  <2> QED
    BY <2>1 DEF Inv, TypeOK, FileSystemIsAllocated, volume_fields
<1> QED
  BY <1>2, <1>3, <1>4 DEF Inv

LEMMA CheckHandleKeeps ==
  ASSUME Inv, NEW t \in Threads, CheckHandle(t)
  PROVE  Inv'
  BY OpeningKeeps DEF CheckHandle, FailWith, Opening, Opened, system_fields

LEMMA OpenHandleKeeps ==
  ASSUME Inv, NEW t \in Threads, OpenHandle(t)
  PROVE  Inv'
<1>1. /\ pc' \in [Threads -> Opening \cup Closing \cup Using
                                \cup {"idle", "set_created", "freed"}]
      /\ \A u \in Threads : u # t => pc'[u] = pc[u]
      /\ pc'[t] \in {"check_file_system", "close_handle"}
      /\ pc[t] = "open_handle"
      /\ pc'[t] = "check_file_system" => handles'[own_handle[t]] = "open"
  BY DEF OpenHandle, FailWith, Goto, Inv, TypeOK, Placed, Owned, Opening
<1>2. /\ own_handle[t] \in Handles
      /\ own_handle[t] # file_io_handle
      /\ \A u \in Threads : pc[u] \in Opening /\ u # t => own_handle[u] # own_handle[t]
  BY <1>1 DEF Inv, Owned, Opening
<1>3. /\ handles' \in [Handles -> {"absent", "closed", "open", "freed"}]
      /\ \A h \in Handles : h # own_handle[t] => handles'[h] = handles[h]
      /\ handles'[own_handle[t]] \in {"closed", "open"}
  BY <1>2 DEF OpenHandle, Inv, TypeOK
<1>4. TypeOK'
  <2>1. \A u \in Threads : pc[u] \in {"clear_file_system", "clear_closed"} => pc'[u] = pc[u]
    BY <1>1
  <2> QED
    BY <1>2, <1>3, <2>1, VolumeAssumption
    DEF OpenHandle, Inv, TypeOK, FileSystemIsAllocated, volume_fields, system_fields
<1>5. Placed'
  BY <1>1 DEF OpenHandle, Inv, Placed, Opening, Closing, Using, volume_fields, callers
<1>6. Owned'
  BY <1>1, <1>2, <1>3 DEF OpenHandle, Inv, Owned, Opening, Opened, Handles, volume_fields
<1> QED
  BY <1>4, <1>5, <1>6 DEF Inv

LEMMA CheckFileSystemKeeps ==
  ASSUME Inv, NEW t \in Threads, CheckFileSystem(t)
  PROVE  Inv'
  BY OpeningKeeps DEF CheckFileSystem, FailWith, Opening, Opened

LEMMA InitializeFileSystemKeeps ==
  ASSUME Inv, NEW t \in Threads, InitializeFileSystem(t)
  PROVE  Inv'
<1>1. CASE file_system # NoFileSystem
  BY <1>1, OpeningKeeps DEF InitializeFileSystem, FailWith, Opening, Opened
<1>2. CASE file_system = NoFileSystem
  <2>1. FileSystemIsAllocated'
    BY <1>2 DEF InitializeFileSystem, FileSystemIsAllocated
  <2> QED
    BY <1>2, <2>1, OpeningKeeps DEF InitializeFileSystem, Opening, Opened
<1> QED
  BY <1>1, <1>2

LEMMA ReadAllocationTableKeeps ==
  ASSUME Inv, NEW t \in Threads, ReadAllocationTable(t)
  PROVE  Inv'
<1>1. DOMAIN file_systems' = DOMAIN file_systems
  BY DEF ReadAllocationTable, ReadPart
<1> QED
  BY <1>1, OpeningKeeps DEF ReadAllocationTable, ReadPart, FailWith, Opening, Opened

LEMMA ReadRootDirectoryKeeps ==
  ASSUME Inv, NEW t \in Threads, ReadRootDirectory(t)
  PROVE  Inv'
<1>1. DOMAIN file_systems' = DOMAIN file_systems
  BY DEF ReadRootDirectory, ReadPart
<1> QED
  BY <1>1, OpeningKeeps DEF ReadRootDirectory, ReadPart, FailWith, Opening, Opened

LEMMA FreeFileSystemKeeps ==
  ASSUME Inv, NEW t \in Threads, FreeFileSystem(t)
  PROVE  Inv'
  BY DEF FreeFileSystem, Goto, Inv, TypeOK, Placed, Owned, Opening, Opened, Closing,
      Using, volume_fields, callers, own

LEMMA ClearFileSystemKeeps ==
  ASSUME Inv, NEW t \in Threads, ClearFileSystem(t)
  PROVE  Inv'
  BY DEF ClearFileSystem, Goto, Inv, TypeOK, Placed, Owned, Opening, Opened, Closing,
      Using, volume_fields, callers, own

LEMMA CloseHandleKeeps ==
  ASSUME Inv, NEW t \in Threads, CloseHandle(t)
  PROVE  Inv'
  BY DEF CloseHandle, Goto, Return, Inv, TypeOK, Placed, Owned, Opening, Closing,
      Using, FileSystemIsAllocated, volume_fields, system_fields, callers

LEMMA SetHandleKeeps ==
  ASSUME Inv, NEW t \in Threads, SetHandle(t)
  PROVE  Inv'
<1>1. /\ pc' \in [Threads -> Opening \cup Closing \cup Using
                                \cup {"idle", "set_created", "freed"}]
      /\ \A u \in Threads : u # t => pc'[u] = pc[u]
      /\ pc'[t] \in {"idle", "set_created"}
      /\ pc[t] = "set_handle"
      /\ pc'[t] = "set_created" => op'[t] = "open"
  BY DEF SetHandle, Return, Goto, Inv, Placed
<1>2. /\ op' \in [Threads -> AllOps \cup {None}]
      /\ own_handle' \in [Threads -> Handles \cup {None}]
      /\ own_opened' \in [Threads -> BOOLEAN]
      /\ \A u \in Threads : u # t => op'[u] = op[u] /\ own_handle'[u] = own_handle[u]
  BY DEF SetHandle, Return, Inv, Placed, own
<1>3. /\ file_io_handle' = own_handle[t]
      /\ handles' = handles
      /\ own_handle[t] \in Handles
      /\ handles[own_handle[t]] = "open"
      /\ \A u \in Threads : pc[u] \in Opening /\ u # t => own_handle[u] # own_handle[t]
  BY <1>1 DEF SetHandle, Inv, Owned, Opening, Opened
<1>4. Placed'
  <2>1. opened_in_library' \in BOOLEAN /\ created_in_library' \in BOOLEAN /\ lent' = lent
    BY DEF SetHandle, Return, Inv, Placed, callers
  <2> QED
    BY <1>1, <1>2, <2>1 DEF Inv, Placed, Opening, Closing, Using
<1>5. Owned'
  <2>1. pc'[t] \notin Opening
    BY <1>1 DEF Opening
  <2> QED
    BY <1>1, <1>2, <1>3, <2>1 DEF Inv, Owned
<1>6. TypeOK'
  <2>1. \A u \in Threads : pc[u] \in {"clear_file_system", "clear_closed"} => pc'[u] = pc[u]
    BY <1>1
  <2> QED
    BY <1>3, <2>1 DEF SetHandle, Inv, TypeOK, FileSystemIsAllocated, system_fields
<1> QED
  BY <1>4, <1>5, <1>6 DEF Inv

LEMMA SetCreatedKeeps ==
  ASSUME Inv, NEW t \in Threads, SetCreated(t)
  PROVE  Inv'
  BY DEF SetCreated, Goto, Return, Inv, TypeOK, Placed, Owned, Opening, Closing, Using,
      FileSystemIsAllocated, system_fields, callers

(* A step outside of an open that changes nothing of the volume.           *)
LEMMA LeavingKeeps ==
  ASSUME Inv, NEW t \in Threads, pc[t] \in {"check_close", "check_root", "get_root"},
         NEW step \in {"idle", "close", "get_root"}, Goto(t, step),
         step = "close" => pc[t] = "check_close",
         step = "get_root" => pc[t] = "check_root",
         \/ step # "idle" /\ UNCHANGED <<op, own>>
         \/ /\ step = "idle"
            /\ op' = [op EXCEPT ![t] = None]
            /\ own_handle' = [own_handle EXCEPT ![t] = None]
            /\ own_opened' = [own_opened EXCEPT ![t] = FALSE],
         UNCHANGED <<volume_fields, system_fields, handles, callers>>
  PROVE  Inv'
<1>1. /\ pc' \in [Threads -> Opening \cup Closing \cup Using
                                \cup {"idle", "set_created", "freed"}]
      /\ pc'[t] = step
      /\ \A u \in Threads : u # t => pc'[u] = pc[u]
  BY DEF Goto, Inv, Placed, Closing, Using
<1>2. /\ op' \in [Threads -> AllOps \cup {None}]
      /\ own_handle' \in [Threads -> Handles \cup {None}]
      /\ own_opened' \in [Threads -> BOOLEAN]
      /\ step # "idle" => op'[t] = op[t]
      /\ \A u \in Threads : u # t => op'[u] = op[u] /\ own_handle'[u] = own_handle[u]
  BY DEF Inv, Placed, own
<1>3. pc[t] \notin Opening /\ step \notin Opening
  BY DEF Opening
<1>4. Placed'
  BY <1>1, <1>2, <1>3 DEF Inv, Placed, Closing, Using, volume_fields, callers
<1>5. Owned'
  BY <1>1, <1>2, <1>3 DEF Inv, Owned, volume_fields
<1>6. TypeOK'
  <2>1. \A u \in Threads : pc[u] \in {"clear_file_system", "clear_closed"} => pc'[u] = pc[u]
    BY <1>1
  <2> QED
    BY <2>1 DEF Inv, TypeOK, FileSystemIsAllocated, volume_fields, system_fields
<1> QED
  BY <1>4, <1>5, <1>6 DEF Inv

LEMMA CheckCloseKeeps ==
  ASSUME Inv, NEW t \in Threads, CheckClose(t)
  PROVE  Inv'
  BY LeavingKeeps
  DEF CheckClose, Return

(* The handles after a close: only that of the volume has changed.         *)
LEMMA ClosedHandles ==
  ASSUME Inv, CloseVolume
  PROVE  /\ handles' \in [Handles -> {"absent", "closed", "open", "freed"}]
         /\ \A h \in Handles : h # file_io_handle => handles'[h] = handles[h]
         /\ \A h \in Handles : handles[h] # "absent" => handles'[h] # "absent"
         /\ file_io_handle' = None
  BY DEF CloseVolume, HandlesAfterClose, Inv, TypeOK

LEMMA CloseKeeps ==
  ASSUME Inv, NEW t \in Threads, Close(t)
  PROVE  Inv'
<1>1. /\ pc' \in [Threads -> Opening \cup Closing \cup Using
                                \cup {"idle", "set_created", "freed"}]
      /\ \A u \in Threads : u # t => pc'[u] = pc[u]
      /\ pc'[t] = "clear_closed"
      /\ pc[t] = "close"
  BY DEF Close, Goto, Inv, Placed, Closing
<1>2. /\ handles' \in [Handles -> {"absent", "closed", "open", "freed"}]
      /\ \A h \in Handles : h # file_io_handle => handles'[h] = handles[h]
      /\ \A h \in Handles : handles[h] # "absent" => handles'[h] # "absent"
      /\ file_io_handle' = None
  BY ClosedHandles DEF Close
<1>3. Placed'
  <2>1. opened_in_library' \in BOOLEAN /\ created_in_library' \in BOOLEAN
    BY DEF Close, CloseVolume
  <2> QED
    BY <1>1, <2>1 DEF Close, Inv, Placed, Opening, Closing, Using, own, callers
<1>4. Owned'
  <2>1. \A u \in Threads : pc'[u] \in Opening => u # t /\ pc[u] \in Opening
    BY <1>1 DEF Opening
  <2>2. own_handle' = own_handle
    BY DEF Close, own
  <2>3. None \notin Handles
    BY VolumeAssumption DEF Handles
  <2> QED
    BY <1>1, <1>2, <2>1, <2>2, <2>3 DEF Inv, Owned, Handles
<1>5. TypeOK'
  BY <1>1, <1>2 DEF TypeOK
<1> QED
  BY <1>3, <1>4, <1>5 DEF Inv

LEMMA ClearClosedKeeps ==
  ASSUME Inv, NEW t \in Threads, ClearClosed(t)
  PROVE  Inv'
  BY DEF ClearClosed, Goto, Return, Inv, TypeOK, Placed, Owned, Opening, Closing,
      Using, volume_fields, callers

LEMMA CheckRootKeeps ==
  ASSUME Inv, NEW t \in Threads, CheckRoot(t)
  PROVE  Inv'
  BY LeavingKeeps
  DEF CheckRoot, Return

LEMMA GetRootKeeps ==
  ASSUME Inv, NEW t \in Threads, GetRoot(t)
  PROVE  Inv'
  BY LeavingKeeps, VolumeAssumption
  DEF GetRoot, Return, Goto, volume_fields, system_fields, own, Inv, Placed, Closing, Using

LEMMA FreeKeeps ==
  ASSUME Inv, Free
  PROVE  Inv'
<1>1. pc' = [t \in Threads |-> "freed"] /\ \A t \in Threads : pc[t] = "idle"
  BY DEF Free
<1>2. CASE file_io_handle # None
  <2>1. CloseVolume /\ file_system' = NoFileSystem
    BY <1>2 DEF Free
  <2>2. TypeOK'
    BY <2>1, ClosedHandles DEF TypeOK
  <2>3. Placed'
    BY <1>1, <2>1 DEF Free, CloseVolume, Inv, Placed, Opening, Closing, Using, own, callers
  <2>4. Owned'
    BY <1>1, <2>1, ClosedHandles DEF Inv, Owned, Opening, Handles
  <2> QED
    BY <2>2, <2>3, <2>4 DEF Inv
<1>3. CASE file_io_handle = None
  <2>1. UNCHANGED <<volume_fields, system_fields, handles>>
    BY <1>3 DEF Free
  <2>2. TypeOK'
    BY <1>1, <2>1
    DEF Inv, TypeOK, FileSystemIsAllocated, volume_fields, system_fields
  <2>3. Placed'
    BY <1>1, <2>1 DEF Free, Inv, Placed, Opening, Closing, Using, own, callers, volume_fields
  <2>4. Owned'
    BY <1>1, <2>1 DEF Inv, Owned, Opening
  <2> QED
    BY <2>2, <2>3, <2>4 DEF Inv
<1> QED
  BY <1>2, <1>3

LEMMA StutterKeeps ==
  ASSUME Inv, UNCHANGED vars
  PROVE  Inv'
  BY DEF vars, Inv, TypeOK, Placed, Owned, FileSystemIsAllocated, volume_fields,
      system_fields, callers, own

LEMMA InvNext == Inv /\ [Next]_vars => Inv'
<1> SUFFICES ASSUME Inv, [Next]_vars PROVE Inv'
  OBVIOUS
<1>1. ASSUME NEW t \in Threads, Calls(t)
      PROVE  Inv'
  BY <1>1, CallOpenKeeps, CallOpenHandleKeeps, CallOtherKeeps DEF Calls
<1>2. ASSUME NEW t \in Threads, Steps(t)
      PROVE  Inv'
  BY <1>2, CheckHandleKeeps, OpenHandleKeeps, CheckFileSystemKeeps,
     InitializeFileSystemKeeps, ReadAllocationTableKeeps, ReadRootDirectoryKeeps,
     FreeFileSystemKeeps, ClearFileSystemKeeps, CloseHandleKeeps, SetHandleKeeps,
     SetCreatedKeeps, CheckCloseKeeps, CloseKeeps, ClearClosedKeeps, CheckRootKeeps,
     GetRootKeeps
  DEF Steps
<1> QED
  BY <1>1, <1>2, FreeKeeps, StutterKeeps DEF Next

LEMMA Invariant == Spec => []Inv
<1> QED
  BY InvInit, InvNext, PTL DEF Spec

(* What the volume points to is allocated and open, whatever number of     *)
(* threads open, use and close it at the same time, except while an error  *)
(* path or a close is about to clear the pointer                           *)
(* (libfsfat_internal_volume_t, libfsfat_volume_close).                    *)
THEOREM TypeCorrect == Spec => []TypeOK
<1>1. Inv => TypeOK
  BY DEF Inv
<1> QED
  BY <1>1, Invariant, PTL
-----------------------------------------------------------------------------
(***************************************************************************)
(* Callers that open a volume before they share it get every handle back.  *)
(***************************************************************************)

(* The steps of an open that has seen no handle in the volume.             *)
Fresh == Opening \ {"check_handle", "close_handle"}

(* While a volume is opened no other call runs.                            *)
Alone == \A t, u \in Threads : op[t] \in OpenOps /\ t # u => op[u] = None

(* A handle that neither the volume nor an open holds is back.             *)
Back ==
  \A h \in Handles :
    h # file_io_handle /\ (\A t \in Threads : pc[t] \in Opening => own_handle[t] # h)
      => IF h \in CallerHandles THEN handles[h] = lent[h]
                                ELSE handles[h] \in {"absent", "freed"}

(* The flags of the volume say how its handle is given back.               *)
Flagged ==
  /\ file_io_handle = None => ~ opened_in_library /\ ~ created_in_library
  /\ file_io_handle \in CallerHandles =>
       /\ ~ created_in_library
       /\ opened_in_library <=> lent[file_io_handle] = "closed"
  /\ file_io_handle \in LibraryHandles =>
       created_in_library \/ \E t \in Threads : pc[t] = "set_created"
  /\ \A t \in Threads : pc[t] = "set_created" => file_io_handle \in LibraryHandles

(* An open knows how to give its handle back.                              *)
Returnable ==
  \A t \in Threads :
    /\ pc[t] \in {"idle", "check_handle", "open_handle"} => ~ own_opened[t]
    /\ pc[t] \in Fresh => file_io_handle = None
    /\ pc[t] \in Opening =>
         IF op[t] = "open" THEN own_handle[t] \in LibraryHandles
         ELSE /\ own_handle[t] \in CallerHandles
              /\ handles[own_handle[t]] =
                   IF own_opened[t] THEN "open" ELSE lent[own_handle[t]]
              /\ own_opened[t] => lent[own_handle[t]] = "closed"

Lending == Alone /\ Back /\ Flagged /\ Returnable

LEMMA LendingInit == Init => Lending
  BY VolumeAssumption
  DEF Init, Lending, Alone, Back, Flagged, Returnable, Fresh, Opening, Handles, OpenOps

(* Beside an open, and behind one that has set the handle, nothing runs.   *)
LEMMA OpensAlone ==
  ASSUME Inv, Alone, NEW t \in Threads, op[t] \in OpenOps, NEW u \in Threads, u # t
  PROVE  op[u] = None /\ pc[u] \in {"idle", "freed"}
  BY DEF Inv, Placed, Alone, OpenOps, Closing, Using, None

LEMMA NotOpening ==
  ASSUME Inv, Alone, NEW t \in Threads, op[t] \notin OpenOps \cup {None}, NEW u \in Threads
  PROVE  pc[u] \notin Opening /\ pc[u] # "set_created"
  BY DEF Inv, Placed, Alone, OpenOps, None

LEMMA CallOpenLends ==
  ASSUME Inv, serial_opens, Lending, NEW t \in Threads, CallOpen(t)
  PROVE  Lending'
  BY DEF CallOpen, Call, Allowed, Goto, Inv, Placed, Lending, Alone, Back, Flagged,
      Returnable, Fresh, Opening, volume_fields, callers

LEMMA CallOpenHandleLends ==
  ASSUME Inv, serial_opens, Lending, NEW t \in Threads, CallOpenHandle(t)
  PROVE  Lending'
  BY DEF CallOpenHandle, Call, Allowed, Goto, Inv, Placed, Lending, Alone, Back,
      Flagged, Returnable, Fresh, Handles, volume_fields, callers

LEMMA CallCloseLends ==
  ASSUME Inv, serial_opens, Lending, NEW t \in Threads, CallClose(t)
  PROVE  Lending'
  BY DEF CallClose, Call, Allowed, Goto, Lending, Alone, Back, Flagged, Returnable,
      Fresh, Opening, volume_fields, callers

LEMMA CallGetRootLends ==
  ASSUME Inv, serial_opens, Lending, NEW t \in Threads, CallGetRoot(t)
  PROVE  Lending'
  BY DEF CallGetRoot, Call, Allowed, Goto, Lending, Alone, Back, Flagged, Returnable,
      Fresh, Opening, volume_fields, callers

(* A step of an open that changes nothing of the handles.                  *)
LEMMA OpeningLends ==
  ASSUME Inv, Lending, NEW t \in Threads, pc[t] \in Opening,
         NEW step \in Opening \ {"check_handle"}, Goto(t, step),
         step = "open_handle" => pc[t] = "check_handle",
         step \in Fresh => pc[t] \in Fresh \/ file_io_handle = None,
         UNCHANGED <<volume_fields, handles, callers, op, own>>
  PROVE  Lending'
<1>1. /\ pc'[t] = step
      /\ \A u \in Threads : u # t => pc'[u] = pc[u]
      /\ step \in Opening
      /\ \A u \in Threads : pc'[u] \in Opening <=> pc[u] \in Opening
  BY DEF Goto, Inv, Placed
<1>2. Alone'
  BY DEF Lending, Alone
<1>3. Back'
  BY <1>1 DEF Lending, Back, volume_fields, callers, own
<1>4. Flagged'
  <2>1. \A u \in Threads : pc'[u] = "set_created" <=> pc[u] = "set_created"
    BY <1>1 DEF Opening
  <2> QED
    BY <2>1 DEF Lending, Flagged, volume_fields, callers
<1>5. Returnable'
  <2>1. step # "idle"
    BY DEF Opening
  <2> QED
    BY <1>1, <2>1 DEF Lending, Returnable, volume_fields, callers, own
<1> QED
  BY <1>2, <1>3, <1>4, <1>5 DEF Lending

LEMMA CheckHandleLends ==
  ASSUME Inv, Lending, NEW t \in Threads, CheckHandle(t)
  PROVE  Lending'
  BY OpeningLends DEF CheckHandle, FailWith, Opening, Fresh, system_fields

LEMMA OpenHandleLends ==
  ASSUME Inv, serial_opens, Lending, NEW t \in Threads, OpenHandle(t)
  PROVE  Lending'
  BY DEF OpenHandle, Goto, FailWith, Inv, TypeOK, Placed, Owned, Lending, Alone, Back,
      Flagged, Returnable, Fresh, Opening, volume_fields, callers

LEMMA CheckFileSystemLends ==
  ASSUME Inv, Lending, NEW t \in Threads, CheckFileSystem(t)
  PROVE  Lending'
  BY OpeningLends DEF CheckFileSystem, FailWith, Opening, Fresh

LEMMA InitializeFileSystemLends ==
  ASSUME Inv, Lending, NEW t \in Threads, InitializeFileSystem(t)
  PROVE  Lending'
  BY OpeningLends DEF InitializeFileSystem, FailWith, Opening, Fresh

LEMMA ReadAllocationTableLends ==
  ASSUME Inv, Lending, NEW t \in Threads, ReadAllocationTable(t)
  PROVE  Lending'
  BY OpeningLends DEF ReadAllocationTable, ReadPart, FailWith, Opening, Fresh

LEMMA ReadRootDirectoryLends ==
  ASSUME Inv, Lending, NEW t \in Threads, ReadRootDirectory(t)
  PROVE  Lending'
  BY OpeningLends DEF ReadRootDirectory, ReadPart, FailWith, Opening, Fresh

LEMMA FreeFileSystemLends ==
  ASSUME Inv, Lending, NEW t \in Threads, FreeFileSystem(t)
  PROVE  Lending'
  BY OpeningLends DEF FreeFileSystem, Opening, Fresh

LEMMA ClearFileSystemLends ==
  ASSUME Inv, Lending, NEW t \in Threads, ClearFileSystem(t)
  PROVE  Lending'
  BY OpeningLends DEF ClearFileSystem, Opening, Fresh

LEMMA CloseHandleLends ==
  ASSUME Inv, serial_opens, Lending, NEW t \in Threads, CloseHandle(t)
  PROVE  Lending'
  BY VolumeAssumption
  DEF CloseHandle, Goto, Return, Inv, TypeOK, Placed, Owned, Lending, Alone, Back,
      Flagged, Returnable, Fresh, Opening, volume_fields, callers

LEMMA SetHandleLends ==
  ASSUME Inv, serial_opens, Lending, NEW t \in Threads, SetHandle(t)
  PROVE  Lending'
<1>1. pc[t] = "set_handle" /\ op[t] \in OpenOps
  BY DEF SetHandle, Inv, Placed, Opening
<1>2. /\ file_io_handle = None
      /\ ~ created_in_library
      /\ handles[own_handle[t]] = "open"
      /\ own_handle[t] \in Handles
  BY <1>1 DEF Lending, Flagged, Returnable, Fresh, Opening, Opened, Inv, Owned
<1>3. \A u \in Threads : u # t => pc[u] \in {"idle", "freed"} /\ op[u] = None
  BY <1>1, OpensAlone DEF Lending
<1>4. /\ \A u \in Threads : u # t =>
           pc'[u] = pc[u] /\ op'[u] = op[u] /\ own_opened'[u] = own_opened[u]
      /\ pc'[t] = IF op[t] = "open" THEN "set_created" ELSE "idle"
      /\ op'[t] = op[t] \/ op'[t] = None
      /\ pc'[t] = "idle" => ~ own_opened'[t]
  BY <1>1 DEF SetHandle, Return, Goto, Inv, Placed, own, OpenOps
<1>5. /\ file_io_handle' = own_handle[t]
      /\ opened_in_library' = own_opened[t]
      /\ UNCHANGED <<created_in_library, handles, lent>>
  BY DEF SetHandle, Return, callers
<1>6. \A u \in Threads : pc'[u] \notin Opening
  BY <1>3, <1>4 DEF Opening
<1>7. Alone'
  BY <1>3, <1>4 DEF Alone, OpenOps, None
<1>8. Back'
  <2> SUFFICES ASSUME NEW h \in Handles, h # file_io_handle'
               PROVE  IF h \in CallerHandles THEN handles[h] = lent[h]
                                             ELSE handles[h] \in {"absent", "freed"}
    BY <1>5 DEF Back, Handles
  <2>1. h # file_io_handle
    BY <1>2, VolumeAssumption DEF Handles
  <2>2. \A u \in Threads : pc[u] \in Opening => own_handle[u] # h
    BY <1>3, <1>5 DEF Opening
  <2> QED
    BY <2>1, <2>2 DEF Lending, Back
<1>9. Flagged'
  <2>1. CASE op[t] = "open"
    <3>1. own_handle[t] \in LibraryHandles
      BY <1>1, <2>1 DEF Lending, Returnable, Opening
    <3>2. own_handle[t] # None /\ own_handle[t] \notin CallerHandles
      BY <3>1, VolumeAssumption
    <3> QED
      BY <1>4, <1>5, <2>1, <3>1, <3>2 DEF Flagged
  <2>2. CASE op[t] # "open"
    <3>1. /\ own_handle[t] \in CallerHandles
          /\ own_opened[t] <=> lent[own_handle[t]] = "closed"
      BY <1>1, <1>2, <2>2 DEF Lending, Returnable, Opening, Inv, Placed
    <3>2. own_handle[t] # None /\ own_handle[t] \notin LibraryHandles
      BY <3>1, VolumeAssumption
    <3>3. \A u \in Threads : pc'[u] # "set_created"
      BY <1>3, <1>4, <2>2
    <3> QED
      BY <1>2, <1>5, <3>1, <3>2, <3>3 DEF Flagged
  <2> QED
    BY <2>1, <2>2
<1>10. Returnable'
  BY <1>3, <1>4, <1>6 DEF Lending, Returnable, Fresh, Opening
<1> QED
  BY <1>7, <1>8, <1>9, <1>10 DEF Lending

LEMMA SetCreatedLends ==
  ASSUME Inv, serial_opens, Lending, NEW t \in Threads, SetCreated(t)
  PROVE  Lending'
  BY VolumeAssumption
  DEF SetCreated, Goto, Return, Inv, Placed, Lending, Alone, Back, Flagged, Returnable,
      Fresh, Opening, callers, OpenOps

(* A step outside of an open that changes nothing of the handles.          *)
LEMMA LeavingLends ==
  ASSUME Inv, Lending, NEW t \in Threads,
         pc[t] \in {"check_close", "clear_closed", "check_root", "get_root"},
         NEW step \in {"idle", "close", "get_root"}, Goto(t, step),
         \/ step # "idle" /\ UNCHANGED <<op, own>>
         \/ /\ op' = [op EXCEPT ![t] = None]
            /\ own_handle' = [own_handle EXCEPT ![t] = None]
            /\ own_opened' = [own_opened EXCEPT ![t] = FALSE],
         UNCHANGED <<volume_fields, handles, callers>>
  PROVE  Lending'
<1>1. /\ pc'[t] = step
      /\ \A u \in Threads : u # t =>
           /\ pc'[u] = pc[u]
           /\ op'[u] = op[u]
           /\ own_handle'[u] = own_handle[u]
           /\ own_opened'[u] = own_opened[u]
      /\ op'[t] \in {op[t], None}
      /\ step = "idle" => ~ own_opened'[t]
  BY DEF Goto, Inv, Placed, own
<1>2. /\ pc[t] \notin Opening /\ step \notin Opening
      /\ step # "set_created" /\ pc[t] # "set_created"
      /\ None \notin OpenOps
  BY DEF Opening, OpenOps, None
<1>3. Alone'
  BY <1>1, <1>2 DEF Lending, Alone
<1>4. Back'
  BY <1>1, <1>2 DEF Lending, Back, volume_fields, callers
<1>5. Flagged'
  BY <1>1, <1>2 DEF Lending, Flagged, volume_fields, callers
<1>6. Returnable'
  <2>1. step \notin Fresh /\ step \notin {"check_handle", "open_handle"}
    BY <1>2 DEF Fresh, Opening
  <2> QED
    BY <1>1, <1>2, <2>1 DEF Lending, Returnable, volume_fields, callers
<1> QED
  BY <1>3, <1>4, <1>5, <1>6 DEF Lending

LEMMA CheckCloseLends ==
  ASSUME Inv, Lending, NEW t \in Threads, CheckClose(t)
  PROVE  Lending'
  BY LeavingLends DEF CheckClose, Return, volume_fields, own

LEMMA CloseLends ==
  ASSUME Inv, serial_opens, Lending, NEW t \in Threads, Close(t)
  PROVE  Lending'
  BY VolumeAssumption, OpensAlone
  DEF Close, Goto, CloseVolume, HandlesAfterClose, Inv, TypeOK, Placed, Lending, Alone,
      Back, Flagged, Returnable, Opening, Handles, callers, own, OpenOps

LEMMA ClearClosedLends ==
  ASSUME Inv, Lending, NEW t \in Threads, ClearClosed(t)
  PROVE  Lending'
  BY LeavingLends DEF ClearClosed, Return, volume_fields, own

LEMMA CheckRootLends ==
  ASSUME Inv, Lending, NEW t \in Threads, CheckRoot(t)
  PROVE  Lending'
  BY LeavingLends DEF CheckRoot, Return, volume_fields, own

LEMMA GetRootLends ==
  ASSUME Inv, Lending, NEW t \in Threads, GetRoot(t)
  PROVE  Lending'
  BY LeavingLends DEF GetRoot, Return, volume_fields, own

LEMMA FreeLends ==
  ASSUME Inv, Lending, Free
  PROVE  Lending'
<1>1. pc' = [t \in Threads |-> "freed"] /\ \A t \in Threads : pc[t] = "idle"
  BY DEF Free
<1>2. Alone' /\ Returnable'
  BY <1>1 DEF Free, Lending, Alone, Returnable, Fresh, Opening
<1>3. CASE file_io_handle = None
  BY <1>1, <1>2, <1>3
  DEF Free, Lending, Back, Flagged, Opening, volume_fields, callers
<1>4. CASE file_io_handle # None
  <2>1. CloseVolume
    BY <1>4 DEF Free
  <2>2. Flagged'
    BY <1>1, <2>1, VolumeAssumption DEF CloseVolume, Flagged
  <2>3. Back'
    BY <1>1, <2>1 DEF Free, CloseVolume, HandlesAfterClose, Lending, Back, Flagged,
       Inv, TypeOK, Placed, Opening, Handles, callers
  <2> QED
    BY <1>2, <2>2, <2>3 DEF Lending
<1> QED
  BY <1>3, <1>4

LEMMA StutterLends ==
  ASSUME Lending, UNCHANGED vars
  PROVE  Lending'
  BY DEF vars, Lending, Alone, Back, Flagged, Returnable, volume_fields, callers, own

LEMMA LendingNext == Inv /\ serial_opens /\ Lending /\ [Next]_vars => Lending'
<1> SUFFICES ASSUME Inv, serial_opens, Lending, [Next]_vars PROVE Lending'
  OBVIOUS
<1>1. ASSUME NEW t \in Threads, Calls(t)
      PROVE  Lending'
  BY <1>1, CallOpenLends, CallOpenHandleLends, CallCloseLends, CallGetRootLends DEF Calls
<1>2. ASSUME NEW t \in Threads, Steps(t)
      PROVE  Lending'
  BY <1>2, CheckHandleLends, OpenHandleLends, CheckFileSystemLends,
     InitializeFileSystemLends, ReadAllocationTableLends, ReadRootDirectoryLends,
     FreeFileSystemLends, ClearFileSystemLends, CloseHandleLends, SetHandleLends,
     SetCreatedLends, CheckCloseLends, CloseLends, ClearClosedLends, CheckRootLends,
     GetRootLends
  DEF Steps
<1> QED
  BY <1>1, <1>2, FreeLends, StutterLends DEF Next
-----------------------------------------------------------------------------
(***************************************************************************)
(* The volume of such callers has a file system only while it is open.     *)
(***************************************************************************)

(* The steps of an open and of a close that may find a file system.        *)
Filled ==
  {"read_table", "read_root", "free_file_system", "clear_file_system", "set_handle",
   "clear_closed"}

Kept ==
  /\ created \in Nat
  /\ file_systems = [f \in DOMAIN file_systems |-> file_systems[f]]
  /\ DOMAIN file_systems \subseteq {file_system} \ {NoFileSystem}
  /\ \A t \in Threads :
       pc[t] \in {"clear_file_system", "clear_closed"} => DOMAIN file_systems = {}
  /\ file_io_handle = None /\ (\A t \in Threads : pc[t] \notin Filled)
       => file_system = NoFileSystem

(* What was read of the file system, as far as an open has come.           *)
Progress ==
  /\ \A t \in Threads :
       /\ pc[t] = "read_table" =>
            FileSystemIsAllocated /\ file_systems[file_system] = "empty"
       /\ pc[t] = "read_root" =>
            FileSystemIsAllocated /\ file_systems[file_system] = "table"
       /\ pc[t] = "set_handle" =>
            FileSystemIsAllocated /\ file_systems[file_system] = "complete"
  /\ file_io_handle # None =>
       FileSystemIsAllocated /\ file_systems[file_system] = "complete"

(* Why a call fails, and what the last one has answered.                   *)
Answered ==
  /\ reason \in [Threads -> {None, "io", "already open"}]
  /\ \A t \in Threads :
       pc[t] \in {"free_file_system", "clear_file_system", "close_handle"}
         => reason[t] # None
  /\ answer.op \in OpenOps /\ answer.result = -1
       => answer.reason \in {"io", "already open"}
  /\ RootComplete

Reading == Kept /\ Progress /\ Answered

LEMMA ReadingInit == Init => Reading
  BY DEF Init, Reading, Kept, Progress, Answered, RootComplete, OpenOps, None

(* Answers and reasons after a step inside of a call, and after a return.  *)
LEMMA GoneAnswered ==
  ASSUME Inv, Answered, NEW t \in Threads, NEW step, Goto(t, step),
         step \in {"free_file_system", "clear_file_system", "close_handle"}
           => pc[t] \in {"free_file_system", "clear_file_system", "close_handle"},
         UNCHANGED <<reason, answer>>
  PROVE  Answered'
  BY DEF Goto, Inv, Placed, Answered, RootComplete

LEMMA FailedAnswered ==
  ASSUME Inv, Answered, NEW t \in Threads, NEW step,
         NEW why \in {"io", "already open"}, FailWith(t, why, step),
         UNCHANGED answer
  PROVE  Answered'
<1>1. /\ reason' \in [Threads -> {None, "io", "already open"}]
      /\ reason'[t] = why
      /\ \A u \in Threads : u # t => reason'[u] = reason[u]
  BY DEF FailWith, Answered
<1>2. \A u \in Threads : u # t => pc'[u] = pc[u]
  BY DEF FailWith, Goto, Inv, Placed
<1>3. why # None
  BY DEF None
<1> QED
  BY <1>1, <1>2, <1>3 DEF Answered, RootComplete

LEMMA ReturnAnswered ==
  ASSUME Inv, Answered, NEW t \in Threads, NEW record, Return(t, record),
         record.op \in OpenOps /\ record.result = -1
           => record.reason \in {"io", "already open"},
         record.op = "get_root_directory" /\ record.result = 1 => record.complete
  PROVE  Answered'
<1>1. /\ pc'[t] = "idle"
      /\ \A u \in Threads : u # t => pc'[u] = pc[u] /\ reason'[u] = reason[u]
  BY DEF Return, Goto, Inv, Placed, Answered
<1>2. reason' \in [Threads -> {None, "io", "already open"}]
  BY DEF Return, Answered
<1>3. answer' = record
  BY DEF Return
<1>4. RootComplete'
  BY <1>3 DEF RootComplete
<1> QED
  BY <1>1, <1>2, <1>3, <1>4 DEF Answered

(* A step that leaves the file system, and that found none.                *)
LEMMA AwayReads ==
  ASSUME Inv, Kept, Progress, NEW t \in Threads, pc[t] \notin Filled,
         NEW step, Goto(t, step),
         step \notin Filled \/ step = "free_file_system",
         UNCHANGED <<file_io_handle, file_system, file_systems, created>>
  PROVE  Kept' /\ Progress'
<1>1. /\ pc'[t] = step
      /\ \A u \in Threads : u # t => pc'[u] = pc[u]
      /\ step \notin {"read_table", "read_root", "set_handle", "clear_file_system",
                     "clear_closed"}
  BY DEF Goto, Inv, Placed, Filled
<1>2. Kept'
  BY <1>1 DEF Kept
<1>3. Progress'
  BY <1>1 DEF Progress, FileSystemIsAllocated
<1> QED
  BY <1>2, <1>3

LEMMA CallOpenReads ==
  ASSUME Inv, Reading, NEW t \in Threads, CallOpen(t)
  PROVE  Reading'
  BY AwayReads, GoneAnswered
  DEF CallOpen, Call, Reading, Filled, volume_fields, system_fields

LEMMA CallOpenHandleReads ==
  ASSUME Inv, Reading, NEW t \in Threads, CallOpenHandle(t)
  PROVE  Reading'
  BY AwayReads, GoneAnswered
  DEF CallOpenHandle, Call, Reading, Filled, volume_fields, system_fields

LEMMA CallCloseReads ==
  ASSUME Inv, Reading, NEW t \in Threads, CallClose(t)
  PROVE  Reading'
  BY AwayReads, GoneAnswered
  DEF CallClose, Call, Reading, Filled, volume_fields, system_fields

LEMMA CallGetRootReads ==
  ASSUME Inv, Reading, NEW t \in Threads, CallGetRoot(t)
  PROVE  Reading'
  BY AwayReads, GoneAnswered
  DEF CallGetRoot, Call, Reading, Filled, volume_fields, system_fields

LEMMA CheckHandleReads ==
  ASSUME Inv, Reading, NEW t \in Threads, CheckHandle(t)
  PROVE  Reading'
<1>1. Kept' /\ Progress'
  BY AwayReads
  DEF CheckHandle, FailWith, Reading, Filled, volume_fields, system_fields
<1>2. Answered'
  BY GoneAnswered, FailedAnswered DEF CheckHandle, Reading
<1> QED
  BY <1>1, <1>2 DEF Reading

LEMMA OpenHandleReads ==
  ASSUME Inv, Reading, NEW t \in Threads, OpenHandle(t)
  PROVE  Reading'
<1>1. Kept' /\ Progress'
  BY AwayReads
  DEF OpenHandle, FailWith, Reading, Filled, volume_fields, system_fields
<1>2. Answered'
  BY GoneAnswered, FailedAnswered DEF OpenHandle, Reading
<1> QED
  BY <1>1, <1>2 DEF Reading

(* An open finds no file system until it has built one.                    *)
LEMMA NoneBefore ==
  ASSUME Inv, Lending, Reading, NEW t \in Threads,
         pc[t] \in {"check_file_system", "initialize"}
  PROVE  /\ file_system = NoFileSystem
         /\ file_io_handle = None
         /\ DOMAIN file_systems = {}
         /\ \A u \in Threads : u # t => pc[u] \in {"idle", "freed"}
<1>1. op[t] \in OpenOps
  BY DEF Inv, Placed, Opening
<1>2. \A u \in Threads : u # t => pc[u] \in {"idle", "freed"}
  BY <1>1, OpensAlone DEF Lending
<1>3. file_io_handle = None
  BY DEF Lending, Returnable, Fresh, Opening
<1>4. \A u \in Threads : pc[u] \notin Filled
  BY <1>2 DEF Filled
<1>5. file_system = NoFileSystem
  BY <1>3, <1>4 DEF Reading, Kept
<1> QED
  BY <1>2, <1>3, <1>5 DEF Reading, Kept

LEMMA CheckFileSystemReads ==
  ASSUME Inv, Lending, Reading, NEW t \in Threads, CheckFileSystem(t)
  PROVE  Reading'
<1>1. pc[t] = "check_file_system"
  BY DEF CheckFileSystem
<1>2. file_system = NoFileSystem
  BY <1>1, NoneBefore
<1>3. Kept' /\ Progress'
  BY <1>2, AwayReads
  DEF CheckFileSystem, FailWith, Reading, Filled, volume_fields
<1>4. Answered'
  BY <1>2, GoneAnswered, FailedAnswered DEF CheckFileSystem, Reading
<1> QED
  BY <1>3, <1>4 DEF Reading

LEMMA InitializeFileSystemReads ==
  ASSUME Inv, Lending, Reading, NEW t \in Threads, InitializeFileSystem(t)
  PROVE  Reading'
<1>1. /\ pc[t] = "initialize"
      /\ file_system = NoFileSystem
      /\ file_io_handle = None
      /\ DOMAIN file_systems = {}
      /\ \A u \in Threads : u # t => pc[u] \in {"idle", "freed"}
  BY NoneBefore DEF InitializeFileSystem
<1>2. /\ pc'[t] = "read_table"
      /\ \A u \in Threads : u # t => pc'[u] = pc[u]
  BY <1>1 DEF InitializeFileSystem, Goto, Inv, Placed
<1>3. /\ created' = created + 1
      /\ file_system' = created'
      /\ file_systems' = [f \in {created'} |-> "empty"]
      /\ file_io_handle' = file_io_handle
  <2>1. DOMAIN file_systems \cup {created'} = {created'}
    BY <1>1
  <2> QED
    BY <1>1, <2>1 DEF InitializeFileSystem, volume_fields
<1>4. Kept'
  <2>1. created' \in Nat /\ created' # NoFileSystem
    BY <1>3 DEF Reading, Kept, NoFileSystem
  <2>2. pc'[t] \in Filled
    BY <1>2 DEF Filled
  <2>3. \A u \in Threads : pc'[u] \notin {"clear_file_system", "clear_closed"}
    BY <1>1, <1>2
  <2>4. DOMAIN file_systems' = {file_system'}
    BY <1>3
  <2>5. file_systems' = [f \in DOMAIN file_systems' |-> file_systems'[f]]
    BY <1>3
  <2> QED
    BY <1>3, <2>1, <2>2, <2>3, <2>4, <2>5 DEF Kept
<1>5. Progress'
  BY <1>1, <1>2, <1>3 DEF Progress, FileSystemIsAllocated
<1>6. Answered'
  BY <1>1, GoneAnswered DEF InitializeFileSystem, Reading
<1> QED
  BY <1>4, <1>5, <1>6 DEF Reading

LEMMA ReadAllocationTableReads ==
  ASSUME Inv, Lending, Reading, NEW t \in Threads, ReadAllocationTable(t)
  PROVE  Reading'
<1>1. /\ pc[t] = "read_table"
      /\ FileSystemIsAllocated
      /\ file_systems[file_system] = "empty"
      /\ UNCHANGED <<file_system, file_io_handle, created, answer>>
  BY DEF ReadAllocationTable, ReadPart, Reading, Progress, volume_fields
<1>2. file_io_handle = None
  BY <1>1 DEF Lending, Returnable, Fresh, Opening
<1>3. \A u \in Threads : u # t => pc[u] \in {"idle", "freed"}
  <2>1. op[t] \in OpenOps
    BY <1>1 DEF Inv, Placed, Opening
  <2> QED
    BY <2>1, OpensAlone DEF Lending
<1>4. /\ \A u \in Threads : u # t => pc'[u] = pc[u]
      /\ \/ /\ pc'[t] = "read_root"
            /\ file_systems' = [file_systems EXCEPT ![file_system] = "table"]
         \/ /\ pc'[t] = "free_file_system"
            /\ file_systems' = file_systems
  BY <1>1 DEF ReadAllocationTable, ReadPart, FailWith, Goto, Inv, Placed
<1>5. DOMAIN file_systems' = DOMAIN file_systems
  BY <1>4
<1>6. Kept'
  <2>1. file_systems' = [f \in DOMAIN file_systems' |-> file_systems'[f]]
    BY <1>4 DEF Reading, Kept
  <2>2. /\ pc'[t] \in Filled
        /\ \A u \in Threads : pc'[u] \notin {"clear_file_system", "clear_closed"}
    BY <1>3, <1>4 DEF Filled
  <2> QED
    BY <1>1, <1>5, <2>1, <2>2 DEF Reading, Kept
<1>7. Progress'
  BY <1>1, <1>2, <1>3, <1>4 DEF Progress, FileSystemIsAllocated
<1>8. Answered'
  BY <1>1, GoneAnswered, FailedAnswered DEF ReadAllocationTable, ReadPart, Reading
<1> QED
  BY <1>6, <1>7, <1>8 DEF Reading

LEMMA ReadRootDirectoryReads ==
  ASSUME Inv, Lending, Reading, NEW t \in Threads, ReadRootDirectory(t)
  PROVE  Reading'
<1>1. /\ pc[t] = "read_root"
      /\ FileSystemIsAllocated
      /\ file_systems[file_system] = "table"
      /\ UNCHANGED <<file_system, file_io_handle, created, answer>>
  BY DEF ReadRootDirectory, ReadPart, Reading, Progress, volume_fields
<1>2. file_io_handle = None
  BY <1>1 DEF Lending, Returnable, Fresh, Opening
<1>3. \A u \in Threads : u # t => pc[u] \in {"idle", "freed"}
  <2>1. op[t] \in OpenOps
    BY <1>1 DEF Inv, Placed, Opening
  <2> QED
    BY <2>1, OpensAlone DEF Lending
<1>4. /\ \A u \in Threads : u # t => pc'[u] = pc[u]
      /\ \/ /\ pc'[t] = "set_handle"
            /\ file_systems' = [file_systems EXCEPT ![file_system] = "complete"]
         \/ /\ pc'[t] = "free_file_system"
            /\ file_systems' = file_systems
  BY <1>1 DEF ReadRootDirectory, ReadPart, FailWith, Goto, Inv, Placed
<1>5. DOMAIN file_systems' = DOMAIN file_systems
  BY <1>4
<1>6. Kept'
  <2>1. file_systems' = [f \in DOMAIN file_systems' |-> file_systems'[f]]
    BY <1>4 DEF Reading, Kept
  <2>2. /\ pc'[t] \in Filled
        /\ \A u \in Threads : pc'[u] \notin {"clear_file_system", "clear_closed"}
    BY <1>3, <1>4 DEF Filled
  <2> QED
    BY <1>1, <1>5, <2>1, <2>2 DEF Reading, Kept
<1>7. Progress'
  BY <1>1, <1>2, <1>3, <1>4 DEF Progress, FileSystemIsAllocated
<1>8. Answered'
  BY <1>1, GoneAnswered, FailedAnswered DEF ReadRootDirectory, ReadPart, Reading
<1> QED
  BY <1>6, <1>7, <1>8 DEF Reading

LEMMA FreeFileSystemReads ==
  ASSUME Inv, Lending, Reading, NEW t \in Threads, FreeFileSystem(t)
  PROVE  Reading'
<1>1. /\ pc[t] = "free_file_system"
      /\ file_systems' = FreedFileSystems
      /\ UNCHANGED <<file_system, file_io_handle, created>>
  BY DEF FreeFileSystem, volume_fields
<1>2. file_io_handle = None
  BY <1>1 DEF Lending, Returnable, Fresh, Opening
<1>3. \A u \in Threads : u # t => pc[u] \in {"idle", "freed"}
  <2>1. op[t] \in OpenOps
    BY <1>1 DEF Inv, Placed, Opening
  <2> QED
    BY <2>1, OpensAlone DEF Lending
<1>4. /\ \A u \in Threads : u # t => pc'[u] = pc[u]
      /\ pc'[t] = IF file_system = NoFileSystem THEN "close_handle" ELSE "clear_file_system"
  BY <1>1 DEF FreeFileSystem, Goto, Inv, Placed
<1>5. DOMAIN file_systems' = {}
  BY <1>1 DEF FreedFileSystems, Reading, Kept
<1>6. Kept'
  <2>1. file_systems' = [f \in DOMAIN file_systems' |-> file_systems'[f]]
    BY <1>1 DEF FreedFileSystems
  <2>2. pc'[t] \notin Filled => file_system = NoFileSystem
    BY <1>4 DEF Filled
  <2> QED
    BY <1>1, <1>5, <2>1, <2>2 DEF Reading, Kept
<1>7. Progress'
  BY <1>1, <1>2, <1>3, <1>4 DEF Progress
<1>8. Answered'
  BY GoneAnswered DEF FreeFileSystem, Reading
<1> QED
  BY <1>6, <1>7, <1>8 DEF Reading

LEMMA ClearFileSystemReads ==
  ASSUME Inv, Lending, Reading, NEW t \in Threads, ClearFileSystem(t)
  PROVE  Reading'
<1>1. /\ pc[t] = "clear_file_system"
      /\ file_system' = NoFileSystem
      /\ UNCHANGED <<file_systems, file_io_handle, created>>
  BY DEF ClearFileSystem, volume_fields
<1>2. file_io_handle = None
  BY <1>1 DEF Lending, Returnable, Fresh, Opening
<1>3. \A u \in Threads : u # t => pc[u] \in {"idle", "freed"}
  <2>1. op[t] \in OpenOps
    BY <1>1 DEF Inv, Placed, Opening
  <2> QED
    BY <2>1, OpensAlone DEF Lending
<1>4. pc'[t] = "close_handle" /\ \A u \in Threads : u # t => pc'[u] = pc[u]
  BY <1>1 DEF ClearFileSystem, Goto, Inv, Placed
<1>5. DOMAIN file_systems = {}
  BY <1>1 DEF Reading, Kept
<1>6. Kept'
  BY <1>1, <1>5 DEF Reading, Kept
<1>7. Progress'
  BY <1>1, <1>2, <1>3, <1>4 DEF Progress
<1>8. Answered'
  BY GoneAnswered DEF ClearFileSystem, Reading
<1> QED
  BY <1>6, <1>7, <1>8 DEF Reading

LEMMA CloseHandleReads ==
  ASSUME Inv, Reading, NEW t \in Threads, CloseHandle(t)
  PROVE  Reading'
<1>1. Kept' /\ Progress'
  BY AwayReads
  DEF CloseHandle, Return, Reading, Filled, volume_fields, system_fields
<1>2. Answered'
  <2>1. pc[t] = "close_handle" /\ op[t] \in OpenOps
    BY DEF CloseHandle, Inv, Placed, Opening
  <2>2. reason[t] \in {"io", "already open"}
    BY <2>1 DEF Reading, Answered
  <2> DEFINE record == [op |-> op[t], result |-> -1, reason |-> reason[t]]
  <2>3. Return(t, record)
    BY DEF CloseHandle
  <2>4. record.op \in OpenOps /\ record.op # "get_root_directory"
    BY <2>1 DEF OpenOps
  <2>5. record.reason = reason[t]
    OBVIOUS
  <2> QED
    BY <2>2, <2>3, <2>4, <2>5, ReturnAnswered DEF Reading
<1> QED
  BY <1>1, <1>2 DEF Reading

LEMMA SetHandleReads ==
  ASSUME Inv, Lending, Reading, NEW t \in Threads, SetHandle(t)
  PROVE  Reading'
<1>1. /\ pc[t] = "set_handle"
      /\ op[t] \in OpenOps
      /\ UNCHANGED <<file_system, file_systems, created>>
      /\ file_io_handle' = own_handle[t]
      /\ own_handle[t] # None
  BY VolumeAssumption
  DEF SetHandle, Inv, Placed, Owned, Opening, Handles, system_fields
<1>2. \A u \in Threads : u # t => pc[u] \in {"idle", "freed"}
  BY <1>1, OpensAlone DEF Lending
<1>3. /\ pc'[t] \in {"idle", "set_created"}
      /\ \A u \in Threads : u # t => pc'[u] = pc[u]
  BY <1>1 DEF SetHandle, Return, Goto, Inv, Placed
<1>4. Kept'
  BY <1>1, <1>2, <1>3 DEF Reading, Kept
<1>5. Progress'
  BY <1>1, <1>2, <1>3 DEF Reading, Progress, FileSystemIsAllocated
<1>6. Answered'
  <2>1. CASE op[t] = "open"
    BY <2>1, GoneAnswered DEF SetHandle, Reading, own
  <2>2. CASE op[t] # "open"
    <3> DEFINE record == [op |-> op[t], result |-> 1]
    <3>1. Return(t, record)
      BY <2>2 DEF SetHandle
    <3>2. record.op # "get_root_directory" /\ record.result # -1
      BY <1>1 DEF OpenOps
    <3> QED
      BY <3>1, <3>2, ReturnAnswered DEF Reading
  <2> QED
    BY <2>1, <2>2
<1> QED
  BY <1>4, <1>5, <1>6 DEF Reading

LEMMA SetCreatedReads ==
  ASSUME Inv, Reading, NEW t \in Threads, SetCreated(t)
  PROVE  Reading'
<1>1. Kept' /\ Progress'
  BY AwayReads DEF SetCreated, Return, Reading, Filled, system_fields
<1>2. Answered'
  <2> DEFINE record == [op |-> op[t], result |-> 1]
  <2>1. Return(t, record)
    BY DEF SetCreated
  <2>2. record.op = "open" /\ record.result # -1
    BY DEF SetCreated, Inv, Placed
  <2> QED
    BY <2>1, <2>2, ReturnAnswered DEF Reading
<1> QED
  BY <1>1, <1>2 DEF Reading

LEMMA CheckCloseReads ==
  ASSUME Inv, Reading, NEW t \in Threads, CheckClose(t)
  PROVE  Reading'
<1>1. Kept' /\ Progress'
  BY AwayReads
  DEF CheckClose, Return, Reading, Filled, volume_fields, system_fields
<1>2. op[t] \notin OpenOps /\ op[t] # "get_root_directory"
  BY DEF CheckClose, Inv, Placed, Closing, OpenOps
<1>3. Answered'
  BY <1>2, GoneAnswered, ReturnAnswered DEF CheckClose, Reading
<1> QED
  BY <1>1, <1>3 DEF Reading

LEMMA CloseReads ==
  ASSUME Inv, Lending, Reading, NEW t \in Threads, Close(t)
  PROVE  Reading'
<1>1. /\ pc[t] = "close"
      /\ CloseVolume
      /\ UNCHANGED <<file_system, created>>
  BY DEF Close, CloseVolume
<1>2. \A u \in Threads : pc[u] \notin Opening
  BY <1>1, NotOpening DEF Inv, Placed, Closing, Lending, OpenOps, None
<1>3. pc'[t] = "clear_closed" /\ \A u \in Threads : u # t => pc'[u] = pc[u]
  BY <1>1 DEF Close, Goto, Inv, Placed
<1>4. DOMAIN file_systems' = {}
  BY <1>1 DEF CloseVolume, FreedFileSystems, Reading, Kept
<1>5. Kept'
  <2>1. file_systems' = [f \in DOMAIN file_systems' |-> file_systems'[f]]
    BY <1>1 DEF CloseVolume, FreedFileSystems
  <2>2. pc'[t] \in Filled
    BY <1>3 DEF Filled
  <2> QED
    BY <1>1, <1>4, <2>1, <2>2 DEF Reading, Kept
<1>6. Progress'
  BY <1>1, <1>2, <1>3 DEF CloseVolume, Progress, Opening
<1>7. Answered'
  BY GoneAnswered DEF Close, Reading
<1> QED
  BY <1>5, <1>6, <1>7 DEF Reading

LEMMA ClearClosedReads ==
  ASSUME Inv, Lending, Reading, NEW t \in Threads, ClearClosed(t)
  PROVE  Reading'
<1>1. /\ pc[t] = "clear_closed"
      /\ op[t] = "close"
      /\ file_system' = NoFileSystem
      /\ UNCHANGED <<file_systems, file_io_handle, created>>
  BY DEF ClearClosed, volume_fields, Inv, Placed, Closing
<1>2. \A u \in Threads : pc[u] \notin Opening
  BY <1>1, NotOpening DEF Lending, OpenOps, None
<1>3. pc'[t] = "idle" /\ \A u \in Threads : u # t => pc'[u] = pc[u]
  BY <1>1 DEF ClearClosed, Return, Goto, Inv, Placed
<1>4. DOMAIN file_systems = {}
  BY <1>1 DEF Reading, Kept
<1>5. file_io_handle = None
  BY <1>4 DEF Reading, Progress, FileSystemIsAllocated
<1>6. Kept'
  BY <1>1, <1>4 DEF Reading, Kept
<1>7. Progress'
  BY <1>1, <1>2, <1>3, <1>5 DEF Progress, Opening
<1>8. Answered'
  <2> DEFINE record == [op |-> op[t], result |-> 0]
  <2>1. Return(t, record)
    BY DEF ClearClosed
  <2>2. record.op \notin OpenOps /\ record.op # "get_root_directory"
    BY <1>1 DEF OpenOps
  <2> QED
    BY <2>1, <2>2, ReturnAnswered DEF Reading
<1> QED
  BY <1>6, <1>7, <1>8 DEF Reading

LEMMA CheckRootReads ==
  ASSUME Inv, Reading, NEW t \in Threads, CheckRoot(t)
  PROVE  Reading'
<1>1. Kept' /\ Progress'
  BY AwayReads
  DEF CheckRoot, Return, Reading, Filled, volume_fields, system_fields
<1>2. op[t] = "get_root_directory"
  BY DEF CheckRoot, Inv, Placed, Using
<1>3. CASE file_system = NoFileSystem
  <2> DEFINE record == [op |-> op[t], result |-> -1]
  <2>1. Return(t, record)
    BY <1>3 DEF CheckRoot
  <2>2. record.op \notin OpenOps /\ record.result # 1
    BY <1>2 DEF OpenOps
  <2>3. Answered'
    BY <2>1, <2>2, ReturnAnswered DEF Reading
  <2> QED
    BY <1>1, <2>3 DEF Reading
<1>4. CASE file_system # NoFileSystem
  BY <1>1, <1>4, GoneAnswered DEF CheckRoot, Reading
<1> QED
  BY <1>3, <1>4

(* Nothing is opened or closed while the root directory is handed out: the *)
(* file system that is there is that of an open volume.                    *)
LEMMA GetRootReads ==
  ASSUME Inv, Lending, Reading, NEW t \in Threads, GetRoot(t)
  PROVE  Reading'
<1>1. pc[t] = "get_root" /\ op[t] = "get_root_directory" /\ Unlocked
  BY DEF GetRoot, Inv, Placed, Using
<1>2. Kept' /\ Progress'
  BY AwayReads
  DEF GetRoot, Return, Reading, Filled, volume_fields, system_fields
<1>3. \A u \in Threads : pc[u] \notin Filled
  BY <1>1, NotOpening DEF Lending, OpenOps, None, Unlocked, Filled, Opening
<1>4. CASE RootIsThere
  <2>1. file_io_handle # None
    BY <1>3, <1>4 DEF RootIsThere, Reading, Kept
  <2>2. FileSystemIsAllocated /\ file_systems[file_system] = "complete"
    BY <2>1 DEF Reading, Progress
  <2> DEFINE record ==
        [op |-> op[t], result |-> 1,
         complete |-> /\ file_io_handle # None
                      /\ FileSystemIsAllocated
                      /\ file_systems[file_system] = "complete"]
  <2>3. Return(t, record)
    BY <1>4, <2>2 DEF GetRoot
  <2>4. record.complete
    BY <2>1, <2>2
  <2>5. record.op \notin OpenOps
    BY <1>1 DEF OpenOps
  <2>6. Answered'
    BY <2>3, <2>4, <2>5, ReturnAnswered DEF Reading
  <2> QED
    BY <1>2, <2>6 DEF Reading
<1>5. CASE ~ RootIsThere
  <2> DEFINE record == [op |-> op[t], result |-> -1]
  <2>1. Return(t, record)
    BY <1>5 DEF GetRoot
  <2>2. record.op \notin OpenOps /\ record.result # 1
    BY <1>1 DEF OpenOps
  <2>3. Answered'
    BY <2>1, <2>2, ReturnAnswered DEF Reading
  <2> QED
    BY <1>2, <2>3 DEF Reading
<1> QED
  BY <1>4, <1>5

LEMMA FreeReads ==
  ASSUME Inv, Reading, Free
  PROVE  Reading'
<1>1. pc' = [t \in Threads |-> "freed"] /\ \A t \in Threads : pc[t] = "idle"
  BY DEF Free
<1>2. UNCHANGED <<reason, answer>>
  BY DEF Free
<1>3. Answered'
  BY <1>1, <1>2 DEF Reading, Answered, RootComplete
<1>4. CASE file_io_handle = None
  <2>1. UNCHANGED <<volume_fields, system_fields>>
    BY <1>4 DEF Free
  <2>2. Kept' /\ Progress'
    BY <1>1, <2>1
    DEF Reading, Kept, Progress, FileSystemIsAllocated, Filled, volume_fields, system_fields
  <2> QED
    BY <1>3, <2>2 DEF Reading
<1>5. CASE file_io_handle # None
  <2>1. CloseVolume /\ file_system' = NoFileSystem
    BY <1>5 DEF Free
  <2>2. DOMAIN file_systems' = {}
    BY <2>1 DEF CloseVolume, FreedFileSystems, Reading, Kept
  <2>3. file_systems' = [f \in DOMAIN file_systems' |-> file_systems'[f]]
    BY <2>1 DEF CloseVolume, FreedFileSystems
  <2>4. Kept'
    BY <2>1, <2>2, <2>3 DEF CloseVolume, Reading, Kept
  <2>5. Progress'
    BY <1>1, <2>1 DEF CloseVolume, Progress
  <2> QED
    BY <1>3, <2>4, <2>5 DEF Reading
<1> QED
  BY <1>4, <1>5

LEMMA StutterReads ==
  ASSUME Reading, UNCHANGED vars
  PROVE  Reading'
  BY DEF vars, Reading, Kept, Progress, Answered, RootComplete, FileSystemIsAllocated,
      volume_fields, system_fields

LEMMA ReadingNext == Inv /\ Lending /\ Reading /\ [Next]_vars => Reading'
<1> SUFFICES ASSUME Inv, Lending, Reading, [Next]_vars PROVE Reading'
  OBVIOUS
<1>1. ASSUME NEW t \in Threads, Calls(t)
      PROVE  Reading'
  BY <1>1, CallOpenReads, CallOpenHandleReads, CallCloseReads, CallGetRootReads DEF Calls
<1>2. ASSUME NEW t \in Threads, Steps(t)
      PROVE  Reading'
  BY <1>2, CheckHandleReads, OpenHandleReads, CheckFileSystemReads,
     InitializeFileSystemReads, ReadAllocationTableReads, ReadRootDirectoryReads,
     FreeFileSystemReads, ClearFileSystemReads, CloseHandleReads, SetHandleReads,
     SetCreatedReads, CheckCloseReads, CloseReads, ClearClosedReads, CheckRootReads,
     GetRootReads
  DEF Steps
<1> QED
  BY <1>1, <1>2, FreeReads, StutterReads DEF Next

-----------------------------------------------------------------------------
(***************************************************************************)
(* What follows for callers that open before they share.                   *)
(***************************************************************************)

SerialInv == Inv /\ (serial_opens => Lending /\ Reading)

LEMMA DisciplineKept == Inv /\ [Next]_vars => serial_opens' = serial_opens
<1> SUFFICES ASSUME Inv, [Next]_vars PROVE serial_opens' = serial_opens
  OBVIOUS
<1>1. ASSUME NEW t \in Threads, Calls(t)
      PROVE  serial_opens' = serial_opens
  BY <1>1 DEF Calls, CallOpen, CallOpenHandle, CallClose, CallGetRoot, Call, callers
<1>2. ASSUME NEW t \in Threads, Steps(t)
      PROVE  serial_opens' = serial_opens
  BY <1>2
  DEF Steps, CheckHandle, OpenHandle, CheckFileSystem, InitializeFileSystem,
      ReadAllocationTable, ReadRootDirectory, ReadPart, FreeFileSystem, ClearFileSystem,
      CloseHandle, SetHandle, SetCreated, CheckClose, Close, ClearClosed, CheckRoot,
      GetRoot, Return, callers
<1> QED
  BY <1>1, <1>2 DEF Next, Free, vars, callers

LEMMA SerialInvariant == Spec => []SerialInv
<1>1. Init => SerialInv
  BY InvInit, LendingInit, ReadingInit DEF SerialInv
<1>2. SerialInv /\ [Next]_vars => SerialInv'
  BY InvNext, LendingNext, ReadingNext, DisciplineKept DEF SerialInv
<1> QED
  BY <1>1, <1>2, PTL DEF Spec

LEMMA QuietSteps ==
  ASSUME Inv, Quiet, NEW t \in Threads
  PROVE  pc[t] \notin Opening /\ pc[t] \notin Filled
  BY DEF Inv, Placed, Quiet, Opening, Filled, Closing, OpenOps, None

(* Every handle is back while the volume is closed, after any history of   *)
(* opens that fail or succeed and of closes: those of the callers as they  *)
(* were handed over, those of the library freed                            *)
(* (file_io_handle_opened_in_library, _created_in_library).                *)
THEOREM HandlesComeBack == Spec => []HandlesReturned
<1>1. SerialInv => HandlesReturned
  <2> SUFFICES ASSUME SerialInv, serial_opens, Closed PROVE
               /\ \A h \in CallerHandles : handles[h] = lent[h]
               /\ \A h \in LibraryHandles : handles[h] \in {"absent", "freed"}
    BY DEF HandlesReturned
  <2>1. \A t \in Threads : pc[t] \notin Opening
    BY QuietSteps DEF SerialInv, Closed
  <2>2. \A h \in Handles : h # file_io_handle
    BY VolumeAssumption DEF Closed, Handles
  <2> QED
    BY <2>1, <2>2, VolumeAssumption DEF SerialInv, Lending, Back, Handles
<1> QED
  BY <1>1, SerialInvariant, PTL

(* A closed volume keeps no file system and no flag of a handle it had     *)
(* (on_error of open_read, libfsfat_volume_close).                         *)
THEOREM ClosedEmpty == Spec => []ClosedIsEmpty
<1>1. SerialInv => ClosedIsEmpty
  <2> SUFFICES ASSUME SerialInv, serial_opens, Closed
               PROVE  file_systems = <<>> /\ ~ opened_in_library /\ ~ created_in_library
    BY DEF ClosedIsEmpty
  <2>1. \A t \in Threads : pc[t] \notin Filled
    BY QuietSteps DEF SerialInv, Closed
  <2>2. file_system = NoFileSystem
    BY <2>1 DEF SerialInv, Reading, Kept, Closed
  <2>3. DOMAIN file_systems = {}
    BY <2>2 DEF SerialInv, Reading, Kept
  <2>4. file_systems = [f \in {} |-> file_systems[f]]
    BY <2>3 DEF SerialInv, Reading, Kept
  <2>5. file_systems = <<>>
    BY <2>4
  <2> QED
    BY <2>5 DEF SerialInv, Lending, Flagged, Closed
<1> QED
  BY <1>1, SerialInvariant, PTL

(* An open fails only because the volume is open or cannot be read: an     *)
(* open that failed before leaves nothing in its way.                      *)
THEOREM OpensSucceed == Spec => []OpenSucceeds
<1>1. SerialInv => OpenSucceeds
  BY DEF SerialInv, Reading, Answered, OpenSucceeds
<1> QED
  BY <1>1, SerialInvariant, PTL

(* The root directory of a volume that is opened before it is shared is    *)
(* never handed out incomplete, however it is used and closed              *)
(* (libfsfat_volume_get_root_directory).                                   *)
THEOREM RootsComplete == Spec => []SerialRootComplete
<1>1. SerialInv => SerialRootComplete
  BY DEF SerialInv, Reading, Answered, SerialRootComplete
<1> QED
  BY <1>1, SerialInvariant, PTL
=============================================================================
