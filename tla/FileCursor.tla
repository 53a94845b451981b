----------------------------- MODULE FileCursor -----------------------------
(***************************************************************************)
(* What a file entry promises the threads that read it: one offset, moved  *)
(* in one step by each read, one that fails on the way included, and each  *)
(* seek, and never otherwise.  Module FileEntry implements this with a     *)
(* stream that is created on first use, also by threads that hold the lock *)
(* of the entry only for reading.                                          *)
(***************************************************************************)
EXTENDS Integers

CONSTANTS
  ReadSizes,   (* sizes of the buffers of the callers                      *)
  Distances    (* offsets the callers pass to seek                         *)

VARIABLES
  data_size,   (* size of the data, which never changes                    *)
  offset,      (* the current offset                                       *)
  answer       (* what the last call returned, and its arguments           *)

cursorVars == <<data_size, offset, answer>>

Whences == {"set", "current", "end"}

(* The number of bytes a read returns at an offset.                        *)
ReadCount(at, buffer_size) ==
  IF at >= data_size THEN 0
  ELSE IF buffer_size > data_size - at THEN data_size - at
  ELSE buffer_size

(* The offsets at which a read that fails may have stopped.                *)
PartlyRead(at, buffer_size) ==
  {at + read_count : read_count \in 0 .. ReadCount(at, buffer_size) - 1}

(* Where a seek leads.                                                     *)
Target(at, distance, whence) ==
  CASE whence = "set"     -> distance
    [] whence = "current" -> at + distance
    [] whence = "end"     -> data_size + distance

CursorInit ==
  /\ data_size \in Nat
  /\ offset = 0
  /\ answer = [op |-> "none"]

CursorRead(buffer_size) ==
  /\ answer' = [op |-> "read_buffer", at |-> offset,
                result |-> ReadCount(offset, buffer_size)]
  /\ offset' = offset + ReadCount(offset, buffer_size)

(* Reads elsewhere and leaves the offset behind what was read.             *)
CursorReadAt(buffer_size, at) ==
  /\ at >= 0
  /\ answer' = [op |-> "read_buffer_at_offset", at |-> at,
                result |-> ReadCount(at, buffer_size)]
  /\ offset' = at + ReadCount(at, buffer_size)

(* A read that fails leaves the offset where it stopped.                   *)
CursorReadFails(buffer_size) ==
  /\ answer' = [op |-> "failed_read", at |-> offset, result |-> -1]
  /\ offset' \in PartlyRead(offset, buffer_size)

(* One at an offset has moved there before: nothing brings the offset back.*)
CursorReadAtFails(buffer_size, at) ==
  /\ at >= 0
  /\ answer' = [op |-> "failed_read", at |-> at, result |-> -1]
  /\ offset' \in PartlyRead(at, buffer_size)

CursorSeek(distance, whence) ==
  /\ Target(offset, distance, whence) >= 0
  /\ offset' = Target(offset, distance, whence)
  /\ answer' = [op |-> "seek_offset", at |-> offset, result |-> offset']

CursorGetOffset ==
  /\ answer' = [op |-> "get_offset", at |-> offset, result |-> offset]
  /\ UNCHANGED offset

(* Another call that fails, or one that is not about the offset.           *)
CursorOther ==
  /\ answer' = [op |-> "other"]
  /\ UNCHANGED offset

CursorNext ==
  /\ \/ \E buffer_size \in ReadSizes :
           CursorRead(buffer_size) \/ CursorReadFails(buffer_size)
     \/ \E buffer_size \in ReadSizes, at \in Distances :
           CursorReadAt(buffer_size, at) \/ CursorReadAtFails(buffer_size, at)
     \/ \E distance \in Distances, whence \in Whences :
           CursorSeek(distance, whence)
     \/ CursorGetOffset
     \/ CursorOther
  /\ UNCHANGED data_size

CursorSpec == CursorInit /\ [][CursorNext]_cursorVars
=============================================================================
