----------------------------- MODULE Structures ------------------------------
(***************************************************************************)
(* Decoding what a volume stores: its boot record and allocation table     *)
(* when it is opened, and the name and the times of a directory entry.  A  *)
(* behaviour decodes one of these structures.                              *)
(***************************************************************************)
EXTENDS AllocationTable, DirectoryEntry, DateTime

CONSTANT
  Decoded                 (* subset of {"tables", "entry", "date"}         *)

vars == <<tableVars, entryVars, dateVars>>

NoTables == TableIdle /\ data = <<>> /\ disk = <<>> /\ result = "none"

Init ==
  \/ "tables" \in Decoded /\ TableInit /\ EntryIdle /\ DateIdle
  \/ "entry" \in Decoded /\ NoTables /\ EntryInit /\ DateIdle
  \/ "date" \in Decoded /\ NoTables /\ EntryIdle /\ DateInit

Next ==
  \/ TableNext /\ UNCHANGED <<entryVars, dateVars>>
  \/ EntryNext /\ UNCHANGED <<tableVars, dateVars>>
  \/ DateNext /\ UNCHANGED <<tableVars, entryVars>>

Spec == Init /\ [][Next]_vars
=============================================================================
