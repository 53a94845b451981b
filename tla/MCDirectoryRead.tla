-------------------------- MODULE MCDirectoryRead ---------------------------
(* A directory of two clusters (2 and 3) of four entries each, or a range  *)
(* of five entries.  Names and streams cross from a cluster to the next.   *)
EXTENDS EntryByIdentifier

Plain(type) == [type |-> type, seq |-> 0, last |-> FALSE]

Long(seq, last) == [type |-> "long", seq |-> seq, last |-> last]

MCLong == {Long(2, TRUE), Long(1, TRUE), Long(1, FALSE), Long(0, FALSE)}

MCFatKinds == {Plain(t) : t \in {"terminator", "unallocated", "short"}} \cup MCLong

MCOtherKinds ==
  {Plain(t) : t \in {"self", "parent", "label", "label_archive", "stale", "short"}}
    \cup {Long(1, TRUE)}

MCExfatKinds ==
  {Plain(t) : t \in {"terminator", "file", "stream", "name", "exfat_label", "bitmap"}}

(* Entries 0 to 7 are in the clusters; behind them lies nothing of use.    *)
Volume(kinds, length, first, last, rest) ==
  {[p \in Places |-> IF p < length THEN v[p] ELSE Plain(rest)] :
     v \in {w \in [0 .. length - 1 -> kinds] : w[0] \in first /\ w[length - 1] \in last}}

MCVolumes ==
  Volume(MCFatKinds, 6, {Plain("short")}, {Plain("short")}, "unallocated")
    \cup Volume(MCFatKinds, 4, MCFatKinds, MCFatKinds, "unallocated")
    \cup Volume(MCOtherKinds, 4, MCOtherKinds, MCOtherKinds, "unallocated")
    \cup Volume(MCExfatKinds, 6, {Plain("file")}, {Plain("file"), Plain("name"), Plain("stream")},
                "bitmap")
    \cup Volume(MCExfatKinds, 3, MCExfatKinds, MCExfatKinds, "bitmap")

(* Entries are looked up in directories with an entry at either end. *)
MCSearchedIn(v) ==
  v[5] = v[0] /\ v[0] \in {Plain("short"), Plain("file")}

(* From cluster 2 to 3 and on to the end (9), back to 2, or to cluster 4,  *)
(* which has no entry in the table.                                        *)
MCTables ==
  {[c \in 0 .. NumberOfClusters - 1 |->
      IF c = 2 THEN 3 ELSE IF c = 3 THEN next ELSE LastClusterNumber] :
     next \in {LastClusterNumber, 2, 4}}
=============================================================================
