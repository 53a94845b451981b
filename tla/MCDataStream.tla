---------------------------- MODULE MCDataStream ----------------------------
(* Chains over a volume of six clusters, 2 to 7, and a table of six        *)
(* entries, 0 to 5.  A table entry names a cluster of the volume, a        *)
(* cluster outside the volume (8) or ends the chain (9).                   *)
EXTENDS DataStream

MCEntries == 2 .. 9

MCTables ==
  {[i \in 0 .. NumberOfClusters - 1 |-> IF i < 2 THEN LastClusterNumber ELSE t[i]] :
     t \in [2 .. NumberOfClusters - 1 -> MCEntries]}

MCFirstClusters == {0, 2, 3, 5}

MCSizes == {0, 1, 3, 4, 7}
=============================================================================
