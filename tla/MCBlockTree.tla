----------------------------- MODULE MCBlockTree -----------------------------
(* The block tree on small volumes: one, two and three levels of nodes with *)
(* two entries each, volumes that fill their nodes and volumes that do not. *)
EXTENDS BlockTree

MCOffsets == {-1, 0, 1, 2, 4, 8, 10, 11, 16}

MCVolumeSizes == {3, 4, 5, 9, 11, 17}
=============================================================================
