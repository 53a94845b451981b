---------------------------- MODULE MCFileEntry -----------------------------
(* Two threads with one file entry.                                        *)
EXTENDS FileEntry

CONSTANTS t1, t2

(* Either the first thread calls everything and the second all but what    *)
(* differs little, or the first lists the directory and the second reads   *)
(* the data.                                                               *)
MCSimilarOps == GetterOps \cup {"get_sub_file_entry_by_index", "get_extent_by_index"}

MCOperations ==
  {[t \in {t1, t2} |-> IF t = t1 THEN AllOps ELSE AllOps \ MCSimilarOps],
   [t \in {t1, t2} |-> IF t = t1 THEN DirectoryOps ELSE GetterOps \cup StreamOps]}

MCDirectoryOperations == {[t \in {t1, t2} |-> DirectoryOps]}

MCDistances == {-1, 0, 1, 3}
=============================================================================
