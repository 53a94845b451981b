------------------------- MODULE EntryByIdentifier --------------------------
(***************************************************************************)
(* One directory entry by its identifier, the offset of the entry in the   *)
(* volume (libfsfat_file_system_read_directory_entry_by_identifier and     *)
(* libfsfat_file_system_get_file_entry_by_identifier).  The parts of a long*)
(* name are searched backwards, along the reversed allocation table, the   *)
(* data stream and the name of exFAT forwards, along the chain.            *)
(*                                                                         *)
(* A behaviour is either a lookup or the reading of a directory.  Lookups  *)
(* are of entries in clusters.                                             *)
(***************************************************************************)
EXTENDS DirectoryRead

CONSTANTS
  SearchedIn(_),       (* whether entries of a volume are looked up        *)
  FirstClusterOffset   (* entries in front of the first cluster            *)

ASSUME EntryByIdentifierAssumption ==
  /\ \A v \in Volumes : SearchedIn(v) \in BOOLEAN
  /\ FirstClusterOffset \in Nat

VARIABLE
  search               (* the variables of the function                    *)

Searched ==
  [step |-> "none", identifier |-> 0, cluster_number |-> 0, position |-> 0, end |-> 0,
   last_vfat_sequence_number |-> 0, names |-> <<>>, data_stream |-> None,
   safe_directory_entry |-> None, result |-> "running"]

(* The number of the cluster comes from the offset in the volume, and not  *)
(* from the offset behind FirstClusterOffset.                              *)
ClusterOf(identifier) == (identifier + FirstClusterOffset) \div EntriesPerCluster

Search(identifier) ==
  [Searched EXCEPT !.step = "first", !.identifier = identifier,
     !.cluster_number = ClusterOf(identifier) + 2,
     !.end = (ClusterOf(identifier) + 1) * EntriesPerCluster - FirstClusterOffset]

SearchInit ==
  /\ Init
  /\ \/ search = Searched
     \/ /\ method = "chain"
        /\ SearchedIn(volume)
        /\ search \in {Search(p) : p \in 0 .. 2 * EntriesPerCluster - 1}

Ends(outcome) == [search EXCEPT !.step = "done", !.result = outcome]

(* In front of the clusters lies the allocation table, whose bytes are     *)
(* taken for no part of a name.                                            *)
KindOf(p) ==
  IF p \in DOMAIN volume THEN volume[p]
  ELSE [type |-> "unallocated", seq |-> 0, last |-> FALSE]

(* The root directory has the identifier of its first entry. *)
SearchRoot ==
  /\ search.step = "first"
  /\ search.identifier = 0
  /\ search' = Ends("root")

SearchFirst ==
  /\ search.step = "first"
  /\ search.identifier # 0
  /\ LET type == KindOf(search.identifier).type
     IN search' =
          IF type \in ShortTypes
            THEN [search EXCEPT !.step = IF search.cluster_number > 2 THEN "back" ELSE "name",
                    !.position = search.identifier - 1]
          ELSE IF type = "file"
            THEN [search EXCEPT !.step = "forth", !.position = search.identifier + 1]
          ELSE Ends("error")

(* An entry cannot be read. *)
SearchFailRead ==
  /\ search.step \in {"first", "back", "forth"}
  /\ search' = Ends("read error")

(***************************************************************************)
(* Backwards.  The loop compares the offset with the end of the cluster,   *)
(* which an offset that goes down never passes: it is left only at an      *)
(* entry that is no part of a name.                                        *)
(***************************************************************************)

(* Mutation: the parts are put together in the order they are read. *)
BackLongNameAppended ==
  /\ search.step = "back"
  /\ IsLong(KindOf(search.position))
  /\ LET kind == KindOf(search.position)
         last == search.last_vfat_sequence_number
     IN search' = IF last # 0 /\ last + 1 # kind.seq THEN Ends("error")
                  ELSE [search EXCEPT !.names = Append(@, search.position),
                          !.last_vfat_sequence_number = kind.seq, !.position = @ - 1]

BackLongName ==
  /\ search.step = "back"
  /\ IsLong(KindOf(search.position))
  /\ LET kind == KindOf(search.position)
         last == search.last_vfat_sequence_number
     IN search' = IF last # 0 /\ last + 1 # kind.seq THEN Ends("error")
                  ELSE [search EXCEPT !.names = <<search.position>> \o @,
                          !.last_vfat_sequence_number = kind.seq, !.position = @ - 1]

(* The reversed allocation table: the last cluster that leads to another. *)
Reversed(cluster) ==
  LET before == {c \in DOMAIN allocation_table : allocation_table[c] = cluster}
  IN IF before = {} THEN 0 ELSE CHOOSE c \in before : \A b \in before : b <= c

(* Mutation: the cluster is not replaced by the one before it. *)
BackNextSame ==
  IF search.cluster_number >= NumberOfClusters THEN Ends("error")
  ELSE [search EXCEPT !.position = ClusterStart(search.cluster_number)]

(* The search goes on at the START of the cluster before. *)
BackNext ==
  IF search.cluster_number >= NumberOfClusters THEN Ends("error")
  ELSE LET cluster == Reversed(search.cluster_number)
       IN [search EXCEPT !.cluster_number = cluster, !.position = ClusterStart(cluster),
             !.step = IF cluster > 2 THEN "back" ELSE "name"]

(* Another entry of a name's kind, or a terminator, ends the search; any   *)
(* other entry only that of the cluster.                                   *)
BackOther ==
  /\ search.step = "back"
  /\ ~ IsLong(KindOf(search.position))
  /\ search' = IF KindOf(search.position).type \in ShortTypes \cup {"terminator"}
                 THEN [search EXCEPT !.step = "name"] ELSE BackNext

(***************************************************************************)
(* Forwards.                                                               *)
(***************************************************************************)

Forth == search.step = "forth" /\ search.position < search.end

(* A variable that still points to the data stream is not initialized for  *)
(* the next entry: nothing can be read behind a data stream.               *)
ForthFailInitialize ==
  /\ Forth
  /\ search.safe_directory_entry # None
  /\ search' = Ends("error")

ForthDataStream ==
  /\ Forth
  /\ search.safe_directory_entry = None
  /\ KindOf(search.position).type = "stream"
  /\ search' = IF search.data_stream # None THEN Ends("error")
               ELSE [search EXCEPT !.data_stream = search.position, !.position = @ + 1,
                       !.safe_directory_entry = search.position]

ForthName ==
  /\ Forth
  /\ search.safe_directory_entry = None
  /\ KindOf(search.position).type = "name"
  /\ search' = [search EXCEPT !.names = Append(@, search.position), !.position = @ + 1]

ForthNext ==
  IF search.cluster_number >= NumberOfClusters THEN Ends("error")
  ELSE LET cluster == allocation_table[search.cluster_number]
       IN [search EXCEPT !.cluster_number = cluster, !.position = ClusterStart(cluster),
             !.end = ClusterStart(cluster) + EntriesPerCluster,
             !.step = IF cluster >= 2 /\ cluster < LastClusterNumber THEN "forth" ELSE "name"]

(* The next file entry ends the search, as does a terminator; any other    *)
(* entry only that of the cluster.                                         *)
ForthOther ==
  /\ Forth
  /\ search.safe_directory_entry = None
  /\ KindOf(search.position).type \notin {"stream", "name"}
  /\ search' = IF KindOf(search.position).type \in {"file", "terminator"}
                 THEN [search EXCEPT !.step = "name"] ELSE ForthNext

ForthCluster ==
  /\ search.step = "forth"
  /\ search.position >= search.end
  /\ search' = ForthNext

(* Parts that end with one numbered 0 are taken for none.                  *)
NameParts ==
  IF KindOf(search.identifier).type \in ShortTypes /\ search.last_vfat_sequence_number = 0
    THEN <<>> ELSE search.names

(* The name is decoded, and the file entry made. *)
SearchName ==
  /\ search.step = "name"
  /\ search' = [Ends("entry") EXCEPT !.names = NameParts]

SearchStep ==
  /\ \/ SearchRoot \/ SearchFirst
     \/ BackLongName \/ BackOther
     \/ ForthFailInitialize \/ ForthDataStream \/ ForthName \/ ForthOther \/ ForthCluster
     \/ SearchName
  /\ UNCHANGED vars

ReadStep == search.step = "none" /\ Step /\ UNCHANGED search

ReadOrSearch ==
  \/ ReadStep
  \/ search.step = "none" /\ FailRead /\ UNCHANGED search
  \/ SearchStep
  \/ SearchFailRead /\ UNCHANGED vars

(* Neither waits for a read to fail. *)
SearchSpec ==
  /\ SearchInit
  /\ [][ReadOrSearch]_<<vars, search>>
  /\ WF_<<vars, search>>(ReadStep \/ SearchStep)

-----------------------------------------------------------------------------
(* A long name as a writer puts it: behind the entry of another file, from *)
(* the part that is marked as the last on, down to the entry it names.     *)
NameStart(p) ==
  CHOOSE q \in 0 .. p : /\ \A i \in q .. p - 1 : IsLong(volume[i])
                        /\ q = 0 \/ ~ IsLong(volume[q - 1])

WellFormed(p) ==
  LET q == NameStart(p)
  IN /\ q \div EntriesPerCluster = p \div EntriesPerCluster
     /\ q % EntriesPerCluster # 0
     /\ volume[q - 1].type \in ShortTypes
     /\ \A i \in q .. p - 1 : volume[i].last = (i = q) /\ volume[i].seq = p - i

(* An entry that is found by its identifier has the name that reading its  *)
(* directory gives it, where that name lies in one cluster behind another  *)
(* entry (libfsfat_file_system.c:1634), or no long name at all in the first*)
(* bytes of the volume, as many as a cluster has (1623); all names that are*)
(* found are parts numbered one by one up to the last (1675), but for what *)
(* comes before a part numbered 0, which is compared with nothing; a name  *)
(* of exFAT is put together from entries that are names.                   *)
EntryAsListed ==
  search.result = "entry" =>
    LET p == search.identifier
        names == search.names
    IN /\ volume[p].type \in ShortTypes /\ WellFormed(p) =>
            names = IF ClusterOf(p) = 0 THEN <<>>
                    ELSE [i \in 1 .. p - NameStart(p) |-> NameStart(p) + i - 1]
       /\ volume[p].type \in ShortTypes =>
            \A i \in 1 .. Len(names) - 1 :
              volume[names[i + 1]].seq # 0 =>
                volume[names[i]].seq = volume[names[i + 1]].seq + 1
       /\ volume[p].type = "file" =>
            \A i \in DOMAIN names : volume[names[i]].type = "name"

(* A file that a directory of exFAT lists, with its data stream and its    *)
(* name behind it, can be had by its identifier, unless it cannot be read. *)
ListedFileFound ==
  LET p == search.identifier
  IN /\ search.result = "error"
     /\ volume[p].type = "file"
     => ~ /\ volume[p + 1].type = "stream"
          /\ volume[p + 2].type = "name"
          /\ (p + 2) \div EntriesPerCluster = p \div EntriesPerCluster

(* The chains of the table come to an end. *)
Acyclic ==
  LET ends[c \in 0 .. NumberOfClusters - 1, n \in 0 .. NumberOfClusters] ==
        \/ allocation_table[c] \notin 0 .. NumberOfClusters - 1
        \/ n > 0 /\ ends[allocation_table[c], n - 1]
  IN \A c \in 2 .. NumberOfClusters - 1 : ends[c, NumberOfClusters]

(* The reading of a directory ends, also of a chain that comes back to     *)
(* itself (1044); a search, which has no such test, ends if the chains do. *)
ReadsEnd ==
  <>(\/ search.step = "none" /\ result # "running"
     \/ search.step # "none" /\ (Acyclic => search.step = "done"))
=============================================================================
