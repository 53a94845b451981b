--------------------------- MODULE DirectoryRead ----------------------------
(***************************************************************************)
(* Reading a directory (libfsfat_file_system.c): along a cluster chain     *)
(* (libfsfat_file_system_read_directory) or over the range of the root     *)
(* directory of FAT-12 and FAT-16 (.._read_directory_by_range).            *)
(*                                                                         *)
(* The 32-byte entries of a directory form a small protocol: the parts of  *)
(* a long name precede the entry they name, the data stream and the name   *)
(* entries of exFAT follow it.  One action reads one entry.                *)
(*                                                                         *)
(* A position stands for the offset of an entry in the volume.  The range  *)
(* is one cluster of its own that no chain leads to.                       *)
(***************************************************************************)
EXTENDS Integers, Sequences, FiniteSets

CONSTANTS
  Volumes,            (* what is stored: a function from positions to kinds*)
  Tables,             (* allocation tables                                 *)
  NumberOfClusters,   (* entries of the allocation table                   *)
  LastClusterNumber,  (* a cluster number from here on ends a chain        *)
  EntriesPerCluster,
  RangeSize,          (* entries of the range                              *)
  Methods             (* subset of {"chain", "range"}                      *)

(* The types of entry the decoder tells apart.  "stale" is an entry whose  *)
(* first byte is 0 but not the others, "label_archive" a label with        *)
(* another attribute.  Only the parts of a long name have a sequence       *)
(* number, and a flag on the last part, which comes first.                 *)
ShortTypes == {"short", "stale", "self", "parent", "label", "label_archive"}

ExfatTypes == {"file", "stream", "name", "exfat_label", "bitmap"}

Types == ShortTypes \cup ExfatTypes \cup {"terminator", "unallocated", "long"}

Kinds == [type : Types, seq : 0 .. 31, last : BOOLEAN]

(* The entries of every cluster that a table may name, and those of the    *)
(* range.  What lies behind the end of the volume cannot be read.          *)
Places == 0 .. LastClusterNumber * EntriesPerCluster + RangeSize

(* The decoder tells types apart by the format of the file system.         *)
IsFat(v) == \A p \in Places : v[p].type \notin ExfatTypes

IsExfat(v) ==
  \A p \in Places : v[p].type \in ExfatTypes \cup {"terminator"}

ASSUME DirectoryReadAssumption ==
  /\ EntriesPerCluster \in Nat \ {0}
  /\ NumberOfClusters \in Nat
  /\ LastClusterNumber \in Nat
  /\ RangeSize \in Nat
  /\ Volumes \subseteq [Places -> Kinds]
  /\ \A v \in Volumes : IsFat(v) \/ IsExfat(v)
  /\ Tables \subseteq [0 .. NumberOfClusters - 1 -> Nat]
  /\ Methods \subseteq {"chain", "range"}

FirstCluster == 2

None == -1

NoArray == <<None>>

VARIABLES
  method,
  volume,
  allocation_table,
  cluster_number,
  cluster_block_tree,         (* clusters read so far                      *)
  step,                       (* "cluster": test the loop over the chain,  *)
                              (* "entry": read an entry, "done": return    *)
  position,                   (* the next entry                            *)
  end_position,               (* the end of the cluster or the range       *)
  last_vfat_sequence_number,
  name_entries_array,         (* the long name being read, or NoArray      *)
  current_file_entry,         (* index of the exFAT file being read, or 0  *)
  data_stream_entry,          (* its data stream, or None                  *)
  directory,                  (* the directory being built                 *)
  result,                     (* "running", "directory" or "error"         *)
  seen                        (* history: the positions that were read     *)

inputs == <<method, volume, allocation_table>>

chain_fields == <<cluster_number, cluster_block_tree, end_position>>

name_fields == <<last_vfat_sequence_number, name_entries_array>>

exfat_fields == <<current_file_entry, data_stream_entry>>

vars == <<inputs, chain_fields, step, position, name_fields, exfat_fields,
          directory, result, seen>>

EmptyDirectory ==
  [entries            |-> <<>>,
   file_entries       |-> <<>>,
   self_entry         |-> None,
   parent_entry       |-> None,
   volume_label_entry |-> None]

ClusterStart(cluster) == (cluster - FirstCluster) * EntriesPerCluster

Init ==
  /\ method \in Methods
  /\ volume \in Volumes
  /\ method = "range" => IsFat(volume)
  /\ allocation_table \in Tables
  /\ cluster_number = FirstCluster
  /\ cluster_block_tree = {}
  /\ step = IF method = "chain" THEN "cluster" ELSE "entry"
  /\ position = 0
  /\ end_position = RangeSize
  /\ last_vfat_sequence_number = 0
  /\ name_entries_array = NoArray
  /\ current_file_entry = 0
  /\ data_stream_entry = None
  /\ directory = EmptyDirectory
  /\ result = "running"
  /\ seen = <<>>

(* The function returns, with the directory or after freeing it.           *)
Return(outcome) ==
  /\ step' = "done"
  /\ result' = outcome
  /\ directory' = IF outcome = "directory" THEN directory ELSE EmptyDirectory
  /\ name_entries_array' = NoArray
  /\ UNCHANGED <<inputs, chain_fields, position, last_vfat_sequence_number,
                 exfat_fields>>

(***************************************************************************)
(* The chain.                                                              *)
(***************************************************************************)

InChain ==
  /\ cluster_number >= 2
  /\ cluster_number < LastClusterNumber

EnterCluster ==
  /\ step = "cluster"
  /\ InChain
  /\ cluster_number \notin cluster_block_tree
  /\ cluster_block_tree' = cluster_block_tree \cup {cluster_number}
  /\ position' = ClusterStart(cluster_number)
  /\ end_position' = ClusterStart(cluster_number) + EntriesPerCluster
  /\ step' = "entry"
  /\ UNCHANGED <<inputs, cluster_number, name_fields, exfat_fields, directory,
                 result, seen>>

FailFirstRead ==
  /\ step = "cluster"
  /\ InChain
  /\ cluster_number \in cluster_block_tree
  /\ Return("error")
  /\ UNCHANGED seen

LeaveChain ==
  /\ step = "cluster"
  /\ ~ InChain
  /\ Return("directory")
  /\ UNCHANGED seen

NextCluster ==
  /\ step = "entry"
  /\ position = end_position
  /\ method = "chain"
  /\ cluster_number < NumberOfClusters
  /\ cluster_number' = allocation_table[cluster_number]
  /\ step' = "cluster"
  /\ UNCHANGED <<inputs, cluster_block_tree, position, end_position, name_fields,
                 exfat_fields, directory, result, seen>>

FailTable ==
  /\ step = "entry"
  /\ position = end_position
  /\ method = "chain"
  /\ cluster_number >= NumberOfClusters
  /\ Return("error")
  /\ UNCHANGED seen

LeaveRange ==
  /\ step = "entry"
  /\ position = end_position
  /\ method = "range"
  /\ Return("directory")
  /\ UNCHANGED seen

(***************************************************************************)
(* The entries.                                                            *)
(***************************************************************************)

Kind == volume[position]

Reading == step = "entry" /\ position < end_position

IsLong(kind) == kind.type = "long"

(* The entry at the position cannot be read, or it breaks the protocol.    *)
FailEntry ==
  /\ seen' = Append(seen, position)
  /\ Return("error")

(* The entry joins the entries of the directory, and the loop goes on.     *)
Keep(changed) ==
  /\ directory' = [changed EXCEPT !.entries = Append(@, position)]
  /\ seen' = Append(seen, position)
  /\ position' = position + 1
  /\ UNCHANGED <<inputs, chain_fields, step, result>>

FailRead ==
  /\ Reading
  /\ FailEntry

ReadTerminator ==
  /\ Reading
  /\ Kind.type = "terminator"
  /\ seen' = Append(seen, position)
  /\ Return("directory")

(* Mutation: an unallocated entry leaves the loop.                         *)
ReadUnallocatedLast ==
  /\ Reading
  /\ Kind.type = "unallocated"
  /\ seen' = Append(seen, position)
  /\ Return("directory")

ReadUnallocated ==
  /\ Reading
  /\ Kind.type = "unallocated"
  /\ seen' = Append(seen, position)
  /\ position' = position + 1
  /\ UNCHANGED <<inputs, chain_fields, step, name_fields, exfat_fields,
                 directory, result>>

(* The "." and ".." entries; only the chain knows them.                    *)
ReadSelf ==
  /\ Reading
  /\ method = "chain"
  /\ Kind.type = "self"
  /\ IF directory.self_entry # None
     THEN FailEntry
     ELSE /\ Keep([directory EXCEPT !.self_entry = position])
          /\ UNCHANGED <<name_fields, exfat_fields>>

ReadParent ==
  /\ Reading
  /\ method = "chain"
  /\ Kind.type = "parent"
  /\ IF directory.parent_entry # None
     THEN FailEntry
     ELSE /\ Keep([directory EXCEPT !.parent_entry = position])
          /\ UNCHANGED <<name_fields, exfat_fields>>

(* The chain looks at the label bit, the range compares all attributes.    *)
IsLabel(kind) ==
  \/ kind.type = "label"
  \/ kind.type \in {"label_archive", "exfat_label"} /\ method = "chain"

ReadLabel ==
  /\ Reading
  /\ IsLabel(Kind)
  /\ IF directory.volume_label_entry # None
     THEN FailEntry
     ELSE /\ Keep([directory EXCEPT !.volume_label_entry = position])
          /\ UNCHANGED <<name_fields, exfat_fields>>

IsShortName(kind) ==
  /\ kind.type \in ShortTypes
  /\ ~ IsLabel(kind)
  /\ kind.type \in {"self", "parent"} => method = "range"

FileEntry(identifier, names) ==
  [identifier |-> identifier, names |-> names, data |-> None]

(* Takes the long name that was read before it.                            *)
ReadShortName ==
  /\ Reading
  /\ IsShortName(Kind)
  /\ Keep([directory EXCEPT !.file_entries =
            Append(@, FileEntry(position,
                                IF name_entries_array = NoArray
                                THEN <<>> ELSE name_entries_array))])
  /\ name_entries_array' = NoArray
  /\ UNCHANGED <<last_vfat_sequence_number, exfat_fields>>

(* Mutation: a part is not compared with the one before it.                *)
FollowsAny(kind) == kind.last \/ name_entries_array # NoArray

(* A part starts a name, or has the number below the part before it.       *)
Follows(kind) ==
  \/ kind.last
  \/ /\ kind.seq + 1 = last_vfat_sequence_number
     /\ name_entries_array # NoArray

ReadLongName ==
  /\ Reading
  /\ IsLong(Kind)
  /\ IF ~ Follows(Kind)
     THEN FailEntry
     ELSE /\ name_entries_array' =
               IF Kind.last THEN <<position>> ELSE Append(name_entries_array, position)
          /\ last_vfat_sequence_number' = Kind.seq
          /\ Keep(directory)
          /\ UNCHANGED exfat_fields

(***************************************************************************)
(* The entries of exFAT.                                                   *)
(***************************************************************************)

ReadFile ==
  /\ Reading
  /\ Kind.type = "file"
  /\ Keep([directory EXCEPT !.file_entries = Append(@, FileEntry(position, <<>>))])
  /\ current_file_entry' = Len(directory.file_entries) + 1
  /\ data_stream_entry' = None
  /\ UNCHANGED name_fields

(* The file takes the start cluster and the sizes of its data stream.      *)
ReadDataStream ==
  /\ Reading
  /\ Kind.type = "stream"
  /\ IF data_stream_entry # None \/ current_file_entry = 0
     THEN FailEntry
     ELSE /\ data_stream_entry' = position
          /\ Keep([directory EXCEPT
                     !.file_entries[current_file_entry].data = position])
          /\ UNCHANGED <<name_fields, current_file_entry>>

ReadFileName ==
  /\ Reading
  /\ Kind.type = "name"
  /\ IF current_file_entry = 0
     THEN FailEntry
     ELSE /\ Keep([directory EXCEPT
                     !.file_entries[current_file_entry].names = Append(@, position)])
          /\ UNCHANGED <<name_fields, exfat_fields>>

(* The allocation bitmap, the up-case table and unknown types.             *)
ReadOther ==
  /\ Reading
  /\ Kind.type = "bitmap"
  /\ Keep(directory)
  /\ UNCHANGED <<name_fields, exfat_fields>>

ReadEntry ==
  \/ ReadTerminator \/ ReadUnallocated \/ ReadSelf \/ ReadParent
  \/ ReadLabel \/ ReadShortName \/ ReadLongName \/ ReadFile \/ ReadDataStream
  \/ ReadFileName \/ ReadOther

Step ==
  \/ EnterCluster \/ FailFirstRead \/ LeaveChain \/ NextCluster \/ FailTable
  \/ LeaveRange \/ ReadEntry

Next == Step \/ FailRead

(* The function goes on without waiting for a read to fail. *)
Spec == Init /\ [][Next]_vars /\ WF_vars(Step)

(***************************************************************************)
(* Properties.                                                             *)
(***************************************************************************)

(* The directory being built (libfsfat_directory_t): lists of positions    *)
(* that were read, and no list but in the directory that is returned.      *)
Seen == {seen[i] : i \in 1 .. Len(seen)}

(* What was read before the k-th entry and after the file entry before it. *)
IsFile(kind) == kind.type = "file" \/ IsShortName(kind)

KindAt(k) == volume[seen[k]]

Before(k) == {j \in 1 .. k - 1 : \A i \in j .. k - 1 : ~ IsFile(KindAt(i))}

Behind(k) == {j \in k + 1 .. Len(seen) : \A i \in k + 1 .. j : ~ IsFile(KindAt(i))}

FilesSeen == {k \in 1 .. Len(seen) : IsFile(KindAt(k))}

(* The entries of the volume that a set of indexes stands for, in order.   *)
InOrder(indexes) ==
  LET rank(j) == Cardinality({i \in indexes : i <= j})
  IN  [r \in 1 .. Cardinality(indexes) |-> seen[CHOOSE j \in indexes : rank(j) = r]]

(* The long name in front of a short name: from the latest first part on.  *)
LongNameParts(k) ==
  {j \in Before(k) :
     /\ IsLong(KindAt(j))
     /\ \A i \in Before(k) : i > j => ~ (IsLong(KindAt(i)) /\ KindAt(i).last)}

NamesOf(k) ==
  IF KindAt(k).type = "file"
  THEN InOrder({j \in Behind(k) : KindAt(j).type = "name"})
  ELSE InOrder(LongNameParts(k))

(* The reading stopped at a terminator, at the end of the range or behind  *)
(* the last entry of the last cluster.                                     *)
ReadToTheEnd ==
  \/ Len(seen) > 0 /\ KindAt(Len(seen)).type = "terminator"
  \/ method = "range" /\ Len(seen) = RangeSize
  \/ /\ method = "chain"
     /\ ~ InChain
     /\ Len(seen) = EntriesPerCluster * Cardinality(cluster_block_tree)

(* A directory lists every file entry up to the terminator or the end, in  *)
(* the order of the chain, and nothing else                                *)
(* (libfsfat_file_system_read_directory).                                  *)
ListsFiles ==
  result = "directory" =>
    /\ ReadToTheEnd
    /\ [i \in 1 .. Len(directory.file_entries) |-> directory.file_entries[i].identifier]
         = InOrder(FilesSeen)

(* A file entry has the name parts that belong to it and no others, for a  *)
(* short name the latest long name in front of it, for a file entry of     *)
(* exFAT the name entries up to the next file entry; the parts of a long   *)
(* name are numbered down one by one from the part that is marked as the   *)
(* last (last_vfat_sequence_number); and a file entry of exFAT has the data*)
(* stream that follows it, the only one before the next file entry.        *)
NamesInSequence(names) ==
  \A n \in DOMAIN names :
    IsLong(volume[names[n]]) => volume[names[n]].seq = volume[names[1]].seq - (n - 1)

DataStreamsOf(k) == {seen[j] : j \in {i \in Behind(k) : KindAt(i).type = "stream"}}

EntriesBelong ==
  result = "directory" =>
    \A i \in DOMAIN directory.file_entries, k \in FilesSeen :
      LET file_entry == directory.file_entries[i]
      IN file_entry.identifier = seen[k] =>
           /\ file_entry.names = NamesOf(k)
           /\ NamesInSequence(file_entry.names)
           /\ DataStreamsOf(k) = {file_entry.data} \ {None}
=============================================================================
