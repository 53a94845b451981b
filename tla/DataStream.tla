----------------------------- MODULE DataStream -----------------------------
(***************************************************************************)
(* The walk along a cluster chain that builds the data stream and the      *)
(* extents of a file (libfsfat_file_system_get_data_stream).  One action   *)
(* is one iteration of its loop.                                           *)
(*                                                                         *)
(* The allocation table, the first cluster and the size of the file are    *)
(* inputs: they are chosen at the start and never change.  Two histories   *)
(* serve the properties: "chain" lists the clusters the walk went through, *)
(* with the position in the file where each of them belongs, and "asked"   *)
(* is the size the caller asked for.                                       *)
(***************************************************************************)
EXTENDS Integers, Sequences

CONSTANTS
  NumberOfClusters,    (* entries of the allocation table                  *)
  LastClusterNumber,   (* a cluster number from here on ends a chain       *)
  ClusterBlockSize,
  FirstClusterOffset,  (* offset of cluster 2 in the volume                *)
  TreeLimit,           (* offsets below can be filed in the block tree     *)
  Tables,              (* allocation tables                                *)
  FirstClusters,       (* cluster numbers a file starts at                 *)
  Sizes                (* sizes of a file                                  *)

(* The boot sector occupies offset 0, so no data cluster starts there.     *)
ASSUME DataStreamAssumption ==
  /\ NumberOfClusters \in Nat \ {0}
  /\ LastClusterNumber \in Nat
  /\ ClusterBlockSize \in Nat \ {0}
  /\ FirstClusterOffset \in Nat \ {0}
  /\ TreeLimit \in Nat
  /\ Tables \subseteq [0 .. NumberOfClusters - 1 -> Nat]
  /\ FirstClusters \subseteq Nat
  /\ Sizes \subseteq Nat

VARIABLES
  allocation_table,
  cluster_number,        (* the cluster the walk has come to               *)
  size,                  (* bytes of the file not yet in a segment         *)
  cluster_block_tree,    (* blocks read so far                             *)
  segment_start_offset,  (* the current run of clusters, 0 for none        *)
  segment_end_offset,
  data_extents_array,
  data_stream,           (* segments [start, offset, size] of the stream   *)
  result,                (* "running", or what the function returns        *)
  chain,
  asked

vars == <<allocation_table, cluster_number, size, cluster_block_tree,
          segment_start_offset, segment_end_offset, data_extents_array,
          data_stream, result, chain, asked>>

ClusterOffset(cluster) == FirstClusterOffset + (cluster - 2) * ClusterBlockSize

Block(offset) == offset \div ClusterBlockSize

(* The stream of libfdata numbers the bytes of its segments one after the  *)
(* other.                                                                  *)
StreamSize ==
  IF data_stream = <<>> THEN 0
  ELSE data_stream[Len(data_stream)].start + data_stream[Len(data_stream)].size

(* Where the next cluster of the chain belongs in the file.                *)
NextPosition ==
  IF chain = <<>> THEN 0 ELSE chain[Len(chain)].position + ClusterBlockSize

Init ==
  /\ allocation_table \in Tables
  /\ cluster_number \in FirstClusters
  /\ size \in Sizes
  /\ cluster_block_tree = {}
  /\ segment_start_offset = 0
  /\ segment_end_offset = 0
  /\ data_extents_array = <<>>
  /\ data_stream = <<>>
  /\ result = "running"
  /\ chain = <<>>
  /\ asked = size

InChain ==
  /\ cluster_number >= 2
  /\ cluster_number < LastClusterNumber
  /\ size > 0

(* Mutation: the walk does not look whether a cluster was read before.     *)
FirstReadUnchecked(cluster_offset) == cluster_offset < TreeLimit

(* libfsfat_file_system_check_if_cluster_block_first_read succeeds: the    *)
(* block tree takes the descriptor of the cluster.                         *)
FirstRead(cluster_offset) ==
  /\ cluster_offset < TreeLimit
  /\ Block(cluster_offset) \notin cluster_block_tree

InTable(cluster) == cluster < NumberOfClusters

(* Mutation: the run is not clipped to the size of the file.               *)
SegmentSizeUnclipped == segment_end_offset - segment_start_offset

(* The part of the current run that still belongs to the file.             *)
SegmentSize ==
  LET run == segment_end_offset - segment_start_offset
  IN  IF run > size THEN size ELSE run

(* Ends the current run: an extent for all of it, a segment for the part   *)
(* of it that belongs to the file.                                         *)
EndSegment ==
  /\ data_extents_array' =
       Append(data_extents_array,
              [offset |-> segment_start_offset,
               size   |-> segment_end_offset - segment_start_offset])
  /\ data_stream' =
       Append(data_stream,
              [start  |-> StreamSize,
               offset |-> segment_start_offset,
               size   |-> SegmentSize])

(* Mutation: a gap of one cluster is not noticed.                          *)
StartsNewRunBehindGap(cluster_offset) ==
  /\ segment_start_offset # 0
  /\ cluster_offset > segment_end_offset + ClusterBlockSize

(* Mutation: every cluster starts a run of its own.                        *)
StartsNewRunAlways(cluster_offset) ==
  /\ segment_start_offset # 0
  /\ cluster_offset >= segment_end_offset

(* A cluster that starts beyond the end of the current run starts a new    *)
(* run; any other cluster is taken to continue the run.                    *)
StartsNewRun(cluster_offset) ==
  /\ segment_start_offset # 0
  /\ cluster_offset > segment_end_offset

ReadCluster ==
  LET cluster_offset == ClusterOffset(cluster_number)
  IN
  /\ result = "running"
  /\ InChain
  /\ FirstRead(cluster_offset)
  /\ InTable(cluster_number)
  /\ cluster_block_tree' = cluster_block_tree \cup {Block(cluster_offset)}
  /\ \/ /\ StartsNewRun(cluster_offset)
        /\ EndSegment
        /\ size' = size - SegmentSize
        /\ segment_start_offset' = cluster_offset
        /\ segment_end_offset' = cluster_offset + ClusterBlockSize
     \/ /\ segment_start_offset = 0
        /\ segment_start_offset' = cluster_offset
        /\ segment_end_offset' = cluster_offset + ClusterBlockSize
        /\ UNCHANGED <<data_extents_array, data_stream, size>>
     \/ /\ segment_start_offset # 0
        /\ ~ StartsNewRun(cluster_offset)
        /\ segment_end_offset' = segment_end_offset + ClusterBlockSize
        /\ UNCHANGED <<data_extents_array, data_stream, size, segment_start_offset>>
  /\ cluster_number' = allocation_table[cluster_number]
  /\ chain' = Append(chain, [cluster |-> cluster_number, position |-> NextPosition])
  /\ UNCHANGED <<allocation_table, result, asked>>

(* Mutation: the error does not leave the loop, the cluster is tried again.*)
RetryFirstRead ==
  /\ result = "running"
  /\ InChain
  /\ ~ FirstRead(ClusterOffset(cluster_number))
  /\ UNCHANGED vars

(* The cluster was read before, or it is not in the volume.                *)
FailFirstRead ==
  /\ result = "running"
  /\ InChain
  /\ ~ FirstRead(ClusterOffset(cluster_number))
  /\ result' = "error"
  /\ UNCHANGED <<allocation_table, cluster_number, size, cluster_block_tree,
                 segment_start_offset, segment_end_offset, data_extents_array,
                 data_stream, chain, asked>>

(* The cluster has no entry in the table.  The extents appended so far     *)
(* stay in the array of the caller, the stream does not reach the caller.  *)
FailTable ==
  LET cluster_offset == ClusterOffset(cluster_number)
  IN
  /\ result = "running"
  /\ InChain
  /\ FirstRead(cluster_offset)
  /\ ~ InTable(cluster_number)
  /\ result' = "error"
  /\ IF StartsNewRun(cluster_offset)
     THEN EndSegment /\ size' = size - SegmentSize
     ELSE UNCHANGED <<data_extents_array, data_stream, size>>
  /\ UNCHANGED <<allocation_table, cluster_number, cluster_block_tree,
                 segment_start_offset, segment_end_offset, chain, asked>>

(* The loop ends: the last run becomes a segment if the file needs it.     *)
Finish ==
  /\ result = "running"
  /\ ~ InChain
  /\ IF size > 0 /\ segment_start_offset # 0
     THEN EndSegment
     ELSE UNCHANGED <<data_extents_array, data_stream>>
  /\ result' = "stream"
  /\ UNCHANGED <<allocation_table, cluster_number, size, cluster_block_tree,
                 segment_start_offset, segment_end_offset, chain, asked>>

Next == ReadCluster \/ FailFirstRead \/ FailTable \/ Finish

Spec == Init /\ [][Next]_vars /\ WF_vars(Next)

(***************************************************************************)
(* Properties.                                                             *)
(***************************************************************************)

Extent == [offset : Nat, size : Nat]

Segment == [start : Nat, offset : Nat, size : Nat]

TypeOK ==
  /\ allocation_table \in [0 .. NumberOfClusters - 1 -> Nat]
  /\ cluster_number \in Nat
  /\ size \in Nat
  /\ cluster_block_tree \subseteq Nat
  /\ segment_start_offset \in Nat
  /\ segment_end_offset \in Nat
  /\ data_extents_array \in Seq(Extent)
  /\ data_stream \in Seq(Segment)
  /\ result \in {"running", "stream", "error"}
  /\ chain \in Seq([cluster : Nat, position : Nat])
  /\ asked \in Nat

(* No cluster is read twice: a chain that comes back to one of its         *)
(* clusters is noticed before the cluster is used again                    *)
(* (check_if_cluster_block_first_read).                                    *)
NoClusterTwice ==
  \A j, k \in 1 .. Len(chain) : j # k => chain[j].cluster # chain[k].cluster

(* The walk ends, also along a table whose entries form a cycle.           *)
WalkEnds == <>(result # "running")

(* A stream has the size of the file, or of its chain when that is shorter,*)
(* whatever the order of the clusters (the two places that clip a segment).*)
StreamHasSize ==
  result = "stream" =>
    StreamSize = IF asked < NextPosition THEN asked ELSE NextPosition

(* Each cluster of the chain starts at or after the end of the one before. *)
Forward ==
  \A k \in 1 .. Len(chain) - 1 :
    ClusterOffset(chain[k].cluster) < ClusterOffset(chain[k + 1].cluster)

(* Where a segment and a cluster of the chain cover the same bytes of the  *)
(* file, they agree on where these bytes are in the volume.                *)
Agree(segment, link) ==
  segment.start < link.position + ClusterBlockSize
    /\ link.position < segment.start + segment.size
  => segment.offset - segment.start = ClusterOffset(link.cluster) - link.position

StreamAgrees ==
  \A i \in 1 .. Len(data_stream), k \in 1 .. Len(chain) :
    Agree(data_stream[i], chain[k])

(* A stream maps every byte of the file to the cluster that holds it, for  *)
(* the chains that only go forward in the volume: flushing, clipping and   *)
(* the run in progress never shift the data.                               *)
ForwardStreamFollowsChain == result = "stream" /\ Forward => StreamAgrees

(* The same for every chain.  An allocation table entry may name any       *)
(* cluster, also one before it.                                            *)
StreamFollowsChain == result = "stream" => StreamAgrees

(* The extents of a forward chain are its maximal runs: an extent starts   *)
(* behind a gap, belongs to the segment of the same index and is at least  *)
(* as large, so that no two extents overlap or could be joined.            *)
ForwardExtentsAreRuns ==
  result = "stream" /\ Forward =>
    /\ Len(data_extents_array) = Len(data_stream)
    /\ \A i \in 1 .. Len(data_stream) :
         /\ data_extents_array[i].offset = data_stream[i].offset
         /\ data_extents_array[i].size >= data_stream[i].size
         /\ i > 1 => data_extents_array[i - 1].offset + data_extents_array[i - 1].size
                       < data_extents_array[i].offset
=============================================================================
