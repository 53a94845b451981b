-------------------------- MODULE DataStreamProofs --------------------------
(***************************************************************************)
(* Proofs about the walk of module DataStream, for every table, every size *)
(* of the table, the clusters and the volume, and every file.              *)
(*                                                                         *)
(* The difficulty is that the walk knows the file only up to the last      *)
(* flushed segment, and the rest as two offsets of a run in the volume.    *)
(* RunAccounts relates the run to the clusters it stands for; RunAgrees    *)
(* says that in a forward chain they are in the volume where the run says. *)
(***************************************************************************)
EXTENDS DataStream, TLAPS

Link == [cluster : Nat, position : Nat]

(* The clusters of the chain are the blocks of the tree.                   *)
Visited ==
  \A k \in 1 .. Len(chain) :
    /\ chain[k].cluster >= 2
    /\ Block(ClusterOffset(chain[k].cluster)) \in cluster_block_tree

(* The clusters of the chain follow each other in the file.                *)
Positions ==
  \A j, k \in 1 .. Len(chain) :
    j < k => chain[j].position + ClusterBlockSize <= chain[k].position

(* The segments follow each other in the file.                             *)
Segments ==
  \A i \in 1 .. Len(data_stream) :
    data_stream[i].start + data_stream[i].size <= StreamSize

(* A run is in progress once a cluster was read; it stands for all         *)
(* clusters that are not yet in a segment, unless the file needs no more.  *)
RunAccounts ==
  /\ chain = <<>> => segment_start_offset = 0 /\ data_stream = <<>>
  /\ chain # <<>> => segment_start_offset # 0
                     /\ segment_start_offset < segment_end_offset
  /\ StreamSize + size = asked
  /\ size > 0 /\ chain # <<>> =>
       segment_end_offset - segment_start_offset = NextPosition - StreamSize
  /\ size = 0 => asked <= NextPosition

(* In a forward chain a cluster is either in a segment already or at its   *)
(* place in the run.                                                       *)
RunAgrees ==
  Forward /\ size > 0 =>
    \A k \in 1 .. Len(chain) :
      \/ chain[k].position + ClusterBlockSize <= StreamSize
      \/ /\ chain[k].position >= StreamSize
         /\ ClusterOffset(chain[k].cluster) - chain[k].position
              = segment_start_offset - StreamSize

StreamInv ==
  /\ Segments
  /\ result = "running" => RunAccounts /\ RunAgrees
  /\ StreamHasSize
  /\ Forward => StreamAgrees

-----------------------------------------------------------------------------
(***************************************************************************)
(* Arithmetic of cluster offsets.                                          *)
(***************************************************************************)

(* A data cluster starts at a positive offset.                             *)
LEMMA OffsetPositive ==
  ASSUME NEW cluster \in Nat, cluster >= 2
  PROVE  ClusterOffset(cluster) \in Nat \ {0}
<1>1. cluster - 2 \in Nat
  OBVIOUS
<1>2. (cluster - 2) * ClusterBlockSize \in Nat
  BY <1>1, DataStreamAssumption
<1>. QED
  BY <1>2, DataStreamAssumption DEF ClusterOffset

(* A later cluster starts at or after the end of an earlier one.           *)
LEMMA OffsetStep ==
  ASSUME NEW a \in Nat, NEW b \in Nat, a >= 2, b >= 2,
         ClusterOffset(a) < ClusterOffset(b)
  PROVE  ClusterOffset(a) + ClusterBlockSize <= ClusterOffset(b)
<1> DEFINE C == ClusterBlockSize
<1>0. C \in Nat \ {0}
  BY DataStreamAssumption
<1>1. (b - 2) * C - (a - 2) * C = (b - a) * C
  BY <1>0
<1>2. ClusterOffset(b) - ClusterOffset(a) = (b - a) * C
  BY <1>1, DataStreamAssumption DEF ClusterOffset
<1>3. (b - a) * C > 0
  BY <1>2, OffsetPositive
<1>4. b - a > 0
  BY <1>3, <1>0
<1>5. (b - a) * C = (b - a - 1) * C + C
  BY <1>0
<1>6. (b - a - 1) * C >= 0
  BY <1>4, <1>0
<1>. QED
  BY <1>2, <1>5, <1>6, OffsetPositive, <1>0

LEMMA BlockType ==
  ASSUME NEW offset \in Nat
  PROVE  Block(offset) \in Nat
BY DataStreamAssumption DEF Block

-----------------------------------------------------------------------------
(***************************************************************************)
(* What the parts of a step do to the derived values.                      *)
(***************************************************************************)

LEMMA StreamSizeType ==
  ASSUME TypeOK
  PROVE  StreamSize \in Nat /\ NextPosition \in Nat
<1>1. StreamSize \in Nat
  <2>1. CASE data_stream = <<>>
    BY <2>1 DEF StreamSize
  <2>2. CASE data_stream # <<>>
    <3>1. data_stream \in Seq(Segment)
      BY DEF TypeOK
    <3>2. data_stream[Len(data_stream)] \in Segment
      BY <2>2, <3>1
    <3>. QED
      BY <2>2, <3>2 DEF StreamSize, Segment
  <2>. QED
    BY <2>1, <2>2
<1>2. NextPosition \in Nat
  <2>1. CASE chain = <<>>
    BY <2>1 DEF NextPosition
  <2>2. CASE chain # <<>>
    <3>1. chain \in Seq(Link)
      BY DEF TypeOK, Link
    <3>2. chain[Len(chain)] \in Link
      BY <2>2, <3>1
    <3>. QED
      BY <2>2, <3>2, DataStreamAssumption DEF NextPosition, Link
  <2>. QED
    BY <2>1, <2>2
<1>. QED
  BY <1>1, <1>2

(* Going on to a cluster: the chain grows by one link at NextPosition.     *)
LEMMA ChainGrows ==
  ASSUME TypeOK, cluster_number >= 2,
         chain' = Append(chain, [cluster |-> cluster_number, position |-> NextPosition])
  PROVE  /\ chain' \in Seq(Link)
         /\ chain' # <<>>
         /\ Len(chain') = Len(chain) + 1
         /\ \A k \in 1 .. Len(chain) : chain'[k] = chain[k]
         /\ chain'[Len(chain')] =
              [cluster |-> cluster_number, position |-> NextPosition]
         /\ NextPosition' = NextPosition + ClusterBlockSize
<1> DEFINE link == [cluster |-> cluster_number, position |-> NextPosition]
<1>1. link \in Link
  BY StreamSizeType DEF TypeOK, Link
<1>2. chain \in Seq(Link)
  BY DEF TypeOK, Link
<1>3. /\ chain' \in Seq(Link)
      /\ chain' # <<>>
      /\ Len(chain') = Len(chain) + 1
      /\ \A k \in 1 .. Len(chain) : chain'[k] = chain[k]
      /\ chain'[Len(chain')] = link
  <2> HIDE DEF link
  <2>. QED
    BY <1>1, <1>2 DEF link
<1>4. NextPosition' = chain'[Len(chain')].position + ClusterBlockSize
  BY <1>3 DEF NextPosition
<1>. QED
  BY <1>3, <1>4

(* Ending a run: the stream grows by one segment behind the others.        *)
LEMMA StreamGrows ==
  ASSUME TypeOK, segment_start_offset < segment_end_offset, EndSegment
  PROVE  /\ data_stream' \in Seq(Segment)
         /\ data_extents_array' \in Seq(Extent)
         /\ Len(data_stream') = Len(data_stream) + 1
         /\ \A i \in 1 .. Len(data_stream) : data_stream'[i] = data_stream[i]
         /\ data_stream'[Len(data_stream')] =
              [start |-> StreamSize, offset |-> segment_start_offset,
               size |-> SegmentSize]
         /\ StreamSize' = StreamSize + SegmentSize
         /\ SegmentSize \in Nat
         /\ SegmentSize <= size
<1>1. SegmentSize \in Nat /\ SegmentSize <= size
  BY DEF TypeOK, SegmentSize
<1>2. StreamSize \in Nat
  BY StreamSizeType
<1>3. [start |-> StreamSize, offset |-> segment_start_offset, size |-> SegmentSize]
        \in Segment
  BY <1>1, <1>2 DEF TypeOK, Segment
<1>4. [offset |-> segment_start_offset,
       size |-> segment_end_offset - segment_start_offset] \in Extent
  BY DEF TypeOK, Extent
<1>. QED
  BY <1>1, <1>2, <1>3, <1>4 DEF TypeOK, EndSegment, StreamSize

-----------------------------------------------------------------------------
(***************************************************************************)
(* The type invariant, with the order of the two offsets of a run that it  *)
(* needs to be inductive.                                                  *)
(***************************************************************************)

RunOrdered ==
  segment_start_offset # 0 => segment_start_offset < segment_end_offset

LEMMA TypeInit == Init => TypeOK /\ RunOrdered
BY DataStreamAssumption DEF Init, TypeOK, RunOrdered

LEMMA TypeNext == TypeOK /\ RunOrdered /\ [Next]_vars => TypeOK' /\ RunOrdered'
<1> SUFFICES ASSUME TypeOK, RunOrdered, [Next]_vars
             PROVE  TypeOK' /\ RunOrdered'
  OBVIOUS
<1>1. CASE ReadCluster
  <2> DEFINE cluster_offset == ClusterOffset(cluster_number)
  <2>1. cluster_number \in Nat /\ cluster_number >= 2
    BY <1>1 DEF ReadCluster, InChain, TypeOK
  <2>2. cluster_offset \in Nat \ {0} /\ Block(cluster_offset) \in Nat
    BY <2>1, OffsetPositive, BlockType
  <2>3. cluster_number \in 0 .. NumberOfClusters - 1
    BY <1>1, <2>1, DataStreamAssumption DEF ReadCluster, InTable
  <2>4. /\ allocation_table' = allocation_table
        /\ cluster_number' \in Nat
        /\ cluster_block_tree' \subseteq Nat
        /\ result' \in {"running", "stream", "error"}
        /\ asked' \in Nat
    BY <1>1, <2>2, <2>3 DEF ReadCluster, TypeOK
  <2>5. chain' \in Seq([cluster : Nat, position : Nat])
    BY <1>1, <2>1, ChainGrows DEF ReadCluster, Link
  <2>6. /\ segment_start_offset' \in Nat
        /\ segment_end_offset' \in Nat
        /\ RunOrdered'
        /\ size' \in Nat
        /\ data_stream' \in Seq(Segment)
        /\ data_extents_array' \in Seq(Extent)
    <3>1. CASE StartsNewRun(cluster_offset)
      <4>1. EndSegment /\ size' = size - SegmentSize
            /\ segment_start_offset' = cluster_offset
            /\ segment_end_offset' = cluster_offset + ClusterBlockSize
        BY <1>1, <3>1 DEF ReadCluster, StartsNewRun
      <4>2. segment_start_offset < segment_end_offset
        BY <3>1 DEF StartsNewRun, RunOrdered
      <4>3. /\ data_stream' \in Seq(Segment)
            /\ data_extents_array' \in Seq(Extent)
            /\ SegmentSize \in Nat
            /\ SegmentSize <= size
        BY <4>1, <4>2, StreamGrows
      <4>4. size' \in Nat
        BY <4>1, <4>3 DEF TypeOK
      <4>5. /\ segment_start_offset' \in Nat
            /\ segment_end_offset' \in Nat
            /\ RunOrdered'
        BY <4>1, <2>2, DataStreamAssumption DEF RunOrdered
      <4>. QED
        BY <4>3, <4>4, <4>5
    <3>2. CASE ~ StartsNewRun(cluster_offset)
      BY SMTT(30), <1>1, <3>2, <2>2, DataStreamAssumption
      DEF ReadCluster, StartsNewRun, TypeOK, RunOrdered
    <3>. QED
      BY <3>1, <3>2
  <2>. QED
    BY <2>4, <2>5, <2>6 DEF TypeOK
<1>2. CASE FailFirstRead
  BY <1>2 DEF FailFirstRead, TypeOK, RunOrdered
<1>3. CASE FailTable
  <2>1. CASE StartsNewRun(ClusterOffset(cluster_number))
    <3>1. EndSegment /\ size' = size - SegmentSize
      BY <1>3, <2>1 DEF FailTable
    <3>2. segment_start_offset < segment_end_offset
      BY <2>1 DEF StartsNewRun, RunOrdered
    <3>3. /\ data_stream' \in Seq(Segment)
          /\ data_extents_array' \in Seq(Extent)
          /\ SegmentSize \in Nat
          /\ SegmentSize <= size
      BY <3>1, <3>2, StreamGrows
    <3>4. size' \in Nat
      BY <3>1, <3>3 DEF TypeOK
    <3>. QED
      BY <1>3, <3>3, <3>4 DEF FailTable, TypeOK, RunOrdered
  <2>2. CASE ~ StartsNewRun(ClusterOffset(cluster_number))
    BY <1>3, <2>2 DEF FailTable, TypeOK, RunOrdered
  <2>. QED
    BY <2>1, <2>2
<1>4. CASE Finish
  <2>1. CASE size > 0 /\ segment_start_offset # 0
    <3>1. EndSegment
      BY <1>4, <2>1 DEF Finish
    <3>. QED
      BY <1>4, <2>1, <3>1, StreamGrows DEF Finish, TypeOK, RunOrdered
  <2>2. CASE ~ (size > 0 /\ segment_start_offset # 0)
    BY <1>4, <2>2 DEF Finish, TypeOK, RunOrdered
  <2>. QED
    BY <2>1, <2>2
<1>5. CASE UNCHANGED vars
  BY <1>5 DEF vars, TypeOK, RunOrdered
<1>. QED
  BY <1>1, <1>2, <1>3, <1>4, <1>5 DEF Next

(* The walk keeps its state well formed: offsets and sizes never become    *)
(* negative, whatever the table holds (libfsfat_file_system_get_data_      *)
(* stream, the arithmetic on segment offsets and size).                    *)
THEOREM TypeCorrect == Spec => []TypeOK
<1>1. Spec => [](TypeOK /\ RunOrdered)
  BY TypeInit, TypeNext, PTL DEF Spec
<1>. QED
  BY <1>1, PTL

-----------------------------------------------------------------------------
(***************************************************************************)
(* The chain: no cluster twice, and the clusters in their places.          *)
(***************************************************************************)

LEMMA LinksBefore ==
  ASSUME TypeOK, Positions
  PROVE  \A k \in 1 .. Len(chain) :
           /\ chain[k] \in Link
           /\ chain[k].position + ClusterBlockSize <= NextPosition
<1>1. chain \in Seq(Link)
  BY DEF TypeOK, Link
<1>. SUFFICES ASSUME NEW k \in 1 .. Len(chain)
              PROVE  /\ chain[k] \in Link
                     /\ chain[k].position + ClusterBlockSize <= NextPosition
  OBVIOUS
<1>2. /\ chain[k] \in Link
      /\ chain[Len(chain)] \in Link
      /\ Len(chain) \in 1 .. Len(chain)
      /\ NextPosition = chain[Len(chain)].position + ClusterBlockSize
  BY <1>1 DEF NextPosition
<1>3. CASE k = Len(chain)
  BY <1>2, <1>3, DataStreamAssumption DEF Link
<1>4. CASE k < Len(chain)
  BY <1>2, <1>4, DataStreamAssumption DEF Positions, Link
<1>. QED
  BY <1>3, <1>4, <1>1

LEMMA ReadKeepsChain ==
  ASSUME TypeOK, Visited, NoClusterTwice, Positions, ReadCluster
  PROVE  Visited' /\ NoClusterTwice' /\ Positions'
<1> DEFINE new == [cluster |-> cluster_number, position |-> NextPosition]
<1>1. /\ cluster_number \in Nat
      /\ cluster_number >= 2
      /\ chain' = Append(chain, new)
      /\ cluster_block_tree' =
           cluster_block_tree \cup {Block(ClusterOffset(cluster_number))}
      /\ Block(ClusterOffset(cluster_number)) \notin cluster_block_tree
  BY DEF ReadCluster, InChain, FirstRead, TypeOK
<1>2. /\ chain \in Seq(Link) /\ chain' \in Seq(Link)
      /\ Len(chain') = Len(chain) + 1
      /\ \A k \in 1 .. Len(chain) : chain'[k] = chain[k]
      /\ chain'[Len(chain')] = new
  BY <1>1, ChainGrows DEF TypeOK, Link
<1>3. \A k \in 1 .. Len(chain') : k \in 1 .. Len(chain) \/ k = Len(chain')
  BY <1>2
<1>4. Visited'
  BY <1>1, <1>2, <1>3 DEF Visited
<1>5. \A k \in 1 .. Len(chain) : chain[k].cluster # cluster_number
  BY <1>1 DEF Visited
<1>6. NoClusterTwice'
  BY <1>2, <1>3, <1>5 DEF NoClusterTwice
<1>7. Positions'
  <2> SUFFICES ASSUME NEW j \in 1 .. Len(chain'), NEW k \in 1 .. Len(chain'), j < k
               PROVE  chain'[j].position + ClusterBlockSize <= chain'[k].position
    BY DEF Positions
  <2>1. j \in 1 .. Len(chain)
    BY <1>2
  <2>2. CASE k \in 1 .. Len(chain)
    BY <1>2, <2>1, <2>2 DEF Positions
  <2>3. CASE k = Len(chain')
    BY <1>2, <2>1, <2>3, LinksBefore
  <2>. QED
    BY <1>3, <2>2, <2>3
<1>. QED
  BY <1>4, <1>6, <1>7

LEMMA ChainKept ==
  ASSUME chain' = chain, cluster_block_tree' = cluster_block_tree
  PROVE  /\ Visited => Visited'
         /\ NoClusterTwice => NoClusterTwice'
         /\ Positions => Positions'
         /\ Forward' <=> Forward
         /\ NextPosition' = NextPosition
BY DEF Visited, NoClusterTwice, Positions, Forward, NextPosition

(* The chain never goes through a cluster twice.                           *)
ChainInv == TypeOK /\ RunOrdered /\ Visited /\ NoClusterTwice /\ Positions

LEMMA ChainInit == Init => ChainInv
BY TypeInit DEF Init, ChainInv, Visited, NoClusterTwice, Positions

LEMMA ChainNext == ChainInv /\ [Next]_vars => ChainInv'
<1> SUFFICES ASSUME ChainInv, [Next]_vars
             PROVE  ChainInv'
  OBVIOUS
<1>1. TypeOK' /\ RunOrdered'
  BY TypeNext DEF ChainInv
<1>2. CASE ReadCluster
  BY <1>1, <1>2, ReadKeepsChain DEF ChainInv
<1>3. CASE FailFirstRead \/ FailTable \/ Finish \/ UNCHANGED vars
  <2>1. chain' = chain /\ cluster_block_tree' = cluster_block_tree
    BY <1>3 DEF FailFirstRead, FailTable, Finish, vars
  <2>. QED
    BY <1>1, <2>1, ChainKept DEF ChainInv
<1>. QED
  BY <1>2, <1>3 DEF Next

(* A cluster is read at most once on a walk, for every table: the loop     *)
(* detection of check_if_cluster_block_first_read is complete.             *)
THEOREM ClustersReadOnce == Spec => []NoClusterTwice
<1>1. Spec => []ChainInv
  BY ChainInit, ChainNext, PTL DEF Spec
<1>2. ChainInv => NoClusterTwice
  BY DEF ChainInv
<1>. QED
  BY <1>1, <1>2, PTL

-----------------------------------------------------------------------------
(***************************************************************************)
(* Ending a run: its segment takes up where the stream ended, and agrees   *)
(* with the clusters of a forward chain.                                   *)
(***************************************************************************)

LEMMA EndSegmentKeeps ==
  ASSUME ChainInv, Segments, RunAccounts, RunAgrees, Forward => StreamAgrees,
         segment_start_offset # 0, size > 0, EndSegment
  PROVE  /\ Segments'
         /\ data_stream' # <<>>
         /\ StreamSize' = StreamSize + SegmentSize
         /\ SegmentSize =
              IF NextPosition - StreamSize > size THEN size
              ELSE NextPosition - StreamSize
         /\ Forward => \A i \in 1 .. Len(data_stream'), k \in 1 .. Len(chain) :
                         Agree(data_stream'[i], chain[k])
<1>1. TypeOK /\ segment_start_offset < segment_end_offset
  BY DEF ChainInv, RunOrdered
<1>2. chain # <<>>
  BY DEF RunAccounts
<1>3. /\ data_stream' \in Seq(Segment)
      /\ Len(data_stream') = Len(data_stream) + 1
      /\ \A i \in 1 .. Len(data_stream) : data_stream'[i] = data_stream[i]
      /\ data_stream'[Len(data_stream')] =
           [start |-> StreamSize, offset |-> segment_start_offset, size |-> SegmentSize]
      /\ StreamSize' = StreamSize + SegmentSize
      /\ SegmentSize \in Nat
  BY <1>1, StreamGrows
<1>4. StreamSize \in Nat /\ NextPosition \in Nat
  BY <1>1, StreamSizeType
<1>5. data_stream \in Seq(Segment) /\ Len(data_stream) \in Nat
  BY <1>1 DEF TypeOK
<1>6. \A i \in 1 .. Len(data_stream') :
        i \in 1 .. Len(data_stream) \/ i = Len(data_stream')
  BY <1>3, <1>5
<1>7. Segments'
  <2> SUFFICES ASSUME NEW i \in 1 .. Len(data_stream')
               PROVE  data_stream'[i].start + data_stream'[i].size <= StreamSize'
    BY DEF Segments
  <2>1. CASE i \in 1 .. Len(data_stream)
    <3>1. data_stream[i] \in Segment
      BY <1>5, <2>1
    <3>2. data_stream'[i] = data_stream[i]
      BY <1>3, <2>1
    <3>3. data_stream[i].start + data_stream[i].size <= StreamSize
      BY <2>1 DEF Segments
    <3>4. data_stream[i].start \in Nat /\ data_stream[i].size \in Nat
      BY <3>1 DEF Segment
    <3>5. StreamSize <= StreamSize' /\ StreamSize' \in Nat
      BY <1>3, <1>4
    <3>. QED
      BY <3>2, <3>3, <3>4, <3>5, <1>4
  <2>2. CASE i = Len(data_stream')
    BY <2>2, <1>3, <1>4
  <2>. QED
    BY <1>6, <2>1, <2>2
<1>8. SegmentSize = IF NextPosition - StreamSize > size THEN size
                    ELSE NextPosition - StreamSize
  BY <1>2 DEF RunAccounts, SegmentSize
<1>9. ASSUME Forward, NEW i \in 1 .. Len(data_stream'), NEW k \in 1 .. Len(chain)
      PROVE  Agree(data_stream'[i], chain[k])
  <2>1. CASE i \in 1 .. Len(data_stream)
    BY <1>9, <2>1, <1>3 DEF StreamAgrees
  <2>2. CASE i = Len(data_stream')
    <3>1. \/ chain[k].position + ClusterBlockSize <= StreamSize
          \/ ClusterOffset(chain[k].cluster) - chain[k].position
               = segment_start_offset - StreamSize
      BY <1>9 DEF RunAgrees
    <3>2. chain[k] \in Link
      BY LinksBefore DEF ChainInv
    <3>3. /\ data_stream'[i].start = StreamSize
          /\ data_stream'[i].offset = segment_start_offset
      BY <2>2, <1>3
    <3>4. CASE chain[k].position + ClusterBlockSize <= StreamSize
      <4>1. ~ (StreamSize < chain[k].position + ClusterBlockSize)
        BY <3>4, <3>2, <1>4, DataStreamAssumption DEF Link
      <4>. QED
        BY <4>1, <3>3 DEF Agree
    <3>5. CASE ClusterOffset(chain[k].cluster) - chain[k].position
                 = segment_start_offset - StreamSize
      BY <3>5, <3>3 DEF Agree
    <3>. QED
      BY <3>1, <3>4, <3>5
  <2>. QED
    BY <1>6, <2>1, <2>2
<1>. QED
  BY <1>3, <1>7, <1>8, <1>9

(* A cluster that belongs behind the stream agrees with all its segments.  *)
LEMMA LaterLinkAgrees ==
  ASSUME NEW segments \in Seq(Segment), NEW link \in Link,
         \A i \in 1 .. Len(segments) :
            segments[i].start + segments[i].size <= link.position
  PROVE  \A i \in 1 .. Len(segments) : Agree(segments[i], link)
<1> SUFFICES ASSUME NEW i \in 1 .. Len(segments)
             PROVE  Agree(segments[i], link)
  OBVIOUS
<1>1. segments[i] \in Segment
  OBVIOUS
<1>. QED
  BY <1>1 DEF Agree, Segment, Link

-----------------------------------------------------------------------------
(***************************************************************************)
(* Going on to a cluster.                                                  *)
(***************************************************************************)

LEMMA ForwardKept ==
  ASSUME TypeOK, ReadCluster, Forward'
  PROVE  /\ Forward
         /\ chain # <<>> => ClusterOffset(chain[Len(chain)].cluster)
                              < ClusterOffset(cluster_number)
<1>1. /\ chain \in Seq(Link) /\ chain' \in Seq(Link)
      /\ Len(chain') = Len(chain) + 1
      /\ \A k \in 1 .. Len(chain) : chain'[k] = chain[k]
      /\ chain'[Len(chain')].cluster = cluster_number
  BY ChainGrows DEF TypeOK, Link, ReadCluster, InChain
<1>2. Forward
  BY SMTT(30), <1>1 DEF Forward
<1>3. CASE chain # <<>>
  <2>1. Len(chain) \in 1 .. Len(chain') - 1
    BY <1>1, <1>3
  <2>. QED
    BY <1>1, <1>2, <2>1 DEF Forward
<1>. QED
  BY <1>2, <1>3

(* The accounts of the stream, the run and the sizes.                      *)
LEMMA ReadAccounts ==
  ASSUME ChainInv, Segments, RunAccounts, RunAgrees, Forward => StreamAgrees,
         ReadCluster
  PROVE  /\ Segments'
         /\ RunAccounts'
         /\ StreamSize' <= NextPosition
         /\ Forward =>
               \A i \in 1 .. Len(data_stream'), k \in 1 .. Len(chain) :
                  Agree(data_stream'[i], chain[k])
<1> DEFINE cluster_offset == ClusterOffset(cluster_number)
<1>1. /\ TypeOK
      /\ cluster_number \in Nat
      /\ cluster_number >= 2
      /\ size \in Nat
      /\ size > 0
      /\ asked \in Nat
      /\ asked' = asked
      /\ segment_start_offset \in Nat
      /\ segment_end_offset \in Nat
  BY DEF ChainInv, ReadCluster, InChain, TypeOK
<1>2. cluster_offset \in Nat \ {0}
  BY <1>1, OffsetPositive
<1>3. /\ chain' # <<>>
      /\ NextPosition' = NextPosition + ClusterBlockSize
      /\ StreamSize \in Nat
      /\ NextPosition \in Nat
  BY <1>1, ChainGrows, StreamSizeType DEF ReadCluster
<1>4. ClusterBlockSize \in Nat \ {0}
  BY DataStreamAssumption
<1>5. CASE StartsNewRun(cluster_offset)
  <2>1. /\ EndSegment
        /\ size' = size - SegmentSize
        /\ segment_start_offset # 0
        /\ segment_start_offset' = cluster_offset
        /\ segment_end_offset' = cluster_offset + ClusterBlockSize
    BY <1>5 DEF ReadCluster, StartsNewRun
  <2>2. /\ Segments'
        /\ StreamSize' = StreamSize + SegmentSize
        /\ SegmentSize = IF NextPosition - StreamSize > size THEN size
                         ELSE NextPosition - StreamSize
        /\ Forward => \A i \in 1 .. Len(data_stream'), k \in 1 .. Len(chain) :
                        Agree(data_stream'[i], chain[k])
    BY <1>1, <2>1, EndSegmentKeeps
  <2>3. StreamSize + size = asked
    BY DEF RunAccounts
  <2>4. /\ StreamSize' + size' = asked'
        /\ StreamSize' <= NextPosition
        /\ size' > 0 => StreamSize' = NextPosition
        /\ size' = 0 => asked' <= NextPosition'
    BY <1>1, <1>3, <1>4, <2>1, <2>2, <2>3
  <2>5. RunAccounts'
    BY <1>2, <1>3, <1>4, <2>1, <2>4 DEF RunAccounts
  <2>. QED
    BY <2>2, <2>4, <2>5
<1>6. CASE ~ StartsNewRun(cluster_offset)
  <2>1. /\ data_stream' = data_stream
        /\ size' = size
        /\ StreamSize' = StreamSize
        /\ Segments'
    BY <1>6 DEF ReadCluster, StartsNewRun, StreamSize, Segments
  <2>2. CASE segment_start_offset = 0
    <3>1. chain = <<>> /\ StreamSize = 0 /\ NextPosition = 0
      BY <2>2 DEF RunAccounts, StreamSize, NextPosition
    <3>2. /\ segment_start_offset' = cluster_offset
          /\ segment_end_offset' = cluster_offset + ClusterBlockSize
      BY <1>6, <2>2 DEF ReadCluster, StartsNewRun
    <3>3. RunAccounts'
      BY <1>1, <1>2, <1>3, <1>4, <2>1, <3>1, <3>2 DEF RunAccounts
    <3>. QED
      BY <2>1, <3>1, <3>3 DEF StreamAgrees
  <2>3. CASE segment_start_offset # 0
    <3>1. /\ chain # <<>>
          /\ segment_start_offset < segment_end_offset
          /\ segment_end_offset - segment_start_offset = NextPosition - StreamSize
      BY <1>1, <2>3 DEF RunAccounts
    <3>2. /\ segment_start_offset' = segment_start_offset
          /\ segment_end_offset' = segment_end_offset + ClusterBlockSize
      BY <1>6, <2>3 DEF ReadCluster, StartsNewRun
    <3>3. StreamSize <= NextPosition
      BY <1>1, <1>3, <3>1
    <3>4. RunAccounts'
      BY <1>1, <1>3, <1>4, <2>1, <2>3, <3>1, <3>2 DEF RunAccounts
    <3>. QED
      BY <2>1, <3>3, <3>4 DEF StreamAgrees
  <2>. QED
    BY <2>2, <2>3
<1>. QED
  BY <1>5, <1>6

(* In a forward chain the new cluster is at its place in the run: a        *)
(* cluster that does not start a new run starts where the run ends.        *)
LEMMA ReadAgrees ==
  ASSUME ChainInv, Segments, RunAccounts, RunAgrees, Forward => StreamAgrees,
         ReadCluster
  PROVE  RunAgrees' /\ (Forward' => StreamAgrees')
<1> DEFINE cluster_offset == ClusterOffset(cluster_number)
<1>1. /\ TypeOK
      /\ cluster_number \in Nat
      /\ cluster_number >= 2
      /\ size \in Nat
      /\ size > 0
      /\ segment_start_offset \in Nat
      /\ segment_end_offset \in Nat
  BY DEF ChainInv, ReadCluster, InChain, TypeOK
<1>2. cluster_offset \in Nat \ {0}
  BY <1>1, OffsetPositive
<1>3. /\ chain \in Seq(Link) /\ chain' \in Seq(Link)
      /\ Len(chain') = Len(chain) + 1
      /\ \A k \in 1 .. Len(chain) : chain'[k] = chain[k]
      /\ chain'[Len(chain')] = [cluster |-> cluster_number, position |-> NextPosition]
      /\ NextPosition' = NextPosition + ClusterBlockSize
      /\ StreamSize \in Nat
      /\ NextPosition \in Nat
  BY <1>1, ChainGrows, StreamSizeType DEF ReadCluster, TypeOK, Link
<1>4. ClusterBlockSize \in Nat \ {0}
  BY DataStreamAssumption
<1>5. /\ Segments'
      /\ RunAccounts'
      /\ StreamSize' <= NextPosition
      /\ Forward => \A i \in 1 .. Len(data_stream'), k \in 1 .. Len(chain) :
                      Agree(data_stream'[i], chain[k])
  BY ReadAccounts
<1>6. \A k \in 1 .. Len(chain') : k \in 1 .. Len(chain) \/ k = Len(chain')
  BY <1>3
<1>7. TypeOK'
  BY TypeNext DEF ChainInv, Next
<1>8. /\ data_stream' \in Seq(Segment)
      /\ StreamSize' \in Nat
  <2>1. data_stream' \in Seq(Segment)
    BY <1>7 DEF TypeOK
  <2>2. CASE data_stream' = <<>>
    BY <2>1, <2>2 DEF StreamSize
  <2>3. CASE data_stream' # <<>>
    <3>1. data_stream'[Len(data_stream')] \in Segment
      BY <2>1, <2>3
    <3>. QED
      BY <2>1, <2>3, <3>1 DEF StreamSize, Segment
  <2>. QED
    BY <2>2, <2>3
<1>9. ASSUME Forward'
      PROVE  StreamAgrees'
  <2> DEFINE new == [cluster |-> cluster_number, position |-> NextPosition]
  <2>1. Forward
    BY <1>1, <1>9, ForwardKept
  <2>2. new \in Link
    BY <1>1, <1>3 DEF Link
  <2>3. \A i \in 1 .. Len(data_stream') :
          data_stream'[i].start + data_stream'[i].size <= new.position
    <3> SUFFICES ASSUME NEW i \in 1 .. Len(data_stream')
                 PROVE  data_stream'[i].start + data_stream'[i].size <= NextPosition
      OBVIOUS
    <3>1. data_stream'[i] \in Segment
      BY <1>8
    <3>2. data_stream'[i].start + data_stream'[i].size <= StreamSize'
      BY <1>5 DEF Segments
    <3>3. data_stream'[i].start + data_stream'[i].size \in Nat
      BY <3>1 DEF Segment
    <3>. QED
      BY <3>2, <3>3, <1>3, <1>5, <1>8
  <2>4. \A i \in 1 .. Len(data_stream') : Agree(data_stream'[i], new)
    <3> HIDE DEF new
    <3>. QED
      BY <1>8, <2>2, <2>3, LaterLinkAgrees
  <2>5. \A i \in 1 .. Len(data_stream'), k \in 1 .. Len(chain') :
           Agree(data_stream'[i], chain'[k])
    BY <1>3, <1>5, <1>6, <2>1, <2>4
  <2>. QED
    BY <2>5 DEF StreamAgrees
<1>10. ASSUME Forward', size' > 0, NEW k \in 1 .. Len(chain')
       PROVE  \/ chain'[k].position + ClusterBlockSize <= StreamSize'
              \/ /\ chain'[k].position >= StreamSize'
                 /\ ClusterOffset(chain'[k].cluster) - chain'[k].position
                      = segment_start_offset' - StreamSize'
  <2>1. Forward /\ (chain # <<>> =>
            ClusterOffset(chain[Len(chain)].cluster) < cluster_offset)
    BY <1>1, <1>10, ForwardKept
  <2>2. \A j \in 1 .. Len(chain) :
           /\ chain[j] \in Link
           /\ chain[j].position + ClusterBlockSize <= NextPosition
    BY LinksBefore DEF ChainInv
  <2>3. CASE StartsNewRun(cluster_offset)
    <3>1. EndSegment /\ size' = size - SegmentSize /\ segment_start_offset # 0
          /\ segment_start_offset' = cluster_offset
      BY <2>3 DEF ReadCluster, StartsNewRun
    <3>2. /\ StreamSize' = StreamSize + SegmentSize
          /\ SegmentSize = IF NextPosition - StreamSize > size THEN size
                           ELSE NextPosition - StreamSize
      BY <1>1, <3>1, EndSegmentKeeps
    <3>3. StreamSize' = NextPosition
      BY <1>1, <1>3, <1>10, <3>1, <3>2
    <3>4. CASE k \in 1 .. Len(chain)
      BY <1>3, <2>2, <3>3, <3>4
    <3>5. CASE k = Len(chain')
      BY <1>2, <1>3, <3>1, <3>3, <3>5
    <3>. QED
      BY <1>6, <3>4, <3>5
  <2>4. CASE ~ StartsNewRun(cluster_offset) /\ segment_start_offset = 0
    <3>1. /\ chain = <<>> /\ StreamSize = 0 /\ NextPosition = 0
          /\ data_stream' = data_stream
          /\ segment_start_offset' = cluster_offset
      BY <2>4 DEF RunAccounts, StreamSize, NextPosition, ReadCluster, StartsNewRun
    <3>2. k = Len(chain') /\ StreamSize' = 0
      BY <1>3, <3>1 DEF StreamSize
    <3>. QED
      BY <1>2, <1>3, <3>1, <3>2
  <2>5. CASE ~ StartsNewRun(cluster_offset) /\ segment_start_offset # 0
    <3>1. /\ StreamSize' = StreamSize
          /\ size' = size
          /\ segment_start_offset' = segment_start_offset
          /\ cluster_offset <= segment_end_offset
      BY <1>1, <1>2, <2>5 DEF ReadCluster, StartsNewRun, StreamSize
    <3>2. /\ chain # <<>>
          /\ segment_start_offset < segment_end_offset
          /\ segment_end_offset - segment_start_offset = NextPosition - StreamSize
      BY <1>1, <2>5 DEF RunAccounts
    <3>3. CASE k \in 1 .. Len(chain)
      <4>1. \/ chain[k].position + ClusterBlockSize <= StreamSize
            \/ /\ chain[k].position >= StreamSize
               /\ ClusterOffset(chain[k].cluster) - chain[k].position
                    = segment_start_offset - StreamSize
        BY <1>1, <2>1, <3>3 DEF RunAgrees
      <4>. QED
        BY <1>3, <3>1, <3>3, <4>1
    <3>4. CASE k = Len(chain')
      <4> DEFINE last == chain[Len(chain)]
      <4>1. /\ Len(chain) \in 1 .. Len(chain)
            /\ last \in Link
            /\ last.cluster >= 2
            /\ NextPosition = last.position + ClusterBlockSize
        BY <1>3, <3>2, <2>2 DEF ChainInv, Visited, NextPosition
      <4>2. ClusterOffset(last.cluster) \in Nat
        BY <4>1, OffsetPositive DEF Link
      <4>3. ClusterOffset(last.cluster) - last.position
              = segment_start_offset - StreamSize
        <5>1. ~ (last.position + ClusterBlockSize <= StreamSize)
          BY <1>1, <1>3, <3>2, <4>1
        <5>. QED
          BY <1>1, <2>1, <4>1, <5>1 DEF RunAgrees
      <4>4. ClusterOffset(last.cluster) + ClusterBlockSize = segment_end_offset
        <5>1. /\ StreamSize \in Nat
              /\ segment_start_offset \in Nat
              /\ segment_end_offset \in Nat
              /\ ClusterBlockSize \in Nat
          BY <1>1, <1>3, <1>4
        <5>2. last.position \in Nat /\ NextPosition = last.position + ClusterBlockSize
          BY <4>1 DEF Link
        <5>3. segment_end_offset - segment_start_offset = NextPosition - StreamSize
          BY <3>2
        <5> HIDE DEF last
        <5>. QED
          BY SMTT(30), <4>2, <4>3, <5>1, <5>2, <5>3
      <4>5. ClusterOffset(last.cluster) + ClusterBlockSize <= cluster_offset
        BY <1>1, <2>1, <3>2, <4>1, OffsetStep DEF Link
      <4>6. cluster_offset = segment_end_offset
        BY <1>1, <1>2, <3>1, <4>4, <4>5
      <4>7. chain'[k].position = NextPosition /\ chain'[k].cluster = cluster_number
        BY <1>3, <3>4
      <4>8. NextPosition >= StreamSize
        BY <1>1, <1>3, <3>2
      <4>9. segment_end_offset - NextPosition = segment_start_offset - StreamSize
        BY <1>1, <1>3, <3>2
      <4>. QED
        <5>1. ClusterOffset(chain'[k].cluster) = segment_end_offset
          BY <4>6, <4>7
        <5>. QED
          BY <3>1, <4>7, <4>8, <4>9, <5>1
    <3>. QED
      BY <1>6, <3>3, <3>4
  <2>. QED
    BY <2>3, <2>4, <2>5
<1>. QED
  BY <1>9, <1>10 DEF RunAgrees

-----------------------------------------------------------------------------
(***************************************************************************)
(* The invariant of the stream.                                            *)
(***************************************************************************)

LEMMA StreamInit == Init => StreamInv
<1> SUFFICES ASSUME Init
             PROVE  StreamInv
  OBVIOUS
<1>1. /\ chain = <<>> /\ data_stream = <<>> /\ result = "running"
      /\ segment_start_offset = 0 /\ size = asked /\ size \in Nat
  BY DataStreamAssumption DEF Init
<1>2. StreamSize = 0 /\ NextPosition = 0
  BY <1>1 DEF StreamSize, NextPosition
<1>3. Segments /\ StreamAgrees /\ RunAgrees
  BY <1>1 DEF Segments, StreamAgrees, RunAgrees
<1>4. RunAccounts
  BY <1>1, <1>2 DEF RunAccounts
<1>. QED
  BY <1>1, <1>3, <1>4 DEF StreamInv, StreamHasSize

LEMMA StreamRead ==
  ASSUME ChainInv, StreamInv, ReadCluster
  PROVE  StreamInv'
<1>1. result = "running" /\ result' = "running"
  BY DEF ReadCluster
<1>2. Segments' /\ RunAccounts' /\ RunAgrees' /\ (Forward' => StreamAgrees')
  BY <1>1, ReadAccounts, ReadAgrees DEF StreamInv
<1>. QED
  BY <1>1, <1>2 DEF StreamInv, StreamHasSize

(* The end of the loop: what is left of the file is clipped to the run.    *)
LEMMA StreamFinish ==
  ASSUME ChainInv, StreamInv, Finish
  PROVE  StreamInv'
<1>1. /\ result = "running" /\ result' = "stream"
      /\ chain' = chain /\ asked' = asked
      /\ TypeOK /\ size \in Nat /\ asked \in Nat
      /\ cluster_block_tree' = cluster_block_tree
  BY DEF Finish, ChainInv, TypeOK
<1>2. Segments /\ RunAccounts /\ RunAgrees /\ (Forward => StreamAgrees)
  BY <1>1 DEF StreamInv
<1>3. /\ NextPosition' = NextPosition
      /\ Forward' <=> Forward
      /\ StreamSize \in Nat
      /\ NextPosition \in Nat
  BY <1>1, ChainKept, StreamSizeType
<1>4. StreamSize + size = asked
  BY <1>2 DEF RunAccounts
<1>5. CASE size > 0 /\ segment_start_offset # 0
  <2>1. EndSegment
    BY <1>5 DEF Finish
  <2>2. /\ Segments'
        /\ StreamSize' = StreamSize + SegmentSize
        /\ SegmentSize = IF NextPosition - StreamSize > size THEN size
                         ELSE NextPosition - StreamSize
        /\ Forward => \A i \in 1 .. Len(data_stream'), k \in 1 .. Len(chain) :
                        Agree(data_stream'[i], chain[k])
    BY <1>2, <1>5, <2>1, EndSegmentKeeps
  <2>3. StreamSize' = IF asked < NextPosition THEN asked ELSE NextPosition
    BY <1>1, <1>3, <1>4, <2>2
  <2>4. StreamHasSize'
    BY <1>1, <1>3, <2>3 DEF StreamHasSize
  <2>5. Forward' => StreamAgrees'
    BY <1>1, <1>3, <2>2 DEF StreamAgrees
  <2>. QED
    BY <1>1, <2>2, <2>4, <2>5 DEF StreamInv
<1>6. CASE ~ (size > 0 /\ segment_start_offset # 0)
  <2>1. data_stream' = data_stream
    BY <1>6 DEF Finish
  <2>2. Segments' /\ StreamSize' = StreamSize
    BY <1>2, <2>1 DEF Segments, StreamSize
  <2>3. StreamSize = IF asked < NextPosition THEN asked ELSE NextPosition
    <3>1. CASE size = 0
      <4>1. asked <= NextPosition
        BY <1>2, <3>1 DEF RunAccounts
      <4>. QED
        BY <1>1, <1>3, <1>4, <3>1, <4>1
    <3>2. CASE size > 0
      <4>1. chain = <<>> /\ data_stream = <<>>
        BY <1>2, <1>6, <3>2 DEF RunAccounts
      <4>2. NextPosition = 0 /\ StreamSize = 0
        BY <4>1 DEF NextPosition, StreamSize
      <4>. QED
        BY <1>1, <4>2
    <3>. QED
      BY <1>1, <3>1, <3>2
  <2>4. StreamHasSize'
    BY <1>1, <1>3, <2>2, <2>3 DEF StreamHasSize
  <2>5. Forward' => StreamAgrees'
    BY <1>1, <1>2, <1>3, <2>1 DEF StreamAgrees
  <2>. QED
    BY <1>1, <2>2, <2>4, <2>5 DEF StreamInv
<1>. QED
  BY <1>5, <1>6

(* A failed walk returns no stream; what it had built still agrees.        *)
LEMMA StreamFail ==
  ASSUME ChainInv, StreamInv, FailFirstRead \/ FailTable
  PROVE  StreamInv'
<1>1. /\ result = "running" /\ result' = "error"
      /\ chain' = chain
      /\ cluster_block_tree' = cluster_block_tree
      /\ size \in Nat /\ InChain
  BY DEF FailFirstRead, FailTable, ChainInv, TypeOK
<1>2. Segments /\ RunAccounts /\ RunAgrees /\ (Forward => StreamAgrees)
  BY <1>1 DEF StreamInv
<1>3. Forward' <=> Forward
  BY <1>1, ChainKept
<1>4. CASE EndSegment /\ segment_start_offset # 0
  <2>1. /\ Segments'
        /\ Forward => \A i \in 1 .. Len(data_stream'), k \in 1 .. Len(chain) :
                        Agree(data_stream'[i], chain[k])
    BY <1>1, <1>2, <1>4, EndSegmentKeeps DEF InChain
  <2>2. Forward' => StreamAgrees'
    BY <1>1, <1>3, <2>1 DEF StreamAgrees
  <2>. QED
    BY <1>1, <2>1, <2>2 DEF StreamInv, StreamHasSize
<1>5. CASE data_stream' = data_stream
  <2>1. Segments' /\ (Forward' => StreamAgrees')
    BY <1>1, <1>2, <1>3, <1>5 DEF Segments, StreamSize, StreamAgrees
  <2>. QED
    BY <1>1, <2>1 DEF StreamInv, StreamHasSize
<1>. QED
  BY <1>4, <1>5 DEF FailFirstRead, FailTable, StartsNewRun

LEMMA StreamUnchanged == StreamInv /\ UNCHANGED vars => StreamInv'
BY DEF StreamInv, vars, Segments, RunAccounts, RunAgrees, StreamHasSize, Forward,
       StreamAgrees, StreamSize, NextPosition

LEMMA StreamCorrect == Spec => [](ChainInv /\ StreamInv)
<1>1. ChainInv /\ StreamInv /\ [Next]_vars => StreamInv'
  BY StreamRead, StreamFinish, StreamFail, StreamUnchanged DEF Next
<1>. QED
  BY <1>1, ChainInit, ChainNext, StreamInit, PTL DEF Spec

(* Clipping is right at both places where a segment is appended: a stream  *)
(* is as large as the file, or as its chain when that is shorter.          *)
THEOREM StreamSizeCorrect == Spec => []StreamHasSize
<1>1. StreamInv => StreamHasSize
  BY DEF StreamInv
<1>. QED
  BY <1>1, StreamCorrect, PTL

(* The stream of a forward chain maps every byte of the file to the cluster*)
(* of the chain that holds it.                                             *)
THEOREM ForwardStreamCorrect == Spec => []ForwardStreamFollowsChain
<1>1. StreamInv => ForwardStreamFollowsChain
  BY DEF StreamInv, ForwardStreamFollowsChain
<1>. QED
  BY <1>1, StreamCorrect, PTL
-----------------------------------------------------------------------------
(***************************************************************************)
(* The extents.                                                            *)
(***************************************************************************)

ExtentEnd(extent) == extent.offset + extent.size

(* Extents and segments are appended together, an extent behind a gap.     *)
ExtentsApart ==
  /\ Len(data_extents_array) = Len(data_stream)
  /\ \A i \in 1 .. Len(data_stream) :
       /\ data_extents_array[i].offset = data_stream[i].offset
       /\ data_extents_array[i].size >= data_stream[i].size
       /\ i > 1 => ExtentEnd(data_extents_array[i - 1]) < data_extents_array[i].offset

(* The run in progress starts behind a gap, too.                           *)
RunApart ==
  Len(data_stream) > 0 =>
    /\ segment_start_offset # 0
    /\ ExtentEnd(data_extents_array[Len(data_stream)]) < segment_start_offset

ExtentsInv == ExtentsApart /\ (result = "running" => RunApart)

LEMMA ExtentsGrow ==
  ASSUME TypeOK, RunOrdered, ExtentsApart, RunApart, segment_start_offset # 0, EndSegment
  PROVE  /\ ExtentsApart'
         /\ Len(data_stream') > 0
         /\ ExtentEnd(data_extents_array'[Len(data_stream')]) = segment_end_offset
<1>1. PICK n \in Nat : n = Len(data_stream) /\ n = Len(data_extents_array)
  BY DEF TypeOK, ExtentsApart
<1>2. /\ segment_start_offset \in Nat /\ segment_end_offset \in Nat
      /\ segment_start_offset < segment_end_offset
      /\ data_extents_array \in Seq(Extent)
  BY DEF TypeOK, RunOrdered
<1>3. PICK extent : extent = [offset |-> segment_start_offset,
                              size   |-> segment_end_offset - segment_start_offset]
  OBVIOUS
<1>4. extent \in Extent /\ ExtentEnd(extent) = segment_end_offset
      /\ extent.offset = segment_start_offset
      /\ extent.size = segment_end_offset - segment_start_offset
  BY <1>2, <1>3 DEF Extent, ExtentEnd
<1>5. data_extents_array' = Append(data_extents_array, extent)
  BY <1>3 DEF EndSegment
<1>6. /\ Len(data_extents_array') = n + 1
      /\ \A i \in 1 .. n : data_extents_array'[i] = data_extents_array[i]
      /\ data_extents_array'[n + 1] = extent
  BY <1>1, <1>2, <1>4, <1>5
<1>7. /\ Len(data_stream') = n + 1
      /\ \A i \in 1 .. n : data_stream'[i] = data_stream[i]
      /\ data_stream'[n + 1] = [start |-> StreamSize, offset |-> segment_start_offset,
                                size |-> SegmentSize]
      /\ SegmentSize \in Nat
  BY <1>1, <1>2, StreamGrows
<1>8. SegmentSize <= segment_end_offset - segment_start_offset
  BY <1>2 DEF SegmentSize, TypeOK
<1>9. ASSUME NEW i \in 1 .. n + 1
      PROVE  /\ data_extents_array'[i].offset = data_stream'[i].offset
             /\ data_extents_array'[i].size >= data_stream'[i].size
             /\ i > 1 => ExtentEnd(data_extents_array'[i - 1]) < data_extents_array'[i].offset
  <2>1. CASE i \in 1 .. n
    <3>1. /\ data_extents_array'[i] = data_extents_array[i]
          /\ data_stream'[i] = data_stream[i]
      BY <1>6, <1>7, <2>1
    <3>2. i > 1 => data_extents_array'[i - 1] = data_extents_array[i - 1]
      BY <1>6, <2>1
    <3> QED BY <1>1, <2>1, <3>1, <3>2 DEF ExtentsApart
  <2>2. CASE i = n + 1
    <3>1. /\ data_extents_array'[i].offset = data_stream'[i].offset
          /\ data_extents_array'[i].size >= data_stream'[i].size
      BY <1>2, <1>4, <1>6, <1>7, <1>8, <2>2
    <3>2. ASSUME i > 1
          PROVE  ExtentEnd(data_extents_array'[i - 1]) < data_extents_array'[i].offset
      <4>1. i - 1 = n /\ n \in 1 .. n
        BY <2>2, <3>2
      <4>2. data_extents_array'[i - 1] = data_extents_array[n]
        BY <1>6, <4>1
      <4>3. ExtentEnd(data_extents_array[n]) < segment_start_offset
        BY <1>1, <4>1 DEF RunApart
      <4> QED BY <1>4, <1>6, <2>2, <4>2, <4>3
    <3> QED BY <3>1, <3>2
  <2> QED BY <2>1, <2>2
<1> QED
  BY <1>4, <1>6, <1>7, <1>9 DEF ExtentsApart

LEMMA ExtentsInit == Init => ExtentsInv
BY DEF Init, ExtentsInv, ExtentsApart, RunApart

LEMMA ExtentsNext ==
  TypeOK /\ RunOrdered /\ ExtentsInv /\ [Next]_vars => ExtentsInv'
<1> SUFFICES ASSUME TypeOK, RunOrdered, ExtentsInv, [Next]_vars
             PROVE  ExtentsInv'
  OBVIOUS
<1>1. CASE ReadCluster
  <2> DEFINE cluster_offset == ClusterOffset(cluster_number)
  <2>1. cluster_number \in Nat /\ cluster_number >= 2 /\ result = "running"
        /\ ExtentsApart /\ RunApart
    BY <1>1 DEF ReadCluster, InChain, TypeOK, ExtentsInv
  <2>2. cluster_offset \in Nat \ {0}
    BY <2>1, OffsetPositive
  <2> HIDE DEF cluster_offset
  <2>3. CASE StartsNewRun(cluster_offset)
    <3>1. /\ EndSegment /\ segment_start_offset # 0
          /\ cluster_offset > segment_end_offset
          /\ segment_start_offset' = cluster_offset
      BY <1>1, <2>3 DEF ReadCluster, StartsNewRun, cluster_offset
    <3>2. ExtentsApart' /\ ExtentEnd(data_extents_array'[Len(data_stream')]) = segment_end_offset
      BY <2>1, <3>1, ExtentsGrow
    <3>3. RunApart'
      BY <2>2, <3>1, <3>2 DEF RunApart, TypeOK, ExtentEnd
    <3> QED BY <3>2, <3>3 DEF ExtentsInv
  <2>4. CASE ~ StartsNewRun(cluster_offset)
    <3>1. /\ UNCHANGED <<data_extents_array, data_stream>>
          /\ segment_start_offset' = segment_start_offset
               \/ (segment_start_offset = 0 /\ segment_start_offset' = cluster_offset)
      BY <1>1, <2>4 DEF ReadCluster, cluster_offset
    <3>2. ExtentsApart' /\ RunApart'
      BY <2>1, <3>1 DEF ExtentsApart, RunApart, ExtentEnd
    <3> QED BY <3>2 DEF ExtentsInv
  <2> QED BY <2>3, <2>4
<1>2. CASE FailFirstRead
  BY <1>2 DEF FailFirstRead, ExtentsInv, ExtentsApart, ExtentEnd
<1>3. CASE FailTable \/ Finish
  <2>1. result = "running" /\ result' # "running" /\ ExtentsApart /\ RunApart
    BY <1>3 DEF FailTable, Finish, ExtentsInv
  <2>2. \/ EndSegment /\ segment_start_offset # 0
        \/ UNCHANGED <<data_extents_array, data_stream>>
    BY <1>3 DEF FailTable, Finish, StartsNewRun
  <2>3. ExtentsApart'
    BY <2>1, <2>2, ExtentsGrow DEF ExtentsApart, ExtentEnd
  <2> QED BY <2>1, <2>3 DEF ExtentsInv
<1>4. CASE UNCHANGED vars
  BY <1>4 DEF vars, ExtentsInv, ExtentsApart, RunApart, ExtentEnd
<1> QED BY <1>1, <1>2, <1>3, <1>4 DEF Next

(* The extents of a stream are longest runs, each behind a gap and each    *)
(* with its segment (libfsfat_file_system_get_data_stream, the two places  *)
(* that append an extent).                                                 *)
THEOREM ExtentsCorrect == Spec => []ForwardExtentsAreRuns
<1>1. ExtentsInv => ForwardExtentsAreRuns
  BY DEF ExtentsInv, ExtentsApart, ExtentEnd, ForwardExtentsAreRuns
<1>2. TypeOK /\ RunOrdered /\ [Next]_vars => TypeOK' /\ RunOrdered'
  BY TypeNext
<1> QED
  BY <1>1, <1>2, TypeInit, ExtentsInit, ExtentsNext, PTL DEF Spec
=============================================================================
