------------------------------ MODULE BlockTree ------------------------------
(***************************************************************************)
(* The block tree of libfsfat (libfsfat_block_tree.c, _block_tree_node.c)  *)
(* and the caller that owns it, the test that a cluster block is read for  *)
(* the first time (libfsfat_file_system.c).                                *)
(*                                                                         *)
(* A node covers the byte range start .. start+size-1 in steps of          *)
(* SubNodeSize(size); its array of NumberOfSubNodes entries holds sub      *)
(* nodes, or descriptors when the step is a single block.  The entry of a  *)
(* sub node is set exactly when the node is a member of "nodes": its range *)
(* follows from its parent and its index.  One descent step is one         *)
(* iteration of the loop over the levels.                                  *)
(***************************************************************************)
EXTENDS Integers, FiniteSets

CONSTANTS
  NumberOfSubNodes,  (* entries of a node, 256 in the code                 *)
  BlockSize,         (* the leaf value size                                *)
  VolumeSizes,       (* sizes a tree is created with                       *)
  MaxLevels,         (* bounds the levels a volume size asks for           *)
  Descriptors,
  Offsets            (* offsets the callers ask for, also out of range     *)

(* The sizes that the loop over the levels goes through.                   *)
StepSize[level \in Nat] ==
  IF level = 0 THEN BlockSize ELSE NumberOfSubNodes * StepSize[level - 1]

ASSUME TreeAssumption ==
  /\ NumberOfSubNodes \in Nat \ {0, 1}
  /\ BlockSize \in Nat \ {0}
  /\ VolumeSizes \subseteq Nat \ {0}
  /\ MaxLevels \in Nat
  /\ \A size \in VolumeSizes :
        size \div StepSize[MaxLevels] <= NumberOfSubNodes
  /\ Offsets \subseteq Int

VARIABLES
  volume_size,  (* the size the tree was created with                      *)
  nodes,        (* the nodes of the tree                                   *)
  values,       (* descriptors of the leaf nodes, by node and index        *)
  cursor,       (* the node the current call has descended to              *)
  call,         (* the current call, or [op |-> "none"]                    *)
  answer,       (* what the last call returned                             *)
  allocated     (* descriptors that are allocated and not yet freed        *)

vars == <<volume_size, nodes, values, cursor, call, answer, allocated>>

None == [op |-> "none"]

(***************************************************************************)
(* Nodes.                                                                  *)
(***************************************************************************)

(* Mutation: the loop condition with >= instead of >.                      *)
SubNodeSizeEqual(size) ==
  LET steps == {StepSize[level] : level \in 0 .. MaxLevels + 1}
      fit   == {s \in steps : size \div s < NumberOfSubNodes}
  IN  CHOOSE s \in fit : \A t \in fit : s <= t

(* The step of a node: the block size, times the number of entries until   *)
(* the whole size fits the entries.  The division truncates, so a node may *)
(* be larger than its entries cover.                                       *)
SubNodeSize(size) ==
  LET steps == {StepSize[level] : level \in 0 .. MaxLevels}
      fit   == {s \in steps : size \div s <= NumberOfSubNodes}
  IN  CHOOSE s \in fit : \A t \in fit : s <= t

Node(start, size) == [start |-> start, size |-> size]

Root == Node(0, volume_size)

IsLeaf(node) == SubNodeSize(node.size) = BlockSize

(* Mutation: the offset in the volume instead of the one in the node.      *)
IndexFromVolume(node, offset) == (offset - 0) \div SubNodeSize(node.size)

Index(node, offset) == (offset - node.start) \div SubNodeSize(node.size)

(* The range check of the node and the bound of its array.                 *)
HasEntry(node, offset) ==
  /\ offset >= node.start
  /\ offset < node.start + node.size
  /\ Index(node, offset) < NumberOfSubNodes

(* Mutation: a sub node that starts at the offset, not at its step.        *)
SubNodeAtOffset(node, offset) == Node(offset, SubNodeSize(node.size))

SubNode(node, offset) ==
  LET step == SubNodeSize(node.size)
  IN  Node(node.start + Index(node, offset) * step, step)

Place(node, offset) == [node |-> node, index |-> Index(node, offset)]

(***************************************************************************)
(* Calls.                                                                  *)
(***************************************************************************)

Init ==
  /\ volume_size \in VolumeSizes
  /\ nodes = {Root}
  /\ values = <<>>
  /\ cursor = Root
  /\ call = None
  /\ answer = None
  /\ allocated = {}

(* The caller allocates a descriptor for the cluster and hands it over.    *)
CallInsert(offset, descriptor) ==
  /\ call = None
  /\ answer.op # "free"
  /\ descriptor \notin allocated
  /\ allocated' = allocated \cup {descriptor}
  /\ call' = [op |-> "insert", offset |-> offset, descriptor |-> descriptor]
  /\ cursor' = Root
  /\ UNCHANGED <<volume_size, nodes, values, answer>>

CallGet(offset) ==
  /\ call = None
  /\ answer.op # "free"
  /\ call' = [op |-> "get", offset |-> offset]
  /\ cursor' = Root
  /\ UNCHANGED <<volume_size, nodes, values, answer, allocated>>

(* Returns; a descriptor the tree did not take is freed by the caller.     *)
Return(record, released) ==
  /\ answer' = record
  /\ call' = None
  /\ allocated' = allocated \ released
  /\ UNCHANGED <<volume_size, cursor>>

Descriptor == IF call.op = "insert" THEN {call.descriptor} ELSE {}

Descend ==
  /\ call # None
  /\ ~ IsLeaf(cursor)
  /\ HasEntry(cursor, call.offset)
  /\ SubNode(cursor, call.offset) \in nodes
  /\ cursor' = SubNode(cursor, call.offset)
  /\ UNCHANGED <<volume_size, nodes, values, call, answer, allocated>>

CreateSubNode ==
  /\ call.op = "insert"
  /\ ~ IsLeaf(cursor)
  /\ HasEntry(cursor, call.offset)
  /\ SubNode(cursor, call.offset) \notin nodes
  /\ nodes' = nodes \cup {SubNode(cursor, call.offset)}
  /\ cursor' = SubNode(cursor, call.offset)
  /\ UNCHANGED <<volume_size, values, call, answer, allocated>>

ReturnNoSubNode ==
  /\ call.op = "get"
  /\ ~ IsLeaf(cursor)
  /\ HasEntry(cursor, call.offset)
  /\ SubNode(cursor, call.offset) \notin nodes
  /\ Return([op |-> "get", offset |-> call.offset, result |-> 0], {})
  /\ UNCHANGED <<nodes, values>>

ReturnOutOfBounds ==
  /\ call # None
  /\ ~ HasEntry(cursor, call.offset)
  /\ Return([op |-> call.op, offset |-> call.offset, result |-> -1], Descriptor)
  /\ UNCHANGED <<nodes, values>>

ReturnExisting ==
  /\ call # None
  /\ IsLeaf(cursor)
  /\ HasEntry(cursor, call.offset)
  /\ Place(cursor, call.offset) \in DOMAIN values
  /\ Return([op     |-> call.op,
             offset |-> call.offset,
             result |-> IF call.op = "insert" THEN 0 ELSE 1,
             found  |-> values[Place(cursor, call.offset)]], Descriptor)
  /\ UNCHANGED <<nodes, values>>

SetLeafValue ==
  /\ call.op = "insert"
  /\ IsLeaf(cursor)
  /\ HasEntry(cursor, call.offset)
  /\ Place(cursor, call.offset) \notin DOMAIN values
  /\ values' = [place \in DOMAIN values \cup {Place(cursor, call.offset)} |->
                  IF place = Place(cursor, call.offset)
                  THEN call.descriptor ELSE values[place]]
  /\ Return([op |-> "insert", offset |-> call.offset, result |-> 1], {})
  /\ UNCHANGED nodes

ReturnEmptyLeaf ==
  /\ call.op = "get"
  /\ IsLeaf(cursor)
  /\ HasEntry(cursor, call.offset)
  /\ Place(cursor, call.offset) \notin DOMAIN values
  /\ Return([op |-> "get", offset |-> call.offset, result |-> 0], {})
  /\ UNCHANGED <<nodes, values>>

(* Mutation: the loop over the entries stops one entry early.              *)
FreedNodesButLast ==
  {node \in nodes :
     \/ node = Root
     \/ \E parent \in nodes, index \in 0 .. NumberOfSubNodes - 2 :
          LET step == SubNodeSize(parent.size)
          IN  node = Node(parent.start + index * step, step)}

(* Frees the nodes from the root down, entry by entry, and the descriptors *)
(* they hold.                                                              *)
FreedNodes ==
  {node \in nodes :
     \/ node = Root
     \/ \E parent \in nodes, index \in 0 .. NumberOfSubNodes - 1 :
          LET step == SubNodeSize(parent.size)
          IN  node = Node(parent.start + index * step, step)}

Free ==
  /\ call = None
  /\ answer.op # "free"
  /\ LET freed == FreedNodes
         held  == {place \in DOMAIN values : place.node \in freed}
     IN  /\ allocated' = allocated \ {values[place] : place \in held}
         /\ values' = [place \in DOMAIN values \ held |-> values[place]]
         /\ nodes' = nodes \ freed
  /\ answer' = [op |-> "free"]
  /\ UNCHANGED <<volume_size, cursor, call>>

Calls ==
  \/ \E offset \in Offsets, descriptor \in Descriptors :
        CallInsert(offset, descriptor)
  \/ \E offset \in Offsets : CallGet(offset)
  \/ Free

Steps ==
  \/ Descend \/ CreateSubNode \/ ReturnNoSubNode \/ ReturnOutOfBounds
  \/ ReturnExisting \/ SetLeafValue \/ ReturnEmptyLeaf

Next == Calls \/ Steps

(* A call runs to its end: its steps are those of one running function.    *)
Spec == Init /\ [][Next]_vars /\ WF_vars(Steps)

(***************************************************************************)
(* Properties.                                                             *)
(***************************************************************************)

Nodes ==
  {node \in [start : 0 .. volume_size, size : 1 .. volume_size] :
     node.start % BlockSize = 0}

(* The tree as a dictionary.  Its limit is what the entries of the root    *)
(* cover, which can be less than the size of the volume.                   *)
Covered == NumberOfSubNodes * SubNodeSize(volume_size)

Limit == IF Covered < volume_size THEN Covered ELSE volume_size

BlockOf(place) == place.node.start \div BlockSize + place.index

AsDictionary ==
  [block \in {BlockOf(place) : place \in DOMAIN values} |->
     values[CHOOSE place \in DOMAIN values : BlockOf(place) = block]]

Dictionary == INSTANCE BlockMap WITH limit <- Limit, blocks <- AsDictionary

(* Descending through lazily created levels files every block in one place *)
(* only and finds it there again, whatever was inserted in between: the    *)
(* tree is the dictionary BlockMap (insert returns 0 for a block that is   *)
(* there, libfsfat_block_tree_insert_block_descriptor_by_offset).          *)
ImplementsBlockMap == Dictionary!MapSpec

(* A descriptor has one owner: the tree holds the ones it took, the caller *)
(* frees the ones the tree refused, and freeing the tree frees the rest    *)
(* (on_error of check_if_cluster_block_first_read, _block_tree_node_free). *)
OneOwner ==
  call = None =>
    /\ allocated = {values[place] : place \in DOMAIN values}
    /\ \A p, q \in DOMAIN values : values[p] = values[q] => p = q
    /\ answer.op = "free" => nodes = {} /\ allocated = {}

(* A call ends: the levels a descent creates become smaller down to a leaf.*)
CallEnds == call # None ~> call = None
=============================================================================
