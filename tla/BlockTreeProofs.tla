--------------------------- MODULE BlockTreeProofs --------------------------
(***************************************************************************)
(* Proofs about the block tree, for any number of entries in a node, any   *)
(* number of levels and every size of the volume.                          *)
(*                                                                         *)
(* The first part is about the sizes of the levels: StepSize and Top are   *)
(* found by induction from the least level at which something fails.  The  *)
(* second is the invariant TreeInv: every node lies in the tree with the   *)
(* nodes on the path of its offset, and a descent is on the path of the    *)
(* offset it was called with, so that no sub node is made twice and the    *)
(* place of a block follows from its number.  OneOwner and the refinement  *)
(* of BlockMap are read off TreeInv.                                       *)
(***************************************************************************)
EXTENDS BlockTree, FiniteSetTheorems, WellFoundedInduction, TLAPS

-----------------------------------------------------------------------------
(***************************************************************************)
(* Numbers.                                                                *)
(***************************************************************************)

LEMMA FirstNatural ==
  ASSUME NEW S, S \subseteq Nat, S # {}
  PROVE  \E i \in S : \A j \in S : i <= j
<1>1. IsWellFoundedOn(OpToRel(<, Nat), Nat)
  BY NatLessThanWellFounded
<1>2. PICK i \in S : \A j \in S : ~ (<<j, i>> \in OpToRel(<, Nat))
  BY <1>1, WFMin
<1>3. \A j \in S : ~ (j < i)
  BY <1>2 DEF OpToRel
<1> QED BY <1>3

LEMMA DivBounds ==
  ASSUME NEW a \in Int, NEW b \in Nat \ {0}
  PROVE  /\ a \div b \in Int
         /\ (a \div b) * b <= a /\ a < (a \div b) * b + b
         /\ a >= 0 => a \div b \in Nat
OBVIOUS

LEMMA DivUnique ==
  ASSUME NEW a \in Int, NEW b \in Nat \ {0}, NEW q \in Int, q * b <= a, a < q * b + b
  PROVE  a \div b = q
OBVIOUS

LEMMA DivMinus ==
  ASSUME NEW x \in Int, NEW p \in Int, NEW s \in Nat \ {0}
  PROVE  (x - p * s) \div s = (x \div s) - p
<1> DEFINE q == x \div s
<1>1. q \in Int /\ q * s <= x /\ x < q * s + s
  BY DivBounds
<1>2. (q - p) * s = q * s - p * s
  BY <1>1
<1>3. /\ x - p * s \in Int /\ q - p \in Int
      /\ (q - p) * s <= x - p * s /\ x - p * s < (q - p) * s + s
  BY <1>1, <1>2
<1> HIDE DEF q
<1>4. (x - p * s) \div s = q - p
  BY <1>3, DivUnique
<1> QED
  BY <1>4 DEF q

LEMMA DivDiv ==
  ASSUME NEW x \in Int, NEW a \in Nat \ {0}, NEW c \in Nat \ {0}
  PROVE  x \div (c * a) = (x \div a) \div c
<1> DEFINE q == x \div a
           r == q \div c
<1>1. q \in Int /\ q * a <= x /\ x < q * a + a
  BY DivBounds
<1> HIDE DEF q
<1>2. r \in Int /\ r * c <= q /\ q < r * c + c
  BY <1>1, DivBounds
<1> HIDE DEF r
<1>3. c * a \in Nat \ {0}
  OBVIOUS
<1>4. r * (c * a) <= q * a
  BY <1>1, <1>2
<1>5. (q + 1) * a <= (r * c + c) * a
  BY <1>1, <1>2
<1>6. (q + 1) * a = q * a + a /\ (r * c + c) * a = r * (c * a) + c * a
  BY <1>1, <1>2
<1>7. r * (c * a) <= x /\ x < r * (c * a) + c * a
  BY <1>1, <1>2, <1>3, <1>4, <1>5, <1>6
<1>8. x \div (c * a) = r
  BY <1>2, <1>3, <1>7, DivUnique
<1> QED
  BY <1>8 DEF q, r

-----------------------------------------------------------------------------
(***************************************************************************)
(* The sizes of the steps.                                                 *)
(***************************************************************************)

StepsUpTo(n, sizes) ==
  /\ sizes \in [0 .. n -> Nat \ {0}]
  /\ sizes[0] = BlockSize
  /\ \A k \in 0 .. n : k # 0 => sizes[k] = NumberOfSubNodes * sizes[k - 1]

LEMMA StepsExist ==
  ASSUME NEW n \in Nat
  PROVE  \E sizes : StepsUpTo(n, sizes)
<1> DEFINE Without == {k \in Nat : ~ \E sizes : StepsUpTo(k, sizes)}
<1> SUFFICES ASSUME Without # {} PROVE FALSE
  OBVIOUS
<1>1. PICK k \in Without : \A j \in Without : k <= j
  BY FirstNatural
<1>2. k # 0
  <2> DEFINE zero == [i \in 0 .. 0 |-> BlockSize]
  <2>1. StepsUpTo(0, zero)
    BY TreeAssumption DEF StepsUpTo
  <2> QED
    BY <1>1, <2>1
<1>3. k - 1 \in Nat /\ k - 1 \notin Without
  BY <1>1, <1>2
<1>4. PICK sizes : StepsUpTo(k - 1, sizes)
  BY <1>3
<1> DEFINE more == [i \in 0 .. k |-> IF i = k THEN NumberOfSubNodes * sizes[k - 1] ELSE sizes[i]]
<1>5. sizes[k - 1] \in Nat \ {0}
  BY <1>2, <1>4 DEF StepsUpTo
<1>6. NumberOfSubNodes * sizes[k - 1] \in Nat \ {0}
  BY <1>5, TreeAssumption
<1>7. more \in [0 .. k -> Nat \ {0}]
  BY <1>4, <1>6 DEF StepsUpTo
<1>8. more[0] = BlockSize
  BY <1>2, <1>4 DEF StepsUpTo
<1>9. ASSUME NEW i \in 0 .. k, i # 0
      PROVE  more[i] = NumberOfSubNodes * more[i - 1]
  <2>1. CASE i = k
    BY <2>1, <1>2, <1>9
  <2>2. CASE i # k
    <3>1. i \in 0 .. k - 1 /\ i - 1 \in 0 .. k /\ i - 1 # k
      BY <1>9, <2>2
    <3> QED
      BY <1>4, <3>1, <1>9, <2>2 DEF StepsUpTo
  <2> QED
    BY <2>1, <2>2
<1>10. StepsUpTo(k, more)
  BY <1>7, <1>8, <1>9 DEF StepsUpTo
<1> QED
  BY <1>1, <1>10

LEMMA StepsAgree ==
  ASSUME NEW n \in Nat, NEW m \in Nat, NEW some, NEW other,
         StepsUpTo(n, some), StepsUpTo(m, other),
         NEW k \in Nat, k <= n, k <= m
  PROVE  some[k] = other[k]
<1> DEFINE Different == {i \in Nat : i <= n /\ i <= m /\ some[i] # other[i]}
<1> SUFFICES ASSUME Different # {} PROVE FALSE
  OBVIOUS
<1>1. PICK i \in Different : \A j \in Different : i <= j
  BY FirstNatural
<1>2. i # 0
  BY <1>1 DEF StepsUpTo
<1>3. i - 1 \in Nat /\ i - 1 \notin Different
  BY <1>1, <1>2
<1>4. some[i - 1] = other[i - 1]
  BY <1>1, <1>3
<1>5. i \in 0 .. n /\ i \in 0 .. m
  BY <1>1
<1> QED
  BY <1>1, <1>2, <1>4, <1>5 DEF StepsUpTo

(* The loop over the levels: every turn multiplies the step by the number  *)
(* of entries of a node (block_tree_node.c:149).                           *)
LEMMA StepSizes ==
  /\ StepSize \in [Nat -> Nat \ {0}]
  /\ StepSize[0] = BlockSize
  /\ \A level \in Nat : StepSize[level + 1] = NumberOfSubNodes * StepSize[level]
<1> DEFINE upTo(n) == CHOOSE sizes : StepsUpTo(n, sizes)
           all == [level \in Nat |-> upTo(level)[level]]
<1>1. \A n \in Nat : StepsUpTo(n, upTo(n))
  BY StepsExist
<1> HIDE DEF upTo
<1>2. all \in [Nat -> Nat \ {0}]
  BY <1>1 DEF StepsUpTo
<1>3. all[0] = BlockSize
  BY <1>1 DEF StepsUpTo
<1>4. ASSUME NEW level \in Nat \ {0}
      PROVE  all[level] = NumberOfSubNodes * all[level - 1]
  <2>1. upTo(level)[level] = NumberOfSubNodes * upTo(level)[level - 1]
    BY <1>1 DEF StepsUpTo
  <2>2. StepsUpTo(level, upTo(level)) /\ StepsUpTo(level - 1, upTo(level - 1))
    BY <1>1
  <2>3. upTo(level)[level - 1] = upTo(level - 1)[level - 1]
    BY <2>2, StepsAgree
  <2> QED
    BY <2>1, <2>3
<1>5. all = [level \in Nat |-> IF level = 0 THEN BlockSize
                               ELSE NumberOfSubNodes * all[level - 1]]
  BY <1>3, <1>4
<1> HIDE DEF all
<1>6. StepSize = [level \in Nat |-> IF level = 0 THEN BlockSize
                                    ELSE NumberOfSubNodes * StepSize[level - 1]]
  BY <1>5 DEF StepSize
<1>7. \A level \in Nat : StepSize[level + 1] = NumberOfSubNodes * StepSize[level]
  BY <1>6
<1>8. StepSize[0] = BlockSize
  BY <1>6
<1>9. ASSUME NEW level \in Nat
      PROVE  StepSize[level] = all[level]
  <2> DEFINE Different == {i \in Nat : StepSize[i] # all[i]}
  <2> SUFFICES ASSUME Different # {} PROVE FALSE
    OBVIOUS
  <2>1. PICK i \in Different : \A j \in Different : i <= j
    BY FirstNatural
  <2>2. i # 0
    BY <1>3, <1>8, <2>1
  <2>3. i - 1 \in Nat /\ i - 1 \notin Different
    BY <2>1, <2>2
  <2> QED
    BY <1>4, <1>6, <2>1, <2>2, <2>3
<1>10. StepSize \in [Nat -> Nat \ {0}]
  BY <1>2, <1>6, <1>9
<1> QED
  BY <1>7, <1>8, <1>10

LEMMA StepType ==
  ASSUME NEW level \in Nat
  PROVE  StepSize[level] \in Nat \ {0}
  BY StepSizes

(* The step of a level is a multiple of that of a lower level.             *)
LEMMA StepDivides ==
  ASSUME NEW lower \in Nat, NEW upper \in Nat, lower <= upper
  PROVE  \E c \in Nat \ {0} : StepSize[upper] = c * StepSize[lower]
<1> DEFINE Without == {k \in Nat : lower <= k /\ ~ \E c \in Nat \ {0} : StepSize[k] = c * StepSize[lower]}
<1> SUFFICES ASSUME Without # {} PROVE FALSE
  OBVIOUS
<1>1. PICK k \in Without : \A j \in Without : k <= j
  BY FirstNatural
<1>2. StepSize[lower] \in Nat \ {0}
  BY StepType
<1>3. k # lower
  <2>1. StepSize[lower] = 1 * StepSize[lower]
    BY <1>2
  <2> QED
    BY <1>1, <2>1
<1>4. k - 1 \in Nat /\ lower <= k - 1 /\ k - 1 \notin Without
  BY <1>1, <1>3
<1>5. PICK c \in Nat \ {0} : StepSize[k - 1] = c * StepSize[lower]
  BY <1>4
<1>6. StepSize[k - 1 + 1] = NumberOfSubNodes * StepSize[k - 1]
  BY <1>4, StepSizes
<1>7. StepSize[k] = NumberOfSubNodes * (c * StepSize[lower])
  BY <1>1, <1>5, <1>6
<1>8. NumberOfSubNodes * (c * StepSize[lower]) = (NumberOfSubNodes * c) * StepSize[lower]
  BY <1>2, TreeAssumption
<1>9. NumberOfSubNodes * c \in Nat \ {0}
  BY TreeAssumption
<1> QED
  BY <1>1, <1>7, <1>8, <1>9

LEMMA StepGrows ==
  ASSUME NEW lower \in Nat, NEW upper \in Nat, lower < upper
  PROVE  /\ NumberOfSubNodes * StepSize[lower] <= StepSize[upper]
         /\ StepSize[lower] < StepSize[upper]
<1>1. lower + 1 \in Nat /\ lower + 1 <= upper
  OBVIOUS
<1>2. PICK c \in Nat \ {0} : StepSize[upper] = c * StepSize[lower + 1]
  BY <1>1, StepDivides
<1>3. StepSize[lower + 1] = NumberOfSubNodes * StepSize[lower]
  BY StepSizes
<1>4. StepSize[lower] \in Nat \ {0} /\ StepSize[lower + 1] \in Nat \ {0}
  BY <1>1, StepType
<1>5. StepSize[lower + 1] <= c * StepSize[lower + 1]
  BY <1>4
<1>6. StepSize[lower] < NumberOfSubNodes * StepSize[lower]
  BY <1>4, TreeAssumption
<1>7. NumberOfSubNodes * StepSize[lower] \in Nat /\ c * StepSize[lower + 1] \in Nat
  BY <1>3, <1>4
<1> QED
  BY <1>2, <1>3, <1>4, <1>5, <1>6, <1>7

LEMMA StepInjective ==
  ASSUME NEW k \in Nat, NEW l \in Nat, StepSize[k] = StepSize[l]
  PROVE  k = l
<1>1. CASE k < l
  BY <1>1, StepGrows, StepType
<1>2. CASE l < k
  BY <1>2, StepGrows, StepType
<1> QED
  BY <1>1, <1>2

(* The step of a node is the least one that fits.                          *)
LEMMA SubNodeSizeLeast ==
  ASSUME NEW size \in Nat,
         NEW fits \in 0 .. MaxLevels, size \div StepSize[fits] <= NumberOfSubNodes
  PROVE  \E level \in 0 .. MaxLevels :
           /\ SubNodeSize(size) = StepSize[level]
           /\ size \div StepSize[level] <= NumberOfSubNodes
           /\ \A other \in 0 .. MaxLevels :
                size \div StepSize[other] <= NumberOfSubNodes => StepSize[level] <= StepSize[other]
<1> DEFINE steps == {StepSize[level] : level \in 0 .. MaxLevels}
           fit   == {s \in steps : size \div s <= NumberOfSubNodes}
<1>1. fit \subseteq Nat /\ fit # {}
  BY StepType, TreeAssumption
<1>2. \E s \in fit : \A t \in fit : s <= t
  BY <1>1, FirstNatural
<1>3. SubNodeSize(size) = CHOOSE s \in fit : \A t \in fit : s <= t
  BY DEF SubNodeSize
<1> HIDE DEF fit
<1>4. SubNodeSize(size) \in fit /\ \A t \in fit : SubNodeSize(size) <= t
  BY <1>2, <1>3
<1> QED
  BY <1>4 DEF fit

(* A sub node of a level has the steps of the level below.                 *)
LEMMA SubNodeSizeOfStep ==
  ASSUME NEW level \in 1 .. MaxLevels
  PROVE  SubNodeSize(StepSize[level]) = StepSize[level - 1]
<1>1. level \in Nat /\ level - 1 \in Nat /\ level - 1 \in 0 .. MaxLevels /\ MaxLevels \in Nat
  BY TreeAssumption
<1> DEFINE size == StepSize[level]
           below == StepSize[level - 1]
<1>2. size \in Nat \ {0} /\ below \in Nat \ {0} /\ NumberOfSubNodes \in Nat \ {0, 1}
  BY <1>1, StepType, TreeAssumption
<1>3. size = NumberOfSubNodes * below
  <2>1. StepSize[level - 1 + 1] = NumberOfSubNodes * StepSize[level - 1]
    BY <1>1, StepSizes
  <2> QED
    BY <1>1, <2>1
<1> HIDE DEF size, below
<1>4. size \div below = NumberOfSubNodes
  BY <1>2, <1>3, DivUnique
<1>5. size \div StepSize[level - 1] <= NumberOfSubNodes
  BY <1>2, <1>4 DEF below
<1>6. PICK k \in 0 .. MaxLevels :
        /\ SubNodeSize(size) = StepSize[k]
        /\ size \div StepSize[k] <= NumberOfSubNodes
        /\ StepSize[k] <= below
  BY <1>1, <1>2, <1>5, SubNodeSizeLeast DEF below
<1>7. k <= level - 1
  <2>1. CASE level - 1 < k
    BY <1>1, <1>2, <1>6, <2>1, StepGrows, StepType DEF below
  <2> QED
    BY <1>1, <2>1
<1>8. k = level - 1
  <2> SUFFICES ASSUME k < level - 1 PROVE FALSE
    BY <1>1, <1>7
  <2> DEFINE low == StepSize[k]
  <2>1. NumberOfSubNodes * low <= below /\ low \in Nat \ {0}
    BY <1>1, StepGrows, StepType DEF below
  <2> HIDE DEF low
  <2>2. NumberOfSubNodes * (NumberOfSubNodes * low) <= NumberOfSubNodes * below
    BY <1>2, <2>1
  <2>3. (NumberOfSubNodes + 1) * low <= NumberOfSubNodes * (NumberOfSubNodes * low)
    BY <1>2, <2>1
  <2>4. (NumberOfSubNodes + 1) * low <= size
    BY <1>2, <1>3, <2>1, <2>2, <2>3
  <2>5. (size \div low) \in Int /\ size < (size \div low) * low + low
    BY <1>2, <2>1, DivBounds
  <2>6. size \div low <= NumberOfSubNodes
    BY <1>6 DEF low
  <2>7. (size \div low) * low + low <= (NumberOfSubNodes + 1) * low
    BY <1>2, <2>1, <2>5, <2>6
  <2> QED
    BY <1>2, <2>1, <2>4, <2>5, <2>7
<1> QED
  BY <1>6, <1>8 DEF size

-----------------------------------------------------------------------------
(***************************************************************************)
(* The invariant.                                                          *)
(***************************************************************************)

(* The level of the step of the root: 0 if the root is a leaf.             *)
Top == CHOOSE level \in 0 .. MaxLevels : SubNodeSize(volume_size) = StepSize[level]

(* The node of a level that an offset belongs to.                          *)
Above(offset, level) ==
  Node((offset \div StepSize[level]) * StepSize[level], StepSize[level])

Calling ==
  \/ call = None
  \/ \E offset \in Offsets, descriptor \in Descriptors :
       call = [op |-> "insert", offset |-> offset, descriptor |-> descriptor]
  \/ \E offset \in Offsets : call = [op |-> "get", offset |-> offset]

Kept ==
  /\ volume_size \in VolumeSizes
  /\ Calling
  /\ values = [place \in DOMAIN values |-> values[place]]
  /\ IF answer.op = "free" THEN call = None /\ nodes = {} ELSE Root \in nodes

(* A node is in the tree with all the nodes that its offset belongs to.    *)
PathsKept ==
  \A node \in nodes \ {Root} :
    /\ node.start \in Nat
    /\ \E level \in 1 .. Top :
         /\ node = Above(node.start, level)
         /\ \A above \in level .. Top : Above(node.start, above) \in nodes

(* It is an entry of a node.                                               *)
Child(node, parent) ==
  \E index \in 0 .. NumberOfSubNodes - 1 :
    node = Node(parent.start + index * SubNodeSize(parent.size), SubNodeSize(parent.size))

Linked == \A node \in nodes \ {Root} : \E parent \in nodes : Child(node, parent)

Inside(offset) == offset >= 0 /\ offset < Limit

(* The descent is on the path of the offset.                               *)
OnPath ==
  call # None =>
    /\ cursor \in nodes
    /\ \/ cursor = Root
       \/ /\ Inside(call.offset)
          /\ \E level \in 1 .. Top : cursor = Above(call.offset, level)

(* Only the leaves hold descriptors.                                       *)
InLeaves ==
  \A place \in DOMAIN values :
    /\ place = [node |-> place.node, index |-> place.index]
    /\ place.node \in nodes
    /\ IsLeaf(place.node)
    /\ place.index \in 0 .. NumberOfSubNodes - 1

(* A descriptor is in one place, or still with the caller.                 *)
Held == {values[place] : place \in DOMAIN values}

Owned ==
  /\ allocated = Held \cup Descriptor
  /\ Held \cap Descriptor = {}
  /\ \A p, q \in DOMAIN values : values[p] = values[q] => p = q

TreeInv == Kept /\ PathsKept /\ Linked /\ OnPath /\ InLeaves /\ Owned

-----------------------------------------------------------------------------
(***************************************************************************)
(* Nodes and offsets.                                                      *)
(***************************************************************************)

LEMMA TopLevel ==
  ASSUME volume_size \in VolumeSizes
  PROVE  /\ Top \in 0 .. MaxLevels
         /\ SubNodeSize(volume_size) = StepSize[Top]
<1>1. volume_size \in Nat /\ MaxLevels \in 0 .. MaxLevels
      /\ volume_size \div StepSize[MaxLevels] <= NumberOfSubNodes
  BY TreeAssumption
<1>2. \E level \in 0 .. MaxLevels : SubNodeSize(volume_size) = StepSize[level]
  BY <1>1, SubNodeSizeLeast
<1> QED
  BY <1>2 DEF Top

LEMMA RootIsLeaf ==
  ASSUME volume_size \in VolumeSizes
  PROVE  IsLeaf(Root) <=> Top = 0
<1>1. Top \in Nat /\ SubNodeSize(volume_size) = StepSize[Top] /\ BlockSize = StepSize[0]
  BY TopLevel, StepSizes
<1> QED
  BY <1>1, StepInjective DEF IsLeaf, Root, Node

LEMMA AboveIsLeaf ==
  ASSUME NEW level \in 1 .. MaxLevels, NEW offset
  PROVE  /\ SubNodeSize(Above(offset, level).size) = StepSize[level - 1]
         /\ IsLeaf(Above(offset, level)) <=> level = 1
<1>1. level - 1 \in Nat /\ SubNodeSize(StepSize[level]) = StepSize[level - 1]
      /\ BlockSize = StepSize[0]
  BY SubNodeSizeOfStep, StepSizes
<1>2. Above(offset, level).size = StepSize[level]
  BY DEF Above, Node
<1> QED
  BY <1>1, <1>2, StepInjective DEF IsLeaf

LEMMA AboveCovers ==
  ASSUME NEW offset \in Nat, NEW level \in Nat
  PROVE  /\ Above(offset, level).start \in Nat
         /\ Above(offset, level).start <= offset
         /\ offset < Above(offset, level).start + StepSize[level]
         /\ Above(offset, level).start \div StepSize[level] = offset \div StepSize[level]
<1> DEFINE step == StepSize[level]
           q == offset \div step
<1>1. step \in Nat \ {0}
  BY StepType
<1>2. Above(offset, level).start = q * step
  BY DEF Above, Node
<1> HIDE DEF step
<1>3. q \in Nat /\ q * step <= offset /\ offset < q * step + step
  BY <1>1, DivBounds
<1> HIDE DEF q
<1>4. q * step \in Nat /\ (q * step) \div step = q
  BY <1>1, <1>3, DivUnique
<1>5. /\ Above(offset, level).start \in Nat
      /\ Above(offset, level).start <= offset
      /\ offset < Above(offset, level).start + step
      /\ Above(offset, level).start \div step = q
  BY <1>1, <1>2, <1>3, <1>4
<1> QED
  BY <1>5 DEF step, q

(* Offsets of one node of a level are in one node of every higher level.   *)
LEMMA AboveAgree ==
  ASSUME NEW x \in Nat, NEW y \in Nat, NEW lower \in Nat, NEW upper \in Nat, lower <= upper,
         x \div StepSize[lower] = y \div StepSize[lower]
  PROVE  Above(x, upper) = Above(y, upper)
<1>1. PICK c \in Nat \ {0} : StepSize[upper] = c * StepSize[lower]
  BY StepDivides
<1>2. StepSize[lower] \in Nat \ {0}
  BY StepType
<1>3. x \div (c * StepSize[lower]) = (x \div StepSize[lower]) \div c
  BY <1>2, DivDiv
<1>4. y \div (c * StepSize[lower]) = (y \div StepSize[lower]) \div c
  BY <1>2, DivDiv
<1> QED
  BY <1>1, <1>3, <1>4 DEF Above

LEMMA SubNodeOfRoot ==
  ASSUME volume_size \in VolumeSizes, NEW offset \in Nat
  PROVE  SubNode(Root, offset) = Above(offset, Top)
<1>1. SubNodeSize(volume_size) = StepSize[Top] /\ StepSize[Top] \in Nat \ {0}
  BY TopLevel, StepType
<1>2. offset \div StepSize[Top] \in Int
  BY <1>1, DivBounds
<1>3. 0 + ((offset - 0) \div StepSize[Top]) * StepSize[Top] = (offset \div StepSize[Top]) * StepSize[Top]
  BY <1>1, <1>2
<1> QED
  BY <1>1, <1>3 DEF SubNode, Root, Node, Index, Above

LEMMA RootHasEntry ==
  ASSUME volume_size \in VolumeSizes, NEW offset \in Int
  PROVE  /\ HasEntry(Root, offset) <=> Inside(offset)
         /\ HasEntry(Root, offset) => Index(Root, offset) \in 0 .. NumberOfSubNodes - 1
<1> DEFINE step == StepSize[Top]
           q == offset \div step
<1>1. SubNodeSize(volume_size) = step /\ step \in Nat \ {0} /\ volume_size \in Nat
      /\ NumberOfSubNodes \in Nat
  BY TopLevel, StepType, TreeAssumption
<1> HIDE DEF step
<1>2. q \in Int /\ q * step <= offset /\ offset < q * step + step /\ (offset >= 0 => q \in Nat)
  BY <1>1, DivBounds
<1>3. Index(Root, offset) = q
  BY <1>1 DEF Index, Root, Node
<1> HIDE DEF q
<1>4. offset >= 0 /\ q < NumberOfSubNodes => offset < NumberOfSubNodes * step
  <2> SUFFICES ASSUME q < NumberOfSubNodes, offset >= 0
               PROVE  offset < NumberOfSubNodes * step
    OBVIOUS
  <2>1. (q + 1) * step <= NumberOfSubNodes * step
    BY <1>1, <1>2
  <2> QED
    BY <1>1, <1>2, <2>1
<1>5. offset < NumberOfSubNodes * step => q < NumberOfSubNodes
  <2> SUFFICES ASSUME offset < NumberOfSubNodes * step, q >= NumberOfSubNodes
               PROVE  FALSE
    BY <1>1, <1>2
  <2>1. NumberOfSubNodes * step <= q * step
    BY <1>1, <1>2
  <2> QED
    BY <1>1, <1>2, <2>1
<1>6. Covered = NumberOfSubNodes * step /\ Covered \in Nat
  BY <1>1 DEF Covered
<1>7. HasEntry(Root, offset) <=> offset >= 0 /\ offset < volume_size /\ q < NumberOfSubNodes
  BY <1>1, <1>3 DEF HasEntry, Root, Node
<1>8. Inside(offset) <=> offset >= 0 /\ offset < volume_size /\ offset < Covered
  BY <1>1, <1>6 DEF Inside, Limit
<1> QED
  BY <1>1, <1>2, <1>3, <1>4, <1>5, <1>6, <1>7, <1>8

LEMMA AboveHasEntry ==
  ASSUME NEW offset \in Nat, NEW level \in 1 .. MaxLevels
  PROVE  /\ HasEntry(Above(offset, level), offset)
         /\ Index(Above(offset, level), offset) \in 0 .. NumberOfSubNodes - 1
         /\ SubNode(Above(offset, level), offset) = Above(offset, level - 1)
<1> DEFINE start == Above(offset, level).start
           step == StepSize[level - 1]
           q == offset \div StepSize[level]
           r == offset \div step
           index == (offset - start) \div step
<1>1. level \in Nat /\ level - 1 \in Nat /\ step \in Nat \ {0} /\ NumberOfSubNodes \in Nat \ {0}
      /\ StepSize[level] \in Nat \ {0}
  BY StepType, TreeAssumption
<1>2. StepSize[level] = NumberOfSubNodes * step
  <2>1. StepSize[level - 1 + 1] = NumberOfSubNodes * StepSize[level - 1]
    BY <1>1, StepSizes
  <2> QED
    BY <1>1, <2>1
<1>3. /\ start \in Nat /\ start <= offset /\ offset < start + StepSize[level]
  BY <1>1, AboveCovers
<1>4. start = q * StepSize[level]
  BY DEF Above, Node
<1>5. SubNodeSize(Above(offset, level).size) = step
  BY AboveIsLeaf
<1>6. Above(offset, level).size = StepSize[level]
  BY DEF Above, Node
<1>7. q \in Nat /\ r \in Nat
  BY <1>1, DivBounds
<1>8. Index(Above(offset, level), offset) = index
  BY <1>5 DEF Index
<1>9. SubNode(Above(offset, level), offset) = Node(start + index * step, step)
  BY <1>5, <1>8 DEF SubNode
<1>10. Above(offset, level - 1) = Node(r * step, step)
  BY DEF Above
<1> HIDE DEF q, step
<1>11. start = (q * NumberOfSubNodes) * step
  BY <1>1, <1>2, <1>4, <1>7
<1>12. index = r - q * NumberOfSubNodes
  <2>1. q * NumberOfSubNodes \in Int /\ offset \in Int
    BY <1>1, <1>7
  <2>2. (offset - (q * NumberOfSubNodes) * step) \div step = (offset \div step) - q * NumberOfSubNodes
    BY <1>1, <2>1, DivMinus
  <2> QED
    BY <1>11, <2>2
<1>13. index * step = r * step - start
  <2> HIDE DEF index, start, r
  <2> QED
    BY <1>1, <1>7, <1>11, <1>12
<1>14. start + index * step = r * step
  BY <1>1, <1>3, <1>7, <1>12, <1>13
<1>15. index \in 0 .. NumberOfSubNodes - 1
  <2>1. offset - start \in Nat /\ offset - start < NumberOfSubNodes * step
    BY <1>1, <1>2, <1>3
  <2>2. index \in Nat /\ index * step <= offset - start
    BY <1>1, <2>1, DivBounds
  <2> HIDE DEF index
  <2>3. index < NumberOfSubNodes
    <3> SUFFICES ASSUME index >= NumberOfSubNodes PROVE FALSE
      BY <1>1, <2>2
    <3>1. NumberOfSubNodes * step <= index * step
      BY <1>1, <2>2
    <3> QED
      BY <1>1, <2>1, <2>2, <3>1
  <2> QED
    BY <1>1, <2>2, <2>3
<1>16. HasEntry(Above(offset, level), offset)
  <2>1. index < NumberOfSubNodes
    BY <1>1, <1>15
  <2> QED
    BY <1>3, <1>6, <1>8, <2>1 DEF HasEntry
<1> QED
  BY <1>8, <1>9, <1>10, <1>14, <1>15, <1>16

(* The step of a descent.                                                  *)
LEMMA Descent ==
  ASSUME Kept, OnPath, call # None
  PROVE  /\ call.offset \in Int
         /\ cursor \in nodes
         /\ HasEntry(cursor, call.offset) <=> Inside(call.offset)
         /\ HasEntry(cursor, call.offset) => Index(cursor, call.offset) \in 0 .. NumberOfSubNodes - 1
<1>1. call.offset \in Int
  BY TreeAssumption DEF Kept, Calling
<1>2. volume_size \in VolumeSizes
  BY DEF Kept
<1>3. CASE cursor = Root
  BY <1>1, <1>2, <1>3, RootHasEntry DEF OnPath
<1>4. ASSUME Inside(call.offset), NEW level \in 1 .. Top, cursor = Above(call.offset, level)
      PROVE  /\ HasEntry(cursor, call.offset)
             /\ Index(cursor, call.offset) \in 0 .. NumberOfSubNodes - 1
  <2>1. call.offset \in Nat /\ level \in 1 .. MaxLevels
    BY <1>1, <1>2, <1>4, TopLevel, TreeAssumption DEF Inside
  <2> QED
    BY <1>4, <2>1, AboveHasEntry
<1> QED
  BY <1>1, <1>3, <1>4 DEF OnPath

LEMMA DescentDown ==
  ASSUME Kept, OnPath, call # None, ~ IsLeaf(cursor), HasEntry(cursor, call.offset)
  PROVE  /\ Inside(call.offset) /\ call.offset \in Nat
         /\ Child(SubNode(cursor, call.offset), cursor)
         /\ \E level \in 1 .. Top :
              /\ SubNode(cursor, call.offset) = Above(call.offset, level)
              /\ \/ cursor = Root /\ level = Top
                 \/ /\ cursor # Root
                    /\ level + 1 \in 1 .. Top /\ cursor = Above(call.offset, level + 1)
<1>1. /\ Inside(call.offset) /\ call.offset \in Nat
      /\ Index(cursor, call.offset) \in 0 .. NumberOfSubNodes - 1
  BY Descent DEF Inside
<1>2. Child(SubNode(cursor, call.offset), cursor)
  BY <1>1 DEF Child, SubNode
<1>3. volume_size \in VolumeSizes /\ Top \in 0 .. MaxLevels /\ MaxLevels \in Nat
  BY TopLevel, TreeAssumption DEF Kept
<1>4. CASE cursor = Root
  <2>1. Top # 0
    BY <1>3, <1>4, RootIsLeaf
  <2>2. SubNode(cursor, call.offset) = Above(call.offset, Top)
    BY <1>1, <1>3, <1>4, SubNodeOfRoot
  <2>3. Top \in 1 .. Top
    BY <1>3, <2>1
  <2> QED
    BY <1>1, <1>2, <1>4, <2>2, <2>3
<1>5. ASSUME NEW upper \in 1 .. Top, cursor = Above(call.offset, upper)
      PROVE  \E level \in 1 .. Top :
               /\ SubNode(cursor, call.offset) = Above(call.offset, level)
               /\ level + 1 \in 1 .. Top /\ cursor = Above(call.offset, level + 1)
  <2>1. upper \in 1 .. MaxLevels
    BY <1>3
  <2>2. upper # 1
    BY <1>5, <2>1, AboveIsLeaf
  <2>3. SubNode(cursor, call.offset) = Above(call.offset, upper - 1)
    BY <1>1, <1>5, <2>1, AboveHasEntry
  <2>4. upper - 1 \in 1 .. Top /\ (upper - 1) + 1 = upper
    BY <1>3, <2>2
  <2> QED
    BY <1>5, <2>3, <2>4
<1> QED
  BY <1>1, <1>2, <1>4, <1>5 DEF OnPath

-----------------------------------------------------------------------------
(***************************************************************************)
(* Every step keeps the invariant.                                         *)
(***************************************************************************)

LEMMA TopStays ==
  ASSUME UNCHANGED volume_size
  PROVE  UNCHANGED <<Top, Root, Limit>>
  BY DEF Top, Root, Limit, Covered

LEMMA TreeInit == Init => TreeInv
<1> SUFFICES ASSUME Init PROVE TreeInv
  OBVIOUS
<1>1. values = <<>> /\ DOMAIN values = {}
  BY DEF Init
<1>2. call = None /\ nodes = {Root} /\ answer = None /\ allocated = {}
  BY DEF Init
<1>3. Kept
  <2>1. values = [place \in DOMAIN values |-> values[place]]
    BY <1>1
  <2> QED
    BY <1>2, <2>1 DEF Init, Kept, Calling, None
<1>4. Owned
  BY <1>1, <1>2 DEF Owned, Held, Descriptor, None
<1> QED
  BY <1>1, <1>2, <1>3, <1>4 DEF TreeInv, PathsKept, Linked, OnPath, InLeaves

LEMMA CallInsertKeeps ==
  ASSUME TreeInv, NEW offset \in Offsets, NEW descriptor \in Descriptors,
         CallInsert(offset, descriptor)
  PROVE  TreeInv'
<1>1. /\ call' = [op |-> "insert", offset |-> offset, descriptor |-> descriptor]
      /\ call = None /\ answer.op # "free" /\ descriptor \notin allocated
      /\ allocated' = allocated \cup {descriptor} /\ cursor' = Root
      /\ UNCHANGED <<volume_size, nodes, values, answer>>
  BY DEF CallInsert
<1>2. UNCHANGED <<Top, Root>>
  BY <1>1, TopStays
<1>3. Kept'
  BY <1>1, <1>2 DEF TreeInv, Kept, Calling
<1>4. Descriptor = {} /\ Descriptor' = {descriptor} /\ Held' = Held
  BY <1>1 DEF Descriptor, None, Held
<1>5. Owned'
  BY <1>1, <1>4 DEF TreeInv, Owned
<1>6. OnPath'
  BY <1>1, <1>2 DEF TreeInv, Kept, OnPath
<1>7. PathsKept' /\ Linked' /\ InLeaves'
  BY <1>1, <1>2 DEF TreeInv, PathsKept, Linked, InLeaves, Above
<1> QED
  BY <1>3, <1>5, <1>6, <1>7 DEF TreeInv

LEMMA CallGetKeeps ==
  ASSUME TreeInv, NEW offset \in Offsets, CallGet(offset)
  PROVE  TreeInv'
<1>1. /\ call' = [op |-> "get", offset |-> offset]
      /\ call = None /\ answer.op # "free" /\ cursor' = Root
      /\ UNCHANGED <<volume_size, nodes, values, answer, allocated>>
  BY DEF CallGet
<1>2. UNCHANGED <<Top, Root>>
  BY <1>1, TopStays
<1>3. Kept'
  BY <1>1, <1>2 DEF TreeInv, Kept, Calling
<1>4. Descriptor = {} /\ Descriptor' = {} /\ Held' = Held
  BY <1>1 DEF Descriptor, None, Held
<1>5. Owned'
  BY <1>1, <1>4 DEF TreeInv, Owned
<1>6. OnPath'
  BY <1>1, <1>2 DEF TreeInv, Kept, OnPath
<1>7. PathsKept' /\ Linked' /\ InLeaves'
  BY <1>1, <1>2 DEF TreeInv, PathsKept, Linked, InLeaves, Above
<1> QED
  BY <1>3, <1>5, <1>6, <1>7 DEF TreeInv

LEMMA DescendKeeps ==
  ASSUME TreeInv, Descend
  PROVE  TreeInv'
<1>1. /\ call # None /\ ~ IsLeaf(cursor) /\ HasEntry(cursor, call.offset)
      /\ SubNode(cursor, call.offset) \in nodes /\ cursor' = SubNode(cursor, call.offset)
      /\ UNCHANGED <<volume_size, nodes, values, call, answer, allocated>>
  BY DEF Descend
<1>2. UNCHANGED <<Top, Root, Limit>>
  BY <1>1, TopStays
<1>3. Inside(call.offset)
      /\ \E level \in 1 .. Top : SubNode(cursor, call.offset) = Above(call.offset, level)
  BY <1>1, DescentDown DEF TreeInv
<1>4. OnPath'
  BY <1>1, <1>2, <1>3 DEF OnPath, Inside, Above
<1>5. Kept'
  BY <1>1, <1>2 DEF TreeInv, Kept, Calling
<1>6. Owned'
  BY <1>1 DEF TreeInv, Owned, Held, Descriptor
<1>7. PathsKept' /\ Linked' /\ InLeaves'
  BY <1>1, <1>2 DEF TreeInv, PathsKept, Linked, InLeaves, Above
<1> QED
  BY <1>4, <1>5, <1>6, <1>7 DEF TreeInv

LEMMA CreateSubNodeKeeps ==
  ASSUME TreeInv, CreateSubNode
  PROVE  TreeInv'
<1> DEFINE new == SubNode(cursor, call.offset)
<1>1. /\ call.op = "insert" /\ ~ IsLeaf(cursor) /\ HasEntry(cursor, call.offset)
      /\ new \notin nodes /\ nodes' = nodes \cup {new} /\ cursor' = new
      /\ UNCHANGED <<volume_size, values, call, answer, allocated>>
  BY DEF CreateSubNode
<1>2. UNCHANGED <<Top, Root, Limit>>
  BY <1>1, TopStays
<1>3. call # None
  BY <1>1 DEF None
<1>4. Inside(call.offset) /\ call.offset \in Nat /\ Child(new, cursor) /\ cursor \in nodes
  BY <1>1, <1>3, DescentDown, Descent DEF TreeInv
<1>5. PICK level \in 1 .. Top :
        /\ new = Above(call.offset, level)
        /\ \/ cursor = Root /\ level = Top
           \/ /\ cursor # Root
              /\ level + 1 \in 1 .. Top /\ cursor = Above(call.offset, level + 1)
  BY <1>1, <1>3, DescentDown DEF TreeInv
<1>6. Top \in Nat /\ level \in Nat
  BY TopLevel, TreeAssumption DEF TreeInv, Kept
<1> HIDE DEF new
<1>7. Kept'
  BY <1>1, <1>2, <1>3 DEF TreeInv, Kept, Calling
<1>8. OnPath'
  BY <1>1, <1>2, <1>4, <1>5 DEF OnPath, Inside, Above
<1>9. Owned'
  BY <1>1 DEF TreeInv, Owned, Held, Descriptor
<1>10. InLeaves'
  BY <1>1 DEF TreeInv, InLeaves
<1>11. Linked'
  BY <1>1, <1>2, <1>4 DEF TreeInv, Linked
<1>12. new.start \in Nat /\ new.start \div StepSize[level] = call.offset \div StepSize[level]
  BY <1>4, <1>5, <1>6, AboveCovers
<1>13. \A above \in level .. Top : Above(new.start, above) = Above(call.offset, above)
  <2> SUFFICES ASSUME NEW above \in level .. Top
               PROVE  Above(new.start, above) = Above(call.offset, above)
    OBVIOUS
  <2>1. above \in Nat /\ level <= above
    BY <1>6
  <2> QED
    BY <1>4, <1>6, <1>12, <2>1, AboveAgree
<1>14. \A above \in level .. Top : Above(call.offset, above) \in nodes'
  <2>1. Above(call.offset, level) \in nodes'
    BY <1>1, <1>5
  <2>2. CASE level = Top
    BY <1>6, <2>1, <2>2
  <2>3. CASE level + 1 \in 1 .. Top /\ cursor = Above(call.offset, level + 1) /\ cursor # Root
    <3>1. PICK other \in 1 .. Top :
            /\ cursor.start \in Nat
            /\ cursor = Above(cursor.start, other)
            /\ \A above \in other .. Top : Above(cursor.start, above) \in nodes
      BY <1>4, <2>3 DEF TreeInv, PathsKept
    <3>2. StepSize[other] = StepSize[level + 1] /\ other \in Nat /\ level + 1 \in Nat
      BY <1>6, <2>3, <3>1 DEF Above, Node
    <3>3. other = level + 1
      BY <3>2, StepInjective
    <3>4. cursor.start \div StepSize[level + 1] = call.offset \div StepSize[level + 1]
      BY <1>4, <2>3, <3>2, AboveCovers
    <3> SUFFICES ASSUME NEW above \in level .. Top, above # level
                 PROVE  Above(call.offset, above) \in nodes'
      BY <2>1
    <3>5. above \in other .. Top /\ above \in Nat /\ level + 1 <= above
      BY <1>6, <3>3
    <3>6. Above(cursor.start, above) = Above(call.offset, above)
      BY <1>4, <3>1, <3>2, <3>4, <3>5, AboveAgree
    <3>7. Above(cursor.start, above) \in nodes
      BY <3>1, <3>5
    <3> QED
      BY <1>1, <3>6, <3>7
  <2> QED
    BY <1>5, <2>2, <2>3
<1>15. PathsKept'
  <2>1. /\ new = Above(new.start, level)
        /\ \A above \in level .. Top : Above(new.start, above) \in nodes'
    <3>1. level \in level .. Top
      BY <1>6
    <3> QED
      BY <1>5, <1>13, <1>14, <3>1
  <2>2. \A node \in nodes \ {Root} :
          /\ node.start \in Nat
          /\ \E k \in 1 .. Top :
               /\ node = Above(node.start, k)
               /\ \A above \in k .. Top : Above(node.start, above) \in nodes
    BY DEF TreeInv, PathsKept
  <2> QED
    BY <1>1, <1>2, <1>12, <2>1, <2>2 DEF PathsKept, Above
<1> QED
  BY <1>7, <1>8, <1>9, <1>10, <1>11, <1>15 DEF TreeInv

(* A call that returns without filing what it was given.                   *)
LEMMA ReturnKeeps ==
  ASSUME TreeInv, call # None, NEW record, record.op # "free",
         Return(record, Descriptor), UNCHANGED <<nodes, values>>
  PROVE  TreeInv'
<1>1. /\ call' = None /\ answer' = record /\ allocated' = allocated \ Descriptor
      /\ UNCHANGED <<volume_size, nodes, values>>
  BY DEF Return
<1>2. UNCHANGED <<Top, Root>>
  BY <1>1, TopStays
<1>3. Kept'
  BY <1>1, <1>2 DEF TreeInv, Kept, Calling
<1>4. Descriptor' = {} /\ Held' = Held
  BY <1>1 DEF Descriptor, None, Held
<1>5. Owned'
  BY <1>1, <1>4 DEF TreeInv, Owned
<1>6. OnPath'
  BY <1>1 DEF OnPath
<1>7. PathsKept' /\ Linked' /\ InLeaves'
  BY <1>1, <1>2 DEF TreeInv, PathsKept, Linked, InLeaves, Above
<1> QED
  BY <1>3, <1>5, <1>6, <1>7 DEF TreeInv

LEMMA ReturnsKeep ==
  ASSUME TreeInv,
         ReturnNoSubNode \/ ReturnOutOfBounds \/ ReturnExisting \/ ReturnEmptyLeaf
  PROVE  TreeInv'
<1>1. call # None
  BY DEF ReturnNoSubNode, ReturnOutOfBounds, ReturnExisting, ReturnEmptyLeaf, None
<1>2. call.op \in {"insert", "get"}
  BY <1>1 DEF TreeInv, Kept, Calling
<1>3. call.op = "get" => Descriptor = {}
  BY DEF Descriptor
<1> QED
  BY <1>1, <1>2, <1>3, ReturnKeeps
  DEF ReturnNoSubNode, ReturnOutOfBounds, ReturnExisting, ReturnEmptyLeaf

LEMMA SetLeafValueKeeps ==
  ASSUME TreeInv, SetLeafValue
  PROVE  TreeInv'
<1> DEFINE new == Place(cursor, call.offset)
<1>1. /\ call.op = "insert" /\ IsLeaf(cursor) /\ HasEntry(cursor, call.offset)
      /\ new \notin DOMAIN values
      /\ values' = [place \in DOMAIN values \cup {new} |->
                      IF place = new THEN call.descriptor ELSE values[place]]
      /\ answer'.op = "insert" /\ call' = None /\ allocated' = allocated
      /\ UNCHANGED <<volume_size, nodes>>
  BY DEF SetLeafValue, Return
<1>2. UNCHANGED <<Top, Root>>
  BY <1>1, TopStays
<1>3. call # None
  BY <1>1 DEF None
<1>4. /\ cursor \in nodes
      /\ new = [node |-> cursor, index |-> Index(cursor, call.offset)]
      /\ Index(cursor, call.offset) \in 0 .. NumberOfSubNodes - 1
  BY <1>1, <1>3, Descent DEF TreeInv, Place
<1> HIDE DEF new
<1>5. /\ DOMAIN values' = DOMAIN values \cup {new}
      /\ values'[new] = call.descriptor
      /\ \A place \in DOMAIN values : values'[place] = values[place]
  BY <1>1
<1>6. Kept'
  <2>1. values' = [place \in DOMAIN values' |-> values'[place]]
    BY <1>1
  <2>2. Root \in nodes /\ answer.op # "free"
    BY <1>3 DEF TreeInv, Kept
  <2> QED
    BY <1>1, <1>2, <2>1, <2>2 DEF TreeInv, Kept, Calling
<1>7. Descriptor = {call.descriptor} /\ Descriptor' = {}
  BY <1>1 DEF Descriptor, None
<1>8. Held' = Held \cup {call.descriptor}
  BY <1>5 DEF Held
<1>9. Owned'
  <2>1. \A p \in DOMAIN values : values[p] # call.descriptor
    BY <1>7 DEF TreeInv, Owned, Held
  <2>2. \A p, q \in DOMAIN values' : values'[p] = values'[q] => p = q
    BY <1>5, <2>1 DEF TreeInv, Owned
  <2> QED
    BY <1>1, <1>7, <1>8, <2>2 DEF TreeInv, Owned
<1>10. OnPath'
  BY <1>1 DEF OnPath
<1>11. InLeaves'
  BY <1>1, <1>4, <1>5 DEF TreeInv, InLeaves
<1>12. PathsKept' /\ Linked'
  BY <1>1, <1>2 DEF TreeInv, PathsKept, Linked, Above
<1> QED
  BY <1>6, <1>9, <1>10, <1>11, <1>12 DEF TreeInv

(* Freeing from the root down reaches every node, and so every descriptor. *)
LEMMA FreedAll ==
  ASSUME TreeInv, Free
  PROVE  nodes' = {} /\ DOMAIN values' = {} /\ values' = <<>> /\ allocated' = {}
<1>1. nodes \subseteq FreedNodes
  BY DEF TreeInv, Linked, Child, FreedNodes
<1>2. {place \in DOMAIN values : place.node \in FreedNodes} = DOMAIN values
  BY <1>1 DEF TreeInv, InLeaves
<1>3. allocated = Held
  BY DEF Free, TreeInv, Owned, Descriptor, None
<1>4. values' = [place \in {} |-> values[place]] /\ allocated' = allocated \ Held
  BY <1>2 DEF Free, Held
<1>5. nodes' = {}
  BY <1>1 DEF Free
<1>6. values' = <<>>
  BY <1>4
<1> QED
  BY <1>3, <1>4, <1>5, <1>6

LEMMA FreeKeeps ==
  ASSUME TreeInv, Free
  PROVE  TreeInv'
<1>1. nodes' = {} /\ DOMAIN values' = {} /\ values' = <<>> /\ allocated' = {}
  BY FreedAll
<1>2. call' = None /\ answer'.op = "free" /\ UNCHANGED volume_size
  BY DEF Free
<1>3. Kept'
  BY <1>1, <1>2 DEF TreeInv, Kept, Calling
<1>4. Descriptor' = {} /\ Held' = {}
  BY <1>1, <1>2 DEF Descriptor, None, Held
<1> QED
  BY <1>1, <1>2, <1>3, <1>4 DEF TreeInv, PathsKept, Linked, OnPath, InLeaves, Owned

LEMMA TreeNext == TreeInv /\ [Next]_vars => TreeInv'
<1> SUFFICES ASSUME TreeInv, [Next]_vars PROVE TreeInv'
  OBVIOUS
<1>1. CASE Calls
  BY <1>1, CallInsertKeeps, CallGetKeeps, FreeKeeps DEF Calls
<1>2. CASE Steps
  BY <1>2, DescendKeeps, CreateSubNodeKeeps, ReturnsKeep, SetLeafValueKeeps DEF Steps
<1>3. CASE UNCHANGED vars
  <2>1. UNCHANGED <<volume_size, nodes, values, cursor, call, answer, allocated>>
    BY <1>3 DEF vars
  <2>2. UNCHANGED <<Top, Root, Limit>>
    BY <2>1, TopStays
  <2> QED
    BY <2>1, <2>2
    DEF TreeInv, Kept, Calling, PathsKept, Linked, OnPath, InLeaves, Owned, Held, Descriptor,
        Inside, Above
<1> QED
  BY <1>1, <1>2, <1>3 DEF Next

LEMMA TreeInvariant == Spec => []TreeInv
<1> QED
  BY TreeInit, TreeNext, PTL DEF Spec

(* The tree holds every descriptor that it took in one place, the caller   *)
(* has freed those that it refused, and freeing the tree from the root down*)
(* misses no node and no descriptor, for every number of entries in a node,*)
(* every number of levels and every size of the volume                     *)
(* (libfsfat_block_tree_node_free).                                        *)
THEOREM DescriptorsOwned == Spec => []OneOwner
<1>1. TreeInv => OneOwner
  BY DEF TreeInv, Kept, Owned, Held, Descriptor, OneOwner, InLeaves, None
<1> QED
  BY <1>1, TreeInvariant, PTL

-----------------------------------------------------------------------------
(***************************************************************************)
(* Each block has one place.                                               *)
(***************************************************************************)

LeafNode(block) ==
  IF Top = 0 THEN Root
  ELSE Node((block \div NumberOfSubNodes) * StepSize[1], StepSize[1])

LeafIndex(block) ==
  IF Top = 0 THEN block ELSE block - (block \div NumberOfSubNodes) * NumberOfSubNodes

PlaceFor(block) == [node |-> LeafNode(block), index |-> LeafIndex(block)]

LEMMA LowestSteps ==
  /\ StepSize[0] = BlockSize /\ BlockSize \in Nat \ {0}
  /\ StepSize[1] = NumberOfSubNodes * BlockSize /\ StepSize[1] \in Nat \ {0}
  /\ NumberOfSubNodes \in Nat \ {0}
<1>1. StepSize[0 + 1] = NumberOfSubNodes * StepSize[0]
  BY StepSizes
<1> QED
  BY <1>1, StepSizes, TreeAssumption

(* A leaf starts at a block, its number a multiple of the number of entries*)
LEMMA LeafStart ==
  ASSUME Kept, PathsKept, NEW node \in nodes, IsLeaf(node)
  PROVE  IF Top = 0 THEN node = Root
         ELSE \E q \in Nat : node = Node((q * NumberOfSubNodes) * BlockSize, StepSize[1])
<1>1. volume_size \in VolumeSizes /\ Top \in 0 .. MaxLevels /\ MaxLevels \in Nat
  BY TopLevel, TreeAssumption DEF Kept
<1>2. CASE node = Root
  BY <1>1, <1>2, RootIsLeaf
<1>3. CASE node # Root
  <2>1. PICK level \in 1 .. Top : node.start \in Nat /\ node = Above(node.start, level)
    BY <1>3 DEF PathsKept
  <2>2. level \in 1 .. MaxLevels
    BY <1>1
  <2>3. level = 1
    BY <2>1, <2>2, AboveIsLeaf
  <2> DEFINE q == node.start \div StepSize[1]
  <2>4. q \in Nat
    BY <2>1, LowestSteps, DivBounds
  <2>5. node = Node(q * StepSize[1], StepSize[1])
    BY <2>1, <2>3 DEF Above
  <2> HIDE DEF q
  <2>6. q * StepSize[1] = (q * NumberOfSubNodes) * BlockSize
    BY <2>4, LowestSteps
  <2> QED
    BY <1>1, <2>4, <2>5, <2>6
<1> QED
  BY <1>2, <1>3

LEMMA LeafPlace ==
  ASSUME Kept, PathsKept, NEW node \in nodes, IsLeaf(node),
         NEW index \in 0 .. NumberOfSubNodes - 1
  PROVE  /\ BlockOf([node |-> node, index |-> index]) \in Nat
         /\ PlaceFor(BlockOf([node |-> node, index |-> index])) = [node |-> node, index |-> index]
<1> DEFINE block == node.start \div BlockSize + index
<1>1. BlockOf([node |-> node, index |-> index]) = block
  BY DEF BlockOf
<1>2. index \in Nat /\ index < NumberOfSubNodes
  BY LowestSteps
<1>3. CASE Top = 0
  <2>1. node = Root /\ node.start = 0
    BY <1>3, LeafStart DEF Root, Node
  <2>2. 0 \div BlockSize = 0
    BY LowestSteps
  <2>3. block = index
    BY <1>2, <2>1, <2>2
  <2> QED
    BY <1>1, <1>2, <1>3, <2>1, <2>3 DEF PlaceFor, LeafNode, LeafIndex
<1>4. CASE Top # 0
  <2>1. PICK q \in Nat : node = Node((q * NumberOfSubNodes) * BlockSize, StepSize[1])
    BY <1>4, LeafStart
  <2>2. node.start = (q * NumberOfSubNodes) * BlockSize /\ q * NumberOfSubNodes \in Nat
    BY <2>1, LowestSteps DEF Node
  <2>3. node.start \div BlockSize = q * NumberOfSubNodes
    <3> DEFINE p == q * NumberOfSubNodes
    <3> HIDE DEF p
    <3>1. p \in Nat => (p * BlockSize) \div BlockSize = p
      BY LowestSteps, DivUnique
    <3> QED
      BY <2>2, <3>1 DEF p
  <2>4. block = q * NumberOfSubNodes + index
    BY <2>3
  <2> HIDE DEF block
  <2>5. block \in Nat /\ q * NumberOfSubNodes <= block
        /\ block < q * NumberOfSubNodes + NumberOfSubNodes
    BY <1>2, <2>2, <2>4, LowestSteps
  <2>6. block \div NumberOfSubNodes = q
    BY <2>5, LowestSteps, DivUnique
  <2>7. LeafIndex(block) = index
    BY <1>2, <1>4, <2>2, <2>4, <2>6 DEF LeafIndex
  <2>8. q * StepSize[1] = (q * NumberOfSubNodes) * BlockSize
    BY LowestSteps
  <2>9. LeafNode(block) = node
    BY <1>4, <2>1, <2>6, <2>8 DEF LeafNode
  <2> QED
    BY <1>1, <2>5, <2>7, <2>9 DEF PlaceFor
<1> QED
  BY <1>3, <1>4

LEMMA FiledPlace ==
  ASSUME Kept, PathsKept, InLeaves, NEW place \in DOMAIN values
  PROVE  BlockOf(place) \in Nat /\ PlaceFor(BlockOf(place)) = place
<1>1. /\ place = [node |-> place.node, index |-> place.index]
      /\ place.node \in nodes /\ IsLeaf(place.node)
      /\ place.index \in 0 .. NumberOfSubNodes - 1
  BY DEF InLeaves
<1>2. /\ BlockOf([node |-> place.node, index |-> place.index]) \in Nat
      /\ PlaceFor(BlockOf([node |-> place.node, index |-> place.index]))
           = [node |-> place.node, index |-> place.index]
  BY <1>1, LeafPlace
<1> QED
  BY <1>1, <1>2

(* The place where a descent ends is that of the block of its offset.      *)
LEMMA ReachedPlace ==
  ASSUME Kept, PathsKept, OnPath, call # None, IsLeaf(cursor), HasEntry(cursor, call.offset)
  PROVE  /\ BlockOf(Place(cursor, call.offset)) = call.offset \div BlockSize
         /\ PlaceFor(call.offset \div BlockSize) = Place(cursor, call.offset)
<1> DEFINE offset == call.offset
           index == Index(cursor, offset)
<1>1. /\ cursor \in nodes /\ offset \in Nat
      /\ index \in 0 .. NumberOfSubNodes - 1
  BY Descent DEF Inside
<1>2. Place(cursor, offset) = [node |-> cursor, index |-> index]
  BY DEF Place
<1>3. index = (offset - cursor.start) \div BlockSize
  BY DEF Index, IsLeaf
<1> HIDE DEF offset
<1>4. cursor.start \div BlockSize + index = offset \div BlockSize
  <2>1. PICK p \in Nat : cursor.start = p * BlockSize
    <3>1. CASE Top = 0
      <4>1. cursor.start = 0 * BlockSize
        BY <1>1, <3>1, LeafStart, LowestSteps DEF Root, Node
      <4> QED
        BY <4>1
    <3>2. CASE Top # 0
      <4>1. PICK q \in Nat : cursor = Node((q * NumberOfSubNodes) * BlockSize, StepSize[1])
        BY <1>1, <3>2, LeafStart
      <4>2. cursor.start = (q * NumberOfSubNodes) * BlockSize /\ q * NumberOfSubNodes \in Nat
        BY <4>1, LowestSteps DEF Node
      <4> QED
        BY <4>2
    <3> QED
      BY <3>1, <3>2
  <2>2. (p * BlockSize) \div BlockSize = p
    BY LowestSteps, DivUnique
  <2>3. (offset - p * BlockSize) \div BlockSize = (offset \div BlockSize) - p
    <3>1. offset \in Int /\ p \in Int /\ BlockSize \in Nat \ {0}
      BY <1>1, LowestSteps
    <3> QED
      BY <3>1, DivMinus
  <2>4. offset \div BlockSize \in Int
    BY <1>1, LowestSteps, DivBounds
  <2> HIDE DEF index
  <2> QED
    BY <1>3, <2>1, <2>2, <2>3, <2>4
<1> HIDE DEF index
<1>5. BlockOf([node |-> cursor, index |-> index]) = offset \div BlockSize
  BY <1>4 DEF BlockOf
<1>6. PlaceFor(BlockOf([node |-> cursor, index |-> index])) = [node |-> cursor, index |-> index]
  BY <1>1, LeafPlace
<1> QED
  BY <1>2, <1>5, <1>6 DEF offset

(* A block whose path ends before the leaves is not filed.                 *)
LEMMA NoPathNoPlace ==
  ASSUME Kept, PathsKept, InLeaves, OnPath, call # None, ~ IsLeaf(cursor),
         HasEntry(cursor, call.offset), SubNode(cursor, call.offset) \notin nodes,
         NEW place \in DOMAIN values, BlockOf(place) = call.offset \div BlockSize
  PROVE  FALSE
<1> DEFINE offset == call.offset
           block == offset \div BlockSize
<1>1. offset \in Nat
  BY DescentDown
<1>2. PICK level \in 1 .. Top : SubNode(cursor, offset) = Above(offset, level)
  BY DescentDown
<1>3. Top \in 0 .. MaxLevels /\ MaxLevels \in Nat
  BY TopLevel, TreeAssumption DEF Kept
<1>4. Top # 0 /\ level \in Nat /\ 1 <= level
  BY <1>2, <1>3
<1>5. place.node \in nodes /\ IsLeaf(place.node) /\ PlaceFor(block) = place
  BY FiledPlace DEF InLeaves
<1> HIDE DEF offset
<1>6. place.node = LeafNode(block)
  BY <1>5 DEF PlaceFor
<1>7. block \div NumberOfSubNodes = offset \div StepSize[1]
  <2>1. offset \in Int /\ BlockSize \in Nat \ {0} /\ NumberOfSubNodes \in Nat \ {0}
    BY <1>1, LowestSteps
  <2>2. offset \div (NumberOfSubNodes * BlockSize) = (offset \div BlockSize) \div NumberOfSubNodes
    BY <2>1, DivDiv
  <2> QED
    BY <2>2, LowestSteps
<1>8. place.node = Above(offset, 1)
  BY <1>4, <1>6, <1>7 DEF LeafNode, Above
<1>9. place.node # Root
  BY <1>3, <1>4, <1>5, RootIsLeaf DEF Kept
<1>10. PICK leaf \in 1 .. Top :
         /\ place.node.start \in Nat
         /\ place.node = Above(place.node.start, leaf)
         /\ \A above \in leaf .. Top : Above(place.node.start, above) \in nodes
  BY <1>5, <1>9 DEF PathsKept
<1>11. leaf = 1
  <2>1. leaf \in 1 .. MaxLevels
    BY <1>3
  <2> QED
    BY <1>5, <1>10, <2>1, AboveIsLeaf
<1>12. place.node.start \div StepSize[1] = offset \div StepSize[1]
  BY <1>1, <1>8, AboveCovers
<1>13. Above(place.node.start, level) = Above(offset, level)
  BY <1>1, <1>4, <1>10, <1>12, AboveAgree
<1>14. Above(place.node.start, level) \in nodes
  BY <1>2, <1>3, <1>10, <1>11
<1> QED
  BY <1>2, <1>13, <1>14 DEF offset

-----------------------------------------------------------------------------
(***************************************************************************)
(* The tree is the dictionary.                                             *)
(***************************************************************************)

Blocks == {BlockOf(place) : place \in DOMAIN values}

LEMMA DictionaryOf ==
  ASSUME Kept, PathsKept, InLeaves
  PROVE  /\ DOMAIN AsDictionary = Blocks
         /\ AsDictionary = [block \in Blocks |-> values[PlaceFor(block)]]
         /\ \A block \in Blocks : PlaceFor(block) \in DOMAIN values
<1>1. ASSUME NEW block \in Blocks
      PROVE  /\ PlaceFor(block) \in DOMAIN values
             /\ (CHOOSE place \in DOMAIN values : BlockOf(place) = block) = PlaceFor(block)
  <2> DEFINE chosen == CHOOSE place \in DOMAIN values : BlockOf(place) = block
  <2>1. \E place \in DOMAIN values : BlockOf(place) = block
    BY DEF Blocks
  <2>2. chosen \in DOMAIN values /\ BlockOf(chosen) = block
    BY <2>1
  <2> HIDE DEF chosen
  <2>3. PlaceFor(block) = chosen
    BY <2>2, FiledPlace
  <2> QED
    BY <2>2, <2>3 DEF chosen
<1>2. AsDictionary = [block \in Blocks |-> values[CHOOSE place \in DOMAIN values : BlockOf(place) = block]]
  BY DEF AsDictionary, Blocks
<1> QED
  BY <1>1, <1>2

LEMMA DictionaryAlways ==
  TreeInv => AsDictionary = [block \in Blocks |-> values[PlaceFor(block)]]
  BY DictionaryOf DEF TreeInv

LEMMA DictionaryOfNext ==
  TreeInv' => (AsDictionary = [block \in Blocks |-> values[PlaceFor(block)]])'
  BY DictionaryAlways, PTL

LEMMA DictionaryStays ==
  ASSUME UNCHANGED <<volume_size, values>>
  PROVE  UNCHANGED <<Limit, AsDictionary, Blocks>>
  BY DEF Limit, Covered, AsDictionary, Blocks, BlockOf

LEMMA DictionaryStarts == Init => Dictionary!MapInit
<1> SUFFICES ASSUME Init PROVE Dictionary!MapInit
  OBVIOUS
<1>1. DOMAIN values = {} /\ answer = [op |-> "none"]
  BY DEF Init, None
<1>2. AsDictionary = [block \in {} |-> values[CHOOSE place \in DOMAIN values : BlockOf(place) = block]]
  BY <1>1 DEF AsDictionary
<1>3. AsDictionary = <<>>
  BY <1>2
<1>4. Limit \in Nat \ {0}
  <2>1. volume_size \in Nat \ {0} /\ volume_size \in VolumeSizes
    BY TreeAssumption DEF Init
  <2>2. Top \in Nat /\ SubNodeSize(volume_size) = StepSize[Top]
    BY <2>1, TopLevel, TreeAssumption
  <2>3. Covered = NumberOfSubNodes * StepSize[Top] /\ StepSize[Top] \in Nat \ {0}
    BY <2>2, StepType DEF Covered
  <2>4. Covered \in Nat \ {0}
    BY <2>3, TreeAssumption
  <2> QED
    BY <2>1, <2>4 DEF Limit
<1> QED
  BY <1>1, <1>3, <1>4 DEF Dictionary!MapInit

LEMMA InsertsAsOne ==
  ASSUME TreeInv, SetLeafValue
  PROVE  Dictionary!MapNext
<1> DEFINE offset == call.offset
           block == offset \div BlockSize
           place == Place(cursor, offset)
<1>1. /\ call.op = "insert" /\ IsLeaf(cursor) /\ HasEntry(cursor, offset)
      /\ place \notin DOMAIN values
      /\ values' = [p \in DOMAIN values \cup {place} |->
                      IF p = place THEN call.descriptor ELSE values[p]]
      /\ answer' = [op |-> "insert", offset |-> offset, result |-> 1]
      /\ UNCHANGED volume_size
  BY DEF SetLeafValue, Return
<1>2. call # None /\ offset \in Offsets /\ call.descriptor \in Descriptors
  BY <1>1 DEF TreeInv, Kept, Calling, None
<1>3. Inside(offset) /\ offset \in Int
  BY <1>1, <1>2, Descent DEF TreeInv
<1>4. BlockOf(place) = block /\ PlaceFor(block) = place
  BY <1>1, <1>2, ReachedPlace DEF TreeInv
<1>5. TreeInv'
  BY SetLeafValueKeeps
<1>6. /\ AsDictionary = [b \in Blocks |-> values[PlaceFor(b)]]
      /\ \A b \in Blocks : PlaceFor(b) \in DOMAIN values
  BY DictionaryOf DEF TreeInv
<1>7. (AsDictionary = [b \in Blocks |-> values[PlaceFor(b)]])'
  BY <1>5, DictionaryOfNext
<1>8. \A b : PlaceFor(b)' = PlaceFor(b)
  BY <1>1, TopStays DEF PlaceFor, LeafNode, LeafIndex
<1>9. block \notin Blocks
  BY <1>1, <1>4, <1>6
<1> HIDE DEF block, place
<1>10. Blocks' = Blocks \cup {block}
  <2>1. DOMAIN values' = DOMAIN values \cup {place}
    BY <1>1
  <2> QED
    BY <1>4, <2>1 DEF Blocks, BlockOf
<1>11. AsDictionary' = [b \in Blocks \cup {block} |->
                          IF b = block THEN call.descriptor ELSE AsDictionary[b]]
  <2>1. ASSUME NEW b \in Blocks \cup {block}
        PROVE  values'[PlaceFor(b)] = IF b = block THEN call.descriptor ELSE AsDictionary[b]
    <3>1. CASE b = block
      BY <1>1, <1>4, <3>1
    <3>2. CASE b # block
      <4>1. b \in Blocks /\ PlaceFor(b) \in DOMAIN values
        BY <1>6, <2>1, <3>2
      <4>2. AsDictionary[b] = values[PlaceFor(b)]
        BY <1>6, <4>1
      <4>3. PlaceFor(b) # place
        BY <1>1, <4>1
      <4> QED
        BY <1>1, <3>2, <4>1, <4>2, <4>3
    <3> QED
      BY <3>1, <3>2
  <2> QED
    BY <1>7, <1>8, <1>10, <2>1
<1>12. DOMAIN AsDictionary = Blocks
  BY <1>6
<1>13. Limit' = Limit
  BY <1>1, TopStays
<1>14. Dictionary!Block(offset) = block /\ Dictionary!Inside(offset)
  BY <1>3 DEF Dictionary!Block, Dictionary!Inside, Inside, block
<1>15. Dictionary!MapInsert(offset, call.descriptor)
  BY <1>1, <1>9, <1>11, <1>12, <1>13, <1>14 DEF Dictionary!MapInsert
<1> QED
  BY <1>2, <1>15 DEF Dictionary!MapNext

LEMMA ReturnsAsOne ==
  ASSUME TreeInv,
         ReturnNoSubNode \/ ReturnOutOfBounds \/ ReturnExisting \/ ReturnEmptyLeaf
  PROVE  Dictionary!MapNext
<1> DEFINE offset == call.offset
           block == offset \div BlockSize
<1>1. call # None /\ UNCHANGED <<volume_size, values>>
  BY DEF ReturnNoSubNode, ReturnOutOfBounds, ReturnExisting, ReturnEmptyLeaf, Return, None
<1>2. /\ offset \in Offsets
      /\ \/ call.op = "insert" /\ call.descriptor \in Descriptors
         \/ call.op = "get"
  BY <1>1 DEF TreeInv, Kept, Calling
<1>3. UNCHANGED <<Limit, AsDictionary>>
  BY <1>1, DictionaryStays
<1>4. /\ DOMAIN AsDictionary = Blocks
      /\ AsDictionary = [b \in Blocks |-> values[PlaceFor(b)]]
      /\ \A b \in Blocks : PlaceFor(b) \in DOMAIN values
  BY DictionaryOf DEF TreeInv
<1>5. /\ offset \in Int
      /\ HasEntry(cursor, offset) <=> Inside(offset)
  BY <1>1, Descent DEF TreeInv
<1>6. /\ Dictionary!Block(offset) = block
      /\ Dictionary!Inside(offset) <=> Inside(offset)
  BY DEF Dictionary!Block, Dictionary!Inside, Inside
<1>7. IsLeaf(cursor) /\ HasEntry(cursor, offset)
        => BlockOf(Place(cursor, offset)) = block /\ PlaceFor(block) = Place(cursor, offset)
  BY <1>1, ReachedPlace DEF TreeInv
<1>8. CASE ReturnNoSubNode
  <2>1. /\ call.op = "get" /\ ~ IsLeaf(cursor) /\ HasEntry(cursor, offset)
        /\ SubNode(cursor, offset) \notin nodes
        /\ answer' = [op |-> "get", offset |-> offset, result |-> 0]
    BY <1>8 DEF ReturnNoSubNode, Return
  <2>2. block \notin Blocks
    BY <1>1, <2>1, NoPathNoPlace DEF TreeInv, Blocks
  <2>3. Dictionary!MapGet(offset)
    BY <1>3, <1>4, <1>5, <1>6, <2>1, <2>2 DEF Dictionary!MapGet
  <2> QED
    BY <1>2, <2>3 DEF Dictionary!MapNext
<1>9. CASE ReturnOutOfBounds
  <2>1. /\ ~ HasEntry(cursor, offset)
        /\ answer' = [op |-> call.op, offset |-> offset, result |-> -1]
    BY <1>9 DEF ReturnOutOfBounds, Return
  <2>2. call.op = "get" => Dictionary!MapGet(offset)
    BY <1>3, <1>5, <1>6, <2>1 DEF Dictionary!MapGet
  <2>3. call.op = "insert" => Dictionary!MapInsert(offset, call.descriptor)
    BY <1>3, <1>5, <1>6, <2>1 DEF Dictionary!MapInsert
  <2> QED
    BY <1>2, <2>2, <2>3 DEF Dictionary!MapNext
<1>10. CASE ReturnExisting
  <2>1. /\ IsLeaf(cursor) /\ HasEntry(cursor, offset)
        /\ Place(cursor, offset) \in DOMAIN values
        /\ answer' = [op |-> call.op, offset |-> offset,
                      result |-> IF call.op = "insert" THEN 0 ELSE 1,
                      found |-> values[Place(cursor, offset)]]
    BY <1>10 DEF ReturnExisting, Return
  <2>2. block \in Blocks
    BY <1>7, <2>1 DEF Blocks
  <2>3. AsDictionary[block] = values[Place(cursor, offset)]
    BY <1>4, <1>7, <2>1, <2>2
  <2> HIDE DEF block
  <2>4. call.op = "get" => Dictionary!MapGet(offset)
    BY <1>3, <1>4, <1>5, <1>6, <2>1, <2>2, <2>3 DEF Dictionary!MapGet
  <2>5. call.op = "insert" => Dictionary!MapInsert(offset, call.descriptor)
    BY <1>3, <1>4, <1>5, <1>6, <2>1, <2>2, <2>3 DEF Dictionary!MapInsert
  <2> QED
    BY <1>2, <2>4, <2>5 DEF Dictionary!MapNext
<1>11. CASE ReturnEmptyLeaf
  <2>1. /\ call.op = "get" /\ IsLeaf(cursor) /\ HasEntry(cursor, offset)
        /\ Place(cursor, offset) \notin DOMAIN values
        /\ answer' = [op |-> "get", offset |-> offset, result |-> 0]
    BY <1>11 DEF ReturnEmptyLeaf, Return
  <2>2. block \notin Blocks
    BY <1>4, <1>7, <2>1
  <2>3. Dictionary!MapGet(offset)
    BY <1>3, <1>4, <1>5, <1>6, <2>1, <2>2 DEF Dictionary!MapGet
  <2> QED
    BY <1>2, <2>3 DEF Dictionary!MapNext
<1> QED
  BY <1>8, <1>9, <1>10, <1>11

LEMMA FreesAsOne ==
  ASSUME TreeInv, Free
  PROVE  Dictionary!MapNext
<1>1. DOMAIN values' = {}
  BY FreedAll
<1>2. AsDictionary' = [block \in {} |-> values'[CHOOSE place \in {} : BlockOf(place)' = block]]
  BY <1>1 DEF AsDictionary
<1>3. AsDictionary' = <<>>
  BY <1>2
<1>4. Limit' = Limit /\ answer' = [op |-> "free"]
  BY TopStays DEF Free
<1> QED
  BY <1>3, <1>4 DEF Dictionary!MapNext, Dictionary!MapFree

LEMMA DictionarySteps == TreeInv /\ [Next]_vars => [Dictionary!MapNext]_(Dictionary!mapVars)
<1> SUFFICES ASSUME TreeInv, [Next]_vars
             PROVE  Dictionary!MapNext \/ UNCHANGED Dictionary!mapVars
  OBVIOUS
<1>1. ASSUME UNCHANGED <<volume_size, values, answer>>
      PROVE  UNCHANGED Dictionary!mapVars
  BY <1>1, DictionaryStays DEF Dictionary!mapVars
<1>2. ASSUME NEW offset, NEW descriptor, CallInsert(offset, descriptor) \/ CallGet(offset)
      PROVE  UNCHANGED Dictionary!mapVars
  BY <1>1, <1>2 DEF CallInsert, CallGet
<1>3. CASE Descend \/ CreateSubNode
  BY <1>1, <1>3 DEF Descend, CreateSubNode
<1>4. CASE UNCHANGED vars
  BY <1>1, <1>4 DEF vars
<1> QED
  BY <1>2, <1>3, <1>4, InsertsAsOne, ReturnsAsOne, FreesAsOne DEF Next, Calls, Steps

(* The tree is a dictionary from blocks to descriptors: a descent through  *)
(* levels of nodes that are created on the way files a block in one place  *)
(* and finds it there again, for every number of entries in a node, every  *)
(* number of levels, every size of the volume and every history of calls   *)
(* (libfsfat_block_tree_insert_block_descriptor_by_offset).                *)
THEOREM DictionaryImplemented == Spec => ImplementsBlockMap
<1> QED
  BY DictionaryStarts, DictionarySteps, TreeInvariant, PTL
  DEF Spec, ImplementsBlockMap, Dictionary!MapSpec
=============================================================================
