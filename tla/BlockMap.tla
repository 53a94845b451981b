------------------------------ MODULE BlockMap ------------------------------
(***************************************************************************)
(* What a block tree promises its users: a dictionary from the blocks of a *)
(* volume to block descriptors.  A block is filed under its number, the    *)
(* offset divided by the block size, and is filed at most once: that is    *)
(* how libfsfat notices that a cluster chain comes back to a cluster.      *)
(*                                                                         *)
(* This is the abstract specification that module BlockTree implements.    *)
(***************************************************************************)
EXTENDS Integers

CONSTANTS
  BlockSize,    (* size of a block, the leaf value size of the tree        *)
  Descriptors,  (* block descriptors                                       *)
  Offsets       (* offsets the callers ask for                             *)

VARIABLES
  limit,   (* the offsets below it can be filed                            *)
  blocks,  (* the dictionary: a function on a set of block numbers         *)
  answer   (* what the last call returned, and the descriptor it found     *)

mapVars == <<limit, blocks, answer>>

Block(offset) == offset \div BlockSize

Inside(offset) == offset >= 0 /\ offset < limit

MapInit ==
  /\ limit \in Nat \ {0}
  /\ blocks = <<>>
  /\ answer = [op |-> "none"]

(* Files a descriptor unless the block already has one.                    *)
MapInsert(offset, descriptor) ==
  /\ UNCHANGED limit
  /\ \/ /\ Inside(offset)
        /\ Block(offset) \notin DOMAIN blocks
        /\ blocks' = [b \in DOMAIN blocks \cup {Block(offset)} |->
                        IF b = Block(offset) THEN descriptor ELSE blocks[b]]
        /\ answer' = [op |-> "insert", offset |-> offset, result |-> 1]
     \/ /\ Inside(offset)
        /\ Block(offset) \in DOMAIN blocks
        /\ answer' = [op |-> "insert", offset |-> offset, result |-> 0,
                      found |-> blocks[Block(offset)]]
        /\ UNCHANGED blocks
     \/ /\ ~ Inside(offset)
        /\ answer' = [op |-> "insert", offset |-> offset, result |-> -1]
        /\ UNCHANGED blocks

MapGet(offset) ==
  /\ UNCHANGED <<limit, blocks>>
  /\ \/ /\ Inside(offset)
        /\ Block(offset) \in DOMAIN blocks
        /\ answer' = [op |-> "get", offset |-> offset, result |-> 1,
                      found |-> blocks[Block(offset)]]
     \/ /\ Inside(offset)
        /\ Block(offset) \notin DOMAIN blocks
        /\ answer' = [op |-> "get", offset |-> offset, result |-> 0]
     \/ /\ ~ Inside(offset)
        /\ answer' = [op |-> "get", offset |-> offset, result |-> -1]

MapFree ==
  /\ blocks' = <<>>
  /\ answer' = [op |-> "free"]
  /\ UNCHANGED limit

MapNext ==
  \/ \E offset \in Offsets, descriptor \in Descriptors :
        MapInsert(offset, descriptor)
  \/ \E offset \in Offsets : MapGet(offset)
  \/ MapFree

MapSpec == MapInit /\ [][MapNext]_mapVars
=============================================================================
