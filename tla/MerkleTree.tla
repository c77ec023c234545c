------------------------------ MODULE MerkleTree ------------------------------
(***************************************************************************)
(* A Merkle tree whose hashes arrive one by one, in any order and not all  *)
(* of them right: MerkleTree<Potential<N>> of util/merkle_tree.rs.         *)
(*                                                                         *)
(* The tree is an array in breadth-first order, the root at index 0.  Only *)
(* the root is known at first; the others are missing, then unverified,    *)
(* and become verified in pairs when their parent is verified and the two  *)
(* hash to it.  A pair that does not is forgotten.                         *)
(*                                                                         *)
(* validate_children calls itself for both children; here each call is a   *)
(* step of its own and `pending` is the call stack, so `set` is over, and  *)
(* the next may begin, when it is empty.                                   *)
(***************************************************************************)
EXTENDS Integers, Sequences

CONSTANTS
  LeafCount,     \* number of leaves: the blocks of the initial state
  Chunk,         \* contents a block may have
  Content,       \* Content[k]: the k-th block of the store's creator
  Hash,          \* hashes
  ChunkHash(_),  \* the hash of a block
  Pair(_, _),    \* the hash of two hashes
  Honest         \* the creator's tree

NodeCountForLeafCount(leaf_count) == 2 * leaf_count - 1

Leaf == 0..(LeafCount - 1)
Index == 0..(NodeCountForLeafCount(LeafCount) - 1)

IsLeaf(i) == i >= LeafCount - 1
Left(i) == 2 * i + 1
Right(i) == 2 * i + 2
Parent(i) == (i - 1) \div 2

(***************************************************************************)
(* The first index of the bottom layer.  from_leaves fills the layers from *)
(* the bottom up, so the first leaves are in the bottom layer and the rest *)
(* at the end of the layer above it.                                       *)
(***************************************************************************)
NextPowerOfTwo(n) == CHOOSE p \in {2^k : k \in 0..n} : n <= p /\ p < 2 * n
BottomStart == NextPowerOfTwo(LeafCount) - 1

LeafAt(i) ==
  IF i >= BottomStart THEN i - BottomStart
  ELSE i - (LeafCount - 1) + (NodeCountForLeafCount(LeafCount) - BottomStart)

FromLeaves(tree) ==
  \A i \in Index : tree[i] = IF IsLeaf(i) THEN ChunkHash(Content[LeafAt(i)])
                             ELSE Pair(tree[Left(i)], tree[Right(i)])

\* Mistaken index: leaves are taken to be in the order of the array.
IndexForLeafInOrder(leaf_index) == LeafCount - 1 + leaf_index

\* index_for_leaf: where the hash of a block is.
IndexForLeaf(leaf_index) ==
  LET index == BottomStart + leaf_index
  IN  IF index >= NodeCountForLeafCount(LeafCount) THEN index - LeafCount ELSE index

ASSUME LeafCountAssumption == LeafCount \in Nat \ {0}

\* u64::next_power_of_two (standard library): there is one, at once.
ASSUME NextPowerOfTwoAssumption == NextPowerOfTwo(LeafCount) \in LeafCount..(2 * LeafCount - 1)
ASSUME ContentAssumption == Content \in [Leaf -> Chunk]

\* from_leaves made the creator's tree.
ASSUME HonestAssumption == Honest \in [Index -> Hash] /\ FromLeaves(Honest)

\* The hash function is taken to have no collisions.
ASSUME HashesDoNotCollide ==
  /\ \A a, b, c, d \in Hash : Pair(a, b) = Pair(c, d) => a = c /\ b = d
  /\ \A b, c \in Chunk : ChunkHash(b) = ChunkHash(c) => b = c

VARIABLES
  nodes,     \* nodes[i]: what is known of the node at index i
  pending    \* calls of validate_children not made yet, the next one first

treeVars == <<nodes, pending>>

None == [state |-> "None"]
Unverified(hash) == [state |-> "Unverified", hash |-> hash]
Verified(hash) == [state |-> "Verified", hash |-> hash]
Potential == {None} \cup [state : {"Unverified", "Verified"}, hash : Hash]

IsNone(i) == nodes[i].state = "None"
IsUnverified(i) == nodes[i].state = "Unverified"
IsVerified(i) == nodes[i].state = "Verified"

MissingIndices == {i \in Index : IsNone(i)}
TryComplete == \A i \in Index : IsVerified(i)

\* new_with_capacity: the root is the one of the metadata.
TreeInit ==
  /\ nodes = [i \in Index |-> IF i = 0 THEN Verified(Honest[0]) ELSE None]
  /\ pending = <<>>

\* set: a hash for a missing node is kept and its parent looked at.  A hash
\* for any other node, or for none, changes nothing.
Set(i, hash) ==
  /\ pending = <<>>
  /\ IsNone(i)
  /\ nodes' = [nodes EXCEPT ![i] = Unverified(hash)]
  /\ pending' = <<Parent(i)>>

(***************************************************************************)
(* validate_children(p), where p is next.                                  *)
(***************************************************************************)
Comparable(p) == ~IsLeaf(p) /\ IsVerified(p) /\ ~IsNone(Left(p)) /\ ~IsNone(Right(p))

\* There is nothing to compare, or to compare with, yet.
Postpone(p) ==
  /\ ~Comparable(p)
  /\ pending' = Tail(pending)
  /\ UNCHANGED nodes

\* (The code takes any other state of the two for unreachable.)
BothUnverified(p) == Comparable(p) /\ IsUnverified(Left(p)) /\ IsUnverified(Right(p))

PairOf(p) == Pair(nodes[Left(p)].hash, nodes[Right(p)].hash)

\* Mistaken steps: the children of a right pair are not looked at; a wrong pair
\* is kept.
AcceptAlone(p) ==
  /\ BothUnverified(p)
  /\ nodes[p].hash = PairOf(p)
  /\ nodes' = [nodes EXCEPT ![Left(p)] = Verified(@.hash), ![Right(p)] = Verified(@.hash)]
  /\ pending' = Tail(pending)
RejectAndKeep(p) ==
  /\ BothUnverified(p)
  /\ nodes[p].hash # PairOf(p)
  /\ pending' = Tail(pending)
  /\ UNCHANGED nodes

\* The pair is right: both are verified and their children looked at.
Accept(p) ==
  /\ BothUnverified(p)
  /\ nodes[p].hash = PairOf(p)
  /\ nodes' = [nodes EXCEPT ![Left(p)] = Verified(@.hash), ![Right(p)] = Verified(@.hash)]
  /\ pending' = <<Left(p), Right(p)>> \o Tail(pending)

\* One of the pair, or both, is wrong: both are missing again.
Reject(p) ==
  /\ BothUnverified(p)
  /\ nodes[p].hash # PairOf(p)
  /\ nodes' = [nodes EXCEPT ![Left(p)] = None, ![Right(p)] = None]
  /\ pending' = Tail(pending)

ValidateChildren ==
  /\ pending # <<>>
  /\ LET p == Head(pending) IN Postpone(p) \/ Accept(p) \/ Reject(p)

TreeNext ==
  \/ \E i \in Index, hash \in Hash : Set(i, hash)
  \/ ValidateChildren

TreeSpec == TreeInit /\ [][TreeNext]_treeVars
-----------------------------------------------------------------------------
(***************************************************************************)
(* Correctness.                                                            *)
(***************************************************************************)
TreeTypeOK ==
  /\ nodes \in [Index -> Potential]
  /\ pending \in Seq(Index)

\* Whatever wrong hashes come, from whichever peer and in whatever order, a
\* verified node is the creator's (`validate_chunk` trusts it with the blocks).
VerifiedIsHonest == \A i \in Index : IsVerified(i) => nodes[i].hash = Honest[i]

(***************************************************************************)
(* Wrong hashes cannot wedge the tree.  Between two calls of `set`, when   *)
(* no node is missing, all are verified: a store that has nothing left to  *)
(* ask for has its tree (in DownloadingMerkle some node is missing, says   *)
(* store/mod.rs).  And validate_children never meets a verified child,     *)
(* which the code takes to be unreachable.                                 *)
(***************************************************************************)
TreeIsNeverStuck ==
  /\ pending = <<>> /\ MissingIndices = {} => TryComplete
  /\ pending # <<>> /\ Comparable(Head(pending)) => BothUnverified(Head(pending))
=============================================================================
