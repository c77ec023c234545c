------------------------------ MODULE MCReplica ------------------------------
(***************************************************************************)
(* Instance of Replica.  The tree has five leaves, two of them in the      *)
(* bottom layer and three in the layer above.                              *)
(*                                                                         *)
(* The graph has three roots, a merge of parents of unequal depth (4), a   *)
(* merge of two roots (5), merges of merges, and a child (7) whose id is   *)
(* smaller than its parent's (10), with a header concurrent to both (8)    *)
(* between them: ids are hashes and know nothing of causality.             *)
(***************************************************************************)
EXTENDS Replica

MCLeafCount == 5
MCChunk == 0..5
MCContent == [k \in 0..4 |-> k]

\* Hashes are terms: a block hashes to a 1-tuple, two hashes to the pair.
MCChunkHash(b) == <<b>>
MCPair(a, b) == <<a, b>>
MCHonest ==
  LET tree[i \in 0..8] ==
        IF i >= 4 THEN MCChunkHash(<<2, 3, 4, 0, 1>>[i - 3]) ELSE MCPair(tree[2 * i + 1], tree[2 * i + 2])
  IN  tree
MCHash == {MCHonest[i] : i \in 0..8} \cup {MCChunkHash(5)}

MCHeaderId == 1..10
MCParentIds ==
  [h \in MCHeaderId |->
     CASE h = 3 -> {2}
       [] h = 4 -> {1, 3}
       [] h = 5 -> {1, 2}
       [] h = 6 -> {4, 5}
       [] h = 7 -> {10}
       [] h = 8 -> {1, 6, 9}
       [] h = 9 -> {3}
       [] OTHER -> {}]

Insert(key) == [type |-> "Insert", key |-> key]
Update(key) == [type |-> "Apply", key |-> key]
Delete(key) == [type |-> "Delete", key |-> key]

MCInitialKey == {<<-1, 0>>}
MCOperations ==
  LET first == <<-1, 0>>
      one == <<1, 0>>
      two == <<2, 0>>
  IN  [h \in MCHeaderId |->
         CASE h = 1 -> <<Insert(one), Update(one)>>
           [] h = 2 -> <<Insert(two)>>
           [] h = 3 -> <<Update(two)>>
           [] h = 4 -> <<Delete(one)>>
           [] h = 5 -> <<Update(one), Update(two)>>
           [] h = 6 -> <<Update(one)>>
           [] h = 9 -> <<Update(two), Delete(two)>>
           [] OTHER -> <<Update(first)>>]

=============================================================================
