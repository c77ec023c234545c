---------------------------- MODULE ReplicaProofs ----------------------------
(***************************************************************************)
(* Theorems about what one device's store holds (Replica), for every       *)
(* number of blocks, every graph of headers and every order of arrival.    *)
(* First its tree, whose hashes arrive one by one (MerkleTree), for every  *)
(* number of leaves and every hash function without collisions; then the   *)
(* replica.                                                                *)
(***************************************************************************)
EXTENDS Replica, CrdtProofs, TLAPS, WellFoundedInduction

(***************************************************************************)
(* The inductive invariant.  Verified nodes form a tree from the root down *)
(* in which siblings are together; what waits to be validated has no       *)
(* verified child, waits once, and is verified but for the first; and a    *)
(* verified node with two known children has them verified or waits.       *)
(***************************************************************************)
RootIsVerified == IsVerified(0)

ParentsAreVerified == \A i \in Index \ {0} : IsVerified(i) => IsVerified(Parent(i))

SiblingsAgree ==
  \A p \in Index : ~IsLeaf(p) => (IsVerified(Left(p)) <=> IsVerified(Right(p)))

PendingOK ==
  /\ \A j \in DOMAIN pending : ~IsLeaf(pending[j]) => ~IsVerified(Left(pending[j]))
  /\ \A j, k \in DOMAIN pending : pending[j] = pending[k] => j = k
  /\ \A j \in DOMAIN pending : j # 1 => IsVerified(pending[j])

NothingIsForgotten ==
  \A p \in Index : Comparable(p) /\ ~IsVerified(Left(p)) =>
    \E j \in DOMAIN pending : pending[j] = p

TreeInv ==
  /\ TreeTypeOK
  /\ VerifiedIsHonest
  /\ RootIsVerified
  /\ ParentsAreVerified
  /\ SiblingsAgree
  /\ PendingOK
  /\ NothingIsForgotten

(***************************************************************************)
(* The array is a binary tree.                                             *)
(***************************************************************************)
LEMMA IndexFacts ==
  /\ \A p \in Index : ~IsLeaf(p) =>
       /\ Left(p) \in Index \ {0} /\ Right(p) \in Index \ {0} /\ Left(p) # Right(p)
       /\ Parent(Left(p)) = p /\ Parent(Right(p)) = p
       /\ p # Left(p) /\ p # Right(p)
  /\ \A i \in Index \ {0} :
       /\ Parent(i) \in Index /\ Parent(i) < i /\ ~IsLeaf(Parent(i))
       /\ i = Left(Parent(i)) \/ i = Right(Parent(i))
  /\ 0 \in Index
  BY LeafCountAssumption DEF Index, NodeCountForLeafCount, IsLeaf, Left, Right, Parent

LEMMA PotentialFacts ==
  /\ None \in Potential /\ None.state = "None"
  /\ \A h \in Hash : /\ Unverified(h) \in Potential /\ Unverified(h).state = "Unverified"
                     /\ Verified(h) \in Potential /\ Verified(h).state = "Verified"
                     /\ Unverified(h).hash = h /\ Verified(h).hash = h
  /\ \A x \in Potential : /\ x.state \in {"None", "Unverified", "Verified"}
                          /\ x.state # "None" => x.hash \in Hash
  BY DEF None, Unverified, Verified, Potential

LEMMA InitTreeInv == TreeInit => TreeInv
<1> SUFFICES ASSUME TreeInit PROVE TreeInv
  OBVIOUS
<1>1. Honest[0] \in Hash
  BY HonestAssumption, IndexFacts
<1>2. TreeTypeOK /\ RootIsVerified /\ VerifiedIsHonest
  BY <1>1, PotentialFacts, IndexFacts
  DEF TreeInit, TreeTypeOK, RootIsVerified, VerifiedIsHonest, IsVerified
<1>3. \A i \in Index \ {0} : IsNone(i) /\ ~IsVerified(i)
  BY PotentialFacts DEF TreeInit, IsNone, IsVerified
<1>4. ParentsAreVerified /\ SiblingsAgree /\ NothingIsForgotten
  BY <1>3, IndexFacts DEF ParentsAreVerified, SiblingsAgree, NothingIsForgotten, Comparable
<1>5. PendingOK
  BY DEF TreeInit, PendingOK
<1> QED
  BY <1>2, <1>4, <1>5 DEF TreeInv

\* set(i, hash): only node i changes, and its parent waits.
LEMMA SetStep ==
  ASSUME TreeInv, NEW i \in Index, NEW hash \in Hash, Set(i, hash)
  PROVE  TreeInv'
<1>1. i # 0
  BY DEF TreeInv, RootIsVerified, Set, IsNone, IsVerified
<1>2. /\ \A j \in Index : j # i => nodes'[j] = nodes[j]
      /\ nodes'[i] = Unverified(hash)
  BY DEF TreeInv, TreeTypeOK, Set
<1>3. \A j \in Index : /\ IsVerified(j)' <=> IsVerified(j)
                       /\ j # i => (IsNone(j)' <=> IsNone(j))
  BY <1>2, PotentialFacts DEF IsVerified, IsNone, Set
<1>4. pending' = <<Parent(i)>> /\ Parent(i) \in Index /\ ~IsLeaf(Parent(i))
  BY <1>1, IndexFacts DEF Set
<1>5. TreeTypeOK'
  <2>1. nodes' \in [Index -> Potential]
    BY PotentialFacts DEF TreeInv, TreeTypeOK, Set
  <2> QED
    BY <2>1, <1>4 DEF TreeTypeOK
<1>6. VerifiedIsHonest'
  BY <1>2, <1>3, PotentialFacts DEF TreeInv, VerifiedIsHonest, IsVerified
<1>7. RootIsVerified' /\ ParentsAreVerified' /\ SiblingsAgree'
  BY <1>3, IndexFacts DEF TreeInv, RootIsVerified, ParentsAreVerified, SiblingsAgree
<1>8. PendingOK'
  <2>1. ~IsVerified(i)
    BY PotentialFacts DEF Set, IsNone, IsVerified
  <2>2. ~IsVerified(Left(Parent(i)))
    BY <1>1, <2>1, IndexFacts DEF TreeInv, SiblingsAgree
  <2> QED
    BY <2>2, <1>3, <1>4, IndexFacts DEF PendingOK
<1>9. NothingIsForgotten'
  <2> SUFFICES ASSUME NEW p \in Index, Comparable(p)', ~IsVerified(Left(p))'
               PROVE  p = Parent(i)
    BY <1>4 DEF NothingIsForgotten
  <2>1. ~IsLeaf(p) /\ IsVerified(p) /\ ~IsVerified(Left(p))
    BY <1>3, IndexFacts DEF Comparable
  <2>2. CASE Left(p) = i \/ Right(p) = i
    BY <2>1, <2>2, IndexFacts
  <2>3. CASE Left(p) # i /\ Right(p) # i
    <3>1. Comparable(p)
      BY <2>1, <2>3, <1>3, IndexFacts DEF Comparable
    <3>2. pending = <<>>
      BY DEF Set
    <3> QED
      BY <2>1, <3>1, <3>2 DEF TreeInv, NothingIsForgotten
  <2> QED
    BY <2>2, <2>3
<1> QED
  BY <1>5, <1>6, <1>7, <1>8, <1>9 DEF TreeInv

\* What is left of the stack when a call returns.
LEMMA TailFacts ==
  ASSUME TreeInv, pending # <<>>
  PROVE  /\ Head(pending) \in Index /\ Head(pending) = pending[1] /\ 1 \in DOMAIN pending
         /\ Tail(pending) \in Seq(Index)
         /\ \A j \in DOMAIN Tail(pending) :
              /\ j + 1 \in DOMAIN pending /\ Tail(pending)[j] = pending[j + 1]
              /\ IsVerified(Tail(pending)[j])
              /\ Tail(pending)[j] # Head(pending)
         /\ \A j \in DOMAIN pending : j # 1 =>
              j - 1 \in DOMAIN Tail(pending) /\ Tail(pending)[j - 1] = pending[j]
<1>1. pending \in Seq(Index)
  BY DEF TreeInv, TreeTypeOK
<1>2. /\ Head(pending) \in Index /\ Head(pending) = pending[1] /\ 1 \in DOMAIN pending
      /\ Tail(pending) \in Seq(Index)
  BY <1>1
<1>3. /\ \A j \in DOMAIN Tail(pending) :
           j # 0 /\ j \in Nat /\ j + 1 \in DOMAIN pending /\ Tail(pending)[j] = pending[j + 1]
      /\ \A j \in DOMAIN pending : j # 1 =>
           j - 1 \in DOMAIN Tail(pending) /\ Tail(pending)[j - 1] = pending[j]
  BY <1>1
<1>4. \A j \in DOMAIN Tail(pending) :
        IsVerified(Tail(pending)[j]) /\ Tail(pending)[j] # Head(pending)
  BY <1>2, <1>3 DEF TreeInv, PendingOK
<1> QED
  BY <1>2, <1>3, <1>4

\* A call that returns at once: its node had nothing to compare.
LEMMA PostponeStep ==
  ASSUME TreeInv, pending # <<>>, Postpone(Head(pending))
  PROVE  TreeInv'
<1> DEFINE p == Head(pending)
<1>1. nodes' = nodes /\ pending' = Tail(pending)
  BY DEF Postpone
<1>2. \A i : /\ IsVerified(i)' <=> IsVerified(i)
             /\ Comparable(i)' <=> Comparable(i)
  BY <1>1 DEF IsVerified, Comparable, IsNone
<1>3. /\ TreeTypeOK' /\ VerifiedIsHonest' /\ RootIsVerified'
      /\ ParentsAreVerified' /\ SiblingsAgree'
  BY <1>1, <1>2, TailFacts
  DEF TreeInv, TreeTypeOK, VerifiedIsHonest, RootIsVerified, ParentsAreVerified, SiblingsAgree
<1>4. PendingOK'
  <2>1. \A j, k \in DOMAIN Tail(pending) : Tail(pending)[j] = Tail(pending)[k] => j = k
    <3> SUFFICES ASSUME NEW j \in DOMAIN Tail(pending), NEW k \in DOMAIN Tail(pending),
                        Tail(pending)[j] = Tail(pending)[k]
                 PROVE  j = k
      OBVIOUS
    <3>1. j + 1 = k + 1
      BY TailFacts DEF TreeInv, PendingOK
    <3>2. j \in Nat /\ k \in Nat
      BY TailFacts
    <3> QED
      BY <3>1, <3>2
  <2> QED
    BY <2>1, <1>1, <1>2, TailFacts DEF TreeInv, PendingOK
<1>5. NothingIsForgotten'
  <2> SUFFICES ASSUME NEW q \in Index, Comparable(q), ~IsVerified(Left(q))
               PROVE  \E j \in DOMAIN Tail(pending) : Tail(pending)[j] = q
    BY <1>1, <1>2 DEF NothingIsForgotten
  <2>1. PICK j \in DOMAIN pending : pending[j] = q
    BY DEF TreeInv, NothingIsForgotten
  <2>2. j # 1
    BY <2>1, TailFacts DEF Postpone
  <2> QED
    BY <2>1, <2>2, TailFacts
<1> QED
  BY <1>3, <1>4, <1>5 DEF TreeInv

\* What the nodes below p and the waiting calls are when its pair is compared.
LEMMA CompareFacts ==
  ASSUME TreeInv, pending # <<>>, BothUnverified(Head(pending))
  PROVE  LET p == Head(pending)
             L == Left(p)
             R == Right(p)
         IN  /\ p \in Index /\ ~IsLeaf(p) /\ IsVerified(p)
             /\ L \in Index \ {0} /\ R \in Index \ {0} /\ L # R /\ p # L /\ p # R
             /\ ~IsVerified(L) /\ ~IsVerified(R)
             /\ nodes[p].hash = Honest[p]
             /\ nodes[L].hash \in Hash /\ nodes[R].hash \in Hash
             /\ \A q \in Index : q # p /\ ~IsLeaf(q) =>
                  {Left(q), Right(q)} \cap {L, R} = {}
             /\ ~IsLeaf(L) => ~IsVerified(Left(L)) /\ ~IsVerified(Right(L))
             /\ ~IsLeaf(R) => ~IsVerified(Left(R)) /\ ~IsVerified(Right(R))
<1> DEFINE p == Head(pending)
           L == Left(p)
           R == Right(p)
<1>1. p \in Index /\ ~IsLeaf(p) /\ IsVerified(p) /\ IsUnverified(L) /\ IsUnverified(R)
  BY TailFacts DEF BothUnverified, Comparable
<1>2. L \in Index \ {0} /\ R \in Index \ {0} /\ L # R /\ p # L /\ p # R
  BY <1>1, IndexFacts
<1>3. ~IsVerified(L) /\ ~IsVerified(R)
  BY <1>1 DEF IsVerified, IsUnverified
<1>4. nodes[p].hash = Honest[p]
  BY <1>1 DEF TreeInv, VerifiedIsHonest
<1>5. nodes[L].hash \in Hash /\ nodes[R].hash \in Hash
  <2>1. nodes[L] \in Potential /\ nodes[R] \in Potential
    BY <1>2 DEF TreeInv, TreeTypeOK
  <2> QED
    BY <1>1, <2>1, PotentialFacts DEF IsUnverified
<1>6. \A q \in Index : q # p /\ ~IsLeaf(q) => {Left(q), Right(q)} \cap {L, R} = {}
  BY <1>1, IndexFacts
<1>7. ASSUME NEW q \in Index, ~IsVerified(q), ~IsLeaf(q)
      PROVE  ~IsVerified(Left(q)) /\ ~IsVerified(Right(q))
  BY <1>7, IndexFacts DEF TreeInv, ParentsAreVerified
<1> QED
  BY <1>1, <1>2, <1>3, <1>4, <1>5, <1>6, <1>7

\* A right pair: both children are the creator's, and wait in their turn.
LEMMA AcceptStep ==
  ASSUME TreeInv, pending # <<>>, Accept(Head(pending))
  PROVE  TreeInv'
<1> DEFINE p == Head(pending)
           L == Left(p)
           R == Right(p)
           rest == Tail(pending)
<1>1. BothUnverified(p)
  BY DEF Accept
<1> HIDE DEF p, L, R
<1>2. /\ p \in Index /\ ~IsLeaf(p) /\ IsVerified(p)
      /\ L \in Index \ {0} /\ R \in Index \ {0} /\ L # R /\ p # L /\ p # R
      /\ ~IsVerified(L) /\ ~IsVerified(R)
  BY <1>1, CompareFacts DEF p, L, R
<1>3. /\ nodes[p].hash = Honest[p]
      /\ nodes[L].hash \in Hash /\ nodes[R].hash \in Hash
  BY <1>1, CompareFacts DEF p, L, R
<1>4. \A q \in Index : q # p /\ ~IsLeaf(q) =>
        {Left(q), Right(q)} \cap {L, R} = {}
  BY <1>1, CompareFacts DEF p, L, R
<1>5. /\ ~IsLeaf(L) => ~IsVerified(Left(L)) /\ ~IsVerified(Right(L))
      /\ ~IsLeaf(R) => ~IsVerified(Left(R)) /\ ~IsVerified(Right(R))
  BY <1>1, CompareFacts DEF p, L, R
<1>6. /\ L = Left(p) /\ R = Right(p) /\ p = Head(pending)
      /\ nodes' = [nodes EXCEPT ![L] = Verified(@.hash), ![R] = Verified(@.hash)]
      /\ pending' = <<L, R>> \o rest
      /\ nodes[p].hash = Pair(nodes[L].hash, nodes[R].hash)
  BY DEF Accept, PairOf, p, L, R
<1>7. /\ nodes'[L] = Verified(nodes[L].hash) /\ nodes'[R] = Verified(nodes[R].hash)
      /\ \A i \in Index \ {L, R} : nodes'[i] = nodes[i]
      /\ nodes' \in [Index -> Potential]
  <2>1. nodes \in [Index -> Potential]
    BY DEF TreeInv, TreeTypeOK
  <2>2. nodes' = [nodes EXCEPT ![L] = Verified(nodes[L].hash), ![R] = Verified(nodes[R].hash)]
    BY <1>2, <1>6, <2>1
  <2>3. Verified(nodes[L].hash) \in Potential /\ Verified(nodes[R].hash) \in Potential
    BY <1>3, PotentialFacts
  <2> QED
    BY <1>2, <2>1, <2>2, <2>3
<1>8. \A i \in Index : IsVerified(i)' <=> IsVerified(i) \/ i \in {L, R}
  BY <1>2, <1>3, <1>7, PotentialFacts DEF IsVerified
<1>9. \A i \in Index : i \notin {L, R} => (IsNone(i)' <=> IsNone(i))
  BY <1>7 DEF IsNone
<1>10. TreeTypeOK'
  BY <1>2, <1>6, <1>7, TailFacts DEF TreeTypeOK
<1>11. VerifiedIsHonest'
  <2>1. Honest[p] = Pair(Honest[L], Honest[R])
    BY <1>2, <1>6, HonestAssumption DEF FromLeaves
  <2>2. Honest[L] \in Hash /\ Honest[R] \in Hash
    BY <1>2, HonestAssumption
  <2>3. nodes[L].hash = Honest[L] /\ nodes[R].hash = Honest[R]
    BY <1>3, <1>6, <2>1, <2>2, HashesDoNotCollide
  <2> QED
    BY <1>2, <1>3, <1>7, <1>8, <2>3, PotentialFacts DEF TreeInv, VerifiedIsHonest
<1>12. RootIsVerified' /\ ParentsAreVerified' /\ SiblingsAgree'
  <2>1. RootIsVerified'
    BY <1>8, IndexFacts DEF TreeInv, RootIsVerified
  <2>2. ParentsAreVerified'
    BY <1>2, <1>6, <1>8, IndexFacts DEF TreeInv, ParentsAreVerified
  <2>3. SiblingsAgree'
    <3> SUFFICES ASSUME NEW q \in Index, ~IsLeaf(q)
                 PROVE  IsVerified(Left(q))' <=> IsVerified(Right(q))'
      BY DEF SiblingsAgree
    <3>1. CASE q = p
      BY <3>1, <1>2, <1>6, <1>8
    <3>2. CASE q # p
      BY <3>2, <1>4, <1>8, IndexFacts DEF TreeInv, SiblingsAgree
    <3> QED
      BY <3>1, <3>2
  <2> QED
    BY <2>1, <2>2, <2>3
<1>13. rest \in Seq(Index)
  BY TailFacts
<1>14. /\ pending'[1] = L /\ pending'[2] = R
       /\ \A j \in DOMAIN rest : j + 2 \in DOMAIN pending' /\ pending'[j + 2] = rest[j]
       /\ \A j \in DOMAIN pending' : \/ j \in {1, 2}
                                     \/ j - 2 \in DOMAIN rest /\ pending'[j] = rest[j - 2]
       /\ {1, 2} \subseteq DOMAIN pending'
       /\ DOMAIN pending' \subseteq Nat
  BY <1>6, <1>13, <1>2
<1>15. \A j \in DOMAIN rest :
         /\ j + 1 \in DOMAIN pending /\ rest[j] = pending[j + 1]
         /\ rest[j] \in Index /\ IsVerified(rest[j]) /\ rest[j] # p
  BY <1>6, <1>13, TailFacts
<1>16. PendingOK'
  <2>1. ASSUME NEW j \in DOMAIN pending', NEW q \in Index, pending'[j] = q, ~IsLeaf(q)
        PROVE  ~IsVerified(Left(q))'
    <3>1. CASE j \in {1, 2}
      <4>1. q \in {L, R} /\ q # p
        BY <2>1, <3>1, <1>2, <1>14
      <4>2. ~IsVerified(Left(q)) /\ Left(q) \in Index \ {L, R}
        BY <2>1, <4>1, <1>4, <1>5, IndexFacts
      <4> QED
        BY <4>2, <1>8
    <3>2. CASE j \notin {1, 2}
      <4>1. j - 2 \in DOMAIN rest /\ q = rest[j - 2]
        BY <2>1, <3>2, <1>14
      <4>2. ~IsVerified(Left(q)) /\ q # p
        BY <4>1, <2>1, <1>15 DEF TreeInv, PendingOK
      <4>3. Left(q) \in Index \ {L, R}
        BY <4>2, <2>1, <1>4, IndexFacts
      <4> QED
        BY <4>2, <4>3, <1>8
    <3> QED
      BY <3>1, <3>2
  <2>2. ASSUME NEW j \in DOMAIN pending', NEW k \in DOMAIN pending', pending'[j] = pending'[k]
        PROVE  j = k
    <3>1. CASE j \in {1, 2} /\ k \in {1, 2}
      BY <3>1, <2>2, <1>2, <1>14
    <3>2. CASE j \in {1, 2} /\ k \notin {1, 2}
      BY <3>2, <2>2, <1>2, <1>14, <1>15
    <3>3. CASE j \notin {1, 2} /\ k \in {1, 2}
      BY <3>3, <2>2, <1>2, <1>14, <1>15
    <3>4. CASE j \notin {1, 2} /\ k \notin {1, 2}
      <4>1. /\ j - 2 \in DOMAIN rest /\ pending'[j] = rest[j - 2]
            /\ k - 2 \in DOMAIN rest /\ pending'[k] = rest[k - 2]
        BY <3>4, <1>14
      <4>2. (j - 2) + 1 = (k - 2) + 1
        BY <4>1, <2>2, <1>15 DEF TreeInv, PendingOK
      <4> QED
        BY <4>2, <1>14
    <3> QED
      BY <3>1, <3>2, <3>3, <3>4
  <2>3. ASSUME NEW j \in DOMAIN pending', NEW q \in Index, pending'[j] = q, j # 1
        PROVE  IsVerified(q)'
    BY <2>3, <1>8, <1>14, <1>15
  <2>4. \A j \in DOMAIN pending' : pending'[j] \in Index
    BY <1>2, <1>14, <1>15
  <2> QED
    BY <2>1, <2>2, <2>3, <2>4 DEF PendingOK
<1>17. NothingIsForgotten'
  <2> SUFFICES ASSUME NEW q \in Index, Comparable(q)', ~IsVerified(Left(q))'
               PROVE  \E j \in DOMAIN pending' : pending'[j] = q
    BY DEF NothingIsForgotten
  <2>1. CASE q \in {L, R}
    BY <2>1, <1>14
  <2>2. CASE q \notin {L, R}
    <3>1. q # p /\ ~IsLeaf(q) /\ IsVerified(q)
      BY <2>2, <1>2, <1>6, <1>8 DEF Comparable
    <3>2. Comparable(q) /\ ~IsVerified(Left(q))
      BY <3>1, <1>4, <1>8, <1>9, IndexFacts DEF Comparable
    <3>3. PICK j \in DOMAIN pending : pending[j] = q
      BY <3>2 DEF TreeInv, NothingIsForgotten
    <3>4. j # 1
      BY <3>1, <3>3, <1>6, TailFacts
    <3>5. j - 1 \in DOMAIN rest /\ rest[j - 1] = q
      BY <3>3, <3>4, TailFacts
    <3> QED
      BY <3>5, <1>14
  <2> QED
    BY <2>1, <2>2
<1> QED
  BY <1>10, <1>11, <1>12, <1>16, <1>17 DEF TreeInv

\* A wrong pair: both children are missing again.
LEMMA RejectStep ==
  ASSUME TreeInv, pending # <<>>, Reject(Head(pending))
  PROVE  TreeInv'
<1> DEFINE p == Head(pending)
           L == Left(p)
           R == Right(p)
           rest == Tail(pending)
<1>1. BothUnverified(p)
  BY DEF Reject
<1> HIDE DEF p, L, R
<1>2. /\ p \in Index /\ ~IsLeaf(p) /\ IsVerified(p)
      /\ L \in Index \ {0} /\ R \in Index \ {0} /\ L # R /\ p # L /\ p # R
      /\ ~IsVerified(L) /\ ~IsVerified(R)
      /\ \A q \in Index : q # p /\ ~IsLeaf(q) => {Left(q), Right(q)} \cap {L, R} = {}
  BY <1>1, CompareFacts DEF p, L, R
<1>3. /\ L = Left(p) /\ R = Right(p) /\ p = Head(pending)
      /\ nodes' = [nodes EXCEPT ![L] = None, ![R] = None]
      /\ pending' = rest
  BY DEF Reject, p, L, R
<1>4. /\ nodes'[L] = None /\ nodes'[R] = None
      /\ \A i \in Index \ {L, R} : nodes'[i] = nodes[i]
      /\ nodes' \in [Index -> Potential]
  BY <1>2, <1>3, PotentialFacts DEF TreeInv, TreeTypeOK
<1>5. \A i \in Index : IsVerified(i)' <=> IsVerified(i)
  BY <1>2, <1>4, PotentialFacts DEF IsVerified
<1>6. \A i \in Index : IsNone(i)' <=> IsNone(i) \/ i \in {L, R}
  BY <1>2, <1>4, PotentialFacts DEF IsNone
<1>7. TreeTypeOK'
  BY <1>3, <1>4, TailFacts DEF TreeTypeOK
<1>8. VerifiedIsHonest'
  <2> SUFFICES ASSUME NEW i \in Index, IsVerified(i)
               PROVE  nodes'[i].hash = Honest[i]
    BY <1>5 DEF VerifiedIsHonest
  <2> QED
    BY <1>2, <1>4 DEF TreeInv, VerifiedIsHonest
<1>9. RootIsVerified' /\ ParentsAreVerified' /\ SiblingsAgree'
  BY <1>5, IndexFacts DEF TreeInv, RootIsVerified, ParentsAreVerified, SiblingsAgree
<1>10. \A j \in DOMAIN rest :
         /\ j \in Nat /\ j + 1 \in DOMAIN pending /\ rest[j] = pending[j + 1]
         /\ rest[j] \in Index /\ IsVerified(rest[j])
  BY TailFacts
<1>11. PendingOK'
  <2>1. ASSUME NEW j \in DOMAIN rest, NEW q \in Index, rest[j] = q, ~IsLeaf(q)
        PROVE  ~IsVerified(Left(q))'
    <3>1. ~IsVerified(Left(q))
      BY <2>1, <1>10 DEF TreeInv, PendingOK
    <3> QED
      BY <2>1, <3>1, <1>5, IndexFacts
  <2>2. ASSUME NEW j \in DOMAIN rest, NEW k \in DOMAIN rest, rest[j] = rest[k]
        PROVE  j = k
    <3>1. j + 1 = k + 1
      BY <2>2, <1>10 DEF TreeInv, PendingOK
    <3> QED
      BY <3>1, <1>10
  <2> QED
    BY <2>1, <2>2, <1>3, <1>5, <1>10 DEF PendingOK
<1>12. NothingIsForgotten'
  <2> SUFFICES ASSUME NEW q \in Index, Comparable(q)', ~IsVerified(Left(q))'
               PROVE  \E j \in DOMAIN rest : rest[j] = q
    BY <1>3 DEF NothingIsForgotten
  <2>1. q # p /\ ~IsLeaf(q) /\ IsVerified(q)
    BY <1>2, <1>3, <1>5, <1>6 DEF Comparable
  <2>2. Comparable(q) /\ ~IsVerified(Left(q))
    BY <2>1, <1>5, <1>6, IndexFacts DEF Comparable
  <2>3. PICK j \in DOMAIN pending : pending[j] = q
    BY <2>2 DEF TreeInv, NothingIsForgotten
  <2>4. j # 1
    BY <2>1, <2>3, <1>3, TailFacts
  <2> QED
    BY <2>3, <2>4, TailFacts
<1> QED
  BY <1>7, <1>8, <1>9, <1>11, <1>12 DEF TreeInv

LEMMA NextTreeInv == TreeInv /\ [TreeNext]_treeVars => TreeInv'
<1> SUFFICES ASSUME TreeInv, [TreeNext]_treeVars PROVE TreeInv'
  OBVIOUS
<1>1. ASSUME NEW i \in Index, NEW hash \in Hash, Set(i, hash) PROVE TreeInv'
  BY <1>1, SetStep
<1>2. CASE ValidateChildren
  BY <1>2, PostponeStep, AcceptStep, RejectStep DEF ValidateChildren
<1>3. CASE UNCHANGED treeVars
  BY <1>3 DEF treeVars, TreeInv, TreeTypeOK, VerifiedIsHonest, RootIsVerified,
     ParentsAreVerified, SiblingsAgree, PendingOK, NothingIsForgotten, Comparable,
     IsVerified, IsNone
<1> QED
  BY <1>1, <1>2, <1>3 DEF TreeNext

LEMMA AlwaysTreeInv == TreeSpec => []TreeInv
  BY InitTreeInv, NextTreeInv, PTL DEF TreeSpec
-----------------------------------------------------------------------------
\* The nodes of the tree and the calls that wait are what the code's types say.
THEOREM TreeTyped == TreeSpec => []TreeTypeOK
<1>1. TreeInv => TreeTypeOK
  BY DEF TreeInv
<1> QED
  BY <1>1, AlwaysTreeInv, PTL

\* Whatever hashes come, in whatever order, `set` and validate_children mark
\* only the creator's hashes as verified.
THEOREM TreeVerifiedIsHonest == TreeSpec => []VerifiedIsHonest
<1>1. TreeInv => VerifiedIsHonest
  BY DEF TreeInv
<1> QED
  BY <1>1, AlwaysTreeInv, PTL

\* The invariant rules out both ways to be stuck.  If some node were neither
\* missing nor verified and nothing waited, its parent would be verified (take
\* the first such node), and so comparable, and hence waiting.
LEMMA NeverStuck == TreeInv => TreeIsNeverStuck
<1> SUFFICES ASSUME TreeInv PROVE TreeIsNeverStuck
  OBVIOUS
<1>1. ASSUME pending = <<>>, MissingIndices = {}
      PROVE  TryComplete
  <2> DEFINE Left0 == {i \in Index : ~IsVerified(i)}
  <2> SUFFICES ASSUME Left0 # {} PROVE FALSE
    BY DEF TryComplete
  <2>1. Left0 \subseteq Nat
    BY LeafCountAssumption DEF Index, NodeCountForLeafCount
  <2>2. PICK i \in Left0 : \A j \in Left0 : ~(<<j, i>> \in OpToRel(<, Nat))
    <3> HIDE DEF Left0
    <3> QED
      BY <2>1, NatLessThanWellFounded, WFMin, Zenon
  <2>3. i # 0
    BY DEF TreeInv, RootIsVerified
  <2>4. Parent(i) \in Index /\ Parent(i) < i /\ ~IsLeaf(Parent(i))
        /\ (i = Left(Parent(i)) \/ i = Right(Parent(i)))
    BY <2>3, IndexFacts
  <2>5. IsVerified(Parent(i))
    <3>1. Parent(i) \in Nat /\ i \in Nat
      BY <2>1, <2>4, LeafCountAssumption DEF Index, NodeCountForLeafCount
    <3> QED
      BY <2>2, <2>4, <3>1 DEF OpToRel
  <2>6. ~IsVerified(Left(Parent(i)))
    BY <2>4 DEF TreeInv, SiblingsAgree
  <2>7. Comparable(Parent(i))
    BY <1>1, <2>4, <2>5, IndexFacts DEF Comparable, MissingIndices
  <2> QED
    BY <1>1, <2>4, <2>6, <2>7 DEF TreeInv, NothingIsForgotten
<1>2. ASSUME pending # <<>>, Comparable(Head(pending))
      PROVE  BothUnverified(Head(pending))
  <2> DEFINE p == Head(pending)
  <2>1. p \in Index /\ ~IsLeaf(p) /\ ~IsNone(Left(p)) /\ ~IsNone(Right(p))
    BY <1>2, TailFacts DEF Comparable
  <2>2. ~IsVerified(Left(p)) /\ ~IsVerified(Right(p))
    BY <1>2, <2>1, TailFacts DEF TreeInv, PendingOK, SiblingsAgree
  <2>3. nodes[Left(p)] \in Potential /\ nodes[Right(p)] \in Potential
    BY <2>1, IndexFacts DEF TreeInv, TreeTypeOK
  <2> QED
    BY <1>2, <2>1, <2>2, <2>3, PotentialFacts
    DEF BothUnverified, IsNone, IsVerified, IsUnverified
<1> QED
  BY <1>1, <1>2 DEF TreeIsNeverStuck

\* A tree with nothing missing is complete, and validate_children never meets a
\* child that is verified already (its unreachable!).
THEOREM TreeNeverStuck == TreeSpec => []TreeIsNeverStuck
  BY NeverStuck, AlwaysTreeInv, PTL
-----------------------------------------------------------------------------
(***************************************************************************)
(* index_for_leaf finds the hash of every block where from_leaves put it.  *)
(***************************************************************************)
LEMMA IndexForLeafIsRight ==
  ASSUME NEW k \in Leaf
  PROVE  /\ IndexForLeaf(k) \in Index /\ IsLeaf(IndexForLeaf(k))
         /\ LeafAt(IndexForLeaf(k)) = k
<1>1. k \in Int /\ LeafCount \in Int /\ 0 <= k /\ k < LeafCount
  BY LeafCountAssumption DEF Leaf
<1>2. PICK P \in LeafCount..(2 * LeafCount - 1) : P = NextPowerOfTwo(LeafCount)
  BY NextPowerOfTwoAssumption
<1>3. IndexForLeaf(k) = IF P - 1 + k >= 2 * LeafCount - 1 THEN P - 1 + k - LeafCount ELSE P - 1 + k
  BY <1>1, <1>2 DEF IndexForLeaf, BottomStart, NodeCountForLeafCount
<1>4. ASSUME NEW i \in Int
      PROVE  LeafAt(i) = IF i >= P - 1 THEN i - (P - 1)
                         ELSE i - (LeafCount - 1) + (2 * LeafCount - 1 - (P - 1))
  BY <1>1, <1>2 DEF LeafAt, BottomStart, NodeCountForLeafCount
<1>5. P \in Int /\ LeafCount <= P /\ P <= 2 * LeafCount - 1
      /\ LeafCount \in Int /\ k \in Int /\ 0 <= k /\ k < LeafCount
  BY <1>1, <1>2
<1>6. CASE P - 1 + k >= 2 * LeafCount - 1
  <2>1. IndexForLeaf(k) = P - 1 + k - LeafCount
    BY <1>3, <1>6
  <2>2. LeafAt(IndexForLeaf(k)) = k
    BY <1>4, <1>5, <2>1
  <2> QED
    BY <1>5, <1>6, <2>1, <2>2 DEF Index, IsLeaf, NodeCountForLeafCount
<1>7. CASE ~(P - 1 + k >= 2 * LeafCount - 1)
  <2>1. IndexForLeaf(k) = P - 1 + k
    BY <1>3, <1>7
  <2>2. LeafAt(IndexForLeaf(k)) = k
    BY <1>4, <1>5, <2>1
  <2> QED
    BY <1>5, <1>7, <2>1, <2>2 DEF Index, IsLeaf, NodeCountForLeafCount
<1> QED
  BY <1>6, <1>7

LEMMA HonestLeaf ==
  ASSUME NEW k \in Leaf
  PROVE  Honest[IndexForLeaf(k)] = ChunkHash(Content[k])
  BY IndexForLeafIsRight, HonestAssumption DEF FromLeaves

(***************************************************************************)
(* The inductive invariant.  The tree is whole once blocks are asked for,  *)
(* the blocks are whole once operations are applied, and what is held of   *)
(* each is the creator's.                                                  *)
(***************************************************************************)
PhasesInv ==
  /\ phase \in Phase
  /\ phase # "DownloadingMerkle" => pending = <<>> /\ TryComplete
  /\ phase = "Syncing" => DOMAIN initial_state = Leaf
  /\ phase # "Syncing" => Nodes = {}

BlocksInv ==
  /\ DOMAIN initial_state \subseteq Leaf
  /\ initial_state = [k \in DOMAIN initial_state |-> Content[k]]

ReplicaInv ==
  /\ TreeInv
  /\ PhasesInv
  /\ BlocksInv

LEMMA InitReplicaInv == ReplicaInit => ReplicaInv
<1> SUFFICES ASSUME ReplicaInit PROVE ReplicaInv
  OBVIOUS
<1>1. TreeInv
  BY InitTreeInv DEF ReplicaInit
<1>2. phase # "DownloadingMerkle" => pending = <<>> /\ TryComplete
  <2>1. LeafCount = 1 => Index = {0}
    BY DEF Index, NodeCountForLeafCount
  <2> QED
    BY <1>1, <2>1 DEF ReplicaInit, TreeInit, TryComplete, TreeInv, RootIsVerified
<1>3. PhasesInv
  BY <1>2 DEF PhasesInv, ReplicaInit, Phase, CrdtInit, Init, Nodes
<1>4. BlocksInv
  BY DEF BlocksInv, ReplicaInit
<1> QED
  BY <1>1, <1>3, <1>4 DEF ReplicaInv

\* Every step of a replica is a step of its tree and one of its value, or
\* leaves them alone.
LEMMA PartsStep ==
  /\ [ReplicaNext]_replicaVars => [TreeNext]_treeVars
  /\ [ReplicaNext]_replicaVars => [CrdtNext]_crdtVars
<1> SUFFICES ASSUME [ReplicaNext]_replicaVars
             PROVE  [TreeNext]_treeVars /\ [CrdtNext]_crdtVars
  OBVIOUS
<1>1. ASSUME NEW i \in Index, NEW hash \in Hash, ReceiveHash(i, hash)
      PROVE  TreeNext /\ UNCHANGED crdtVars
  BY <1>1 DEF ReceiveHash, TreeNext
<1>2. CASE Validate
  BY <1>2 DEF Validate, TreeNext
<1>3. ASSUME NEW k \in Leaf, NEW chunk \in Chunk, ReceiveBlock(k, chunk)
      PROVE  UNCHANGED <<treeVars, crdtVars>>
  BY <1>3 DEF ReceiveBlock
<1>4. CASE Sync
  BY <1>4 DEF Sync
<1>5. CASE UNCHANGED replicaVars
  BY <1>5 DEF replicaVars
<1> QED
  BY <1>1, <1>2, <1>3, <1>4, <1>5 DEF ReplicaNext

\* A block is taken only if it is the one its creator put there.
LEMMA BlockStep ==
  ASSUME ReplicaInv, TreeInv', NEW k \in Leaf, NEW chunk \in Chunk, ReceiveBlock(k, chunk)
  PROVE  PhasesInv' /\ BlocksInv'
<1> DEFINE i == IndexForLeaf(k)
<1>1. i \in Index /\ Honest[i] = ChunkHash(Content[k])
  BY IndexForLeafIsRight, HonestLeaf
<1>2. IsVerified(i)
  BY <1>1 DEF ReceiveBlock, ReplicaInv, PhasesInv, TryComplete
<1>3. ChunkHash(Content[k]) = ChunkHash(chunk)
  BY <1>1, <1>2 DEF ReplicaInv, TreeInv, VerifiedIsHonest, ReceiveBlock, ValidateChunk
<1>4. chunk = Content[k]
  BY <1>3, ContentAssumption, HashesDoNotCollide
<1>5. BlocksInv'
  BY <1>4 DEF ReceiveBlock, ReplicaInv, BlocksInv
<1>6. /\ UNCHANGED <<nodes, pending, node_info_map>>
      /\ phase = "DownloadingInitialState"
      /\ phase' = IF DOMAIN initial_state' = Leaf THEN "Syncing" ELSE phase
  BY DEF ReceiveBlock, treeVars, crdtVars, vars
<1>7. PhasesInv'
  BY <1>6 DEF ReplicaInv, PhasesInv, Phase, TryComplete, IsVerified, Nodes
<1> QED
  BY <1>5, <1>7

LEMMA NextReplicaInv == ReplicaInv /\ [ReplicaNext]_replicaVars => ReplicaInv'
<1> SUFFICES ASSUME ReplicaInv, [ReplicaNext]_replicaVars PROVE ReplicaInv'
  OBVIOUS
<1>1. TreeInv'
  BY PartsStep, NextTreeInv DEF ReplicaInv
<1>2. ASSUME NEW i \in Index, NEW hash \in Hash, ReceiveHash(i, hash)
      PROVE  PhasesInv' /\ BlocksInv'
  <2>1. UNCHANGED <<phase, initial_state, node_info_map>> /\ phase = "DownloadingMerkle"
    BY <1>2 DEF ReceiveHash, crdtVars, vars
  <2> QED
    BY <2>1 DEF ReplicaInv, PhasesInv, BlocksInv, Nodes
<1>3. CASE Validate
  <2>1. /\ UNCHANGED <<initial_state, node_info_map>> /\ pending # <<>>
        /\ phase' = IF pending' = <<>> /\ TryComplete' THEN "DownloadingInitialState" ELSE phase
    BY <1>3 DEF Validate, ValidateChildren, crdtVars, vars
  <2>2. phase = "DownloadingMerkle"
    BY <2>1 DEF ReplicaInv, PhasesInv
  <2>3. PhasesInv'
    <3>1. Nodes' = {}
      BY <2>1, <2>2 DEF ReplicaInv, PhasesInv, Nodes
    <3>2. CASE pending' = <<>> /\ TryComplete'
      BY <2>1, <3>1, <3>2 DEF PhasesInv, Phase
    <3>3. CASE ~(pending' = <<>> /\ TryComplete')
      BY <2>1, <2>2, <3>1, <3>3 DEF PhasesInv, Phase
    <3> QED
      BY <3>2, <3>3
  <2> QED
    BY <1>1, <2>1, <2>3 DEF ReplicaInv, BlocksInv
<1>4. ASSUME NEW k \in Leaf, NEW chunk \in Chunk, ReceiveBlock(k, chunk)
      PROVE  PhasesInv' /\ BlocksInv'
  BY <1>1, <1>4, BlockStep
<1>5. CASE Sync
  <2>1. phase = "Syncing" /\ UNCHANGED <<nodes, pending, phase, initial_state>>
    BY <1>5 DEF Sync, treeVars
  <2>2. TryComplete' <=> TryComplete
    BY <2>1 DEF TryComplete, IsVerified
  <2> QED
    BY <1>1, <2>1, <2>2 DEF ReplicaInv, PhasesInv, BlocksInv
<1>6. CASE UNCHANGED replicaVars
  <2>1. UNCHANGED <<nodes, pending, phase, initial_state, node_info_map>>
    BY <1>6 DEF replicaVars, treeVars, crdtVars, vars
  <2>2. (TryComplete' <=> TryComplete) /\ Nodes' = Nodes
    BY <2>1 DEF TryComplete, IsVerified, Nodes
  <2> QED
    BY <1>1, <2>1, <2>2 DEF ReplicaInv, PhasesInv, BlocksInv
<1> QED
  BY <1>1, <1>2, <1>3, <1>4, <1>5, <1>6 DEF ReplicaInv, ReplicaNext

-----------------------------------------------------------------------------
\* A replica is its tree and its value: all that MerkleTreeProofs and CrdtProofs
\* prove of them holds of it.
THEOREM ReplicaKeepsItsParts == ReplicaSpec => TreeSpec /\ CrdtSpec
<1>1. ReplicaInit => TreeInit /\ CrdtInit
  BY DEF ReplicaInit
<1> QED
  BY <1>1, PartsStep, PTL DEF ReplicaSpec, TreeSpec, CrdtSpec

\* Whatever hashes and blocks come, from whichever peer and in whatever order,
\* the hashes verified and the blocks accepted are the creator's, and operations
\* are applied to the whole initial state only.
THEOREM ReplicaContent == ReplicaSpec => []ContentIsTheCreators
<1>1. ReplicaInv => ContentIsTheCreators
  <2> SUFFICES ASSUME ReplicaInv PROVE ContentIsTheCreators
    OBVIOUS
  <2>1. ASSUME Nodes # {} PROVE initial_state = Content
    <3>1. DOMAIN initial_state = Leaf
      BY <2>1 DEF ReplicaInv, PhasesInv
    <3>2. initial_state = [k \in Leaf |-> Content[k]]
      BY <3>1 DEF ReplicaInv, BlocksInv
    <3> QED
      BY <3>2, ContentAssumption
  <2> QED
    BY <2>1 DEF ReplicaInv, TreeInv, BlocksInv, ContentIsTheCreators
<1> QED
  BY <1>1, InitReplicaInv, NextReplicaInv, PTL DEF ReplicaSpec
=============================================================================
