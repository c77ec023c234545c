----------------------------- MODULE CrdtProofs -----------------------------
(***************************************************************************)
(* Theorems about the value the operations make (Crdt), for every graph of *)
(* headers, every way of spreading operations over them, and every order   *)
(* in which they come.                                                     *)
(***************************************************************************)
EXTENDS Crdt, EcgProofs

(***************************************************************************)
(* The inductive invariant.  What is being applied is the end of the list  *)
(* of a header that nothing depends on yet, so everything before an        *)
(* operation has been applied when its turn comes.                         *)
(***************************************************************************)
ApplyingIsLastOf(h) ==
  /\ ChildrenIn(Nodes, h) = {}
  /\ Len(applying) <= Len(Operations[h])
  /\ \A i \in 1..Len(applying) :
       applying[i] = <<h, Len(Operations[h]) - Len(applying) + i - 1>>

ApplyingOK ==
  /\ applying \in Seq(Carried)
  /\ applying # <<>> => \E h \in Nodes : ApplyingIsLastOf(h)

KeysInv ==
  /\ tombstones = Deleted
  /\ DOMAIN map = Inserted \ Deleted

CrdtInv ==
  /\ IInv
  /\ ApplyingOK
  /\ KeysInv
  /\ NothingOverwrittenIsShown
  /\ RegistersConverge

LEMMA CarriedFacts ==
  /\ \A h \in HeaderId : Operations[h] \in Seq([type : {"Insert", "Apply", "Delete"}, key : OperationId])
  /\ \A t \in Carried :
       /\ t[1] \in HeaderId /\ t[1] \in Nat /\ t[2] \in Nat /\ t[2] < Len(Operations[t[1]])
       /\ t = <<t[1], t[2]>>
       /\ t \notin InitialKey
  /\ \A h \in HeaderId : \A i \in 0..(Len(Operations[h]) - 1) : <<h, i>> \in Carried
<1>1. \A h \in HeaderId : Operations[h] \in Seq([type : {"Insert", "Apply", "Delete"}, key : OperationId])
  BY OperationsAssumption
<1>2. ASSUME NEW t \in Carried
      PROVE  /\ t[1] \in HeaderId /\ t[1] \in Nat /\ t[2] \in Nat /\ t[2] < Len(Operations[t[1]])
             /\ t = <<t[1], t[2]>>
             /\ t \notin InitialKey
  <2>1. PICK h \in HeaderId : t \in {h} \X (0..(Len(Operations[h]) - 1))
    BY DEF Carried
  <2>2. t[1] = h /\ t[2] \in 0..(Len(Operations[h]) - 1) /\ t = <<t[1], t[2]>>
    BY <2>1
  <2>3. Len(Operations[h]) \in Nat
    BY <1>1
  <2>4. h \in Nat
    BY HeaderAssumption
  <2>5. t \notin InitialKey
    BY <2>2, <2>4, OperationsAssumption DEF NoHeader
  <2> QED
    BY <2>2, <2>3, <2>4, <2>5
<1>3. ASSUME NEW h \in HeaderId, NEW i \in 0..(Len(Operations[h]) - 1)
      PROVE  <<h, i>> \in Carried
  BY DEF Carried
<1> QED
  BY <1>1, <1>2, <1>3

\* An operation is of one kind.
LEMMA KindFacts ==
  ASSUME NEW t \in Carried
  PROVE  /\ IsInsert(t) \/ IsApply(t) \/ IsDelete(t)
         /\ ~(IsInsert(t) /\ IsApply(t)) /\ ~(IsInsert(t) /\ IsDelete(t))
         /\ ~(IsApply(t) /\ IsDelete(t))
<1> DEFINE Operation == [type : {"Insert", "Apply", "Delete"}, key : OperationId]
           h == t[1]
           n == t[2]
<1>1. h \in HeaderId /\ n \in Nat /\ n < Len(Operations[h]) /\ Operations[h] \in Seq(Operation)
  BY CarriedFacts
<1> HIDE DEF Operation, h, n
<1>2. Operations[h][n + 1] \in Operation
  BY <1>1
<1>3. OperationOf(t).type \in {"Insert", "Apply", "Delete"}
  BY <1>2 DEF OperationOf, Operation, h, n
<1> QED
  BY <1>3 DEF IsInsert, IsApply, IsDelete

\* The keys that operations use.
LEMMA KeyFacts ==
  ASSUME NEW t \in Carried
  PROVE  /\ IsInsert(t) => KeyOf(t) = t
         /\ ~IsInsert(t) => /\ HappensBefore(KeyOf(t), t)
                            /\ \/ KeyOf(t) \in InitialKey
                               \/ KeyOf(t) \in Carried /\ IsInsert(KeyOf(t))
  BY OperationsAssumption

\* compare_with_tiebreak never leaves two ids undecided.
LEMMA PrecedesIsTotal ==
  ASSUME NEW a \in Carried \cup InitialKey, NEW b \in Carried \cup InitialKey, a # b
  PROVE  Precedes(a, b) \/ Precedes(b, a)
<1>1. \A t \in {a, b} : t = <<t[1], t[2]>> /\ t[1] \in Int /\ t[2] \in Int
  BY CarriedFacts, OperationsAssumption DEF NoHeader
<1>2. IdLess(a, b) \/ IdLess(b, a)
  BY <1>1 DEF IdLess
<1> QED
  BY <1>2 DEF Precedes

\* The ancestors of a header held are held, and a header without children is
\* no ancestor.
LEMMA AncestorsAreHeld ==
  ASSUME IInv, NEW n \in Nodes
  PROVE  /\ Ancestors[n] \subseteq Nodes
         /\ \A h \in Nodes : ChildrenIn(Nodes, h) = {} => h \notin Ancestors[n]
<1>1. n \in HeaderId /\ Nodes \subseteq HeaderId /\ ParentIds[n] \subseteq Nodes /\ ParentClosed(Nodes)
  BY DEF IInv, TypeOK, CausallyClosed, ParentClosed
<1>2. \A S \in SUBSET HeaderId : ParentIds[n] \subseteq S /\ ParentClosed(S) => Ancestors[n] \subseteq S
  BY <1>1 DEF Ancestors
<1>3. ASSUME NEW h \in Nodes, ChildrenIn(Nodes, h) = {}
      PROVE  h \notin Ancestors[n]
  <2>1. \A m \in Nodes : h \notin ParentIds[m]
    BY <1>3 DEF ChildrenIn
  <2>2. ParentIds[n] \subseteq Nodes \ {h} /\ ParentClosed(Nodes \ {h})
    BY <1>1, <2>1 DEF ParentClosed
  <2> QED
    BY <1>1, <1>2, <2>2
<1> QED
  BY <1>1, <1>2, <1>3

(***************************************************************************)
(* Everything before an operation that is applied, or whose turn it is, is *)
(* applied.                                                                *)
(***************************************************************************)
LEMMA BeforeIsApplied ==
  ASSUME IInv, ApplyingOK,
         NEW w \in Carried, w \in Applied \/ (applying # <<>> /\ w = Head(applying)),
         NEW t \in Carried, HappensBefore(t, w)
  PROVE  t \in Applied
<1>1. /\ t[1] \in HeaderId /\ t[2] \in Nat /\ t = <<t[1], t[2]>>
      /\ w[1] \in HeaderId /\ w[2] \in Nat /\ w = <<w[1], w[2]>>
      /\ t[1] \in Nat /\ w[1] \in Nat
  BY CarriedFacts
<1>2. applying \in Seq(Carried)
  BY DEF ApplyingOK
<1>3. w[1] \in Nodes
  <2>1. CASE w \in Applied
    BY <2>1 DEF Applied
  <2>2. CASE applying # <<>> /\ w = Head(applying)
    <3>1. PICK h \in Nodes : ApplyingIsLastOf(h)
      BY <2>2 DEF ApplyingOK
    <3>2. 1 \in 1..Len(applying) /\ Head(applying) = applying[1]
      BY <1>2, <2>2
    <3>3. w[1] = h
      BY <2>2, <3>1, <3>2 DEF ApplyingIsLastOf
    <3> QED
      BY <3>3
  <2> QED
    BY <2>1, <2>2
<1>4. CASE t[1] = w[1]
  <2>1. t[2] < w[2]
    BY <1>4 DEF HappensBefore
  <2> SUFFICES ASSUME NEW i \in DOMAIN applying, t = applying[i] PROVE FALSE
    BY <1>3, <1>4 DEF Applied
  <2>2. i \in 1..Len(applying) /\ Len(applying) \in Nat /\ applying # <<>>
    BY <1>2
  <2>3. PICK h \in Nodes : ApplyingIsLastOf(h)
    BY <2>2 DEF ApplyingOK
  <2> DEFINE first == Len(Operations[h]) - Len(applying)
  <2>4. h \in HeaderId /\ Len(Operations[h]) \in Nat
    BY <2>3, CarriedFacts DEF IInv, TypeOK
  <2>5. first \in Nat
    BY <2>2, <2>3, <2>4 DEF ApplyingIsLastOf
  <2>6. t[1] = h /\ t[2] = first + i - 1
    BY <2>2, <2>3 DEF ApplyingIsLastOf
  <2>7. CASE w = Head(applying)
    <3>1. w = applying[1] /\ 1 \in 1..Len(applying)
      BY <1>2, <2>2, <2>7
    <3>2. w[2] = first + 1 - 1
      BY <2>3, <3>1 DEF ApplyingIsLastOf
    <3> HIDE DEF first
    <3> QED
      BY <2>1, <2>2, <2>5, <2>6, <3>2
  <2>8. CASE w \in Applied
    <3> DEFINE j == w[2] - first + 1
    <3>1. w[2] < Len(Operations[h])
      BY <1>4, <2>6, CarriedFacts
    <3>2. j \in 1..Len(applying)
      <4>1. ASSUME NEW x \in Nat, NEW y \in Nat, NEW n \in Nat, NEW m \in Nat,
                   n - m \in Nat, y = n - m + i - 1, y < x, x < n
            PROVE  x - (n - m) + 1 \in 1..m
        BY <4>1, <2>2
      <4> QED
        BY <4>1, <1>1, <2>1, <2>2, <2>4, <2>5, <2>6, <3>1
    <3>3. applying[j] = <<h, first + j - 1>>
      BY <2>3, <3>2 DEF ApplyingIsLastOf
    <3>4. first + j - 1 = w[2]
      BY <1>1, <2>5
    <3>5. w = applying[j]
      BY <1>1, <1>4, <2>6, <3>3, <3>4
    <3>6. j \in DOMAIN applying
      BY <1>2, <3>2
    <3> QED
      BY <2>8, <3>5, <3>6 DEF Applied
  <2> QED
    BY <2>7, <2>8
<1>5. CASE t[1] # w[1]
  <2>1. t[1] \in Ancestors[w[1]]
    BY <1>1, <1>5, HeaderAssumption DEF HappensBefore, NoHeader
  <2>2. t[1] \in Nodes
    BY <1>3, <2>1, AncestorsAreHeld
  <2> SUFFICES ASSUME NEW i \in DOMAIN applying, t = applying[i] PROVE FALSE
    BY <2>2 DEF Applied
  <2>3. i \in 1..Len(applying) /\ applying # <<>>
    BY <1>2
  <2>4. PICK h \in Nodes : ApplyingIsLastOf(h)
    BY <2>3 DEF ApplyingOK
  <2>5. t[1] = h /\ ChildrenIn(Nodes, h) = {}
    BY <2>3, <2>4 DEF ApplyingIsLastOf
  <2> QED
    BY <1>3, <2>1, <2>5, AncestorsAreHeld
<1> QED
  BY <1>4, <1>5

\* The operation whose turn it is is applied by the step, and no other.
LEMMA StepApplies ==
  ASSUME IInv, ApplyingOK, applying # <<>>, applying' = Tail(applying), UNCHANGED vars
  PROVE  /\ Head(applying) \in Carried \ Applied
         /\ Applied' = Applied \cup {Head(applying)}
         /\ ApplyingOK'
<1> DEFINE t == Head(applying)
           rest == Tail(applying)
<1>1. /\ applying \in Seq(Carried) /\ rest \in Seq(Carried) /\ t \in Carried
      /\ Len(applying) \in Nat \ {0} /\ Len(rest) = Len(applying) - 1
      /\ t = applying[1] /\ 1 \in DOMAIN applying
      /\ DOMAIN applying = 1..Len(applying) /\ DOMAIN rest = 1..Len(rest)
      /\ \A i \in 1..Len(rest) : rest[i] = applying[i + 1]
  BY DEF ApplyingOK
<1>2. PICK h \in Nodes : ApplyingIsLastOf(h)
  BY DEF ApplyingOK
<1>3. Nodes' = Nodes
  BY DEF vars, Nodes
<1>4. h \in HeaderId /\ Len(Operations[h]) \in Nat
  BY <1>2, CarriedFacts DEF IInv, TypeOK
<1>5. t[1] = h
  BY <1>1, <1>2 DEF ApplyingIsLastOf
<1>6. t \notin Applied
  BY <1>1 DEF Applied
<1>7. \A i \in 1..Len(rest) : rest[i] # t
  BY <1>1, <1>2, <1>4 DEF ApplyingIsLastOf
<1>8. Applied' = Applied \cup {t}
  <2>1. Applied' = {u \in Carried : u[1] \in Nodes /\ \A i \in DOMAIN rest : u # rest[i]}
    BY <1>3 DEF Applied
  <2>2. ASSUME NEW u \in Carried
        PROVE  (\A i \in DOMAIN rest : u # rest[i]) <=> u = t \/ \A i \in DOMAIN applying : u # applying[i]
    <3>1. ASSUME u # t, \A i \in DOMAIN rest : u # rest[i], NEW i \in DOMAIN applying
          PROVE  u # applying[i]
      <4>1. CASE i = 1
        BY <3>1, <4>1, <1>1
      <4>2. CASE i # 1
        <5>1. i - 1 \in 1..Len(rest) /\ rest[i - 1] = applying[i]
          BY <1>1, <4>2
        <5> QED
          BY <3>1, <5>1, <1>1
      <4> QED
        BY <4>1, <4>2
    <3>2. ASSUME \A i \in DOMAIN applying : u # applying[i], NEW i \in DOMAIN rest
          PROVE  u # rest[i]
      BY <3>2, <1>1
    <3> QED
      BY <3>1, <3>2, <1>1, <1>7
  <2> QED
    BY <2>1, <2>2, <1>1, <1>2, <1>5 DEF Applied
<1>9. ApplyingOK'
  <2>1. ApplyingIsLastOf(h)'
    BY <1>1, <1>2, <1>3, <1>4 DEF ApplyingIsLastOf, ChildrenIn
  <2> QED
    BY <2>1, <1>1, <1>2, <1>3 DEF ApplyingOK
<1> QED
  BY <1>1, <1>6, <1>8, <1>9

\* A header is accepted before any of its operations is applied, and a header
\* that is refused has none.
LEMMA AddHeaderApplies ==
  ASSUME CrdtInv, NEW h \in HeaderId, AddHeader(h)
  PROVE  /\ IInv' /\ ApplyingOK'
         /\ Applied' = Applied
<1> DEFINE ops == Operations[h]
<1>1. IInv'
  BY NextIInv DEF CrdtInv, AddHeader, Next
<1>2. applying = <<>>
  BY DEF AddHeader
<1>3. CASE Refuse(h)
  <2>1. Nodes' = Nodes /\ applying' = applying
    BY <1>2, <1>3 DEF Refuse, Nodes, AddHeader
  <2>2. Applied' = Applied
    BY <2>1 DEF Applied
  <2>3. ApplyingOK'
    BY <1>2, <2>1 DEF ApplyingOK
  <2> QED
    BY <1>1, <2>2, <2>3
<1>4. CASE InsertRoot(h) \/ InsertChild(h)
  <2>1. h \notin Nodes /\ Nodes' = Nodes \cup {h} /\ applying' = TimesOf(h)
    BY <1>4 DEF InsertRoot, InsertChild, Contains, AddHeader, Recorded, Nodes
  <2>2. Len(ops) \in Nat
    BY CarriedFacts
  <2>3. /\ applying' \in Seq(Carried) /\ Len(applying') = Len(ops)
        /\ DOMAIN applying' = 1..Len(ops)
        /\ \A i \in 1..Len(ops) : applying'[i] = <<h, i - 1>>
    BY <2>1, <2>2, CarriedFacts DEF TimesOf
  <2>4. ChildrenIn(Nodes', h) = {}
    <3>1. \A n \in Nodes : h \notin ParentIds[n]
      BY <2>1 DEF CrdtInv, IInv, CausallyClosed, ParentClosed
    <3>2. h \notin ParentIds[h]
      BY <1>4, <2>1 DEF InsertRoot, InsertChild, Contains
    <3> QED
      BY <2>1, <3>1, <3>2 DEF ChildrenIn
  <2>5. ApplyingOK'
    <3>1. ApplyingIsLastOf(h)'
      BY <2>2, <2>3, <2>4 DEF ApplyingIsLastOf
    <3> QED
      BY <2>1, <2>3, <3>1 DEF ApplyingOK
  <2>6. Applied' = Applied
    <3>1. \A u \in Carried : u \in Applied <=> u[1] \in Nodes
      BY <1>2 DEF Applied
    <3>2. ASSUME NEW u \in Carried, u[1] = h
          PROVE  u \notin Applied'
      <4>1. u[2] \in Nat /\ u[2] < Len(ops) /\ u = <<h, u[2]>>
        BY <3>2, CarriedFacts
      <4>2. \A n \in Nat : n < Len(ops) => applying'[n + 1] = <<h, n>> /\ n + 1 \in DOMAIN applying'
        BY <2>2, <2>3
      <4> QED
        BY <4>1, <4>2 DEF Applied
    <3>3. ASSUME NEW u \in Carried, u[1] # h
          PROVE  u \in Applied' <=> u[1] \in Nodes
      <4>1. \A i \in DOMAIN applying' : u # applying'[i]
        BY <2>3, <3>3
      <4> QED
        BY <2>1, <3>3, <4>1 DEF Applied
    <3>4. Applied \subseteq Carried /\ Applied' \subseteq Carried
      BY DEF Applied
    <3> QED
      BY <2>1, <3>1, <3>2, <3>3, <3>4
  <2> QED
    BY <1>1, <2>5, <2>6
<1> QED
  BY <1>3, <1>4 DEF AddHeader, InsertHeader

LEMMA AddHeaderStep ==
  ASSUME CrdtInv, NEW h \in HeaderId, AddHeader(h)
  PROVE  CrdtInv'
<1>1. IInv' /\ ApplyingOK' /\ Applied' = Applied /\ UNCHANGED <<map, tombstones>>
  BY AddHeaderApplies DEF AddHeader
<1>2. KeysInv'
  BY <1>1 DEF CrdtInv, KeysInv, Deleted, Inserted
<1>3. NothingOverwrittenIsShown' /\ RegistersConverge'
  BY <1>1 DEF CrdtInv, NothingOverwrittenIsShown, RegistersConverge, Writes
<1> QED
  BY <1>1, <1>2, <1>3 DEF CrdtInv

\* What a step of an operation t, whatever its kind, adds to what is applied.
LEMMA KindsApplied ==
  ASSUME NEW t \in Carried, Applied' = Applied \cup {t}
  PROVE  /\ Deleted' = Deleted \cup (IF IsDelete(t) THEN {KeyOf(t)} ELSE {})
         /\ Inserted' = Inserted \cup (IF IsInsert(t) THEN {t} ELSE {})
         /\ \A k : Writes(k)' = Writes(k) \cup (IF IsApply(t) /\ KeyOf(t) = k THEN {t} ELSE {})
  BY DEF Deleted, Inserted, Writes

\* No operation fails to find its key when its turn comes.
LEMMA HeadFindsItsKey ==
  ASSUME CrdtInv, applying # <<>>
  PROVE  FindsItsKey(Head(applying))
<1> DEFINE t == Head(applying)
<1>1. t \in Carried /\ t \notin Applied
  <2>1. applying \in Seq(Carried)
    BY DEF CrdtInv, ApplyingOK
  <2>2. t \in Carried /\ t = applying[1] /\ 1 \in DOMAIN applying
    BY <2>1
  <2> QED
    BY <2>2 DEF Applied
<1>2. CASE IsInsert(t)
  <2>1. KeyOf(t) = t /\ t \notin Inserted
    BY <1>1, <1>2, KeyFacts, CarriedFacts DEF Inserted
  <2> QED
    BY <1>2, <2>1 DEF CrdtInv, KeysInv, FindsItsKey
<1>3. CASE ~IsInsert(t)
  <2>1. KeyOf(t) \in InitialKey \/ (KeyOf(t) \in Applied /\ IsInsert(KeyOf(t)))
    BY <1>1, <1>3, KeyFacts, BeforeIsApplied DEF CrdtInv
  <2>2. KeyOf(t) \in Inserted
    BY <2>1 DEF Inserted
  <2> QED
    BY <1>3, <2>2 DEF CrdtInv, KeysInv, FindsItsKey
<1> QED
  BY <1>2, <1>3

\* A key that is inserted has not been written yet.
LEMMA NewKeyIsUnwritten ==
  ASSUME CrdtInv, NEW t \in Carried, t \notin Applied, IsInsert(t)
  PROVE  Writes(t) = {t}
<1> SUFFICES ASSUME NEW w \in Applied, KeyOf(w) = t, IsApply(w) PROVE FALSE
  BY DEF Writes
<1>1. w \in Carried
  BY DEF Applied
<1>2. ~IsInsert(w)
  BY <1>1, KindFacts
<1>3. HappensBefore(t, w)
  BY <1>1, <1>2, KeyFacts
<1> QED
  BY <1>1, <1>3, BeforeIsApplied DEF CrdtInv

\* The time of a write is its own, and none is before itself.
LEMMA WriteFacts ==
  /\ \A t \in Carried \cup InitialKey : ~HappensBefore(t, t)
  /\ \A k \in Inserted : Writes(k) \subseteq Carried \cup InitialKey
<1>1. \A t \in Carried \cup InitialKey : t[2] \in Nat
  BY CarriedFacts, OperationsAssumption
<1>2. \A t \in Carried \cup InitialKey : ~HappensBefore(t, t)
  BY <1>1 DEF HappensBefore
<1>3. \A k \in Inserted : Writes(k) \subseteq Carried \cup InitialKey
  BY DEF Inserted, Writes, Applied
<1> QED
  BY <1>2, <1>3

\* TwoPMap::apply keeps the keys and tombstones in step with what is applied.
LEMMA KeysStep ==
  ASSUME CrdtInv, NEW t \in Carried \ Applied, Applied' = Applied \cup {t},
         IgnoreDeleted(t) \/ InsertKey(t) \/ ApplyToKey(t) \/ DeleteKey(t)
  PROVE  KeysInv'
<1>1. /\ Deleted' = Deleted \cup (IF IsDelete(t) THEN {KeyOf(t)} ELSE {})
      /\ Inserted' = Inserted \cup (IF IsInsert(t) THEN {t} ELSE {})
  BY KindsApplied
<1>2. tombstones = Deleted /\ DOMAIN map = Inserted \ Deleted
  BY DEF CrdtInv, KeysInv
<1>3. CASE IgnoreDeleted(t)
  <2>1. KeyOf(t) \in Deleted /\ UNCHANGED <<map, tombstones>>
    BY <1>2, <1>3 DEF IgnoreDeleted
  <2>2. Deleted' = Deleted
    BY <1>1, <2>1
  <2>3. Inserted' \ Deleted = Inserted \ Deleted
    BY <1>1, <2>1, KeyFacts
  <2> QED
    BY <1>2, <2>1, <2>2, <2>3 DEF KeysInv
<1>4. CASE InsertKey(t)
  <2>1. ~IsDelete(t) /\ KeyOf(t) = t /\ IsInsert(t)
    BY <1>4, KindFacts, KeyFacts DEF InsertKey
  <2>2. t \notin Deleted /\ DOMAIN map' = DOMAIN map \cup {t} /\ tombstones' = tombstones
    BY <1>2, <1>4, <2>1 DEF InsertKey
  <2> QED
    BY <1>1, <1>2, <2>1, <2>2 DEF KeysInv
<1>5. CASE ApplyToKey(t)
  <2>1. ~IsDelete(t) /\ ~IsInsert(t) /\ DOMAIN map' = DOMAIN map /\ tombstones' = tombstones
    BY <1>5, KindFacts DEF ApplyToKey
  <2> QED
    BY <1>1, <1>2, <2>1 DEF KeysInv
<1>6. CASE DeleteKey(t)
  <2>1. /\ IsDelete(t) /\ ~IsInsert(t)
        /\ DOMAIN map' = DOMAIN map \ {KeyOf(t)} /\ tombstones' = tombstones \cup {KeyOf(t)}
    BY <1>6, KindFacts DEF DeleteKey
  <2> QED
    BY <1>1, <1>2, <2>1 DEF KeysInv
<1> QED
  BY <1>3, <1>4, <1>5, <1>6

\* What the registers that an operation leaves alone rely on does not change.
LEMMA OthersUnchanged ==
  ASSUME CrdtInv, NEW t \in Carried \ Applied, Applied' = Applied \cup {t},
         IgnoreDeleted(t) \/ InsertKey(t) \/ ApplyToKey(t) \/ DeleteKey(t),
         NEW k \in DOMAIN map', ~(IsInsert(t) /\ k = t), ~(IsApply(t) /\ KeyOf(t) = k)
  PROVE  k \in DOMAIN map /\ map'[k] = map[k] /\ Writes(k)' = Writes(k)
<1>1. Writes(k)' = Writes(k)
  BY KindsApplied
<1>2. CASE IgnoreDeleted(t)
  BY <1>1, <1>2 DEF IgnoreDeleted
<1>3. CASE InsertKey(t)
  <2>1. KeyOf(t) = t /\ IsInsert(t)
    BY <1>3, KeyFacts DEF InsertKey
  <2> QED
    BY <1>1, <1>3, <2>1 DEF InsertKey
<1>4. CASE ApplyToKey(t)
  BY <1>1, <1>4 DEF ApplyToKey
<1>5. CASE DeleteKey(t)
  BY <1>1, <1>5 DEF DeleteKey
<1> QED
  BY <1>2, <1>3, <1>4, <1>5

\* LWW::apply: the register shows the new write, or one that it comes before.
LEMMA RegisterStep ==
  ASSUME CrdtInv, NEW t \in Carried \ Applied, Applied' = Applied \cup {t},
         ApplyToKey(t)
  PROVE  LET k == KeyOf(t)
         IN  /\ k \in DOMAIN map /\ Writes(k)' = Writes(k) \cup {t}
             /\ map[k] \in Writes(k)
             /\ map'[k] = IF Precedes(map[k], t) THEN t ELSE map[k]
             /\ map[k] # t /\ \A w \in Writes(k) : w \in Carried \cup InitialKey
             /\ \A w \in Writes(k) : ~HappensBefore(t, w)
<1> DEFINE k == KeyOf(t)
<1>1. IsApply(t) /\ ~IsInsert(t) /\ k \in DOMAIN map
      /\ map'[k] = IF Precedes(map[k], t) THEN t ELSE map[k]
  BY KindFacts DEF ApplyToKey
<1>2. map[k] \in Writes(k) /\ k \in Inserted
  BY <1>1 DEF CrdtInv, NothingOverwrittenIsShown, KeysInv
<1>3. Writes(k)' = Writes(k) \cup {t}
  BY <1>1, KindsApplied
<1>4. \A w \in Writes(k) : w \in Carried \cup InitialKey
  BY <1>2, WriteFacts
<1>5. t \notin Writes(k)
  BY <1>1, CarriedFacts, KeyFacts, WriteFacts DEF Writes
<1>6. ASSUME NEW w \in Writes(k), HappensBefore(t, w)
      PROVE  FALSE
  <2>1. CASE w \in Applied
    <3>1. w \in Carried
      BY <2>1 DEF Applied
    <3> QED
      BY <1>6, <2>1, <3>1, BeforeIsApplied DEF CrdtInv
  <2>2. CASE w = k /\ k \in InitialKey
    <3>1. k[1] = NoHeader /\ t[1] \in Nat
      BY <2>2, OperationsAssumption, CarriedFacts
    <3> QED
      BY <1>6, <2>2, <3>1 DEF HappensBefore, NoHeader
  <2>3. CASE w = k /\ k \in Applied
    BY <2>1, <2>3
  <2> QED
    BY <1>2, <2>1, <2>2, <2>3 DEF Writes, Inserted
<1> QED
  BY <1>1, <1>2, <1>3, <1>4, <1>5, <1>6

\* Only the register of a key inserted or written to can change.
LEMMA WhichRegister ==
  ASSUME CrdtInv, NEW t \in Carried,
         IgnoreDeleted(t) \/ InsertKey(t) \/ ApplyToKey(t) \/ DeleteKey(t),
         NEW k \in DOMAIN map'
  PROVE  \/ InsertKey(t) /\ k = t
         \/ ApplyToKey(t) /\ KeyOf(t) = k
         \/ ~(IsInsert(t) /\ k = t) /\ ~(IsApply(t) /\ KeyOf(t) = k)
<1>1. CASE IgnoreDeleted(t)
  <2>1. KeyOf(t) \notin DOMAIN map'
    BY <1>1 DEF IgnoreDeleted, CrdtInv, KeysInv
  <2> QED
    BY <2>1, KeyFacts
<1>2. CASE DeleteKey(t)
  BY <1>2, KindFacts DEF DeleteKey
<1>3. CASE InsertKey(t)
  BY <1>3, KindFacts DEF InsertKey
<1>4. CASE ApplyToKey(t)
  BY <1>4, KindFacts DEF ApplyToKey
<1> QED
  BY <1>1, <1>2, <1>3, <1>4

LEMMA OverwrittenStep ==
  ASSUME CrdtInv, NEW t \in Carried \ Applied, Applied' = Applied \cup {t},
         IgnoreDeleted(t) \/ InsertKey(t) \/ ApplyToKey(t) \/ DeleteKey(t),
         NEW k \in DOMAIN map'
  PROVE  map'[k] \in Writes(k)' /\ \A w \in Writes(k)' : ~HappensBefore(map'[k], w)
<1>1. CASE ~(IsInsert(t) /\ k = t) /\ ~(IsApply(t) /\ KeyOf(t) = k)
  BY <1>1, OthersUnchanged DEF CrdtInv, NothingOverwrittenIsShown
<1>2. CASE InsertKey(t) /\ k = t
  <2>1. IsInsert(t) /\ ~IsApply(t) /\ map'[k] = t
    BY <1>2, KindFacts, KeyFacts DEF InsertKey
  <2>2. Writes(k)' = {t}
    BY <1>2, <2>1, KindsApplied, NewKeyIsUnwritten
  <2> QED
    BY <2>1, <2>2, WriteFacts
<1>3. CASE ApplyToKey(t) /\ KeyOf(t) = k
  <2>1. CASE Precedes(map[k], t)
    BY <1>3, <2>1, RegisterStep, WriteFacts
  <2>2. CASE ~Precedes(map[k], t)
    <3>1. ~HappensBefore(map[k], t)
      BY <2>2 DEF Precedes
    <3>2. \A w \in Writes(k) : ~HappensBefore(map[k], w)
      BY <1>3, RegisterStep DEF CrdtInv, NothingOverwrittenIsShown
    <3> QED
      BY <1>3, <2>2, <3>1, <3>2, RegisterStep
  <2> QED
    BY <2>1, <2>2
<1> QED
  BY <1>1, <1>2, <1>3, WhichRegister

LEMMA ConvergeStep ==
  ASSUME CrdtInv, NEW t \in Carried \ Applied, Applied' = Applied \cup {t},
         IgnoreDeleted(t) \/ InsertKey(t) \/ ApplyToKey(t) \/ DeleteKey(t),
         NEW k \in DOMAIN map', IsTransitive(Writes(k)'),
         NEW w \in Writes(k)' \ {map'[k]}
  PROVE  Precedes(w, map'[k])
<1>1. CASE ~(IsInsert(t) /\ k = t) /\ ~(IsApply(t) /\ KeyOf(t) = k)
  BY <1>1, OthersUnchanged DEF CrdtInv, RegistersConverge
<1>2. CASE InsertKey(t) /\ k = t
  <2>1. IsInsert(t) /\ ~IsApply(t) /\ map'[k] = t
    BY <1>2, KindFacts, KeyFacts DEF InsertKey
  <2> QED
    BY <1>2, <2>1, KindsApplied, NewKeyIsUnwritten
<1>3. CASE ApplyToKey(t) /\ KeyOf(t) = k
  <2> DEFINE m == map[k]
  <2>1. /\ k \in DOMAIN map /\ Writes(k)' = Writes(k) \cup {t} /\ m \in Writes(k)
        /\ map'[k] = (IF Precedes(m, t) THEN t ELSE m) /\ m # t /\ m \in Carried \cup InitialKey
    BY <1>3, RegisterStep
  <2>2. \A v \in Writes(k) \ {m} : Precedes(v, m)
    <3>1. IsTransitive(Writes(k))
      BY <2>1 DEF IsTransitive
    <3> QED
      BY <2>1, <3>1 DEF CrdtInv, RegistersConverge
  <2> HIDE DEF m
  <2>3. CASE Precedes(m, t)
    <3>1. w \in Writes(k)
      BY <2>1, <2>3
    <3>2. CASE w = m
      BY <2>1, <2>3, <3>2
    <3>3. CASE w # m
      <4>1. Precedes(w, m)
        BY <2>2, <3>1, <3>3
      <4> QED
        BY <2>1, <2>3, <3>1, <4>1 DEF IsTransitive
    <3> QED
      BY <3>2, <3>3
  <2>4. CASE ~Precedes(m, t)
    <3>1. Precedes(t, m)
      BY <2>1, <2>4, PrecedesIsTotal
    <3> QED
      BY <2>1, <2>2, <2>4, <3>1
  <2> QED
    BY <2>3, <2>4
<1> QED
  BY <1>1, <1>2, <1>3, WhichRegister

LEMMA ApplyOperationStep ==
  ASSUME CrdtInv, ApplyOperation
  PROVE  CrdtInv'
<1> DEFINE t == Head(applying)
<1>1. /\ applying # <<>> /\ applying' = Tail(applying) /\ UNCHANGED vars
      /\ IgnoreDeleted(t) \/ InsertKey(t) \/ ApplyToKey(t) \/ DeleteKey(t)
  BY DEF ApplyOperation
<1>2. t \in Carried \ Applied /\ Applied' = Applied \cup {t} /\ ApplyingOK'
  BY <1>1, StepApplies DEF CrdtInv
<1>3. IInv'
  BY <1>1, NextIInv DEF CrdtInv
<1> HIDE DEF t
<1>4. KeysInv'
  BY <1>1, <1>2, KeysStep
<1>5. NothingOverwrittenIsShown'
  BY <1>1, <1>2, OverwrittenStep DEF NothingOverwrittenIsShown
<1>6. RegistersConverge'
  <2> SUFFICES ASSUME NEW k \in DOMAIN map', IsTransitive(Writes(k))',
                      NEW w \in Writes(k)' \ {map'[k]}
               PROVE  Precedes(w, map'[k])
    BY DEF RegistersConverge
  <2>1. IsTransitive(Writes(k)')
    OBVIOUS
  <2> QED
    BY <1>1, <1>2, <2>1, ConvergeStep
<1> QED
  BY <1>2, <1>3, <1>4, <1>5, <1>6 DEF CrdtInv

LEMMA InitCrdtInv == CrdtInit => CrdtInv
<1> SUFFICES ASSUME CrdtInit PROVE CrdtInv
  OBVIOUS
<1>1. IInv
  BY InitIInv DEF CrdtInit
<1>2. ApplyingOK
  BY DEF CrdtInit, ApplyingOK
<1>3. Applied = {}
  BY DEF CrdtInit, Init, Applied, Nodes
<1>4. DOMAIN map = InitialKey /\ tombstones = {} /\ \A k \in InitialKey : map[k] = k
  BY DEF CrdtInit, InitialMap
<1>5. KeysInv
  BY <1>3, <1>4 DEF KeysInv, Deleted, Inserted
<1>6. \A k \in InitialKey : Writes(k) = {k}
  BY <1>3 DEF Writes
<1>7. NothingOverwrittenIsShown
  BY <1>4, <1>6, WriteFacts DEF NothingOverwrittenIsShown
<1>8. RegistersConverge
  BY <1>4, <1>6 DEF RegistersConverge
<1> QED
  BY <1>1, <1>2, <1>5, <1>7, <1>8 DEF CrdtInv

LEMMA NextCrdtInv == CrdtInv /\ [CrdtNext]_crdtVars => CrdtInv'
<1> SUFFICES ASSUME CrdtInv, [CrdtNext]_crdtVars PROVE CrdtInv'
  OBVIOUS
<1>1. CASE ApplyOperation
  BY <1>1, ApplyOperationStep
<1>2. ASSUME NEW h \in HeaderId, AddHeader(h) PROVE CrdtInv'
  BY <1>2, AddHeaderStep
<1>3. CASE UNCHANGED crdtVars
  <2>1. UNCHANGED <<vars, map, tombstones, applying>>
    BY <1>3 DEF crdtVars, valueVars
  <2>2. IInv' /\ Nodes' = Nodes
    BY <2>1, NextIInv DEF CrdtInv, vars, Nodes
  <2>3. Applied' = Applied
    BY <2>1, <2>2 DEF Applied
  <2>4. ApplyingOK'
    BY <2>1, <2>2 DEF CrdtInv, ApplyingOK, ApplyingIsLastOf
  <2>5. KeysInv'
    BY <2>1, <2>3 DEF CrdtInv, KeysInv, Deleted, Inserted
  <2>6. NothingOverwrittenIsShown' /\ RegistersConverge'
    BY <2>1, <2>3 DEF CrdtInv, NothingOverwrittenIsShown, RegistersConverge, Writes
  <2> QED
    BY <2>2, <2>4, <2>5, <2>6 DEF CrdtInv
<1> QED
  BY <1>1, <1>2, <1>3 DEF CrdtNext

LEMMA AlwaysCrdtInv == CrdtSpec => []CrdtInv
  BY InitCrdtInv, NextCrdtInv, PTL DEF CrdtSpec
-----------------------------------------------------------------------------
\* Whatever the order in which headers come, the keys of the map and its
\* tombstones are what the set of operations applied says, and no operation
\* that TwoPMap::apply is given fails to find its key (its unreachable!).
THEOREM CrdtKeysAreDetermined == CrdtSpec => []KeysAreDetermined
<1>1. CrdtInv => KeysAreDetermined
  BY HeadFindsItsKey DEF CrdtInv, KeysInv, KeysAreDetermined
<1> QED
  BY <1>1, AlwaysCrdtInv, PTL

\* LWW::apply never lets a register show a write that another one applied was
\* made knowing of.
THEOREM CrdtNothingOverwrittenIsShown == CrdtSpec => []NothingOverwrittenIsShown
<1>1. CrdtInv => NothingOverwrittenIsShown
  BY DEF CrdtInv
<1> QED
  BY <1>1, AlwaysCrdtInv, PTL

\* Where compare_with_tiebreak is transitive, a register shows the last of its
\* writes, in whatever order they were applied.
THEOREM CrdtRegistersConverge == CrdtSpec => []RegistersConverge
<1>1. CrdtInv => RegistersConverge
  BY DEF CrdtInv
<1> QED
  BY <1>1, AlwaysCrdtInv, PTL
=============================================================================
