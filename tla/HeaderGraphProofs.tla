-------------------------- MODULE HeaderGraphProofs --------------------------
(***************************************************************************)
(* Facts about sets of headers (module HeaderGraph) and about the loops    *)
(* that go through them, for every set of headers and every acyclic way    *)
(* of naming parents.  Loops are recursive functions; the lemmas on them   *)
(* take sets where induction would take a predicate.                       *)
(***************************************************************************)
EXTENDS HeaderGraph, TLAPS, FiniteSetTheorems, WellFoundedInduction

\* A non-empty set of numbers has a least element, and Least is it.
LEMMA LeastIsMember ==
  ASSUME NEW N \in SUBSET Nat, N # {}
  PROVE  Least(N) \in N /\ \A m \in N : Least(N) <= m
<1>1. PICK n \in N : \A m \in N : ~(<<m, n>> \in OpToRel(<, Nat))
  BY NatLessThanWellFounded, WFMin, Zenon
<1>2. ASSUME NEW m \in N
      PROVE  n <= m
  <2>1. ~(m < n)
    BY <1>1 DEF OpToRel
  <2> QED
    BY <2>1
<1> QED
  BY <1>2 DEF Least

\* Induction over the numbers, for a set.
LEMMA NumbersBySteps ==
  ASSUME NEW D \in SUBSET Nat, 0 \in D, \A n \in D : n + 1 \in D
  PROVE  D = Nat
<1> SUFFICES ASSUME Nat \ D # {} PROVE FALSE
  OBVIOUS
<1> DEFINE m == Least(Nat \ D)
<1>1. m \in Nat \ D /\ \A n \in Nat \ D : m <= n
  BY LeastIsMember
<1> HIDE DEF m
<1>2. m - 1 \in Nat
  BY <1>1
<1>3. m - 1 \in D
  BY <1>1, <1>2
<1>4. (m - 1) + 1 \in D
  BY <1>3
<1> QED
  BY <1>1, <1>2, <1>4

\* The same over the numbers up to N.
LEMMA StepsUpTo ==
  ASSUME NEW N \in Nat, NEW D, 0 \in D, \A n \in D : n \in 0 .. N - 1 => n + 1 \in D
  PROVE  0 .. N \subseteq D
<1> DEFINE E == {n \in Nat : n <= N => n \in D}
<1>1. 0 \in E
  OBVIOUS
<1>2. \A n \in E : n + 1 \in E
  OBVIOUS
<1>3. E = Nat
  <2> HIDE DEF E
  <2>1. E \in SUBSET Nat
    BY DEF E
  <2> QED
    BY <1>1, <1>2, <2>1, NumbersBySteps
<1> QED
  BY <1>3

\* A non-empty family of subsets of a finite set has a member that no other
\* of its members contains.
LEMMA MaximalMember ==
  ASSUME NEW E, IsFiniteSet(E), NEW F \in SUBSET (SUBSET E), F # {}
  PROVE  \E T \in F : \A U \in F : T \subseteq U => U = T
<1> DEFINE R == StrictSubsetOrdering(E)
           C == {E \ T : T \in F}
<1>1. IsWellFoundedOn(R, SUBSET E)
  BY FS_StrictSubsetOrderingWellFounded, FS_FiniteSubsetsOfFinite
<1>2. C \subseteq SUBSET E /\ C # {}
  <2>1. PICK T : T \in F
    OBVIOUS
  <2>2. E \ T \in C
    BY <2>1
  <2>3. \A Y \in C : Y \in SUBSET E
    OBVIOUS
  <2> QED
    BY <2>2, <2>3
<1> HIDE DEF R, C
<1>3. PICK X \in C : \A Y \in C : ~(<<Y, X>> \in R)
  BY <1>1, <1>2, WFMin, Zenon
<1>4. PICK T \in F : X = E \ T
  BY DEF C
<1>5. ASSUME NEW U \in F, T \subseteq U PROVE U = T
  <2>1. E \ U \in C
    BY DEF C
  <2>2. ~(<<E \ U, E \ T>> \in R)
    BY <1>3, <1>4, <2>1
  <2>3. E \ U \in SUBSET E /\ E \ T \in SUBSET E
    OBVIOUS
  <2>4. ~(E \ U \subseteq E \ T /\ E \ U # E \ T)
    BY <2>2, <2>3 DEF R, StrictSubsetOrdering
  <2> QED
    BY <1>5, <2>4
<1> QED
  BY <1>5

\* Finitely many numbers have a common bound.
LEMMA CommonBound ==
  ASSUME NEW E, IsFiniteSet(E), NEW b \in [E -> Nat]
  PROVE  \E B \in Nat : \A e \in E : b[e] <= B
<1> DEFINE F == {T \in SUBSET E : \E B \in Nat : \A e \in T : b[e] <= B}
<1>1. {} \in F
  OBVIOUS
<1>2. PICK T \in F : \A U \in F : T \subseteq U => U = T
  <2>1. F \in SUBSET (SUBSET E) /\ F # {}
    BY <1>1
  <2> HIDE DEF F
  <2> QED
    BY <2>1, MaximalMember
<1>3. PICK B \in Nat : \A e \in T : b[e] <= B
  BY <1>2
<1>4. ASSUME NEW e \in E, e \notin T PROVE FALSE
  <2> DEFINE U == T \cup {e}
             top == IF b[e] <= B THEN B ELSE b[e]
  <2>1. top \in Nat /\ \A x \in U : b[x] <= top
    BY <1>2, <1>3
  <2>2. U \in F
    BY <1>2, <2>1
  <2> QED
    BY <1>2, <1>4, <2>2
<1> QED
  BY <1>3, <1>4
-----------------------------------------------------------------------------
\* Nothing spawns itself, however indirectly.
Acyclic(E, Spawn) == \A D \in SUBSET E : D # {} => \E e \in D : \A c \in D : e \notin Spawn[c]

\* taken[n] is taken out of q[n], and puts in members of Spawn[taken[n]] at most.
TakesAndSpawns(E, Spawn, q, taken) ==
  \A n \in Nat : \A e \in E : e \notin Spawn[taken[n]] =>
    /\ q[n + 1][e] <= q[n][e]
    /\ e = taken[n] => q[n + 1][e] < q[n][e]

\* A queue that elements are taken out of again and again runs dry.
LEMMA QueueRunsDry ==
  ASSUME NEW E, IsFiniteSet(E), NEW Spawn, Acyclic(E, Spawn),
         NEW q \in [Nat -> [E -> Nat]], NEW taken \in [Nat -> E],
         TakesAndSpawns(E, Spawn, q, taken)
  PROVE  FALSE
<1> DEFINE Often == {e \in E : \A n \in Nat : \E m \in Nat : n <= m /\ taken[m] = e}
           last == [e \in E |-> IF e \in Often THEN 0
                                ELSE CHOOSE n \in Nat : \A m \in Nat : n <= m => taken[m] # e]
<1>1. /\ last \in [E -> Nat]
      /\ \A e \in E \ Often : \A m \in Nat : last[e] <= m => taken[m] # e
  <2>1. \A e \in E \ Often : \E n \in Nat : \A m \in Nat : n <= m => taken[m] # e
    OBVIOUS
  <2>2. \A e \in E \ Often : /\ last[e] \in Nat
                             /\ \A m \in Nat : last[e] <= m => taken[m] # e
    BY <2>1
  <2> QED
    BY <2>2
<1> HIDE DEF last
<1>2. PICK B \in Nat : \A e \in E : last[e] <= B
  BY <1>1, CommonBound
<1>3. \A m \in Nat : B <= m => taken[m] \in Often
  <2> SUFFICES ASSUME NEW m \in Nat, B <= m, taken[m] \notin Often PROVE FALSE
    OBVIOUS
  <2>1. taken[m] \in E \ Often
    OBVIOUS
  <2>2. last[taken[m]] \in Nat /\ last[taken[m]] <= B
    BY <1>1, <1>2, <2>1
  <2>3. last[taken[m]] <= m
    <3>1. B \in Nat /\ B <= m
      BY <1>2
    <3> DEFINE k == last[taken[m]]
    <3>2. k \in Nat /\ k <= B
      BY <2>2
    <3> HIDE DEF k
    <3>3. k <= m
      BY <3>1, <3>2
    <3> QED
      BY <3>3 DEF k
  <2> QED
    BY <1>1, <2>1, <2>3
<1>4. PICK e \in Often : \A c \in Often : e \notin Spawn[c]
  <2>1. Often # {} /\ Often \in SUBSET E
    <3>1. taken[B] \in Often
      <4> HIDE DEF Often
      <4> QED
        BY <1>2, <1>3
    <3> QED
      BY <3>1
  <2> HIDE DEF Often
  <2> QED
    BY <2>1 DEF Acyclic
<1> DEFINE at(n) == q[n][e]
<1>5. e \in E /\ \A n \in Nat : at(n) \in Nat
  OBVIOUS
<1>6. \A n \in Nat : B <= n => at(n + 1) <= at(n) /\ (e = taken[n] => at(n + 1) < at(n))
  BY <1>3, <1>4, <1>5 DEF TakesAndSpawns
<1>7. \A n \in Nat : \E m \in Nat : n <= m /\ taken[m] = e
  BY <1>4
<1> HIDE DEF at, Often
<1> DEFINE V == {at(n) : n \in {k \in Nat : B <= k}}
<1>8. V \in SUBSET Nat /\ V # {}
  <2>1. at(B) \in V
    BY <1>2
  <2> QED
    BY <1>5, <2>1
<1>9. PICK n \in Nat : B <= n /\ at(n) = Least(V)
  <2>1. Least(V) \in V
    <3> HIDE DEF V
    <3> QED
      BY <1>8, LeastIsMember
  <2> QED
    BY <2>1
<1> DEFINE D == {k \in Nat : at(n + k) <= at(n)}
<1>10. 0 \in D
  BY <1>5
<1>11. ASSUME NEW k \in D PROVE k + 1 \in D
  <2>1. n + k \in Nat /\ B <= n + k /\ n + (k + 1) = (n + k) + 1 /\ (n + k) + 1 \in Nat
    BY <1>2, <1>9
  <2>2. at((n + k) + 1) <= at(n + k)
    BY <1>6, <2>1
  <2>3. at(n) \in Nat /\ at(n + k) \in Nat /\ at((n + k) + 1) \in Nat
    BY <1>5, <1>9, <2>1
  <2> QED
    BY <2>1, <2>2, <2>3
<1>12. D = Nat
  <2> D \in SUBSET Nat
    OBVIOUS
  <2> HIDE DEF D
  <2> QED
    BY <1>10, <1>11, NumbersBySteps
<1>13. PICK m \in Nat : n <= m /\ taken[m] = e
  BY <1>7
<1>14. m - n \in Nat /\ n + (m - n) = m /\ B <= m
  BY <1>2, <1>9, <1>13
<1>15. at(m) <= at(n)
  <2>1. m - n \in D
    BY <1>12, <1>14
  <2> QED
    BY <2>1, <1>14
<1>16. at(m + 1) < at(m) /\ m + 1 \in Nat /\ B <= m + 1
  BY <1>2, <1>6, <1>13, <1>14
<1>17. Least(V) <= at(m + 1)
  <2>1. at(m + 1) \in V
    BY <1>16
  <2> HIDE DEF V
  <2> QED
    BY <1>8, <2>1, LeastIsMember
<1> QED
  BY <1>5, <1>9, <1>15, <1>16, <1>17
-----------------------------------------------------------------------------
\* A loop as a function: it goes from s by step until it is Done.
IsLoop(f, S, Done, step) == f = [s \in S |-> IF s \in Done THEN s ELSE f[step[s]]]

\* No run of the loop that stays in P goes on for ever.
LoopEndsIn(P, Done, step) ==
  ~ \E run \in [Nat -> P] : \A n \in Nat : run[n] \notin Done /\ run[n + 1] = step[run[n]]

\* A loop is a function that exists, whether it ends or not: let it give the
\* same result for all states from which the same end is reached.
LEMMA LoopIsDefined ==
  ASSUME NEW S, NEW Done, NEW step \in [S -> S]
  PROVE  \E f : IsLoop(f, S, Done, step)
<1> DEFINE Closed(C) == \A x \in C : x \notin Done => step[x] \in C
           reach == [s \in S |-> {t \in S : \A C \in SUBSET S : s \in C /\ Closed(C) => t \in C}]
           f == [s \in S |-> CHOOSE d \in Done \cap reach[s] : TRUE]
<1>1. \A s \in S : reach[s] \in SUBSET S /\ s \in reach[s] /\ Closed(reach[s])
  OBVIOUS
<1>2. \A s \in S : \A C \in SUBSET S : s \in C /\ Closed(C) => reach[s] \subseteq C
  OBVIOUS
<1>3. \A s \in S : f[s] = CHOOSE d \in Done \cap reach[s] : TRUE
  OBVIOUS
<1>4. f = [s \in S |-> f[s]]
  OBVIOUS
<1> HIDE DEF reach, f
<1>5. ASSUME NEW s \in S, s \in Done PROVE f[s] = s
  <2>1. {s} \in SUBSET S /\ Closed({s})
    BY <1>5
  <2>2. reach[s] \subseteq {s}
    BY <1>2, <2>1
  <2>3. reach[s] = {s}
    BY <1>1, <2>2
  <2>4. f[s] = CHOOSE d \in Done \cap {s} : TRUE
    BY <1>3, <2>3
  <2> QED
    BY <1>5, <2>4
<1>6. ASSUME NEW s \in S, s \notin Done PROVE f[s] = f[step[s]]
  <2>1. step[s] \in S
    OBVIOUS
  <2>2. reach[step[s]] \subseteq reach[s]
    <3>1. step[s] \in reach[s]
      BY <1>1, <1>6
    <3> QED
      BY <1>1, <1>2, <2>1, <3>1
  <2>3. reach[s] \subseteq {s} \cup reach[step[s]]
    <3> DEFINE C == {s} \cup reach[step[s]]
    <3>1. C \in SUBSET S /\ s \in C
      BY <1>1, <2>1
    <3>2. Closed(C)
      BY <1>1, <2>1
    <3> HIDE DEF C
    <3>3. reach[s] \subseteq C
      BY <1>2, <3>1, <3>2
    <3> QED
      BY <3>3 DEF C
  <2>4. Done \cap reach[s] = Done \cap reach[step[s]]
    BY <1>6, <2>2, <2>3
  <2> QED
    BY <1>3, <2>1, <2>4
<1>7. f = [s \in S |-> IF s \in Done THEN s ELSE f[step[s]]]
  BY <1>4, <1>5, <1>6
<1> QED
  BY <1>7 DEF IsLoop

\* What each step keeps, and that the loop has ended, holds of its result.
LEMMA LoopResult ==
  ASSUME NEW S, NEW Done, NEW step, NEW f, IsLoop(f, S, Done, step),
         NEW P \in SUBSET S, \A s \in P : s \notin Done => step[s] \in P,
         LoopEndsIn(P, Done, step)
  PROVE  \A s \in P : f[s] \in P /\ f[s] \in Done
<1> DEFINE R == {p \in P \X P : p[2] \notin Done /\ p[1] = step[p[2]]}
           T == {s \in P : ~(f[s] \in P /\ f[s] \in Done)}
<1>1. IsWellFoundedOn(R, P)
  <2> SUFFICES ASSUME NEW run \in [Nat -> P], \A n \in Nat : <<run[n + 1], run[n]>> \in R
               PROVE  FALSE
    BY DEF IsWellFoundedOn
  <2>1. \A n \in Nat : run[n] \notin Done /\ run[n + 1] = step[run[n]]
    OBVIOUS
  <2> QED
    BY <2>1 DEF LoopEndsIn
<1>2. \A s \in S : f[s] = IF s \in Done THEN s ELSE f[step[s]]
  BY DEF IsLoop
<1> SUFFICES ASSUME T # {} PROVE FALSE
  OBVIOUS
<1>3. T \subseteq P
  OBVIOUS
<1> HIDE DEF R
<1>4. PICK x \in T : \A y \in T : ~(<<y, x>> \in R)
  <2> HIDE DEF T
  <2> QED
    BY <1>1, <1>3, WFMin, Zenon
<1>5. x \notin Done
  BY <1>2
<1>6. step[x] \in P /\ f[x] = f[step[x]]
  BY <1>2, <1>5
<1>7. step[x] \in T
  BY <1>6
<1>8. <<step[x], x>> \in R
  BY <1>5, <1>6 DEF R
<1> QED
  BY <1>4, <1>7, <1>8

\* A function defined from one number to the next exists.
IsCount(f, N, start, step) == f = [n \in 0 .. N |-> IF n = 0 THEN start ELSE step[<<n, f[n - 1]>>]]
LEMMA CountedIsDefined ==
  ASSUME NEW N \in Nat, NEW T, NEW start \in T, NEW step \in [(1 .. N) \X T -> T]
  PROVE  \E f \in [0 .. N -> T] : IsCount(f, N, start, step)
<1> DEFINE Good(M, g) == /\ g \in [0 .. M -> T] /\ g[0] = start
                         /\ \A n \in 1 .. M : g[n] = step[<<n, g[n - 1]>>]
           D == {M \in 0 .. N : \E g : Good(M, g)}
<1>1. 0 \in D
  <2>1. Good(0, [n \in 0 .. 0 |-> start])
    OBVIOUS
  <2> HIDE DEF Good
  <2> QED
    BY <2>1
<1>2. ASSUME NEW M \in D, M \in 0 .. N - 1 PROVE M + 1 \in D
  <2>1. PICK g : Good(M, g)
    OBVIOUS
  <2> DEFINE h == [n \in 0 .. M + 1 |-> IF n = M + 1 THEN step[<<M + 1, g[M]>>] ELSE g[n]]
  <2>2. M \in Nat /\ M + 1 \in 1 .. N /\ M \in 0 .. M
    BY <1>2
  <2>3. g[M] \in T
    BY <2>1, <2>2
  <2>4. step[<<M + 1, g[M]>>] \in T
    BY <2>2, <2>3
  <2>5. h \in [0 .. M + 1 -> T]
    BY <2>1, <2>2, <2>4
  <2>6. h[0] = start
    BY <2>1, <2>2
  <2>7. ASSUME NEW n \in 1 .. M + 1 PROVE h[n] = step[<<n, h[n - 1]>>]
    <3>1. CASE n = M + 1
      <4>1. n - 1 = M /\ h[n - 1] = g[M] /\ h[n] = step[<<M + 1, g[M]>>]
        BY <2>2, <3>1
      <4> QED
        BY <3>1, <4>1
    <3>2. CASE n # M + 1
      <4>1. n \in 1 .. M /\ n - 1 \in 0 .. M + 1 /\ n - 1 # M + 1 /\ n \in 0 .. M + 1
        BY <2>2, <3>2
      <4>2. h[n] = g[n] /\ h[n - 1] = g[n - 1]
        BY <3>2, <4>1
      <4> QED
        BY <2>1, <4>1, <4>2
    <3> QED
      BY <3>1, <3>2
  <2>8. Good(M + 1, h)
    <3> HIDE DEF h
    <3> QED
      BY <2>5, <2>6, <2>7
  <2> HIDE DEF Good, h
  <2> QED
    BY <2>2, <2>8
<1>3. N \in D
  <2> HIDE DEF D
  <2>1. 0 .. N \subseteq D
    BY <1>1, <1>2, StepsUpTo
  <2> QED
    BY <2>1
<1>4. PICK g : Good(N, g)
  BY <1>3
<1>5. g = [n \in 0 .. N |-> IF n = 0 THEN start ELSE step[<<n, g[n - 1]>>]]
  BY <1>4
<1>6. g \in [0 .. N -> T]
  BY <1>4
<1> HIDE DEF Good
<1> QED
  BY <1>5, <1>6 DEF IsCount
-----------------------------------------------------------------------------
\* Ancestors are what can be reached by going from parents to their parents.
LEMMA AncestorsAreClosed ==
  ASSUME NEW h \in HeaderId
  PROVE  /\ Ancestors[h] \in SUBSET HeaderId
         /\ ParentIds[h] \subseteq Ancestors[h]
         /\ ParentClosed(Ancestors[h])
BY HeaderAssumption DEF Ancestors, ParentClosed

LEMMA AncestorsAreLeast ==
  ASSUME NEW h \in HeaderId, NEW S \in SUBSET HeaderId, ParentIds[h] \subseteq S, ParentClosed(S)
  PROVE  Ancestors[h] \subseteq S
BY DEF Ancestors

LEMMA AncestorsOfAncestors ==
  ASSUME NEW h \in HeaderId, NEW a \in Ancestors[h]
  PROVE  a \in HeaderId /\ Ancestors[a] \subseteq Ancestors[h]
<1>1. Ancestors[h] \in SUBSET HeaderId /\ ParentClosed(Ancestors[h])
  BY AncestorsAreClosed
<1>2. a \in HeaderId /\ ParentIds[a] \subseteq Ancestors[h]
  BY <1>1 DEF ParentClosed
<1> QED
  BY <1>1, <1>2, AncestorsAreLeast

\* No header is its own ancestor: one that is has a child that is, too.
LEMMA NotItsOwnAncestor ==
  ASSUME NEW x \in HeaderId
  PROVE  x \notin Ancestors[x]
<1> DEFINE D == {h \in HeaderId : h \in Ancestors[h]}
<1> SUFFICES ASSUME D # {} PROVE FALSE
  OBVIOUS
<1>1. PICK h \in D : \A c \in D : h \notin ParentIds[c]
  BY HashesAreAcyclic
<1>2. h \in HeaderId /\ h \in Ancestors[h]
  OBVIOUS
<1> HIDE DEF D
<1>3. Ancestors[h] \in SUBSET HeaderId /\ ParentClosed(Ancestors[h]) /\ ParentIds[h] \subseteq Ancestors[h]
  BY <1>2, AncestorsAreClosed
<1>4. \A c \in Ancestors[h] : h \notin ParentIds[c]
  <2> SUFFICES ASSUME NEW c \in Ancestors[h], h \in ParentIds[c] PROVE FALSE
    OBVIOUS
  <2>1. c \in HeaderId /\ h \in Ancestors[c]
    BY <1>3, AncestorsAreClosed
  <2>2. c \in Ancestors[c]
    BY <2>1, AncestorsOfAncestors
  <2> QED
    BY <1>1, <2>1, <2>2 DEF D
<1>5. h \notin ParentIds[h]
  BY <1>1
<1> DEFINE S == Ancestors[h] \ {h}
<1>6. S \in SUBSET HeaderId /\ ParentIds[h] \subseteq S
  BY <1>3, <1>5
<1>7. ParentClosed(S)
  BY <1>3, <1>4 DEF ParentClosed
<1>8. Ancestors[h] \subseteq S
  <2> HIDE DEF S
  <2> QED
    BY <1>2, <1>6, <1>7, AncestorsAreLeast
<1> QED
  BY <1>2, <1>8

\* Every non-empty set of headers has one with no parents in it (the oldest).
LEMMA OldestFirst ==
  ASSUME NEW D \in SUBSET HeaderId, D # {}
  PROVE  \E h \in D : ParentIds[h] \cap D = {}
<1> DEFINE F == {HeaderId \ Ancestors[h] : h \in D}
<1>1. F \in SUBSET (SUBSET HeaderId) /\ F # {}
  <2>1. \A T \in F : T \in SUBSET HeaderId
    OBVIOUS
  <2>2. PICK h : h \in D
    OBVIOUS
  <2>3. HeaderId \ Ancestors[h] \in F
    BY <2>2
  <2> QED
    BY <2>1, <2>3
<1> HIDE DEF F
<1>2. PICK T \in F : \A U \in F : T \subseteq U => U = T
  <2>1. IsFiniteSet(HeaderId)
    BY HeaderAssumption
  <2> QED
    BY <1>1, <2>1, MaximalMember
<1>3. PICK h \in D : T = HeaderId \ Ancestors[h]
  BY DEF F
<1>4. ASSUME NEW p \in ParentIds[h] \cap D PROVE FALSE
  <2>1. p \in Ancestors[h] /\ p \in HeaderId
    BY AncestorsAreClosed
  <2>2. Ancestors[p] \subseteq Ancestors[h] /\ p \notin Ancestors[p]
    BY <2>1, AncestorsOfAncestors, NotItsOwnAncestor
  <2>3. HeaderId \ Ancestors[p] \in F
    BY DEF F
  <2>4. HeaderId \ Ancestors[p] = T
    BY <1>2, <1>3, <2>2, <2>3
  <2> QED
    BY <1>3, <2>1, <2>2, <2>4
<1> QED
  BY <1>4

\* Going up ends, and so does going down.
ParentsOf == [h \in HeaderId |-> ParentIds[h]]
ChildrenOf == [h \in HeaderId |-> {c \in HeaderId : h \in ParentIds[c]}]
LEMMA GraphIsAcyclic == Acyclic(HeaderId, ParentsOf) /\ Acyclic(HeaderId, ChildrenOf)
<1>1. Acyclic(HeaderId, ParentsOf)
  BY HashesAreAcyclic DEF Acyclic, ParentsOf
<1>2. ASSUME NEW D \in SUBSET HeaderId, D # {}
      PROVE  \E e \in D : \A c \in D : e \notin ChildrenOf[c]
  <2>1. PICK e \in D : ParentIds[e] \cap D = {}
    BY <1>2, OldestFirst
  <2> QED
    BY <2>1 DEF ChildrenOf
<1> QED
  BY <1>1, <1>2 DEF Acyclic

\* A graph is below its tips: a closed set that has them has all of it.
LEMMA TipsCover ==
  ASSUME NEW S \in SUBSET HeaderId, NEW T \in SUBSET HeaderId, ParentClosed(T), TipsOf(S) \subseteq T
  PROVE  S \subseteq T
<1> SUFFICES ASSUME S \ T # {} PROVE FALSE
  OBVIOUS
<1>1. PICK h \in S \ T : \A c \in S \ T : h \notin ParentIds[c]
  BY HashesAreAcyclic
<1>2. PICK c \in S : h \in ParentIds[c]
  BY <1>1 DEF TipsOf, ChildrenIn
<1>3. c \in T
  BY <1>1, <1>2
<1> QED
  BY <1>1, <1>2, <1>3 DEF ParentClosed

\* Comparing tips compares whole graphs: two sets of headers closed under
\* parents that have the same tips are equal.  handle_ecg_subscribe relies on
\* it when it decides from the tips alone that a peer task's copy of the graph
\* is up to date and lets the task sleep.
THEOREM TipsDetermineHeaders ==
  ASSUME NEW S \in SUBSET HeaderId, NEW T \in SUBSET HeaderId,
         ParentClosed(S), ParentClosed(T), TipsOf(S) = TipsOf(T)
  PROVE  S = T
<1>1. TipsOf(S) \subseteq S /\ TipsOf(T) \subseteq T
  BY DEF TipsOf
<1> QED
  BY <1>1, TipsCover
-----------------------------------------------------------------------------
DepthRule(depth, h) == IF ParentIds[h] = {} THEN 1 ELSE 1 + Least({depth[p] : p \in ParentIds[h]})

\* Depths exist: the closed set of headers that have one cannot be extended.
LEMMA DepthIsDefined == Depth = [h \in HeaderId |-> DepthRule(Depth, h)]
<1> DEFINE Good(S, g) == g = [h \in S |-> g[h]] /\ \A h \in S : g[h] = DepthRule(g, h)
           F == {S \in SUBSET HeaderId : ParentClosed(S) /\ \E g : Good(S, g)}
<1>1. F \in SUBSET (SUBSET HeaderId) /\ {} \in F
  <2>1. Good({}, [h \in {} |-> 0])
    OBVIOUS
  <2>2. ParentClosed({})
    BY DEF ParentClosed
  <2> HIDE DEF Good
  <2> QED
    BY <2>1, <2>2
<1>2. PICK S \in F : \A U \in F : S \subseteq U => U = S
  <2>1. IsFiniteSet(HeaderId)
    BY HeaderAssumption
  <2> HIDE DEF F
  <2> QED
    BY <1>1, <2>1, MaximalMember
<1>3. ParentClosed(S) /\ S \in SUBSET HeaderId
  OBVIOUS
<1>4. PICK g : g = [h \in S |-> g[h]] /\ \A h \in S : g[h] = DepthRule(g, h)
  OBVIOUS
<1>5. ASSUME HeaderId \ S # {} PROVE FALSE
  <2>1. PICK h \in HeaderId \ S : ParentIds[h] \cap (HeaderId \ S) = {}
    BY <1>5, OldestFirst
  <2>2. ParentIds[h] \subseteq S
    BY <2>1, HeaderAssumption
  <2> DEFINE U == S \cup {h}
             e == [k \in U |-> IF k = h THEN DepthRule(g, h) ELSE g[k]]
  <2>3. ParentClosed(U) /\ U \in SUBSET HeaderId
    BY <1>3, <2>2 DEF ParentClosed
  <2>4. ASSUME NEW k \in U PROVE e[k] = DepthRule(e, k)
    <3>1. ParentIds[k] \subseteq S
      BY <1>3, <2>2 DEF ParentClosed
    <3>2. \A p \in ParentIds[k] : e[p] = g[p]
      BY <2>1, <3>1
    <3>3. {e[p] : p \in ParentIds[k]} = {g[p] : p \in ParentIds[k]}
      BY <3>2
    <3>4. DepthRule(e, k) = DepthRule(g, k)
      BY <3>3 DEF DepthRule
    <3>5. e[k] = DepthRule(g, k)
      BY <1>4
    <3> QED
      BY <3>4, <3>5
  <2>5. Good(U, e)
    BY <2>4
  <2>6. U \in F
    <3> HIDE DEF Good, e
    <3> QED
      BY <2>3, <2>5
  <2> QED
    BY <1>2, <2>1, <2>6
<1>6. S = HeaderId
  BY <1>3, <1>5
<1>7. g = [h \in HeaderId |-> DepthRule(g, h)]
  <2>1. \A h \in HeaderId : g[h] = DepthRule(g, h)
    BY <1>4, <1>6
  <2> QED
    BY <1>4, <1>6, <2>1
<1>8. \E d : d = [h \in HeaderId |-> IF ParentIds[h] = {} THEN 1 ELSE 1 + Least({d[p] : p \in ParentIds[h]})]
  BY <1>7 DEF DepthRule
<1> QED
  BY <1>8 DEF Depth, DepthRule

LEMMA DepthType == Depth \in [HeaderId -> Nat \ {0}]
<1> DEFINE D == {h \in HeaderId : Depth[h] \notin Nat \ {0}}
<1>1. ASSUME D # {} PROVE FALSE
  <2>1. PICK h \in D : ParentIds[h] \cap D = {}
    BY <1>1, OldestFirst
  <2>2. {Depth[p] : p \in ParentIds[h]} \in SUBSET Nat
    BY <2>1, HeaderAssumption
  <2>3. ParentIds[h] # {} => Least({Depth[p] : p \in ParentIds[h]}) \in Nat
    <3> DEFINE N == {Depth[p] : p \in ParentIds[h]}
    <3>1. ParentIds[h] # {} => N # {}
      OBVIOUS
    <3> HIDE DEF N
    <3>2. N \in SUBSET Nat
      BY <2>2 DEF N
    <3>3. ParentIds[h] # {} => Least(N) \in Nat
      BY <3>1, <3>2, LeastIsMember
    <3> QED
      BY <3>3 DEF N
  <2>4. Depth[h] = DepthRule(Depth, h)
    BY DepthIsDefined
  <2>5. Depth[h] \in Nat \ {0}
    BY <2>3, <2>4 DEF DepthRule
  <2> QED
    BY <2>5
<1>2. \A h \in HeaderId : Depth[h] \in Nat \ {0}
  BY <1>1
<1>3. Depth = [h \in HeaderId |-> Depth[h]]
  BY DepthIsDefined
<1> QED
  BY <1>2, <1>3
=============================================================================
