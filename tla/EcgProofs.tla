----------------------------- MODULE EcgProofs -----------------------------
(***************************************************************************)
(* Theorems about one replica's causal graph (module Ecg), for every set   *)
(* of headers and every way of naming parents.                             *)
(***************************************************************************)
EXTENDS Ecg, HeaderGraphProofs

(***************************************************************************)
(* The inductive invariant: the indexes are what the set of headers says,  *)
(* that set is closed under parents, and depths satisfy their recursion.   *)
(***************************************************************************)
IInv ==
  /\ TypeOK
  /\ CausallyClosed
  /\ IndexesMatchHeaders
  /\ DepthIsLocal

LEMMA InitIInv == Init => IInv
  BY HeaderAssumption DEF Init, IInv, TypeOK, CausallyClosed, ParentClosed,
     IndexesMatchHeaders, DepthIsLocal, Nodes, TipsOf, RootsOf, ChildrenIn

\* insert_header of a root keeps the indexes in step.
LEMMA RootStep ==
  ASSUME IInv, NEW h \in HeaderId, InsertRoot(h)
  PROVE  IInv'
<1>1. /\ Nodes' = Nodes \cup {h}
      /\ \A n \in Nodes : node_info_map'[n] = node_info_map[n]
      /\ node_info_map'[h] = 1
  BY DEF InsertRoot, Recorded, Nodes, Contains
<1>2. TypeOK'
  <2>1. node_info_map' \in [Nodes' -> Nat \ {0}]
    BY DEF IInv, TypeOK, InsertRoot, Recorded, Nodes
  <2> QED
    BY <1>1, <2>1 DEF IInv, TypeOK, InsertRoot
<1>3. CausallyClosed'
  BY <1>1 DEF IInv, CausallyClosed, ParentClosed, InsertRoot
<1>4. IndexesMatchHeaders'
  <2>1. tips' = TipsOf(Nodes')
    <3>1. \A n \in Nodes : h \notin ParentIds[n]
      BY DEF IInv, CausallyClosed, ParentClosed, InsertRoot, Contains
    <3> QED
      BY <1>1, <3>1 DEF IInv, IndexesMatchHeaders, TipsOf, ChildrenIn, InsertRoot
  <2>2. root_nodes' = RootsOf(Nodes')
    BY <1>1 DEF IInv, IndexesMatchHeaders, RootsOf, InsertRoot
  <2>3. edges' = {e \in HeaderId \X HeaderId : e[2] \in Nodes' /\ e[1] \in ParentIds[e[2]]}
    BY <1>1 DEF IInv, IndexesMatchHeaders, InsertRoot
  <2> QED
    BY <2>1, <2>2, <2>3 DEF IndexesMatchHeaders
<1>5. DepthIsLocal'
  <2> SUFFICES ASSUME NEW n \in Nodes'
               PROVE  node_info_map'[n] =
                        IF ParentIds[n] = {} THEN 1
                        ELSE 1 + Least({node_info_map'[p] : p \in ParentIds[n]})
    BY DEF DepthIsLocal
  <2>1. CASE n = h
    BY <1>1, <2>1 DEF InsertRoot
  <2>2. CASE n # h
    <3>1. n \in Nodes /\ ParentIds[n] \subseteq Nodes
      BY <1>1, <2>2 DEF IInv, CausallyClosed, ParentClosed
    <3>2. {node_info_map'[p] : p \in ParentIds[n]} = {node_info_map[p] : p \in ParentIds[n]}
      BY <1>1, <3>1
    <3> QED
      BY <1>1, <3>1, <3>2 DEF IInv, DepthIsLocal
  <2> QED
    BY <2>1, <2>2
<1> QED
  BY <1>2, <1>3, <1>4, <1>5 DEF IInv

\* insert_header of a header with known parents keeps the indexes in step.
LEMMA ChildStep ==
  ASSUME IInv, NEW h \in HeaderId, InsertChild(h)
  PROVE  IInv'
<1>1. /\ Nodes' = Nodes \cup {h}
      /\ h \notin Nodes
      /\ \A n \in Nodes : node_info_map'[n] = node_info_map[n]
      /\ node_info_map'[h] = DepthAfter(h)
      /\ ParentIds[h] # {}
      /\ ParentIds[h] \subseteq Nodes
  BY HeaderAssumption DEF InsertChild, Recorded, Nodes, Contains
<1>2. DepthAfter(h) \in Nat \ {0}
  <2> DEFINE N == {node_info_map[p] : p \in ParentIds[h]}
  <2>1. N \in SUBSET Nat /\ N # {}
    BY <1>1 DEF IInv, TypeOK
  <2>2. Least(N) \in Nat
    BY <2>1, LeastIsMember
  <2> QED
    BY <2>2 DEF DepthAfter
<1>3. TypeOK'
  <2>1. node_info_map' \in [Nodes' -> Nat \ {0}]
    BY <1>1, <1>2 DEF IInv, TypeOK, InsertChild, Recorded, Nodes
  <2>2. edges' \subseteq HeaderId \X HeaderId
    <3>1. ParentIds[h] \in SUBSET HeaderId
      BY HeaderAssumption
    <3>2. {<<p, h>> : p \in ParentIds[h]} \subseteq HeaderId \X HeaderId
      BY <3>1
    <3> QED
      BY <3>2 DEF IInv, TypeOK, InsertChild, EdgesAfter
  <2>3. tips' \subseteq HeaderId
    BY DEF IInv, TypeOK, InsertChild, TipsAfter
  <2> QED
    BY <1>1, <2>1, <2>2, <2>3 DEF IInv, TypeOK, InsertChild
<1>4. CausallyClosed'
  BY <1>1 DEF IInv, CausallyClosed, ParentClosed
<1>5. IndexesMatchHeaders'
  <2>1. \A n \in Nodes : h \notin ParentIds[n]
    BY <1>1 DEF IInv, CausallyClosed, ParentClosed
  <2>2. h \notin ParentIds[h]
    BY <1>1
  <2>3. tips' = TipsOf(Nodes')
    <3>1. \A n \in Nodes : ChildrenIn(Nodes', n) =
            ChildrenIn(Nodes, n) \cup (IF n \in ParentIds[h] THEN {h} ELSE {})
      BY <1>1 DEF ChildrenIn
    <3>2. ChildrenIn(Nodes', h) = {}
      BY <1>1, <2>1, <2>2 DEF ChildrenIn
    <3>3. tips' = (tips \ ParentIds[h]) \cup {h} /\ tips = TipsOf(Nodes)
      BY DEF InsertChild, TipsAfter, IInv, IndexesMatchHeaders
    <3>4. ASSUME NEW n \in Nodes
          PROVE  ChildrenIn(Nodes', n) = {} <=> ChildrenIn(Nodes, n) = {} /\ n \notin ParentIds[h]
      BY <3>1
    <3>5. TipsOf(Nodes') = {n \in Nodes : ChildrenIn(Nodes', n) = {}} \cup {h}
      BY <1>1, <3>2 DEF TipsOf
    <3>6. {n \in Nodes : ChildrenIn(Nodes', n) = {}} = TipsOf(Nodes) \ ParentIds[h]
      BY <3>4 DEF TipsOf
    <3> QED
      BY <3>3, <3>5, <3>6
  <2>4. root_nodes' = RootsOf(Nodes')
    BY <1>1 DEF IInv, IndexesMatchHeaders, RootsOf, InsertChild
  <2>5. edges' = {e \in HeaderId \X HeaderId : e[2] \in Nodes' /\ e[1] \in ParentIds[e[2]]}
    <3>1. edges' = edges \cup {<<p, h>> : p \in ParentIds[h]}
      BY DEF InsertChild, EdgesAfter
    <3>2. edges = {e \in HeaderId \X HeaderId : e[2] \in Nodes /\ e[1] \in ParentIds[e[2]]}
      BY DEF IInv, IndexesMatchHeaders
    <3>3. ParentIds[h] \subseteq HeaderId
      BY HeaderAssumption
    <3> QED
      BY <1>1, <3>1, <3>2, <3>3
  <2> QED
    BY <2>3, <2>4, <2>5 DEF IndexesMatchHeaders
<1>6. DepthIsLocal'
  <2> SUFFICES ASSUME NEW n \in Nodes'
               PROVE  node_info_map'[n] =
                        IF ParentIds[n] = {} THEN 1
                        ELSE 1 + Least({node_info_map'[p] : p \in ParentIds[n]})
    BY DEF DepthIsLocal
  <2>1. ParentIds[n] \subseteq Nodes
    BY <1>1 DEF IInv, CausallyClosed, ParentClosed
  <2>2. {node_info_map'[p] : p \in ParentIds[n]} = {node_info_map[p] : p \in ParentIds[n]}
    BY <1>1, <2>1
  <2>3. CASE n = h
    BY <1>1, <2>2, <2>3 DEF DepthAfter
  <2>4. CASE n # h
    BY <1>1, <2>2, <2>4 DEF IInv, DepthIsLocal
  <2> QED
    BY <2>3, <2>4
<1> QED
  BY <1>3, <1>4, <1>5, <1>6 DEF IInv

\* Every step of the graph keeps the inductive invariant.
LEMMA NextIInv == IInv /\ [Next]_vars => IInv'
<1> SUFFICES ASSUME IInv, [Next]_vars PROVE IInv'
  OBVIOUS
<1>1. ASSUME NEW h \in HeaderId, InsertRoot(h) PROVE IInv'
  BY <1>1, RootStep
<1>2. ASSUME NEW h \in HeaderId, InsertChild(h) PROVE IInv'
  BY <1>2, ChildStep
<1>3. ASSUME NEW h \in HeaderId, Refuse(h) PROVE IInv'
  BY <1>3 DEF Refuse, IInv, TypeOK, CausallyClosed, IndexesMatchHeaders, DepthIsLocal, Nodes
<1>4. CASE UNCHANGED vars
  BY <1>4 DEF vars, IInv, TypeOK, CausallyClosed, IndexesMatchHeaders, DepthIsLocal, Nodes
<1> QED
  BY <1>1, <1>2, <1>3, <1>4 DEF Next, InsertHeader

LEMMA AlwaysIInv == Spec => []IInv
  BY InitIInv, NextIInv, PTL DEF Spec
-----------------------------------------------------------------------------
\* The state of the graph is always well typed (every depth is positive).
THEOREM EcgTypeOK == Spec => []TypeOK
<1>1. IInv => TypeOK
  BY DEF IInv
<1> QED
  BY <1>1, AlwaysIInv, PTL

\* No header is ever held without its parents: what insert_header refuses it
\* leaves no trace of, and what it accepts it can apply in causal order.
THEOREM EcgCausallyClosed == Spec => []CausallyClosed
<1>1. IInv => CausallyClosed
  BY DEF IInv
<1> QED
  BY <1>1, AlwaysIInv, PTL

\* Tips, roots and edges depend on the set of headers held only, not on the
\* order of insertion.
THEOREM EcgIndexesMatchHeaders == Spec => []IndexesMatchHeaders
<1>1. IInv => IndexesMatchHeaders
  BY DEF IInv
<1> QED
  BY <1>1, AlwaysIInv, PTL

\* Headers are never lost, depths never change, and a tip is only ever retired
\* by a new child of it.
THEOREM EcgGraphOnlyGrows == Spec => GraphOnlyGrows
<1> DEFINE Grows ==
      /\ Nodes \subseteq Nodes'
      /\ \A h \in Nodes : node_info_map'[h] = node_info_map[h]
      /\ \A t \in tips \ tips' : \E c \in Nodes' \ Nodes : t \in ParentIds[c]
<1>1. ASSUME NEW h \in HeaderId, InsertRoot(h) PROVE Grows
  BY <1>1 DEF InsertRoot, Recorded, Nodes, Contains
<1>2. ASSUME NEW h \in HeaderId, InsertChild(h) PROVE Grows
  <2>1. Nodes' = Nodes \cup {h} /\ h \notin Nodes
    BY <1>2 DEF InsertChild, Recorded, Nodes, Contains
  <2>2. \A n \in Nodes : node_info_map'[n] = node_info_map[n]
    BY <1>2 DEF InsertChild, Recorded, Nodes, Contains
  <2>3. tips \ tips' \subseteq ParentIds[h]
    BY <1>2 DEF InsertChild, TipsAfter
  <2> QED
    BY <2>1, <2>2, <2>3
<1>3. ASSUME NEW h \in HeaderId, Refuse(h) PROVE Grows
  BY <1>3 DEF Refuse, Nodes
<1>4. UNCHANGED vars => Grows
  BY DEF vars, Nodes
<1>5. [Next]_vars => [Grows]_vars
  BY <1>1, <1>2, <1>3, <1>4 DEF Next, InsertHeader
<1> QED
  BY <1>5, PTL DEF Spec, GraphOnlyGrows

-----------------------------------------------------------------------------
\* The depth of a header is stored when it is inserted and never corrected; it
\* is that of the shortest way to a root nevertheless, in whatever order the
\* headers have come (insert_header).
THEOREM EcgDepthIsMinimal == Spec => []DepthIsMinimal
<1>1. IInv => DepthIsMinimal
  <2> DEFINE D == {h \in Nodes : node_info_map[h] # Depth[h]}
  <2> SUFFICES ASSUME IInv, D # {} PROVE FALSE
    BY DEF DepthIsMinimal
  <2>1. D \in SUBSET HeaderId
    BY DEF IInv, TypeOK
  <2>2. PICK h \in D : ParentIds[h] \cap D = {}
    BY <2>1, OldestFirst
  <2>3. h \in Nodes /\ h \in HeaderId /\ node_info_map[h] # Depth[h]
    BY <2>1
  <2>4. ParentIds[h] \subseteq Nodes
    BY <2>3 DEF IInv, CausallyClosed, ParentClosed
  <2>5. \A p \in ParentIds[h] : node_info_map[p] = Depth[p]
    BY <2>2, <2>4
  <2>6. {node_info_map[p] : p \in ParentIds[h]} = {Depth[p] : p \in ParentIds[h]}
    BY <2>5
  <2>7. Depth[h] = IF ParentIds[h] = {} THEN 1 ELSE 1 + Least({Depth[p] : p \in ParentIds[h]})
    BY <2>3, DepthIsDefined DEF DepthRule
  <2> QED
    BY <2>3, <2>6, <2>7 DEF IInv, DepthIsLocal
<1> QED
  BY <1>1, AlwaysIInv, PTL
-----------------------------------------------------------------------------
\* The breadth-first search is a loop: what it has found is passed on until
\* the ancestor is among it or nothing is.
IsSearch(f, ancestor) ==
  f = [s \in SearchState |-> s.queue # {} /\ (ancestor \in s.queue \/ f[SearchNext(s)])]

LEMMA SearchIsDefined ==
  ASSUME TypeOK, NEW ancestor
  PROVE  \E f : IsSearch(f, ancestor)
<1> DEFINE Done == {s \in SearchState : s.queue = {} \/ ancestor \in s.queue}
           step == [s \in SearchState |-> IF s \in Done THEN s ELSE SearchNext(s)]
<1>1. \A s \in SearchState : SearchNext(s) \in SearchState
  BY DEF SearchState, SearchNext, GetParents, TypeOK
<1>2. step \in [SearchState -> SearchState]
  BY <1>1
<1> HIDE DEF step
<1>3. PICK f : IsLoop(f, SearchState, Done, step)
  BY <1>2, LoopIsDefined
<1>4. \A s \in SearchState : f[s] = IF s \in Done THEN s ELSE f[step[s]]
  BY <1>3 DEF IsLoop
<1> DEFINE found(s) == ancestor \in f[s].queue
           g == [s \in SearchState |-> found(s)]
<1>5. ASSUME NEW s \in SearchState
      PROVE  found(s) <=> s.queue # {} /\ (ancestor \in s.queue \/ found(SearchNext(s)))
  <2>1. CASE s \in Done
    BY <1>4, <2>1
  <2>2. CASE s \notin Done
    <3>1. f[s] = f[SearchNext(s)] /\ s.queue # {} /\ ancestor \notin s.queue
      BY <1>4, <2>2 DEF step
    <3> QED
      BY <3>1
  <2> QED
    BY <2>1, <2>2
<1> HIDE DEF found
<1>6. ASSUME NEW s \in SearchState PROVE g[s] = (s.queue # {} /\ (ancestor \in s.queue \/ g[SearchNext(s)]))
  <2>1. g[s] = found(s) /\ g[SearchNext(s)] = found(SearchNext(s))
    BY <1>1, Zenon
  <2> HIDE DEF g
  <2>2. found(s) = (s.queue # {} /\ (ancestor \in s.queue \/ found(SearchNext(s))))
    <3> DEFINE L == found(s)
               M == s.queue # {} /\ (ancestor \in s.queue \/ found(SearchNext(s)))
    <3>1. L \in BOOLEAN /\ M \in BOOLEAN
      BY DEF found
    <3>2. L <=> M
      BY <1>5
    <3> HIDE DEF L, M
    <3>3. L = M
      BY <3>1, <3>2
    <3> QED
      BY <3>3 DEF L, M
  <2> QED
    BY <2>1, <2>2, Zenon
<1>7. g = [s \in SearchState |-> g[s]]
  OBVIOUS
<1> HIDE DEF g
<1>8. IsSearch(g, ancestor)
  BY <1>6, <1>7 DEF IsSearch
<1> QED
  BY <1>8

\* What the search keeps: the parents of what it has looked at are discovered,
\* and the ancestor is not among that.
LEMMA SearchIsRight ==
  ASSUME IInv, NEW ancestor, NEW d \in Nodes, NEW f, IsSearch(f, ancestor)
  PROVE  f[[visited |-> {d}, queue |-> {d}]] <=> (ancestor = d \/ ancestor \in Ancestors[d])
<1> DEFINE A == {d} \cup Ancestors[d]
           Good(s) == /\ s.queue \subseteq s.visited /\ d \in s.visited /\ s.visited \subseteq A
                      /\ \A n \in s.visited \ s.queue : ParentIds[n] \subseteq s.visited /\ n # ancestor
           wrong(s) == ~ (f[s] <=> ancestor \in A)
           Bad == {s \in SearchState : Good(s) /\ wrong(s)}
<1>1. /\ d \in HeaderId /\ A \in SUBSET HeaderId /\ ParentClosed(A) /\ A \subseteq Nodes
      /\ \A S \in SUBSET HeaderId : d \in S /\ ParentClosed(S) => A \subseteq S
  <2>1. d \in HeaderId /\ ParentClosed(Nodes) /\ Nodes \in SUBSET HeaderId
    BY DEF IInv, TypeOK, CausallyClosed
  <2>2. Ancestors[d] \in SUBSET HeaderId /\ ParentIds[d] \subseteq Ancestors[d] /\ ParentClosed(Ancestors[d])
    BY <2>1, AncestorsAreClosed
  <2>3. \A S \in SUBSET HeaderId : d \in S /\ ParentClosed(S) => A \subseteq S
    BY <2>1, AncestorsAreLeast DEF ParentClosed
  <2> QED
    BY <2>1, <2>2, <2>3 DEF ParentClosed
<1>2. \A n \in Nodes : GetParents(n) = ParentIds[n]
  BY DEF IInv, TypeOK, CausallyClosed, ParentClosed, IndexesMatchHeaders, GetParents
<1> HIDE DEF A
<1>3. \A s \in SearchState : f[s] <=> s.queue # {} /\ (ancestor \in s.queue \/ f[SearchNext(s)])
  BY DEF IsSearch
<1>4. ASSUME NEW s \in SearchState, Good(s), ancestor \notin s.queue, s.queue # {}
      PROVE  /\ SearchNext(s) \in SearchState /\ Good(SearchNext(s)) /\ (f[s] <=> f[SearchNext(s)])
             /\ s.visited \subseteq SearchNext(s).visited
             /\ SearchNext(s).visited = s.visited => SearchNext(s).queue = {}
  <2> DEFINE t == SearchNext(s)
  <2>1. s.visited \in SUBSET HeaderId /\ s.queue \in SUBSET HeaderId /\ s.queue \subseteq A
    BY <1>4 DEF SearchState
  <2>2. /\ \A p : p \in t.queue <=> p \notin s.visited /\ \E n \in s.queue : p \in ParentIds[n]
        /\ t.visited = s.visited \cup t.queue /\ t = [visited |-> t.visited, queue |-> t.queue]
    BY <1>1, <1>2, <2>1 DEF SearchNext
  <2> HIDE DEF t
  <2>3. t.queue \subseteq A
    BY <1>1, <2>1, <2>2 DEF ParentClosed
  <2>4. t.queue \in SUBSET HeaderId /\ t.visited \in SUBSET HeaderId
    BY <1>1, <2>1, <2>2, <2>3
  <2>5. t \in SearchState
    BY <2>2, <2>4 DEF SearchState
  <2>6. \A n \in t.visited \ t.queue : ParentIds[n] \subseteq t.visited /\ n # ancestor
    BY <1>4, <2>2
  <2>7. Good(t)
    BY <1>4, <2>2, <2>3, <2>6
  <2>8. f[s] <=> f[t]
    BY <1>3, <1>4 DEF t
  <2>9. t.visited = s.visited => t.queue = {}
    BY <2>2
  <2> QED
    BY <2>2, <2>5, <2>7, <2>8, <2>9 DEF t
<1>5. ASSUME NEW s \in SearchState, Good(s), s.queue = {} PROVE ~ wrong(s)
  <2>1. ~ f[s]
    BY <1>3, <1>5
  <2>2. A \subseteq s.visited
    BY <1>1, <1>5 DEF ParentClosed, SearchState
  <2>3. ancestor \notin A
    BY <1>5, <2>2
  <2> QED
    BY <2>1, <2>3
<1>6. ASSUME NEW s \in SearchState, Good(s), ancestor \in s.queue PROVE ~ wrong(s)
  BY <1>3, <1>6
<1> HIDE DEF wrong, Good
<1>7. Bad = {}
  <2> SUFFICES ASSUME Bad # {} PROVE FALSE
    OBVIOUS
  <2> DEFINE F == {s.visited : s \in Bad}
  <2>1. F \in SUBSET (SUBSET HeaderId) /\ F # {} /\ IsFiniteSet(HeaderId)
    BY HeaderAssumption DEF SearchState
  <2> HIDE DEF F
  <2>2. PICK T \in F : \A U \in F : T \subseteq U => U = T
    BY <2>1, MaximalMember
  <2>3. PICK s \in Bad : s.visited = T
    BY DEF F
  <2>4. s \in SearchState /\ Good(s) /\ wrong(s) /\ s.queue # {} /\ ancestor \notin s.queue
    BY <1>5, <1>6
  <2> DEFINE t == SearchNext(s)
  <2>5. /\ t \in SearchState /\ Good(t) /\ wrong(t) /\ s.visited \subseteq t.visited
        /\ t.visited = s.visited => t.queue = {}
    BY <1>4, <2>4 DEF wrong
  <2> HIDE DEF t
  <2>6. t.visited \in F
    BY <2>5 DEF F
  <2>7. t.queue = {}
    BY <2>2, <2>3, <2>5, <2>6
  <2> QED
    BY <1>5, <2>5, <2>7
<1>8. [visited |-> {d}, queue |-> {d}] \in SearchState /\ Good([visited |-> {d}, queue |-> {d}])
  BY <1>1 DEF SearchState, Good, A
<1>9. ~ wrong([visited |-> {d}, queue |-> {d}])
  BY <1>7, <1>8
<1> QED
  BY <1>9 DEF wrong, A

\* The breadth-first search of is_ancestor_of decides the ancestor relation of
\* the headers held; the replicated types order concurrent operations by it.
THEOREM EcgSearchFindsAncestors == Spec => []SearchFindsAncestors
<1>1. IInv => SearchFindsAncestors
  <2> SUFFICES ASSUME IInv, NEW a \in Nodes, NEW d \in Nodes
               PROVE  IsAncestorOf(a, d) <=> (a = d \/ a \in Ancestors[d])
    BY DEF SearchFindsAncestors
  <2> DEFINE f == CHOOSE f : IsSearch(f, a)
  <2>1. IsSearch(f, a)
    BY SearchIsDefined DEF IInv
  <2>2. IsAncestorOf(a, d) <=> f[[visited |-> {d}, queue |-> {d}]]
    BY DEF IsAncestorOf, IsSearch
  <2> HIDE DEF f
  <2> QED
    BY <2>1, <2>2, SearchIsRight
<1> QED
  BY <1>1, AlwaysIInv, PTL
=============================================================================
