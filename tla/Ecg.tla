-------------------------------- MODULE Ecg --------------------------------
(***************************************************************************)
(* One replica's encrypted causal graph: ecg::State / ecg::UntypedState    *)
(* of store/ecg.rs.                                                        *)
(*                                                                         *)
(* The graph is maintained incrementally, header by header, in whatever    *)
(* order headers are created or arrive; `tips`, `root_nodes`, the edges    *)
(* and the depths are separate indexes that every insertion must keep in   *)
(* step.  Headers the graph cannot take are refused and forgotten.         *)
(***************************************************************************)
EXTENDS HeaderGraph

VARIABLES
  node_info_map,   \* header id -> depth of the headers held
  edges,           \* dependency_graph: <<parent, child>> pairs
  root_nodes,      \* headers held that have no parents
  tips,            \* headers held that no header held depends on
  accepted         \* what the last call of insert_header returned

vars == <<node_info_map, edges, root_nodes, tips, accepted>>

Nodes == DOMAIN node_info_map

(***************************************************************************)
(* Queries.                                                                *)
(***************************************************************************)
Contains(h) == h \in Nodes
GetParents(h) == {p \in Nodes : <<p, h>> \in edges}
GetChildren(h) == {c \in Nodes : <<h, c>> \in edges}

\* A mistaken search: looks no further than the direct parents.
ParentSearch(ancestor, descendent) ==
  ancestor = descendent \/ ancestor \in GetParents(descendent)

(***************************************************************************)
(* is_ancestor_of: breadth-first search from the descendant towards the    *)
(* roots.  The queue holds what has been discovered but not yet looked at; *)
(* the order in which its members are taken does not matter to the result. *)
(***************************************************************************)
SearchState == [visited : SUBSET HeaderId, queue : SUBSET HeaderId]
SearchNext(s) ==
  LET found == (UNION {GetParents(n) : n \in s.queue}) \ s.visited
  IN  [visited |-> s.visited \cup found, queue |-> found]

IsAncestorOf(ancestor, descendent) ==
  LET Search[s \in SearchState] ==
        s.queue # {} /\ (ancestor \in s.queue \/ Search[SearchNext(s)])
  IN  Search[[visited |-> {descendent}, queue |-> {descendent}]]

(***************************************************************************)
(* insert_header: the parts of the update.                                 *)
(***************************************************************************)
\* Mistaken updates: only one parent stops being a tip, the deepest parent
\* counts, a root is at depth 0.
TipsAfterOneParent(h) ==
  (tips \ {CHOOSE p \in ParentIds[h] : TRUE}) \cup {h}
DepthAfterDeepest(h) ==
  LET depths == {node_info_map[p] : p \in ParentIds[h]}
  IN  1 + CHOOSE n \in depths : \A m \in depths : m <= n
RecordedAtZero(h, depth) ==
  [n \in Nodes \cup {h} |-> IF n = h THEN depth - 1 ELSE node_info_map[n]]

TipsAfter(h) == (tips \ ParentIds[h]) \cup {h}
EdgesAfter(h) == edges \cup {<<p, h>> : p \in ParentIds[h]}
DepthAfter(h) == 1 + Least({node_info_map[p] : p \in ParentIds[h]})
Recorded(h, depth) ==
  [n \in Nodes \cup {h} |-> IF n = h THEN depth ELSE node_info_map[n]]

Init ==
  /\ node_info_map = [h \in {} |-> 0]
  /\ edges = {}
  /\ root_nodes = {}
  /\ tips = {}
  /\ accepted = FALSE

\* A header without parents becomes a root at depth 1.
InsertRoot(h) ==
  /\ ~Contains(h)
  /\ ParentIds[h] = {}
  /\ root_nodes' = root_nodes \cup {h}
  /\ tips' = tips \cup {h}
  /\ node_info_map' = Recorded(h, 1)
  /\ accepted' = TRUE
  /\ UNCHANGED edges

\* A mistaken guard: one known parent is enough.
InsertChildOfAny(h) ==
  /\ ~Contains(h)
  /\ \E p \in ParentIds[h] : Contains(p)
  /\ tips' = TipsAfter(h)
  /\ edges' = EdgesAfter(h)
  /\ node_info_map' = Recorded(h, 1)
  /\ accepted' = TRUE
  /\ UNCHANGED root_nodes

\* A header whose parents are all held replaces them among the tips.
InsertChild(h) ==
  /\ ~Contains(h)
  /\ ParentIds[h] # {}
  /\ \A p \in ParentIds[h] : Contains(p)
  /\ tips' = TipsAfter(h)
  /\ edges' = EdgesAfter(h)
  /\ node_info_map' = Recorded(h, DepthAfter(h))
  /\ accepted' = TRUE
  /\ UNCHANGED root_nodes

\* A header already held, or one with an unknown parent, changes nothing.
Refuse(h) ==
  /\ Contains(h) \/ \E p \in ParentIds[h] : ~Contains(p)
  /\ accepted' = FALSE
  /\ UNCHANGED <<node_info_map, edges, root_nodes, tips>>

InsertHeader(h) == InsertRoot(h) \/ InsertChild(h) \/ Refuse(h)

Next == \E h \in HeaderId : InsertHeader(h)

Spec == Init /\ [][Next]_vars
-----------------------------------------------------------------------------
(***************************************************************************)
(* Correctness.                                                            *)
(***************************************************************************)
TypeOK ==
  /\ Nodes \subseteq HeaderId
  /\ node_info_map \in [Nodes -> Nat \ {0}]
  /\ edges \subseteq HeaderId \X HeaderId
  /\ root_nodes \subseteq HeaderId
  /\ tips \subseteq HeaderId
  /\ accepted \in BOOLEAN

\* The parents of every header held are held: operations are applied to the
\* replicated value only after everything they causally depend on.
CausallyClosed == ParentClosed(Nodes)

\* The indexes agree with the set of headers held, whatever the order in which
\* they came.  Two replicas with the same headers thus have the same graph
\* (what `equal_dags` compares), and comparing `tips` is comparing graphs.
IndexesMatchHeaders ==
  /\ tips = TipsOf(Nodes)
  /\ root_nodes = RootsOf(Nodes)
  /\ edges = {e \in HeaderId \X HeaderId : e[2] \in Nodes /\ e[1] \in ParentIds[e[2]]}

\* The depth of a header is one more than the least depth of its parents.
DepthIsLocal ==
  \A h \in Nodes :
    node_info_map[h] = IF ParentIds[h] = {} THEN 1
                       ELSE 1 + Least({node_info_map[p] : p \in ParentIds[h]})

\* The stored depth ("the (minimum) depth of this node") is the length of the
\* shortest way to a root, and does not depend on the order of insertion.
DepthIsMinimal == \A h \in Nodes : node_info_map[h] = Depth[h]

\* The breadth-first search decides the ancestor relation of the headers held;
\* the replicated types order concurrent operations by it.
SearchFindsAncestors ==
  \A a, d \in Nodes : IsAncestorOf(a, d) <=> (a = d \/ a \in Ancestors[d])

\* A header is never dropped, its depth never changes, and a header leaves the
\* tips only because a header that depends on it has come.
GraphOnlyGrows ==
  [][/\ Nodes \subseteq Nodes'
     /\ \A h \in Nodes : node_info_map'[h] = node_info_map[h]
     /\ \A t \in tips \ tips' : \E c \in Nodes' \ Nodes : t \in ParentIds[c]]_vars
=============================================================================
