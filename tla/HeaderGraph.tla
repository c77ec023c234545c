---------------------------- MODULE HeaderGraph ----------------------------
(***************************************************************************)
(* The headers of an encrypted causal graph (ECG) and the graph they form. *)
(*                                                                         *)
(* A header names its parents and its id is the hash of its contents       *)
(* (store/ecg/v0.rs), so the parents of a header are a function of its id. *)
(* Ids are compared as byte strings wherever the code needs an order (the  *)
(* priority queues of the synchronisation protocol), so they are numbers   *)
(* here.  The operators take a set S of headers that a replica holds.      *)
(***************************************************************************)
EXTENDS Integers, FiniteSets, Sequences

CONSTANTS
  HeaderId,   \* ids of the headers that may ever be created
  ParentIds   \* ParentIds[h]: the parents header h names; {} for a root

ASSUME HeaderAssumption ==
  /\ HeaderId \subseteq Nat /\ IsFiniteSet(HeaderId)
  /\ ParentIds \in [HeaderId -> SUBSET HeaderId]

(***************************************************************************)
(* A header is made after its parents, whose hashes it contains: in every  *)
(* non-empty set of headers there is one that no other of them has for a   *)
(* parent (the youngest one).                                              *)
(***************************************************************************)
ASSUME HashesAreAcyclic ==
  \A D \in SUBSET HeaderId :
    D # {} => \E h \in D : \A c \in D : h \notin ParentIds[c]

RootsOf(S) == {h \in S : ParentIds[h] = {}}
ChildrenIn(S, h) == {c \in S : h \in ParentIds[c]}
TipsOf(S) == {h \in S : ChildrenIn(S, h) = {}}
ParentClosed(S) == \A h \in S : ParentIds[h] \subseteq S

(***************************************************************************)
(* The least element of a set of numbers (std::cmp::min over the parents). *)
(***************************************************************************)
Least(N) == CHOOSE n \in N : \A m \in N : n <= m

(***************************************************************************)
(* Reference definitions.  The strict ancestors of a header are what every *)
(* closed set with its parents has; its depth is its distance from the     *)
(* nearest root.                                                           *)
(***************************************************************************)
Ancestors ==
  [h \in HeaderId |->
     {a \in HeaderId :
        \A S \in SUBSET HeaderId : ParentIds[h] \subseteq S /\ ParentClosed(S) => a \in S}]

Depth[h \in HeaderId] ==
  IF ParentIds[h] = {} THEN 1 ELSE 1 + Least({Depth[p] : p \in ParentIds[h]})
=============================================================================
