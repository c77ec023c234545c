--------------------------- MODULE CausalReplicas ---------------------------
(* What the devices that share a store are promised: each has a set of      *)
(* headers that only grows; a header begins at the device of its author and *)
(* goes from a device that has it, over a link, to one that does not; and   *)
(* no device ever has a header without its parents.                         *)
CONSTANTS
  HeaderId, ParentIds,   \* the headers, and ParentIds[h], the parents of each
  Author,                \* Author[h]: the device that creates header h
  Device,
  Link                   \* pairs <<d, e>> of which d learns from e

VARIABLE ecg    \* ecg[d]: the headers that d has

Init == ecg = [d \in Device |-> {}]

HasParents(graph, h) == ParentIds[h] \subseteq graph

Create(h) ==
  LET graph == ecg[Author[h]] IN
  /\ h \notin graph
  /\ HasParents(graph, h)
  /\ ecg' = [ecg EXCEPT ![Author[h]] = graph \cup {h}]

\* Any number of headers at once, in whatever order the parents allow.
Learn(l) ==
  \E new \in SUBSET (ecg[l[2]] \ ecg[l[1]]) :
    LET graph == ecg[l[1]] \cup new IN
    /\ \A h \in new : HasParents(graph, h)
    /\ ecg' = [ecg EXCEPT ![l[1]] = graph]

Next ==
  \/ \E h \in HeaderId : Create(h)
  \/ \E l \in Link : Learn(l)

Spec == Init /\ [][Next]_ecg
=============================================================================
