---------------------------- MODULE EcgSyncSent ----------------------------
(***************************************************************************)
(* EcgSync with a history variable: what has been sent over a link, which  *)
(* no task remembers.  The variable restrains no step.                     *)
(***************************************************************************)
EXTENDS EcgSync

VARIABLE sent  \* sent[l]: the operations sent over l so far, oldest first

\* The operations of the response that a step puts on the stream.
Sending(l) ==
  IF Len(response'[l]) > Len(response[l]) /\ Last(response'[l]).type = "Response"
  THEN Last(response'[l]).operations ELSE <<>>

SentInit == Init /\ sent = [l \in Link |-> <<>>]
SentNext == Next /\ sent' = [l \in Link |-> sent[l] \o Sending(l)]
SentSpec == SentInit /\ [][SentNext]_<<vars, sent>>
SentFairSpec == SentSpec /\ Fairness

(***************************************************************************)
(* An operation is sent over a link at most once, in one response or in    *)
(* two, however often send_queue comes to hold the header: whatever        *)
(* prepare_operations delivers it marks as known, and what is marked stays *)
(* marked over all rounds.                                                 *)
(***************************************************************************)
SendsOnce == \A l \in Link : IsInjective(sent[l])
=============================================================================
