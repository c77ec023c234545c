--------------------------- MODULE MCPeerManager ---------------------------
(* Instances of PeerManager for TLC. *)
EXTENDS PeerManager, TLC

CONSTANTS a, b

(* The store they share is the second of two at a, or the first as long as  *)
(* a does not run the one before it.                                        *)
SharedSecond == (a :> {1, 2}) @@ (b :> {2})
OneStore == (a :> {1}) @@ (b :> {1})
OneDial == {<<a, b>>}
CrossedDials == {<<a, b>>, <<b, a>>}
=============================================================================
