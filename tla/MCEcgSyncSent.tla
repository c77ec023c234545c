--------------------------- MODULE MCEcgSyncSent ---------------------------
(* The instances of MCEcgSync, with the history of what has been sent. *)
EXTENDS MCEcgSync, EcgSyncSent
=============================================================================
