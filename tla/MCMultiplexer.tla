--------------------------- MODULE MCMultiplexer ---------------------------
(* Instances of Multiplexer for TLC. *)
EXTENDS Multiplexer, TLC

(* Stream 0 is a heartbeat; the client leads the other one, as a manager.   *)
TwoStreams == {0, 1}
Leaders == (0 :> "Server") @@ (1 :> "Client")
Lengths == (0 :> 3) @@ (1 :> 2)
(* A downloader and its seed: short requests, short and long answers.       *)
ShortRequests == [Client |-> {1}, Server |-> {1, 3}]
=============================================================================
