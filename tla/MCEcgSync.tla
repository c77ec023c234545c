----------------------------- MODULE MCEcgSync -----------------------------
(***************************************************************************)
(* Instances of EcgSync for TLC.                                           *)
(***************************************************************************)
EXTENDS EcgSync

\* Two devices that pull from each other: b makes the chain 1, 2, 3, and a
\* makes 4, a root, without knowing of it.
PairDevice == {"a", "b"}
PairLink == {<<"a", "b">>, <<"b", "a">>}
ForestId == 1..4
ForestParents == [h \in ForestId |-> IF h \in {2, 3} THEN {h - 1} ELSE {}]
ForestAuthor == [h \in ForestId |-> IF h = 4 THEN "a" ELSE "b"]

\* a makes the root 1; b makes the root 2 and, having got 1, merges both.
MergeId == 1..3
MergeParents == [h \in MergeId |-> IF h = 3 THEN {1, 2} ELSE {}]
MergeAuthor == [h \in MergeId |-> IF h = 1 THEN "a" ELSE "b"]

\* b has as many tips as a response can propose (2 and 3) over one root; a,
\* which has another root, pulls.
WideLink == {<<"a", "b">>}
WideId == 1..4
WideParents == [h \in WideId |-> IF h \in {2, 3} THEN {1} ELSE {}]
WideAuthor == [h \in WideId |-> IF h = 4 THEN "a" ELSE "b"]
=============================================================================
