------------------------------ MODULE MCStore ------------------------------
(***************************************************************************)
(* Instances of Store for TLC.  The seed s is the device that created the  *)
(* store.                                                                  *)
(***************************************************************************)
EXTENDS Store

\* a downloads from the seed, and the two pull operations from each other.
PairDevice == {"s", "a"}
PairLink == {<<"a", "s">>, <<"s", "a">>}

\* b downloads from the seed and from a, which downloads itself.
OneSeed == {"s"}
ThreeDevice == {"s", "a", "b"}
TriangleLink == {<<"a", "s">>, <<"b", "a">>, <<"b", "s">>}

\* a downloads from the seed, and b only from a.
ChainLink == {<<"a", "s">>, <<"b", "a">>}

\* a downloads from two devices that have the store.
TwoSeedDevice == {"s", "t", "a"}
TwoSeeds == {"s", "t"}
TwoSeedLink == {<<"a", "s">>, <<"a", "t">>}
=============================================================================
