---------------------------- MODULE MCRingMain ------------------------------
(***************************************************************************)
(* Instances of RingMain for TLC.                                          *)
(***************************************************************************)
EXTENDS RingMain

OneOperator == {<<"and">>, <<"or">>}

\* Chains of different lengths in one network.
MixedChains == {<<"and">>, <<"or">>, <<"and", "or">>, <<"or", "and">>}

=============================================================================
