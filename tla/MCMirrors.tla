----------------------------- MODULE MCMirrors -----------------------------
(***************************************************************************)
(* Instances of Mirrors for TLC.                                           *)
(***************************************************************************)
EXTENDS Mirrors

ThreeVfs == {0, 1, 2}
TwoVfs   == {0, 1}
=============================================================================
