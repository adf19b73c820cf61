----------------------------- MODULE MCMacTable -----------------------------
(***************************************************************************)
(* Instances of MacTable for TLC.                                          *)
(***************************************************************************)
EXTENDS MacTable

CONSTANTS m1, m2, m3

\* Files without, with one, with two and with two equal addresses.
FewFiles == {<<>>, <<m1>>, <<m1, m2>>, <<m3, m3>>}
=============================================================================
