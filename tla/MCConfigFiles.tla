--------------------------- MODULE MCConfigFiles ---------------------------
(***************************************************************************)
(* Instances of ConfigFiles for TLC.                                       *)
(***************************************************************************)
EXTENDS ConfigFiles, TLC

CONSTANTS fa, fb, fc, o1, o2

\* Two names for files of VF 0 and one for those of VF 1.
OwnNames == fa :> {0} @@ fb :> {0} @@ fc :> {1}

\* Requests that give a file without its directory.
PlainPaths == {<<"add", "conf">>, <<"del", "live">>}
=============================================================================
