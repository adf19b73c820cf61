----------------------------- MODULE MCRequests -----------------------------
(***************************************************************************)
(* An instance of Requests for TLC.                                        *)
(***************************************************************************)
EXTENDS Requests

Say(kind, arg, lvl) == [kind |-> kind, arg |-> arg, pct |-> 2, lvl |-> lvl]

MCTexts == {Say("ping", "none", 0), Say("show", "all", 2), Say("mirror", "none", 3),
            Say("verbose", "none", 0), Say("cpu_alarm", "none", 0), Say("garbage", "none", 0)}
=============================================================================
