---------------------------- MODULE MCVfdConfig ----------------------------
(***************************************************************************)
(* Instances of VfdConfig for TLC.                                         *)
(***************************************************************************)
EXTENDS VfdConfig

CONSTANTS c1, c2

TwoVfs   == {0, 1}
ThreeVfs == {0, 1, 2}

\* Bound: interrupts come only in behaviours with two of the VFs and one of the
\* configurations.  No step of a thread of VFd breaks it.
Small ==
  /\ nreqs <= MaxBoth /\ req.vf \in TwoVfs \cup {NoVf} /\ req.cfg \in {c1, NoCfg}
  /\ \A y \in Slots : num[y] \in TwoVfs \cup {NoVf} /\ cfg[y] \in {c1, NoCfg}
  /\ \A e \in mbox : e.vf \in TwoVfs \cup {NoVf}

SmallRequest ==
  \E v \in TwoVfs : AddRejected(v) \/ AddReserve(v, c1) \/ DelRejected(v) \/ DelMark(v)

MCNext ==
  \/ SmallRequest \/ (nevents = 0 /\ Request)
  \/ Main \/ Refresh \/ Callback \/ Poll
  \/ Device /\ Small'
MCSpec == Init /\ [][MCNext]_vars /\ Fairness
=============================================================================
