--------------------------- MODULE MCRefreshQueue ---------------------------
(***************************************************************************)
(* RefreshQueue with two VFs: two entries are enough, one slot is reused.  *)
(***************************************************************************)
EXTENDS RefreshQueue
CONSTANTS v1, v2
MCVfIds == {v1, v2}

\* One message for each way through the callbacks that the queue can tell apart.
MCSent == {"reset", "refresh", "macvlan", "lpe", "negotiate", "enable", "disable", "promisc", "cfg"}
=============================================================================
