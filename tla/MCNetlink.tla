----------------------------- MODULE MCNetlink ------------------------------
(***************************************************************************)
(* An instance of Netlink for TLC.                                         *)
(***************************************************************************)
EXTENDS Netlink

CONSTANTS v1, v2
MCVfIds == {v1, v2}
MCRestorers == {"refresh"}
=============================================================================
