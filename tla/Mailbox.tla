------------------------------- MODULE Mailbox -------------------------------
(***************************************************************************)
(* How VFd's mailbox callbacks react to the messages of a guest's VF       *)
(* driver: vfd_ixgbe.c, vfd_i40e.c and vfd_bnxt.c (the callback of an mlx5 *)
(* is never registered).  Messages that a callback treats alike are one    *)
(* message here.  A message may be "fine" or not: its VLAN is configured,  *)
(* its MTU below the port's, its MAC address acceptable.                   *)
(***************************************************************************)
EXTENDS FiniteSets

Kinds == {"ixgbe", "i40e", "bnxt"}

\* "refresh": SET_MULTICAST, GET_QUEUES, UPDATE_XCAST_MODE; "lpe": SET_LPE, the MTU;
\* "other": SET_MACVLAN without an address, or with zeros (MacTable has what it clears).
IxgbeMsgs == {"reset", "mac", "refresh", "vlan", "lpe", "macvlan", "other", "negotiate", "unknown"}

\* "vlan": ADD_VLAN and DEL_VLAN; "other": everything answered PROCEED and forgotten.
I40eMsgs == {"reset", "enable", "disable", "promisc", "vlan", "other", "unknown"}

\* "cfg": FUNC_VF_CFG and L2_FILTER_ALLOC, which carry a MAC; "mask": SET_RX_MASK;
\* "unknown": everything that is not allowed.
BnxtMsgs == {"reset", "cfg", "mask", "refresh", "other", "unknown"}

Messages(kind) ==
  CASE kind = "ixgbe" -> IxgbeMsgs
    [] kind = "i40e"  -> I40eMsgs
    [] kind = "bnxt"  -> BnxtMsgs

\* Messages whose data is checked, and refused when it is not fine.
Checked(kind) ==
  CASE kind = "ixgbe" -> {"mac", "vlan", "lpe", "macvlan"}
    [] kind = "i40e"  -> {"vlan"}
    [] kind = "bnxt"  -> {"cfg"}

\* Messages that put all settings back at once: restore_vf_setings.
RestoresNow(kind) == IF kind = "ixgbe" THEN {"lpe", "negotiate", "unknown"} ELSE {}

\* Messages that queue a refresh; a white-list address does when it was taken.
QueuesRefresh(kind, m, fine) ==
  CASE kind = "ixgbe" -> m \in {"reset", "mac", "refresh", "vlan", "lpe"} \/ (m = "macvlan" /\ fine)
    [] kind = "i40e"  -> m \in {"enable", "promisc"}
    [] kind = "bnxt"  -> m \in {"reset", "cfg", "mask", "refresh"}

\* The retval: "ack" tells the guest yes and does nothing, "proceed" lets DPDK do
\* what the message asks for, "nack" refuses.  known: the VF is in the table;
\* i40e lets everything of an unknown VF through.
Answer(kind, m, fine, known) ==
  IF kind = "i40e" /\ ~known THEN "proceed"
  ELSE IF \/ m = "unknown"
          \/ m \in Checked(kind) \ {"lpe"} /\ ~(fine /\ known)
          \/ m = "lpe" /\ ~fine THEN "nack"
  ELSE IF kind = "ixgbe" /\ m \in {"reset", "vlan"} THEN "ack"
  ELSE "proceed"

(***************************************************************************)
(* What is left of the traffic a guest asks for, given what its            *)
(* configuration allows: subsets of {"ucast", "mcast", "bcast"}.           *)
(***************************************************************************)

Narrow(flags, flag, allow) == IF flag \in allow THEN flags \cap {flag} ELSE flags \ {flag}

\* CONFIG_PROMISCUOUS_MODE of an i40e: one mask after the other.
I40ePromisc(flags, allow) == Narrow(Narrow(flags, "ucast", allow), "mcast", allow)

\* apply_rx_restrictions of a bnxt on the mask of the message, a subset of RxMask.
\* "mcast" without entries, which a VF gets that may not have multicast, is harmless.
\* With a mutant that looks at the unicast promiscuous mode only.
RxMask == {"mcast", "all_mcast", "bcast", "promisc"}
BnxtMaskUcast(mask, known, allow) ==
  IF ~known THEN mask \ RxMask ELSE IF "ucast" \in allow THEN mask ELSE mask \ {"promisc"}
BnxtRxMask(mask, known, allow) ==
  IF ~known THEN mask \ RxMask
  ELSE LET b == IF "bcast" \in allow THEN mask ELSE mask \ {"bcast", "promisc"}
           m == IF "mcast" \in allow THEN b ELSE (b \ {"bcast", "all_mcast", "promisc"}) \cup {"mcast"}
       IN IF "ucast" \in allow THEN m ELSE m \ {"promisc"}
=============================================================================
