----------------------------- MODULE VfRegistry ----------------------------
(***************************************************************************)
(* What the request interface of VFd promises to one client at a time: a   *)
(* table of managed VFs that requests change, a NIC that only the VF of    *)
(* the current request is changed on, and an answer that is given when the *)
(* NIC agrees with the table again.                                        *)
(***************************************************************************)
CONSTANTS
  VfIds,  \* VF numbers
  Cfgs,   \* configurations
  NoCfg,  \* not managed
  Mixed   \* a VF on which the NIC holds only part of a configuration

VARIABLES
  table,  \* [VfIds -> Cfgs or NoCfg], the VFs managed
  nic,    \* [VfIds -> Cfgs, NoCfg or Mixed], what the NIC holds
  busy    \* the VFs of requests accepted and not answered: none or one

regVars == <<table, nic, busy>>

RegInit ==
  /\ table \in [VfIds -> Cfgs \cup {NoCfg}]
  /\ nic = table
  /\ busy = {}

Accept(v, c) ==
  /\ busy = {}
  /\ busy' = {v}
  /\ (table[v] = NoCfg) # (c = NoCfg)     \* add what is not there, delete what is
  /\ table' = [table EXCEPT ![v] = c]
  /\ UNCHANGED nic

\* The NIC is changed for the VF of the request, in any number of steps.
Drive(v, s) ==
  /\ v \in busy
  /\ nic' = [nic EXCEPT ![v] = s]
  /\ UNCHANGED <<table, busy>>

Answer ==
  /\ busy # {}
  /\ nic = table
  /\ busy' = {}
  /\ UNCHANGED <<table, nic>>

RegNext ==
  \/ \E v \in VfIds, c \in Cfgs \cup {NoCfg} : Accept(v, c)
  \/ \E v \in VfIds, s \in Cfgs \cup {NoCfg, Mixed} : Drive(v, s)
  \/ Answer

RegSpec == RegInit /\ [][RegNext]_regVars
=============================================================================
