---------------------------- MODULE RefreshQueue ----------------------------
(***************************************************************************)
(* The refresh queue (sriov.c) and its readiness: the settings of a VF     *)
(* whose guest reset it are put back when the VF's receive queues are up.  *)
(* The interrupt thread runs the mailbox callbacks and adds entries, the   *)
(* refresh thread sweeps the list every 200 ms, main adds and deletes VFs. *)
(*                                                                         *)
(* One PF.  Its NIC is an ixgbe, an i40e or a bnxt, chosen at the start.   *)
(* The order in the list is unimportant (sriov.c says so): a sweep takes   *)
(* the entries in any order.  Adding and deleting a VF is one step each;   *)
(* VfdConfig has their parts, and shows that a delete may be lost.         *)
(***************************************************************************)
EXTENDS Naturals, FiniteSets, Mailbox

CONSTANTS
  VfIds,      \* VFs of the PF
  Added,      \* VFs that VFd finds configured when it starts
  Slots,      \* entries of port->vfs
  Nodes,      \* memory for rq_entry structures
  None,       \* no VF, no slot, no node
  Sent,       \* bound: the messages that guests send
  MaxMsgs,    \* bound: messages and resets of guests
  MaxReqs     \* bound: adds and deletes

ASSUME RqAssumption ==
  /\ None \notin VfIds \cup Slots \cup Nodes \cup [vf : VfIds, enabled : BOOLEAN]
  /\ Added \subseteq VfIds
  /\ MaxMsgs \in Nat /\ MaxReqs \in Nat

VARIABLES
  nic,        \* the kind of the NIC
  slot,       \* vfs[s].num
  ready,      \* vfs[s].rx_q_ready, which an i40e keeps
  on,         \* VFs whose receive queues are up
  set,        \* VFs whose settings the NIC has
  drop,       \* VFs with the drop bit of their queues on
  item,       \* the rq_entry at each node, None when it is not in the list
  rqLock,     \* holder of rte_refresh_q_lock, or "free"
  updLock,    \* holder of update_lock, or "free"
  mbox,       \* the message a guest waits for an answer to
  cb,         \* interrupt thread: the message it works on
  pcI,        \* interrupt thread: where it is
  pcR,        \* refresh thread: where it is
  todo,       \* refresh thread: nodes left in this sweep
  cur,        \* refresh thread: the node it works on
  again,      \* history: entries whose VF went down after they were found ready
  crashed,    \* a null pointer was followed
  nmsgs, nreqs

intrVars  == <<mbox, cb, pcI>>
sweepVars == <<pcR, todo, cur>>
rqVars    == <<nic, slot, ready, on, set, drop, item, rqLock, updLock, intrVars, sweepVars,
               again, crashed, nmsgs, nreqs>>

(***************************************************************************)
(* State functions.                                                        *)
(***************************************************************************)

\* suss_vf
SlotOf(v) == {s \in Slots : slot[s] = v}
Managed   == {v \in VfIds : SlotOf(v) # {}}

Listed       == {n \in Nodes : item[n] # None}
Queued(v)    == \E n \in Listed : item[n].vf = v
NoMsg        == [vf |-> None]

\* is_rx_queue_on.  The i40e's looks into the vf_s, and does not ask if there is one.
FollowsNull(v) == nic = "i40e" /\ SlotOf(v) = {}
Ready(v) == IF nic = "i40e" THEN \E s \in SlotOf(v) : ready[s] ELSE v \in on

\* set_rx_drop: only the ixgbe has the bit.
DropOn(v)  == IF nic = "ixgbe" THEN drop \cup {v} ELSE drop
DropOff(v) == drop \ {v}

\* VFd has added the VFs whose files it found (vfd_add_all_vfs).
RqInit ==
  /\ nic \in Kinds
  /\ slot \in [Slots -> Added \cup {None}] /\ Managed = Added
  /\ \A s, t \in Slots : slot[s] = slot[t] => slot[s] = None \/ s = t
  /\ ready = [s \in Slots |-> FALSE]
  /\ on = {} /\ set = Managed /\ drop = {} /\ again = {}
  /\ item = [n \in Nodes |-> None]
  /\ rqLock = "free" /\ updLock = "free"
  /\ mbox = [v \in VfIds |-> NoMsg] /\ cb = NoMsg /\ pcI = "idle"
  /\ pcR = "sleep" /\ todo = {} /\ cur = None
  /\ crashed = FALSE /\ nmsgs = 0 /\ nreqs = 0

(***************************************************************************)
(* Main.                                                                   *)
(***************************************************************************)

\* vfd_add_vf and the update that follows; the slot is cleared first.
AddVf(v) ==
  /\ nreqs < MaxReqs /\ updLock = "free" /\ v \notin Managed
  /\ \E s \in Slots :
       /\ slot[s] = None
       /\ slot' = [slot EXCEPT ![s] = v]
       /\ ready' = [ready EXCEPT ![s] = FALSE]
  /\ set' = set \cup {v}
  /\ nreqs' = nreqs + 1
  /\ UNCHANGED <<nic, on, drop, item, rqLock, updLock, intrVars, sweepVars, crashed, nmsgs>>

\* vfd_del_vf and the update that follows.  The refresh queue is not told.
DelVf(v) ==
  /\ nreqs < MaxReqs /\ updLock = "free"
  /\ \E s \in SlotOf(v) : slot' = [slot EXCEPT ![s] = None]
  /\ set' = set \ {v}
  /\ nreqs' = nreqs + 1
  /\ UNCHANGED <<nic, ready, on, drop, item, rqLock, updLock, intrVars, sweepVars, crashed, nmsgs>>

(***************************************************************************)
(* Guests, and the NIC.  A VF driver sends one message and waits.          *)
(***************************************************************************)

Send(v, m, fine) ==
  /\ nmsgs < MaxMsgs /\ mbox[v] = NoMsg
  /\ m \in Messages(nic) \cap Sent /\ (fine \/ m \in Checked(nic))
  /\ mbox' = [mbox EXCEPT ![v] = [vf |-> v, msg |-> m, fine |-> fine]]
  /\ IF m = "reset" /\ nic = "ixgbe"      \* VTCTRL.RST comes before the message
     THEN on' = on \ {v} /\ set' = set \ {v}
     ELSE UNCHANGED <<on, set>>
  /\ nmsgs' = nmsgs + 1
  /\ UNCHANGED <<nic, slot, ready, drop, item, rqLock, updLock, cb, pcI, sweepVars, crashed, nreqs>>

\* The driver of an ixgbe or bnxt switches its queues through registers or rings of
\* its own; a bnxt's configures its VNIC when they are up.
SwitchOn(v) ==
  /\ nic # "i40e" /\ mbox[v] = NoMsg /\ v \notin on
  /\ on' = on \cup {v}
  /\ IF nic = "bnxt"
     THEN mbox' = [mbox EXCEPT ![v] = [vf |-> v, msg |-> "refresh", fine |-> TRUE]]
     ELSE UNCHANGED mbox
  /\ UNCHANGED <<nic, slot, ready, set, drop, item, rqLock, updLock, cb, pcI, sweepVars, crashed,
                 nmsgs, nreqs>>

SwitchOff(v) ==
  /\ nic # "i40e" /\ mbox[v] = NoMsg /\ v \in on /\ nmsgs < MaxMsgs
  /\ on' = on \ {v}
  /\ nmsgs' = nmsgs + 1
  /\ UNCHANGED <<nic, slot, ready, set, drop, item, rqLock, updLock, intrVars, sweepVars, crashed, nreqs>>

(***************************************************************************)
(* The interrupt thread: one callback at a time.                           *)
(***************************************************************************)

Crash == crashed' = TRUE

\* What a callback does first; vfp is what suss_vf gave it.
FirstStep(m, vfp) ==
  IF nic = "i40e" /\ vfp = None THEN "answer"
  ELSE IF nic = "i40e" /\ m.msg \in {"reset", "enable", "disable"} THEN "flag"
  ELSE IF m.msg \in RestoresNow(nic) THEN "restore"
  ELSE IF QueuesRefresh(nic, m.msg, m.fine /\ vfp # None) THEN "search"
  ELSE "answer"

CbTake(v) ==
  /\ pcI = "idle" /\ mbox[v] # NoMsg
  /\ \E vfp \in IF SlotOf(v) = {} THEN {None} ELSE SlotOf(v) :
       /\ cb' = [vf |-> v, msg |-> mbox[v].msg, fine |-> mbox[v].fine, vfp |-> vfp, enabled |-> FALSE]
       /\ pcI' = FirstStep(mbox[v], vfp)
  /\ UNCHANGED <<nic, slot, ready, on, set, drop, item, rqLock, updLock, mbox, sweepVars, crashed,
                 nmsgs, nreqs>>

\* rte_spinlock_unlock after a flag was stored, and its mutant that forgets it.
FlagStays   == updLock' = "intr"
FlagUnlocks == UNCHANGED updLock

\* i40e: rx_q_ready of the slot found before, under update_lock.
CbFlag ==
  /\ pcI = "flag" /\ updLock = "free"
  /\ ready' = [ready EXCEPT ![cb.vfp] = (cb.msg = "enable")]
  /\ FlagUnlocks
  /\ pcI' = IF cb.msg = "enable" THEN "search" ELSE "answer"
  /\ UNCHANGED <<nic, slot, on, set, drop, item, rqLock, mbox, cb, sweepVars, crashed, nmsgs, nreqs>>

AfterRestore == IF cb.msg = "lpe" THEN "search" ELSE "answer"

\* restore_vf_setings: finds the VF without a lock, and updates the NIC under it.
CbRestore ==
  /\ pcI = "restore"
  /\ IF cb.vf \in Managed
     THEN updLock = "free" /\ updLock' = "intr" /\ pcI' = "pass"
     ELSE UNCHANGED updLock /\ pcI' = AfterRestore
  /\ UNCHANGED <<nic, slot, ready, on, set, drop, item, rqLock, mbox, cb, sweepVars, crashed, nmsgs, nreqs>>

CbPass ==
  /\ pcI = "pass"
  /\ set' = set \cup ({cb.vf} \cap Managed)
  /\ updLock' = "free"
  /\ pcI' = AfterRestore
  /\ UNCHANGED <<nic, slot, ready, on, drop, item, rqLock, mbox, cb, sweepVars, crashed, nmsgs, nreqs>>

\* An entry of the VF in the list, and a mutant of the search that passes over ready ones.
FindNotReady(v) == {n \in Listed : item[n].vf = v /\ ~item[n].enabled}
Find(v)         == {n \in Listed : item[n].vf = v}

\* rte_spinlock_lock before the search, and its mutant without the lock.
SearchUnlocked == TRUE
MaySearch      == rqLock = "free"

\* add_refresh_queue, the search: an entry that is there is asked for again.
CbSearch ==
  /\ pcI = "search" /\ MaySearch
  /\ IF Find(cb.vf) = {}
     THEN pcI' = "alloc" /\ UNCHANGED <<item, crashed>>
     ELSE \E n \in Find(cb.vf) :
            IF item[n].enabled THEN pcI' = "answer" /\ UNCHANGED <<item, crashed>>
            ELSE IF FollowsNull(cb.vf) THEN Crash /\ UNCHANGED <<item, pcI>>
            ELSE /\ item' = [item EXCEPT ![n].enabled = Ready(cb.vf)]
                 /\ pcI' = "answer" /\ UNCHANGED crashed
  /\ UNCHANGED <<nic, slot, ready, on, set, drop, rqLock, updLock, mbox, cb, sweepVars, nmsgs, nreqs>>

\* The new entry is filled in without the lock, and its mutant that takes every VF as ready.
NewReadyBlindly(v) == TRUE
NewReady(v)        == Ready(v)

CbAlloc ==
  /\ pcI = "alloc"
  /\ IF FollowsNull(cb.vf) THEN Crash /\ UNCHANGED <<cb, pcI>>
     ELSE cb' = [cb EXCEPT !.enabled = NewReady(cb.vf)] /\ pcI' = "push" /\ UNCHANGED crashed
  /\ UNCHANGED <<nic, slot, ready, on, set, drop, item, rqLock, updLock, mbox, sweepVars, nmsgs, nreqs>>

CbPush ==
  /\ pcI = "push" /\ rqLock = "free"
  /\ \E n \in Nodes \ Listed :
       item' = [item EXCEPT ![n] = [vf |-> cb.vf, enabled |-> cb.enabled]]
  /\ drop' = DropOn(cb.vf)
  /\ pcI' = "answer"
  /\ UNCHANGED <<nic, slot, ready, on, set, rqLock, updLock, mbox, cb, sweepVars, crashed, nmsgs, nreqs>>

\* The i40e looks into its slot again before it lets a VF enable queues.
CbAnswers ==
  IF nic = "i40e" /\ cb.vfp # None /\ cb.msg \in {"enable", "promisc"} /\ slot[cb.vfp] = None
  THEN "nack" ELSE Answer(nic, cb.msg, cb.fine, cb.vfp # None)

\* The callback returns, and DPDK or the firmware does what was let through.
CbAnswer ==
  /\ pcI = "answer"
  /\ mbox' = [mbox EXCEPT ![cb.vf] = NoMsg]
  /\ on' = IF CbAnswers # "proceed" THEN on
           ELSE IF cb.msg = "enable" THEN on \cup {cb.vf}
           ELSE IF cb.msg \in {"disable", "reset"} THEN on \ {cb.vf}
           ELSE on
  /\ set' = IF CbAnswers = "proceed" /\ cb.msg = "reset" THEN set \ {cb.vf} ELSE set
  /\ cb' = NoMsg /\ pcI' = "idle"
  /\ UNCHANGED <<nic, slot, ready, drop, item, rqLock, updLock, sweepVars, crashed, nmsgs, nreqs>>

(***************************************************************************)
(* The refresh thread: process_refresh_queue.                              *)
(***************************************************************************)

Wake ==
  /\ pcR = "sleep" /\ rqLock = "free"
  /\ rqLock' = "refresh" /\ todo' = Listed /\ pcR' = "sweep"
  /\ UNCHANGED <<nic, slot, ready, on, set, drop, item, updLock, intrVars, cur, crashed, nmsgs, nreqs>>

\* What a sweep finds out, and its mutant that leaves it to the callbacks.
SweepNotReady(v) == FALSE
SweepReady(v)    == Ready(v)

\* An entry that was not ready is asked again; its turn comes in the next sweep.
AskAgain ==
  /\ pcR = "sweep"
  /\ \E n \in todo :
       /\ ~item[n].enabled
       /\ todo' = todo \ {n}
       /\ IF FollowsNull(item[n].vf) THEN Crash /\ UNCHANGED item
          ELSE item' = [item EXCEPT ![n].enabled = SweepReady(item[n].vf)] /\ UNCHANGED crashed
  /\ UNCHANGED <<nic, slot, ready, on, set, drop, rqLock, updLock, intrVars, pcR, cur, nmsgs, nreqs>>

\* restore_vf_setings, with rte_refresh_q_lock held.
Restore ==
  /\ pcR = "sweep"
  /\ \E n \in todo :
       /\ item[n].enabled /\ cur' = n
       /\ IF item[n].vf \in Managed
          THEN updLock = "free" /\ updLock' = "refresh" /\ pcR' = "pass"
          ELSE UNCHANGED updLock /\ pcR' = "unlink"
  /\ UNCHANGED <<nic, slot, ready, on, set, drop, item, rqLock, intrVars, todo, crashed, nmsgs, nreqs>>

RestorePass ==
  /\ pcR = "pass"
  /\ set' = set \cup ({item[cur].vf} \cap Managed)
  /\ updLock' = "free"
  /\ pcR' = "unlink"
  /\ UNCHANGED <<nic, slot, ready, on, drop, item, rqLock, intrVars, todo, cur, crashed, nmsgs, nreqs>>

\* The drop bit is switched off and the entry leaves the list; with a mutant that
\* forgets the bit.
UnlinkDropOn == UNCHANGED drop
UnlinkDrop   == drop' = DropOff(item[cur].vf)

\* The sweep goes on behind the entry it frees; with a mutant that goes through it.
ThroughFreed == todo
Behind       == todo \ {cur}

Unlink ==
  /\ pcR = "unlink"
  /\ UnlinkDrop
  /\ item' = [item EXCEPT ![cur] = None]
  /\ todo' = Behind /\ cur' = None /\ pcR' = "sweep"
  /\ UNCHANGED <<nic, slot, ready, on, set, rqLock, updLock, intrVars, crashed, nmsgs, nreqs>>

GoToSleep ==
  /\ pcR = "sweep" /\ todo = {}
  /\ rqLock' = "free" /\ pcR' = "sleep"
  /\ UNCHANGED <<nic, slot, ready, on, set, drop, item, updLock, intrVars, todo, cur, crashed, nmsgs, nreqs>>

(***************************************************************************)
(* The specification.                                                      *)
(***************************************************************************)

Main     == \E v \in VfIds : AddVf(v) \/ DelVf(v)
Guest    == \E v \in VfIds :
              \/ \E m \in Messages(nic), fine \in BOOLEAN : Send(v, m, fine)
              \/ SwitchOn(v) \/ SwitchOff(v)
Callback == (\E v \in VfIds : CbTake(v)) \/ CbFlag \/ CbRestore \/ CbPass
              \/ CbSearch \/ CbAlloc \/ CbPush \/ CbAnswer
Refresh  == Wake \/ AskAgain \/ Restore \/ RestorePass \/ Unlink \/ GoToSleep

\* VFs with an entry, or with one the interrupt thread is about to push.
Waiting == {v \in VfIds : Queued(v) \/ (pcI = "push" /\ cb.vf = v)}

\* A crash ends the program.
Step(A) ==
  /\ ~crashed
  /\ A
  /\ again' = {v \in Waiting' : v \in again \/ (Ready(v) /\ ~Ready(v)')}

RqNext == Step(Main \/ Guest \/ Callback \/ Refresh)

RqSpec == RqInit /\ [][RqNext]_rqVars

\* Each thread runs; the refresh thread sleeps between sweeps, and a thread that spins on
\* its lock gets it then.
RqFairSpec ==
  /\ RqSpec
  /\ WF_rqVars(Step(Refresh))
  /\ WF_rqVars(Step(Callback)) /\ SF_rqVars(Step(CbSearch \/ CbPush))

(***************************************************************************)
(* Properties.                                                             *)
(***************************************************************************)

Entries == [vf : VfIds, enabled : BOOLEAN]

VfTypes ==
  /\ nic \in Kinds
  /\ slot \in [Slots -> VfIds \cup {None}] /\ ready \in [Slots -> BOOLEAN]
  /\ on \subseteq VfIds /\ set \subseteq VfIds /\ drop \subseteq VfIds

QueueTypes ==
  /\ item \in [Nodes -> Entries \cup {None}]
  /\ rqLock \in {"free", "refresh"} /\ updLock \in {"free", "intr", "refresh"}
  /\ todo \subseteq Listed /\ cur \in Nodes \cup {None}
  /\ crashed \in BOOLEAN

RqTypeOK == VfTypes /\ QueueTypes /\ again \subseteq VfIds

\* A VF has at most one entry: add_refresh_queue ignores a reset that is already queued,
\* although it lets the lock go between the search and the push.
OneEntryPerVf == \A n, m \in Listed : item[n].vf = item[m].vf => n = m

\* The drop bit of a VF is on exactly while an entry of it is in the list, so no VF is
\* left without reception (set_rx_drop in add_refresh_queue and process_refresh_queue).
DropFollowsQueue == nic = "ixgbe" => \A v \in VfIds : v \in drop <=> Queued(v)

\* A managed VF whose settings were lost is not forgotten: its message is unanswered, an
\* entry is queued, or (i40e, bnxt) its queues are down, and enabling them queues one.
LossIsRemembered ==
  \A v \in Managed \ set : mbox[v] # NoMsg \/ Queued(v) \/ (nic # "ixgbe" /\ v \notin on)

\* The refresh thread restores only VFs that are ready, or were when it was asked and have
\* gone down since then.
RestoresWhenReady ==
  [][pcR # "pass" /\ pcR' = "pass" => Ready(item[cur'].vf) \/ item[cur'].vf \in again]_rqVars

\* Every entry leaves the list, unless its VF goes down again and again or stays down.
PendingIsServed == \A v \in VfIds : []<>(~Queued(v) \/ ~Ready(v) \/ crashed)

\* Every message is answered: the callback, which takes both locks one after the other,
\* and the refresh thread, which takes update_lock inside the other, never wait for each other.
CallbacksEnd == \A v \in VfIds : mbox[v] # NoMsg ~> mbox[v] = NoMsg \/ crashed
=============================================================================
