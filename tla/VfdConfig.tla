----------------------------- MODULE VfdConfig -----------------------------
(***************************************************************************)
(* The running configuration of one PF (struct sriov_port_s, sriov.h) and  *)
(* the three threads that change it:                                       *)
(*   main     the request loop: vfd_req_if -> vfd_add_vf / vfd_del_vf and  *)
(*            then vfd_update_nic;                                         *)
(*   refresh  process_refresh_queue -> restore_vf_setings -> vfd_update_nic*)
(*   intr     the DPDK interrupt thread: mailbox and link callbacks, which *)
(*            queue a refresh or call restore_vf_setings themselves.       *)
(*                                                                         *)
(* update_lock is held by vfd_update_nic and by the copy phase of          *)
(* vfd_add_vf.  Everything else (the scans for a VF id, the num_vfs        *)
(* increment, the DELETED mark, the RESET mark) runs without it, and the   *)
(* steps below are as fine as that makes them: vfd_update_nic reads        *)
(* last_updated again in each of its four parts, so each is a step.        *)
(*                                                                         *)
(* A configuration (VLAN list, MACs, options of one VF file) is a model    *)
(* value of Cfgs; the NIC remembers for each VF which configurations its   *)
(* VLAN filter, MAC list and option registers were programmed from.        *)
(* Mirrors, MAC bookkeeping and QoS shares are not part of this module.    *)
(***************************************************************************)
EXTENDS Integers

CONSTANTS
  NSlots,     \* slots in port->vfs (MAX_VFS)
  VfIds,      \* VF numbers the PF has (0 .. nvfs_config-1)
  HighVf,     \* the VF selected by the bit that 1U << -1 sets on x86
  Cfgs,       \* contents a VF configuration file can have
  NoCfg,      \* nothing configured
  Requests,   \* kinds of requests in this instance: subset of {"add","del"}
  Events,     \* events: subset of {"reset","negotiate","lpe","link"}
  BootSizes,  \* how many VFs may be managed already when the threads start
  MaxReqs,    \* bound on the requests of a behaviour
  MaxBoth,    \* bound on those of a behaviour with interrupts
  MaxEvents   \* bound on the interrupts of a behaviour

Slots   == 0 .. NSlots - 1
NoVf    == -1
Threads == {"main", "refresh", "intr"}
Flags   == {"unchanged", "added", "deleted", "reset"}
CfgOrNo == Cfgs \cup {NoCfg}

ASSUME SizesAssumption ==
  /\ NSlots \in Nat \ {0}
  /\ VfIds \subseteq Nat
  /\ 0 \in VfIds
  /\ HighVf \in VfIds
  /\ MaxReqs \in Nat /\ MaxBoth \in 0 .. MaxReqs
  /\ MaxEvents \in Nat
ASSUME NamesAssumption ==
  /\ NoCfg \notin Cfgs
  /\ Requests \subseteq {"add", "del"}
  /\ Events \subseteq {"reset", "negotiate", "lpe", "link"}
ASSUME BootAssumption == BootSizes \subseteq 0 .. NSlots

VARIABLES
  numVfs,     \* port->num_vfs: slots in use, holes included
  num,        \* vfs[y].num, NoVf in a hole
  upd,        \* vfs[y].last_updated
  cfg,        \* the configuration copied into vfs[y]
  macs,       \* the configuration whose MACs are in vfs[y].macs
  lock,       \* holder of update_lock, or "free"
  pc,         \* where each thread is
  cur,        \* loop index y of vfd_update_nic, per thread
  scan,       \* loop index y of restore_vf_setings, per thread
  rvf,        \* vf_id argument of restore_vf_setings; NoVf means all
  req,        \* the request main works on: [op, vf, cfg, slot, ok]
  nicVlans,   \* the VLAN filter memberships of each VF, by configuration
  nicMacs,    \* the configuration each VF's MACs come from
  nicOpts,    \* the configuration each VF's other settings come from
  rq,         \* VFs waiting in rq_list
  mbox,       \* interrupts raised and not yet handled
  after,      \* what the callback does after its restore: "return" or "queue"
  nreqs,      \* requests so far
  nevents     \* interrupts so far

slotVars == <<numVfs, num, upd, cfg, macs>>
nicVars  == <<nicVlans, nicMacs, nicOpts>>
evVars   == <<rq, mbox, after, nevents>>
vars     == <<slotVars, nicVars, evVars, lock, pc, cur, scan, rvf, req, nreqs>>

\* A request that changes nothing.
Rejected(op, v) == [op |-> op, vf |-> v, cfg |-> NoCfg, slot |-> 0, ok |-> FALSE]
NoReq == Rejected("none", NoVf)

(***************************************************************************)
(* State functions.                                                        *)
(***************************************************************************)

\* Slots the loops over port->vfs visit.
Used == {y \in Slots : y < numVfs}

Holding(v) == {y \in Used : num[y] = v}

\* The first slot with number v, if there is one: what suss_vf and the scans of
\* vfd_add_vf (for a hole) and vfd_del_vf find.
First(v) == {y \in Holding(v) : \A z \in Holding(v) : y <= z}

\* No slot has the id yet: the duplicate test of vfd_add_vf.
FreeUnchecked(v) == TRUE   \* mutant: no such test
Free(v) == Holding(v) = {}

\* Where vfd_add_vf puts the next VF: the first hole, or behind the last slot if
\* there is none; nowhere when all slots are taken.
InsertUnbounded == First(NoVf) \cup {y \in {numVfs} : Holding(NoVf) = {}}  \* mutant: no limit
InsertAt == First(NoVf) \cup {y \in Slots : y = numVfs /\ Holding(NoVf) = {}}

\* In the update pass, on slot cur of thread t.
InPass == {"slot", "mac", "opt", "mark"}

\* Slot main has reserved and not filled yet.
Filling(y) == pc["main"] \in {"reserved", "cleared"} /\ y = req.slot

Managed(v) == \E y \in Holding(v) : ~Filling(y) /\ upd[y] # "deleted"

\* What VFd believes VF v should be configured with.
Wanted(v) ==
  IF Managed(v) THEN cfg[CHOOSE y \in Holding(v) : ~Filling(y) /\ upd[y] # "deleted"]
  ELSE NoCfg

\* The NIC holds exactly configuration c for VF v.
Programmed(v, c) ==
  /\ nicVlans[v] = {c} \ {NoCfg}
  /\ nicMacs[v] = c
  /\ nicOpts[v] = c

AllIdle == \A t \in Threads : pc[t] = "idle"
Quiet   == AllIdle /\ mbox = {} /\ rq = {}

(***************************************************************************)
(* Initially some VFs fill the first slots, and the NIC is programmed.     *)
(***************************************************************************)
Init ==
  /\ pc = [t \in Threads |-> "idle"]
  /\ req = NoReq
  /\ upd = [y \in Slots |-> "unchanged"]
  /\ \E n \in BootSizes, ids \in [Slots -> VfIds], c \in [Slots -> Cfgs] :
       /\ \A y, z \in 0 .. n - 1 : ids[y] = ids[z] => y = z
       /\ numVfs = n
       /\ num = [y \in Slots |-> IF y < n THEN ids[y] ELSE 0]
       /\ cfg = [y \in Slots |-> IF y < n THEN c[y] ELSE NoCfg]
  /\ macs = cfg
  /\ nicVlans = [v \in VfIds |-> {cfg[y] : y \in Holding(v)}]
  /\ nicMacs = [v \in VfIds |-> Wanted(v)]
  /\ nicOpts = [v \in VfIds |-> Wanted(v)]
  /\ lock = "free"
  /\ cur = [t \in Threads |-> 0]
  /\ scan = [t \in Threads |-> 0]
  /\ rvf = [t \in Threads |-> NoVf]
  /\ rq = {}
  /\ mbox = {}
  /\ after = "return"
  /\ nreqs = 0
  /\ nevents = 0

Goto(t, label) == pc' = [pc EXCEPT ![t] = label]

\* rte_spinlock_lock and rte_spinlock_unlock of update_lock.
LockUnchecked(t) == lock' = t      \* mutant: enters without waiting
Lock(t) == lock = "free" /\ lock' = t

KeepLock == UNCHANGED lock         \* mutant: returns with the lock held
Unlock == lock' = "free"

\* rq_lock: the refresh thread holds it from the pick of an entry to its removal.
RqLockIgnored == TRUE              \* mutant: add_refresh_queue without rq_lock
RqLockFree == pc["refresh"] = "idle"

\* add_refresh_queue: a VF that is queued already is not queued again.
EnqueueOnePerPort(v) == rq' = IF rq = {} THEN {v} ELSE rq  \* mutant: compares ports only
Enqueue(v) == rq' = rq \cup {v}

(***************************************************************************)
(* main: vfd_add_vf.                                                       *)
(***************************************************************************)

\* Another request is within the bounds.
MayRequest == nreqs < IF nevents = 0 THEN MaxReqs ELSE MaxBoth

\* The vetting part rejects the file: duplicate id, no slot left, or one of
\* the checks on the file's contents (which depend on nothing modelled here).
AddRejected(v) ==
  /\ pc["main"] = "idle"
  /\ "add" \in Requests /\ MayRequest
  /\ nreqs' = nreqs + 1
  /\ req' = Rejected("add", v)
  /\ Goto("main", "reply")
  /\ UNCHANGED <<slotVars, nicVars, evVars, lock, cur, scan, rvf>>

\* The vetting part accepts it.  num_vfs is bumped before the lock is taken;
\* the slot it exposes still is what it was, zeroes if never used.
AddReserve(v, c) ==
  /\ pc["main"] = "idle"
  /\ "add" \in Requests /\ MayRequest
  /\ Free(v)
  /\ nreqs' = nreqs + 1
  /\ \E y \in InsertAt :
       /\ req' = [op |-> "add", vf |-> v, cfg |-> c, slot |-> y, ok |-> TRUE]
       /\ numVfs' = IF y = numVfs THEN numVfs + 1 ELSE numVfs
  /\ Goto("main", "reserved")
  /\ UNCHANGED <<num, upd, cfg, macs, nicVars, evVars, lock, cur, scan, rvf>>

\* Lock, then memset the slot to zero: its number is 0 until the next step.
AddClear ==
  /\ pc["main"] = "reserved"
  /\ Lock("main")
  /\ num' = [num EXCEPT ![req.slot] = 0]
  /\ upd' = [upd EXCEPT ![req.slot] = "unchanged"]
  /\ cfg' = [cfg EXCEPT ![req.slot] = NoCfg]
  /\ macs' = [macs EXCEPT ![req.slot] = NoCfg]
  /\ Goto("main", "cleared")
  /\ UNCHANGED <<numVfs, nicVars, evVars, cur, scan, rvf, req, nreqs>>

\* Copy the configuration, flag the slot ADDED, unlock.
AddFill ==
  /\ pc["main"] = "cleared"
  /\ num' = [num EXCEPT ![req.slot] = req.vf]
  /\ upd' = [upd EXCEPT ![req.slot] = "added"]
  /\ cfg' = [cfg EXCEPT ![req.slot] = req.cfg]
  /\ macs' = [macs EXCEPT ![req.slot] = req.cfg]
  /\ Unlock
  /\ Goto("main", "update")
  /\ UNCHANGED <<numVfs, nicVars, evVars, cur, scan, rvf, req, nreqs>>

(***************************************************************************)
(* main: vfd_del_vf.                                                       *)
(***************************************************************************)

\* No slot holds the id, or the name in the file is not the recorded one.
DelRejected(v) ==
  /\ pc["main"] = "idle"
  /\ "del" \in Requests /\ MayRequest
  /\ nreqs' = nreqs + 1
  /\ req' = Rejected("del", v)
  /\ Goto("main", "reply")
  /\ UNCHANGED <<slotVars, nicVars, evVars, lock, cur, scan, rvf>>

\* Flag the slot DELETED.  The lock is not taken.
DelMark(v) ==
  /\ pc["main"] = "idle"
  /\ "del" \in Requests /\ MayRequest
  /\ \E y \in First(v) :
       /\ upd' = [upd EXCEPT ![y] = "deleted"]
       /\ req' = [op |-> "del", vf |-> v, cfg |-> cfg[y], slot |-> y, ok |-> TRUE]
  /\ nreqs' = nreqs + 1
  /\ Goto("main", "update")
  /\ UNCHANGED <<numVfs, num, cfg, macs, nicVars, evVars, lock, cur, scan, rvf>>

\* vfd_response, after vfd_update_nic returned or the request was rejected.
\* The answered request stays in req until the next one arrives.
Reply ==
  /\ pc["main"] = "reply"
  /\ Goto("main", "idle")
  /\ UNCHANGED <<slotVars, nicVars, evVars, lock, cur, scan, rvf, req, nreqs>>

(***************************************************************************)
(* vfd_update_nic, by any thread.                                          *)
(***************************************************************************)

UpdLock(t) ==
  /\ pc[t] = "update"
  /\ Lock(t)
  /\ cur' = [cur EXCEPT ![t] = 0]
  /\ Goto(t, "slot")
  /\ UNCHANGED <<slotVars, nicVars, evVars, scan, rvf, req, nreqs>>

\* last_updated is UNCHANGED: go on with the next slot.
UpdSkip(t) ==
  /\ pc[t] = "slot" /\ cur[t] < numVfs
  /\ upd[cur[t]] = "unchanged"
  /\ cur' = [cur EXCEPT ![t] = @ + 1]
  /\ UNCHANGED <<slotVars, nicVars, evVars, lock, pc, scan, rvf, req, nreqs>>

\* The VFs that VFN2MASK(n) can select.  1U << -1 is undefined: x86 masks the
\* count to 31 and selects VF 31, other machines shift the bit out.
Selected(n) == IF n = NoVf THEN {{}, {HighVf}} ELSE {{n}}

\* Part 1: VLAN filter.  A DELETED slot takes its VLANs out, any other flag
\* puts them in.
UpdVlans(t) ==
  /\ pc[t] = "slot" /\ cur[t] < numVfs
  /\ upd[cur[t]] # "unchanged"
  /\ LET y    == cur[t]
         list == {cfg[y]} \ {NoCfg} IN
       \E sel \in Selected(num[y]) :
         nicVlans' = [v \in VfIds |->
            IF v \notin sel THEN nicVlans[v]
            ELSE IF upd[y] = "deleted" THEN nicVlans[v] \ list
            ELSE nicVlans[v] \cup list]
  /\ Goto(t, "mac")
  /\ UNCHANGED <<slotVars, nicMacs, nicOpts, evVars, lock, cur, scan, rvf, req, nreqs>>

\* Part 2: MACs, of the first slot that suss_vf finds for the number.  clear_macs
\* forgets the slot's list and leaves a random default; set_macs pushes the list.
UpdMacs(t) ==
  /\ pc[t] = "mac"
  /\ LET v == num[cur[t]] IN
     \E y \in First(v) :
       IF upd[cur[t]] = "deleted"
       THEN /\ macs' = [macs EXCEPT ![y] = NoCfg]
            /\ nicMacs' = IF v = NoVf THEN nicMacs ELSE [nicMacs EXCEPT ![v] = NoCfg]
       ELSE /\ nicMacs' = IF v = NoVf \/ macs[y] = NoCfg THEN nicMacs
                          ELSE [nicMacs EXCEPT ![v] = macs[y]]
            /\ UNCHANGED macs
  /\ Goto(t, "opt")
  /\ UNCHANGED <<numVfs, num, upd, cfg, nicVlans, nicOpts, evVars, lock, cur, scan, rvf, req, nreqs>>

\* Part 3: rates, strip/insert, anti-spoof, link and cast settings; back to the
\* defaults when DELETED, and only then the slot becomes a hole.
UpdOpts(t) ==
  /\ pc[t] = "opt"
  /\ LET y == cur[t]
         v == num[y] IN
       IF upd[y] = "deleted"
       THEN /\ num' = [num EXCEPT ![y] = NoVf]
            /\ nicOpts' = IF v = NoVf THEN nicOpts ELSE [nicOpts EXCEPT ![v] = NoCfg]
       ELSE /\ nicOpts' = IF v = NoVf THEN nicOpts ELSE [nicOpts EXCEPT ![v] = cfg[y]]
            /\ UNCHANGED num
  /\ Goto(t, "mark")
  /\ UNCHANGED <<numVfs, upd, cfg, macs, nicVlans, nicMacs, evVars, lock, cur, scan, rvf, req, nreqs>>

\* Mutant: holes are not marked.
UpdMarkNotHole(t) ==
  /\ pc[t] = "mark"
  /\ upd' = IF num[cur[t]] = NoVf THEN upd ELSE [upd EXCEPT ![cur[t]] = "unchanged"]
  /\ cur' = [cur EXCEPT ![t] = @ + 1]
  /\ Goto(t, "slot")
  /\ UNCHANGED <<numVfs, num, cfg, macs, nicVars, evVars, lock, scan, rvf, req, nreqs>>

\* Part 4: mark the slot processed, whatever its flag is by now.
UpdMark(t) ==
  /\ pc[t] = "mark"
  /\ upd' = [upd EXCEPT ![cur[t]] = "unchanged"]
  /\ cur' = [cur EXCEPT ![t] = @ + 1]
  /\ Goto(t, "slot")
  /\ UNCHANGED <<numVfs, num, cfg, macs, nicVars, evVars, lock, scan, rvf, req, nreqs>>

\* Unlock and return: main answers, a restore goes on with its next slot.
UpdUnlock(t) ==
  /\ pc[t] = "slot" /\ cur[t] >= numVfs
  /\ Unlock
  /\ IF t = "main"
     THEN Goto(t, "reply") /\ UNCHANGED scan
     ELSE Goto(t, "scan") /\ scan' = [scan EXCEPT ![t] = @ + 1]
  /\ UNCHANGED <<slotVars, nicVars, evVars, cur, rvf, req, nreqs>>

(***************************************************************************)
(* restore_vf_setings, by the refresh and interrupt threads, without lock. *)
(***************************************************************************)

Restore(t, v) ==
  /\ rvf' = [rvf EXCEPT ![t] = v]
  /\ scan' = [scan EXCEPT ![t] = 0]
  /\ Goto(t, "scan")

\* The test of the loop.  Called for all VFs (-1), it also takes the holes, whose
\* number is -1.
Matches(t, y) == (rvf[t] < 0 /\ num[y] >= 0) \/ rvf[t] = num[y]

ScanSlot(t) ==
  /\ pc[t] = "scan" /\ scan[t] < numVfs
  /\ IF Matches(t, scan[t])
     THEN Goto(t, "flag") /\ UNCHANGED scan
     ELSE scan' = [scan EXCEPT ![t] = @ + 1] /\ UNCHANGED pc
  /\ UNCHANGED <<slotVars, nicVars, evVars, lock, cur, rvf, req, nreqs>>

\* vf->last_updated = RESET, whatever it was.
FlagReset(t) ==
  /\ pc[t] = "flag"
  /\ upd' = [upd EXCEPT ![scan[t]] = "reset"]
  /\ Goto(t, "update")
  /\ UNCHANGED <<numVfs, num, cfg, macs, nicVars, evVars, lock, cur, scan, rvf, req, nreqs>>

(***************************************************************************)
(* refresh: one ready entry of rq_list.  rq_lock is held from the pick to  *)
(* the removal.                                                            *)
(***************************************************************************)

RefreshPick ==
  /\ pc["refresh"] = "idle"
  /\ \E v \in rq : Restore("refresh", v)
  /\ UNCHANGED <<slotVars, nicVars, evVars, lock, cur, req, nreqs>>

RefreshPop ==
  /\ pc["refresh"] = "scan" /\ scan["refresh"] >= numVfs
  /\ rq' = rq \ {rvf["refresh"]}
  /\ Goto("refresh", "idle")
  /\ UNCHANGED <<slotVars, nicVars, mbox, after, nevents, lock, cur, scan, rvf, req, nreqs>>

(***************************************************************************)
(* intr: the callbacks.                                                    *)
(***************************************************************************)

\* A mailbox message that queues a refresh (IXGBE_VF_RESET and its like).
\* add_refresh_queue waits while the refresh thread holds rq_lock, and does
\* nothing when the VF is queued already.
CallbackQueue ==
  /\ pc["intr"] = "idle"
  /\ RqLockFree
  /\ \E e \in mbox :
       /\ e.kind = "reset"
       /\ mbox' = mbox \ {e}
       /\ Enqueue(e.vf)
  /\ UNCHANGED <<slotVars, nicVars, after, nevents, lock, pc, cur, scan, rvf, req, nreqs>>

\* IXGBE_VF_API_NEGOTIATE, IXGBE_VF_SET_LPE and unknown messages restore the VF
\* at once; a link-up interrupt restores every VF.
CallbackRestore ==
  /\ pc["intr"] = "idle"
  /\ \E e \in mbox :
       /\ e.kind # "reset"
       /\ mbox' = mbox \ {e}
       /\ Restore("intr", e.vf)
       /\ after' = IF e.kind = "lpe" THEN "queue" ELSE "return"
  /\ UNCHANGED <<slotVars, nicVars, rq, nevents, lock, cur, req, nreqs>>

CallbackDone ==
  /\ pc["intr"] = "scan" /\ scan["intr"] >= numVfs
  /\ after = "return"
  /\ Goto("intr", "idle")
  /\ UNCHANGED <<slotVars, nicVars, evVars, lock, cur, scan, rvf, req, nreqs>>

\* IXGBE_VF_SET_LPE queues a refresh of the VF as well.
CallbackRequeue ==
  /\ pc["intr"] = "scan" /\ scan["intr"] >= numVfs
  /\ after = "queue"
  /\ RqLockFree
  /\ Enqueue(rvf["intr"])
  /\ after' = "return"
  /\ Goto("intr", "idle")
  /\ UNCHANGED <<slotVars, nicVars, mbox, nevents, lock, cur, scan, rvf, req, nreqs>>

(***************************************************************************)
(* The device (external): a VF reset loses what was programmed for the VF  *)
(* and raises a mailbox interrupt; other interrupts lose nothing.          *)
(***************************************************************************)

GuestReset(v) ==
  /\ "reset" \in Events /\ nevents < MaxEvents
  /\ nevents' = nevents + 1
  /\ nicVlans' = [nicVlans EXCEPT ![v] = {}]
  /\ nicMacs' = [nicMacs EXCEPT ![v] = NoCfg]
  /\ nicOpts' = [nicOpts EXCEPT ![v] = NoCfg]
  /\ mbox' = mbox \cup {[kind |-> "reset", vf |-> v]}
  /\ UNCHANGED <<slotVars, rq, after, lock, pc, cur, scan, rvf, req, nreqs>>

Interrupt(e) ==
  /\ e.kind \in Events /\ nevents < MaxEvents
  /\ nevents' = nevents + 1
  /\ mbox' = mbox \cup {e}
  /\ UNCHANGED <<slotVars, nicVars, rq, after, lock, pc, cur, scan, rvf, req, nreqs>>

OtherInterrupts ==
  [kind : {"negotiate", "lpe"}, vf : VfIds] \cup [kind : {"link"}, vf : {NoVf}]

\* Nothing to do: main polls an empty request pipe, the others sleep.
Poll == Quiet /\ UNCHANGED vars

(***************************************************************************)
(* The next-state relation.                                                *)
(***************************************************************************)

Update(t) ==
  \/ UpdLock(t) \/ UpdSkip(t) \/ UpdVlans(t) \/ UpdMacs(t) \/ UpdOpts(t)
  \/ UpdMark(t) \/ UpdUnlock(t)

Request ==
  \E v \in VfIds :
    \/ AddRejected(v)
    \/ \E c \in Cfgs : AddReserve(v, c)
    \/ DelRejected(v)
    \/ DelMark(v)

Main      == AddClear \/ AddFill \/ Reply \/ Update("main")
Restoring(t) == ScanSlot(t) \/ FlagReset(t) \/ Update(t)
Refresh   == RefreshPick \/ RefreshPop \/ Restoring("refresh")
Callback  == CallbackQueue \/ CallbackRestore \/ CallbackDone \/ CallbackRequeue
             \/ Restoring("intr")
Device    == (\E v \in VfIds : GuestReset(v)) \/ (\E e \in OtherInterrupts : Interrupt(e))

Next == Request \/ Main \/ Refresh \/ Callback \/ Device \/ Poll

Spec == Init /\ [][Next]_vars

\* Each thread keeps running: the kernel schedules it.  A spinlock waiter
\* gets the lock once the others stop taking it.
Fairness == WF_vars(Main) /\ WF_vars(Refresh) /\ WF_vars(Callback)

FairSpec == Spec /\ Fairness

(***************************************************************************)
(* Properties.                                                             *)
(***************************************************************************)

PcValues ==
  [Threads -> {"idle", "reserved", "cleared", "reply", "update", "scan", "flag"} \cup InPass]

SlotTypes ==
  /\ numVfs \in 0 .. NSlots
  /\ num \in [Slots -> VfIds \cup {NoVf}]
  /\ upd \in [Slots -> Flags]
  /\ cfg \in [Slots -> CfgOrNo]
  /\ macs \in [Slots -> CfgOrNo]

ThreadTypes ==
  /\ lock \in Threads \cup {"free"}
  /\ pc \in PcValues
  /\ cur \in [Threads -> 0 .. NSlots]
  /\ scan \in [Threads -> 0 .. NSlots]
  /\ rvf \in [Threads -> VfIds \cup {NoVf}]

RequestTypes ==
  /\ req \in [op : {"none", "add", "del"}, vf : VfIds \cup {NoVf}, cfg : CfgOrNo,
              slot : Slots, ok : BOOLEAN]
  /\ nreqs \in 0 .. MaxReqs

NicTypes ==
  /\ nicVlans \in [VfIds -> SUBSET Cfgs]
  /\ nicMacs \in [VfIds -> CfgOrNo]
  /\ nicOpts \in [VfIds -> CfgOrNo]

EventTypes ==
  /\ rq \subseteq VfIds
  /\ mbox \subseteq [kind : {"reset", "negotiate", "lpe"}, vf : VfIds]
                     \cup [kind : {"link"}, vf : {NoVf}]
  /\ after \in {"return", "queue"}
  /\ nevents \in 0 .. MaxEvents

\* Every variable has its type: in particular the slot an add chooses exists, and
\* the loops over port->vfs stay inside it.
TypeOK == SlotTypes /\ ThreadTypes /\ RequestTypes /\ NicTypes /\ EventTypes

\* Two slots never hold the same VF, whatever the restores do meanwhile; the slot
\* an add has reserved and not filled is not a VF yet.
UniqueVfs ==
  \A y, z \in Used :
    num[y] = num[z] /\ num[y] # NoVf /\ ~Filling(y) /\ ~Filling(z) => y = z

\* When main is between requests, every ADDED and DELETED mark has been consumed
\* by an update pass, its own or another thread's: an answer is never given for
\* work not yet taken up, and a hole is never waiting to be deleted again.
FlagsSettled ==
  pc["main"] \in {"idle", "reply"} => \A y \in Slots : upd[y] \notin {"added", "deleted"}

\* The slot table and the NIC are written under update_lock by one thread, and a
\* thread inside the pass or the copy holds it.
OneUpdater ==
  \A t \in Threads :
    pc[t] \in InPass \cup {"cleared"} => lock = t

\* An answered "deleted" is final: VFd manages the VF no longer (vfd_hackers.xfm:751).
DeleteIsFinal ==
  pc["main"] = "idle" /\ req.op = "del" /\ req.ok => Wanted(req.vf) = NoCfg

\* With nobody at work and no interrupt outstanding, each managed VF is programmed
\* with its configuration.
ManagedIsProgrammed ==
  Quiet => \A v \in VfIds : Managed(v) => Programmed(v, Wanted(v))

\* A refresh leaves the queue only when its VF has its configuration back, or has
\* lost it again in the meantime and says so in an interrupt still to be handled.
PopMeansProgrammed ==
  [][\A v \in rq \ rq' :
       Managed(v) => Programmed(v, Wanted(v)) \/ [kind |-> "reset", vf |-> v] \in mbox]_vars

\* A VF that lost its configuration gets it back.
LossIsRepaired ==
  \A v \in VfIds :
    Managed(v) /\ ~Programmed(v, Wanted(v)) ~> ~Managed(v) \/ Programmed(v, Wanted(v))

\* Every request is answered, however the restores compete for the lock.
RequestsAnswered == pc["main"] # "idle" ~> pc["main"] = "idle"

\* What a client of the abstract table sees.
AbsNic(v) ==
  IF Programmed(v, NoCfg) THEN NoCfg
  ELSE IF \E c \in Cfgs : Programmed(v, c) THEN CHOOSE c \in Cfgs : Programmed(v, c)
  ELSE "mixed"

Registry == INSTANCE VfRegistry WITH
  Mixed <- "mixed",
  table <- [v \in VfIds |-> Wanted(v)],
  nic   <- [v \in VfIds |-> AbsNic(v)],
  busy  <- IF pc["main"] \in {"update"} \cup InPass THEN {req.vf} ELSE {}

\* Until the first interrupt comes, the requests, seen by a client, behave like the
\* abstract table.
ImplementsRegistry ==
  Registry!RegInit /\ [][nevents' > 0 \/ Registry!RegNext]_(Registry!regVars)
=============================================================================
