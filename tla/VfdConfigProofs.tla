-------------------------- MODULE VfdConfigProofs --------------------------
(***************************************************************************)
(* The safety invariants of VfdConfig, what its restores achieve, and its  *)
(* refinement of VfRegistry, for every number of slots, VFs,               *)
(* configurations, requests and interrupts.                                *)
(***************************************************************************)
EXTENDS VfdConfig, TLAPS

\* The sizes are natural numbers: nearly every leaf below needs it.
USE SizesAssumption

(***************************************************************************)
(* The inductive invariant.                                                *)
(***************************************************************************)

\* Which places each thread visits, and the loop indices there.
Places ==
  /\ pc["main"] \notin {"scan", "flag"}
  /\ \A t \in {"refresh", "intr"} :
       /\ pc[t] \notin {"reserved", "cleared", "reply"}
       /\ pc[t] \in {"flag", "update"} \cup InPass => scan[t] \in Slots
  /\ \A t \in Threads : pc[t] \in {"mac", "opt", "mark"} => cur[t] \in Slots
  /\ after = "queue" => pc["intr"] # "idle" /\ rvf["intr"] \in VfIds

\* While an add is under way its slot is in use, and no other slot has its VF.
AddPending ==
  pc["main"] \in {"reserved", "cleared"} =>
    /\ req.vf \in VfIds
    /\ req.slot \in Used
    /\ \A y \in Used : num[y] = req.vf => y = req.slot

\* Only the slot of the request is marked ADDED or DELETED, from the mark until
\* main's own pass has gone by it.
MarkPending ==
  \A y \in Slots : upd[y] \in {"added", "deleted"} =>
    /\ y = req.slot
    /\ y < numVfs
    /\ \/ pc["main"] = "update"
       \/ pc["main"] \in InPass /\ cur["main"] <= y

IInv ==
  /\ TypeOK
  /\ Places
  /\ OneUpdater
  /\ AddPending
  /\ UniqueVfs
  /\ MarkPending

(***************************************************************************)
(* The steps, one by one, in the form the proofs below split them in.      *)
(***************************************************************************)

LEMMA OneUpdaterStep ==
  ASSUME TypeOK, Places, OneUpdater, [Next]_vars
  PROVE  OneUpdater'
<1> USE DEF TypeOK, ThreadTypes, PcValues, OneUpdater, InPass, Threads, Goto
<1>1. CASE UNCHANGED vars
  BY <1>1 DEF vars
<1>2. CASE Request
  BY <1>2 DEF Request, AddRejected, AddReserve, DelRejected, DelMark
<1>3. ASSUME NEW t \in Threads, Update(t)
      PROVE  OneUpdater'
  BY <1>3 DEF Update, UpdLock, UpdSkip, UpdVlans, UpdMacs, UpdOpts, UpdMark, UpdUnlock, Lock, Unlock
<1>4. CASE AddClear \/ AddFill \/ Reply
  BY <1>4 DEF AddClear, AddFill, Reply, Lock, Unlock
<1>5. ASSUME NEW t \in {"refresh", "intr"}, ScanSlot(t) \/ FlagReset(t)
      PROVE  OneUpdater'
  BY <1>5 DEF ScanSlot, FlagReset
<1>6. CASE RefreshPick \/ RefreshPop
  BY <1>6 DEF RefreshPick, RefreshPop, Restore
<1>7. CASE CallbackQueue \/ CallbackRestore \/ CallbackDone \/ CallbackRequeue
  BY <1>7 DEF CallbackQueue, CallbackRestore, CallbackDone, CallbackRequeue, Restore
<1>8. CASE Device
  BY <1>8 DEF Device, GuestReset, Interrupt
<1>9. QED
  BY <1>1, <1>2, <1>3, <1>4, <1>5, <1>6, <1>7, <1>8
  DEF Next, Main, Refresh, Callback, Restoring, Poll

LEMMA NicTypesStep ==
  ASSUME SlotTypes, ThreadTypes, NicTypes, Places, [Next]_vars
  PROVE  NicTypes'
<1> USE DEF NicTypes, nicVars
<1>1. CASE UNCHANGED vars
  BY <1>1 DEF vars
<1>2. CASE Request \/ AddClear \/ AddFill \/ Reply
  BY <1>2 DEF Request, AddRejected, AddReserve, DelRejected, DelMark, AddClear, AddFill, Reply
<1>3. ASSUME NEW t \in Threads, Update(t)
      PROVE  NicTypes'
  <2> USE DEF SlotTypes, ThreadTypes, PcValues, Places, InPass, Slots, NoVf, Used, Holding,
              First, CfgOrNo
  <2>1. CASE UpdLock(t) \/ UpdSkip(t) \/ UpdMark(t) \/ UpdUnlock(t)
    BY <2>1 DEF UpdLock, UpdSkip, UpdMark, UpdUnlock
  <2>2. CASE UpdVlans(t)
    BY <2>2 DEF UpdVlans
  <2>3. CASE UpdMacs(t)
    BY <2>3 DEF UpdMacs
  <2>4. CASE UpdOpts(t)
    BY <2>4 DEF UpdOpts
  <2>5. QED
    BY <1>3, <2>1, <2>2, <2>3, <2>4 DEF Update
<1>4. ASSUME NEW t \in {"refresh", "intr"}, ScanSlot(t) \/ FlagReset(t)
      PROVE  NicTypes'
  BY <1>4 DEF ScanSlot, FlagReset
<1>5. CASE RefreshPick \/ RefreshPop \/ CallbackQueue \/ CallbackRestore \/ CallbackDone \/ CallbackRequeue
  BY <1>5 DEF RefreshPick, RefreshPop, CallbackQueue, CallbackRestore, CallbackDone, CallbackRequeue
<1>6. CASE Device
  BY <1>6 DEF Device, GuestReset, Interrupt, CfgOrNo
<1>7. QED
  BY <1>1, <1>2, <1>3, <1>4, <1>5, <1>6
  DEF Next, Main, Refresh, Callback, Restoring, Threads, Poll

LEMMA SlotTypesStep ==
  ASSUME SlotTypes, ThreadTypes, RequestTypes, Places, AddPending, [Next]_vars
  PROVE  SlotTypes'
<1> USE DEF SlotTypes, slotVars, Slots, NoVf, CfgOrNo, Flags
<1>1. CASE UNCHANGED vars
  BY <1>1 DEF vars
<1>2. CASE Request
  BY <1>2 DEF Request, AddRejected, AddReserve, InsertAt, Used, Holding, First, DelRejected, DelMark
<1>3. CASE AddClear \/ AddFill \/ Reply
  <2>1. CASE AddClear
    BY <2>1 DEF AddClear, RequestTypes
  <2>2. CASE AddFill
    BY <2>2 DEF AddFill, RequestTypes, AddPending
  <2>3. QED
    BY <1>3, <2>1, <2>2 DEF Reply
<1>4. ASSUME NEW t \in Threads, Update(t)
      PROVE  SlotTypes'
  <2> USE DEF ThreadTypes, PcValues, Places, InPass
  <2>1. CASE UpdLock(t) \/ UpdSkip(t) \/ UpdVlans(t) \/ UpdUnlock(t)
    BY <2>1 DEF UpdLock, UpdSkip, UpdVlans, UpdUnlock
  <2>2. CASE UpdMacs(t)
    BY <2>2 DEF UpdMacs, Used, Holding, First
  <2>3. CASE UpdOpts(t)
    BY <2>3 DEF UpdOpts
  <2>4. CASE UpdMark(t)
    BY <2>4 DEF UpdMark
  <2>5. QED
    BY <1>4, <2>1, <2>2, <2>3, <2>4 DEF Update
<1>5. ASSUME NEW t \in {"refresh", "intr"}, ScanSlot(t) \/ FlagReset(t)
      PROVE  SlotTypes'
  BY <1>5 DEF ScanSlot, FlagReset, ThreadTypes, Places, Threads
<1>6. CASE RefreshPick \/ RefreshPop \/ CallbackQueue \/ CallbackRestore \/ CallbackDone \/ CallbackRequeue
  BY <1>6 DEF RefreshPick, RefreshPop, CallbackQueue, CallbackRestore, CallbackDone, CallbackRequeue
<1>7. CASE Device
  BY <1>7 DEF Device, GuestReset, Interrupt
<1>8. QED
  BY <1>1, <1>2, <1>3, <1>4, <1>5, <1>6, <1>7
  DEF Next, Main, Refresh, Callback, Restoring, Threads, Poll

LEMMA RequestTypesStep ==
  ASSUME SlotTypes, RequestTypes, [Next]_vars
  PROVE  RequestTypes'
<1> USE DEF RequestTypes
<1>1. CASE UNCHANGED vars
  BY <1>1 DEF vars
<1>2. ASSUME NEW v \in VfIds, AddRejected(v) \/ DelRejected(v) \/ DelMark(v)
      PROVE  RequestTypes'
  <2>1. nreqs' \in 0 .. MaxReqs
    BY <1>2, SizesAssumption DEF AddRejected, DelRejected, DelMark, MayRequest
  <2>2. CASE AddRejected(v) \/ DelRejected(v)
    <3>1. 0 \in Slots /\ NoCfg \in CfgOrNo
      BY DEF Slots, CfgOrNo
    <3>2. PICK op \in {"add", "del"} :
            req' = [op |-> op, vf |-> v, cfg |-> NoCfg, slot |-> 0, ok |-> FALSE]
      BY <2>2 DEF AddRejected, DelRejected, Rejected
    <3>3. QED
      BY <2>1, <3>1, <3>2
  <2>3. CASE DelMark(v)
    BY <2>1, <2>3 DEF DelMark, SlotTypes, First, Holding, Used
  <2>4. QED
    BY <1>2, <2>2, <2>3
<1>3. ASSUME NEW v \in VfIds, NEW c \in Cfgs, AddReserve(v, c)
      PROVE  RequestTypes'
  <2>1. nreqs' \in 0 .. MaxReqs
    BY <1>3, SizesAssumption DEF AddReserve, MayRequest
  <2>2. QED
    BY <1>3, <2>1 DEF AddReserve, InsertAt, First, Holding, Used, CfgOrNo
<1>4. CASE AddClear \/ AddFill \/ Reply
  BY <1>4 DEF AddClear, AddFill, Reply
<1>5. ASSUME NEW t \in Threads, Update(t)
      PROVE  RequestTypes'
  BY <1>5 DEF Update, UpdLock, UpdSkip, UpdVlans, UpdMacs, UpdOpts, UpdMark, UpdUnlock
<1>6. ASSUME NEW t \in {"refresh", "intr"}, ScanSlot(t) \/ FlagReset(t)
      PROVE  RequestTypes'
  BY <1>6 DEF ScanSlot, FlagReset
<1>7. CASE RefreshPick \/ RefreshPop \/ CallbackQueue \/ CallbackRestore \/ CallbackDone \/ CallbackRequeue
  BY <1>7 DEF RefreshPick, RefreshPop, CallbackQueue, CallbackRestore, CallbackDone, CallbackRequeue
<1>8. CASE Device
  BY <1>8 DEF Device, GuestReset, Interrupt
<1>9. QED
  BY <1>1, <1>2, <1>3, <1>4, <1>5, <1>6, <1>7, <1>8
  DEF Next, Request, Main, Refresh, Callback, Restoring, Threads, Poll

LEMMA EventTypesStep ==
  ASSUME ThreadTypes, EventTypes, Places, [Next]_vars
  PROVE  EventTypes'
<1> USE DEF EventTypes, evVars
<1>1. CASE UNCHANGED vars
  BY <1>1 DEF vars
<1>2. CASE Request \/ AddClear \/ AddFill \/ Reply
  BY <1>2 DEF Request, AddRejected, AddReserve, DelRejected, DelMark, AddClear, AddFill, Reply
<1>3. ASSUME NEW t \in Threads, Update(t)
      PROVE  EventTypes'
  BY <1>3 DEF Update, UpdLock, UpdSkip, UpdVlans, UpdMacs, UpdOpts, UpdMark, UpdUnlock
<1>4. ASSUME NEW t \in {"refresh", "intr"}, ScanSlot(t) \/ FlagReset(t)
      PROVE  EventTypes'
  BY <1>4 DEF ScanSlot, FlagReset
<1>5. CASE RefreshPick \/ RefreshPop \/ CallbackRestore \/ CallbackDone
  BY <1>5 DEF RefreshPick, RefreshPop, CallbackRestore, CallbackDone
<1>6. CASE CallbackQueue \/ CallbackRequeue
  BY <1>6 DEF CallbackQueue, CallbackRequeue, Enqueue, Places
<1>7. CASE Device
  <2>1. nevents' \in 0 .. MaxEvents
    BY <1>7 DEF Device, GuestReset, Interrupt
  <2>2. rq' \subseteq VfIds
    BY <1>7 DEF Device, GuestReset, Interrupt
  <2>3. ASSUME NEW v \in VfIds, GuestReset(v)
        PROVE  EventTypes'
    BY <2>1, <2>2, <2>3 DEF GuestReset
  <2>4. ASSUME NEW e \in OtherInterrupts, Interrupt(e)
        PROVE  EventTypes'
    BY <2>1, <2>2, <2>4 DEF Interrupt, OtherInterrupts
  <2>5. QED
    BY <1>7, <2>3, <2>4 DEF Device
<1>8. QED
  BY <1>1, <1>2, <1>3, <1>4, <1>5, <1>6, <1>7
  DEF Next, Main, Refresh, Callback, Restoring, Threads, Poll

LEMMA ThreadTypesStep ==
  ASSUME SlotTypes, ThreadTypes, EventTypes, Places, [Next]_vars
  PROVE  ThreadTypes' /\ Places'
<1> USE DEF ThreadTypes, Places, PcValues, InPass, Threads, Goto, Slots, evVars
<1>1. CASE UNCHANGED vars
  BY <1>1 DEF vars
<1>2. CASE Request
  BY <1>2 DEF Request, AddRejected, AddReserve, DelRejected, DelMark
<1>3. CASE AddClear \/ AddFill \/ Reply
  BY <1>3 DEF AddClear, AddFill, Reply, Lock, Unlock
<1>4. ASSUME NEW t \in Threads, Update(t)
      PROVE  ThreadTypes' /\ Places'
  <2> USE DEF SlotTypes, slotVars
  <2>1. CASE UpdLock(t)
    BY <2>1 DEF UpdLock, Lock
  <2>2. CASE UpdSkip(t)
    BY <2>2 DEF UpdSkip
  <2>3. CASE UpdVlans(t) \/ UpdMacs(t) \/ UpdOpts(t)
    <3>1. PICK label \in {"mac", "opt", "mark"} :
            /\ pc' = [pc EXCEPT ![t] = label]
            /\ cur[t] \in Slots
            /\ pc[t] \in InPass
      BY <2>3, SMTT(30) DEF UpdVlans, UpdMacs, UpdOpts
    <3>2. UNCHANGED <<lock, cur, scan, rvf, after>>
      BY <2>3 DEF UpdVlans, UpdMacs, UpdOpts
    <3>3. QED
      BY <3>1, <3>2
  <2>4. CASE UpdMark(t)
    BY <2>4, SMTT(30) DEF UpdMark
  <2>5. CASE UpdUnlock(t)
    BY <2>5 DEF UpdUnlock, Unlock
  <2>6. QED
    BY <1>4, <2>1, <2>2, <2>3, <2>4, <2>5 DEF Update
<1>5. ASSUME NEW t \in {"refresh", "intr"}, ScanSlot(t) \/ FlagReset(t)
      PROVE  ThreadTypes' /\ Places'
  BY <1>5, SMTT(30) DEF ScanSlot, FlagReset, SlotTypes
<1>6. CASE RefreshPick \/ RefreshPop
  BY <1>6 DEF RefreshPick, RefreshPop, Restore, EventTypes
<1>7. CASE CallbackQueue \/ CallbackDone \/ CallbackRequeue
  BY <1>7 DEF CallbackQueue, CallbackDone, CallbackRequeue
<1>8. CASE CallbackRestore
  BY <1>8 DEF CallbackRestore, Restore, EventTypes
<1>9. CASE Device
  BY <1>9 DEF Device, GuestReset, Interrupt
<1>10. QED
  BY <1>1, <1>2, <1>3, <1>4, <1>5, <1>6, <1>7, <1>8, <1>9
  DEF Next, Main, Refresh, Callback, Restoring, Poll

LEMMA AddPendingStep ==
  ASSUME TypeOK, Places, AddPending, [Next]_vars
  PROVE  AddPending'
<1> USE DEF AddPending, TypeOK, ThreadTypes, PcValues, Threads, Goto, Used, Slots, NoVf, slotVars
<1>1. CASE UNCHANGED vars
  BY <1>1 DEF vars
<1>2. ASSUME NEW v \in VfIds, AddRejected(v) \/ DelRejected(v) \/ DelMark(v)
      PROVE  AddPending'
  BY <1>2 DEF AddRejected, DelRejected, DelMark
<1>3. ASSUME NEW v \in VfIds, NEW c \in Cfgs, AddReserve(v, c)
      PROVE  AddPending'
  <2>1. PICK y \in InsertAt :
          /\ req' = [op |-> "add", vf |-> v, cfg |-> c, slot |-> y, ok |-> TRUE]
          /\ numVfs' = IF y = numVfs THEN numVfs + 1 ELSE numVfs
    BY <1>3 DEF AddReserve
  <2>2. y \in Slots /\ y <= numVfs
    BY DEF InsertAt, First, Holding, SlotTypes
  <2>3. \A z \in Used : num[z] # v
    BY <1>3 DEF AddReserve, Free, Holding
  <2>4. Used' = Used \cup {y} /\ num' = num
    BY <1>3, <2>1, <2>2, SMTT(30) DEF AddReserve, SlotTypes
  <2>5. QED
    BY <2>1, <2>2, <2>3, <2>4
<1>4. CASE AddClear \/ AddFill \/ Reply
  BY <1>4 DEF AddClear, AddFill, Reply, SlotTypes
<1>5. ASSUME NEW t \in Threads, Update(t)
      PROVE  AddPending'
  <2> USE DEF Places, InPass
  <2>1. CASE UpdLock(t) \/ UpdSkip(t) \/ UpdVlans(t) \/ UpdMark(t) \/ UpdUnlock(t)
    BY <2>1 DEF UpdLock, UpdSkip, UpdVlans, UpdMark, UpdUnlock
  <2>2. CASE UpdMacs(t)
    BY <2>2 DEF UpdMacs
  <2>3. CASE UpdOpts(t)
    BY <2>3 DEF UpdOpts, SlotTypes
  <2>4. QED
    BY <1>5, <2>1, <2>2, <2>3 DEF Update
<1>6. ASSUME NEW t \in {"refresh", "intr"}, ScanSlot(t) \/ FlagReset(t)
      PROVE  AddPending'
  BY <1>6 DEF ScanSlot, FlagReset
<1>7. CASE RefreshPick \/ RefreshPop \/ CallbackQueue \/ CallbackRestore \/ CallbackDone \/ CallbackRequeue
  BY <1>7 DEF RefreshPick, RefreshPop, CallbackQueue, CallbackRestore, CallbackDone, CallbackRequeue, Restore
<1>8. CASE Device
  BY <1>8 DEF Device, GuestReset, Interrupt
<1>9. QED
  BY <1>1, <1>2, <1>3, <1>4, <1>5, <1>6, <1>7, <1>8
  DEF Next, Request, Main, Refresh, Callback, Restoring, Poll

LEMMA UniqueVfsStep ==
  ASSUME TypeOK, Places, AddPending, UniqueVfs, [Next]_vars
  PROVE  UniqueVfs'
<1> USE DEF UniqueVfs, Filling, TypeOK, ThreadTypes, PcValues, Threads, Goto, Used, Slots, NoVf, slotVars
<1>1. CASE UNCHANGED vars
  BY <1>1 DEF vars
<1>2. ASSUME NEW v \in VfIds, AddRejected(v) \/ DelRejected(v) \/ DelMark(v)
      PROVE  UniqueVfs'
  BY <1>2 DEF AddRejected, DelRejected, DelMark
<1>3. ASSUME NEW v \in VfIds, NEW c \in Cfgs, AddReserve(v, c)
      PROVE  UniqueVfs'
  BY <1>3, SMTT(30) DEF AddReserve, InsertAt, First, Holding, SlotTypes
<1>4. CASE AddClear
  BY <1>4 DEF AddClear, SlotTypes
<1>5. CASE AddFill
  BY <1>5 DEF AddFill, SlotTypes, AddPending
<1>6. CASE Reply
  BY <1>6 DEF Reply
<1>7. ASSUME NEW t \in Threads, Update(t)
      PROVE  UniqueVfs'
  <2> USE DEF Places, InPass
  <2>1. CASE UpdLock(t) \/ UpdSkip(t) \/ UpdVlans(t) \/ UpdMark(t) \/ UpdUnlock(t)
    BY <2>1 DEF UpdLock, UpdSkip, UpdVlans, UpdMark, UpdUnlock
  <2>2. CASE UpdMacs(t)
    BY <2>2 DEF UpdMacs
  <2>3. CASE UpdOpts(t)
    BY <2>3, ZenonT(40) DEF UpdOpts, SlotTypes
  <2>4. QED
    BY <1>7, <2>1, <2>2, <2>3 DEF Update
<1>8. ASSUME NEW t \in {"refresh", "intr"}, ScanSlot(t) \/ FlagReset(t)
      PROVE  UniqueVfs'
  BY <1>8 DEF ScanSlot, FlagReset
<1>9. CASE RefreshPick \/ RefreshPop \/ CallbackQueue \/ CallbackRestore \/ CallbackDone \/ CallbackRequeue
  BY <1>9 DEF RefreshPick, RefreshPop, CallbackQueue, CallbackRestore, CallbackDone, CallbackRequeue, Restore
<1>10. CASE Device
  BY <1>10 DEF Device, GuestReset, Interrupt
<1>11. QED
  BY <1>1, <1>2, <1>3, <1>4, <1>5, <1>6, <1>7, <1>8, <1>9, <1>10
  DEF Next, Request, Main, Refresh, Callback, Restoring, Poll

LEMMA MarkPendingStep ==
  ASSUME TypeOK, Places, AddPending, MarkPending, [Next]_vars
  PROVE  MarkPending'
<1> USE DEF MarkPending, TypeOK, SlotTypes, ThreadTypes, PcValues, InPass, Threads, Goto, Slots, slotVars
<1>1. CASE UNCHANGED vars
  BY <1>1 DEF vars
<1>2. ASSUME NEW v \in VfIds, AddRejected(v) \/ DelRejected(v)
      PROVE  MarkPending'
  BY <1>2 DEF AddRejected, DelRejected
<1>3. ASSUME NEW v \in VfIds, DelMark(v)
      PROVE  MarkPending'
  BY <1>3 DEF DelMark, First, Holding, Used
<1>4. ASSUME NEW v \in VfIds, NEW c \in Cfgs, AddReserve(v, c)
      PROVE  MarkPending'
  BY <1>4 DEF AddReserve
<1>5. CASE AddClear \/ Reply
  BY <1>5 DEF AddClear, Reply
<1>6. CASE AddFill
  BY <1>6 DEF AddFill, AddPending, Used
<1>7. ASSUME NEW t \in Threads, Update(t)
      PROVE  MarkPending'
  <2> USE DEF Places
  <2>1. CASE UpdLock(t)
    BY <2>1 DEF UpdLock
  <2>2. CASE UpdSkip(t)
    BY <2>2 DEF UpdSkip
  <2>3. CASE UpdVlans(t) \/ UpdMacs(t) \/ UpdOpts(t)
    <3>1. CASE UpdVlans(t)
      BY <3>1, SMTT(30) DEF UpdVlans
    <3>2. CASE UpdMacs(t)
      BY <3>2, SMTT(30) DEF UpdMacs
    <3>3. CASE UpdOpts(t)
      BY <3>3, SMTT(30) DEF UpdOpts
    <3>4. QED
      BY <2>3, <3>1, <3>2, <3>3
  <2>4. CASE UpdMark(t)
    BY <2>4 DEF UpdMark
  <2>5. CASE UpdUnlock(t)
    BY <2>5 DEF UpdUnlock
  <2>6. QED
    BY <1>7, <2>1, <2>2, <2>3, <2>4, <2>5 DEF Update
<1>8. ASSUME NEW t \in {"refresh", "intr"}, ScanSlot(t) \/ FlagReset(t)
      PROVE  MarkPending'
  BY <1>8, SMTT(30) DEF ScanSlot, FlagReset
<1>9. CASE RefreshPick \/ RefreshPop \/ CallbackQueue \/ CallbackRestore \/ CallbackDone \/ CallbackRequeue
  BY <1>9 DEF RefreshPick, RefreshPop, CallbackQueue, CallbackRestore, CallbackDone, CallbackRequeue, Restore
<1>10. CASE Device
  BY <1>10 DEF Device, GuestReset, Interrupt
<1>11. QED
  BY <1>1, <1>2, <1>3, <1>4, <1>5, <1>6, <1>7, <1>8, <1>9, <1>10
  DEF Next, Request, Main, Refresh, Callback, Restoring, Poll

(***************************************************************************)
(* The initial states.                                                     *)
(***************************************************************************)

LEMMA WantedType ==
  ASSUME SlotTypes, NEW v \in VfIds
  PROVE  Wanted(v) \in CfgOrNo
<1>1. CASE Managed(v)
  <2> DEFINE Live == {y \in Holding(v) : ~Filling(y) /\ upd[y] # "deleted"}
             y0 == CHOOSE y \in Holding(v) : ~Filling(y) /\ upd[y] # "deleted"
  <2>1. y0 \in Holding(v)
    BY <1>1 DEF Managed
  <2>2. y0 \in Slots
    BY <2>1 DEF Holding, Used
  <2>3. QED
    BY <1>1, <2>2 DEF Wanted, SlotTypes
<1>2. CASE ~Managed(v)
  BY <1>2 DEF Wanted, CfgOrNo
<1>3. QED
  BY <1>1, <1>2

LEMMA InitInv == Init => IInv
<1> SUFFICES ASSUME Init PROVE IInv
  OBVIOUS
<1>1. PICK n \in BootSizes, ids \in [Slots -> VfIds], c \in [Slots -> Cfgs] :
        /\ \A y, z \in 0 .. n - 1 : ids[y] = ids[z] => y = z
        /\ numVfs = n
        /\ num = [y \in Slots |-> IF y < n THEN ids[y] ELSE 0]
        /\ cfg = [y \in Slots |-> IF y < n THEN c[y] ELSE NoCfg]
  BY DEF Init
<1>2. n \in 0 .. NSlots
  BY BootAssumption
<1>3. SlotTypes
  <2>1. num \in [Slots -> VfIds \cup {NoVf}] /\ cfg \in [Slots -> CfgOrNo]
    BY <1>1 DEF CfgOrNo
  <2>2. QED
    BY <1>1, <1>2, <2>1 DEF Init, SlotTypes, Flags
<1>4. ThreadTypes
  BY DEF Init, ThreadTypes, PcValues, Threads
<1>5. RequestTypes
  <2>1. 0 \in Slots /\ NoCfg \in CfgOrNo
    BY DEF Slots, CfgOrNo
  <2>2. req = [op |-> "none", vf |-> NoVf, cfg |-> NoCfg, slot |-> 0, ok |-> FALSE]
    BY DEF Init, NoReq, Rejected
  <2>3. nreqs \in 0 .. MaxReqs
    BY DEF Init
  <2>4. QED
    BY <2>1, <2>2, <2>3 DEF RequestTypes
<1>6. NicTypes
  <2>1. \A v \in VfIds : {cfg[y] : y \in Holding(v)} \subseteq Cfgs
    BY <1>1 DEF Holding, Used
  <2>2. \A v \in VfIds : Wanted(v) \in CfgOrNo
    BY <1>3, WantedType
  <2>3. QED
    BY <2>1, <2>2 DEF Init, NicTypes
<1>7. EventTypes
  BY DEF Init, EventTypes
<1>8. Places /\ OneUpdater /\ AddPending
  BY DEF Init, Places, OneUpdater, AddPending, InPass, Threads
<1>9. UniqueVfs
  <2> SUFFICES ASSUME NEW y \in Used, NEW z \in Used, num[y] = num[z]
               PROVE  y = z
    BY DEF UniqueVfs
  <2>1. y \in 0 .. n - 1 /\ z \in 0 .. n - 1 /\ y \in Slots /\ z \in Slots
    BY <1>1, <1>2 DEF Used, Slots
  <2>2. ids[y] = ids[z]
    BY <1>1, <1>2, <2>1
  <2>3. QED
    BY <1>1, <2>1, <2>2
<1>10. MarkPending
  BY DEF Init, MarkPending
<1>11. QED
  BY <1>3, <1>4, <1>5, <1>6, <1>7, <1>8, <1>9, <1>10 DEF IInv, TypeOK

(***************************************************************************)
(* The theorems.                                                           *)
(***************************************************************************)

LEMMA InvStep == IInv /\ [Next]_vars => IInv'
BY OneUpdaterStep, NicTypesStep, SlotTypesStep, RequestTypesStep, EventTypesStep,
   ThreadTypesStep, AddPendingStep, UniqueVfsStep, MarkPendingStep
DEF IInv, TypeOK

THEOREM Invariance == Spec => []IInv
BY InitInv, InvStep, PTL DEF Spec

\* Every variable keeps its type: the loops of the three threads over port->vfs
\* stay inside the table, however the threads interleave.
THEOREM TypeCorrect == Spec => []TypeOK
<1>1. IInv => TypeOK
  BY DEF IInv
<1>2. QED
  BY <1>1, Invariance, PTL

\* vfd_add_vf never manages a VF twice.
THEOREM VfsAreUnique == Spec => []UniqueVfs
<1>1. IInv => UniqueVfs
  BY DEF IInv
<1>2. QED
  BY <1>1, Invariance, PTL

\* update_lock excludes: one thread at a time is in the update pass or in the copy
\* phase of vfd_add_vf.
THEOREM UpdatersExclude == Spec => []OneUpdater
<1>1. IInv => OneUpdater
  BY DEF IInv
<1>2. QED
  BY <1>1, Invariance, PTL

\* A request is answered only when its ADDED or DELETED mark has been processed.
THEOREM FlagsAreSettled == Spec => []FlagsSettled
<1>1. IInv => FlagsSettled
  BY DEF IInv, MarkPending, FlagsSettled, InPass
<1>2. QED
  BY <1>1, Invariance, PTL

(***************************************************************************)
(* Restores.  While no request comes the table stands still; what a guest  *)
(* loses by a reset comes back by way of the interrupt, the refresh queue  *)
(* and an update pass.  The invariant follows a loss along that way.       *)
(***************************************************************************)

\* No request has come, so num_vfs is what it was when a pass began.
Static ==
  /\ pc["main"] = "idle"
  /\ \A t \in {"refresh", "intr"} : pc[t] \in {"mac", "opt", "mark"} => cur[t] \in Used
  /\ \A y \in Slots : upd[y] \in {"unchanged", "reset"}
  /\ \A y \in Used : num[y] \in VfIds /\ cfg[y] \in Cfgs /\ macs[y] = cfg[y]

VlansFit == \A y \in Used : nicVlans[num[y]] \subseteq {cfg[y]}

\* The callback thread has not yet seen that v was reset.
LossAhead(v) == [kind |-> "reset", vf |-> v] \in mbox

\* A pass is told of no loss before it ends: the callback of a reset waits for both threads.
\* So what the pass at slot y has programmed is there, or the loss is still ahead.
PartsDone ==
  \A t \in {"refresh", "intr"}, y \in Used :
    pc[t] \in {"mac", "opt", "mark"} /\ cur[t] = y /\ ~LossAhead(num[y]) =>
      /\ nicVlans[num[y]] = {cfg[y]}
      /\ pc[t] \in {"opt", "mark"} => nicMacs[num[y]] = cfg[y]
      /\ pc[t] = "mark" => nicOpts[num[y]] = cfg[y]

\* Slot y is still before the refresh thread, if it is at work on that VF.
ToCome(y) ==
  \/ pc["refresh"] = "idle" \/ rvf["refresh"] # num[y]
  \/ pc["refresh"] = "scan" /\ scan["refresh"] <= y
  \/ pc["refresh"] = "flag" /\ scan["refresh"] = y
  \/ /\ pc["refresh"] \in {"update"} \cup InPass /\ upd[y] = "reset"
     /\ pc["refresh"] \in InPass => cur["refresh"] <= y

\* What a VF has lost is reported, or queued and not gone by.
Repaired ==
  \A y \in Used :
    Programmed(num[y], cfg[y]) \/ LossAhead(num[y]) \/ (num[y] \in rq /\ ToCome(y))

RestInv == IInv /\ Static /\ VlansFit /\ PartsDone /\ Repaired

SameTable == UNCHANGED <<numVfs, num, cfg, macs>>

RestoreStep(t) == ScanSlot(t) \/ FlagReset(t) \/ Update(t)

\* The threads that move, and what they leave alone.
LEMMA RestoresOnly ==
  ASSUME Requests = {}, RestInv, [Next]_vars
  PROVE  \/ UNCHANGED vars
         \/ \E t \in {"refresh", "intr"} : RestoreStep(t)
         \/ RefreshPick \/ RefreshPop
         \/ CallbackQueue \/ CallbackRestore \/ CallbackDone \/ CallbackRequeue
         \/ Device
<1>1. ~Request
  BY DEF Request, AddRejected, AddReserve, DelRejected, DelMark
<1>2. ~Main
  BY DEF RestInv, Static, InPass, Main, AddClear, AddFill, Reply, Update, UpdLock, UpdSkip,
         UpdVlans, UpdMacs, UpdOpts, UpdMark, UpdUnlock
<1>3. QED
  BY <1>1, <1>2 DEF Next, Refresh, Callback, Restoring, RestoreStep, Poll

\* A VF is in one slot.
LEMMA OneSlot ==
  ASSUME RestInv
  PROVE  \A y, z \in Used : num[y] = num[z] => y = z
<1>1. \A y \in Used : num[y] # NoVf /\ ~Filling(y)
  BY DEF RestInv, Static, Filling, NoVf
<1>2. QED
  BY <1>1 DEF RestInv, IInv, UniqueVfs

LEMMA OwnSlot ==
  ASSUME RestInv, NEW y \in Used
  PROVE  First(num[y]) = {y}
<1>1. Holding(num[y]) = {y}
  BY OneSlot DEF Holding
<1>2. y \in Nat
  BY DEF Used, Slots
<1>3. QED
  BY <1>1, <1>2 DEF First

LEMMA StaticStep ==
  ASSUME Requests = {}, RestInv, [Next]_vars
  PROVE  Static' /\ SameTable
<1> USE DEF RestInv, IInv, TypeOK, ThreadTypes, PcValues, Threads, SlotTypes, Static, SameTable
<1>1. CASE UNCHANGED vars
  BY <1>1 DEF vars, slotVars, Used
<1>2. ASSUME NEW t \in {"refresh", "intr"}, RestoreStep(t)
      PROVE  Static' /\ SameTable
  <2>1. CASE ScanSlot(t) \/ FlagReset(t)
    BY <1>2, <2>1 DEF ScanSlot, FlagReset, Goto, slotVars, Used
  <2>2. CASE UpdLock(t) \/ UpdSkip(t) \/ UpdUnlock(t)
    BY <1>2, <2>2 DEF UpdLock, UpdSkip, UpdUnlock, Goto, slotVars, Used
  <2>3. CASE UpdVlans(t)
    BY <1>2, <2>3 DEF UpdVlans, Goto, slotVars, Used, Slots
  <2>4. CASE UpdMark(t)
    BY <1>2, <2>4 DEF UpdMark, Goto, Used
  <2>5. CASE UpdMacs(t) \/ UpdOpts(t)
    <3>1. cur[t] \in Slots /\ upd[cur[t]] # "deleted"
      BY <2>5 DEF UpdMacs, UpdOpts, Places
    <3>2. QED
      BY <1>2, <2>5, <3>1 DEF UpdMacs, UpdOpts, Goto, Used
  <2>6. QED
    BY <1>2, <2>1, <2>2, <2>3, <2>4, <2>5 DEF RestoreStep, Update
<1>3. CASE RefreshPick \/ RefreshPop
  BY <1>3 DEF RefreshPick, RefreshPop, Restore, Goto, slotVars, Used
<1>4. CASE CallbackQueue \/ CallbackRestore \/ CallbackDone \/ CallbackRequeue
  BY <1>4 DEF CallbackQueue, CallbackRestore, CallbackDone, CallbackRequeue, Restore, Goto,
              slotVars, Used
<1>5. CASE Device
  BY <1>5 DEF Device, GuestReset, Interrupt, slotVars, Used
<1>6. QED
  BY <1>1, <1>2, <1>3, <1>4, <1>5, RestoresOnly

(***************************************************************************)
(* Steps that leave the NIC alone.                                         *)
(***************************************************************************)

\* No loss is reported or taken up.
SameLosses == \A v \in VfIds : LossAhead(v)' <=> LossAhead(v)

LEMMA NicStays ==
  ASSUME RestInv, SameTable, UNCHANGED nicVars, SameLosses,
         \A t \in {"refresh", "intr"} :
           pc'[t] \in {"mac", "opt", "mark"} => pc'[t] = pc[t] /\ cur'[t] = cur[t]
  PROVE  VlansFit' /\ PartsDone'
<1>1. Used' = Used /\ \A y \in Used : num[y] \in VfIds
  BY DEF SameTable, Used, RestInv, Static
<1>2. VlansFit'
  BY <1>1 DEF RestInv, VlansFit, SameTable, nicVars
<1>3. PartsDone'
  <2> SUFFICES ASSUME NEW t \in {"refresh", "intr"}, NEW y \in Used, (~LossAhead(num[y]))',
                      pc'[t] \in {"mac", "opt", "mark"}, cur'[t] = y
               PROVE  /\ nicVlans[num[y]] = {cfg[y]}
                      /\ pc'[t] \in {"opt", "mark"} => nicMacs[num[y]] = cfg[y]
                      /\ pc'[t] = "mark" => nicOpts[num[y]] = cfg[y]
    BY <1>1 DEF PartsDone, SameTable, nicVars
  <2>1. pc'[t] = pc[t] /\ cur[t] = y
    OBVIOUS
  <2>2. PICK v \in VfIds : num[y] = v /\ num'[y] = v
    BY <1>1 DEF SameTable
  <2>3. ~LossAhead(num[y])
    BY <2>2 DEF SameLosses, LossAhead
  <2>4. QED
    BY <2>1, <2>3 DEF RestInv, PartsDone
<1>4. QED
  BY <1>2, <1>3

\* ... nor goes the refresh thread by a slot that is still to be done.
LEMMA RepairGoesOn ==
  ASSUME RestInv, SameTable, UNCHANGED nicVars, SameLosses,
         \A y \in Used : num[y] \in rq /\ ToCome(y) =>
           Programmed(num[y], cfg[y]) \/ LossAhead(num[y]) \/ (num[y] \in rq' /\ ToCome(y)')
  PROVE  Repaired'
<1>1. Used' = Used /\ \A y \in Used : num[y] \in VfIds /\ num'[y] = num[y] /\ cfg'[y] = cfg[y]
  BY DEF SameTable, Used, RestInv, Static
<1>2. ASSUME NEW y \in Used
      PROVE  (Programmed(num[y], cfg[y]) \/ LossAhead(num[y]) \/ (num[y] \in rq /\ ToCome(y)))'
  <2>1. PICK v \in VfIds, c \in Cfgs : num[y] = v /\ cfg[y] = c /\ num'[y] = v /\ cfg'[y] = c
    BY <1>1 DEF RestInv, Static
  <2>2. Programmed(v, c) \/ LossAhead(v) \/ (v \in rq /\ ToCome(y))
    BY <2>1 DEF RestInv, Repaired
  <2>3. Programmed(v, c) \/ LossAhead(v) \/ (v \in rq' /\ ToCome(y)')
    BY <2>1, <2>2
  <2>4. (Programmed(v, c)' <=> Programmed(v, c)) /\ (LossAhead(v)' <=> LossAhead(v))
    BY DEF nicVars, Programmed, SameLosses
  <2>5. Programmed(v, c)' \/ LossAhead(v)' \/ (v \in rq' /\ ToCome(y)')
    BY <2>3, <2>4
  <2>6. QED
    BY <2>1, <2>5 DEF Programmed, LossAhead
<1>3. QED
  BY <1>1, <1>2 DEF Repaired

LEMMA ScanRepairs ==
  ASSUME RestInv, SameTable, NEW t \in {"refresh", "intr"}, ScanSlot(t) \/ FlagReset(t)
  PROVE  VlansFit' /\ PartsDone' /\ Repaired'
<1> USE DEF RestInv, IInv, TypeOK, SlotTypes, ThreadTypes, PcValues, Threads, Goto
<1>1. SameLosses /\ UNCHANGED nicVars /\ rq' = rq /\ rvf' = rvf /\ cur' = cur
  BY DEF ScanSlot, FlagReset, evVars, SameLosses, LossAhead
<1>2. \A r \in {"refresh", "intr"} :
        pc'[r] \in {"mac", "opt", "mark"} => pc'[r] = pc[r] /\ cur'[r] = cur[r]
  BY <1>1 DEF ScanSlot, FlagReset
<1>3. VlansFit' /\ PartsDone'
  BY <1>1, <1>2, NicStays
<1>4. ASSUME NEW y \in Used, ToCome(y), ScanSlot(t) PROVE ToCome(y)'
  <2>1. UNCHANGED <<upd, num>> /\ y \in Slots
    BY <1>4 DEF ScanSlot, slotVars, Used
  <2>2. CASE t = "intr"
    BY <1>1, <1>4, <2>1, <2>2 DEF ToCome, ScanSlot
  <2>3. CASE t = "refresh" /\ rvf["refresh"] = num[y]
    <3>1. pc["refresh"] = "scan" /\ scan["refresh"] <= y
      BY <1>4, <2>3 DEF ToCome, ScanSlot, InPass
    <3>2. num[y] \in Nat /\ ~(rvf["refresh"] < 0)
      <4>1. num[y] \in VfIds
        BY DEF Static
      <4>2. \A n \in VfIds : n \in Nat /\ ~(n < 0)
        BY SizesAssumption
      <4>3. QED
        BY <2>3, <4>1, <4>2
    <3>3. scan["refresh"] \in Used
      BY <1>4, <2>3 DEF ScanSlot, Used, Slots
    <3>4. Matches("refresh", scan["refresh"]) <=> scan["refresh"] = y
      BY <2>3, <3>2, <3>3, OneSlot DEF Matches
    <3>5. CASE scan["refresh"] = y
      BY <1>4, <2>3, <3>4, <3>5 DEF ScanSlot, ToCome
    <3>6. CASE scan["refresh"] # y
      BY <1>4, <2>1, <2>3, <3>1, <3>4, <3>6 DEF ScanSlot, ToCome, Slots
    <3>7. QED
      BY <3>5, <3>6
  <2>4. CASE t = "refresh" /\ rvf["refresh"] # num[y]
    BY <1>1, <2>1, <2>4 DEF ToCome
  <2>5. QED
    BY <2>2, <2>3, <2>4
<1>5. ASSUME NEW y \in Used, ToCome(y), FlagReset(t) PROVE ToCome(y)'
  <2>1. num' = num /\ scan' = scan /\ y \in Slots
    BY <1>5 DEF FlagReset, Used
  <2>2. upd[y] = "reset" => upd'[y] = "reset"
    BY <1>5, <2>1 DEF FlagReset
  <2>3. CASE t = "intr"
    BY <1>1, <1>5, <2>1, <2>2, <2>3 DEF ToCome, FlagReset
  <2>4. CASE t = "refresh"
    BY <1>1, <1>5, <2>1, <2>4 DEF ToCome, FlagReset, InPass
  <2>5. QED
    BY <2>3, <2>4
<1>6. QED
  BY <1>1, <1>3, <1>4, <1>5, RepairGoesOn

LEMMA WalkRepairs ==
  ASSUME RestInv, SameTable, NEW t \in {"refresh", "intr"},
         UpdLock(t) \/ UpdSkip(t) \/ UpdMark(t) \/ UpdUnlock(t)
  PROVE  VlansFit' /\ PartsDone' /\ Repaired'
<1> USE DEF RestInv, IInv, TypeOK, SlotTypes, ThreadTypes, PcValues, Threads, Goto
<1>1. SameLosses /\ UNCHANGED nicVars /\ rq' = rq /\ rvf' = rvf /\ num' = num
  BY DEF UpdLock, UpdSkip, UpdMark, UpdUnlock, evVars, slotVars, SameLosses, LossAhead
<1>2. \A r \in {"refresh", "intr"} :
        pc'[r] \in {"mac", "opt", "mark"} => pc'[r] = pc[r] /\ cur'[r] = cur[r]
  <2>1. CASE UpdLock(t) \/ UpdSkip(t)
    BY <2>1 DEF UpdLock, UpdSkip
  <2>2. CASE UpdMark(t) \/ UpdUnlock(t)
    BY <2>2 DEF UpdMark, UpdUnlock
  <2>3. QED
    BY <2>1, <2>2
<1>3. VlansFit' /\ PartsDone'
  BY <1>1, <1>2, NicStays
<1>4. ASSUME NEW y \in Used, ToCome(y)
      PROVE  Programmed(num[y], cfg[y]) \/ LossAhead(num[y]) \/ ToCome(y)'
  <2>1. y \in Slots /\ y < numVfs
    BY DEF Used
  <2>2. CASE UpdLock(t)
    BY <1>1, <1>4, <2>1, <2>2 DEF ToCome, UpdLock, slotVars, InPass, Slots
  <2>3. CASE UpdSkip(t)
    BY <1>1, <1>4, <2>1, <2>3 DEF ToCome, UpdSkip, slotVars, InPass, Slots
  <2>4. CASE UpdUnlock(t)
    BY <1>1, <1>4, <2>1, <2>4 DEF ToCome, UpdUnlock, slotVars, InPass, Slots
  <2>5. CASE UpdMark(t) /\ cur[t] = y
    <3>1. pc[t] = "mark" /\ cfg[y] # NoCfg
      BY <2>5, NamesAssumption DEF UpdMark, Static
    <3>2. QED
      BY <2>5, <3>1 DEF PartsDone, Programmed
  <2>6. CASE UpdMark(t) /\ cur[t] # y
    <3>1. upd'[y] = upd[y] /\ scan' = scan /\ cur[t] \in Slots
      BY <2>1, <2>6 DEF UpdMark, Places
    <3>2. CASE t = "intr"
      BY <1>1, <1>4, <2>6, <3>1, <3>2 DEF ToCome, UpdMark
    <3>3. CASE t = "refresh"
      BY <1>1, <1>4, <2>1, <2>6, <3>1, <3>3 DEF ToCome, UpdMark, InPass, Slots
    <3>4. QED
      BY <3>2, <3>3
  <2>7. QED
    BY <2>2, <2>3, <2>4, <2>5, <2>6
<1>5. QED
  BY <1>1, <1>3, <1>4, RepairGoesOn

LEMMA PickRepairs ==
  ASSUME RestInv, SameTable, RefreshPick \/ RefreshPop
  PROVE  VlansFit' /\ PartsDone' /\ Repaired'
<1> USE DEF RestInv, IInv, TypeOK, SlotTypes, ThreadTypes, PcValues, Threads, Goto
<1>1. SameLosses /\ UNCHANGED nicVars /\ num' = num
  BY DEF RefreshPick, RefreshPop, evVars, slotVars, SameLosses, LossAhead
<1>2. \A r \in {"refresh", "intr"} :
        pc'[r] \in {"mac", "opt", "mark"} => pc'[r] = pc[r] /\ cur'[r] = cur[r]
  BY DEF RefreshPick, RefreshPop, Restore
<1>3. VlansFit' /\ PartsDone'
  BY <1>1, <1>2, NicStays
<1>4. ASSUME NEW y \in Used, num[y] \in rq, ToCome(y)
      PROVE  num[y] \in rq' /\ ToCome(y)'
  <2>1. y \in Slots /\ y < numVfs /\ y \in Nat
    BY DEF Used, Slots
  <2>2. CASE RefreshPick
    BY <1>1, <1>4, <2>1, <2>2 DEF RefreshPick, Restore, ToCome, evVars
  <2>3. CASE RefreshPop
    BY <1>1, <1>4, <2>1, <2>3 DEF RefreshPop, ToCome, InPass
  <2>4. QED
    BY <2>2, <2>3
<1>5. QED
  BY <1>1, <1>3, <1>4, RepairGoesOn

LEMMA CallbackRepairs ==
  ASSUME RestInv, SameTable, CallbackRestore \/ CallbackDone \/ CallbackRequeue
  PROVE  VlansFit' /\ PartsDone' /\ Repaired'
<1> USE DEF RestInv, IInv, TypeOK, SlotTypes, ThreadTypes, PcValues, Threads, Goto
<1>1. SameLosses /\ UNCHANGED nicVars /\ num' = num /\ rq \subseteq rq' /\ cur' = cur
      /\ upd' = upd
  BY DEF CallbackRestore, CallbackDone, CallbackRequeue, Enqueue, evVars, slotVars, SameLosses,
         LossAhead
<1>2. /\ \A r \in {"refresh", "intr"} :
           pc'[r] \in {"mac", "opt", "mark"} => pc'[r] = pc[r] /\ cur'[r] = cur[r]
      /\ pc'["refresh"] = pc["refresh"] /\ scan'["refresh"] = scan["refresh"]
      /\ rvf'["refresh"] = rvf["refresh"]
  BY <1>1 DEF CallbackRestore, CallbackDone, CallbackRequeue, Restore
<1>3. VlansFit' /\ PartsDone'
  BY <1>1, <1>2, NicStays
<1>4. ASSUME NEW y \in Used, ToCome(y) PROVE ToCome(y)'
  BY <1>1, <1>2, <1>4 DEF ToCome
<1>5. QED
  BY <1>1, <1>3, <1>4, RepairGoesOn

(***************************************************************************)
(* The parts of a pass, and the losses.                                    *)
(***************************************************************************)

\* Part `from' of the pass of t over slot y puts what the slot asks for onto the NIC.
PutPart(t, y, from, to) ==
  /\ pc[t] = from /\ cur[t] = y /\ pc' = [pc EXCEPT ![t] = to]
  /\ UNCHANGED <<upd, cur, scan, rvf, rq, mbox>>
  /\ nicVlans' = [nicVlans EXCEPT ![num[y]] = IF from = "slot" THEN {cfg[y]} ELSE @]
  /\ nicMacs' = [nicMacs EXCEPT ![num[y]] = IF from = "mac" THEN cfg[y] ELSE @]
  /\ nicOpts' = [nicOpts EXCEPT ![num[y]] = IF from = "opt" THEN cfg[y] ELSE @]

LEMMA PartRepairs ==
  ASSUME RestInv, SameTable, NEW t \in {"refresh", "intr"}, NEW y \in Used,
         NEW from, NEW to, PutPart(t, y, from, to),
         <<from, to>> \in {<<"slot", "mac">>, <<"mac", "opt">>, <<"opt", "mark">>}
  PROVE  VlansFit' /\ PartsDone' /\ Repaired'
<1> USE DEF RestInv, IInv, TypeOK, SlotTypes, ThreadTypes, NicTypes, PcValues, Threads, Static
<1>1. /\ Used' = Used /\ y \in Slots
      /\ num' = num /\ cfg' = cfg /\ mbox' = mbox /\ rq' = rq /\ cur' = cur
      /\ \A z \in Used : num[z] \in VfIds /\ cfg[z] \in Cfgs
  BY DEF SameTable, Used, PutPart
<1>2. \A z \in Used : num[z] = num[y] => z = y
  BY OneSlot
<1>3. \A z \in Used : z # y =>
        /\ nicVlans'[num[z]] = nicVlans[num[z]]
        /\ nicMacs'[num[z]] = nicMacs[num[z]] /\ nicOpts'[num[z]] = nicOpts[num[z]]
  BY <1>1, <1>2 DEF PutPart
<1>4. /\ nicVlans'[num[y]] = IF from = "slot" THEN {cfg[y]} ELSE nicVlans[num[y]]
      /\ nicMacs'[num[y]] = IF from = "mac" THEN cfg[y] ELSE nicMacs[num[y]]
      /\ nicOpts'[num[y]] = IF from = "opt" THEN cfg[y] ELSE nicOpts[num[y]]
  BY <1>1 DEF PutPart
<1>5. VlansFit'
  BY <1>1, <1>3, <1>4 DEF VlansFit
<1>6. ASSUME NEW r \in {"refresh", "intr"}, NEW z \in Used,
             pc'[r] \in {"mac", "opt", "mark"}, cur[r] = z, ~LossAhead(num[z])
      PROVE  /\ nicVlans'[num[z]] = {cfg[z]}
             /\ pc'[r] \in {"opt", "mark"} => nicMacs'[num[z]] = cfg[z]
             /\ pc'[r] = "mark" => nicOpts'[num[z]] = cfg[z]
  <2>1. CASE r # t
    <3>1. pc'[r] = pc[r]
      BY <2>1 DEF PutPart
    <3>2. QED
      BY <1>3, <1>4, <1>6, <3>1 DEF PartsDone
  <2>2. CASE r = t
    <3>1. z = y /\ pc[r] = from /\ pc'[r] = to
      BY <1>6, <2>2 DEF PutPart
    <3>2. /\ from \in {"mac", "opt"} => nicVlans[num[y]] = {cfg[y]}
          /\ from = "opt" => nicMacs[num[y]] = cfg[y]
      BY <1>6, <3>1 DEF PartsDone
    <3>3. QED
      BY <1>4, <3>1, <3>2
  <2>3. QED
    BY <2>1, <2>2
<1>7. PartsDone'
  BY <1>1, <1>6 DEF PartsDone, LossAhead
<1>8. ASSUME NEW z \in Used
      PROVE  (Programmed(num[z], cfg[z]) \/ LossAhead(num[z]) \/ (num[z] \in rq /\ ToCome(z)))'
  <2>1. Programmed(num[z], cfg[z]) =>
          /\ nicVlans'[num[z]] = {cfg[z]} \ {NoCfg}
          /\ nicMacs'[num[z]] = cfg[z] /\ nicOpts'[num[z]] = cfg[z]
    BY <1>1, <1>3, <1>4, NamesAssumption DEF Programmed
  <2>2. ToCome(z) => ToCome(z)'
    <3>1. CASE t = "refresh"
      BY <1>1, <3>1 DEF PutPart, ToCome, InPass
    <3>2. CASE t = "intr"
      BY <1>1, <3>2 DEF PutPart, ToCome
    <3>3. QED
      BY <3>1, <3>2
  <2>3. QED
    BY <1>1, <2>1, <2>2 DEF Repaired, Programmed, LossAhead
<1>9. QED
  BY <1>1, <1>5, <1>7, <1>8 DEF Repaired

LEMMA PassRepairs ==
  ASSUME RestInv, SameTable, NEW t \in {"refresh", "intr"}, UpdVlans(t) \/ UpdMacs(t) \/ UpdOpts(t)
  PROVE  VlansFit' /\ PartsDone' /\ Repaired'
<1> USE DEF RestInv, IInv, TypeOK, SlotTypes, ThreadTypes, NicTypes, Static, Threads
<1>1. PICK y \in Used : y = cur[t]
  BY DEF UpdVlans, UpdMacs, UpdOpts, Used, Slots
<1>2. PICK v \in VfIds, c \in Cfgs : v = num[y] /\ c = cfg[y] /\ v # NoVf /\ c # NoCfg
  <2>1. num[y] \in VfIds /\ cfg[y] \in Cfgs
    OBVIOUS
  <2>2. (\A w \in VfIds : w # NoVf) /\ NoCfg \notin Cfgs
    BY NamesAssumption, SizesAssumption DEF NoVf
  <2>3. QED
    BY <2>1, <2>2
<1>3. macs[y] = c /\ upd[y] # "deleted" /\ First(v) = {y}
  BY <1>2, OwnSlot DEF Used
<1>4. CASE UpdVlans(t)
  <2>1. nicVlans' = [w \in VfIds |-> IF w # v THEN nicVlans[w] ELSE nicVlans[w] \cup {c}]
    <3>1. Selected(num[cur[t]]) = {{v}} /\ upd[cur[t]] # "deleted"
      BY <1>1, <1>2, <1>3 DEF Selected
    <3>2. {cfg[cur[t]]} \ {NoCfg} = {c}
      BY <1>1, <1>2
    <3>3. QED
      BY <1>4, <3>1, <3>2 DEF UpdVlans
  <2>2. nicVlans[v] \cup {c} = {c}
    BY <1>2 DEF VlansFit
  <2>3. nicVlans' = [nicVlans EXCEPT ![v] = {c}]
    BY <2>1, <2>2
  <2>4. PutPart(t, y, "slot", "mac")
    BY <1>1, <1>2, <1>4, <2>3 DEF UpdVlans, PutPart, Goto, slotVars, evVars
  <2>5. QED
    BY <2>4, PartRepairs
<1>5. CASE UpdMacs(t)
  <2>1. nicMacs' = [nicMacs EXCEPT ![v] = c]
    BY <1>1, <1>2, <1>3, <1>5 DEF UpdMacs
  <2>2. PutPart(t, y, "mac", "opt")
    BY <1>1, <1>2, <1>5, <2>1 DEF UpdMacs, PutPart, Goto, evVars
  <2>3. QED
    BY <2>2, PartRepairs
<1>6. CASE UpdOpts(t)
  <2>1. nicOpts' = [nicOpts EXCEPT ![v] = c]
    BY <1>1, <1>2, <1>3, <1>6 DEF UpdOpts
  <2>2. PutPart(t, y, "opt", "mark")
    BY <1>1, <1>2, <1>6, <2>1 DEF UpdOpts, PutPart, Goto, evVars
  <2>3. QED
    BY <2>2, PartRepairs
<1>7. QED
  BY <1>4, <1>5, <1>6

\* A refresh is queued while neither thread is in a pass or at a restore.
LEMMA QueueRepairs ==
  ASSUME RestInv, SameTable, CallbackQueue
  PROVE  VlansFit' /\ PartsDone' /\ Repaired'
<1> USE DEF RestInv, IInv, TypeOK, SlotTypes, ThreadTypes, Static
<1>1. PICK e \in mbox : e.kind = "reset" /\ mbox' = mbox \ {e} /\ rq' = rq \cup {e.vf}
  BY DEF CallbackQueue, Enqueue
<1>2. /\ pc["intr"] = "idle" /\ pc["refresh"] = "idle" /\ pc' = pc
      /\ UNCHANGED nicVars /\ Used' = Used /\ num' = num /\ cfg' = cfg
      /\ \A z \in Used : num[z] \in VfIds /\ cfg[z] \in Cfgs
  BY DEF CallbackQueue, RqLockFree, SameTable, Used
<1>3. VlansFit' /\ PartsDone'
  BY <1>2 DEF VlansFit, PartsDone, nicVars
<1>4. \A v \in VfIds : LossAhead(v) => LossAhead(v)' \/ v \in rq'
  <2>1. ASSUME NEW v \in VfIds, LossAhead(v), ~LossAhead(v)' PROVE v \in rq'
    <3>1. e = [kind |-> "reset", vf |-> v]
      BY <1>1, <2>1 DEF LossAhead
    <3>2. QED
      BY <1>1, <3>1
  <2>2. QED
    BY <2>1
<1>5. ASSUME NEW z \in Used
      PROVE  (Programmed(num[z], cfg[z]) \/ LossAhead(num[z]) \/ (num[z] \in rq /\ ToCome(z)))'
  <2>1. PICK v \in VfIds, c \in Cfgs : num[z] = v /\ cfg[z] = c /\ num'[z] = v /\ cfg'[z] = c
    BY <1>2
  <2>2. Programmed(v, c) \/ LossAhead(v) \/ v \in rq
    BY <2>1 DEF Repaired
  <2>3. Programmed(v, c)' \/ LossAhead(v)' \/ v \in rq'
    BY <1>1, <1>2, <1>4, <2>2 DEF Programmed, nicVars
  <2>4. ToCome(z)'
    BY <1>2 DEF ToCome
  <2>5. QED
    BY <2>1, <2>3, <2>4 DEF Programmed, LossAhead
<1>6. QED
  BY <1>2, <1>3, <1>5 DEF Repaired

LEMMA InterruptRepairs ==
  ASSUME RestInv, SameTable, NEW e \in OtherInterrupts, Interrupt(e)
  PROVE  VlansFit' /\ PartsDone' /\ Repaired'
<1>1. mbox' = mbox \cup {e} /\ e.kind # "reset"
  BY DEF Interrupt, OtherInterrupts
<1>2. SameLosses
  BY <1>1 DEF SameLosses, LossAhead
<1>3. UNCHANGED nicVars /\ UNCHANGED <<num, upd, rq, pc, cur, scan, rvf>>
  BY DEF Interrupt, slotVars
<1>4. VlansFit' /\ PartsDone'
  BY <1>2, <1>3, NicStays
<1>5. ASSUME NEW y \in Used, ToCome(y) PROVE ToCome(y)'
  BY <1>3, <1>5 DEF ToCome
<1>6. QED
  BY <1>2, <1>3, <1>4, <1>5, RepairGoesOn

LEMMA ResetRepairs ==
  ASSUME RestInv, SameTable, NEW v \in VfIds, GuestReset(v)
  PROVE  VlansFit' /\ PartsDone' /\ Repaired'
<1> USE DEF RestInv, IInv, TypeOK, SlotTypes, NicTypes, Static
<1>1. /\ UNCHANGED <<num, upd, rq, pc, cur, scan, rvf>> /\ Used' = Used /\ cfg' = cfg
      /\ mbox' = mbox \cup {[kind |-> "reset", vf |-> v]}
      /\ \A z \in Used : num[z] \in VfIds /\ cfg[z] \in Cfgs
  BY DEF GuestReset, slotVars, Used
<1>2. /\ nicVlans'[v] = {}
      /\ \A w \in VfIds \ {v} :
           nicVlans'[w] = nicVlans[w] /\ nicMacs'[w] = nicMacs[w] /\ nicOpts'[w] = nicOpts[w]
  BY DEF GuestReset
<1>3. LossAhead(v)' /\ \A w \in VfIds : LossAhead(w) => LossAhead(w)'
  BY <1>1 DEF LossAhead
<1>4. VlansFit'
  BY <1>1, <1>2 DEF VlansFit
<1>5. ASSUME NEW t \in {"refresh", "intr"}, NEW z \in Used,
             pc[t] \in {"mac", "opt", "mark"}, cur[t] = z, ~LossAhead(num[z])'
      PROVE  /\ nicVlans'[num[z]] = {cfg[z]}
             /\ pc[t] \in {"opt", "mark"} => nicMacs'[num[z]] = cfg[z]
             /\ pc[t] = "mark" => nicOpts'[num[z]] = cfg[z]
  <2>1. num[z] \in VfIds \ {v} /\ ~LossAhead(num[z])
    BY <1>1, <1>3, <1>5 DEF LossAhead
  <2>2. PartsDone
    OBVIOUS
  <2> HIDE DEF RestInv, IInv, TypeOK, SlotTypes, NicTypes, Static
  <2>3. /\ nicVlans[num[z]] = {cfg[z]}
        /\ pc[t] \in {"opt", "mark"} => nicMacs[num[z]] = cfg[z]
        /\ pc[t] = "mark" => nicOpts[num[z]] = cfg[z]
    BY <1>5, <2>1, <2>2 DEF PartsDone
  <2>4. QED
    BY <1>2, <2>1, <2>3
<1>6. PartsDone'
  BY <1>1, <1>5 DEF PartsDone, LossAhead
<1>7. ASSUME NEW z \in Used
      PROVE  (Programmed(num[z], cfg[z]) \/ LossAhead(num[z]) \/ (num[z] \in rq /\ ToCome(z)))'
  <2>1. PICK w \in VfIds, c \in Cfgs : num[z] = w /\ cfg[z] = c /\ num'[z] = w /\ cfg'[z] = c
    BY <1>1
  <2>2. Programmed(w, c) \/ LossAhead(w) \/ (w \in rq /\ ToCome(z))
    BY <2>1 DEF Repaired
  <2>3. w # v /\ Programmed(w, c) => Programmed(w, c)'
    BY <1>2 DEF Programmed
  <2>4. ToCome(z) => ToCome(z)'
    BY <1>1 DEF ToCome
  <2>5. Programmed(w, c)' \/ LossAhead(w)' \/ (w \in rq' /\ ToCome(z)')
    BY <1>1, <1>3, <2>2, <2>3, <2>4
  <2>6. QED
    BY <2>1, <2>5 DEF Programmed, LossAhead
<1>8. QED
  BY <1>1, <1>4, <1>6, <1>7 DEF Repaired

LEMMA RestStep ==
  ASSUME Requests = {}, RestInv, [Next]_vars
  PROVE  RestInv'
<1>1. IInv' /\ Static' /\ SameTable
  BY InvStep, StaticStep DEF RestInv
<1>2. CASE UNCHANGED vars
  <2>1. SameLosses /\ UNCHANGED nicVars /\ UNCHANGED <<num, upd, rq, pc, cur, scan, rvf>>
    BY <1>2 DEF vars, evVars, slotVars, SameLosses, LossAhead
  <2>2. \A y \in Used : ToCome(y) => ToCome(y)'
    BY <2>1 DEF ToCome
  <2>3. QED
    BY <1>1, <2>1, <2>2, NicStays, RepairGoesOn DEF RestInv
<1>3. ASSUME NEW t \in {"refresh", "intr"}, RestoreStep(t) PROVE RestInv'
  BY <1>1, <1>3, ScanRepairs, WalkRepairs, PassRepairs DEF RestInv, RestoreStep, Update
<1>4. CASE RefreshPick \/ RefreshPop
  BY <1>1, <1>4, PickRepairs DEF RestInv
<1>5. CASE CallbackRestore \/ CallbackDone \/ CallbackRequeue
  BY <1>1, <1>5, CallbackRepairs DEF RestInv
<1>6. CASE CallbackQueue
  BY <1>1, <1>6, QueueRepairs DEF RestInv
<1>7. CASE Device
  BY <1>1, <1>7, InterruptRepairs, ResetRepairs DEF RestInv, Device
<1>8. QED
  BY <1>2, <1>3, <1>4, <1>5, <1>6, <1>7, RestoresOnly

\* What VFd believes of a VF that is in slot y.
LEMMA WantedHere ==
  ASSUME RestInv, NEW v \in VfIds
  PROVE  Managed(v) => \E y \in Used : num[y] = v /\ Wanted(v) = cfg[y]
<1> SUFFICES ASSUME Managed(v) PROVE \E y \in Used : num[y] = v /\ Wanted(v) = cfg[y]
  OBVIOUS
<1>1. PICK y \in Holding(v) : ~Filling(y) /\ upd[y] # "deleted"
  BY DEF Managed
<1>2. \A z \in Holding(v) : z = y
  BY <1>1, OneSlot DEF Holding
<1>3. (CHOOSE z \in Holding(v) : ~Filling(z) /\ upd[z] # "deleted") = y
  BY <1>1, <1>2
<1>4. QED
  BY <1>1, <1>3 DEF Wanted, Holding

LEMMA RestInitially == Init => RestInv
<1> SUFFICES ASSUME Init PROVE RestInv
  OBVIOUS
<1>1. IInv
  BY InitInv
<1>2. PICK n \in BootSizes, ids \in [Slots -> VfIds], c \in [Slots -> Cfgs] :
        /\ numVfs = n
        /\ num = [y \in Slots |-> IF y < n THEN ids[y] ELSE 0]
        /\ cfg = [y \in Slots |-> IF y < n THEN c[y] ELSE NoCfg]
  BY DEF Init
<1>3. \A y \in Used : num[y] \in VfIds /\ cfg[y] \in Cfgs /\ macs[y] = cfg[y]
  BY <1>2 DEF Init, Used
<1>4. \A t \in Threads : pc[t] = "idle"
  BY DEF Init
<1>5. Static /\ PartsDone
  BY <1>3, <1>4 DEF Init, Static, PartsDone, Threads
<1>6. ASSUME NEW y \in Used
      PROVE  Programmed(num[y], cfg[y]) /\ nicVlans[num[y]] \subseteq {cfg[y]}
  <2>1. PICK v \in VfIds : v = num[y]
    BY <1>3
  <2>2. \A z \in Used : num[z] # NoVf /\ ~Filling(z)
    BY <1>3, <1>4 DEF NoVf, Filling, Threads
  <2>3. Holding(v) = {y}
    BY <1>1, <2>1, <2>2 DEF IInv, UniqueVfs, Holding
  <2>4. ~Filling(y) /\ upd[y] # "deleted"
    BY <2>2 DEF Init, Used
  <2>5. Wanted(v) = cfg[y]
    BY <2>3, <2>4 DEF Wanted, Managed
  <2>6. nicVlans[v] = {cfg[z] : z \in Holding(v)} /\ nicMacs[v] = Wanted(v) /\ nicOpts[v] = Wanted(v)
    BY DEF Init
  <2>7. QED
    BY <1>3, <2>1, <2>3, <2>5, <2>6, NamesAssumption DEF Programmed
<1>7. QED
  BY <1>1, <1>5, <1>6 DEF RestInv, VlansFit, Repaired

\* What a guest has lost comes back: with no request under way and nothing left to handle,
\* every managed VF has its whole configuration on the NIC, for any number of VFs and of
\* resets, negotiations, MTU changes and link changes, in whatever order the interrupt and
\* the refresh thread take their restores (restore_vf_setings and vfd_update_nic, main.c).
THEOREM RestoresComplete ==
  ASSUME Requests = {}
  PROVE  Spec => []ManagedIsProgrammed
<1>1. RestInv /\ [Next]_vars => RestInv'
  BY RestStep
<1>2. RestInv => ManagedIsProgrammed
  <2> SUFFICES ASSUME RestInv, Quiet, NEW v \in VfIds, Managed(v) PROVE Programmed(v, Wanted(v))
    BY DEF ManagedIsProgrammed
  <2>1. PICK y \in Used : num[y] = v /\ Wanted(v) = cfg[y]
    BY WantedHere
  <2>2. QED
    BY <2>1 DEF Quiet, RestInv, Repaired, LossAhead
<1>3. QED
  BY <1>1, <1>2, RestInitially, PTL DEF Spec

\* An entry is not taken off the refresh queue before its VF has all of its configuration
\* again, unless it was reset once more and that interrupt is still to come
\* (process_refresh_queue, sriov.c).
THEOREM PopsAreProgrammed ==
  ASSUME Requests = {}
  PROVE  Spec => PopMeansProgrammed
<1> DEFINE Popped ==
      \A v \in rq \ rq' :
        Managed(v) => Programmed(v, Wanted(v)) \/ [kind |-> "reset", vf |-> v] \in mbox
<1>1. RestInv /\ [Next]_vars => RestInv'
  BY RestStep
<1>2. RestInv /\ [Next]_vars => [Popped]_vars
  <2> SUFFICES ASSUME RestInv, [Next]_vars, NEW v \in rq \ rq', Managed(v)
               PROVE  Programmed(v, Wanted(v)) \/ LossAhead(v)
    BY DEF LossAhead
  <2>1. RefreshPop
    <3>1. \A t \in {"refresh", "intr"} : RestoreStep(t) => rq' = rq
      BY DEF RestoreStep, ScanSlot, FlagReset, Update, UpdLock, UpdSkip, UpdVlans, UpdMacs,
             UpdOpts, UpdMark, UpdUnlock, evVars
    <3>2. UNCHANGED vars \/ RefreshPick \/ Device => rq' = rq
      BY DEF vars, evVars, RefreshPick, Device, GuestReset, Interrupt
    <3>3. CallbackQueue \/ CallbackRestore \/ CallbackDone \/ CallbackRequeue => rq \subseteq rq'
      BY DEF CallbackQueue, CallbackRestore, CallbackDone, CallbackRequeue, Enqueue, evVars
    <3>4. QED
      BY <3>1, <3>2, <3>3, RestoresOnly
  <2>2. v \in VfIds /\ v = rvf["refresh"] /\ pc["refresh"] = "scan" /\ scan["refresh"] >= numVfs
    BY <2>1 DEF RefreshPop, RestInv, IInv, TypeOK, EventTypes
  <2>3. PICK y \in Used : num[y] = v /\ Wanted(v) = cfg[y]
    BY <2>2, WantedHere
  <2>4. y < numVfs /\ y \in Nat /\ numVfs \in Nat /\ scan["refresh"] \in Nat
    BY DEF Used, Slots, RestInv, IInv, TypeOK, SlotTypes, ThreadTypes, Threads
  <2>5. ~ToCome(y)
    BY <2>2, <2>3, <2>4 DEF ToCome, InPass
  <2>6. QED
    BY <2>3, <2>5 DEF RestInv, Repaired
<1>3. QED
  BY <1>1, <1>2, RestInitially, PTL DEF Spec, PopMeansProgrammed

(***************************************************************************)
(* The refinement.  VfdConfig implements VfRegistry as long as no          *)
(* interrupt comes: adds and deletes, vetted without the lock, copied with *)
(* it and carried to the NIC in four parts, look to a client like one      *)
(* table.  The invariant holds of the main thread alone; IInv is used      *)
(* beside it.                                                              *)
(***************************************************************************)

\* No interrupt has come, so the other threads have nothing to do.
Alone ==
  /\ pc["refresh"] = "idle" /\ pc["intr"] = "idle"
  /\ mbox = {} /\ rq = {}

\* Main is in vfd_update_nic for a request it has accepted.
InHand == pc["main"] \in {"update"} \cup InPass

\* Its pass has not gone by the slot of the request.
Pending == InHand /\ (pc["main"] = "update" \/ cur["main"] <= req.slot)

\* What the NIC holds for the VF of the request, before and after.
From == IF req.op = "add" THEN NoCfg ELSE req.cfg
To   == IF req.op = "add" THEN req.cfg ELSE NoCfg

\* What each request has in hand.
ReqFits ==
  /\ pc["main"] \in {"reserved", "cleared"} \/ InHand =>
       /\ req.vf \in VfIds /\ req.cfg \in Cfgs /\ req.slot \in Used
       /\ req.op \in {"add", "del"}
  /\ pc["main"] \in {"reserved", "cleared"} => req.op = "add"
  /\ pc["main"] \in {"mac", "opt", "mark"} => cur["main"] = req.slot

\* Only the slot of a pending request is marked, and with the mark of that request.
MarksFit ==
  \A y \in Slots :
    upd[y] = IF Pending /\ y = req.slot
             THEN (IF req.op = "add" THEN "added" ELSE "deleted")
             ELSE "unchanged"

\* A slot that holds a VF has a configuration, and the MACs of that configuration.
SlotsFit ==
  \A y \in Used :
    num[y] # NoVf /\ ~Filling(y) /\ ~(Pending /\ y = req.slot) =>
      cfg[y] \in Cfgs /\ macs[y] = cfg[y]

\* The NIC agrees with the table, but for the VF of a pending request.
NicFits ==
  \A v \in VfIds :
    ~(Pending /\ v = req.vf) =>
      /\ \A y \in Holding(v) : ~Filling(y) => Programmed(v, cfg[y])
      /\ (\A y \in Holding(v) : Filling(y)) => Programmed(v, NoCfg)

\* For that one the pass has replaced one part of the settings after the other.
PassFits ==
  Pending =>
    /\ cfg[req.slot] = req.cfg
    /\ \A y \in Used : num[y] = req.vf => y = req.slot
    /\ num[req.slot] = IF req.op = "del" /\ pc["main"] = "mark" THEN NoVf ELSE req.vf
    /\ macs[req.slot] = IF req.op = "del" /\ pc["main"] \in {"opt", "mark"} THEN NoCfg ELSE req.cfg
    /\ nicVlans[req.vf] = {IF pc["main"] \in {"mac", "opt", "mark"} THEN To ELSE From} \ {NoCfg}
    /\ nicMacs[req.vf] = IF pc["main"] \in {"opt", "mark"} THEN To ELSE From
    /\ nicOpts[req.vf] = IF pc["main"] = "mark" THEN To ELSE From

RegInv == Alone /\ ReqFits /\ MarksFit /\ SlotsFit /\ NicFits /\ PassFits

(***************************************************************************)
(* The invariant holds.                                                    *)
(***************************************************************************)

LEMMA NoneBefore ==
  ASSUME EventTypes, nevents' = 0, [Next]_vars
  PROVE  nevents = 0 /\ ~Device
<1>1. ~Device
  BY DEF Device, GuestReset, Interrupt, EventTypes
<1>2. UNCHANGED nevents \/ Device
  BY DEF Next, vars, evVars, Request, AddRejected, AddReserve, DelRejected, DelMark, Main, AddClear,
         AddFill, Reply, Refresh, RefreshPick, RefreshPop, Callback, CallbackQueue, CallbackRestore,
         CallbackDone, CallbackRequeue, Restoring, ScanSlot, FlagReset, Update, UpdLock, UpdSkip,
         UpdVlans, UpdMacs, UpdOpts, UpdMark, UpdUnlock, Poll
<1>3. QED
  BY <1>1, <1>2

LEMMA OnlyMain ==
  ASSUME ~Device, ThreadTypes, Alone, [Next]_vars
  PROVE  /\ Alone'
         /\ UNCHANGED vars \/ Request \/ AddClear \/ AddFill \/ Reply \/ Update("main")
<1> USE DEF ThreadTypes, PcValues, Threads
<1>1. CASE UNCHANGED vars
  BY <1>1 DEF vars, evVars, Alone
<1>2. CASE Request
  BY <1>2 DEF Request, AddRejected, AddReserve, DelRejected, DelMark, Alone, evVars, Goto
<1>3. CASE AddClear \/ AddFill \/ Reply
  BY <1>3 DEF AddClear, AddFill, Reply, Alone, evVars, Goto
<1>4. CASE Update("main")
  BY <1>4 DEF Update, UpdLock, UpdSkip, UpdVlans, UpdMacs, UpdOpts, UpdMark, UpdUnlock, Alone,
              evVars, Goto
<1>5. ~Refresh
  BY DEF Refresh, RefreshPick, RefreshPop, Restoring, ScanSlot, FlagReset, Update, UpdLock,
         UpdSkip, UpdVlans, UpdMacs, UpdOpts, UpdMark, UpdUnlock, Alone
<1>6. ~Callback
  BY DEF Callback, CallbackQueue, CallbackRestore, CallbackDone, CallbackRequeue, Restoring,
         ScanSlot, FlagReset, Update, UpdLock, UpdSkip, UpdVlans, UpdMacs, UpdOpts, UpdMark,
         UpdUnlock, Alone
<1>7. QED
  BY <1>1, <1>2, <1>3, <1>4, <1>5, <1>6 DEF Next, Main, Poll

LEMMA RegInitInv == Init => RegInv
<1> SUFFICES ASSUME Init PROVE RegInv
  OBVIOUS
<1>1. PICK n \in BootSizes, ids \in [Slots -> VfIds], c \in [Slots -> Cfgs] :
        /\ \A y, z \in 0 .. n - 1 : ids[y] = ids[z] => y = z
        /\ numVfs = n
        /\ num = [y \in Slots |-> IF y < n THEN ids[y] ELSE 0]
        /\ cfg = [y \in Slots |-> IF y < n THEN c[y] ELSE NoCfg]
  BY DEF Init
<1>2. n \in 0 .. NSlots
  BY BootAssumption
<1>3. \A y \in Used : y \in Slots /\ num[y] = ids[y] /\ cfg[y] = c[y] /\ macs[y] = c[y]
  BY <1>1, <1>2 DEF Init, Used, Slots
<1>4. UniqueVfs /\ TypeOK
  BY InitInv DEF IInv
<1>5. pc["main"] = "idle" /\ ~Pending /\ \A y \in Slots : ~Filling(y)
  BY DEF Init, Threads, Pending, InHand, InPass, Filling
<1>6. Alone /\ ReqFits /\ MarksFit /\ PassFits
  BY <1>5 DEF Init, Alone, Threads, ReqFits, InHand, InPass, MarksFit, PassFits
<1>7. SlotsFit
  BY <1>1, <1>3 DEF SlotsFit
<1>8. NicFits
  <2> SUFFICES ASSUME NEW v \in VfIds
               PROVE  /\ \A y \in Holding(v) : Programmed(v, cfg[y])
                      /\ Holding(v) = {} => Programmed(v, NoCfg)
    BY <1>5 DEF NicFits, Holding, Used
  <2>1. /\ nicVlans[v] = {cfg[y] : y \in Holding(v)}
        /\ nicMacs[v] = Wanted(v) /\ nicOpts[v] = Wanted(v)
    BY DEF Init
  <2>2. ASSUME NEW y \in Holding(v) PROVE Programmed(v, cfg[y])
    <3>1. Holding(v) = {y}
      BY <2>2, <1>4, <1>5 DEF UniqueVfs, Holding, Used, NoVf
    <3>2. upd[y] # "deleted" /\ ~Filling(y) /\ cfg[y] \in Cfgs
      BY <1>3, <1>5, <2>2 DEF Init, Holding, Used
    <3>3. Wanted(v) = cfg[y]
      BY <3>1, <3>2 DEF Wanted, Managed
    <3>4. QED
      BY <2>1, <3>1, <3>2, <3>3, NamesAssumption DEF Programmed
  <2>3. ASSUME Holding(v) = {} PROVE Programmed(v, NoCfg)
    BY <2>1, <2>3 DEF Wanted, Managed, Programmed
  <2>4. QED
    BY <2>2, <2>3
<1>9. QED
  BY <1>6, <1>7, <1>8 DEF RegInv

\* Between requests, and when a request is turned away, nothing moves.
LEMMA IdleKeeps ==
  ASSUME IInv, RegInv, ~Pending, ~Pending',
         \A y : Filling(y)' <=> Filling(y),
         UNCHANGED <<slotVars, nicVars>>
  PROVE  MarksFit' /\ SlotsFit' /\ NicFits' /\ PassFits'
<1>1. Used' = Used /\ \A v : Holding(v)' = Holding(v)
  BY DEF slotVars, Used, Holding
<1>2. \A v, c : Programmed(v, c)' <=> Programmed(v, c)
  BY DEF nicVars, Programmed
<1>3. MarksFit' /\ SlotsFit' /\ PassFits'
  BY <1>1 DEF RegInv, slotVars, MarksFit, SlotsFit, PassFits
<1>4. NicFits'
  BY <1>1, <1>2 DEF RegInv, slotVars, NicFits
<1>5. QED
  BY <1>3, <1>4

LEMMA RejectedKeeps ==
  ASSUME IInv, RegInv, NEW v \in VfIds, AddRejected(v) \/ DelRejected(v)
  PROVE  ReqFits' /\ MarksFit' /\ SlotsFit' /\ NicFits' /\ PassFits'
<1>1. /\ pc["main"] = "idle" /\ pc'["main"] = "reply"
      /\ UNCHANGED <<slotVars, nicVars>>
  BY DEF AddRejected, DelRejected, Goto, IInv, TypeOK, ThreadTypes, PcValues, Threads
<1>2. ~Pending /\ ~Pending' /\ \A y : ~Filling(y) /\ ~Filling(y)'
  BY <1>1 DEF Pending, InHand, InPass, Filling
<1>3. ReqFits'
  BY <1>1 DEF ReqFits, InHand, InPass
<1>4. QED
  BY <1>1, <1>2, <1>3, IdleKeeps

LEMMA ReplyKeeps ==
  ASSUME IInv, RegInv, Reply
  PROVE  ReqFits' /\ MarksFit' /\ SlotsFit' /\ NicFits' /\ PassFits'
<1>1. /\ pc["main"] = "reply" /\ pc'["main"] = "idle"
      /\ UNCHANGED <<slotVars, nicVars>>
  BY DEF Reply, Goto, IInv, TypeOK, ThreadTypes, PcValues, Threads
<1>2. ~Pending /\ ~Pending' /\ \A y : ~Filling(y) /\ ~Filling(y)'
  BY <1>1 DEF Pending, InHand, InPass, Filling
<1>3. ReqFits'
  BY <1>1 DEF ReqFits, InHand, InPass
<1>4. QED
  BY <1>1, <1>2, <1>3, IdleKeeps

LEMMA ReserveKeeps ==
  ASSUME IInv, RegInv, NEW v \in VfIds, NEW c \in Cfgs, AddReserve(v, c)
  PROVE  ReqFits' /\ MarksFit' /\ SlotsFit' /\ NicFits' /\ PassFits'
<1>1. PICK s \in InsertAt :
        /\ req' = [op |-> "add", vf |-> v, cfg |-> c, slot |-> s, ok |-> TRUE]
        /\ numVfs' = IF s = numVfs THEN numVfs + 1 ELSE numVfs
  BY DEF AddReserve
<1>2. s \in Slots /\ s <= numVfs /\ (s \in Used => num[s] = NoVf)
  BY DEF InsertAt, First, Holding, Used, IInv, TypeOK, SlotTypes, Slots
<1>3. /\ pc["main"] = "idle" /\ pc'["main"] = "reserved"
      /\ UNCHANGED <<num, upd, cfg, macs, nicVars>>
  BY DEF AddReserve, Goto, IInv, TypeOK, ThreadTypes, PcValues, Threads
<1>4. Used' = Used \cup {s}
  BY <1>1, <1>2 DEF Used, IInv, TypeOK, SlotTypes, Slots
<1>5. ~Pending /\ ~Pending' /\ \A y : ~Filling(y) /\ (Filling(y)' <=> y = s)
  BY <1>1, <1>3 DEF Pending, InHand, InPass, Filling
<1>6. ReqFits'
  BY <1>1, <1>3, <1>4 DEF ReqFits, InHand, InPass
<1>7. MarksFit' /\ SlotsFit' /\ PassFits'
  BY <1>3, <1>4, <1>5 DEF RegInv, MarksFit, SlotsFit, PassFits
<1>8. NicFits'
  <2>1. \A w \in VfIds : \A y : y \in Holding(w)' /\ y # s <=> y \in Holding(w)
    BY <1>2, <1>3, <1>4 DEF Holding, NoVf
  <2>2. \A w, d : Programmed(w, d)' <=> Programmed(w, d)
    BY <1>3 DEF nicVars, Programmed
  <2>3. QED
    BY <1>3, <1>5, <2>1, <2>2 DEF RegInv, NicFits
<1>9. QED
  BY <1>6, <1>7, <1>8

LEMMA ClearKeeps ==
  ASSUME IInv, RegInv, AddClear
  PROVE  ReqFits' /\ MarksFit' /\ SlotsFit' /\ NicFits' /\ PassFits'
<1> DEFINE s == req.slot
<1>1. /\ pc["main"] = "reserved" /\ pc'["main"] = "cleared"
      /\ UNCHANGED <<numVfs, req, nicVars>>
  BY DEF AddClear, Goto, IInv, TypeOK, ThreadTypes, PcValues, Threads
<1>2. s \in Used /\ s \in Slots
  BY <1>1 DEF RegInv, ReqFits, Used
<1>3. /\ \A y \in Slots : y # s =>
           num'[y] = num[y] /\ upd'[y] = upd[y] /\ cfg'[y] = cfg[y] /\ macs'[y] = macs[y]
      /\ upd'[s] = "unchanged"
  BY <1>2 DEF AddClear, IInv, TypeOK, SlotTypes
<1>4. ~Pending /\ ~Pending' /\ \A y : (Filling(y) <=> y = s) /\ (Filling(y)' <=> y = s)
  BY <1>1 DEF Pending, InHand, InPass, Filling
<1>5. Used' = Used /\ \A y \in Used : y \in Slots
  BY <1>1 DEF Used
<1>6. ReqFits'
  BY <1>1, <1>5 DEF RegInv, ReqFits, InHand, InPass
<1>7. MarksFit' /\ SlotsFit' /\ PassFits'
  BY <1>3, <1>4, <1>5 DEF RegInv, MarksFit, SlotsFit, PassFits
<1>8. NicFits'
  <2>1. \A w \in VfIds : \A y : y \in Holding(w)' /\ y # s <=> y \in Holding(w) /\ y # s
    BY <1>3, <1>5 DEF Holding
  <2>2. \A w, d : Programmed(w, d)' <=> Programmed(w, d)
    BY <1>1 DEF nicVars, Programmed
  <2>3. \A w : \A y \in Holding(w)' : y \in Slots
    BY <1>5 DEF Holding
  <2>4. QED
    BY <1>3, <1>4, <2>1, <2>2, <2>3 DEF RegInv, NicFits
<1>9. QED
  BY <1>6, <1>7, <1>8

LEMMA FillKeeps ==
  ASSUME IInv, RegInv, AddFill
  PROVE  ReqFits' /\ MarksFit' /\ SlotsFit' /\ NicFits' /\ PassFits'
<1> DEFINE s == req.slot
<1>1. /\ pc["main"] = "cleared" /\ pc'["main"] = "update"
      /\ UNCHANGED <<numVfs, req, nicVars>>
  BY DEF AddFill, Goto, IInv, TypeOK, ThreadTypes, PcValues, Threads
<1>2. /\ s \in Used /\ s \in Slots /\ req.op = "add" /\ req.cfg \in Cfgs /\ req.vf \in VfIds
      /\ \A y \in Used : num[y] = req.vf => y = s
  BY <1>1 DEF RegInv, ReqFits, Used, IInv, AddPending
<1>3. /\ \A y \in Slots : y # s =>
           num'[y] = num[y] /\ upd'[y] = upd[y] /\ cfg'[y] = cfg[y] /\ macs'[y] = macs[y]
      /\ upd'[s] = "added" /\ num'[s] = req.vf /\ cfg'[s] = req.cfg /\ macs'[s] = req.cfg
  BY <1>2 DEF AddFill, IInv, TypeOK, SlotTypes
<1>4. ~Pending /\ Pending' /\ \A y : (Filling(y) <=> y = s) /\ ~Filling(y)'
  BY <1>1 DEF Pending, InHand, InPass, Filling
<1>5. Used' = Used /\ \A y \in Used : y \in Slots
  BY <1>1 DEF Used
<1>6. ReqFits'
  BY <1>1, <1>5 DEF RegInv, ReqFits, InHand, InPass
<1>7. MarksFit' /\ SlotsFit'
  BY <1>1, <1>2, <1>3, <1>4, <1>5 DEF RegInv, MarksFit, SlotsFit
<1>8. NicFits'
  <2>1. \A w \in VfIds : w # req.vf =>
          \A y : y \in Holding(w)' <=> y \in Holding(w) /\ y # s
    BY <1>2, <1>3, <1>5 DEF Holding
  <2>2. \A w, d : Programmed(w, d)' <=> Programmed(w, d)
    BY <1>1 DEF nicVars, Programmed
  <2>3. \A w : \A y \in Holding(w) : y \in Slots
    BY <1>5 DEF Holding
  <2>4. QED
    BY <1>1, <1>3, <1>4, <2>1, <2>2, <2>3 DEF RegInv, NicFits
<1>9. PassFits'
  <2>1. \A y \in Holding(req.vf) : Filling(y)
    BY <1>2, <1>4 DEF Holding
  <2>2. Programmed(req.vf, NoCfg)
    BY <1>2, <1>4, <2>1 DEF RegInv, NicFits
  <2>3. (\A y \in Used : num[y] = req.vf => y = req.slot)'
    BY <1>1, <1>2, <1>3, <1>5
  <2>4. QED
    BY <1>1, <1>2, <1>3, <2>2, <2>3 DEF PassFits, Programmed, From, To, nicVars
<1>10. QED
  BY <1>6, <1>7, <1>8, <1>9

LEMMA MarkKeeps ==
  ASSUME IInv, RegInv, NEW v \in VfIds, DelMark(v)
  PROVE  ReqFits' /\ MarksFit' /\ SlotsFit' /\ NicFits' /\ PassFits'
<1>1. PICK s \in First(v) :
        /\ upd' = [upd EXCEPT ![s] = "deleted"]
        /\ req' = [op |-> "del", vf |-> v, cfg |-> cfg[s], slot |-> s, ok |-> TRUE]
  BY DEF DelMark
<1>2. /\ pc["main"] = "idle" /\ pc'["main"] = "update"
      /\ UNCHANGED <<numVfs, num, cfg, macs, nicVars>>
  BY DEF DelMark, Goto, IInv, TypeOK, ThreadTypes, PcValues, Threads
<1>3. Used' = Used /\ (\A y \in Used : y \in Slots) /\ \A w : Holding(w)' = Holding(w)
  BY <1>2 DEF Used, Holding
<1>4. s \in Used /\ num[s] = v /\ v # NoVf
  BY DEF First, Holding, NoVf
<1>5. ~Pending /\ Pending' /\ \A y : ~Filling(y) /\ ~Filling(y)'
  BY <1>2 DEF Pending, InHand, InPass, Filling
<1>6. cfg[s] \in Cfgs /\ macs[s] = cfg[s]
  BY <1>4, <1>5 DEF RegInv, SlotsFit
<1>7. ReqFits'
  BY <1>1, <1>2, <1>3, <1>4, <1>6 DEF ReqFits, InHand, InPass
<1>8. MarksFit' /\ SlotsFit'
  BY <1>1, <1>2, <1>3, <1>4, <1>5 DEF RegInv, MarksFit, SlotsFit, IInv, TypeOK, SlotTypes
<1>9. \A w, d : Programmed(w, d)' <=> Programmed(w, d)
  BY <1>2 DEF nicVars, Programmed
<1>10. NicFits'
  BY <1>1, <1>2, <1>3, <1>5, <1>9 DEF RegInv, NicFits
<1>11. PassFits'
  <2>1. Programmed(v, cfg[s])
    BY <1>4, <1>5 DEF RegInv, NicFits, Holding
  <2>2. (\A y \in Used : num[y] = req.vf => y = req.slot)'
    BY <1>1, <1>2, <1>3, <1>4, <1>5 DEF IInv, UniqueVfs
  <2>3. QED
    BY <1>1, <1>2, <1>4, <1>6, <2>1, <2>2 DEF PassFits, Programmed, From, To, nicVars
<1>12. QED
  BY <1>7, <1>8, <1>10, <1>11

\* The lock is taken, or the pass goes by a slot without a mark.
LEMMA WalkKeeps ==
  ASSUME IInv, RegInv, UpdLock("main") \/ UpdSkip("main")
  PROVE  ReqFits' /\ MarksFit' /\ SlotsFit' /\ NicFits' /\ PassFits'
<1>1. /\ pc["main"] \in {"update", "slot"} /\ pc'["main"] = "slot"
      /\ UNCHANGED <<slotVars, nicVars, req>>
  BY DEF UpdLock, UpdSkip, Goto, IInv, TypeOK, ThreadTypes, PcValues, Threads
<1>2. Pending' <=> Pending
  <2>1. req.slot \in Nat
    BY <1>1 DEF RegInv, ReqFits, InHand, InPass, Used, Slots
  <2>2. CASE UpdLock("main")
    BY <2>1, <2>2, <1>1 DEF UpdLock, Pending, InHand, InPass, IInv, TypeOK, ThreadTypes, Threads
  <2>3. CASE UpdSkip("main")
    <3>1. cur["main"] \in Nat /\ cur'["main"] = cur["main"] + 1 /\ cur["main"] \in Slots
      BY <2>3 DEF UpdSkip, IInv, TypeOK, ThreadTypes, SlotTypes, Threads, Slots
    <3>2. pc["main"] = "slot" /\ upd[cur["main"]] = "unchanged"
      BY <2>3 DEF UpdSkip
    <3>3. ~Pending \/ cur["main"] # req.slot
      BY <3>1, <3>2 DEF RegInv, MarksFit
    <3>4. QED
      BY <2>1, <3>1, <3>2, <3>3, <1>1 DEF Pending, InHand, InPass
  <2>4. QED
    BY <2>2, <2>3
<1>3. Used' = Used /\ \A w : Holding(w)' = Holding(w)
  BY <1>1 DEF Used, Holding, slotVars
<1>4. \A w, d : Programmed(w, d)' <=> Programmed(w, d)
  BY <1>1 DEF nicVars, Programmed
<1>5. \A y : ~Filling(y) /\ ~Filling(y)'
  BY <1>1 DEF Filling
<1>6. ReqFits' /\ MarksFit' /\ SlotsFit' /\ NicFits'
  BY <1>1, <1>2, <1>3, <1>4, <1>5
  DEF RegInv, ReqFits, MarksFit, SlotsFit, NicFits, InHand, InPass, slotVars
<1>7. PassFits'
  BY <1>1, <1>2, <1>3 DEF RegInv, PassFits, From, To, slotVars, nicVars
<1>8. QED
  BY <1>6, <1>7

\* In the parts of the pass that write the NIC, the slot is that of the request.
LEMMA AtItsSlot ==
  ASSUME IInv, RegInv,
         \/ pc["main"] \in {"mac", "opt", "mark"}
         \/ pc["main"] = "slot" /\ cur["main"] < numVfs /\ upd[cur["main"]] # "unchanged"
  PROVE  /\ Pending /\ cur["main"] = req.slot
         /\ req.slot \in Used /\ req.slot \in Slots
         /\ req.vf \in VfIds /\ req.vf # NoVf /\ req.cfg \in Cfgs /\ req.cfg # NoCfg
         /\ req.op \in {"add", "del"}
         /\ upd[req.slot] = IF req.op = "add" THEN "added" ELSE "deleted"
         /\ \A y : ~Filling(y)
         /\ pc["main"] # "mark" => First(req.vf) = {req.slot}
<1>1. /\ InHand /\ req.slot \in Used /\ req.slot \in Slots
      /\ req.vf \in VfIds /\ req.vf # NoVf /\ req.cfg \in Cfgs /\ req.cfg # NoCfg
      /\ req.op \in {"add", "del"}
  BY NamesAssumption DEF RegInv, ReqFits, InHand, InPass, Used, NoVf
<1>2. cur["main"] = req.slot
  <2>1. CASE pc["main"] \in {"mac", "opt", "mark"}
    BY <2>1 DEF RegInv, ReqFits
  <2>2. CASE pc["main"] = "slot" /\ cur["main"] < numVfs /\ upd[cur["main"]] # "unchanged"
    <3>1. cur["main"] \in Slots
      BY <2>2 DEF IInv, TypeOK, ThreadTypes, SlotTypes, Threads, Slots
    <3>2. QED
      BY <2>2, <3>1 DEF RegInv, MarksFit
  <2>3. QED
    BY <2>1, <2>2
<1>3. Pending
  BY <1>1, <1>2 DEF Pending, Slots
<1>4. upd[req.slot] = IF req.op = "add" THEN "added" ELSE "deleted"
  BY <1>1, <1>3 DEF RegInv, MarksFit
<1>5. \A y : ~Filling(y)
  BY DEF Filling
<1>6. ASSUME pc["main"] # "mark" PROVE First(req.vf) = {req.slot}
  <2>1. num[req.slot] = req.vf
    BY <1>3, <1>6 DEF RegInv, PassFits
  <2>2. \A y \in Used : num[y] = req.vf => y = req.slot
    BY <1>1, <1>5, <2>1 DEF IInv, UniqueVfs
  <2>3. Holding(req.vf) = {req.slot}
    BY <1>1, <2>1, <2>2 DEF Holding
  <2>4. QED
    BY <1>1, <2>3 DEF First, Slots
<1>7. QED
  BY <1>1, <1>2, <1>3, <1>4, <1>5, <1>6

LEMMA VlansKeeps ==
  ASSUME IInv, RegInv, UpdVlans("main")
  PROVE  /\ ReqFits' /\ MarksFit' /\ SlotsFit' /\ NicFits' /\ PassFits'
         /\ Pending /\ UNCHANGED <<slotVars, req>> /\ InHand'
         /\ \A v \in VfIds \ {req.vf} :
              UNCHANGED <<nicVlans[v], nicMacs[v], nicOpts[v]>>
<1> DEFINE s == req.slot
<1>1. /\ pc["main"] = "slot" /\ pc'["main"] = "mac" /\ cur["main"] < numVfs
      /\ upd[cur["main"]] # "unchanged"
      /\ UNCHANGED <<slotVars, nicMacs, nicOpts, cur, req>>
  BY DEF UpdVlans, Goto, IInv, TypeOK, ThreadTypes, PcValues, Threads
<1>2. /\ Pending /\ cur["main"] = s /\ s \in Used /\ s \in Slots
      /\ req.vf \in VfIds /\ req.vf # NoVf /\ req.cfg \in Cfgs /\ req.cfg # NoCfg
      /\ req.op \in {"add", "del"}
      /\ upd[s] = IF req.op = "add" THEN "added" ELSE "deleted"
  BY <1>1, AtItsSlot
<1>3. /\ cfg[s] = req.cfg /\ num[s] = req.vf /\ macs[s] = req.cfg
      /\ nicVlans[req.vf] = {From} \ {NoCfg} /\ nicMacs[req.vf] = From /\ nicOpts[req.vf] = From
  BY <1>1, <1>2 DEF RegInv, PassFits
<1>4. Selected(num[s]) = {{req.vf}}
  BY <1>2, <1>3 DEF Selected
<1>5. nicVlans' = [v \in VfIds |->
          IF v # req.vf THEN nicVlans[v]
          ELSE IF upd[s] = "deleted" THEN nicVlans[v] \ {req.cfg}
          ELSE nicVlans[v] \cup {req.cfg}]
  <2>1. PICK sel \in Selected(num[s]) :
          nicVlans' = [v \in VfIds |->
            IF v \notin sel THEN nicVlans[v]
            ELSE IF upd[s] = "deleted" THEN nicVlans[v] \ ({cfg[s]} \ {NoCfg})
            ELSE nicVlans[v] \cup ({cfg[s]} \ {NoCfg})]
    BY <1>2 DEF UpdVlans
  <2>2. sel = {req.vf} /\ {cfg[s]} \ {NoCfg} = {req.cfg}
    BY <1>2, <1>3, <1>4, <2>1
  <2>3. QED
    BY <2>1, <2>2
<1>6. /\ nicVlans'[req.vf] = {To} \ {NoCfg}
      /\ \A v \in VfIds \ {req.vf} : nicVlans'[v] = nicVlans[v]
  BY <1>2, <1>3, <1>5 DEF From, To
<1>7. Pending' /\ InHand' /\ \A y : ~Filling(y) /\ ~Filling(y)'
  BY <1>1, <1>2 DEF Pending, InHand, InPass, Filling, Slots
<1>8. Used' = Used /\ \A w : Holding(w)' = Holding(w)
  BY <1>1 DEF Used, Holding, slotVars
<1>9. ReqFits' /\ MarksFit' /\ SlotsFit'
  BY <1>1, <1>2, <1>7, <1>8
  DEF RegInv, ReqFits, MarksFit, SlotsFit, InHand, InPass, slotVars
<1>10. NicFits'
  BY <1>1, <1>2, <1>6, <1>7, <1>8 DEF RegInv, NicFits, Programmed, slotVars
<1>11. PassFits'
  <2>1. (\A y \in Used : num[y] = req.vf => y = req.slot)'
    BY <1>1, <1>2, <1>8 DEF slotVars, RegInv, PassFits
  <2>2. QED
    BY <1>1, <1>2, <1>3, <1>6, <2>1 DEF PassFits, From, To, slotVars
<1>12. QED
  BY <1>1, <1>2, <1>6, <1>7, <1>9, <1>10, <1>11

LEMMA MacsKeeps ==
  ASSUME IInv, RegInv, UpdMacs("main")
  PROVE  /\ ReqFits' /\ MarksFit' /\ SlotsFit' /\ NicFits' /\ PassFits'
         /\ Pending /\ UNCHANGED <<numVfs, num, upd, cfg, req>> /\ InHand'
         /\ \A v \in VfIds \ {req.vf} :
              UNCHANGED <<nicVlans[v], nicMacs[v], nicOpts[v]>>
<1> DEFINE s == req.slot
<1>1. /\ pc["main"] = "mac" /\ pc'["main"] = "opt"
      /\ UNCHANGED <<numVfs, num, upd, cfg, nicVlans, nicOpts, cur, req>>
  BY DEF UpdMacs, Goto, IInv, TypeOK, ThreadTypes, PcValues, Threads
<1>2. /\ Pending /\ cur["main"] = s /\ s \in Used /\ s \in Slots
      /\ req.vf \in VfIds /\ req.vf # NoVf /\ req.cfg \in Cfgs /\ req.cfg # NoCfg
      /\ req.op \in {"add", "del"}
      /\ upd[s] = IF req.op = "add" THEN "added" ELSE "deleted"
      /\ First(req.vf) = {s}
  BY <1>1, AtItsSlot
<1>3. /\ cfg[s] = req.cfg /\ num[s] = req.vf /\ macs[s] = req.cfg
      /\ nicVlans[req.vf] = {To} \ {NoCfg} /\ nicMacs[req.vf] = From /\ nicOpts[req.vf] = From
  BY <1>1, <1>2 DEF RegInv, PassFits
<1>4. IF upd[s] = "deleted"
      THEN /\ macs' = [macs EXCEPT ![s] = NoCfg]
           /\ nicMacs' = [nicMacs EXCEPT ![req.vf] = NoCfg]
      ELSE /\ macs' = macs
           /\ nicMacs' = [nicMacs EXCEPT ![req.vf] = req.cfg]
  BY <1>2, <1>3 DEF UpdMacs
<1>5. /\ nicMacs'[req.vf] = To
      /\ \A v \in VfIds \ {req.vf} : nicMacs'[v] = nicMacs[v]
      /\ macs'[s] = IF req.op = "del" THEN NoCfg ELSE req.cfg
      /\ \A y \in Slots \ {s} : macs'[y] = macs[y]
  BY <1>2, <1>3, <1>4 DEF From, To, IInv, TypeOK, NicTypes, SlotTypes
<1>6. Pending' /\ InHand' /\ \A y : ~Filling(y) /\ ~Filling(y)'
  BY <1>1, <1>2 DEF Pending, InHand, InPass, Filling, Slots
<1>7. Used' = Used /\ (\A w : Holding(w)' = Holding(w)) /\ \A y \in Used : y \in Slots
  BY <1>1 DEF Used, Holding
<1>8. ReqFits' /\ MarksFit' /\ SlotsFit'
  BY <1>1, <1>2, <1>5, <1>6, <1>7 DEF RegInv, ReqFits, MarksFit, SlotsFit, InHand, InPass
<1>9. NicFits'
  BY <1>1, <1>2, <1>5, <1>6, <1>7 DEF RegInv, NicFits, Programmed
<1>10. PassFits'
  <2>1. (\A y \in Used : num[y] = req.vf => y = req.slot)'
    BY <1>1, <1>2, <1>7 DEF RegInv, PassFits
  <2>2. QED
    BY <1>1, <1>2, <1>3, <1>5, <2>1 DEF PassFits, From, To
<1>11. QED
  BY <1>1, <1>2, <1>5, <1>6, <1>8, <1>9, <1>10

LEMMA OptsKeeps ==
  ASSUME IInv, RegInv, UpdOpts("main")
  PROVE  /\ ReqFits' /\ MarksFit' /\ SlotsFit' /\ NicFits' /\ PassFits'
         /\ Pending /\ UNCHANGED <<numVfs, upd, cfg, macs, req>> /\ InHand'
         /\ num' = IF req.op = "del" THEN [num EXCEPT ![req.slot] = NoVf] ELSE num
         /\ \A v \in VfIds \ {req.vf} :
              UNCHANGED <<nicVlans[v], nicMacs[v], nicOpts[v]>>
<1> DEFINE s == req.slot
<1>1. /\ pc["main"] = "opt" /\ pc'["main"] = "mark"
      /\ UNCHANGED <<numVfs, upd, cfg, macs, nicVlans, nicMacs, cur, req>>
  BY DEF UpdOpts, Goto, IInv, TypeOK, ThreadTypes, PcValues, Threads
<1>2. /\ Pending /\ cur["main"] = s /\ s \in Used /\ s \in Slots
      /\ req.vf \in VfIds /\ req.vf # NoVf /\ req.cfg \in Cfgs /\ req.cfg # NoCfg
      /\ req.op \in {"add", "del"}
      /\ upd[s] = IF req.op = "add" THEN "added" ELSE "deleted"
  BY <1>1, AtItsSlot
<1>3. /\ cfg[s] = req.cfg /\ num[s] = req.vf
      /\ macs[s] = IF req.op = "del" THEN NoCfg ELSE req.cfg
      /\ nicVlans[req.vf] = {To} \ {NoCfg} /\ nicMacs[req.vf] = To /\ nicOpts[req.vf] = From
  BY <1>1, <1>2 DEF RegInv, PassFits
<1>4. IF upd[s] = "deleted"
      THEN /\ num' = [num EXCEPT ![s] = NoVf]
           /\ nicOpts' = [nicOpts EXCEPT ![req.vf] = NoCfg]
      ELSE /\ num' = num
           /\ nicOpts' = [nicOpts EXCEPT ![req.vf] = req.cfg]
  BY <1>2, <1>3 DEF UpdOpts
<1>5. /\ nicOpts'[req.vf] = To
      /\ \A v \in VfIds \ {req.vf} : nicOpts'[v] = nicOpts[v]
      /\ num'[s] = IF req.op = "del" THEN NoVf ELSE req.vf
      /\ \A y \in Slots \ {s} : num'[y] = num[y]
  BY <1>2, <1>3, <1>4 DEF From, To, IInv, TypeOK, NicTypes, SlotTypes
<1>6. Pending' /\ InHand' /\ \A y : ~Filling(y) /\ ~Filling(y)'
  BY <1>1, <1>2 DEF Pending, InHand, InPass, Filling, Slots
<1>7. Used' = Used /\ \A y \in Used : y \in Slots
  BY <1>1 DEF Used
<1>8. ReqFits' /\ MarksFit' /\ SlotsFit'
  BY <1>1, <1>2, <1>5, <1>6, <1>7 DEF RegInv, ReqFits, MarksFit, SlotsFit, InHand, InPass
<1>9. NicFits'
  <2>1. \A w \in VfIds \ {req.vf} : Holding(w)' = Holding(w)
    BY <1>2, <1>3, <1>5, <1>7 DEF Holding, NoVf
  <2>2. QED
    BY <1>1, <1>2, <1>5, <1>6, <2>1 DEF RegInv, NicFits, Programmed
<1>10. PassFits'
  <2>1. (\A y \in Used : num[y] = req.vf => y = req.slot)'
    BY <1>1, <1>2, <1>3, <1>5, <1>7 DEF RegInv, PassFits
  <2>2. QED
    BY <1>1, <1>2, <1>3, <1>5, <2>1 DEF PassFits, From, To
<1>11. QED
  BY <1>1, <1>2, <1>4, <1>5, <1>6, <1>8, <1>9, <1>10

LEMMA MarkedKeeps ==
  ASSUME IInv, RegInv, UpdMark("main")
  PROVE  /\ ReqFits' /\ MarksFit' /\ SlotsFit' /\ NicFits' /\ PassFits'
         /\ Pending /\ UNCHANGED <<numVfs, num, cfg, macs, nicVars, req>> /\ InHand'
         /\ upd' = [upd EXCEPT ![req.slot] = "unchanged"]
<1> DEFINE s == req.slot
<1>1. /\ pc["main"] = "mark" /\ pc'["main"] = "slot"
      /\ upd' = [upd EXCEPT ![cur["main"]] = "unchanged"]
      /\ cur'["main"] = cur["main"] + 1
      /\ UNCHANGED <<numVfs, num, cfg, macs, nicVars, req>>
  BY DEF UpdMark, Goto, IInv, TypeOK, ThreadTypes, PcValues, Threads
<1>2. /\ Pending /\ cur["main"] = s /\ s \in Used /\ s \in Slots
      /\ req.vf \in VfIds /\ req.vf # NoVf /\ req.cfg \in Cfgs /\ req.cfg # NoCfg
      /\ req.op \in {"add", "del"}
      /\ \A y : ~Filling(y)
  BY <1>1, AtItsSlot
<1>3. /\ cfg[s] = req.cfg
      /\ num[s] = IF req.op = "del" THEN NoVf ELSE req.vf
      /\ macs[s] = IF req.op = "del" THEN NoCfg ELSE req.cfg
      /\ nicVlans[req.vf] = {To} \ {NoCfg} /\ nicMacs[req.vf] = To /\ nicOpts[req.vf] = To
  BY <1>1, <1>2 DEF RegInv, PassFits
<1>4. ~Pending' /\ InHand' /\ \A y : ~Filling(y)'
  BY <1>1, <1>2 DEF Pending, InHand, InPass, Filling, Slots
<1>5. Used' = Used /\ (\A w : Holding(w)' = Holding(w)) /\ \A y \in Used : y \in Slots
  BY <1>1 DEF Used, Holding
<1>6. \A w, d : Programmed(w, d)' <=> Programmed(w, d)
  BY <1>1 DEF nicVars, Programmed
<1>7. ReqFits' /\ MarksFit' /\ PassFits'
  BY <1>1, <1>2, <1>4, <1>5
  DEF RegInv, ReqFits, MarksFit, PassFits, InHand, InPass, IInv, TypeOK, SlotTypes
<1>8. SlotsFit'
  BY <1>1, <1>2, <1>3, <1>4, <1>5 DEF RegInv, SlotsFit
<1>9. NicFits'
  <2>1. ASSUME NEW w \in VfIds, w # req.vf
        PROVE  /\ \A y \in Holding(w) : Programmed(w, cfg[y])
               /\ Holding(w) = {} => Programmed(w, NoCfg)
    BY <1>2, <2>1 DEF RegInv, NicFits
  <2>2. Programmed(req.vf, To)
    BY <1>3 DEF Programmed
  <2>3. \A y \in Holding(req.vf) : y = s /\ req.op = "add" /\ cfg[y] = To
    BY <1>2, <1>3 DEF RegInv, PassFits, Holding, To
  <2>4. Holding(req.vf) = {} => To = NoCfg
    BY <1>2, <1>3 DEF Holding, To
  <2>5. QED
    BY <1>1, <1>4, <1>5, <1>6, <2>1, <2>2, <2>3, <2>4 DEF NicFits
<1>10. QED
  BY <1>1, <1>2, <1>4, <1>7, <1>8, <1>9

LEMMA UnlockKeeps ==
  ASSUME IInv, RegInv, UpdUnlock("main")
  PROVE  /\ ReqFits' /\ MarksFit' /\ SlotsFit' /\ NicFits' /\ PassFits'
         /\ InHand /\ ~Pending /\ ~InHand' /\ UNCHANGED <<slotVars, nicVars>>
         /\ \A y : ~Filling(y) /\ ~Filling(y)'
<1>1. /\ pc["main"] = "slot" /\ pc'["main"] = "reply" /\ cur["main"] >= numVfs
      /\ UNCHANGED <<slotVars, nicVars, req>>
  BY DEF UpdUnlock, Goto, IInv, TypeOK, ThreadTypes, PcValues, Threads
<1>2. InHand /\ ~InHand' /\ ~Pending' /\ \A y : ~Filling(y) /\ ~Filling(y)'
  BY <1>1 DEF Pending, InHand, InPass, Filling
<1>3. req.slot < numVfs /\ req.slot \in Slots
  BY <1>2 DEF RegInv, ReqFits, Used
<1>4. ~Pending
  BY <1>1, <1>3 DEF Pending, IInv, TypeOK, ThreadTypes, SlotTypes, Threads, Slots
<1>5. ReqFits'
  BY <1>1 DEF ReqFits, InHand, InPass
<1>6. QED
  BY <1>1, <1>2, <1>4, <1>5, IdleKeeps

LEMMA RegStep ==
  ASSUME ~Device, IInv, RegInv, [Next]_vars
  PROVE  RegInv'
<1>1. /\ Alone'
      /\ UNCHANGED vars \/ Request \/ AddClear \/ AddFill \/ Reply \/ Update("main")
  BY OnlyMain DEF IInv, TypeOK, RegInv
<1>2. CASE UNCHANGED vars
  <2>1. UNCHANGED <<slotVars, nicVars, pc, cur, req>>
    BY <1>2 DEF vars
  <2>2. (Pending' <=> Pending) /\ \A y : Filling(y)' <=> Filling(y)
    BY <2>1 DEF Pending, InHand, InPass, Filling
  <2>3. ReqFits' /\ MarksFit' /\ SlotsFit'
    BY <2>1, <2>2 DEF RegInv, ReqFits, MarksFit, SlotsFit, InHand, InPass, Used, slotVars
  <2>4. NicFits'
    BY <2>1, <2>2 DEF RegInv, NicFits, Holding, Used, Programmed, slotVars, nicVars
  <2>5. PassFits'
    BY <2>1, <2>2 DEF RegInv, PassFits, From, To, Used, slotVars, nicVars
  <2>6. QED
    BY <1>1, <2>3, <2>4, <2>5 DEF RegInv
<1>3. CASE Request
  BY <1>1, <1>3, RejectedKeeps, ReserveKeeps, MarkKeeps DEF Request, RegInv
<1>4. CASE AddClear \/ AddFill \/ Reply
  BY <1>1, <1>4, ClearKeeps, FillKeeps, ReplyKeeps DEF RegInv
<1>5. CASE Update("main")
  BY <1>1, <1>5, WalkKeeps, VlansKeeps, MacsKeeps, OptsKeeps, MarkedKeeps, UnlockKeeps
  DEF Update, RegInv
<1>6. QED
  BY <1>1, <1>2, <1>3, <1>4, <1>5

(***************************************************************************)
(* What the abstract table and NIC are.                                    *)
(***************************************************************************)

\* The slots that make v a managed VF: none or one.
Live(v) == {y \in Holding(v) : ~Filling(y) /\ upd[y] # "deleted"}

TableHas ==
  \A v \in VfIds :
    /\ \A y \in Live(v) : Wanted(v) = cfg[y]
    /\ Live(v) = {} => Wanted(v) = NoCfg

LEMMA WantedIs == UniqueVfs => TableHas
<1> SUFFICES ASSUME UniqueVfs, NEW v \in VfIds
             PROVE  /\ \A y \in Live(v) : Wanted(v) = cfg[y]
                    /\ Live(v) = {} => Wanted(v) = NoCfg
  BY DEF TableHas
<1>1. ASSUME NEW y \in Live(v) PROVE Wanted(v) = cfg[y]
  <2>1. \A z \in Holding(v) : ~Filling(z) /\ upd[z] # "deleted" => z = y
    BY <1>1 DEF Live, Holding, UniqueVfs, NoVf
  <2>2. y \in Holding(v) /\ ~Filling(y) /\ upd[y] # "deleted"
    BY <1>1 DEF Live
  <2>3. (CHOOSE z \in Holding(v) : ~Filling(z) /\ upd[z] # "deleted") = y
    BY <2>1, <2>2
  <2>4. QED
    BY <2>2, <2>3 DEF Wanted, Managed
<1>2. ASSUME Live(v) = {} PROVE Wanted(v) = NoCfg
  BY <1>2 DEF Live, Wanted, Managed
<1>3. QED
  BY <1>1, <1>2

\* A step that leaves the live slot of v as it is leaves the table's entry.
LEMMA SameWanted ==
  ASSUME IInv, IInv', NEW v \in VfIds, Live(v)' = Live(v), \A y \in Live(v) : cfg'[y] = cfg[y]
  PROVE  Wanted(v)' = Wanted(v)
<1>1. TableHas
  BY WantedIs DEF IInv
<1>2. (UniqueVfs => TableHas)'
  BY WantedIs, PTL
<1>3. TableHas'
  BY <1>2 DEF IInv
<1>4. QED
  BY <1>1, <1>3 DEF TableHas

LEMMA AbsNicIs ==
  ASSUME NEW v \in VfIds, NEW c \in CfgOrNo, Programmed(v, c)
  PROVE  AbsNic(v) = c
<1>1. nicMacs[v] = c
  BY DEF Programmed
<1>2. CASE c = NoCfg
  BY <1>2 DEF AbsNic
<1>3. CASE c # NoCfg
  <2>1. c \in Cfgs /\ ~Programmed(v, NoCfg)
    BY <1>1, <1>3 DEF CfgOrNo, Programmed
  <2>2. \A d \in Cfgs : Programmed(v, d) => d = c
    BY <1>1 DEF Programmed
  <2>3. (CHOOSE d \in Cfgs : Programmed(v, d)) = c
    BY <2>1, <2>2
  <2>4. QED
    BY <2>1, <2>3 DEF AbsNic
<1>4. QED
  BY <1>2, <1>3

LEMMA AbsNicType ==
  ASSUME NEW v \in VfIds
  PROVE  AbsNic(v) \in Cfgs \cup {NoCfg, "mixed"}
BY DEF AbsNic

LEMMA NicIsTable ==
  ASSUME IInv, RegInv, NEW v \in VfIds, ~(Pending /\ v = req.vf)
  PROVE  AbsNic(v) = Wanted(v) /\ Wanted(v) \in CfgOrNo
<1>1. \A y \in Holding(v) : ~Filling(y) => y \in Live(v)
  <2> SUFFICES ASSUME NEW y \in Holding(v), ~Filling(y), upd[y] = "deleted"
               PROVE  FALSE
    BY DEF Live
  <2>1. y \in Slots /\ num[y] = v /\ v # NoVf
    BY DEF Holding, Used, NoVf
  <2>2. Pending /\ y = req.slot
    BY <2>1 DEF RegInv, MarksFit
  <2>3. num[req.slot] \in {req.vf, NoVf}
    BY <2>2 DEF RegInv, PassFits
  <2>4. QED
    BY <2>1, <2>2, <2>3
<1>2. TableHas
  BY WantedIs DEF IInv
<1>3. ASSUME NEW y \in Holding(v), ~Filling(y)
      PROVE  AbsNic(v) = Wanted(v) /\ Wanted(v) \in CfgOrNo
  <2>1. Wanted(v) = cfg[y]
    BY <1>1, <1>2, <1>3 DEF TableHas
  <2>2. Programmed(v, cfg[y])
    BY <1>3 DEF RegInv, NicFits
  <2>3. cfg[y] \in CfgOrNo
    BY DEF IInv, TypeOK, SlotTypes, Holding, Used
  <2>4. QED
    BY <2>1, <2>2, <2>3, AbsNicIs
<1>4. ASSUME \A y \in Holding(v) : Filling(y)
      PROVE  AbsNic(v) = Wanted(v) /\ Wanted(v) \in CfgOrNo
  <2>1. Live(v) = {}
    BY <1>4 DEF Live
  <2>2. Wanted(v) = NoCfg
    BY <1>2, <2>1 DEF TableHas
  <2>3. Programmed(v, NoCfg)
    BY <1>4 DEF RegInv, NicFits
  <2>4. QED
    BY <2>2, <2>3, AbsNicIs DEF CfgOrNo
<1>5. QED
  BY <1>3, <1>4

(***************************************************************************)
(* Each step is one of the abstract table, or none.                        *)
(***************************************************************************)

Table == [v \in VfIds |-> Wanted(v)]
Nic   == [v \in VfIds |-> AbsNic(v)]
Busy  == IF InHand THEN {req.vf} ELSE {}

SameNic == \A v \in VfIds : AbsNic(v)' = AbsNic(v)

LEMMA NicKept ==
  ASSUME UNCHANGED nicVars
  PROVE  SameNic
BY DEF SameNic, AbsNic, Programmed, nicVars

LEMMA ReserveMaps ==
  ASSUME IInv, IInv', RegInv, RegInv', NEW v \in VfIds, NEW c \in Cfgs, AddReserve(v, c)
  PROVE  UNCHANGED <<Table, Nic, Busy>>
<1>1. PICK s \in InsertAt :
        /\ req' = [op |-> "add", vf |-> v, cfg |-> c, slot |-> s, ok |-> TRUE]
        /\ numVfs' = IF s = numVfs THEN numVfs + 1 ELSE numVfs
  BY DEF AddReserve
<1>2. s \in Slots /\ s <= numVfs /\ (s \in Used => num[s] = NoVf)
  BY DEF InsertAt, First, Holding, Used, IInv, TypeOK, SlotTypes, Slots
<1>3. /\ pc["main"] = "idle" /\ pc'["main"] = "reserved"
      /\ UNCHANGED <<num, upd, cfg, macs, nicVars>>
  BY DEF AddReserve, Goto, IInv, TypeOK, ThreadTypes, PcValues, Threads
<1>4. Used' = Used \cup {s}
  BY <1>1, <1>2 DEF Used, IInv, TypeOK, SlotTypes, Slots
<1>5. \A y : ~Filling(y) /\ (Filling(y)' <=> y = s)
  BY <1>1, <1>3 DEF Filling
<1>6. \A w \in VfIds : Live(w)' = Live(w)
  BY <1>2, <1>3, <1>4, <1>5 DEF Live, Holding, NoVf
<1>7. \A w \in VfIds : Wanted(w)' = Wanted(w)
  BY <1>3, <1>6, SameWanted
<1>8. Busy = {} /\ Busy' = {}
  BY <1>3 DEF Busy, InHand, InPass
<1>9. QED
  BY <1>3, <1>7, <1>8, NicKept DEF Table, Nic, SameNic

LEMMA ClearMaps ==
  ASSUME IInv, IInv', RegInv, RegInv', AddClear
  PROVE  UNCHANGED <<Table, Nic, Busy>>
<1> DEFINE s == req.slot
<1>1. /\ pc["main"] = "reserved" /\ pc'["main"] = "cleared"
      /\ UNCHANGED <<numVfs, req, nicVars>>
  BY DEF AddClear, Goto, IInv, TypeOK, ThreadTypes, PcValues, Threads
<1>2. /\ \A y \in Slots : y # s => num'[y] = num[y] /\ upd'[y] = upd[y] /\ cfg'[y] = cfg[y]
      /\ \A y : (Filling(y) <=> y = s) /\ (Filling(y)' <=> y = s)
      /\ Used' = Used /\ \A y \in Used : y \in Slots
  BY <1>1 DEF AddClear, IInv, TypeOK, SlotTypes, Filling, Used
<1>3. \A w \in VfIds : Live(w)' = Live(w)
  BY <1>2 DEF Live, Holding
<1>4. \A w \in VfIds : \A y \in Live(w) : cfg'[y] = cfg[y]
  BY <1>2 DEF Live, Holding
<1>5. \A w \in VfIds : Wanted(w)' = Wanted(w)
  BY <1>3, <1>4, SameWanted
<1>6. Busy = {} /\ Busy' = {}
  BY <1>1 DEF Busy, InHand, InPass
<1>7. QED
  BY <1>1, <1>5, <1>6, NicKept DEF Table, Nic, SameNic

\* An add is accepted when its slot is filled.
LEMMA FillMaps ==
  ASSUME IInv, IInv', RegInv, RegInv', AddFill
  PROVE  Registry!RegNext
<1> DEFINE s == req.slot
           v == req.vf
<1>1. /\ pc["main"] = "cleared" /\ pc'["main"] = "update"
      /\ UNCHANGED <<numVfs, req, nicVars>>
  BY DEF AddFill, Goto, IInv, TypeOK, ThreadTypes, PcValues, Threads
<1>2. /\ s \in Used /\ s \in Slots /\ req.cfg \in Cfgs /\ v \in VfIds /\ v # NoVf
      /\ \A y \in Used : num[y] = v => y = s
  BY <1>1 DEF RegInv, ReqFits, Used, IInv, AddPending, NoVf
<1>3. /\ \A y \in Slots : y # s => num'[y] = num[y] /\ upd'[y] = upd[y] /\ cfg'[y] = cfg[y]
      /\ upd'[s] = "added" /\ num'[s] = v /\ cfg'[s] = req.cfg
      /\ \A y : (Filling(y) <=> y = s) /\ ~Filling(y)'
      /\ Used' = Used /\ \A y \in Used : y \in Slots
  BY <1>1, <1>2 DEF AddFill, IInv, TypeOK, SlotTypes, Filling, Used
<1>4. ASSUME NEW w \in VfIds, w # v PROVE Wanted(w)' = Wanted(w)
  <2>1. Live(w)' = Live(w) /\ \A y \in Live(w) : cfg'[y] = cfg[y]
    BY <1>1, <1>2, <1>3, <1>4 DEF Live, Holding
  <2>2. QED
    BY <2>1, SameWanted
<1>5. Wanted(v) = NoCfg
  <2>1. Live(v) = {}
    BY <1>2, <1>3 DEF Live, Holding
  <2>2. QED
    BY <1>2, <2>1, WantedIs DEF IInv, TableHas
<1>6. Wanted(v)' = req.cfg
  <2>1. (s \in Live(v))'
    BY <1>1, <1>2, <1>3 DEF Live, Holding
  <2>2. (UniqueVfs => TableHas)'
    BY WantedIs, PTL
  <2>3. QED
    BY <1>1, <1>2, <1>3, <2>1, <2>2 DEF IInv, TableHas
<1>7. Table' = [Table EXCEPT ![v] = req.cfg] /\ Nic' = Nic
  BY <1>1, <1>2, <1>4, <1>6, NicKept DEF Table, Nic, SameNic
<1>8. Busy = {} /\ Busy' = {v}
  BY <1>1 DEF Busy, InHand, InPass
<1>9. Registry!Accept(v, req.cfg)
  BY <1>2, <1>5, <1>7, <1>8, NamesAssumption
  DEF Registry!Accept, Table, Nic, Busy, InHand
<1>10. QED
  BY <1>2, <1>9 DEF Registry!RegNext

\* A delete is accepted when its slot is marked.
LEMMA MarkMaps ==
  ASSUME IInv, IInv', RegInv, RegInv', NEW v \in VfIds, DelMark(v)
  PROVE  Registry!RegNext
<1>1. PICK s \in First(v) :
        /\ upd' = [upd EXCEPT ![s] = "deleted"]
        /\ req' = [op |-> "del", vf |-> v, cfg |-> cfg[s], slot |-> s, ok |-> TRUE]
  BY DEF DelMark
<1>2. /\ pc["main"] = "idle" /\ pc'["main"] = "update"
      /\ UNCHANGED <<numVfs, num, cfg, macs, nicVars>>
  BY DEF DelMark, Goto, IInv, TypeOK, ThreadTypes, PcValues, Threads
<1>3. /\ s \in Used /\ s \in Slots /\ num[s] = v /\ v # NoVf
      /\ ~Pending /\ \A y : ~Filling(y) /\ ~Filling(y)'
      /\ \A y \in Used : num[y] = v => y = s
  BY <1>2 DEF First, Holding, Used, NoVf, Pending, InHand, InPass, Filling, IInv, UniqueVfs
<1>4. /\ Used' = Used /\ \A w : Holding(w)' = Holding(w)
      /\ upd'[s] = "deleted" /\ \A y \in Slots \ {s} : upd'[y] = upd[y]
      /\ \A y \in Used : y \in Slots
  BY <1>1, <1>2, <1>3 DEF Used, Holding, IInv, TypeOK, SlotTypes
<1>5. ASSUME NEW w \in VfIds, w # v PROVE Wanted(w)' = Wanted(w)
  <2>1. Live(w)' = Live(w) /\ \A y \in Live(w) : cfg'[y] = cfg[y]
    BY <1>2, <1>3, <1>4, <1>5 DEF Live, Holding
  <2>2. QED
    BY <2>1, SameWanted
<1>6. Wanted(v) \in Cfgs
  <2>1. s \in Live(v)
    BY <1>3 DEF Live, Holding, RegInv, MarksFit
  <2>2. Wanted(v) = cfg[s]
    BY <2>1, WantedIs DEF IInv, TableHas
  <2>3. QED
    BY <1>3, <2>2 DEF RegInv, SlotsFit
<1>7. Wanted(v)' = NoCfg
  <2>1. Live(v)' = {}
    BY <1>3, <1>4 DEF Live, Holding
  <2>2. (UniqueVfs => TableHas)'
    BY WantedIs, PTL
  <2>3. QED
    BY <2>1, <2>2 DEF IInv, TableHas
<1>8. Table' = [Table EXCEPT ![v] = NoCfg] /\ Nic' = Nic
  BY <1>2, <1>5, <1>7, NicKept DEF Table, Nic, SameNic
<1>9. Busy = {} /\ Busy' = {v}
  BY <1>1, <1>2 DEF Busy, InHand, InPass
<1>10. Registry!Accept(v, NoCfg)
  BY <1>6, <1>8, <1>9, NamesAssumption
  DEF Registry!Accept, Table, Nic, Busy, InHand
<1>11. QED
  BY <1>10 DEF Registry!RegNext

\* The parts of the pass that write the NIC write the VF of the request.
LEMMA PartMaps ==
  ASSUME IInv, IInv', RegInv, RegInv', UpdVlans("main") \/ UpdMacs("main") \/ UpdOpts("main")
  PROVE  Registry!RegNext
<1> DEFINE v == req.vf
<1>1. /\ Pending /\ InHand /\ InHand' /\ UNCHANGED <<numVfs, upd, cfg, req>>
      /\ num' = num \/ (req.op = "del" /\ num' = [num EXCEPT ![req.slot] = NoVf])
      /\ \A w \in VfIds \ {v} : UNCHANGED <<nicVlans[w], nicMacs[w], nicOpts[w]>>
  BY VlansKeeps, MacsKeeps, OptsKeeps DEF slotVars, Pending
<1>2. /\ v \in VfIds /\ req.slot \in Slots /\ \A y : ~Filling(y) /\ ~Filling(y)'
  BY <1>1 DEF RegInv, ReqFits, Used, Filling, InHand, InPass
<1>3. \A w \in VfIds : Live(w)' = Live(w)
  <2>1. req.op = "del" => upd[req.slot] = "deleted"
    BY <1>1, <1>2 DEF RegInv, MarksFit
  <2>2. Used' = Used /\ \A y \in Used : y \in Slots
    BY <1>1 DEF Used
  <2>3. QED
    BY <1>1, <1>2, <2>1, <2>2 DEF Live, Holding, IInv, TypeOK, SlotTypes
<1>4. \A w \in VfIds : Wanted(w)' = Wanted(w)
  BY <1>1, <1>3, SameWanted
<1>5. \A w \in VfIds \ {v} : AbsNic(w)' = AbsNic(w)
  BY <1>1 DEF AbsNic, Programmed
<1>6. Table' = Table /\ Nic' = [Nic EXCEPT ![v] = AbsNic(v)']
  BY <1>1, <1>2, <1>4, <1>5 DEF Table, Nic
<1>7. Busy = {v} /\ Busy' = {v}
  BY <1>1 DEF Busy
<1>8. AbsNic(v)' \in Cfgs \cup {NoCfg, "mixed"}
  BY <1>1 DEF AbsNic
<1>9. Registry!Drive(v, AbsNic(v)')
  BY <1>6, <1>7 DEF Registry!Drive, Table, Nic, Busy, InHand
<1>10. QED
  BY <1>2, <1>8, <1>9 DEF Registry!RegNext

\* Going by a slot, and marking it, change neither the table nor the NIC.
LEMMA WalkMaps ==
  ASSUME IInv, IInv', RegInv, RegInv', UpdLock("main") \/ UpdSkip("main") \/ UpdMark("main")
  PROVE  UNCHANGED <<Table, Nic, Busy>>
<1>1. /\ InHand /\ InHand' /\ UNCHANGED <<numVfs, num, cfg, nicVars, req>>
      /\ \/ UNCHANGED upd
         \/ /\ pc["main"] = "mark" /\ Pending
            /\ upd' = [upd EXCEPT ![req.slot] = "unchanged"]
  <2>1. CASE UpdLock("main") \/ UpdSkip("main")
    BY <2>1 DEF UpdLock, UpdSkip, Goto, InHand, InPass, slotVars,
                IInv, TypeOK, ThreadTypes, PcValues, Threads
  <2>2. CASE UpdMark("main")
    BY <2>2, MarkedKeeps DEF UpdMark, Pending
  <2>3. QED
    BY <2>1, <2>2
<1>2. req.slot \in Slots /\ \A y : ~Filling(y) /\ ~Filling(y)'
  BY <1>1 DEF RegInv, ReqFits, Used, Filling, InHand, InPass
<1>3. Used' = Used /\ (\A w : Holding(w)' = Holding(w)) /\ \A y \in Used : y \in Slots
  BY <1>1 DEF Used, Holding
<1>4. ASSUME NEW w \in VfIds PROVE Live(w)' = Live(w)
  <2>1. CASE UNCHANGED upd
    BY <1>2, <1>3, <2>1 DEF Live
  <2>2. CASE pc["main"] = "mark" /\ Pending /\ upd' = [upd EXCEPT ![req.slot] = "unchanged"]
    <3>1. req.op = "del" => num[req.slot] = NoVf
      BY <2>2 DEF RegInv, PassFits
    <3>2. req.op # "del" => upd[req.slot] = "added"
      BY <1>1, <1>2, <2>2 DEF RegInv, ReqFits, MarksFit
    <3>3. \A y \in Holding(w) : upd'[y] = "deleted" <=> upd[y] = "deleted"
      BY <1>2, <1>3, <2>2, <3>1, <3>2 DEF Holding, NoVf, IInv, TypeOK, SlotTypes
    <3>4. QED
      BY <1>2, <1>3, <3>3 DEF Live
  <2>3. QED
    BY <1>1, <2>1, <2>2
<1>5. \A w \in VfIds : Wanted(w)' = Wanted(w)
  BY <1>1, <1>4, SameWanted
<1>6. QED
  BY <1>1, <1>5, NicKept DEF Table, Nic, SameNic, Busy

\* The lock is given back when the NIC agrees with the table.
LEMMA UnlockMaps ==
  ASSUME IInv, IInv', RegInv, RegInv', UpdUnlock("main")
  PROVE  Registry!RegNext
<1>1. /\ InHand /\ ~Pending /\ ~InHand' /\ UNCHANGED <<slotVars, nicVars>>
      /\ \A y : ~Filling(y) /\ ~Filling(y)'
  BY UnlockKeeps
<1>2. \A w \in VfIds : Live(w)' = Live(w)
  BY <1>1 DEF Live, Holding, Used, slotVars
<1>3. \A w \in VfIds : Wanted(w)' = Wanted(w)
  BY <1>1, <1>2, SameWanted DEF slotVars
<1>4. Table' = Table /\ Nic' = Nic
  BY <1>1, <1>3, NicKept DEF Table, Nic, SameNic
<1>5. Nic = Table
  BY <1>1, NicIsTable DEF Nic, Table
<1>6. Registry!Answer
  BY <1>1, <1>4, <1>5 DEF Registry!Answer, Table, Nic, InHand
<1>7. QED
  BY <1>6 DEF Registry!RegNext

\* An answer, a request turned away, and no step at all.
LEMMA StillMaps ==
  ASSUME IInv, IInv', RegInv, RegInv',
         \/ UNCHANGED vars
         \/ Reply
         \/ \E v \in VfIds : AddRejected(v) \/ DelRejected(v)
  PROVE  UNCHANGED <<Table, Nic, Busy>>
<1>1. /\ UNCHANGED <<slotVars, nicVars>>
      /\ \A y : Filling(y)' <=> Filling(y)
      /\ InHand' <=> InHand
      /\ InHand => UNCHANGED req
  <2>1. CASE UNCHANGED vars
    BY <2>1 DEF vars, Filling, InHand, InPass
  <2>2. CASE Reply \/ \E v \in VfIds : AddRejected(v) \/ DelRejected(v)
    BY <2>2 DEF Reply, AddRejected, DelRejected, Goto, Filling, InHand, InPass,
                IInv, TypeOK, ThreadTypes, PcValues, Threads
  <2>3. QED
    BY <2>1, <2>2
<1>2. \A w \in VfIds : Live(w)' = Live(w)
  BY <1>1 DEF Live, Holding, Used, slotVars
<1>3. \A w \in VfIds : Wanted(w)' = Wanted(w)
  BY <1>1, <1>2, SameWanted DEF slotVars
<1>4. QED
  BY <1>1, <1>3, NicKept DEF Table, Nic, SameNic, Busy

LEMMA StepMaps ==
  ASSUME ~Device, IInv, IInv', RegInv, RegInv', [Next]_vars
  PROVE  [Registry!RegNext]_(Registry!regVars)
<1>1. UNCHANGED vars \/ Request \/ AddClear \/ AddFill \/ Reply \/ Update("main")
  BY OnlyMain DEF IInv, TypeOK, RegInv
<1>2. Registry!RegNext \/ UNCHANGED <<Table, Nic, Busy>>
  BY <1>1, StillMaps, ReserveMaps, ClearMaps, FillMaps, MarkMaps, PartMaps, WalkMaps, UnlockMaps
  DEF Request, Update
<1>3. QED
  BY <1>2 DEF Registry!regVars, Table, Nic, Busy, InHand

LEMMA InitMaps == Init => Registry!RegInit
<1> SUFFICES ASSUME Init PROVE Registry!RegInit
  OBVIOUS
<1>1. IInv /\ RegInv
  BY InitInv, RegInitInv
<1>2. ~InHand /\ ~Pending
  BY DEF Init, InHand, InPass, Threads, Pending
<1>3. \A v \in VfIds : AbsNic(v) = Wanted(v) /\ Wanted(v) \in CfgOrNo
  BY <1>1, <1>2, NicIsTable
<1>4. QED
  BY <1>2, <1>3 DEF Registry!RegInit, InHand, CfgOrNo

\* Until the first interrupt comes, vfd_add_vf, vfd_del_vf and vfd_update_nic are, seen by a
\* client of the request pipe, one table: an accepted request changes one entry, nothing but
\* that VF is touched on the NIC meanwhile, and when the request is answered the NIC agrees
\* with the table.
THEOREM RequestsImplement == Spec => ImplementsRegistry
<1> DEFINE Undisturbed == nevents = 0 => RegInv
<1>1. Init => Registry!RegInit /\ Undisturbed
  BY InitMaps, RegInitInv
<1>2. IInv /\ Undisturbed /\ [Next]_vars => Undisturbed'
  BY NoneBefore, RegStep DEF IInv, TypeOK
<1>3. ASSUME IInv, IInv', Undisturbed, Undisturbed', [Next]_vars
      PROVE  [nevents' > 0 \/ Registry!RegNext]_(Registry!regVars)
  <2>1. CASE nevents' = 0
    BY <1>3, <2>1, NoneBefore, StepMaps DEF IInv, TypeOK
  <2>2. CASE nevents' # 0
    <3>1. nevents' \in 0 .. MaxEvents /\ MaxEvents \in Nat
      BY <1>3, SizesAssumption DEF IInv, TypeOK, EventTypes
    <3>2. QED
      BY <2>2, <3>1
  <2>3. QED
    BY <2>1, <2>2
<1>4. QED
  BY <1>1, <1>2, <1>3, InitInv, InvStep, PTL DEF Spec, ImplementsRegistry
=============================================================================
