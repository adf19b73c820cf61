------------------------- MODULE RefreshQueueProofs -------------------------
(***************************************************************************)
(* The refresh queue has one entry per VF, the drop bits follow it and it  *)
(* forgets no VF, for any number of VFs, slots, entries, messages and      *)
(* requests, on every NIC.                                                 *)
(***************************************************************************)
EXTENDS RefreshQueue, TLAPS

(***************************************************************************)
(* The inductive invariant.                                                *)
(***************************************************************************)

\* All there is to send.
Words   == IxgbeMsgs \cup I40eMsgs \cup BnxtMsgs
Sending == [vf : VfIds, msg : Words, fine : BOOLEAN]

\* Where the threads are: the refresh thread holds rte_refresh_q_lock for a whole sweep.
Places ==
  /\ pcI \in {"idle", "flag", "restore", "pass", "search", "alloc", "push", "answer"}
  /\ pcR \in {"sleep", "sweep", "pass", "unlink"}
  /\ pcR = "sleep" <=> rqLock = "free"
  /\ pcR \in {"pass", "unlink"} => cur \in todo

\* What guests have sent, and what the interrupt thread has taken of it.
Messaging ==
  /\ mbox \in [VfIds -> Sending \cup {NoMsg}]
  /\ \A v \in VfIds : mbox[v] # NoMsg => mbox[v].msg \in Messages(nic)
  /\ pcI # "idle" =>
       /\ cb \in [vf : VfIds, msg : Words, fine : BOOLEAN, vfp : Slots \cup {None}, enabled : BOOLEAN]
       /\ mbox[cb.vf] # NoMsg /\ mbox[cb.vf].msg = cb.msg
  /\ pcI = "flag" => nic = "i40e" /\ cb.vfp \in Slots
  /\ pcI \in {"restore", "pass"} => cb.msg \in RestoresNow(nic)

\* Once the search has found no entry of the VF there is none until the push: only the
\* interrupt thread adds entries, so it may let the lock go in between.
FoundNone == pcI \in {"alloc", "push"} => ~Queued(cb.vf)

\* A VF is in one slot.
SlotsApart == \A s, t \in Slots : slot[s] = slot[t] => slot[s] = None \/ s = t

Types == VfTypes /\ QueueTypes /\ Places /\ Messaging

QInv ==
  /\ Types
  /\ again \subseteq VfIds
  /\ FoundNone
  /\ SlotsApart
  /\ OneEntryPerVf
  /\ DropFollowsQueue

(***************************************************************************)
(* Helpers.                                                                *)
(***************************************************************************)

LEMMA NothingIsNone ==
  /\ None \notin VfIds /\ None \notin Slots /\ None \notin Nodes
  /\ None \notin Entries
BY RqAssumption DEF RqAssumption, Entries

LEMMA ReadyIsBoolean ==
  ASSUME VfTypes, NEW v
  PROVE  Ready(v) \in BOOLEAN
<1>1. CASE nic = "i40e"
  <2>1. (\E s \in SlotOf(v) : ready[s]) \in BOOLEAN
    OBVIOUS
  <2>2. QED
    BY <1>1, <2>1 DEF Ready
<1>2. CASE nic # "i40e"
  BY <1>2 DEF Ready
<1>3. QED
  BY <1>1, <1>2

LEMMA MessagesAreWords ==
  ASSUME VfTypes
  PROVE  Messages(nic) \subseteq Words
BY DEF VfTypes, Kinds, Messages, Words

LEMMA BnxtRefreshes ==
  nic = "bnxt" => "refresh" \in Messages(nic) /\ "refresh" \in Words
<1>1. nic = "bnxt" => Messages(nic) = BnxtMsgs
  BY DEF Messages
<1>2. "refresh" \in BnxtMsgs
  BY DEF BnxtMsgs
<1>3. QED
  BY <1>1, <1>2 DEF Words

LEMMA FirstSteps ==
  ASSUME NEW m, NEW vfp
  PROVE  /\ FirstStep(m, vfp) \in {"flag", "restore", "search", "answer"}
         /\ FirstStep(m, vfp) = "flag" => nic = "i40e" /\ vfp # None
         /\ FirstStep(m, vfp) = "restore" => m.msg \in RestoresNow(nic)
BY DEF FirstStep

\* A node keeps its VF, or stays free.
SameList ==
  \A n \in Nodes :
    /\ item'[n] = None <=> item[n] = None
    /\ item[n] # None => item'[n].vf = item[n].vf

LEMMA AskingKeepsList ==
  ASSUME QueueTypes, NEW n \in Listed, NEW b \in BOOLEAN,
         item' = [item EXCEPT ![n].enabled = b]
  PROVE  SameList /\ item' \in [Nodes -> Entries \cup {None}]
<1>1. n \in Nodes /\ item[n] \in Entries
  BY DEF QueueTypes, Listed
<1>2. item' = [item EXCEPT ![n] = [item[n] EXCEPT !.enabled = b]]
  OBVIOUS
<1>3. [item[n] EXCEPT !.enabled = b] \in Entries /\ [item[n] EXCEPT !.enabled = b].vf = item[n].vf
  BY <1>1 DEF Entries
<1>4. QED
  BY <1>1, <1>2, <1>3, NothingIsNone DEF SameList, QueueTypes

LEMMA SearchKeepsList ==
  ASSUME VfTypes, QueueTypes, CbSearch
  PROVE  SameList /\ item' \in [Nodes -> Entries \cup {None}]
<1>1. CASE item' = item
  BY <1>1 DEF SameList, QueueTypes
<1>2. CASE \E n \in Find(cb.vf) : item' = [item EXCEPT ![n].enabled = Ready(cb.vf)]
  BY <1>2, AskingKeepsList, ReadyIsBoolean DEF Find
<1>3. QED
  BY <1>1, <1>2 DEF CbSearch

LEMMA AskKeepsList ==
  ASSUME VfTypes, QueueTypes, AskAgain
  PROVE  SameList /\ item' \in [Nodes -> Entries \cup {None}]
<1>1. CASE item' = item
  BY <1>1 DEF SameList, QueueTypes
<1>2. CASE \E n \in todo : item' = [item EXCEPT ![n].enabled = Ready(item[n].vf)]
  BY <1>2, AskingKeepsList, ReadyIsBoolean DEF QueueTypes
<1>3. QED
  BY <1>1, <1>2 DEF AskAgain, SweepReady

LEMMA PushAdds ==
  ASSUME QueueTypes, Messaging, CbPush
  PROVE  \E n \in Nodes \ Listed :
           /\ item' = [item EXCEPT ![n] = [vf |-> cb.vf, enabled |-> cb.enabled]]
           /\ [vf |-> cb.vf, enabled |-> cb.enabled] \in Entries
           /\ item' \in [Nodes -> Entries \cup {None}]
           /\ Listed' = Listed \cup {n}
<1>1. PICK n \in Nodes \ Listed :
        item' = [item EXCEPT ![n] = [vf |-> cb.vf, enabled |-> cb.enabled]]
  BY DEF CbPush
<1>2. [vf |-> cb.vf, enabled |-> cb.enabled] \in Entries
  BY DEF CbPush, Messaging, Entries
<1>3. item' \in [Nodes -> Entries \cup {None}]
  BY <1>1, <1>2 DEF QueueTypes
<1>4. Listed' = Listed \cup {n}
  BY <1>1, <1>2, <1>3, NothingIsNone DEF QueueTypes, Listed
<1>5. QED
  BY <1>1, <1>2, <1>3, <1>4

LEMMA UnlinkRemoves ==
  ASSUME QueueTypes, Places, Unlink
  PROVE  /\ cur \in Listed
         /\ item' = [item EXCEPT ![cur] = None]
         /\ item' \in [Nodes -> Entries \cup {None}]
         /\ Listed' = Listed \ {cur}
<1>1. cur \in Listed /\ item' = [item EXCEPT ![cur] = None]
  BY DEF Unlink, QueueTypes, Places
<1>2. QED
  BY <1>1 DEF QueueTypes, Listed

LEMMA SameListKeeps ==
  ASSUME SameList
  PROVE  Listed' = Listed /\ \A v : Queued(v)' <=> Queued(v)
BY DEF SameList, Listed, Queued

\* Only the push and the unlink add or remove entries.
LEMMA ListSteps ==
  ASSUME VfTypes, QueueTypes, [RqNext]_rqVars, ~CbPush, ~Unlink
  PROVE  SameList /\ item' \in [Nodes -> Entries \cup {None}]
<1>1. CASE item' = item
  BY <1>1 DEF SameList, QueueTypes
<1>2. QED
  BY <1>1, SearchKeepsList, AskKeepsList
  DEF RqNext, Step, Main, Guest, Callback, Refresh, AddVf, DelVf, Send, SwitchOn, SwitchOff,
      CbTake, CbFlag, CbRestore, CbPass, CbAlloc, CbAnswer, Wake, Restore, RestorePass, GoToSleep,
      rqVars

(***************************************************************************)
(* Every step keeps the invariant: the types.                              *)
(***************************************************************************)

LEMMA VfTypesKept ==
  ASSUME Types, [RqNext]_rqVars
  PROVE  VfTypes'
<1> USE DEF Types
<1>1. ASSUME NEW v \in VfIds, AddVf(v) PROVE VfTypes'
  BY <1>1 DEF AddVf, VfTypes
<1>2. ASSUME NEW v \in VfIds, DelVf(v) PROVE VfTypes'
  BY <1>2 DEF DelVf, VfTypes
<1>3. ASSUME NEW v \in VfIds, NEW m, NEW fine \in BOOLEAN, Send(v, m, fine) PROVE VfTypes'
  BY <1>3 DEF Send, VfTypes
<1>4. ASSUME NEW v \in VfIds, SwitchOn(v) \/ SwitchOff(v) PROVE VfTypes'
  BY <1>4 DEF SwitchOn, SwitchOff, VfTypes
<1>5. CASE CbFlag
  <2>1. (cb.msg = "enable") \in BOOLEAN
    OBVIOUS
  <2>2. QED
    BY <1>5, <2>1 DEF CbFlag, Messaging, VfTypes
<1>6. CASE CbPass \/ RestorePass
  BY <1>6 DEF CbPass, RestorePass, VfTypes, Managed
<1>7. CASE CbPush
  BY <1>7 DEF CbPush, DropOn, Messaging, VfTypes
<1>8. CASE CbAnswer
  BY <1>8 DEF CbAnswer, Messaging, VfTypes
<1>9. CASE Unlink
  BY <1>9 DEF Unlink, UnlinkDrop, DropOff, VfTypes
<1>10. CASE UNCHANGED <<nic, slot, ready, on, set, drop>>
  BY <1>10 DEF VfTypes
<1>11. QED
  BY <1>1, <1>2, <1>3, <1>4, <1>5, <1>6, <1>7, <1>8, <1>9, <1>10
  DEF RqNext, Step, Main, Guest, Callback, Refresh, CbTake, CbRestore, CbSearch, CbAlloc,
      Wake, AskAgain, Restore, GoToSleep, rqVars

LEMMA QueueTypesKept ==
  ASSUME Types, [RqNext]_rqVars
  PROVE  QueueTypes'
<1> USE DEF Types
<1>1. CASE CbPush
  BY <1>1, PushAdds DEF CbPush, sweepVars, QueueTypes
<1>2. CASE Unlink
  BY <1>2, UnlinkRemoves, NothingIsNone DEF Unlink, Behind, QueueTypes
<1>3. CASE ~CbPush /\ ~Unlink
  <2>1. item' \in [Nodes -> Entries \cup {None}] /\ Listed' = Listed
    BY <1>3, ListSteps, SameListKeeps
  <2>2. /\ rqLock' \in {"free", "refresh"} /\ updLock' \in {"free", "intr", "refresh"}
        /\ crashed' \in BOOLEAN
    BY <1>3, ZenonT(40)
    DEF QueueTypes, RqNext, Step, Main, Guest, Callback, Refresh, AddVf, DelVf, Send, SwitchOn,
        SwitchOff, CbTake, CbFlag, FlagUnlocks, CbRestore, CbPass, CbSearch, CbAlloc, CbAnswer,
        Wake, AskAgain, Restore, RestorePass, GoToSleep, Crash, rqVars
  <2>3. todo' \subseteq Listed /\ cur' \in Nodes \cup {None}
    BY <1>3
    DEF QueueTypes, Listed, RqNext, Step, Main, Guest, Callback, Refresh, AddVf, DelVf, Send,
        SwitchOn, SwitchOff, CbTake, CbFlag, CbRestore, CbPass, CbSearch, CbAlloc, CbAnswer, Wake,
        AskAgain, Restore, RestorePass, GoToSleep, sweepVars, rqVars
  <2>4. QED
    BY <2>1, <2>2, <2>3 DEF QueueTypes
<1>4. QED
  BY <1>1, <1>2, <1>3

LEMMA PlacesKept ==
  ASSUME Types, [RqNext]_rqVars
  PROVE  Places'
<1> USE DEF Types
<1>1. ASSUME NEW v \in VfIds, CbTake(v) PROVE Places'
  BY <1>1, FirstSteps DEF CbTake, sweepVars, Places
<1>2. CASE CbFlag
  BY <1>2 DEF CbFlag, sweepVars, Places
<1>3. CASE CbRestore \/ CbPass
  BY <1>3 DEF CbRestore, CbPass, AfterRestore, sweepVars, Places
<1>4. CASE CbSearch
  BY <1>4 DEF CbSearch, sweepVars, Places
<1>5. CASE CbAlloc \/ CbPush
  BY <1>5 DEF CbAlloc, CbPush, sweepVars, Places
<1>6. CASE CbAnswer
  BY <1>6 DEF CbAnswer, sweepVars, Places
<1>7. CASE Wake \/ GoToSleep
  BY <1>7 DEF Wake, GoToSleep, intrVars, Places
<1>8. CASE AskAgain
  BY <1>8 DEF AskAgain, intrVars, Places
<1>9. CASE Restore \/ RestorePass \/ Unlink
  BY <1>9 DEF Restore, RestorePass, Unlink, intrVars, Places, QueueTypes
<1>10. CASE UNCHANGED <<pcI, pcR, rqLock, cur, todo>>
  BY <1>10 DEF Places
<1>11. QED
  BY <1>1, <1>2, <1>3, <1>4, <1>5, <1>6, <1>7, <1>8, <1>9, <1>10
  DEF RqNext, Step, Main, Guest, Callback, Refresh, AddVf, DelVf, Send, SwitchOn, SwitchOff,
      intrVars, sweepVars, rqVars

LEMMA MessagingKept ==
  ASSUME Types, [RqNext]_rqVars
  PROVE  Messaging'
<1> USE DEF Types
<1>1. ASSUME NEW v \in VfIds, NEW m \in Messages(nic), NEW fine \in BOOLEAN, Send(v, m, fine)
      PROVE  Messaging'
  <2> DEFINE sent == [vf |-> v, msg |-> m, fine |-> fine]
  <2>1. m \in Words
    BY MessagesAreWords
  <2>2. sent \in Sending /\ sent # NoMsg /\ sent.msg \in Messages(nic)
    BY <2>1, NothingIsNone DEF Sending, NoMsg
  <2>3. mbox' = [mbox EXCEPT ![v] = sent] /\ mbox[v] = NoMsg /\ UNCHANGED <<nic, cb, pcI>>
    BY <1>1 DEF Send
  <2>4. QED
    BY <2>2, <2>3 DEF Messaging
<1>2. ASSUME NEW v \in VfIds, SwitchOn(v) PROVE Messaging'
  <2> DEFINE sent == [vf |-> v, msg |-> "refresh", fine |-> TRUE]
  <2>1. CASE nic = "bnxt"
    <3>1. sent \in Sending /\ sent # NoMsg /\ sent.msg \in Messages(nic)
      BY <2>1, BnxtRefreshes, NothingIsNone DEF Sending, NoMsg
    <3>2. mbox' = [mbox EXCEPT ![v] = sent] /\ mbox[v] = NoMsg /\ UNCHANGED <<nic, cb, pcI>>
      BY <1>2, <2>1 DEF SwitchOn
    <3>3. QED
      BY <3>1, <3>2 DEF Messaging
  <2>2. CASE nic # "bnxt"
    BY <1>2, <2>2 DEF SwitchOn, Messaging
  <2>3. QED
    BY <2>1, <2>2
<1>3. ASSUME NEW v \in VfIds, CbTake(v) PROVE Messaging'
  <2>1. PICK vfp \in Slots \cup {None} :
          /\ cb' = [vf |-> v, msg |-> mbox[v].msg, fine |-> mbox[v].fine, vfp |-> vfp, enabled |-> FALSE]
          /\ pcI' = FirstStep(mbox[v], vfp)
    BY <1>3 DEF CbTake, SlotOf
  <2>2. mbox[v] \in Sending /\ mbox[v] # NoMsg /\ UNCHANGED <<nic, mbox>>
    BY <1>3 DEF CbTake, Messaging
  <2>3. /\ cb' \in [vf : VfIds, msg : Words, fine : BOOLEAN, vfp : Slots \cup {None}, enabled : BOOLEAN]
        /\ cb'.vf = v /\ cb'.vfp = vfp /\ mbox[v].msg = cb'.msg
    BY <2>1, <2>2 DEF Sending
  <2>4. /\ pcI' = "flag" => nic = "i40e" /\ cb'.vfp \in Slots
        /\ pcI' \in {"restore", "pass"} => cb'.msg \in RestoresNow(nic)
    BY <2>1, <2>3, FirstSteps
  <2>5. QED
    BY <2>2, <2>3, <2>4 DEF Messaging
<1>4. CASE CbFlag
  BY <1>4 DEF CbFlag, Messaging
<1>5. CASE CbRestore \/ CbPass
  BY <1>5 DEF CbRestore, CbPass, AfterRestore, Messaging
<1>6. CASE CbSearch
  BY <1>6 DEF CbSearch, Messaging
<1>7. CASE CbAlloc
  <2>1. CASE FollowsNull(cb.vf)
    BY <1>7, <2>1 DEF CbAlloc, Messaging
  <2>2. CASE ~FollowsNull(cb.vf)
    <3>1. cb' = [cb EXCEPT !.enabled = Ready(cb.vf)] /\ pcI' = "push" /\ UNCHANGED <<nic, mbox>>
      BY <1>7, <2>2 DEF CbAlloc, NewReady
    <3>2. Ready(cb.vf) \in BOOLEAN
      BY ReadyIsBoolean
    <3>3. cb \in [vf : VfIds, msg : Words, fine : BOOLEAN, vfp : Slots \cup {None}, enabled : BOOLEAN]
      BY <1>7 DEF CbAlloc, Messaging
    <3>4. /\ cb' \in [vf : VfIds, msg : Words, fine : BOOLEAN, vfp : Slots \cup {None}, enabled : BOOLEAN]
          /\ cb'.vf = cb.vf /\ cb'.msg = cb.msg
      BY <3>1, <3>2, <3>3
    <3>5. QED
      BY <1>7, <3>1, <3>4 DEF CbAlloc, Messaging
  <2>3. QED
    BY <2>1, <2>2
<1>8. CASE CbPush
  BY <1>8 DEF CbPush, Messaging
<1>9. CASE CbAnswer
  <2>1. mbox' = [mbox EXCEPT ![cb.vf] = NoMsg] /\ pcI' = "idle" /\ UNCHANGED nic /\ cb.vf \in VfIds
    BY <1>9 DEF CbAnswer, Messaging
  <2>2. QED
    BY <2>1 DEF Messaging
<1>10. CASE UNCHANGED <<nic, mbox, cb, pcI>>
  BY <1>10 DEF Messaging
<1>11. QED
  BY <1>1, <1>2, <1>3, <1>4, <1>5, <1>6, <1>7, <1>8, <1>9, <1>10
  DEF RqNext, Step, Main, Guest, Callback, Refresh, AddVf, DelVf, SwitchOff, Wake, AskAgain,
      Restore, RestorePass, Unlink, GoToSleep, intrVars, rqVars

(***************************************************************************)
(* Every step keeps the invariant: the list.                               *)
(***************************************************************************)

LEMMA SlotsApartKept ==
  ASSUME Types, SlotsApart, [RqNext]_rqVars
  PROVE  SlotsApart'
<1>1. ASSUME NEW v \in VfIds, AddVf(v) PROVE SlotsApart'
  <2>1. PICK s \in Slots : slot' = [slot EXCEPT ![s] = v]
    BY <1>1 DEF AddVf
  <2>2. \A t \in Slots : slot[t] # v
    BY <1>1 DEF AddVf, Managed, SlotOf
  <2>3. QED
    BY <2>1, <2>2 DEF Types, VfTypes, SlotsApart
<1>2. ASSUME NEW v \in VfIds, DelVf(v) PROVE SlotsApart'
  BY <1>2 DEF DelVf, Types, VfTypes, SlotsApart
<1>3. CASE UNCHANGED slot
  BY <1>3 DEF SlotsApart
<1>4. QED
  BY <1>1, <1>2, <1>3
  DEF RqNext, Step, Main, Guest, Callback, Refresh, Send, SwitchOn, SwitchOff, CbTake, CbFlag,
      CbRestore, CbPass, CbSearch, CbAlloc, CbPush, CbAnswer, Wake, AskAgain, Restore, RestorePass,
      Unlink, GoToSleep, rqVars

LEMMA FoundNoneKept ==
  ASSUME Types, FoundNone, [RqNext]_rqVars
  PROVE  FoundNone'
<1> USE DEF Types
<1>1. CASE CbPush
  BY <1>1 DEF CbPush, FoundNone
<1>2. CASE Unlink
  BY <1>2, UnlinkRemoves DEF Unlink, intrVars, FoundNone, Queued, QueueTypes, Listed
<1>3. CASE ~CbPush /\ ~Unlink
  <2>1. \A v : Queued(v)' <=> Queued(v)
    BY <1>3, ListSteps, SameListKeeps
  <2>2. CASE CbSearch
    <3>1. pcI' = "alloc" => Find(cb.vf) = {}
      BY <2>2 DEF CbSearch
    <3>2. QED
      BY <2>1, <2>2, <3>1 DEF CbSearch, Find, Queued, FoundNone
  <2>3. CASE CbAlloc
    <3>1. cb'.vf = cb.vf
      BY <2>3 DEF CbAlloc, Messaging
    <3>2. QED
      BY <2>1, <2>3, <3>1 DEF CbAlloc, FoundNone
  <2>4. CASE pcI' \notin {"alloc", "push"}
    BY <2>4 DEF FoundNone
  <2>5. CASE UNCHANGED <<pcI, cb>>
    BY <2>1, <2>5 DEF FoundNone
  <2>6. QED
    BY <1>3, <2>2, <2>3, <2>4, <2>5, FirstSteps
    DEF RqNext, Step, Main, Guest, Callback, Refresh, AddVf, DelVf, Send, SwitchOn, SwitchOff,
        CbTake, CbFlag, CbRestore, CbPass, AfterRestore, CbAnswer, Wake, AskAgain, Restore,
        RestorePass, GoToSleep, intrVars, rqVars
<1>4. QED
  BY <1>1, <1>2, <1>3

LEMMA OneEntryKept ==
  ASSUME Types, FoundNone, OneEntryPerVf, [RqNext]_rqVars
  PROVE  OneEntryPerVf'
<1> USE DEF Types
<1>1. CASE CbPush
  <2>1. PICK n \in Nodes \ Listed :
          /\ item' = [item EXCEPT ![n] = [vf |-> cb.vf, enabled |-> cb.enabled]]
          /\ Listed' = Listed \cup {n}
    BY <1>1, PushAdds
  <2>2. item'[n].vf = cb.vf /\ \A m \in Listed : item'[m] = item[m] /\ item[m].vf # cb.vf
    BY <1>1, <2>1 DEF CbPush, FoundNone, Queued, QueueTypes, Listed
  <2>3. QED
    BY <2>1, <2>2 DEF OneEntryPerVf
<1>2. CASE Unlink
  BY <1>2, UnlinkRemoves DEF OneEntryPerVf, QueueTypes, Listed
<1>3. CASE ~CbPush /\ ~Unlink
  BY <1>3, ListSteps, SameListKeeps DEF SameList, OneEntryPerVf, Listed
<1>4. QED
  BY <1>1, <1>2, <1>3

LEMMA DropKept ==
  ASSUME Types, OneEntryPerVf, DropFollowsQueue, [RqNext]_rqVars
  PROVE  DropFollowsQueue'
<1> USE DEF Types
<1>1. CASE CbPush
  <2>1. PICK n \in Nodes \ Listed :
          /\ item' = [item EXCEPT ![n] = [vf |-> cb.vf, enabled |-> cb.enabled]]
          /\ Listed' = Listed \cup {n}
    BY <1>1, PushAdds
  <2>2. item'[n].vf = cb.vf /\ \A m \in Listed : item'[m] = item[m]
    BY <2>1 DEF QueueTypes, Listed
  <2>3. \A v \in VfIds : Queued(v)' <=> Queued(v) \/ v = cb.vf
    BY <2>1, <2>2 DEF Queued
  <2>4. nic' = nic /\ (nic = "ixgbe" => drop' = drop \cup {cb.vf})
    BY <1>1 DEF CbPush, DropOn
  <2>5. QED
    BY <2>3, <2>4 DEF DropFollowsQueue
<1>2. CASE Unlink
  <2>1. cur \in Listed /\ Listed' = Listed \ {cur} /\ \A m \in Listed' : item'[m] = item[m]
    BY <1>2, UnlinkRemoves DEF QueueTypes, Listed
  <2>2. \A v \in VfIds : Queued(v)' <=> Queued(v) /\ v # item[cur].vf
    BY <2>1 DEF Queued, OneEntryPerVf
  <2>3. nic' = nic /\ drop' = drop \ {item[cur].vf}
    BY <1>2 DEF Unlink, UnlinkDrop, DropOff
  <2>4. QED
    BY <2>2, <2>3 DEF DropFollowsQueue
<1>3. CASE ~CbPush /\ ~Unlink
  <2>1. \A v : Queued(v)' <=> Queued(v)
    BY <1>3, ListSteps, SameListKeeps
  <2>2. UNCHANGED <<nic, drop>>
    BY <1>3
    DEF RqNext, Step, Main, Guest, Callback, Refresh, AddVf, DelVf, Send, SwitchOn, SwitchOff,
        CbTake, CbFlag, CbRestore, CbPass, CbSearch, CbAlloc, CbAnswer, Wake, AskAgain, Restore,
        RestorePass, GoToSleep, rqVars
  <2>3. QED
    BY <2>1, <2>2 DEF DropFollowsQueue
<1>4. QED
  BY <1>1, <1>2, <1>3

(***************************************************************************)
(* The theorems.                                                           *)
(***************************************************************************)

LEMMA QInvInit == RqInit => QInv
<1> SUFFICES ASSUME RqInit PROVE QInv
  OBVIOUS
<1>1. Listed = {}
  BY DEF RqInit, Listed
<1>2. VfTypes
  BY RqAssumption DEF RqAssumption, RqInit, VfTypes, Managed
<1>3. QueueTypes /\ Places
  BY <1>1 DEF RqInit, QueueTypes, Places
<1>4. Messaging
  BY DEF RqInit, Messaging
<1>5. FoundNone /\ SlotsApart /\ OneEntryPerVf /\ DropFollowsQueue /\ again \subseteq VfIds
  BY <1>1 DEF RqInit, FoundNone, SlotsApart, OneEntryPerVf, DropFollowsQueue, Queued
<1>6. QED
  BY <1>2, <1>3, <1>4, <1>5 DEF QInv, Types

LEMMA QInvStep == QInv /\ [RqNext]_rqVars => QInv'
<1> SUFFICES ASSUME QInv, [RqNext]_rqVars PROVE QInv'
  OBVIOUS
<1>1. again' \subseteq VfIds
  BY DEF QInv, RqNext, Step, Waiting, rqVars
<1>2. QED
  BY <1>1, VfTypesKept, QueueTypesKept, PlacesKept, MessagingKept, SlotsApartKept, FoundNoneKept,
     OneEntryKept, DropKept
  DEF QInv, Types

LEMMA QInvAlways == RqSpec => []QInv
BY QInvInit, QInvStep, PTL DEF RqSpec

\* Type correctness of the refresh queue.
THEOREM QueueTypesHold == RqSpec => []RqTypeOK
<1>1. QInv => RqTypeOK
  BY DEF QInv, Types, RqTypeOK
<1>2. QED
  BY <1>1, QInvAlways, PTL

\* add_refresh_queue never queues a VF twice, although it searches and pushes under
\* separate holds of rte_refresh_q_lock.
THEOREM OneEntry == RqSpec => []OneEntryPerVf
<1>1. QInv => OneEntryPerVf
  BY DEF QInv
<1>2. QED
  BY <1>1, QInvAlways, PTL

\* The drop bit of an ixgbe's VF is on exactly while the VF is queued.
THEOREM DropFollows == RqSpec => []DropFollowsQueue
<1>1. QInv => DropFollowsQueue
  BY DEF QInv
<1>2. QED
  BY <1>1, QInvAlways, PTL

(***************************************************************************)
(* What a reset lost is not forgotten.                                     *)
(***************************************************************************)

Whole(v) == v \notin Managed \/ v \in set
Down(v)  == nic # "ixgbe" /\ v \notin on

\* The message after which the settings of a VF have been lost, until it is dealt with:
\* an ixgbe's VF says that it was reset, a bnxt's that its queues are up.
Asking  == IF nic = "ixgbe" THEN "reset" ELSE "refresh"
Asks(v) == /\ nic # "i40e" /\ mbox[v] # NoMsg /\ mbox[v].msg = Asking
           /\ ~(pcI = "answer" /\ cb.vf = v)

Covered(v) == Whole(v) \/ Down(v) \/ Asks(v)

\* The VF of the entry that is about to leave the list.
Leaving(v) == pcR = "unlink" /\ item[cur].vf = v

\* A VF that an i40e is about to enable.
Enabling == pcI = "answer" /\ cb.msg = "enable"

LossInv ==
  /\ \A v \in VfIds : Covered(v) \/ Queued(v)
  /\ \A v \in VfIds : Leaving(v) => Covered(v)
  /\ Enabling => Whole(cb.vf) \/ (Queued(cb.vf) /\ ~Leaving(cb.vf))

LEMMA AskingSearches ==
  ASSUME VfTypes, NEW m, NEW vfp, nic # "i40e", m.msg = Asking
  PROVE  FirstStep(m, vfp) = "search" /\ m.msg \notin RestoresNow(nic)
<1>1. CASE nic = "ixgbe"
  <2>1. m.msg = "reset"
    BY <1>1 DEF Asking
  <2>2. QueuesRefresh(nic, m.msg, m.fine /\ vfp # None)
    BY <1>1, <2>1 DEF QueuesRefresh
  <2>3. m.msg \notin RestoresNow(nic)
    BY <1>1, <2>1 DEF RestoresNow
  <2>4. QED
    BY <1>1, <2>2, <2>3 DEF FirstStep
<1>2. CASE nic = "bnxt"
  <2>1. m.msg = "refresh"
    BY <1>2 DEF Asking
  <2>2. QueuesRefresh(nic, m.msg, m.fine /\ vfp # None)
    BY <1>2, <2>1 DEF QueuesRefresh
  <2>3. m.msg \notin RestoresNow(nic)
    BY <1>2 DEF RestoresNow
  <2>4. QED
    BY <1>2, <2>2, <2>3 DEF FirstStep
<1>3. QED
  BY <1>1, <1>2 DEF VfTypes, Kinds

\* VFd answers the reset of an ixgbe's VF itself: DPDK does nothing more to it.
LEMMA IxgbeResetStops ==
  ASSUME nic = "ixgbe", cb.msg = "reset"
  PROVE  CbAnswers # "proceed"
<1>1. CbAnswers = Answer(nic, cb.msg, cb.fine, cb.vfp # None)
  BY DEF CbAnswers
<1>2. "reset" \notin Checked("ixgbe")
  BY DEF Checked
<1>3. QED
  BY <1>1, <1>2 DEF Answer

LEMMA OnlyI40eEnables ==
  ASSUME Types, pcI # "idle", cb.msg = "enable"
  PROVE  nic = "i40e"
<1>1. "enable" \in Messages(nic)
  BY DEF Types, Messaging
<1>2. nic = "ixgbe" => Messages(nic) = IxgbeMsgs
  BY DEF Messages
<1>3. nic = "bnxt" => Messages(nic) = BnxtMsgs
  BY DEF Messages
<1>4. QED
  BY <1>1, <1>2, <1>3 DEF IxgbeMsgs, BnxtMsgs, Types, VfTypes, Kinds

\* A delete leaves the VF in no slot, and no other VF is touched.
LEMMA DelUnmanages ==
  ASSUME Types, SlotsApart, NEW v \in VfIds, DelVf(v)
  PROVE  Managed' \subseteq Managed \ {v}
<1>1. PICK s \in Slots : slot[s] = v /\ slot' = [slot EXCEPT ![s] = None]
  BY DEF DelVf, SlotOf
<1>2. \A t \in Slots : slot'[t] # v /\ (slot'[t] # None => slot'[t] = slot[t])
  BY <1>1, NothingIsNone DEF SlotsApart, Types, VfTypes
<1>3. QED
  BY <1>2, NothingIsNone DEF Managed, SlotOf

LEMMA AddManages ==
  ASSUME Types, NEW v \in VfIds, AddVf(v)
  PROVE  Managed' \subseteq Managed \cup {v}
<1>1. PICK s \in Slots : slot' = [slot EXCEPT ![s] = v]
  BY DEF AddVf
<1>2. \A t \in Slots : slot'[t] = v \/ slot'[t] = slot[t]
  BY <1>1 DEF Types, VfTypes
<1>3. QED
  BY <1>2 DEF Managed, SlotOf

LEMMA SameSlotsSameManaged ==
  ASSUME UNCHANGED slot
  PROVE  Managed' = Managed
BY DEF Managed, SlotOf

\* A VF stays covered until it is queued, or enabled.
LEMMA CoverKept ==
  ASSUME Types, SlotsApart, [RqNext]_rqVars, NEW v \in VfIds, Covered(v),
         ~(CbAnswer /\ cb.msg = "enable" /\ cb.vf = v)
  PROVE  Covered(v)' \/ ((CbSearch \/ CbPush) /\ Queued(v)')
<1> USE DEF Types
<1>1. ASSUME NEW w \in VfIds, AddVf(w) PROVE Covered(v)'
  BY <1>1, AddManages DEF AddVf, intrVars, Covered, Whole, Down, Asks, Asking
<1>2. ASSUME NEW w \in VfIds, DelVf(w) PROVE Covered(v)'
  BY <1>2, DelUnmanages DEF DelVf, intrVars, Covered, Whole, Down, Asks, Asking
<1>3. ASSUME NEW w \in VfIds, NEW m \in Messages(nic), NEW fine \in BOOLEAN, Send(w, m, fine)
      PROVE  Covered(v)'
  <2> DEFINE sent == [vf |-> w, msg |-> m, fine |-> fine]
  <2>1. Managed' = Managed
    BY <1>3, SameSlotsSameManaged DEF Send
  <2>2. /\ mbox' = [mbox EXCEPT ![w] = sent] /\ mbox[w] = NoMsg /\ UNCHANGED <<nic, cb, pcI>>
        /\ sent # NoMsg /\ sent.msg = m
    BY <1>3, NothingIsNone DEF Send, NoMsg
  <2>3. CASE v = w /\ m = "reset" /\ nic = "ixgbe"
    <3>1. ~(pcI = "answer" /\ cb.vf = v)
      BY <2>2, <2>3 DEF Messaging
    <3>2. Asks(v)'
      BY <2>2, <2>3, <3>1 DEF Asks, Asking, Messaging
    <3>3. QED
      BY <3>2 DEF Covered
  <2>4. CASE ~(v = w /\ m = "reset" /\ nic = "ixgbe")
    <3>1. Whole(v) => Whole(v)'
      BY <1>3, <2>1, <2>4 DEF Send, Whole
    <3>2. Down(v) => Down(v)'
      BY <1>3 DEF Send, Down
    <3>3. Asks(v) => v # w /\ mbox'[v] = mbox[v]
      BY <2>2 DEF Asks, Messaging
    <3>4. Asks(v) => Asks(v)'
      BY <2>2, <3>3 DEF Asks, Asking
    <3>5. QED
      BY <3>1, <3>2, <3>4 DEF Covered
  <2>5. QED
    BY <2>3, <2>4
<1>4. ASSUME NEW w \in VfIds, SwitchOn(w) PROVE Covered(v)'
  <2> DEFINE sent == [vf |-> w, msg |-> "refresh", fine |-> TRUE]
  <2>1. Managed' = Managed /\ UNCHANGED <<nic, set, cb, pcI>> /\ mbox[w] = NoMsg /\ nic # "i40e"
    BY <1>4, SameSlotsSameManaged DEF SwitchOn
  <2>2. Whole(v) => Whole(v)'
    BY <2>1 DEF Whole
  <2>3. CASE v = w /\ nic = "bnxt"
    <3>1. ~(pcI = "answer" /\ cb.vf = v)
      BY <2>1, <2>3 DEF Messaging
    <3>2. mbox' = [mbox EXCEPT ![w] = sent] /\ sent # NoMsg /\ sent.msg = "refresh"
      BY <1>4, <2>3, NothingIsNone DEF SwitchOn, NoMsg
    <3>3. Asks(v)'
      BY <2>1, <2>3, <3>1, <3>2 DEF Asks, Asking, Messaging
    <3>4. QED
      BY <3>3 DEF Covered
  <2>4. CASE v # w
    <3>1. mbox'[v] = mbox[v] /\ (v \in on' => v \in on)
      BY <1>4, <2>4 DEF SwitchOn, Messaging
    <3>2. QED
      BY <2>1, <2>2, <3>1 DEF Covered, Down, Asks, Asking
  <2>5. CASE nic = "ixgbe"
    <3>1. UNCHANGED mbox
      BY <1>4, <2>5 DEF SwitchOn
    <3>2. QED
      BY <2>1, <2>2, <2>5, <3>1 DEF Covered, Down, Asks, Asking
  <2>6. QED
    BY <2>1, <2>3, <2>4, <2>5 DEF VfTypes, Kinds
<1>5. ASSUME NEW w \in VfIds, SwitchOff(w) PROVE Covered(v)'
  BY <1>5, SameSlotsSameManaged DEF SwitchOff, intrVars, Covered, Whole, Down, Asks, Asking
<1>6. ASSUME NEW w \in VfIds, CbTake(w) PROVE Covered(v)'
  <2>1. PICK vfp : cb'.vf = w /\ pcI' = FirstStep(mbox[w], vfp)
    BY <1>6 DEF CbTake
  <2>2. Managed' = Managed /\ UNCHANGED <<nic, on, set, mbox>>
    BY <1>6, SameSlotsSameManaged DEF CbTake
  <2>3. Asks(v) => pcI' # "answer" \/ cb'.vf # v
    BY <2>1, AskingSearches DEF Asks
  <2>4. QED
    BY <2>2, <2>3 DEF Covered, Whole, Down, Asks, Asking
<1>7. CASE CbFlag
  <2>1. Managed' = Managed /\ UNCHANGED <<nic, on, set, mbox>> /\ nic = "i40e"
    BY <1>7, SameSlotsSameManaged DEF CbFlag, Messaging
  <2>2. QED
    BY <2>1 DEF Covered, Whole, Down, Asks
<1>8. CASE CbRestore \/ CbPass
  <2>1. Managed' = Managed /\ UNCHANGED <<nic, on, mbox, cb>> /\ set \subseteq set'
    BY <1>8, SameSlotsSameManaged DEF CbRestore, CbPass
  <2>2. Asks(v) => cb.vf # v
    BY <1>8, AskingSearches DEF CbRestore, CbPass, Asks, Messaging
  <2>3. QED
    BY <2>1, <2>2 DEF Covered, Whole, Down, Asks, Asking
<1>9. CASE CbSearch
  <2>1. Managed' = Managed /\ UNCHANGED <<nic, on, set, mbox, cb>>
    BY <1>9, SameSlotsSameManaged DEF CbSearch
  <2>2. CASE pcI' = "answer" /\ cb.vf = v
    <3>1. Queued(v)
      BY <1>9, <2>2 DEF CbSearch, Find, Queued
    <3>2. SameList
      BY <1>9, SearchKeepsList
    <3>3. QED
      BY <1>9, <3>1, <3>2, SameListKeeps
  <2>3. CASE ~(pcI' = "answer" /\ cb.vf = v)
    BY <2>1, <2>3 DEF Covered, Whole, Down, Asks, Asking
  <2>4. QED
    BY <2>2, <2>3
<1>10. CASE CbAlloc
  <2>1. Managed' = Managed /\ UNCHANGED <<nic, on, set, mbox>> /\ pcI' # "answer"
    BY <1>10, SameSlotsSameManaged DEF CbAlloc
  <2>2. QED
    BY <2>1 DEF Covered, Whole, Down, Asks, Asking
<1>11. CASE CbPush
  <2>1. Managed' = Managed /\ UNCHANGED <<nic, on, set, mbox, cb>>
    BY <1>11, SameSlotsSameManaged DEF CbPush
  <2>2. CASE cb.vf = v
    <3>1. PICK n \in Nodes \ Listed :
            /\ item' = [item EXCEPT ![n] = [vf |-> cb.vf, enabled |-> cb.enabled]]
            /\ Listed' = Listed \cup {n}
      BY <1>11, PushAdds
    <3>2. item'[n].vf = v
      BY <2>2, <3>1 DEF QueueTypes
    <3>3. QED
      BY <1>11, <3>1, <3>2 DEF Queued
  <2>3. CASE cb.vf # v
    BY <2>1, <2>3 DEF Covered, Whole, Down, Asks, Asking
  <2>4. QED
    BY <2>2, <2>3
<1>12. CASE CbAnswer
  <2>1. Managed' = Managed /\ UNCHANGED nic /\ pcI' = "idle" /\ mbox' = [mbox EXCEPT ![cb.vf] = NoMsg]
    BY <1>12, SameSlotsSameManaged DEF CbAnswer
  <2>2. CASE cb.vf # v
    <3>1. mbox'[v] = mbox[v] /\ (v \in set <=> v \in set') /\ (v \in on <=> v \in on')
      BY <1>12, <2>1, <2>2 DEF CbAnswer, Messaging
    <3>2. QED
      BY <2>1, <3>1 DEF Covered, Whole, Down, Asks, Asking
  <2>3. CASE cb.vf = v
    <3>1. ~Asks(v)
      BY <1>12, <2>3 DEF CbAnswer, Asks
    <3>2. Down(v) => Down(v)'
      BY <1>12, <2>3 DEF CbAnswer, Down
    <3>3. Whole(v) => Whole(v)' \/ Down(v)'
      BY <1>12, <2>1, <2>3, IxgbeResetStops DEF CbAnswer, Whole, Down
    <3>4. QED
      BY <3>1, <3>2, <3>3 DEF Covered
  <2>4. QED
    BY <2>2, <2>3
<1>13. CASE RestorePass
  BY <1>13, SameSlotsSameManaged DEF RestorePass, intrVars, Covered, Whole, Down, Asks, Asking
<1>14. CASE UNCHANGED <<nic, slot, on, set, mbox, cb, pcI>>
  BY <1>14, SameSlotsSameManaged DEF Covered, Whole, Down, Asks, Asking
<1>15. QED
  BY <1>1, <1>2, <1>3, <1>4, <1>5, <1>6, <1>7, <1>8, <1>9, <1>10, <1>11, <1>12, <1>13, <1>14
  DEF RqNext, Step, Main, Guest, Callback, Refresh, Wake, AskAgain, Restore, Unlink, GoToSleep,
      intrVars, rqVars

\* Only the unlink takes a VF from the list.
LEMMA QueuedKept ==
  ASSUME Types, [RqNext]_rqVars, NEW v \in VfIds, Queued(v), ~(Unlink /\ Leaving(v))
  PROVE  Queued(v)'
<1> USE DEF Types
<1>1. CASE CbPush
  <2>1. PICK n \in Nodes \ Listed :
          /\ item' = [item EXCEPT ![n] = [vf |-> cb.vf, enabled |-> cb.enabled]]
          /\ Listed' = Listed \cup {n}
    BY <1>1, PushAdds
  <2>2. \A m \in Listed : item'[m] = item[m]
    BY <2>1 DEF QueueTypes, Listed
  <2>3. QED
    BY <2>1, <2>2 DEF Queued
<1>2. CASE Unlink
  <2>1. Listed' = Listed \ {cur} /\ \A m \in Listed' : item'[m] = item[m]
    BY <1>2, UnlinkRemoves DEF QueueTypes, Listed
  <2>2. item[cur].vf # v
    BY <1>2 DEF Unlink, Leaving
  <2>3. QED
    BY <2>1, <2>2 DEF Queued
<1>3. CASE ~CbPush /\ ~Unlink
  BY <1>3, ListSteps, SameListKeeps
<1>4. QED
  BY <1>1, <1>2, <1>3

\* An entry that is leaving left the pass of its VF a step before, or was not managed.
LEMMA LeavingWas ==
  ASSUME Types, [RqNext]_rqVars, NEW v \in VfIds, Leaving(v)'
  PROVE  /\ ~CbSearch /\ ~CbPush /\ ~Unlink
         /\ Leaving(v) \/ Whole(v)'
<1> USE DEF Types
<1>1. ~CbSearch /\ ~CbPush /\ ~Unlink
  BY DEF Leaving, CbSearch, MaySearch, CbPush, Unlink, Places, sweepVars
<1>2. CASE Restore
  BY <1>1, <1>2, SameSlotsSameManaged DEF Restore, Leaving, Whole
<1>3. CASE RestorePass
  BY <1>1, <1>3, SameSlotsSameManaged DEF RestorePass, Leaving, Whole
<1>4. CASE ~Restore /\ ~RestorePass
  <2>1. UNCHANGED <<pcR, cur, item>>
    BY <1>1, <1>4
    DEF Leaving, RqNext, Step, Main, Guest, Callback, Refresh, AddVf, DelVf, Send, SwitchOn,
        SwitchOff, CbTake, CbFlag, CbRestore, CbPass, CbAlloc, CbAnswer, Wake, AskAgain,
        GoToSleep, sweepVars, rqVars
  <2>2. QED
    BY <1>1, <2>1 DEF Leaving
<1>5. QED
  BY <1>1, <1>2, <1>3, <1>4

\* While it enables a VF of an i40e the interrupt thread takes nothing from the NIC.
LEMMA EnablingKeepsWhole ==
  ASSUME Types, SlotsApart, [RqNext]_rqVars, Enabling, Enabling', Whole(cb.vf)
  PROVE  cb' = cb /\ Whole(cb.vf)'
<1> USE DEF Types
<1>1. nic = "i40e" /\ cb.vf \in VfIds
  BY OnlyI40eEnables DEF Enabling, Messaging
<1>2. ~CbAnswer
  BY DEF Enabling, CbAnswer
<1>3. cb' = cb
  BY <1>2
  DEF Enabling, RqNext, Step, Main, Guest, Callback, Refresh, AddVf, DelVf, Send, SwitchOn,
      SwitchOff, CbTake, CbFlag, CbRestore, CbPass, CbSearch, CbAlloc, CbPush, Wake, AskAgain,
      Restore, RestorePass, Unlink, GoToSleep, intrVars, rqVars
<1>4. ASSUME NEW w \in VfIds, AddVf(w) PROVE Whole(cb.vf)'
  BY <1>4, <1>3, AddManages DEF AddVf, Whole
<1>5. ASSUME NEW w \in VfIds, DelVf(w) PROVE Whole(cb.vf)'
  BY <1>5, <1>3, DelUnmanages DEF DelVf, Whole
<1>6. CASE UNCHANGED slot /\ set \subseteq set'
  BY <1>6, <1>3, SameSlotsSameManaged DEF Whole
<1>7. QED
  BY <1>1, <1>2, <1>3, <1>4, <1>5, <1>6
  DEF RqNext, Step, Main, Guest, Callback, Refresh, Send, SwitchOn,
      SwitchOff, CbTake, CbFlag, CbRestore, CbPass, CbSearch, CbAlloc, CbPush, Wake, AskAgain,
      Restore, RestorePass, Unlink, GoToSleep, rqVars

\* A VF that the interrupt thread has come to enable is queued, or is not managed.
LEMMA EnablingBegins ==
  ASSUME Types, [RqNext]_rqVars, ~Enabling, Enabling'
  PROVE  Whole(cb.vf)' \/ (Queued(cb.vf)' /\ ~Leaving(cb.vf)')
<1> USE DEF Types
<1>1. ASSUME NEW w \in VfIds, CbTake(w) PROVE Whole(cb.vf)'
  <2>1. PICK vfp \in IF SlotOf(w) = {} THEN {None} ELSE SlotOf(w) :
          /\ cb' = [vf |-> w, msg |-> mbox[w].msg, fine |-> mbox[w].fine, vfp |-> vfp, enabled |-> FALSE]
          /\ pcI' = FirstStep(mbox[w], vfp)
    BY <1>1 DEF CbTake
  <2>2. mbox[w].msg = "enable" /\ FirstStep(mbox[w], vfp) = "answer" /\ cb'.vf = w
    BY <2>1 DEF Enabling
  <2>3. nic = "i40e"
    <3>1. "enable" \in Messages(nic)
      BY <1>1, <2>2 DEF CbTake, Messaging
    <3>2. nic = "ixgbe" => Messages(nic) = IxgbeMsgs
      BY DEF Messages
    <3>3. nic = "bnxt" => Messages(nic) = BnxtMsgs
      BY DEF Messages
    <3>4. QED
      BY <3>1, <3>2, <3>3 DEF IxgbeMsgs, BnxtMsgs, VfTypes, Kinds
  <2>4. vfp = None
    BY <2>2, <2>3 DEF FirstStep
  <2>5. SlotOf(w) = {}
    BY <2>1, <2>4, NothingIsNone DEF SlotOf
  <2>6. QED
    BY <1>1, <2>2, <2>5, SameSlotsSameManaged DEF CbTake, Whole, Managed
<1>2. CASE CbSearch
  <2>1. pcI' = "answer" /\ cb' = cb /\ pcR' = "sleep"
    BY <1>2 DEF CbSearch, MaySearch, Enabling, Places, sweepVars
  <2>2. Queued(cb.vf)
    BY <1>2, <2>1 DEF CbSearch, Find, Queued
  <2>3. SameList
    BY <1>2, SearchKeepsList
  <2>4. QED
    BY <2>1, <2>2, <2>3, SameListKeeps DEF Leaving
<1>3. CASE CbPush
  <2>1. PICK n \in Nodes \ Listed :
          /\ item' = [item EXCEPT ![n] = [vf |-> cb.vf, enabled |-> cb.enabled]]
          /\ Listed' = Listed \cup {n}
    BY <1>3, PushAdds
  <2>2. item'[n].vf = cb.vf /\ cb' = cb /\ pcR' = "sleep"
    BY <1>3, <2>1 DEF CbPush, QueueTypes, Places, sweepVars
  <2>3. QED
    BY <2>1, <2>2 DEF Queued, Leaving
<1>4. CASE CbFlag \/ CbRestore \/ CbPass
  <2>1. pcI' = "answer" /\ cb' = cb /\ cb.msg = "enable" /\ nic = "i40e"
    BY <1>4, OnlyI40eEnables DEF CbFlag, CbRestore, CbPass, Enabling
  <2>2. RestoresNow(nic) = {}
    BY <2>1 DEF RestoresNow
  <2>3. QED
    BY <1>4, <2>1, <2>2 DEF CbFlag, CbRestore, CbPass, Messaging
<1>5. QED
  BY <1>1, <1>2, <1>3, <1>4
  DEF Enabling, RqNext, Step, Main, Guest, Callback, Refresh, AddVf, DelVf, Send, SwitchOn,
      SwitchOff, CbAlloc, CbAnswer, Wake, AskAgain, Restore, RestorePass, Unlink, GoToSleep,
      intrVars, rqVars

LEMMA LossInvStep ==
  ASSUME QInv, QInv', LossInv, [RqNext]_rqVars
  PROVE  LossInv'
<1>1. Types /\ SlotsApart /\ OneEntryPerVf
  BY DEF QInv
<1>2. ASSUME NEW v \in VfIds PROVE (Covered(v) \/ Queued(v))'
  <2>1. CASE Covered(v) /\ ~(CbAnswer /\ cb.msg = "enable" /\ cb.vf = v)
    BY <1>1, <2>1, CoverKept
  <2>2. CASE Queued(v) /\ ~(Unlink /\ Leaving(v))
    BY <1>1, <2>2, QueuedKept
  <2>3. CASE CbAnswer /\ cb.msg = "enable" /\ cb.vf = v
    <3>1. Enabling
      BY <2>3 DEF CbAnswer, Enabling
    <3>2. Whole(v) => Whole(v)'
      BY <2>3, SameSlotsSameManaged DEF CbAnswer, Whole
    <3>3. Queued(v) => Queued(v)'
      BY <1>1, <2>3, <3>1, QueuedKept DEF Enabling, CbAnswer, Unlink, Leaving, sweepVars, Types, Places
    <3>4. QED
      BY <2>3, <3>1, <3>2, <3>3 DEF LossInv, Covered
  <2>4. CASE Unlink /\ Leaving(v)
    <3>1. Covered(v) /\ ~CbAnswer
      BY <2>4 DEF LossInv, Unlink, CbAnswer, sweepVars, Types, Places
    <3>2. QED
      BY <1>1, <3>1, CoverKept
  <2>5. QED
    BY <2>1, <2>2, <2>3, <2>4 DEF LossInv
<1>3. ASSUME NEW v \in VfIds, Leaving(v)' PROVE Covered(v)'
  <2>1. ~CbSearch /\ ~CbPush /\ (Leaving(v) \/ Whole(v)')
    BY <1>1, <1>3, LeavingWas
  <2>2. CASE Leaving(v) /\ ~(CbAnswer /\ cb.msg = "enable" /\ cb.vf = v)
    BY <1>1, <2>1, <2>2, CoverKept DEF LossInv
  <2>3. CASE Leaving(v) /\ CbAnswer /\ cb.msg = "enable" /\ cb.vf = v
    <3>1. Whole(v)
      BY <2>3 DEF LossInv, Enabling, CbAnswer
    <3>2. QED
      BY <2>3, <3>1, SameSlotsSameManaged DEF CbAnswer, Covered, Whole
  <2>4. QED
    BY <2>1, <2>2, <2>3 DEF Covered
<1>4. ASSUME Enabling' PROVE Whole(cb.vf)' \/ (Queued(cb.vf)' /\ ~Leaving(cb.vf)')
  <2>1. CASE ~Enabling
    BY <1>1, <1>4, <2>1, EnablingBegins
  <2>2. CASE Enabling /\ Whole(cb.vf)
    BY <1>1, <1>4, <2>2, EnablingKeepsWhole DEF Whole
  <2>3. CASE Enabling /\ ~Whole(cb.vf)
    <3>1. Queued(cb.vf) /\ ~Leaving(cb.vf) /\ cb.vf \in VfIds
      BY <1>1, <2>3 DEF LossInv, Types, Messaging, Enabling
    <3>2. cb' = cb
      BY <1>4, <2>3
      DEF Enabling, RqNext, Step, Main, Guest, Callback, Refresh, AddVf, DelVf, Send, SwitchOn,
          SwitchOff, CbTake, CbFlag, CbRestore, CbPass, CbSearch, CbAlloc, CbPush, CbAnswer, Wake,
          AskAgain, Restore, RestorePass, Unlink, GoToSleep, intrVars, rqVars
    <3>3. Queued(cb.vf)'
      BY <1>1, <3>1, <3>2, QueuedKept DEF Queued
    <3>4. Leaving(cb.vf)' => Whole(cb.vf)'
      BY <1>1, <3>1, <3>2, LeavingWas DEF Leaving, Whole
    <3>5. QED
      BY <3>3, <3>4
  <2>4. QED
    BY <2>1, <2>2, <2>3
<1>5. QED
  BY <1>2, <1>3, <1>4 DEF LossInv

LEMMA LossInvInit == RqInit => LossInv
<1> SUFFICES ASSUME RqInit PROVE LossInv
  OBVIOUS
<1>1. \A v \in VfIds : Whole(v)
  BY DEF RqInit, Whole
<1>2. QED
  BY <1>1 DEF RqInit, LossInv, Covered, Leaving, Enabling

\* No VF that a guest has reset is forgotten by the queue, whatever the order of the reset,
\* the callbacks, the sweep, and the adds and deletes of main.
THEOREM NoLossForgotten == RqSpec => []LossIsRemembered
<1>1. QInv /\ LossInv => LossIsRemembered
  BY DEF LossInv, LossIsRemembered, Covered, Whole, Down, Asks, Managed
<1>2. RqInit => QInv /\ LossInv
  BY QInvInit, LossInvInit
<1>3. (QInv /\ LossInv) /\ [RqNext]_rqVars => (QInv /\ LossInv)'
  BY QInvStep, LossInvStep
<1>4. QED
  BY <1>1, <1>2, <1>3, PTL DEF RqSpec

(***************************************************************************)
(* What an entry says of its VF.                                           *)
(***************************************************************************)

Fits(v) == Ready(v) \/ v \in again

\* An entry is enabled only if its VF was found ready, and what became of the VF since then
\* is remembered; also of an entry that is filled in and not in the list yet.
EnabledFits ==
  /\ \A n \in Listed : item[n].enabled => Fits(item[n].vf)
  /\ pcI = "push" /\ cb.enabled => Fits(cb.vf)

LEMMA FitsKept ==
  ASSUME [RqNext]_rqVars, again' = {v \in Waiting' : v \in again \/ (Ready(v) /\ ~Ready(v)')},
         NEW v \in VfIds, Fits(v), v \in Waiting'
  PROVE  Fits(v)'
<1>1. Ready(v)' \/ v \in again'
  BY DEF Fits
<1>2. QED
  BY <1>1 DEF Fits

\* Where an enabled entry comes from.
LEMMA EnabledWas ==
  ASSUME Types, [RqNext]_rqVars, NEW n \in Listed', item'[n].enabled
  PROVE  \/ n \in Listed /\ item[n].enabled /\ item'[n].vf = item[n].vf
         \/ pcI = "push" /\ cb.enabled /\ item'[n].vf = cb.vf
         \/ Ready(item[n].vf)'
<1> USE DEF Types
<1>1. CASE item' = item
  BY <1>1 DEF Listed
<1>2. CASE CbPush
  <2>1. PICK m \in Nodes \ Listed :
          /\ item' = [item EXCEPT ![m] = [vf |-> cb.vf, enabled |-> cb.enabled]]
          /\ Listed' = Listed \cup {m}
    BY <1>2, PushAdds
  <2>2. CASE n = m
    <3>1. item'[n] = [vf |-> cb.vf, enabled |-> cb.enabled]
      BY <2>1, <2>2 DEF QueueTypes
    <3>2. pcI = "push"
      BY <1>2 DEF CbPush
    <3>3. QED
      BY <3>1, <3>2
  <2>3. CASE n # m
    <3>1. n \in Listed /\ item'[n] = item[n]
      BY <2>1, <2>3 DEF QueueTypes
    <3>2. QED
      BY <3>1
  <2>4. QED
    BY <2>2, <2>3
<1>3. CASE Unlink
  <2>1. n \in Listed /\ item'[n] = item[n]
    BY <1>3, UnlinkRemoves DEF QueueTypes, Listed
  <2>2. QED
    BY <2>1
<1>4. ASSUME NEW m \in Listed, item' = [item EXCEPT ![m].enabled = Ready(item[m].vf)],
             UNCHANGED <<nic, slot, ready, on>>
      PROVE  \/ n \in Listed /\ item[n].enabled /\ item'[n].vf = item[n].vf
             \/ Ready(item[n].vf)'
  <2>1. m \in Nodes /\ item[m] \in Entries /\ n \in Nodes
    BY DEF QueueTypes, Listed
  <2>2. CASE n = m
    <3>1. item'[n] = [item[n] EXCEPT !.enabled = Ready(item[n].vf)]
      BY <1>4, <2>1, <2>2 DEF QueueTypes
    <3>2. item'[n].vf = item[n].vf /\ item'[n].enabled = Ready(item[n].vf)
      BY <2>1, <2>2, <3>1 DEF Entries
    <3>3. PICK w : w = item[n].vf /\ item'[n].vf = w /\ Ready(w)
      BY <3>2
    <3>4. Ready(w)'
      BY <1>4, <3>3 DEF Ready, SlotOf
    <3>5. QED
      BY <3>3, <3>4 DEF Ready, SlotOf
  <2>3. CASE n # m
    <3>1. item'[n] = item[n]
      BY <1>4, <2>1, <2>3 DEF QueueTypes
    <3>2. QED
      BY <2>1, <3>1 DEF Listed
  <2>4. QED
    BY <2>2, <2>3
<1>5. CASE CbSearch
  <2>1. item' = item \/ \E m \in Find(cb.vf) : item' = [item EXCEPT ![m].enabled = Ready(item[m].vf)]
    BY <1>5 DEF CbSearch, Find
  <2>2. QED
    BY <1>1, <1>4, <1>5, <2>1 DEF Find, CbSearch
<1>6. CASE AskAgain
  BY <1>1, <1>4, <1>6 DEF AskAgain, SweepReady, QueueTypes
<1>7. QED
  BY <1>1, <1>2, <1>3, <1>5, <1>6
  DEF RqNext, Step, Main, Guest, Callback, Refresh, AddVf, DelVf, Send, SwitchOn, SwitchOff,
      CbTake, CbFlag, CbRestore, CbPass, CbAlloc, CbAnswer, Wake, Restore, RestorePass, GoToSleep,
      rqVars

\* ... and one that is filled in.
LEMMA PushWas ==
  ASSUME Types, [RqNext]_rqVars, pcI' = "push", cb'.enabled
  PROVE  \/ pcI = "push" /\ cb' = cb
         \/ Ready(cb.vf)'
<1> USE DEF Types
<1>1. CASE CbAlloc
  <2>1. /\ pcI = "alloc" /\ cb' = [cb EXCEPT !.enabled = Ready(cb.vf)]
        /\ UNCHANGED <<nic, slot, ready, on>>
    BY <1>1 DEF CbAlloc, NewReady
  <2>2. cb'.vf = cb.vf /\ cb'.enabled = Ready(cb.vf)
    BY <2>1 DEF Messaging
  <2>3. PICK w : w = cb.vf /\ cb'.vf = w /\ Ready(w)
    BY <2>2
  <2>4. Ready(w)'
    BY <2>1, <2>3 DEF Ready, SlotOf
  <2>5. QED
    BY <2>3, <2>4 DEF Ready, SlotOf
<1>2. CASE \E v \in VfIds : CbTake(v)
  BY <1>2, FirstSteps DEF CbTake
<1>3. CASE pcI' = pcI /\ cb' = cb
  BY <1>3
<1>4. CASE CbFlag \/ CbRestore \/ CbPass \/ CbSearch \/ CbPush \/ CbAnswer
  BY <1>4 DEF CbFlag, CbRestore, CbPass, AfterRestore, CbSearch, CbPush, CbAnswer
<1>5. QED
  BY <1>1, <1>2, <1>3, <1>4
  DEF RqNext, Step, Main, Guest, Callback, Refresh, AddVf, DelVf, Send, SwitchOn, SwitchOff,
      Wake, AskAgain, Restore, RestorePass, Unlink, GoToSleep, intrVars, rqVars


LEMMA EnabledFitsKept ==
  ASSUME QInv, EnabledFits, [RqNext]_rqVars
  PROVE  EnabledFits'
<1>t. Types /\ Types'
  BY QInvStep DEF QInv
<1>1. CASE UNCHANGED rqVars
  BY <1>1 DEF rqVars, intrVars, sweepVars, EnabledFits, Fits, Ready, SlotOf, Listed
<1>2. CASE RqNext
  <2>1. again' = {v \in Waiting' : v \in again \/ (Ready(v) /\ ~Ready(v)')}
    BY <1>2 DEF RqNext, Step
  <2>2. ASSUME NEW n \in Listed', item'[n].enabled
        PROVE  Fits(item[n].vf)'
    <3>1. PICK w \in VfIds : w = item'[n].vf
      BY <1>t DEF Types, QueueTypes, Listed, Entries
    <3>2. Queued(w)' /\ w \in Waiting'
      BY <3>1 DEF Queued, Waiting
    <3>3. CASE n \in Listed /\ item[n].enabled /\ item[n].vf = w
      <4>1. Fits(w)
        BY <3>3 DEF EnabledFits
      <4>2. Fits(w)'
        BY <2>1, <3>2, <4>1, FitsKept
      <4>3. QED
        BY <3>1, <4>2 DEF Fits, Ready, SlotOf
    <3>4. CASE pcI = "push" /\ cb.enabled /\ cb.vf = w
      <4>1. Fits(w)
        BY <3>4 DEF EnabledFits
      <4>2. Fits(w)'
        BY <2>1, <3>2, <4>1, FitsKept
      <4>3. QED
        BY <3>1, <4>2 DEF Fits, Ready, SlotOf
    <3>5. CASE Ready(item[n].vf)'
      BY <3>5 DEF Fits
    <3>6. QED
      BY <1>t, <2>2, <3>1, <3>3, <3>4, <3>5, EnabledWas
  <2>3. ASSUME pcI' = "push", cb'.enabled
        PROVE  Fits(cb.vf)'
    <3>1. PICK w \in VfIds : w = cb'.vf
      BY <1>t, <2>3 DEF Types, Messaging
    <3>2. w \in Waiting'
      BY <2>3, <3>1 DEF Waiting
    <3>3. CASE pcI = "push" /\ cb' = cb
      <4>1. Fits(w)
        BY <2>3, <3>1, <3>3 DEF EnabledFits
      <4>2. Fits(w)'
        BY <2>1, <3>2, <4>1, FitsKept
      <4>3. QED
        BY <3>1, <4>2 DEF Fits, Ready, SlotOf
    <3>4. CASE Ready(cb.vf)'
      BY <3>4 DEF Fits
    <3>5. QED
      BY <1>t, <2>3, <3>3, <3>4, PushWas
  <2>4. QED
    BY <2>2, <2>3 DEF EnabledFits
<1>3. QED
  BY <1>1, <1>2

\* restore_vf_setings runs in a sweep only for a VF that is ready, or that was ready when
\* it was asked and has gone down since: is_rx_queue_on is asked before every restore.
THEOREM RestoresAreDue == RqSpec => RestoresWhenReady
<1> DEFINE Due == pcR # "pass" /\ pcR' = "pass" => Ready(item[cur'].vf) \/ item[cur'].vf \in again
<1>1. RqInit => QInv /\ EnabledFits
  BY QInvInit DEF RqInit, EnabledFits, Listed
<1>2. (QInv /\ EnabledFits) /\ [RqNext]_rqVars => (QInv /\ EnabledFits)'
  BY QInvStep, EnabledFitsKept
<1>3. (QInv /\ EnabledFits) /\ [RqNext]_rqVars => [Due]_rqVars
  <2> SUFFICES ASSUME QInv, EnabledFits, RqNext, pcR # "pass", pcR' = "pass"
               PROVE  Ready(item[cur'].vf) \/ item[cur'].vf \in again
    BY DEF rqVars
  <2>1. Restore
    BY DEF RqNext, Step, Main, Guest, Callback, Refresh, AddVf, DelVf, Send, SwitchOn, SwitchOff,
           CbTake, CbFlag, CbRestore, CbPass, CbSearch, CbAlloc, CbPush, CbAnswer, Wake, AskAgain,
           RestorePass, Unlink, GoToSleep, sweepVars
  <2>2. PICK n \in todo : item[n].enabled /\ cur' = n
    BY <2>1 DEF Restore
  <2>3. n \in Listed
    BY <2>2 DEF QInv, Types, QueueTypes
  <2>4. QED
    BY <2>2, <2>3 DEF EnabledFits, Fits
<1>4. QED
  BY <1>1, <1>2, <1>3, PTL DEF RqSpec, RestoresWhenReady

=============================================================================
