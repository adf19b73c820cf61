------------------------------ MODULE Netlink -------------------------------
(***************************************************************************)
(* The netlink interface: VFd (vfd_nl.c, main.c) tells the kernel module   *)
(* vfd-net which VFs it manages, the module shows each as a network device *)
(* and asks VFd for the device's statistics.  The steps of the process are *)
(* those of Lifecycle: the netlink thread runs from before the ports are   *)
(* started until the process ends, and an answer about a VF that is gone   *)
(* is a fault.                                                             *)
(*                                                                         *)
(* VFs are announced by update passes (vfd_update_nic), which main makes   *)
(* after a request and the threads that restore VFs after a reset make     *)
(* too, and by the netlink thread when the module asks for a list.  The    *)
(* module's callback runs inside the send of the thread that calls it (it  *)
(* reads that process' memory), so several threads may be inside the       *)
(* module at once.  Messages to VFd wait in the socket of the netlink      *)
(* thread.  One PF; a device is named by its VF, the PF's own is Pf.       *)
(***************************************************************************)
EXTENDS Lifecycle, FiniteSets, Sequences

CONSTANTS
  VfIds,      \* VFs of the PF
  Pf,         \* the PF's device: VF number MAX_VFS - 1
  None,       \* no device, no thread
  Restorers,  \* threads that restore VFs: the refresh thread, the interrupt thread
  QueueMax,   \* messages the socket of the netlink thread holds
  MaxFound,   \* bound: VFs that have files at a start
  MaxEvents   \* bound: starts, adds, deletes, restores, loads, unloads and reads of statistics

Updaters == Restorers \cup {"main"}
Senders  == Updaters \cup {"nl"}

ASSUME NlAssumption ==
  /\ Pf \notin VfIds /\ None \notin VfIds \cup {Pf} \cup Senders
  /\ {"main", "nl", "shown"} \cap Restorers = {} /\ None # "shown"
  /\ QueueMax \in Nat /\ MaxFound \in Nat /\ MaxEvents \in Nat

VARIABLES
  table,      \* VFs with a number in port->vfs
  mark,       \* last_updated of each VF
  waiting,    \* updaters that want a pass
  pass,       \* update_lock and the pass of its holder
  sock,       \* nl_socket: "none", "open" or "closed"
  queue,      \* messages in the socket
  overrun,    \* a message found the socket full
  pcN,        \* netlink thread: where it is
  left,       \* netlink thread: slots left in get_all_devices
  at,         \* netlink thread: the device its next message is about
  module,     \* vfd-net: "out", "loading", "in" or "unloading"
  netdevs,    \* vfd_netdevs: None, "shown", or the thread that has yet to register it
  devs,       \* the devices that are registered
  inside,     \* where in add_vfd_net each thread of VFd is
  oops,       \* the module followed a null pointer, or used what it had freed
  lost,       \* history: an updater found no socket when its message mattered
  astray,     \* history: devices the module was told about too late, or not at all
  twice,      \* history: devices that two threads added at once
  nevents

tableVars  == <<table, mark>>
passVars   == <<waiting, pass>>
threadVars == <<pcN, left, at>>
sockVars   == <<sock, queue, overrun>>
devVars    == <<netdevs, devs, inside, oops, astray, twice>>
nlVars     == <<lifeVars, tableVars, passVars, threadVars, sockVars, module, devVars, lost, nevents>>

Devices == VfIds \cup {Pf}
List    == [req |-> "list", dev |-> None]
Stats(d) == [req |-> "stats", dev |-> d]

Out    == [step |-> "out", dev |-> None]
NoPass == [by |-> None, todo |-> {}, vf |-> None, reason |-> "unchanged", step |-> "find"]

NlInit ==
  /\ LifeInit /\ table = {} /\ mark = [v \in VfIds |-> "unchanged"]
  /\ waiting = {} /\ pass = NoPass
  /\ sock = "none" /\ queue = <<>> /\ overrun = FALSE
  /\ pcN = "none" /\ left = {} /\ at = None
  /\ module \in {"out", "in"} /\ netdevs = [d \in Devices |-> None] /\ devs = {}
  /\ inside = [t \in Senders |-> Out] /\ oops = FALSE
  /\ lost = FALSE /\ astray = {} /\ twice = {}
  /\ nevents = 0

Event == nevents < MaxEvents /\ nevents' = nevents + 1

\* A thread that is inside the module does nothing else.
Free(t) == inside[t] = Out

(***************************************************************************)
(* The kernel module.                                                      *)
(***************************************************************************)

\* send_nl_request: a multicast that nobody may hear, and that may find the socket full.
Ask(m) ==
  /\ IF sock = "open" /\ Len(queue) < QueueMax
       THEN queue' = Append(queue, m) /\ UNCHANGED overrun
       ELSE overrun' = (overrun \/ sock = "open") /\ UNCHANGED queue
  /\ UNCHANGED sock

\* A device that appears now should not: its VF is gone or going, or VFd is.
Removed(d) ==
  \/ vfd = "ending" \/ d \in VfIds \ table
  \/ pass.vf = d /\ pass.reason = "deleted"

\* add_vfd_net finds the device or allocates one.
AddDev(t, d) ==
  /\ inside' = [inside EXCEPT ![t] = IF netdevs[d] = None THEN [step |-> "store", dev |-> d] ELSE Out]
  /\ twice' = twice \cup {e \in {d} : \E u \in Senders \ {t} : inside[u].dev = e}
  /\ astray' = IF netdevs[d] # "shown" THEN astray
               ELSE IF Removed(d) THEN astray \cup {d} ELSE astray \ {d}
  /\ UNCHANGED <<sockVars, netdevs, devs, oops>>

StoreDev(t) ==
  /\ inside[t].step = "store"
  /\ netdevs' = [netdevs EXCEPT ![inside[t].dev] = t]
  /\ inside' = [inside EXCEPT ![t].step = "register"]
  /\ UNCHANGED <<devs, oops, astray, twice>>

\* register_netdev refuses a second device of the same name, and the entry is cleared
\* whichever device it held.
RegisterDev(t) ==
  /\ inside[t].step = "register"
  /\ LET d == inside[t].dev IN
       /\ netdevs' = [netdevs EXCEPT ![d] = IF d \in devs THEN None ELSE IF @ = t THEN "shown" ELSE @]
       /\ devs' = devs \cup {d}
       /\ astray' = IF d \in devs THEN astray
                    ELSE IF Removed(d) THEN astray \cup {d} ELSE astray \ {d}
  /\ inside' = [inside EXCEPT ![t] = Out]
  /\ UNCHANGED <<oops, twice>>

\* The thread goes on in add_vfd_net.
Inside(t) ==
  /\ StoreDev(t) \/ RegisterDev(t)
  /\ UNCHANGED <<lifeVars, tableVars, passVars, threadVars, sockVars, module, lost, nevents>>

\* delete_vfd_net of each of D that has an entry.  It must not meet one that is not
\* registered yet: the thread that is about to would register what is freed.
Delete(D) ==
  /\ oops' = \E d \in D : netdevs[d] \in Senders
  /\ devs' = devs \ {d \in D : netdevs[d] = "shown"}
  /\ netdevs' = [d \in Devices |-> IF d \in D THEN None ELSE netdevs[d]]
  /\ astray' = astray \ D
  /\ UNCHANGED <<inside, twice>>

DelDev(d) == Delete({d}) /\ UNCHANGED sockVars

\* delete_all_vfd_devs
ResetDevs == Delete(Devices) /\ UNCHANGED sockVars

AskForListOnly == Ask(List) /\ UNCHANGED devVars  \* mutant: the old devices stay

\* update_vfd_net
UpdateDevs == Delete(Devices) /\ Ask(List)

\* The statistics of a device that is not there any more.
StatsForDev(d) ==
  /\ oops' = (netdevs[d] = None)
  /\ UNCHANGED <<sockVars, netdevs, devs, inside, astray, twice>>

\* device_message and vfd_stats_callback: what the module does with a message that gets
\* through.  The module may not be there to hear it.
Tell(Handle) ==
  /\ IF sock = "open" /\ module # "out"
       THEN Handle
       ELSE UNCHANGED <<sockVars, devVars>>
  /\ UNCHANGED module

\* vfd_nl_connect_init registers the callback, and then the devices are asked for.
Load ==
  /\ Event /\ module = "out" /\ module' = "loading"
  /\ UNCHANGED <<sockVars, devVars>>

Loaded ==
  /\ module = "loading" /\ module' = "in"
  /\ UpdateDevs
  /\ UNCHANGED nevents

\* vfd_cleanup deletes the devices, and then the callback.
Unload ==
  /\ Event /\ module = "in" /\ module' = "unloading"
  /\ ResetDevs

\* What is registered by then, or inside, runs code that is gone.
Unloaded ==
  /\ module = "unloading" /\ module' = "out"
  /\ oops' = (devs # {} \/ \E t \in Senders : ~Free(t))
  /\ UNCHANGED <<sockVars, netdevs, devs, inside, astray, twice, nevents>>

\* vfd_stats: somebody looks at the device.
ReadStats(d) ==
  /\ Event /\ module = "in" /\ d \in devs
  /\ Ask(Stats(d))
  /\ UNCHANGED <<module, devVars>>

Host ==
  /\ Load \/ Loaded \/ Unload \/ Unloaded \/ \E d \in Devices : ReadStats(d)
  /\ UNCHANGED <<lifeVars, tableVars, passVars, threadVars, lost>>

(***************************************************************************)
(* Update passes: vfd_update_nic, in main and in the threads that restore. *)
(***************************************************************************)

UpdaterTells(Handle) ==
  /\ Tell(Handle)
  /\ lost' = (lost \/ sock # "open")

Acquire(t) ==
  /\ t \in waiting /\ pass = NoPass
  /\ waiting' = waiting \ {t}
  /\ pass' = [NoPass EXCEPT !.by = t, !.todo = VfIds]
  /\ UNCHANGED <<tableVars, sockVars, module, devVars, lost>>

\* The pass looks at the mark of a slot, and tells the module before it changes anything else.
Skip(v) ==
  /\ pass.vf = None /\ v \in pass.todo /\ mark[v] = "unchanged"
  /\ pass' = [pass EXCEPT !.todo = @ \ {v}]
  /\ UNCHANGED <<tableVars, waiting, sockVars, module, devVars, lost>>

Visit(v) ==
  /\ pass.vf = None /\ v \in pass.todo /\ mark[v] # "unchanged"
  /\ pass' = [pass EXCEPT !.todo = @ \ {v}, !.vf = v, !.reason = mark[v], !.step = "unset"]
  /\ CASE mark[v] = "added"   -> UpdaterTells(AddDev(pass.by, v))
       [] mark[v] = "deleted" -> UpdaterTells(DelDev(v))
       [] OTHER               -> UNCHANGED <<sockVars, module, devVars, lost>>
  /\ UNCHANGED <<tableVars, waiting>>

\* The mark is read again, and the VF is taken out of the table.  Its device goes astray
\* when a mark that was stored meanwhile makes this differ from what the module was told.
UnsetNum(v) ==
  /\ pass.vf = v /\ pass.step = "unset"
  /\ pass' = [pass EXCEPT !.step = "clear"]
  /\ table' = IF mark[v] = "deleted" THEN table \ {v} ELSE table
  /\ astray' = IF (mark[v] = "deleted") # (pass.reason = "deleted") THEN astray \cup {v} ELSE astray
  /\ UNCHANGED <<mark, waiting, sockVars, module, netdevs, devs, inside, oops, twice, lost>>

\* last_updated = UNCHANGED, whatever it is now.
ClearMark(v) ==
  /\ pass.vf = v /\ pass.step = "clear"
  /\ mark' = [mark EXCEPT ![v] = "unchanged"]
  /\ pass' = [pass EXCEPT !.vf = None, !.reason = "unchanged", !.step = "find"]
  /\ UNCHANGED <<table, waiting, sockVars, module, devVars, lost>>

Release ==
  /\ pass.by # None /\ pass.vf = None /\ pass.todo = {}
  /\ pass' = NoPass
  /\ UNCHANGED <<tableVars, waiting, sockVars, module, devVars, lost>>

Updating(t) ==
  /\ Free(t)
  /\ \/ Acquire(t)
     \/ pass.by = t /\ (Release \/ \E v \in VfIds : Skip(v) \/ Visit(v) \/ UnsetNum(v) \/ ClearMark(v))
  /\ UNCHANGED <<lifeVars, threadVars, nevents>>

Idle(t) == t \notin waiting /\ pass.by # t /\ Free(t)

\* restore_vf_setings marks a VF without the lock.  If the mark was that of an addition the
\* module has not been told of, it never will be.
Restore(t, v) ==
  /\ Event /\ vfd \in {"booting", "running", "ending"} /\ Idle(t) /\ v \in table
  /\ mark' = [mark EXCEPT ![v] = "reset"]
  /\ waiting' = waiting \cup {t}
  /\ astray' = IF mark[v] = "added" /\ pass.vf # v THEN astray \cup {v} ELSE astray
  /\ UNCHANGED <<lifeVars, table, pass, threadVars, sockVars, module, netdevs, devs, inside,
                 oops, twice, lost>>

(***************************************************************************)
(* VFd's main thread.                                                      *)
(***************************************************************************)

\* The netlink thread is created before the ports are started.
Start ==
  /\ Event /\ StartUp
  /\ pcN' = "opening"
  /\ lost' = FALSE
  /\ UNCHANGED <<tableVars, passVars, left, at, sockVars, module, devVars>>

Bring ==
  /\ StartPort
  /\ UNCHANGED <<tableVars, passVars, threadVars, sockVars, module, devVars, lost, nevents>>

\* vfd_add_all_vfs finds files for these VFs.
Handlers(found) ==
  /\ Cardinality(found) <= MaxFound
  /\ SetSignals
  /\ table' = found /\ mark' = [v \in VfIds |-> IF v \in found THEN "added" ELSE "unchanged"]
  /\ waiting' = waiting \cup {"main"}
  /\ UNCHANGED <<pass, threadVars, sockVars, module, devVars, lost, nevents>>

Initialised ==
  /\ Idle("main") /\ EnterLoop
  /\ UpdaterTells(UpdateDevs)
  /\ UNCHANGED <<tableVars, passVars, threadVars, nevents>>

\* vfd_add_vf fills the slot with the lock held.
AddVf(v) ==
  /\ Event /\ vfd = "running" /\ Idle("main") /\ v \notin table /\ pass = NoPass
  /\ table' = table \cup {v} /\ mark' = [mark EXCEPT ![v] = "added"]
  /\ waiting' = waiting \cup {"main"}
  /\ UNCHANGED <<lifeVars, pass, threadVars, sockVars, module, devVars, lost>>

\* vfd_del_vf marks it without.
DelVf(v) ==
  /\ Event /\ vfd = "running" /\ Idle("main") /\ v \in table
  /\ mark' = [mark EXCEPT ![v] = "deleted"]
  /\ waiting' = waiting \cup {"main"}
  /\ UNCHANGED <<lifeVars, table, pass, threadVars, sockVars, module, devVars, lost>>

\* The main loop ends between requests; the other threads go on.
Terminate ==
  /\ Idle("main") /\ LeaveLoop
  /\ UpdaterTells(ResetDevs)
  /\ UNCHANGED <<tableVars, passVars, threadVars, nevents>>

CloseUp ==
  /\ Idle("main") /\ ClosePort("main")
  /\ UNCHANGED <<tableVars, passVars, threadVars, sockVars, module, devVars, lost, nevents>>

\* The process is over when its threads have left the kernel, and its socket with it.
Gone ==
  /\ \A t \in Senders : Free(t)
  /\ table' = {} /\ mark' = [v \in VfIds |-> "unchanged"]
  /\ waiting' = {} /\ pass' = NoPass
  /\ sock' = "none" /\ queue' = <<>> /\ overrun' = FALSE
  /\ pcN' = "none" /\ left' = {} /\ at' = None
  /\ UNCHANGED <<module, devVars, lost, nevents>>

Exit == Return /\ Gone
Dies == (PortFails \/ SignalEarly \/ Kill) /\ Gone
Told ==
  /\ Signal
  /\ UNCHANGED <<tableVars, passVars, threadVars, sockVars, module, devVars, lost, nevents>>

(***************************************************************************)
(* VFd's netlink thread.                                                   *)
(***************************************************************************)

threadKeeps == <<lifeVars, tableVars, passVars, module, lost, nevents>>

\* The thread ends if it gets no socket or cannot bind it.
OpenSocket ==
  /\ pcN = "opening"
  /\ \/ sock' = "open" /\ pcN' = "recv"
     \/ sock' = "closed" /\ pcN' = "none"
  /\ UNCHANGED <<threadKeeps, left, at, queue, overrun, devVars>>

\* recv fails once after messages were lost; the thread closes the socket and ends.
RecvFails ==
  /\ pcN = "recv" /\ overrun
  /\ sock' = "closed" /\ queue' = <<>> /\ overrun' = FALSE
  /\ pcN' = "none"
  /\ UNCHANGED <<threadKeeps, left, at, devVars>>

Receive ==
  /\ pcN = "recv" /\ ~overrun /\ queue # <<>>
  /\ queue' = Tail(queue)
  /\ at' = Head(queue).dev
  /\ pcN' = IF Head(queue).req = "list" THEN "pf" ELSE "stats"
  /\ UNCHANGED <<threadKeeps, left, sock, overrun, devVars>>

\* suss_vf has a vf_s for the answer; the PF needs none.
AnswerStats ==
  /\ pcN = "stats" /\ at \in table \cup {Pf}
  /\ pcN' = "recv" /\ at' = None
  /\ Tell(StatsForDev(at))
  /\ UNCHANGED <<lifeVars, tableVars, passVars, left, lost, nevents>>

\* vfp->macs of a null pointer: SIGSEGV, with or without a handler.
NullVf == pcN = "stats" /\ at \notin table \cup {Pf}

AnswerKills == NullVf /\ SignalEarly /\ Gone

AnswerFaults ==
  /\ NullVf /\ Fault
  /\ pcN' = "handler"
  /\ UNCHANGED <<tableVars, passVars, left, at, sockVars, module, devVars, lost, nevents>>

\* The handler returns at once, to the instruction that faults.
AnswerSpins ==
  /\ NullVf /\ terminated
  /\ pcN' = "spin"
  /\ UNCHANGED <<threadKeeps, left, at, sockVars, devVars>>

HandlerCloses ==
  /\ pcN = "handler" /\ ClosePort("handler")
  /\ UNCHANGED <<tableVars, passVars, threadVars, sockVars, module, devVars, lost, nevents>>

HandlerAborts == pcN = "handler" /\ Abort /\ Gone

\* get_all_devices
ListPf ==
  /\ pcN = "pf"
  /\ pcN' = "list" /\ left' = VfIds
  /\ Tell(AddDev("nl", Pf))
  /\ UNCHANGED <<lifeVars, tableVars, passVars, at, lost, nevents>>

\* vfs[y].num is read, without a lock, before the message is sent.
ListVf(v) ==
  /\ pcN = "list" /\ v \in left
  /\ left' = left \ {v}
  /\ IF v \in table THEN at' = v /\ pcN' = "add" ELSE UNCHANGED <<at, pcN>>
  /\ UNCHANGED <<threadKeeps, sockVars, devVars>>

ListAdd ==
  /\ pcN = "add"
  /\ pcN' = "list" /\ at' = None
  /\ Tell(AddDev("nl", at))
  /\ UNCHANGED <<lifeVars, tableVars, passVars, left, lost, nevents>>

ListDone ==
  /\ pcN = "list" /\ left = {}
  /\ pcN' = "recv"
  /\ UNCHANGED <<threadKeeps, left, at, sockVars, devVars>>

Main ==
  \/ Bring \/ \E found \in SUBSET VfIds : Handlers(found)
  \/ Initialised \/ Updating("main") \/ Inside("main")
  \/ Terminate \/ CloseUp \/ Exit

NlThread ==
  \/ Inside("nl")
  \/ /\ Free("nl")
     /\ \/ OpenSocket \/ RecvFails \/ Receive
        \/ AnswerStats \/ AnswerKills \/ AnswerFaults \/ AnswerSpins
        \/ HandlerCloses \/ HandlerAborts
        \/ ListPf \/ \E v \in VfIds : ListVf(v)
        \/ ListAdd \/ ListDone

Restorer(t) == Updating(t) \/ Inside(t)

Requests ==
  \/ Start \/ Told \/ Dies
  \/ \E v \in VfIds : AddVf(v) \/ DelVf(v) \/ \E t \in Restorers : Restore(t, v)

NlNext == ~oops /\ (Main \/ NlThread \/ (\E t \in Restorers : Restorer(t)) \/ Requests \/ Host)
NlSpec == NlInit /\ [][NlNext]_nlVars

\* All threads of VFd run.
NlFairSpec ==
  /\ NlSpec /\ WF_nlVars(~oops /\ Main) /\ WF_nlVars(~oops /\ NlThread)
  /\ \A t \in Restorers : WF_nlVars(~oops /\ Restorer(t))

(***************************************************************************)
(* Properties.                                                             *)
(***************************************************************************)

Quiet ==
  /\ waiting = {} /\ pass = NoPass /\ \A t \in Senders : Free(t)
  /\ queue = <<>> /\ ~overrun /\ pcN = "recv"

\* What nobody can be held to: a device the module was told about too late, or was never
\* told about because a restore stored its mark over that of the request, until the module
\* is told again; and one that two threads added at once.
Excepted == astray \cup twice

\* With nothing under way, the module has a device for the PF and for each VF that VFd
\* manages, and no other; after an orderly end it has none.
DevicesFollowTable ==
  module = "in" /\ ~lost /\ ~oops =>
    /\ vfd = "running" /\ Quiet => devs \ Excepted = (table \cup {Pf}) \ Excepted
    /\ vfd = "ended" => devs \subseteq Excepted

\* Whatever was loaded or started first, each VF that is managed gets its device, unless it
\* is excepted.
DevicesAppear ==
  \A v \in VfIds :
    []<>(vfd = "running" /\ module = "in" /\ sock = "open" /\ ~lost /\ v \in table
           => v \in devs \cup Excepted \/ oops)

\* A process that was told to end, or that faults, does end, and with its ports closed
\* unless it was killed or took the kernel down, whatever the netlink thread is doing.
ShutsDown == terminated ~> (Over /\ (up = {} \/ killed)) \/ oops
=============================================================================
