---------------------------- MODULE NetlinkProofs ---------------------------
(***************************************************************************)
(* The devices of the kernel module follow VFd's table, for any number of  *)
(* ports, VFs, threads that restore, starts, requests and messages and any *)
(* size of the socket, but for the devices that the property excepts.      *)
(***************************************************************************)
EXTENDS Netlink, TLAPS

(***************************************************************************)
(* The inductive invariant, while the kernel is intact.                    *)
(***************************************************************************)

Messages == [req : {"list", "stats"}, dev : Devices \cup {None}]
Marks    == {"unchanged", "added", "deleted", "reset"}
Places   == [step : {"out", "store", "register"}, dev : Devices \cup {None}]
Passes   == [by : Updaters \cup {None}, todo : SUBSET VfIds, vf : VfIds \cup {None},
             reason : Marks, step : {"find", "unset", "clear"}]

NlTypes ==
  /\ table \subseteq VfIds /\ left \subseteq VfIds
  /\ mark \in [VfIds -> Marks] /\ waiting \subseteq Updaters /\ pass \in Passes
  /\ queue \in Seq(Messages)
  /\ at \in Devices \cup {None} /\ (pcN = "add" => at \in VfIds)
  /\ devs \subseteq Devices
  /\ netdevs \in [Devices -> Senders \cup {None, "shown"}]
  /\ inside \in [Senders -> Places]
  /\ \A t \in Senders : inside[t].step = "out" <=> inside[t].dev = None

\* The socket is open while the netlink thread runs, and nothing of a process outlives it;
\* a module that is not loaded has no devices, and nobody inside.
NlPlaces ==
  /\ sock = "open" <=> pcN \notin {"none", "opening"}
  /\ Over => pcN = "none" /\ waiting = {} /\ pass = NoPass /\ \A t \in Senders : Free(t)
  /\ vfd = "running" /\ ~lost => pcN # "opening"
  /\ module = "out" => devs = {} /\ \A t \in Senders : Free(t)

\* A device that no two threads have added at once has an entry when it is registered, and
\* the one thread that is adding it holds the entry from when it has stored it.
Entry(d) ==
  /\ d \in devs <=> netdevs[d] = "shown"
  /\ \A t \in Senders :
       /\ netdevs[d] = t <=> inside[t].dev = d /\ inside[t].step = "register"
       /\ inside[t].dev = d /\ inside[t].step = "store" => netdevs[d] = None
       /\ \A u \in Senders : inside[t].dev = d /\ inside[u].dev = d => t = u

Entries == \A d \in Devices \ twice : Entry(d)

\* An addition that no pass has come to is one that main has a pass to make for.
AddedPending ==
  \A v \in VfIds : mark[v] = "added" /\ pass.vf # v =>
    "main" \in waiting \/ (pass.by = "main" /\ v \in pass.todo)

\* A device that nothing excepts is that of a VF which no pass has taken back.
NoneLeft ==
  ~lost =>
    /\ vfd = "running" =>
         \A d \in devs \ Excepted : d \in table \cup {Pf} /\ ~(pass.vf = d /\ pass.reason = "deleted")
    /\ vfd \in {"ending", "ended"} => devs \subseteq Excepted

\* The module has asked for all devices, and the netlink thread has not begun to answer,
\* or is going through the slots and has not passed that of d.
Asked == pcN = "pf" \/ \E i \in 1 .. Len(queue) : queue[i] = List

Listed(d) ==
  \/ Asked
  \/ pcN \in {"list", "add"} /\ d \in left
  \/ pcN = "add" /\ at = d

Entering(d) == \E t \in Senders : inside[t].dev = d

\* A pass is about to announce d, or has taken it back.
Pending(d) == d \in VfIds /\ mark[d] = "added" /\ pass.vf # d
Leaving(d) == pass.vf = d /\ pass.reason = "deleted" /\ pass.step = "unset"

\* Or there is nobody left who would.
Otherwise(d) == Listed(d) \/ Pending(d) \/ Leaving(d) \/ overrun \/ sock # "open"
OnItsWay(d)  == Entering(d) \/ Otherwise(d)

NoneForgotten ==
  vfd = "running" /\ module = "in" /\ ~lost =>
    \A d \in (table \cup {Pf}) \ Excepted : d \in devs \/ OnItsWay(d)

NlInv == NlTypes /\ NlPlaces /\ Entries /\ AddedPending /\ NoneLeft /\ NoneForgotten

(***************************************************************************)
(* Messages to VFd.                                                        *)
(***************************************************************************)

LEMMA MessagesKnown ==
  /\ List \in Messages /\ \A d \in Devices : Stats(d) \in Messages /\ Stats(d) # List
  /\ List.req = "list" /\ \A m \in Messages : m.req = "list" <=> m.req # "stats"
BY DEF List, Stats, Messages

InQueue == \E i \in 1 .. Len(queue) : queue[i] = List

\* A message that the module sends takes none out of the socket; one that finds the socket
\* full is noticed.
LEMMA AskKeeps ==
  ASSUME queue \in Seq(Messages), NEW m \in Messages, Ask(m)
  PROVE  /\ queue' \in Seq(Messages) /\ UNCHANGED sock
         /\ overrun => overrun'
         /\ InQueue => InQueue'
         /\ m = List /\ sock = "open" => InQueue' \/ overrun'
<1>1. CASE sock = "open" /\ Len(queue) < QueueMax
  <2>1. queue' = Append(queue, m) /\ UNCHANGED <<sock, overrun>>
    BY <1>1 DEF Ask
  <2>2. /\ queue' \in Seq(Messages) /\ Len(queue') = Len(queue) + 1
        /\ queue'[Len(queue) + 1] = m /\ \A i \in 1 .. Len(queue) : queue'[i] = queue[i]
    BY <2>1
  <2>3. Len(queue) \in Nat
    OBVIOUS
  <2>4. InQueue => InQueue'
    BY <2>2, <2>3 DEF InQueue
  <2>5. m = List => InQueue'
    BY <2>2, <2>3 DEF InQueue
  <2>6. QED
    BY <2>1, <2>2, <2>4, <2>5
<1>2. CASE ~(sock = "open" /\ Len(queue) < QueueMax)
  BY <1>2 DEF Ask, InQueue
<1>3. QED
  BY <1>1, <1>2

\* What is received is the first message, and the others stay.
LEMMA ReceiveKeeps ==
  ASSUME queue \in Seq(Messages), Receive
  PROVE  /\ queue' \in Seq(Messages)
         /\ at' \in Devices \cup {None}
         /\ pcN' \in {"pf", "stats"}
         /\ InQueue => InQueue' \/ pcN' = "pf"
<1>1. queue # <<>> /\ queue' = Tail(queue) /\ at' = Head(queue).dev
      /\ pcN' = IF Head(queue).req = "list" THEN "pf" ELSE "stats"
  BY DEF Receive
<1>2. /\ Len(queue) \in Nat \ {0} /\ Head(queue) = queue[1] /\ Head(queue) \in Messages
      /\ queue' \in Seq(Messages) /\ Len(queue') = Len(queue) - 1
      /\ \A i \in 1 .. Len(queue) - 1 : queue'[i] = queue[i + 1]
  BY <1>1
<1>3. at' \in Devices \cup {None}
  BY <1>1, <1>2 DEF Messages
<1>4. ASSUME NEW i \in 1 .. Len(queue), queue[i] = List
      PROVE  InQueue' \/ pcN' = "pf"
  <2>1. CASE i = 1
    BY <1>1, <1>2, <1>4, <2>1, MessagesKnown
  <2>2. CASE i # 1
    <3>1. i - 1 \in 1 .. Len(queue') /\ queue'[i - 1] = List
      BY <1>2, <1>4, <2>2
    <3>2. QED
      BY <3>1 DEF InQueue
  <2>3. QED
    BY <2>1, <2>2
<1>5. QED
  BY <1>1, <1>2, <1>3, <1>4 DEF InQueue

(***************************************************************************)
(* What the module does: a thread comes in, goes on, and devices go.       *)
(***************************************************************************)

Intact == NlAssumption /\ NlTypes /\ NlPlaces /\ Entries

devState == <<netdevs, devs, inside, astray, twice>>

\* What a step does to the devices: it keeps what is said of the entries, none is put where
\* it should not be, and none is lost but those of D.
KeepsDevices(D) ==
  /\ devs' \subseteq Devices
  /\ netdevs' \in [Devices -> Senders \cup {None, "shown"}]
  /\ inside' \in [Senders -> Places]
  /\ \A t \in Senders : inside'[t].step = "out" <=> inside'[t].dev = None
  /\ Entries'
  /\ \A d \in devs' \ Excepted' : d \in devs \ Excepted \/ ~Removed(d)
  /\ \A d \in Devices \ Excepted' :
       d \notin D /\ (d \in devs \ Excepted \/ Entering(d)) => d \in devs' \/ Entering(d)'
  /\ \A d \in Devices \ D : d \in Excepted /\ d \notin Excepted' => d \in devs'

LEMMA NothingHappens ==
  ASSUME Intact, UNCHANGED devState
  PROVE  KeepsDevices({})
<1>1. Entries'
  BY DEF Intact, devState, Entries, Entry
<1>2. \A d : Entering(d)' <=> Entering(d)
  BY DEF devState, Entering
<1>3. Excepted' = Excepted
  BY DEF devState, Excepted
<1>4. QED
  BY <1>1, <1>2, <1>3 DEF Intact, NlTypes, devState, KeepsDevices

\* The device that is announced is there, or on its way.
LEMMA AddKeepsDevices ==
  ASSUME Intact, NEW t \in Senders, Free(t), NEW d \in Devices, AddDev(t, d)
  PROVE  /\ KeepsDevices({})
         /\ d \in devs' \cup Excepted' \/ Entering(d)'
<1>1. /\ inside' = [inside EXCEPT ![t] = IF netdevs[d] = None THEN [step |-> "store", dev |-> d] ELSE Out]
      /\ twice' = twice \cup {e \in {d} : \E u \in Senders \ {t} : inside[u].dev = e}
      /\ astray' = IF netdevs[d] # "shown" THEN astray
                   ELSE IF Removed(d) THEN astray \cup {d} ELSE astray \ {d}
      /\ netdevs' = netdevs /\ devs' = devs
  BY DEF AddDev
<1>2. inside[t] = Out /\ inside[t].dev = None /\ None \notin Devices
  BY DEF Free, Out, Intact, NlAssumption, Devices
<1>3. /\ inside' \in [Senders -> Places]
      /\ \A u \in Senders : inside'[u].step = "out" <=> inside'[u].dev = None
  <2>1. [step |-> "store", dev |-> d] \in Places /\ Out \in Places
    BY DEF Places, Out
  <2>2. inside' \in [Senders -> Places]
    BY <1>1, <2>1 DEF Intact, NlTypes
  <2>3. \A u \in Senders : u # t => inside'[u] = inside[u]
    BY <1>1 DEF Intact, NlTypes
  <2>4. inside'[t].step = "out" <=> inside'[t].dev = None
    BY <1>1, <1>2 DEF Intact, NlTypes, Out
  <2>5. QED
    BY <2>2, <2>3, <2>4 DEF Intact, NlTypes
<1>4. /\ \A u \in Senders : u # t => inside'[u] = inside[u]
      /\ inside'[t] = IF netdevs[d] = None THEN [step |-> "store", dev |-> d] ELSE Out
  BY <1>1 DEF Intact, NlTypes
<1>5. \A e \in Devices : Entering(e) => Entering(e)'
  BY <1>2, <1>4 DEF Entering
<1>6. Entries'
  <2>1. ASSUME NEW e \in Devices \ twice', e # d
        PROVE  Entry(e)'
    <3>1. Entry(e) /\ e \in Devices \ twice
      BY <1>1, <2>1 DEF Intact, Entries
    <3>2. \A u \in Senders : inside'[u].dev = e => inside'[u] = inside[u]
      BY <1>2, <1>4, <2>1 DEF Out
    <3>3. \A u \in Senders : inside[u].dev = e => inside'[u] = inside[u]
      BY <1>2, <1>4, <2>1
    <3>4. QED
      BY <1>1, <3>1, <3>2, <3>3 DEF Entry
  <2>2. ASSUME d \in Devices \ twice'
        PROVE  Entry(d)'
    <3>1. Entry(d) /\ \A u \in Senders \ {t} : inside[u].dev # d
      BY <1>1, <2>2 DEF Intact, Entries
    <3>2. \A u \in Senders : inside'[u].dev = d => u = t /\ netdevs[d] = None
      BY <1>2, <1>4, <3>1 DEF Out
    <3>3. \A u \in Senders : netdevs[d] # u
      BY <1>2, <3>1 DEF Entry
    <3>4. inside'[t].step # "register"
      BY <1>4 DEF Out
    <3>5. QED
      BY <1>1, <3>1, <3>2, <3>3, <3>4 DEF Entry
  <2>3. QED
    BY <2>1, <2>2 DEF Entries
<1>7. d \in devs' \cup Excepted' \/ Entering(d)'
  <2>1. CASE d \in twice'
    BY <2>1 DEF Excepted
  <2>2. CASE d \notin twice' /\ netdevs[d] = None
    BY <1>4, <2>2 DEF Entering
  <2>3. CASE d \notin twice' /\ netdevs[d] # None
    <3>1. Entry(d)
      BY <1>1, <2>3 DEF Intact, Entries
    <3>2. netdevs[d] \in Senders \/ netdevs[d] = "shown"
      BY <2>3 DEF Intact, NlTypes
    <3>3. CASE netdevs[d] = "shown"
      BY <1>1, <3>1, <3>3 DEF Entry
    <3>4. CASE netdevs[d] \in Senders
      <4>1. Entering(d)
        BY <3>1, <3>4 DEF Entry, Entering
      <4>2. QED
        BY <1>5, <4>1
    <3>5. QED
      BY <3>2, <3>3, <3>4
  <2>4. QED
    BY <2>1, <2>2, <2>3
<1>8. \A e \in devs' \ Excepted' : e \in devs \ Excepted \/ ~Removed(e)
  BY <1>1 DEF Excepted
<1>9. \A e \in Devices : e \in Excepted /\ e \notin Excepted' => e \in devs'
  <2>1. ASSUME NEW e \in Devices, e \in Excepted, e \notin Excepted'
        PROVE  e \in devs'
    <3>1. e = d /\ netdevs[d] = "shown" /\ d \notin twice
      BY <1>1, <2>1 DEF Excepted
    <3>2. Entry(d)
      BY <3>1 DEF Intact, Entries
    <3>3. QED
      BY <1>1, <3>1, <3>2 DEF Entry
  <2>2. QED
    BY <2>1
<1>10. devs' \subseteq Devices /\ netdevs' \in [Devices -> Senders \cup {None, "shown"}]
  BY <1>1 DEF Intact, NlTypes
<1>11. QED
  BY <1>1, <1>3, <1>5, <1>6, <1>7, <1>8, <1>9, <1>10 DEF KeepsDevices

LEMMA InsideKeepsDevices ==
  ASSUME Intact, NEW t \in Senders, StoreDev(t) \/ RegisterDev(t)
  PROVE  KeepsDevices({})
<1>1. PICK d \in Devices : inside[t].dev = d
  <2>1. inside[t].step # "out" /\ inside[t] \in Places
    BY DEF StoreDev, RegisterDev, Intact, NlTypes
  <2>2. QED
    BY <2>1 DEF Intact, NlTypes, Places
<1>2. None \notin Devices /\ t # None /\ t # "shown" /\ None # "shown"
  BY DEF Intact, NlAssumption, Devices, Senders, Updaters
<1>3. CASE StoreDev(t)
  <2>1. /\ inside[t].step = "store" /\ netdevs' = [netdevs EXCEPT ![d] = t]
        /\ inside' = [inside EXCEPT ![t].step = "register"]
        /\ devs' = devs /\ astray' = astray /\ twice' = twice
    BY <1>1, <1>3 DEF StoreDev
  <2>2. netdevs' \in [Devices -> Senders \cup {None, "shown"}] /\ inside' \in [Senders -> Places]
    <3>1. [inside[t] EXCEPT !.step = "register"] \in Places
      BY DEF Intact, NlTypes, Places
    <3>2. QED
      BY <2>1, <3>1 DEF Intact, NlTypes
  <2>3. /\ \A u \in Senders : u # t => inside'[u] = inside[u]
        /\ inside'[t].dev = d /\ inside'[t].step = "register"
        /\ \A e \in Devices : e # d => netdevs'[e] = netdevs[e]
        /\ netdevs'[d] = t
    BY <1>1, <2>1 DEF Intact, NlTypes, Places
  <2>4. \A u \in Senders : inside'[u].step = "out" <=> inside'[u].dev = None
    BY <1>2, <2>3 DEF Intact, NlTypes
  <2>5. \A e : Entering(e) => Entering(e)'
    BY <1>1, <2>3 DEF Entering
  <2>6. Entries'
    <3>1. ASSUME NEW e \in Devices \ twice', e # d
          PROVE  Entry(e)'
      <4>1. Entry(e)
        BY <2>1, <3>1 DEF Intact, Entries
      <4>2. \A u \in Senders : inside[u].dev = e \/ inside'[u].dev = e => inside'[u] = inside[u]
        BY <1>1, <2>3, <3>1
      <4>3. QED
        BY <2>1, <2>3, <3>1, <4>1, <4>2 DEF Entry
    <3>2. ASSUME d \in Devices \ twice'
          PROVE  Entry(d)'
      <4>1. Entry(d) /\ netdevs[d] = None
        BY <1>1, <2>1, <3>2 DEF Intact, Entries, Entry
      <4>2. \A u \in Senders : inside'[u].dev = d => u = t
        BY <1>1, <2>3, <4>1 DEF Entry
      <4>3. d \notin devs'
        BY <1>2, <2>1, <4>1 DEF Entry
      <4>4. QED
        BY <1>2, <2>3, <4>2, <4>3 DEF Entry
    <3>3. QED
      BY <3>1, <3>2 DEF Entries
  <2>7. QED
    BY <2>1, <2>2, <2>4, <2>5, <2>6 DEF KeepsDevices, Excepted, Intact, NlTypes
<1>4. CASE RegisterDev(t)
  <2>1. /\ inside[t].step = "register" /\ inside' = [inside EXCEPT ![t] = Out]
        /\ netdevs' = [netdevs EXCEPT ![d] = IF d \in devs THEN None
                                             ELSE IF @ = t THEN "shown" ELSE @]
        /\ devs' = devs \cup {d} /\ twice' = twice
        /\ astray' = IF d \in devs THEN astray
                     ELSE IF Removed(d) THEN astray \cup {d} ELSE astray \ {d}
    BY <1>1, <1>4 DEF RegisterDev
  <2>2. netdevs' \in [Devices -> Senders \cup {None, "shown"}] /\ inside' \in [Senders -> Places]
    <3>1. Out \in Places
      BY DEF Out, Places
    <3>2. QED
      BY <2>1, <3>1 DEF Intact, NlTypes
  <2>3. /\ \A u \in Senders : u # t => inside'[u] = inside[u]
        /\ inside'[t] = Out /\ Out.dev = None /\ Out.step = "out"
        /\ \A e \in Devices : e # d => netdevs'[e] = netdevs[e]
        /\ netdevs'[d] = IF d \in devs THEN None ELSE IF netdevs[d] = t THEN "shown" ELSE netdevs[d]
    BY <1>1, <2>1 DEF Intact, NlTypes, Out
  <2>4. \A u \in Senders : inside'[u].step = "out" <=> inside'[u].dev = None
    BY <2>3 DEF Intact, NlTypes
  <2>5. \A e \in Devices : Entering(e) => e \in devs' \/ Entering(e)'
    BY <1>1, <2>1, <2>3 DEF Entering
  <2>6. Entries'
    <3>1. ASSUME NEW e \in Devices \ twice', e # d
          PROVE  Entry(e)'
      <4>1. Entry(e)
        BY <2>1, <3>1 DEF Intact, Entries
      <4>2. \A u \in Senders : inside[u].dev = e \/ inside'[u].dev = e => inside'[u] = inside[u]
        BY <1>1, <1>2, <2>3, <3>1
      <4>3. e \in devs' <=> e \in devs
        BY <2>1, <3>1
      <4>4. QED
        BY <2>3, <3>1, <4>1, <4>2, <4>3 DEF Entry
    <3>2. ASSUME d \in Devices \ twice'
          PROVE  Entry(d)'
      <4>1. Entry(d) /\ netdevs[d] = t
        BY <1>1, <2>1, <3>2 DEF Intact, Entries, Entry
      <4>2. \A u \in Senders : inside'[u].dev # d
        BY <1>1, <1>2, <2>3, <4>1 DEF Entry
      <4>3. d \notin devs /\ netdevs'[d] = "shown"
        BY <1>2, <2>3, <4>1 DEF Entry
      <4>4. \A u \in Senders : u # "shown"
        BY DEF Intact, NlAssumption, Senders, Updaters
      <4>5. QED
        BY <2>1, <4>2, <4>3, <4>4 DEF Entry
    <3>3. QED
      BY <3>1, <3>2 DEF Entries
  <2>7. \A e \in devs' \ Excepted' : e \in devs \ Excepted \/ ~Removed(e)
    BY <2>1 DEF Excepted
  <2>8. \A e \in Devices : e \in Excepted /\ e \notin Excepted' => e \in devs'
    BY <2>1 DEF Excepted
  <2>9. devs' \subseteq Devices
    BY <2>1 DEF Intact, NlTypes
  <2>10. QED
    BY <2>1, <2>2, <2>4, <2>5, <2>6, <2>7, <2>8, <2>9 DEF KeepsDevices
<1>5. QED
  BY <1>3, <1>4

\* What is deleted is gone, but for a device that two threads have added.
LEMMA DeleteKeepsDevices ==
  ASSUME Intact, NEW D \in SUBSET Devices, Delete(D), ~oops'
  PROVE  /\ KeepsDevices(D)
         /\ \A d \in D : d \notin devs' \ Excepted'
         /\ devs' \ Excepted' \subseteq devs \ Excepted
<1>1. /\ \A d \in D : netdevs[d] \notin Senders
      /\ devs' = devs \ {d \in D : netdevs[d] = "shown"}
      /\ netdevs' = [d \in Devices |-> IF d \in D THEN None ELSE netdevs[d]]
      /\ astray' = astray \ D /\ inside' = inside /\ twice' = twice
  BY DEF Delete
<1>2. netdevs' \in [Devices -> Senders \cup {None, "shown"}]
  BY <1>1 DEF Intact, NlTypes
<1>3. \A d : Entering(d) => Entering(d)'
  BY <1>1 DEF Entering
<1>4. Entries'
  <2>1. ASSUME NEW d \in Devices \ twice', d \notin D
        PROVE  Entry(d)'
    <3>1. Entry(d) /\ netdevs'[d] = netdevs[d] /\ (d \in devs' <=> d \in devs)
      BY <1>1, <2>1 DEF Intact, Entries
    <3>2. QED
      BY <1>1, <3>1 DEF Entry
  <2>2. ASSUME NEW d \in Devices \ twice', d \in D
        PROVE  Entry(d)'
    <3>1. Entry(d) /\ netdevs'[d] = None /\ d \notin devs' /\ netdevs[d] \notin Senders
      BY <1>1, <2>2 DEF Intact, Entries, Entry
    <3>2. \A u \in Senders : u # None
      BY DEF Intact, NlAssumption
    <3>3. None # "shown"
      BY DEF Intact, NlAssumption
    <3>4. QED
      BY <1>1, <3>1, <3>2, <3>3 DEF Entry
  <2>3. QED
    BY <2>1, <2>2 DEF Entries
<1>5. \A d \in D : d \notin devs' \ Excepted'
  BY <1>1 DEF Intact, Entries, Entry, Excepted
<1>6. \A d \in devs' \ Excepted' : d \in devs \ Excepted
  BY <1>1, <1>5 DEF Excepted
<1>7. \A d \in Devices \ D : (d \in devs <=> d \in devs') /\ (d \in Excepted <=> d \in Excepted')
  BY <1>1 DEF Excepted
<1>8. devs' \subseteq Devices
  BY <1>1 DEF Intact, NlTypes
<1>9. QED
  BY <1>1, <1>2, <1>3, <1>4, <1>5, <1>6, <1>7, <1>8 DEF KeepsDevices, Intact, NlTypes

LEMMA FewerExcused ==
  ASSUME NEW D, KeepsDevices({})
  PROVE  KeepsDevices(D)
BY DEF KeepsDevices

\* The module heard of d, if there was anyone to hear.
LEMMA TellsAdd ==
  ASSUME Intact, NEW t \in Senders, Free(t), NEW d \in Devices, Tell(AddDev(t, d))
  PROVE  /\ KeepsDevices({}) /\ UNCHANGED <<sock, queue, overrun, module>>
         /\ sock = "open" /\ module # "out" => d \in devs' \cup Excepted' \/ Entering(d)'
         /\ module = "out" => UNCHANGED devState
<1>1. CASE sock = "open" /\ module # "out"
  <2>1. AddDev(t, d) /\ UNCHANGED module
    BY <1>1 DEF Tell
  <2>2. UNCHANGED <<sock, queue, overrun>>
    BY <2>1 DEF AddDev, sockVars
  <2>3. QED
    BY <1>1, <2>1, <2>2, AddKeepsDevices
<1>2. CASE ~(sock = "open" /\ module # "out")
  <2>1. UNCHANGED <<sock, queue, overrun, module>> /\ UNCHANGED devState
    BY <1>2 DEF Tell, sockVars, devVars, devState
  <2>2. QED
    BY <1>2, <2>1, NothingHappens
<1>3. QED
  BY <1>1, <1>2

LEMMA TellsDel ==
  ASSUME Intact, NEW d \in Devices, Tell(DelDev(d)), ~oops'
  PROVE  /\ KeepsDevices({d}) /\ UNCHANGED <<sock, queue, overrun, module>>
         /\ devs' \ Excepted' \subseteq devs \ Excepted
         /\ sock = "open" /\ module # "out" => d \notin devs' \ Excepted'
         /\ module = "out" => UNCHANGED devState
<1>1. CASE sock = "open" /\ module # "out"
  <2>1. Delete({d}) /\ UNCHANGED <<sock, queue, overrun, module>> /\ {d} \in SUBSET Devices
    BY <1>1 DEF Tell, DelDev, sockVars
  <2>2. QED
    BY <1>1, <2>1, DeleteKeepsDevices
<1>2. CASE ~(sock = "open" /\ module # "out")
  <2>1. UNCHANGED <<sock, queue, overrun, module>> /\ UNCHANGED devState
    BY <1>2 DEF Tell, sockVars, devVars, devState
  <2>2. QED
    BY <1>2, <2>1, NothingHappens, FewerExcused DEF devState, Excepted
<1>3. QED
  BY <1>1, <1>2

\* All devices are deleted, and asked for if the message was to update.
LEMMA TellsAll ==
  ASSUME Intact, Tell(UpdateDevs) \/ Tell(ResetDevs), ~oops'
  PROVE  /\ KeepsDevices(Devices) /\ UNCHANGED <<sock, module>> /\ queue' \in Seq(Messages)
         /\ sock = "open" /\ module # "out" => devs' \subseteq Excepted'
         /\ module = "out" => UNCHANGED devState
         /\ Tell(UpdateDevs) /\ sock = "open" /\ module # "out" => InQueue' \/ overrun'
<1>1. CASE sock = "open" /\ module # "out"
  <2>1. Delete(Devices) /\ UNCHANGED module
    BY <1>1 DEF Tell, UpdateDevs, ResetDevs
  <2>2. CASE Ask(List)
    BY <1>1, <2>1, <2>2, DeleteKeepsDevices, AskKeeps, MessagesKnown DEF Intact, NlTypes, KeepsDevices
  <2>3. CASE UNCHANGED sockVars /\ ~Tell(UpdateDevs)
    BY <1>1, <2>1, <2>3, DeleteKeepsDevices DEF Intact, NlTypes, sockVars, KeepsDevices
  <2>4. Ask(List) \/ (UNCHANGED sockVars /\ ~Tell(UpdateDevs))
    BY <1>1 DEF Tell, UpdateDevs, ResetDevs
  <2>5. QED
    BY <2>2, <2>3, <2>4
<1>2. CASE ~(sock = "open" /\ module # "out")
  <2>1. UNCHANGED <<sock, queue, overrun, module>> /\ UNCHANGED devState
    BY <1>2 DEF Tell, sockVars, devVars, devState
  <2>2. QED
    BY <1>2, <2>1, NothingHappens, FewerExcused DEF Intact, NlTypes
<1>3. QED
  BY <1>1, <1>2

(***************************************************************************)
(* Steps that do not start or end the process.                             *)
(***************************************************************************)

\* No device is left behind: one that no pass had taken back still is not.
StaysWanted ==
  vfd = "running" /\ ~lost' => \A d \in devs' \ Excepted' :
    d \in table \cup {Pf} /\ ~(pass.vf = d /\ pass.reason = "deleted")
      => d \in table' \cup {Pf} /\ ~(pass'.vf = d /\ pass'.reason = "deleted")

\* None is forgotten: one that is new in the table or is deleted, or that was on its way,
\* is there or on its way.
StaysOnItsWay(D) ==
  vfd = "running" /\ module' = "in" /\ ~lost' =>
    /\ module = "in" \/ D = Devices
    /\ \A d \in table' \cup {Pf} :
         d \notin table \cup {Pf} \/ d \in D \/ Otherwise(d)
           => d \in devs' \cup Excepted' \/ OnItsWay(d)'

LEMMA Moves ==
  ASSUME NlAssumption, NlInv, NEW D, KeepsDevices(D),
         Over => devs' \ Excepted' \subseteq devs \ Excepted,
         vfd' = vfd, lost => lost', NlTypes', NlPlaces', AddedPending',
         StaysWanted, StaysOnItsWay(D)
  PROVE  NlInv'
<1>1. NoneLeft'
  <2>1. ASSUME ~lost', vfd' = "running", NEW d \in devs' \ Excepted'
        PROVE  d \in table' \cup {Pf} /\ ~(pass'.vf = d /\ pass'.reason = "deleted")
    <3>1. d \in devs \ Excepted \/ ~Removed(d)
      BY <2>1 DEF KeepsDevices
    <3>2. d \in Devices
      BY <2>1 DEF NlTypes
    <3>3. d \in table \cup {Pf} /\ ~(pass.vf = d /\ pass.reason = "deleted")
      BY <2>1, <3>1, <3>2 DEF NlInv, NoneLeft, Removed, Devices
    <3>4. QED
      BY <2>1, <3>3 DEF StaysWanted
  <2>2. ASSUME ~lost', vfd' \in {"ending", "ended"}
        PROVE  devs' \subseteq Excepted'
    <3>1. devs \subseteq Excepted
      BY <2>2 DEF NlInv, NoneLeft
    <3>2. CASE vfd = "ending"
      BY <3>1, <3>2 DEF KeepsDevices, Removed
    <3>3. CASE vfd = "ended"
      BY <3>1, <3>3 DEF Over
    <3>4. QED
      BY <2>2, <3>2, <3>3
  <2>3. QED
    BY <2>1, <2>2 DEF NoneLeft
<1>2. NoneForgotten'
  <2>1. ASSUME vfd' = "running", module' = "in", ~lost', NEW d \in (table' \cup {Pf}) \ Excepted'
        PROVE  d \in devs' \/ OnItsWay(d)'
    <3>1. d \in Devices
      BY <2>1 DEF NlTypes, Devices
    <3>2. CASE d \notin table \cup {Pf} \/ d \in D \/ Otherwise(d)
      BY <2>1, <3>2 DEF StaysOnItsWay
    <3>3. CASE d \in table \cup {Pf} /\ d \notin D /\ ~Otherwise(d)
      <4>1. module = "in"
        BY <2>1, <3>1, <3>3 DEF StaysOnItsWay
      <4>2. CASE d \in Excepted
        BY <2>1, <3>1, <3>3, <4>2 DEF KeepsDevices
      <4>3. CASE d \notin Excepted
        <5>1. d \in devs \/ Entering(d)
          BY <2>1, <3>3, <4>1, <4>3 DEF NlInv, NoneForgotten, OnItsWay
        <5>2. d \in devs' \/ Entering(d)'
          BY <2>1, <3>1, <3>3, <4>3, <5>1 DEF KeepsDevices
        <5>3. QED
          BY <5>2 DEF OnItsWay
      <4>4. QED
        BY <4>2, <4>3
    <3>4. QED
      BY <3>2, <3>3
  <2>2. QED
    BY <2>1 DEF NoneForgotten
<1>3. QED
  BY <1>1, <1>2 DEF NlInv, KeepsDevices

\* What the passes, main and requests leave alone.
SameUpdate == UNCHANGED <<vfd, table, mark, waiting, pass, lost>>

LEMMA SameUpdateKeeps ==
  ASSUME NlInv, SameUpdate
  PROVE  /\ AddedPending' /\ StaysWanted
         /\ \A d : (Pending(d)' <=> Pending(d)) /\ (Leaving(d)' <=> Leaving(d))
<1>1. AddedPending'
  BY DEF NlInv, AddedPending, SameUpdate
<1>2. StaysWanted
  BY DEF StaysWanted, SameUpdate
<1>3. \A d : (Pending(d)' <=> Pending(d)) /\ (Leaving(d)' <=> Leaving(d))
  BY DEF Pending, Leaving, SameUpdate
<1>4. QED
  BY <1>1, <1>2, <1>3

\* A step of a thread inside the module, of the netlink thread, or of the host.
LEMMA ThreadMoves ==
  ASSUME NlAssumption, NlInv, SameUpdate, KeepsDevices({}), module' = module,
         Over => devs' \ Excepted' \subseteq devs \ Excepted,
         NlTypes', NlPlaces',
         \A d \in table \cup {Pf} : Listed(d) \/ overrun \/ sock # "open"
           => \/ d \in devs' \cup Excepted' \/ Entering(d)'
              \/ Listed(d)' \/ overrun' \/ sock' # "open" \/ module # "in"
  PROVE  NlInv'
<1>1. /\ AddedPending' /\ StaysWanted
      /\ \A d : (Pending(d)' <=> Pending(d)) /\ (Leaving(d)' <=> Leaving(d))
  BY SameUpdateKeeps
<1>2. StaysOnItsWay({})
  BY <1>1 DEF StaysOnItsWay, Otherwise, OnItsWay, SameUpdate
<1>3. QED
  BY <1>1, <1>2, Moves DEF SameUpdate

LEMMA ReallyIntact ==
  ASSUME NlAssumption, NlInv
  PROVE  Intact
BY DEF Intact, NlInv

LEMMA InsideKeeps ==
  ASSUME NlAssumption, NlInv, NEW t \in Senders, Inside(t)
  PROVE  NlInv'
<1>1. /\ StoreDev(t) \/ RegisterDev(t)
      /\ SameUpdate /\ UNCHANGED <<pcN, left, at, sock, queue, overrun, module>>
  BY DEF Inside, lifeVars, tableVars, passVars, threadVars, sockVars, SameUpdate
<1>2. KeepsDevices({})
  BY <1>1, InsideKeepsDevices, ReallyIntact
<1>3. ~Free(t) /\ ~Over /\ module # "out"
  BY <1>1 DEF StoreDev, RegisterDev, Free, Out, NlInv, NlPlaces
<1>4. NlTypes'
  BY <1>1, <1>2 DEF NlInv, NlTypes, KeepsDevices, SameUpdate
<1>5. NlPlaces'
  BY <1>1, <1>3 DEF NlInv, NlPlaces, SameUpdate, Over
<1>6. \A d : Listed(d) => Listed(d)'
  BY <1>1 DEF Listed, Asked
<1>7. QED
  BY <1>1, <1>2, <1>3, <1>4, <1>5, <1>6, ThreadMoves


(***************************************************************************)
(* The netlink thread.                                                     *)
(***************************************************************************)

\* A step of the thread outside the module.
LEMMA ThreadOnly ==
  ASSUME NlAssumption, NlInv, SameUpdate, UNCHANGED devState, module' = module,
         pcN \notin {"none", "opening"}, pcN' # "opening",
         sock' = "open" <=> pcN' # "none", overrun => overrun' \/ sock' # "open",
         queue' \in Seq(Messages), left' \subseteq VfIds,
         at' \in Devices \cup {None}, pcN' = "add" => at' \in VfIds,
         \A d \in table \cup {Pf} : Listed(d) => Listed(d)' \/ sock' # "open"
  PROVE  NlInv'
<1>1. KeepsDevices({}) /\ devs' \ Excepted' = devs \ Excepted
  BY NothingHappens, ReallyIntact DEF devState, Excepted
<1>2. NlTypes'
  BY DEF NlInv, NlTypes, SameUpdate, devState
<1>3. sock = "open" /\ ~Over
  BY DEF NlInv, NlPlaces
<1>4. NlPlaces'
  BY <1>3 DEF NlInv, NlPlaces, SameUpdate, devState, Over, Free
<1>5. QED
  BY <1>1, <1>2, <1>3, <1>4, ThreadMoves

LEMMA OpenSocketKeeps ==
  ASSUME NlAssumption, NlInv, OpenSocket
  PROVE  NlInv'
<1>1. /\ pcN = "opening" /\ SameUpdate /\ UNCHANGED devState
      /\ UNCHANGED <<left, at, queue, overrun, module>>
      /\ (sock' = "open" /\ pcN' = "recv") \/ (sock' = "closed" /\ pcN' = "none")
  BY DEF OpenSocket, threadKeeps, lifeVars, tableVars, passVars, devVars, SameUpdate, devState
<1>2. KeepsDevices({}) /\ devs' \ Excepted' = devs \ Excepted
  BY <1>1, NothingHappens, ReallyIntact DEF devState, Excepted
<1>3. NlTypes'
  BY <1>1 DEF NlInv, NlTypes, SameUpdate, devState
<1>4. NlPlaces'
  BY <1>1 DEF NlInv, NlPlaces, SameUpdate, devState, Over, Free
<1>5. StaysOnItsWay({})
  BY <1>1 DEF NlInv, NlPlaces, StaysOnItsWay, SameUpdate
<1>6. AddedPending' /\ StaysWanted
  BY <1>1, SameUpdateKeeps
<1>7. QED
  BY <1>1, <1>2, <1>3, <1>4, <1>5, <1>6, Moves DEF SameUpdate

LEMMA RecvKeeps ==
  ASSUME NlAssumption, NlInv, RecvFails \/ Receive
  PROVE  NlInv'
<1>1. pcN = "recv" /\ SameUpdate /\ UNCHANGED devState /\ UNCHANGED <<left, module>>
  BY DEF RecvFails, Receive, threadKeeps, lifeVars, tableVars, passVars, devVars, SameUpdate, devState
<1>2. queue \in Seq(Messages) /\ sock = "open"
  BY <1>1 DEF NlInv, NlTypes, NlPlaces
<1>3. CASE RecvFails
  <2>1. sock' = "closed" /\ queue' = <<>> /\ pcN' = "none" /\ at' = at
    BY <1>3 DEF RecvFails
  <2>2. QED
    BY <1>1, <2>1, ThreadOnly DEF NlInv, NlTypes
<1>4. CASE Receive
  <2>1. /\ queue' \in Seq(Messages) /\ at' \in Devices \cup {None} /\ pcN' \in {"pf", "stats"}
        /\ InQueue => InQueue' \/ pcN' = "pf"
    BY <1>2, <1>4, ReceiveKeeps
  <2>2. UNCHANGED <<sock, overrun>>
    BY <1>4 DEF Receive
  <2>3. \A d : Listed(d) => Listed(d)'
    BY <1>1, <2>1 DEF Listed, Asked, InQueue
  <2>4. QED
    BY <1>1, <1>2, <2>1, <2>2, <2>3, ThreadOnly DEF NlInv, NlTypes
<1>5. QED
  BY <1>3, <1>4

LEMMA AnswerKeeps ==
  ASSUME NlAssumption, NlInv, AnswerStats \/ AnswerFaults \/ AnswerSpins \/ HandlerCloses
  PROVE  NlInv'
<1>1. /\ pcN \in {"stats", "handler"} /\ SameUpdate /\ UNCHANGED devState
      /\ UNCHANGED <<left, sock, queue, overrun, module>>
      /\ pcN' \in {"recv", "handler", "spin"} /\ at' \in {at, None}
  BY DEF AnswerStats, AnswerFaults, AnswerSpins, HandlerCloses, NullVf, Fault, ClosePort, Tell, StatsForDev,
         threadKeeps, threadVars, lifeVars, tableVars, passVars, sockVars, devVars, SameUpdate, devState
<1>2. \A d : Listed(d) => Listed(d)'
  BY <1>1 DEF Listed, Asked
<1>3. sock = "open"
  BY <1>1 DEF NlInv, NlPlaces
<1>4. QED
  BY <1>1, <1>2, <1>3, ThreadOnly DEF NlInv, NlTypes

LEMMA ListSlotKeeps ==
  ASSUME NlAssumption, NlInv, ListDone \/ \E v \in VfIds : ListVf(v)
  PROVE  NlInv'
<1>1. /\ pcN = "list" /\ SameUpdate /\ UNCHANGED devState
      /\ UNCHANGED <<sock, queue, overrun, module>>
  BY DEF ListDone, ListVf, threadKeeps, lifeVars, tableVars, passVars, sockVars, devVars, SameUpdate, devState
<1>2. sock = "open" /\ NlTypes
  BY <1>1 DEF NlInv, NlPlaces
<1>3. CASE ListDone
  <2>1. pcN' = "recv" /\ left = {} /\ UNCHANGED <<left, at>>
    BY <1>3 DEF ListDone
  <2>2. \A d : Listed(d) => Listed(d)'
    BY <1>1, <2>1 DEF Listed, Asked
  <2>3. QED
    BY <1>1, <1>2, <2>1, <2>2, ThreadOnly DEF NlTypes
<1>4. ASSUME NEW v \in VfIds, ListVf(v)
      PROVE  NlInv'
  <2>1. /\ v \in left /\ left' = left \ {v}
        /\ IF v \in table THEN at' = v /\ pcN' = "add" ELSE UNCHANGED <<at, pcN>>
    BY <1>4 DEF ListVf
  <2>2. \A d \in table \cup {Pf} : Listed(d) => Listed(d)'
    BY <1>1, <2>1 DEF Listed, Asked, NlAssumption
  <2>3. /\ pcN' \in {"list", "add"} /\ left' \subseteq VfIds /\ at' \in Devices \cup {None}
        /\ (pcN' = "add" => at' \in VfIds)
    BY <1>1, <1>2, <2>1 DEF NlTypes, Devices
  <2>4. QED
    BY <1>1, <1>2, <2>2, <2>3, ThreadOnly DEF NlTypes
<1>5. QED
  BY <1>3, <1>4

LEMMA ListTellsKeeps ==
  ASSUME NlAssumption, NlInv, Free("nl"), ListPf \/ ListAdd
  PROVE  NlInv'
<1>1. /\ pcN \in {"pf", "add"} /\ pcN' = "list" /\ SameUpdate
      /\ left' = (IF pcN = "pf" THEN VfIds ELSE left) /\ at' \in {at, None}
      /\ Tell(AddDev("nl", IF pcN = "pf" THEN Pf ELSE at))
  BY DEF ListPf, ListAdd, lifeVars, tableVars, passVars, SameUpdate
<1>2. NlTypes /\ sock = "open" /\ ~Over /\ "nl" \in Senders /\ Intact
  BY <1>1, ReallyIntact DEF NlInv, NlPlaces, Senders
<1>3. PICK d \in Devices : d = IF pcN = "pf" THEN Pf ELSE at
  BY <1>1, <1>2 DEF NlTypes, Devices
<1>4. /\ KeepsDevices({}) /\ UNCHANGED <<sock, queue, overrun, module>>
      /\ module # "out" => d \in devs' \cup Excepted' \/ Entering(d)'
      /\ module = "out" => UNCHANGED devState
  BY <1>1, <1>2, <1>3, TellsAdd
<1>5. NlTypes'
  BY <1>1, <1>2, <1>4 DEF NlTypes, KeepsDevices, SameUpdate
<1>6. NlPlaces'
  BY <1>1, <1>2, <1>4 DEF NlInv, NlPlaces, SameUpdate, devState, Over, Free
<1>7. \A e \in table \cup {Pf} : Listed(e) => Listed(e)' \/ e = d
  BY <1>1, <1>2, <1>3, <1>4 DEF Listed, Asked, NlTypes
<1>8. QED
  BY <1>1, <1>2, <1>4, <1>5, <1>6, <1>7, ThreadMoves

(***************************************************************************)
(* Update passes.                                                          *)
(***************************************************************************)

\* A device may be excused at any time.
LEMMA Excuses ==
  ASSUME Intact, UNCHANGED <<netdevs, devs, inside, twice>>, astray \subseteq astray'
  PROVE  KeepsDevices({}) /\ devs' \ Excepted' \subseteq devs \ Excepted
<1>1. Entries'
  BY DEF Intact, Entries, Entry
<1>2. \A d : Entering(d)' <=> Entering(d)
  BY DEF Entering
<1>3. Excepted \subseteq Excepted'
  BY DEF Excepted
<1>4. QED
  BY <1>1, <1>2, <1>3 DEF Intact, NlTypes, KeepsDevices

\* What the passes and the requests for them leave alone.
SameThread == UNCHANGED <<vfd, pcN, left, at, sock, queue, overrun, module, netdevs, devs, inside, twice>>

\* A step that tells the module nothing.
LEMMA UpdateMoves ==
  ASSUME NlAssumption, NlInv, ~Over, SameThread, astray \subseteq astray', lost' = lost,
         table' \subseteq VfIds, mark' \in [VfIds -> Marks], waiting' \subseteq Updaters,
         pass' \in Passes, AddedPending', StaysWanted,
         \A d \in table' \cup {Pf} : d \notin table \cup {Pf} \/ Pending(d) \/ Leaving(d)
           => Pending(d)' \/ Leaving(d)' \/ d \in astray'
  PROVE  NlInv'
<1>1. KeepsDevices({})
  BY Excuses, ReallyIntact DEF SameThread
<1>2. NlTypes'
  BY DEF NlInv, NlTypes, SameThread
<1>3. NlPlaces'
  BY DEF NlInv, NlPlaces, SameThread, Over, Free
<1>4. \A d : Listed(d) => Listed(d)'
  BY DEF SameThread, Listed, Asked
<1>5. StaysOnItsWay({})
  BY <1>4 DEF StaysOnItsWay, Otherwise, OnItsWay, SameThread, Excepted
<1>6. QED
  BY <1>1, <1>2, <1>3, <1>5, Moves DEF SameThread

LEMMA PassTypes ==
  ASSUME NlAssumption, NlTypes
  PROVE  /\ NoPass \in Passes /\ NoPass.by = None /\ NoPass.vf = None /\ NoPass.todo = {}
         /\ NoPass.reason = "unchanged" /\ NoPass.step = "find"
         /\ None \notin Devices /\ None \notin Senders /\ Pf \notin VfIds
         /\ \A d \in table \cup {Pf} : d \in Devices /\ d # None
BY DEF NoPass, Passes, Marks, NlTypes, NlAssumption, Devices

\* A step that leaves the table as it is, and is not about a VF afterwards.
LEMMA PassOnly ==
  ASSUME NlAssumption, NlInv, pass # NoPass \/ waiting # {}, SameThread, UNCHANGED <<astray, lost, table>>,
         mark' \in [VfIds -> Marks], waiting' \subseteq Updaters, pass' \in Passes, pass'.vf = None,
         AddedPending', \A d \in table \cup {Pf} : Pending(d) \/ Leaving(d) => Pending(d)'
  PROVE  NlInv'
<1>1. ~Over
  BY DEF NlInv, NlPlaces
<1>2. StaysWanted
  BY PassTypes DEF StaysWanted, SameThread, NlInv, NlTypes
<1>3. QED
  BY <1>1, <1>2, UpdateMoves DEF NlInv, NlTypes

LEMMA AcquireKeeps ==
  ASSUME NlAssumption, NlInv, NEW t \in Updaters, Acquire(t), UNCHANGED <<lifeVars, threadVars>>
  PROVE  NlInv'
<1>1. /\ t \in waiting /\ pass = NoPass /\ waiting' = waiting \ {t}
      /\ pass' = [NoPass EXCEPT !.by = t, !.todo = VfIds]
      /\ SameThread /\ UNCHANGED <<mark, table, astray, lost>>
  BY DEF Acquire, lifeVars, tableVars, threadVars, sockVars, devVars, SameThread
<1>2. NlTypes /\ AddedPending
  BY DEF NlInv
<1>3. /\ pass' \in Passes /\ pass'.by = t /\ pass'.todo = VfIds /\ pass'.vf = None
      /\ pass'.reason = "unchanged"
  BY <1>1 DEF NoPass, Passes, Marks
<1>4. AddedPending'
  BY <1>1, <1>2, <1>3, PassTypes DEF AddedPending, Senders, Updaters
<1>5. \A d \in table \cup {Pf} : Pending(d) \/ Leaving(d) => Pending(d)'
  BY <1>1, <1>2, <1>3, PassTypes DEF Pending, Leaving
<1>6. QED
  BY <1>1, <1>2, <1>3, <1>4, <1>5, PassOnly DEF NlTypes

LEMMA SkipKeeps ==
  ASSUME NlAssumption, NlInv, pass.by # None, NEW v \in VfIds, Skip(v), UNCHANGED <<lifeVars, threadVars>>
  PROVE  NlInv'
<1>1. /\ pass.vf = None /\ mark[v] = "unchanged" /\ pass' = [pass EXCEPT !.todo = @ \ {v}]
      /\ SameThread /\ UNCHANGED <<mark, table, waiting, astray, lost>>
  BY DEF Skip, lifeVars, tableVars, threadVars, sockVars, devVars, SameThread
<1>2. NlTypes /\ AddedPending /\ pass \in Passes
  BY DEF NlInv, NlTypes
<1>3. /\ pass' \in Passes /\ pass'.by = pass.by /\ pass'.todo = pass.todo \ {v} /\ pass'.vf = None
      /\ pass'.reason = pass.reason
  BY <1>1, <1>2 DEF Passes
<1>4. AddedPending'
  BY <1>1, <1>2, <1>3 DEF AddedPending
<1>5. \A d \in table \cup {Pf} : Pending(d) \/ Leaving(d) => Pending(d)'
  BY <1>1, <1>2, <1>3, PassTypes DEF Pending, Leaving
<1>6. QED
  BY <1>1, <1>2, <1>3, <1>4, <1>5, PassTypes, PassOnly DEF NlTypes

LEMMA ClearMarkKeeps ==
  ASSUME NlAssumption, NlInv, pass.by # None, NEW v \in VfIds, ClearMark(v), UNCHANGED <<lifeVars, threadVars>>
  PROVE  NlInv'
<1>1. /\ pass.vf = v /\ pass.step = "clear" /\ mark' = [mark EXCEPT ![v] = "unchanged"]
      /\ pass' = [pass EXCEPT !.vf = None, !.reason = "unchanged", !.step = "find"]
      /\ SameThread /\ UNCHANGED <<table, waiting, astray, lost>>
  BY DEF ClearMark, lifeVars, threadVars, sockVars, devVars, SameThread
<1>2. NlTypes /\ AddedPending /\ pass \in Passes /\ mark \in [VfIds -> Marks]
  BY DEF NlInv, NlTypes
<1>3. /\ pass' \in Passes /\ pass'.by = pass.by /\ pass'.todo = pass.todo /\ pass'.vf = None
  BY <1>1, <1>2 DEF Passes, Marks
<1>4. mark' \in [VfIds -> Marks] /\ mark'[v] = "unchanged" /\ \A u \in VfIds : u # v => mark'[u] = mark[u]
  BY <1>1, <1>2 DEF Marks
<1>5. AddedPending'
  BY <1>1, <1>2, <1>3, <1>4 DEF AddedPending
<1>6. \A d \in table \cup {Pf} : Pending(d) \/ Leaving(d) => Pending(d)'
  BY <1>1, <1>3, <1>4, PassTypes, <1>2 DEF Pending, Leaving
<1>7. QED
  BY <1>1, <1>2, <1>3, <1>4, <1>5, <1>6, PassTypes, PassOnly DEF NlTypes

LEMMA ReleaseKeeps ==
  ASSUME NlAssumption, NlInv, pass.by # None, Release, UNCHANGED <<lifeVars, threadVars>>
  PROVE  NlInv'
<1>1. /\ pass.vf = None /\ pass.todo = {} /\ pass' = NoPass
      /\ SameThread /\ UNCHANGED <<mark, table, waiting, astray, lost>>
  BY DEF Release, lifeVars, tableVars, threadVars, sockVars, devVars, SameThread
<1>2. NlTypes /\ AddedPending
  BY DEF NlInv
<1>3. AddedPending'
  BY <1>1, <1>2, PassTypes DEF AddedPending
<1>4. \A d \in table \cup {Pf} : Pending(d) \/ Leaving(d) => Pending(d)'
  BY <1>1, <1>2, PassTypes DEF Pending, Leaving
<1>5. QED
  BY <1>1, <1>2, <1>3, <1>4, PassTypes, PassOnly DEF NlTypes

LEMMA UnsetNumKeeps ==
  ASSUME NlAssumption, NlInv, pass.by # None, NEW v \in VfIds, UnsetNum(v), UNCHANGED <<lifeVars, threadVars>>
  PROVE  NlInv'
<1>1. /\ pass.vf = v /\ pass.step = "unset" /\ pass' = [pass EXCEPT !.step = "clear"]
      /\ table' = IF mark[v] = "deleted" THEN table \ {v} ELSE table
      /\ astray' = IF (mark[v] = "deleted") # (pass.reason = "deleted") THEN astray \cup {v} ELSE astray
      /\ SameThread /\ UNCHANGED <<mark, waiting, lost>>
  BY DEF UnsetNum, lifeVars, threadVars, sockVars, SameThread
<1>2. NlTypes /\ AddedPending /\ pass \in Passes /\ table \subseteq VfIds
  BY DEF NlInv, NlTypes
<1>3. /\ pass' \in Passes /\ pass'.by = pass.by /\ pass'.todo = pass.todo /\ pass'.vf = pass.vf
      /\ pass'.reason = pass.reason
  BY <1>1, <1>2 DEF Passes
<1>4. AddedPending'
  BY <1>1, <1>2, <1>3 DEF AddedPending
<1>5. ~Over
  BY PassTypes, <1>2 DEF NlInv, NlPlaces
<1>6. StaysWanted
  BY <1>1, <1>3 DEF StaysWanted, SameThread, Excepted
<1>7. \A d \in table' \cup {Pf} : d \notin table \cup {Pf} \/ Pending(d) \/ Leaving(d)
        => Pending(d)' \/ Leaving(d)' \/ d \in astray'
  <2>1. \A d \in table' \cup {Pf} : d \in table \cup {Pf}
    BY <1>1
  <2>2. \A d : Pending(d) => Pending(d)'
    BY <1>1, <1>3 DEF Pending
  <2>3. ASSUME NEW d \in table' \cup {Pf}, Leaving(d)
        PROVE  d \in astray'
    BY <1>1, <1>2, <2>3, PassTypes DEF Leaving
  <2>4. QED
    BY <2>1, <2>2, <2>3
<1>8. astray \subseteq astray' /\ table' \subseteq VfIds
  BY <1>1, <1>2
<1>9. QED
  BY <1>1, <1>2, <1>3, <1>4, <1>5, <1>6, <1>7, <1>8, UpdateMoves DEF NlTypes

\* The pass tells the module of one that was added or deleted.
LEMMA VisitKeeps ==
  ASSUME NlAssumption, NlInv, NEW t \in Updaters, pass.by = t, Free(t), NEW v \in VfIds, Visit(v),
         UNCHANGED <<lifeVars, threadVars>>, ~oops'
  PROVE  NlInv'
<1>1. /\ pass.vf = None /\ v \in pass.todo
      /\ pass' = [pass EXCEPT !.todo = @ \ {v}, !.vf = v, !.reason = mark[v], !.step = "unset"]
      /\ UNCHANGED <<vfd, table, mark, waiting, pcN, left, at>>
  BY DEF Visit, tableVars, lifeVars, threadVars
<1>2. NlTypes /\ AddedPending /\ pass \in Passes /\ mark \in [VfIds -> Marks] /\ Intact
      /\ v \in Devices /\ t \in Senders
  BY ReallyIntact DEF NlInv, NlTypes, Devices, Senders
<1>3. /\ pass' \in Passes /\ pass'.by = pass.by /\ pass'.todo = pass.todo \ {v} /\ pass'.vf = v
      /\ pass'.reason = mark[v] /\ pass'.step = "unset"
  BY <1>1, <1>2 DEF Passes
<1>4. AddedPending'
  BY <1>1, <1>2, <1>3, PassTypes DEF AddedPending
<1>5. ~Over
  BY <1>2, PassTypes DEF NlInv, NlPlaces
<1>6. \A d \in table \cup {Pf} : ~Leaving(d) /\ (Pending(d) => Pending(d)' \/ (d = v /\ mark[v] = "added"))
  BY <1>1, <1>2, <1>3, PassTypes DEF Pending, Leaving
<1>7. CASE mark[v] = "added"
  <2>1. Tell(AddDev(t, v)) /\ lost' = (lost \/ sock # "open")
    BY <1>7 DEF Visit, UpdaterTells
  <2>2. /\ KeepsDevices({}) /\ UNCHANGED <<sock, queue, overrun, module>>
        /\ sock = "open" /\ module # "out" => v \in devs' \cup Excepted' \/ Entering(v)'
        /\ module = "out" => UNCHANGED devState
    BY <1>2, <2>1, TellsAdd
  <2>3. NlTypes'
    BY <1>1, <1>2, <1>3, <2>2 DEF NlTypes, KeepsDevices
  <2>4. NlPlaces'
    BY <1>1, <1>5, <2>1, <2>2 DEF NlInv, NlPlaces, devState, Over, Free
  <2>5. StaysWanted
    BY <1>1, <1>3, <1>7 DEF StaysWanted
  <2>6. \A d : Listed(d) => Listed(d)'
    BY <1>1, <2>2 DEF Listed, Asked
  <2>7. StaysOnItsWay({})
    BY <1>1, <1>6, <2>1, <2>2, <2>6 DEF StaysOnItsWay, Otherwise, OnItsWay
  <2>8. QED
    BY <1>1, <1>4, <1>5, <2>1, <2>2, <2>3, <2>4, <2>5, <2>7, Moves
<1>8. CASE mark[v] = "deleted"
  <2>1. Tell(DelDev(v)) /\ lost' = (lost \/ sock # "open")
    BY <1>8 DEF Visit, UpdaterTells
  <2>2. /\ KeepsDevices({v}) /\ UNCHANGED <<sock, queue, overrun, module>>
        /\ sock = "open" /\ module # "out" => v \notin devs' \ Excepted'
        /\ module = "out" => UNCHANGED devState
    BY <1>2, <2>1, TellsDel
  <2>3. NlTypes'
    BY <1>1, <1>2, <1>3, <2>2 DEF NlTypes, KeepsDevices
  <2>4. NlPlaces'
    BY <1>1, <1>5, <2>1, <2>2 DEF NlInv, NlPlaces, devState, Over, Free
  <2>5. ~lost' => v \notin devs' \ Excepted'
    <3>1. CASE module = "out"
      BY <2>2, <3>1 DEF NlInv, NlPlaces, devState
    <3>2. QED
      BY <2>1, <2>2, <3>1
  <2>6. StaysWanted
    BY <1>1, <1>3, <2>5 DEF StaysWanted
  <2>7. \A d : Listed(d) => Listed(d)'
    BY <1>1, <2>2 DEF Listed, Asked
  <2>8. Leaving(v)'
    BY <1>3, <1>8 DEF Leaving
  <2>9. StaysOnItsWay({v})
    BY <1>1, <1>6, <1>8, <2>1, <2>2, <2>7, <2>8 DEF StaysOnItsWay, Otherwise, OnItsWay
  <2>10. QED
    BY <1>1, <1>4, <1>5, <2>1, <2>2, <2>3, <2>4, <2>6, <2>9, Moves
<1>9. CASE mark[v] \notin {"added", "deleted"}
  <2>1. SameThread /\ UNCHANGED <<astray, lost>>
    BY <1>1, <1>9 DEF Visit, sockVars, devVars, SameThread
  <2>2. StaysWanted
    BY <1>1, <1>3, <1>9 DEF StaysWanted
  <2>3. QED
    BY <1>1, <1>2, <1>3, <1>4, <1>5, <1>6, <1>9, <2>1, <2>2, UpdateMoves DEF NlTypes
<1>10. QED
  BY <1>7, <1>8, <1>9

LEMMA UpdatingKeeps ==
  ASSUME NlAssumption, NlInv, NEW t \in Updaters, Updating(t), ~oops'
  PROVE  NlInv'
<1>1. Free(t) /\ UNCHANGED <<lifeVars, threadVars>> /\ t # None
  BY DEF Updating, NlAssumption, Senders
<1>2. CASE Acquire(t)
  BY <1>1, <1>2, AcquireKeeps
<1>3. CASE pass.by = t /\ Release
  BY <1>1, <1>3, ReleaseKeeps
<1>4. ASSUME pass.by = t, NEW v \in VfIds, Skip(v) \/ Visit(v) \/ UnsetNum(v) \/ ClearMark(v)
      PROVE  NlInv'
  BY <1>1, <1>4, SkipKeeps, VisitKeeps, UnsetNumKeeps, ClearMarkKeeps
<1>5. QED
  BY <1>2, <1>3, <1>4 DEF Updating

(***************************************************************************)
(* Requests for a pass.                                                    *)
(***************************************************************************)

LEMMA RestoreKeeps ==
  ASSUME NlAssumption, NlInv, NEW t \in Restorers, NEW v \in VfIds, Restore(t, v)
  PROVE  NlInv'
<1>1. /\ ~Over /\ mark' = [mark EXCEPT ![v] = "reset"] /\ waiting' = waiting \cup {t}
      /\ astray' = (IF mark[v] = "added" /\ pass.vf # v THEN astray \cup {v} ELSE astray)
      /\ SameThread /\ UNCHANGED <<table, pass, lost>>
  BY DEF Restore, lifeVars, threadVars, sockVars, SameThread, Over
<1>2. NlTypes /\ AddedPending /\ mark \in [VfIds -> Marks] /\ t \in Updaters
  BY DEF NlInv, NlTypes, Updaters
<1>3. mark' \in [VfIds -> Marks] /\ mark'[v] = "reset" /\ \A u \in VfIds : u # v => mark'[u] = mark[u]
  BY <1>1, <1>2 DEF Marks
<1>4. AddedPending'
  BY <1>1, <1>2, <1>3 DEF AddedPending
<1>5. StaysWanted
  BY <1>1 DEF StaysWanted
<1>6. \A d \in table' \cup {Pf} : d \notin table \cup {Pf} \/ Pending(d) \/ Leaving(d)
        => Pending(d)' \/ Leaving(d)' \/ d \in astray'
  BY <1>1, <1>3 DEF Pending, Leaving
<1>7. QED
  BY <1>1, <1>2, <1>3, <1>4, <1>5, <1>6, UpdateMoves DEF NlTypes

LEMMA AddVfKeeps ==
  ASSUME NlAssumption, NlInv, NEW v \in VfIds, AddVf(v)
  PROVE  NlInv'
<1>1. /\ ~Over /\ pass = NoPass /\ table' = table \cup {v} /\ mark' = [mark EXCEPT ![v] = "added"]
      /\ waiting' = waiting \cup {"main"}
      /\ SameThread /\ UNCHANGED <<pass, astray, lost>>
  BY DEF AddVf, lifeVars, threadVars, sockVars, devVars, SameThread, Over
<1>2. NlTypes /\ AddedPending /\ mark \in [VfIds -> Marks] /\ table \subseteq VfIds
  BY DEF NlInv, NlTypes
<1>3. mark' \in [VfIds -> Marks] /\ mark'[v] = "added" /\ \A u \in VfIds : u # v => mark'[u] = mark[u]
  BY <1>1, <1>2 DEF Marks
<1>4. AddedPending'
  BY <1>1, <1>2, <1>3 DEF AddedPending
<1>5. StaysWanted
  BY <1>1 DEF StaysWanted
<1>6. Pending(v)'
  BY <1>1, <1>2, <1>3, PassTypes DEF Pending, Devices
<1>7. \A d \in table' \cup {Pf} : d \notin table \cup {Pf} \/ Pending(d) \/ Leaving(d)
        => Pending(d)' \/ Leaving(d)' \/ d \in astray'
  BY <1>1, <1>3, <1>6 DEF Pending, Leaving
<1>8. QED
  BY <1>1, <1>2, <1>3, <1>4, <1>5, <1>7, UpdateMoves DEF NlTypes, Updaters

LEMMA DelVfKeeps ==
  ASSUME NlAssumption, NlInv, NEW v \in VfIds, DelVf(v)
  PROVE  NlInv'
<1>1. /\ ~Over /\ "main" \notin waiting /\ pass.by # "main" /\ mark' = [mark EXCEPT ![v] = "deleted"]
      /\ waiting' = waiting \cup {"main"}
      /\ SameThread /\ UNCHANGED <<table, pass, astray, lost>>
  BY DEF DelVf, Idle, lifeVars, threadVars, sockVars, devVars, SameThread, Over
<1>2. NlTypes /\ AddedPending /\ mark \in [VfIds -> Marks]
  BY DEF NlInv, NlTypes
<1>3. mark' \in [VfIds -> Marks] /\ mark'[v] = "deleted" /\ \A u \in VfIds : u # v => mark'[u] = mark[u]
  BY <1>1, <1>2 DEF Marks
<1>4. AddedPending'
  BY <1>1, <1>2, <1>3 DEF AddedPending
<1>5. StaysWanted
  BY <1>1 DEF StaysWanted
<1>6. ~Pending(v)
  BY <1>1, <1>2 DEF AddedPending, Pending
<1>7. \A d \in table' \cup {Pf} : d \notin table \cup {Pf} \/ Pending(d) \/ Leaving(d)
        => Pending(d)' \/ Leaving(d)' \/ d \in astray'
  BY <1>1, <1>3, <1>6 DEF Pending, Leaving
<1>8. QED
  BY <1>1, <1>2, <1>3, <1>4, <1>5, <1>7, UpdateMoves DEF NlTypes, Updaters

(***************************************************************************)
(* The process starts, initialises and ends.                               *)
(***************************************************************************)

LEMMA StillKeeps ==
  ASSUME NlAssumption, NlInv, SameUpdate, SameThread, astray' = astray
  PROVE  NlInv'
<1>1. ~Over => NlInv'
  BY SameUpdateKeeps, UpdateMoves DEF NlInv, NlTypes, SameUpdate
<1>2. Over => NlInv'
  <2> SUFFICES ASSUME Over PROVE NlInv'
    OBVIOUS
  <2>1. NlTypes' /\ AddedPending'
    BY SameUpdateKeeps DEF NlInv, NlTypes, SameUpdate, SameThread
  <2>2. NlPlaces' /\ Over'
    BY DEF NlInv, NlPlaces, SameUpdate, SameThread, Over, Free
  <2>3. Entries'
    BY DEF NlInv, Entries, Entry, SameThread
  <2>4. NoneLeft' /\ NoneForgotten'
    BY <2>2 DEF NlInv, NoneLeft, NoneForgotten, Over, Excepted, SameUpdate, SameThread
  <2>5. QED
    BY <2>1, <2>2, <2>3, <2>4 DEF NlInv
<1>3. QED
  BY <1>1, <1>2

LEMMA StartKeeps ==
  ASSUME NlAssumption, NlInv, Start
  PROVE  NlInv'
<1>1. /\ Over /\ vfd' = "starting" /\ pcN' = "opening"
      /\ UNCHANGED <<table, mark, waiting, pass, left, at, sock, queue, overrun, module>>
      /\ UNCHANGED devState
  BY DEF Start, StartUp, tableVars, passVars, sockVars, devVars, devState
<1>2. NlTypes' /\ AddedPending'
  BY <1>1 DEF NlInv, NlTypes, AddedPending, devState
<1>3. NlPlaces'
  BY <1>1 DEF NlInv, NlPlaces, devState, Over, Free
<1>4. Entries'
  BY <1>1 DEF NlInv, Entries, Entry, devState
<1>5. NoneLeft' /\ NoneForgotten'
  BY <1>1 DEF NoneLeft, NoneForgotten
<1>6. QED
  BY <1>2, <1>3, <1>4, <1>5 DEF NlInv

LEMMA HandlersKeep ==
  ASSUME NlAssumption, NlInv, NEW found \in SUBSET VfIds, Handlers(found)
  PROVE  NlInv'
<1>1. /\ vfd = "starting" /\ vfd' = "booting" /\ table' = found
      /\ mark' = [v \in VfIds |-> IF v \in found THEN "added" ELSE "unchanged"]
      /\ waiting' = waiting \cup {"main"}
      /\ UNCHANGED <<pass, pcN, left, at, sock, queue, overrun, module>> /\ UNCHANGED devState
  BY DEF Handlers, SetSignals, threadVars, sockVars, devVars, devState
<1>2. NlTypes'
  BY <1>1 DEF NlInv, NlTypes, devState, Updaters, Marks
<1>3. AddedPending'
  BY <1>1 DEF AddedPending
<1>4. NlPlaces'
  BY <1>1 DEF NlInv, NlPlaces, devState, Over, Free
<1>5. Entries'
  BY <1>1 DEF NlInv, Entries, Entry, devState
<1>6. NoneLeft' /\ NoneForgotten'
  BY <1>1 DEF NoneLeft, NoneForgotten
<1>7. QED
  BY <1>2, <1>3, <1>4, <1>5, <1>6 DEF NlInv

\* Main tells the module that VFd runs, or that it ends.
LEMMA MainTellsKeeps ==
  ASSUME NlAssumption, NlInv, Initialised \/ Terminate, ~oops'
  PROVE  NlInv'
<1>1. /\ ~Over /\ UNCHANGED <<table, mark, waiting, pass, pcN, left, at>>
      /\ lost' = (lost \/ sock # "open")
      /\ \/ vfd' = "running" /\ Tell(UpdateDevs)
         \/ vfd' = "ending" /\ Tell(ResetDevs)
  BY DEF Initialised, Terminate, EnterLoop, LeaveLoop, UpdaterTells, tableVars, passVars, threadVars, Over
<1>2. NlTypes /\ AddedPending /\ Intact
  BY ReallyIntact DEF NlInv
<1>3. /\ KeepsDevices(Devices) /\ UNCHANGED <<sock, module>> /\ queue' \in Seq(Messages)
      /\ sock = "open" /\ module # "out" => devs' \subseteq Excepted'
      /\ module = "out" => UNCHANGED devState
      /\ Tell(UpdateDevs) /\ sock = "open" /\ module # "out" => InQueue' \/ overrun'
  BY <1>1, <1>2, TellsAll
<1>4. NlTypes'
  BY <1>1, <1>2, <1>3 DEF NlTypes, KeepsDevices
<1>5. AddedPending'
  BY <1>1, <1>2 DEF AddedPending
<1>6. NlPlaces'
  BY <1>1, <1>3 DEF NlInv, NlPlaces, devState, Over, Free
<1>7. ~lost' => devs' \subseteq Excepted'
  <2>1. CASE module = "out"
    BY <1>3, <2>1 DEF NlInv, NlPlaces, devState
  <2>2. QED
    BY <1>1, <1>3, <2>1
<1>8. NoneLeft'
  BY <1>7 DEF NoneLeft
<1>9. NoneForgotten'
  BY <1>1, <1>3 DEF NoneForgotten, OnItsWay, Otherwise, Listed, Asked, InQueue
<1>10. QED
  BY <1>3, <1>4, <1>5, <1>6, <1>8, <1>9 DEF NlInv, KeepsDevices

\* The process is over.
LEMMA EndKeeps ==
  ASSUME NlAssumption, NlInv, Gone, vfd' = "down" \/ (vfd = "ending" /\ vfd' = "ended")
  PROVE  NlInv'
<1>1. /\ \A t \in Senders : Free(t)
      /\ table' = {} /\ mark' = [v \in VfIds |-> "unchanged"] /\ waiting' = {} /\ pass' = NoPass
      /\ sock' = "none" /\ queue' = <<>> /\ pcN' = "none" /\ left' = {} /\ at' = None
      /\ UNCHANGED <<module, lost>> /\ UNCHANGED devState
  BY DEF Gone, devVars, devState
<1>2. NlTypes'
  BY <1>1, PassTypes DEF NlInv, NlTypes, devState, Marks
<1>3. AddedPending'
  BY <1>1 DEF AddedPending
<1>4. NlPlaces'
  BY <1>1 DEF NlInv, NlPlaces, devState, Over, Free
<1>5. Entries'
  BY <1>1 DEF NlInv, Entries, Entry, devState
<1>6. NoneLeft' /\ NoneForgotten'
  BY <1>1 DEF NlInv, NoneLeft, NoneForgotten, devState, Excepted
<1>7. QED
  BY <1>2, <1>3, <1>4, <1>5, <1>6 DEF NlInv

(***************************************************************************)
(* The host loads and unloads the module, and looks at its devices.        *)
(***************************************************************************)

LEMMA HostKeeps ==
  ASSUME NlAssumption, NlInv, Host, ~oops'
  PROVE  NlInv'
<1>1. SameUpdate /\ UNCHANGED <<pcN, left, at>>
  BY DEF Host, lifeVars, tableVars, passVars, threadVars, SameUpdate
<1>2. /\ AddedPending' /\ StaysWanted
      /\ \A d : (Pending(d)' <=> Pending(d)) /\ (Leaving(d)' <=> Leaving(d))
  BY <1>1, SameUpdateKeeps
<1>3. Intact /\ NlTypes /\ queue \in Seq(Messages)
  BY ReallyIntact DEF NlInv, NlTypes
<1>4. CASE Load \/ Unloaded
  <2>1. UNCHANGED devState /\ UNCHANGED <<sock, queue, overrun>> /\ module' # "in"
    BY <1>4 DEF Load, Unloaded, sockVars, devVars, devState
  <2>2. module' = "out" => devs = {} /\ \A t \in Senders : Free(t)
    BY <1>4 DEF Load, Unloaded
  <2>3. KeepsDevices({}) /\ devs' \ Excepted' = devs \ Excepted
    BY <1>3, <2>1, NothingHappens DEF devState, Excepted
  <2>4. NlTypes'
    BY <1>1, <1>3, <2>1 DEF NlTypes, SameUpdate, devState
  <2>5. NlPlaces'
    BY <1>1, <2>1, <2>2 DEF NlInv, NlPlaces, SameUpdate, devState, Over, Free
  <2>6. StaysOnItsWay({})
    BY <2>1 DEF StaysOnItsWay
  <2>7. QED
    BY <1>1, <1>2, <2>3, <2>4, <2>5, <2>6, Moves DEF SameUpdate
<1>5. CASE Loaded \/ Unload
  <2>1. Delete(Devices) /\ Devices \in SUBSET Devices
    BY <1>5 DEF Loaded, Unload, UpdateDevs, ResetDevs
  <2>2. KeepsDevices(Devices) /\ devs' \ Excepted' \subseteq devs \ Excepted
    BY <1>3, <2>1, DeleteKeepsDevices
  <2>3. sock' = sock /\ queue' \in Seq(Messages) /\ module' # "out"
        /\ (module' = "in" /\ sock = "open" => InQueue' \/ overrun')
    <3>1. CASE Loaded
      <4>1. Ask(List) /\ module' = "in"
        BY <3>1 DEF Loaded, UpdateDevs
      <4>2. QED
        BY <1>3, <4>1, AskKeeps, MessagesKnown
    <3>2. CASE Unload
      BY <1>3, <3>2 DEF Unload, ResetDevs, sockVars
    <3>3. QED
      BY <1>5, <3>1, <3>2
  <2>4. NlTypes'
    BY <1>1, <1>3, <2>2, <2>3 DEF NlTypes, SameUpdate, KeepsDevices
  <2>5. inside' = inside
    BY <2>1 DEF Delete
  <2>6. NlPlaces'
    BY <1>1, <2>3, <2>5 DEF NlInv, NlPlaces, SameUpdate, Over, Free
  <2>7. StaysOnItsWay(Devices)
    BY <2>3 DEF StaysOnItsWay, OnItsWay, Otherwise, Listed, Asked, InQueue
  <2>8. QED
    BY <1>1, <1>2, <2>2, <2>4, <2>6, <2>7, Moves DEF SameUpdate
<1>6. ASSUME NEW d \in Devices, ReadStats(d)
      PROVE  NlInv'
  <2>1. Ask(Stats(d)) /\ UNCHANGED devState /\ module' = module
    BY <1>6 DEF ReadStats, devVars, devState
  <2>2. /\ queue' \in Seq(Messages) /\ sock' = sock /\ (overrun => overrun') /\ (InQueue => InQueue')
    BY <1>3, <2>1, AskKeeps, MessagesKnown
  <2>3. KeepsDevices({}) /\ devs' \ Excepted' = devs \ Excepted
    BY <1>3, <2>1, NothingHappens DEF devState, Excepted
  <2>4. NlTypes'
    BY <1>1, <1>3, <2>1, <2>2 DEF NlTypes, SameUpdate, devState
  <2>5. NlPlaces'
    BY <1>1, <2>1, <2>2 DEF NlInv, NlPlaces, SameUpdate, devState, Over, Free
  <2>6. \A e : Listed(e) => Listed(e)'
    BY <1>1, <2>2 DEF Listed, Asked, InQueue
  <2>7. QED
    BY <1>1, <2>1, <2>2, <2>3, <2>4, <2>5, <2>6, ThreadMoves
<1>7. QED
  BY <1>4, <1>5, <1>6 DEF Host

(***************************************************************************)
(* The theorem.                                                            *)
(***************************************************************************)

LEMMA NlInvInit == NlAssumption /\ NlInit => NlInv
<1> SUFFICES ASSUME NlAssumption, NlInit PROVE NlInv
  OBVIOUS
<1>1. NlTypes
  BY PassTypes
  DEF NlInit, NlTypes, Marks, Places, Passes, NoPass, Out, Devices
<1>2. NlPlaces
  BY DEF NlInit, LifeInit, NlPlaces, Free, Over
<1>3. Entries
  BY DEF NlInit, NlAssumption, Entries, Entry, Out, Devices
<1>4. AddedPending
  BY DEF NlInit, AddedPending
<1>5. NoneLeft /\ NoneForgotten
  BY DEF NlInit, LifeInit, NoneLeft, NoneForgotten
<1>6. QED
  BY <1>1, <1>2, <1>3, <1>4, <1>5 DEF NlInv

LEMMA NlInvStep == NlAssumption /\ ~oops /\ NlInv /\ [NlNext]_nlVars => oops' \/ NlInv'
<1> SUFFICES ASSUME NlAssumption, NlInv, ~oops', [NlNext]_nlVars PROVE NlInv'
  OBVIOUS
<1>1. CASE UNCHANGED nlVars \/ Bring \/ CloseUp \/ Told
  <2>1. SameUpdate /\ SameThread /\ astray' = astray
    BY <1>1
    DEF nlVars, Bring, CloseUp, Told, StartPort, ClosePort, Signal, lifeVars, tableVars, passVars,
        threadVars, sockVars, devVars, SameUpdate, SameThread
  <2>2. QED
    BY <2>1, StillKeeps
<1>2. CASE Exit \/ Dies \/ AnswerKills \/ HandlerAborts
  BY <1>2, EndKeeps
  DEF Exit, Dies, AnswerKills, HandlerAborts, Return, PortFails, SignalEarly, Kill, Abort, Ended
<1>3. CASE Start \/ (\E found \in SUBSET VfIds : Handlers(found)) \/ Initialised \/ Terminate
  BY <1>3, StartKeeps, HandlersKeep, MainTellsKeeps
<1>4. CASE \E t \in Senders : Inside(t)
  BY <1>4, InsideKeeps
<1>5. CASE \E t \in Updaters : Updating(t)
  BY <1>5, UpdatingKeeps
<1>6. CASE Free("nl") /\ (ListPf \/ ListAdd)
  BY <1>6, ListTellsKeeps
<1>7. CASE \/ OpenSocket \/ RecvFails \/ Receive
           \/ AnswerStats \/ AnswerFaults \/ AnswerSpins \/ HandlerCloses
           \/ ListDone \/ \E v \in VfIds : ListVf(v)
  BY <1>7, OpenSocketKeeps, RecvKeeps, AnswerKeeps, ListSlotKeeps
<1>8. CASE \E v \in VfIds : AddVf(v) \/ DelVf(v) \/ \E t \in Restorers : Restore(t, v)
  BY <1>8, AddVfKeeps, DelVfKeeps, RestoreKeeps
<1>9. CASE Host
  BY <1>9, HostKeeps
<1>10. QED
  BY <1>1, <1>2, <1>3, <1>4, <1>5, <1>6, <1>7, <1>8, <1>9
  DEF NlNext, Main, NlThread, Restorer, Requests, Senders, Updaters

\* With nothing under way the kernel module has a device for the PF and for each VF that VFd
\* manages, and no other, but for the devices it was told about too late or not at all and for
\* those that two threads added at once: in whatever order the module was loaded, VFd was
\* started and killed, VFs came, went and were restored and threads entered the module, and
\* however many messages the socket lost (vfd_nl.c, main.c:838-1065, vfd-net.c).
THEOREM DevicesFollow == NlSpec => []DevicesFollowTable
<1>1. NlInv => DevicesFollowTable
  <2> SUFFICES ASSUME NlInv, module = "in", ~lost
               PROVE  /\ vfd = "running" /\ Quiet => devs \ Excepted = (table \cup {Pf}) \ Excepted
                      /\ vfd = "ended" => devs \subseteq Excepted
    BY DEF DevicesFollowTable
  <2>1. ASSUME vfd = "running", Quiet
        PROVE  devs \ Excepted = (table \cup {Pf}) \ Excepted
    <3>1. /\ waiting = {} /\ pass = NoPass /\ queue = <<>> /\ ~overrun /\ pcN = "recv"
          /\ \A t \in Senders : inside[t] = Out
      BY <2>1 DEF Quiet, Free
    <3>2. NlTypes /\ AddedPending /\ sock = "open"
      BY <3>1 DEF NlInv, NlPlaces
    <3>3. ASSUME NEW d \in table \cup {Pf}
          PROVE  ~OnItsWay(d)
      <4>1. d # None /\ NoPass.by = None /\ NoPass.vf = None /\ NoPass.reason = "unchanged" /\ None # "main"
        BY <3>2, <3>3, PassTypes, NlAssumption DEF Senders, Updaters
      <4>2. ~Entering(d)
        BY <3>1, <4>1 DEF Entering, Out
      <4>3. ~Listed(d)
        BY <3>1 DEF Listed, Asked
      <4>4. ~Pending(d) /\ ~Leaving(d)
        BY <3>1, <3>2, <4>1 DEF Pending, Leaving, AddedPending
      <4>5. QED
        BY <3>1, <3>2, <4>2, <4>3, <4>4 DEF OnItsWay, Otherwise
    <3>4. (table \cup {Pf}) \ Excepted \subseteq devs
      BY <2>1, <3>3 DEF NlInv, NoneForgotten
    <3>5. devs \ Excepted \subseteq table \cup {Pf}
      BY <2>1 DEF NlInv, NoneLeft
    <3>6. QED
      BY <3>4, <3>5
  <2>2. QED
    BY <2>1 DEF NlInv, NoneLeft
<1>2. oops => DevicesFollowTable
  BY DEF DevicesFollowTable
<1>3. NlInit => oops \/ NlInv
  BY NlAssumption, NlInvInit
<1>4. (oops \/ NlInv) /\ [NlNext]_nlVars => (oops \/ NlInv)'
  <2>1. oops /\ [NlNext]_nlVars => oops'
    BY DEF NlNext, nlVars, devVars
  <2>2. QED
    BY <2>1, NlAssumption, NlInvStep
<1>5. QED
  BY <1>1, <1>2, <1>3, <1>4, PTL DEF NlSpec

=============================================================================
