# A TLA+ verification of VFd

VFd (`src/src/vfd`) is a daemon that owns the physical functions (PFs) of SR-IOV
NICs and decides what each virtual function (VF) may do: VLANs, MAC addresses,
rates, queue shares, anti-spoofing, mirrors.  A virtualisation manager drops a JSON
file per VF into a directory and asks, through a named pipe, to add or delete it;
guests reset their VFs and send mailbox messages at any time, and VFd must then put
back what it had configured.  This directory models that program, checks the models
with TLC and proves the central invariants with TLAPS.

Paths in this file are below `src/src`; `vfd_rif.c`, `main.c`, `sriov.c` and the
other files without a directory are in `vfd/`.

## The system

### Components

| Component | State | Operations | What makes it correct | Model |
|---|---|---|---|---|
| VF table, update pass and restore (`vfd_rif.c`, `main.c`, `sriov.h`) | `ports[].vfs[]`, `num_vfs`, the `last_updated` marks, `update_lock` | `vfd_add_vf`, `vfd_del_vf`, `vfd_update_nic`, `restore_vf_setings` | no VF twice, no mark lost, NIC agrees with table | `VfdConfig`, `VfRegistry` |
| Vetting and queue shares (`vfd_rif.c`, `qos.c`) | `vftc_qshares`, credit and rate registers | checks of `vfd_add_vf`, `gen_port_qshares`, `qos_set_credits`, `mlx5_set_vf_tcqos` | what was accepted once is accepted after a restart; each VF gets its part of a traffic class | `Admission` |
| Settings of a VF on the NIC (`sriov.c`, the four driver files, `main.c`) | filters, tags, limits, modes per VF | the setters that `vfd_update_nic` calls, link-state restore | own configuration, nothing of a former tenant | `NicSettings` |
| Refresh queue and readiness (`sriov.c`, driver files) | `rq_list`, `rte_refresh_q_lock`, `rx_q_ready`, drop bits | `add_refresh_queue`, `process_refresh_queue`, `is_rx_queue_on` | no reset forgotten, one entry a VF, nobody waits for ever | `RefreshQueue`, and in outline `VfdConfig` |
| Mailbox callbacks (`vfd_ixgbe.c`, `vfd_i40e.c`, `vfd_bnxt.c`) | none | answer, restore, queue a refresh, narrow a request | inside what is configured, never lose an event | `Mailbox` |
| MAC bookkeeping (`vfd_mac.c`) | `macs`, `num_macs`, `first_mac`, `mac_stab`, white list | `can_add_mac`, `add_mac`, `push_mac`, `clear_macs`, `set_macs` | uniqueness per PF, no leaks, limits | `MacTable` |
| Traffic mirrors (`vfd_rif.c`, `main.c`, `sriov.c`) and id manager (`lib/id_mgr.c`) | `mirrors[]`, `num_mirrors`, id pool, rules | add, `iplex mirror`, update pass, `close_ports` | ids distinct, rules match records | `Mirrors`, `IdMgr` |
| VF configuration files (`vfd_rif.c`, `lib/filesys.c`) | config and live directories | relocate, delete, `vfd_add_all_vfs` | what was answered survives a restart | `ConfigFiles` |
| Request interface (`vfd_rif.c`, `lib/fifo.c`, `lib/ng_flowmgr.c`, `lib/bleat.c`) and its clients | pipes, buffers, log level | `vfd_read_request`, `vfd_req_if`, `vfd_response`, `vfd_write` | every request ends, level restored, answers whole | `Requests` |
| Life of the process (`main.c`) | ports started, signal flags | start, signals, faults, `close_ports` | ports are closed at the end | `Lifecycle` |
| Netlink interface (`vfd_nl.c`) and kernel module (`vfd-net/vfd-net.c`) | socket, network devices | announce, list, statistics, load and unload | each managed VF has its device, others have none; the exceptions are below | `Netlink` |
| Device setup, statistics, parsing, hot plug, scripts, patches | - | - | - | not modelled, see below |

### Threads and how the parts interact

* **main** reads one request at a time (`vfd_req_if`).  An add goes `vfd_add_vf`
  (vet, reserve a slot, copy under the lock), `relocate_vf_config`,
  `vfd_update_nic`, `vfd_response`; a delete goes `vfd_del_vf` (remove the file,
  mark the slot), `vfd_update_nic`, `vfd_response`.
* **refresh** (`process_refresh_queue`) sweeps `rq_list` every 200 ms and calls
  `restore_vf_setings` for each ready entry, holding `rte_refresh_q_lock`.
* **intr**, DPDK's interrupt thread, runs the mailbox and link callbacks.  They
  queue a refresh, call `restore_vf_setings` directly, or change MAC lists.
* **netlink** (`vfd_nl.c`) answers the kernel module and walks the table for it
  without a lock.  The module's callback runs inside the send of whichever thread sends, so
  main, netlink, refresh and intr may be inside the module at once.
* `restore_vf_setings` stores `RESET` in the mark of each VF it matches and runs
  `vfd_update_nic`, which works through *every* slot with a mark, whoever set it.
* A signal handler sets `terminated`, or closes the ports itself after a fault, in
  the thread that faulted.

`update_lock` covers `vfd_update_nic` and the copy of `vfd_add_vf`.  It does not
cover `num_vfs++`, the `DELETED` mark, the scan and mark of `restore_vf_setings`,
`vfd_update_mirror` or the netlink thread.  Many of the hazards in `PROJECT.json`
come from there.

### Hard behaviours

Interleavings of the threads at the unlocked accesses; marks overwritten between
being set and being read; resets that arrive during a refresh; holes left by deletes
and reused; VF numbers that pass from tenant to tenant; a link that changes its speed
under configured rates; long request sequences that move `first_mac`, use up ids or
fill a list; process death between two file operations or with ports open; requests
that run together in the pipe, clients that stop reading; messages lost on the
netlink socket.

## The modules

| Module | Models | Uses |
|---|---|---|
| `VfdConfig` | one PF's table and the three threads | `VfRegistry` (refinement) |
| `VfRegistry` | abstract: what a client of the request pipe is promised | |
| `Mailbox` | tables of what each message of a guest's driver leads to | |
| `RefreshQueue` | queue, its two locks, readiness, drop bits, callbacks | `Mailbox` |
| `NicSettings` | what an update leaves on the NIC, four kinds of NIC | `Mailbox` |
| `Admission` | vetting, queue shares, credits and rates, restarts | |
| `MacTable` | MAC lists, symbol table, white list of one PF | |
| `IdMgr`, `Mirrors` | `lib/id_mgr.c`; records, ids, count and rules of mirrors | `Mirrors` extends `IdMgr` |
| `ConfigFiles` | directories, table, crash and restart | |
| `Requests` | request pipe, buffers, log level, answers, clients | |
| `Lifecycle`, `Netlink` | the process; both ends of the netlink socket | `Netlink` composes `Lifecycle` |
| `VfdConfigProofs` | theorems about `VfdConfig`, its restores and its refinement | `VfdConfig` |
| `RefreshQueueProofs`, `NicSettingsProofs`, `MacTableProofs`, `MirrorsProofs`, `RequestsProofs`, `NetlinkProofs` | theorems about the module they are named for | the module they are named for |
| `VfFilesProofs` | theorems about what becomes of the VF files: kept, vetted, shared out; sums over finite sets | `ConfigFiles`, `Admission` |
| `MC*` | constants for TLC | the module they are named for |

Definitions commented as a mutant, such as `FreeUnchecked` next to `Free`, are wrong
variants of the definition beside them.  They occur in no specification; putting one in
the place of its neighbour must make a property fail, which shows that the property
depends on that line of code.

### VfdConfig

`num[y]`, `upd[y]`, `cfg[y]`, `macs[y]` are the fields of `port->vfs[y]`; a
configuration is an opaque value, and the NIC remembers per VF which configurations
its VLAN filter, MACs and other settings were programmed from, so that a VF half
programmed, or programmed from another VF's slot, can be told apart.  `pc`, `cur`,
`scan`, `rvf` are the program counter and locals of each thread.

One action is one stretch of code in which no other thread's access matters:

| Actions | Code |
|---|---|
| `AddRejected`, `AddReserve`, `AddClear`, `AddFill` | `vfd_rif.c:657-992`: vetting; `num_vfs++` before the lock; lock and `memset`; copy, `ADDED`, unlock |
| `DelRejected`, `DelMark` | `vfd_rif.c:1077-1157`: search and `DELETED`, no lock |
| `UpdLock`, `UpdSkip`, `UpdVlans`, `UpdMacs`, `UpdOpts`, `UpdMark`, `UpdUnlock` | `main.c:838-1120`: the parts of the pass, which each read `last_updated` again |
| `ScanSlot`, `FlagReset` | `main.c:1256-1283` |
| `RefreshPick`, `RefreshPop`, `CallbackQueue`, `CallbackRestore`, `CallbackDone`, `CallbackRequeue` | `sriov.c:1194-1315`, `vfd_ixgbe.c`, `lsi_event_callback` |
| `GuestReset`, `Interrupt` | the device (external): a reset loses the VF's settings and raises an interrupt |

`1U << -1` in `VFN2MASK` is undefined; `Selected` allows its outcomes: no VF, or the
VF that x86's masked shift selects.  In a sweep the refresh thread keeps
`rte_refresh_q_lock` from one entry to the next; the model lets it go between
entries, which adds behaviours and removes none.  Every queued entry is taken as
ready here; `RefreshQueue` has the readiness.

`VfRegistry` is a table, a NIC and at most one request under way.  The mapping takes
`table` from the slots (a slot reserved and not filled is not a VF), `nic` from what
the NIC holds ("mixed" while half programmed) and `busy` from main's pass.

### Mailbox and RefreshQueue

`Mailbox` gives for each kind of NIC the messages a guest's driver sends, those that
are checked (`Checked`), that restore at once (`RestoresNow`), that queue a refresh
(`QueuesRefresh`), the answer (`Answer`), and how a request for modes is narrowed
(`I40ePromisc`, `BnxtRxMask`).

In `RefreshQueue`, `item[n]` is the `rq_entry` at node n, `slot` and `ready` are `num`
and `rx_q_ready` of the VF slots, `on` says whose queues are up, `set` whose settings
the NIC has, `drop` whose rx drop bit is on.  `CbTake` to `CbAnswer` are the callback
(with `add_refresh_queue` in three steps, because it lets its lock go between search
and push: `sriov.c:1194-1229`), `Wake` to `GoToSleep` a sweep (`sriov.c:1263-1318`).
`rqLock` is held over a whole sweep, `updLock` for the pass of a restore.  `AddVf` and
`DelVf` are one step each.  `is_rx_queue_on` of an i40e follows a null pointer when the
VF is gone; that sets `crashed` and ends the behaviour.

### NicSettings

`nic[v]` is a record of a VF's settings; a field is changed by a setter only if the
driver passes that setting on (`Has`, from the dispatch in `sriov.c` and the wrappers in
the driver files).  `Activate` is the ADDED and RESET part of `vfd_update_nic`,
`Deactivate` the DELETED part, each with its setters in the order of the code, and
`Rates` with the `uint16_t` and the refusal of rates above the link's speed.
`GuestResets`, `GuestAsks`, `RefreshVf`, `LinkChanges` and `LinkInterrupt` are what may
happen between requests.

`SharesFit` is what `LimitsFollowLink` takes for granted of the configurations: every
link that is up makes at least 100 Mbit/s (on 10 Mbit/s a rate of 101%, which the setters
refuse above 100%, rounds down to the link's speed and is accepted), and no share of it
needs more than 16 bits.  The run's module states it as an assumption of its instance.

### Admission

A request is one step: `Admissible` has the checks of `vfd_add_vf` in their order, with
the loop over VLANs that stops before the last, integer division in
`check_qs_spread`, the eight bits of a share and the off-by-one bound of a mirror's
target.  `GenShares`, `Credits`, `TcRates` are `gen_port_qshares`, `qos_set_credits` and
`mlx5_set_vf_tcqos`.  `slots` is `port->vfs` up to `num_vfs`, holes included; the totals
that `vfd_add_vf` and `gen_port_qshares` add up in loops are sums over its `Active` slots.
`Restart` keeps the live files and the NIC; `RestoreFile` reads the files back in any order.

`min_rate` and its total are C floats.  The model has whole numbers of a 2^27th of the link
and rounds every addition to 24 bits (`Rounded`), in the order of the slots (`RateTotal`), so
the check of `vfd_rif.c:747` depends on that order here as it does in the code: rates of
0.60, 0.33 and 0.07 are taken in some orders and refused in others.  `RatesLeaveRoom` is what
`RestartKeepsAll` asks of the live files: no rate is negative, and the exact sum is far enough
below the limit (four units for each file) for no order to make a difference.  `ConfigTypes`, the assumption about the fields of a file, does
not say that rates are not negative, because `read_config` does not.

`Share` has the loop of `vfd_rif.c:319-325` as it is written: it does not count what it hands
out, so every VF of a class that rounding left short gets one percent more, and a class may
total more than 100.  `SharesFilled` and `NicFollowsShares` say what the code does reach,
`SharesTotal100` what its comments promise.  The few quotients that double arithmetic
computes on the other side of a whole number are constants (`FallsBelow`, `EndsAbove`).

### MacTable

Each operation of `vfd_mac.c` is a step; the interleavings are `VfdConfig`'s.
`macs[v]` has the reserved entry 0 for a pushed default and one index beyond the
array, because `add_mac` can compute it (`num_macs + first_mac` with the list full).
`num_macs` is set to the number in the file, as the code does, also when `add_mac`
took fewer: `FirstUses` are the places of the file at which an address occurs first, and
`Taken` gives the entries that these come to.  Removing a white-list address removes it
port-wide (`WhiteWithout`).

### Mirrors and IdMgr

`IdMgr` keeps the two bounds of `id_mgr.c` as they are written.  `ByteBits` and
`NumIds` scale the pool: with one bit per byte and three ids, "byte further out
than ids in use" happens with three mirrors instead of seventeen.  A `mirror_s.id`
is a `uint8_t`; `IdRange` scales its width together with `NumIds`, so that -1
becomes the last id exactly as 255 does for 256 ids.  The pool has no more ids than
that width (`MirrorSizes`; `main.c:1547` makes it with 256).  `PassRead`/`PassProgram` and
`TurnOn`/`TurnOff`/`CallNic` separate what is read from the record from the call that
writes the NIC.  `past` records what has happened (ids exhausted, a request met a
restore, a restore programmed a mirror), so that properties can say exactly under
which history they hold.

The NIC may refuse any call, and always refuses an id of `NicRules` or more (an ixgbe has four
rules).  `vfd_update_mirror` then answers ERROR and the pass writes a log line; the
`mirror_s`, its id and the count stay as if the rule were there (`vfd_rif.c:589`).  `refused` has
the ids whose last call was refused: about their rules nothing is said until a call succeeds.
`RuleLeft` has what a refused call leaves: the rule as it was, or none, because `set_mirror`
turns the other direction off first.  An mlx5, which has no ids and is reached by
`vfd_mlx5_set_mirror`, is not modelled.

### ConfigFiles

Directories map base names to contents, `Broken` (truncated or unreadable) or
`NoFile`.  `cp_file` is three steps: truncate the target, write, unlink the source,
so a crash may leave a partial live file or both files.  `told` is what the last
answer said of each VF.  A restart passes every live file through all the vetting of
`vfd_add_vf` again and moves one that is refused away (`vfd_rif.c:1029`): `BootFile` may refuse
any file, and `refused` has the VFs that lost theirs in this way.  Whether the vetting does
refuse a file that it took before is what `Admission` is about.  The virtualisation manager
may write any file except the one a request is working on.  `Paths` and `Outcomes` say which directories requests
name and whether file operations may fail.

### Requests

The text of a request is two tokens and one newline (`vreq`) or two (`iplex`); the
buffers of `ng_flowmgr.c` hold `RBuf` tokens.  `KeepPartial`, `GetLine`, `ReadPipe`
are `rfifo_read`, which ends a block at an empty line or an empty pipe; `NoRequest`
and `TakeRequest` are `vfd_read_request`; `Perform` is `vfd_req_if`, where a request
only succeeds or fails; `OpenResponse` to `Finish` are `vfd_response` and
`vfd_write` with its limited retries on a full pipe.  `RBuf` is at least 4
(`ReqAssumption`), which is a whole `iplex` text with both of its newlines: the buffers of
the code are larger than any request, and with smaller ones `rfifo_read` would find no
room for a line.  `cur`, `old` are the levels of
`bleat.c`, which keeps one level only.  Clients open, read and leave at any time.

### Lifecycle and Netlink

`Lifecycle` is the process: ports started one by one, `set_signals` only then, a loop
until `terminated`, `close_ports` in main or in the handler of a fault.  `Netlink`
gives each of its steps a meaning for the socket and the table.  Messages to VFd queue
in the socket and are lost when it is full.  `ListVf` and `ListAdd` separate the
unlocked read of a slot from the message.

`pass` is an update pass with its lock, made by main or by one of the `Restorers`.  `Visit`
reads the mark and tells the module, `UnsetNum` reads the mark again, `ClearMark` stores
UNCHANGED (`main.c:918`, `1006`, `1065`); `Restore` stores RESET over any mark, without the
lock, between them.  `inside[t]` is where in `add_vfd_net` thread t is: the test, the store of
the entry and the registration are three steps (`AddDev`, `StoreDev`, `RegisterDev`).
`oops` ends a behaviour in which the module uses what is not there: statistics for a device that
is gone, a device deleted by one thread before another has registered it, or a module unloaded
with devices or threads inside.

Two histories name the devices that nobody can be held to.  `astray` has those that were
announced after what should have removed them, those of VFs whose ADDED mark a restore
overwrote before the pass (only ADDED sends the message: the VF is managed and its device is
never announced), and those whose mark changed between the message and its second
reading.  A device leaves the set when the module is told of it again, by a list for
instance.  `twice` has the devices that two threads added at once.  `DevicesFollowTable` and
`DevicesAppear` except both.  `delete_vfd_net` is one step: two threads deleting the same
device at once, or the deletes of `rmmod` meeting those of VFd, are not modelled.

## Runs

| Run | Instance | Shows |
|---|---|---|
| `ConfigRestore` | 2 slots, 2 VFs, 3 events of all kinds, no requests | managed VFs end up programmed; entries leave the queue only when repaired; every loss is repaired |
| `ConfigRace` | 2 slots, 3 VFs, 2 configurations, 4 requests; with 2 events in behaviours of 2 requests, 2 VFs and 1 configuration | types; until the first interrupt adds and deletes refine `VfRegistry`; table, marks and lock stay consistent; every request is answered |
| `RefreshQueue` | 2 VFs, 1 slot, 2 nodes, 2 messages, 2 requests, 3 kinds of NIC | one entry a VF, drop bit follows it, no loss forgotten, restores only when ready, entries served, callbacks end |
| `NicSettings` | 2 VFs, 5 configurations, 4 requests, 3 events, speeds 0, 1 and 10 Gbit/s, 4 kinds of NIC | own configuration, limits follow the link, nothing left of a deleted VF, guests stay bounded |
| `Admission` | 13 files for 3 VFs; ixgbe with 4 traffic classes, mlx5 with 8; with and without oversubscription | a restart keeps all whose rates leave room; each VF gets its part of a class; credits and rates follow |
| `MacTable` | 2 VFs, 3 addresses, 4 entries a VF, 3 a PF | no leaks, white list within the lists, uniqueness until a push |
| `Mirrors` | 3 VFs, 3 ids of which the NIC takes 2, any call refused, 5 requests, 1 restore | ids, rules and count |
| `ConfigFiles` | 2 VFs, 3 base names, 4 dropped files, 2 crashes | answers survive and no live file is lost unless a restart refuses it, directory equals table |
| `Requests` | 2 requests of 6 texts, buffers of 6 tokens, pipe of 2 writes, 2 tries | level restored, requests lost only to a neighbour, answers whole, every request ends |
| `Netlink` | 2 ports, 2 VFs, 1 restoring thread, 2 starts that find files for 1 VF at most, 3 events of all kinds, socket of 1 message | devices follow the table and appear, with the exceptions named; the process ends with its ports closed |
| `LostDelete` | a delete and a negotiate message | finding |
| `SharesTotal` | the instance of `Admission` | finding |

### Why these bounds are enough to be interesting

Two slots and three VFs make the table full, and a delete in front of another VF
makes a hole that the next add fills.  In `ConfigRace` (`MCSpec`) behaviours with
interrupts are `Small`, with no more than `MaxBoth` requests: two requests and two events
put both restore paths into every step of an add and a delete.  The bound holds back requests and interrupts, and no step of a
thread, so the fairness of the threads is unharmed.  Three events let a
reset arrive while an earlier one of the same VF is applied.

In `RefreshQueue` two messages let a VF reset again while queued, or two VFs compete
for a sweep; the single slot passes from one VF to the other while an entry is
queued.  Four requests in `NicSettings` give a number to two tenants, with a third VF
event or link change anywhere between; the configurations differ in each branch of
the setters (one tag, two VLANs, either kind of tag, a rate above the link's, minimum
rates, modes).  The files of `Admission` pass and fail each check, and include rates that are
taken in some orders only, a negative rate and a share of 256.

In `MacTable` the files include a duplicate, and the PF limit is below the sum of two
lists; the VF limit leaves `num_macs + first_mac` inside the array.  Five mirror
requests are enough to take all three ids, leak one and ask for another; the last id is one
the NIC always refuses, the others it may refuse.  Two crashes put a crash into the restart
that follows the first.  Two requests run together in the pipe in every way, a
buffer of six tokens cuts the second, and an answer of three or four writes does not
fit a pipe of two.  Two starts let a process inherit the module of one that died; three events
are a start, an add or a load, and a restore, delete or unload that meets it; one message fills the
socket, so the second overruns it.  A start finds the file of one VF at most, either of
the two; the other comes with an add.

### Fairness and deadlock

* `VfdConfig` (`FairSpec`): weak fairness of each thread, `Main`, `Refresh` and
  `Callback`; the kernel schedules all three, and a callback is called for each
  interrupt.  A spinlock gives no order, so a thread might be overtaken for ever; the
  numbers of interrupts and requests are bounded, after which the competition ends.
* `RefreshQueue` (`RqFairSpec`): weak fairness of the refresh and of the interrupt
  thread, and strong fairness of the callback's steps that take
  `rte_refresh_q_lock`: the refresh thread sleeps 200 ms between sweeps
  without it, and a thread that spins gets it then.
* `Requests` (`ReqFairSpec`): weak fairness of VFd's main loop only; clients may stop
  for ever.
* `Netlink` (`NlFairSpec`): weak fairness of main, of the netlink thread and of each
  restoring thread; `update_lock` is free between passes, and restores are bounded.

Nothing is assumed of requests, guests, the host and the device.  `Poll` of
`VfdConfig` is the idle system: main polling an empty pipe.  Deadlock is checked in
all runs except `Mirrors`, where `ClosePorts` ends the program; `NicSettings`, which has
no idle step and ends at its bounds; `RefreshQueue`, which ends when a null
pointer is followed; and `Netlink`, which ends at its bounds or when the kernel module
follows one.

## Findings

* **A delete may be lost** (`LostDelete`).  `restore_vf_setings` stores `RESET`
  over a `DELETED` mark, or a pass stores `UNCHANGED` over it; the client is told
  the VF is deleted and VFd manages it still.
* **Queue shares may total more than 100** (`SharesTotal`).  The loop that tops a traffic
  class up to 100 (`vfd_rif.c:319-325`) never increments the sum it tests, so every VF of a
  class that rounding left short gets one percent more.  Shares of 29 and 3 become 91 and
  10, and three equal shares 34 each.  The comments there and the documentation
  (`vfd_hackers.xfm:466`) promise exactly 100.  On an mlx5 the class rates then promise more
  than the link has.

### Behaviours met while modelling

The code does what follows; no document or comment that the models could be held to
says otherwise, except where one is quoted.  The properties are stated so that they hold
beside these behaviours, and name the exception.

Table, restore and files:
* A link-up restore during an add meets the slot exposed by `num_vfs++`, which is zeroed
  and has number 0, and programs VF 0 from it (`vfd_rif.c:912`).
* Link-up restores also match holes (`vf_id == num` when both are -1), and the VLANs of
  the deleted VF go to the VFs of `VFN2MASK(-1)` (`main.c:1277`).
* A delete whose live file cannot be removed is reported all the same, and the VF is back
  after a restart.

* A restart vets every live file again and moves away what it refuses (`vfd_rif.c:1029`).  A VF
  that was accepted may be dropped, because the total of `min_rate` is a float whose value
  depends on the order (`vfd_rif.c:747`).  With 0.60, 0.33 and 0.07, or with a negative rate, a
  restart in another order refuses the last file.

MACs and mirrors:
* `push_mac` does not enter a default in the symbol table, so two VFs may get one address.
* An iplex request that turns a mirror off while a restore is about to write its rule
  leaves the rule in the NIC.
* When the NIC refuses a mirror (an ixgbe has four rules) the client gets ERROR, and the
  record, its id and the count stay as if it were on (`vfd_rif.c:589`).
* `iplex mirror off` does not return the id; after 256 of them `idm_alloc`'s -1 becomes
  id 255.

NIC settings and refresh:
* On a link of 100 Gbit/s the product in the rate setters passes through a `uint16_t`
  and wraps.
* An i40e guest that may have both promiscuous modes and asks for both gets neither until
  the refresh: the masks are applied one after the other (`vfd_i40e.c:536`).
* A deleted VF keeps VLAN stripping, anti-spoofing and broadcast until its number is used
  again; the comment at `main.c:1020` speaks of "VF cfg to default".
* On an mlx5 the multicast and the unicast modes share one "trust": the second setter wins.
* `strip_stag` with more than one VLAN strips and does not insert.
* The DCB start of a port does not register the link callback, so rates do not follow the
  link there.
* `is_rx_queue_on` of an i40e follows a null pointer when its VF was deleted while queued
  (`vfd_i40e.c:654`).

Vetting and shares:
* The last VLAN of a list is not range-checked (`vfd_rif.c:799`); the spread of shares is
  an integer quotient, so 10.9 passes for 10 (`vfd_rif.c:247`).
* A share of 256 or more wraps (`lib/config.c:573`).
* Credits are written for four classes whatever the PF has (`main.c:1074`).
* A negative `min_rate` is not rejected (`lib/config.c:487`).
* Nothing checks that `vfid * ntcs` stays below `MAX_QUEUES` (`vfd_rif.c:313`); the model
  assumes it.

Requests:
* Two `vreq` texts that arrive in one read are one JSON text of two objects, and both
  are dropped (`lib/jwrapper.c:213`).
* A client that stops reading costs the main loop 2.5 s for each line of its answer.
* A truncated answer leaves `iplex` in a loop (`system/iplex:343`).
* A mirror request while `forreal` is off is never answered (`vfd_rif.c:1577`), and that
  request's log level stays; so does that of a request whose response pipe cannot
  be opened (`vfd_rif.c:1239`).

Process and netlink:
* A device may be announced for a VF deleted meanwhile, and stays (`vfd_nl.c:376-378`).
* A restore that stores RESET over ADDED before main's pass programs the VF, and the kernel
  module is never told of it (`main.c:918-931`, `1281`): the VF has no device.  A RESET stored
  between the message of a delete and the second reading of the mark leaves a managed VF whose
  device is gone.
* Two threads may be in `add_vfd_net` for one device (`vfd-net.c:331`): the second registration
  fails and clears the entry of the first, so the device is not found again; and a delete may
  meet a device that another thread has stored and not registered.
* Statistics asked for a VF that is deleted before the answer: `suss_vf` gives null and
  VFd faults (`vfd_nl.c:284`); an answer about a device that is gone is followed
  by the kernel module (`vfd-net.c:117`).
* After a fault the handler closes the ports from the faulting thread while main may do
  so too (`main.c:1154` and `main.c:1827`); when `terminated` is set already the handler
  returns to the faulting instruction (`main.c:1145`).
* A port that fails to start, or a signal before `set_signals`, ends the process with the
  earlier ports open (`main.c:1686`), which the comment at `main.c:1183-1186` says
  crashes physical hosts.
* An error of `recv` after an overrun ends the netlink thread for good (`vfd_nl.c:148`),
  and the first message of main is lost when the thread has not opened its socket
  (`main.c:1798`).

## Proofs

The theorems hold for every value of the constants that satisfies the assumptions of the
module (`ASSUME`, evaluated by TLC in the runs) and the hypothesis that the table names, if
any, and for any number of VFs, slots, requests, messages and crashes.

| Module | Theorem | Statement |
|---|---|---|
| `VfdConfigProofs` | `TypeCorrect` | `[]TypeOK`: inserts and all loops stay inside `vfs[]` |
| | `UpdatersExclude`, `FlagsAreSettled`, `VfsAreUnique` | `[]OneUpdater`, `[]FlagsSettled`, `[]UniqueVfs` |
| | `Invariance` | `[]IInv`, the inductive invariant behind them |
| | `RestoresComplete`, `PopsAreProgrammed` | while no request comes: `[]ManagedIsProgrammed`, `PopMeansProgrammed` |
| | `RequestsImplement` | `Spec => ImplementsRegistry`, which is the refinement until the first interrupt |
| `RefreshQueueProofs` | `QueueTypesHold`, `OneEntry`, `DropFollows` | `[]RqTypeOK`, `[]OneEntryPerVf`, `[]DropFollowsQueue` |
| | `NoLossForgotten`, `RestoresAreDue` | `[]LossIsRemembered`, `RestoresWhenReady` |
| `NicSettingsProofs` | `OwnConfiguration`, `NumbersAreCleared`, `GuestsStayBounded` | `[]AsConfigured`, `[]NothingLeft`, `[]GuestKeepsBounds` |
| | `LimitsFollow` | under `SharesFit`: `[]LimitsFollowLink` |
| `MacTableProofs` | `MacTypesHold`, `NothingStaysMapped` | `[]MacTypeOK`, `[]NothingLeaks` |
| | `WhiteStaysListed`, `UniqueWithoutPush` | `[]WhiteIsListed`, `[]UniqueUntilPush` |
| `MirrorsProofs` | `IdsStayHeld`, `RulesMatchMirrors`, `CountStaysRight` | `[]IdsHeld`, `[]RulesMatch`, `[]CountIsRight` |
| `VfFilesProofs` | `FilesAreKept`, `AnswersSurvive`, `LiveIsWhatIsManaged` | under `Orderly`: `[]NeverLost`, `[]AnswerSurvives`, `[]LiveMatchesTable` |
| | `RestartKeeps` | `RestartKeepsAll`, whose condition is `RatesLeaveRoom` |
| | `SharesFill`, `RegistersFollow` | `[]SharesFilled`, `[]NicFollowsShares` |
| `RequestsProofs` | `LevelKept`, `LostOnlyToNeighbour`, `AnswersAreWhole` | `[]LevelIsKept`, `[]LostToNeighbour`, `[]AnswerIsWhole` |
| `NetlinkProofs` | `DevicesFollow` | `[]DevicesFollowTable` |

**VfdConfig.**  `UniqueVfs` and `FlagsSettled` are not inductive.  A pending add
(`reserved`, `cleared`) has vetted its VF number without the lock; that no other slot
gets the number before the copy holds only because no other thread ever changes a
number to anything but `NoVf` (`AddPending`), and that again because places of threads
and requests fit together (`Places`).  That an answer is never given before the mark is
gone needs to know where the mark can be while main waits for the lock
(`MarkPending`): while main is at `update`, or in its pass in front of the slot, the
mark may still be there, and behind it, it is not.  `IInv` is the conjunction of
`TypeOK`, `Places`, `OneUpdater`, `AddPending`, `UniqueVfs` and `MarkPending`.

**Restores.**  `RestInv` follows a loss from the guest's reset to the pass that repairs
it.  While the interrupt is outstanding the VF may lack anything (`LossAhead`); after it
the VF is queued, and as long as the refresh thread is at work on it, either the scan has
not reached its slot, or the slot is flagged and the pass has not gone by (`ToCome`).
`PartsDone` says what a pass has programmed so far.  Why no reset spoils a pass: the
callback that takes the interrupt up waits until both threads are idle, so a pass is told
of no loss before it ends, and a VF that loses its settings behind the pass has its
interrupt still ahead.  The hypothesis `Requests = {}` is that of run `ConfigRestore`.  With
requests neither property holds: a restore may flag a slot whose delete is half through its
pass (see Findings), and an add may fill in a slot that the scan of a restore has passed,
so that the entry goes before main has programmed the VF.

**Refinement of VfRegistry.**  Before the first interrupt (`NoneBefore`: only an interrupt
ends that time) main is alone (`Alone`), so `RegInv`
can say of each moment of an add or delete what slots, marks and NIC hold: the one mark
is that of the request (`MarksFit`), the NIC agrees with the table for all other VFs
(`NicFits`), and for the VF of the request one part after the other is replaced
(`PassFits`).  The copy of an add and the mark of a delete map to `VfRegistry`'s accept,
the three parts of the pass to its change of the NIC, the unlock to the answer; all other
steps stutter.  After an interrupt the refinement does not hold: `LostDelete` is a
counterexample.

**RefreshQueue.**  `QInv` says where both threads are and who holds which lock;
`FoundNone` (between search and push there is still no entry, because only the
interrupt thread adds any) makes `OneEntryPerVf` inductive.  `LossInv` splits the VFs
whose settings are lost into those whose message will search the queue, those that are
queued, and those whose queues are down; the VF of an entry about to leave the list is
covered otherwise.  `EnabledFits` (an enabled entry's VF is up, or went down since it was
asked, also for an entry filled in and not yet pushed) carries `RestoresWhenReady` from
where the entry was enabled to the restore, which may be a sweep later.

**NicSettings.**  The invariant of a VF (`VfInv`) has four parts: what the driver does
not pass on is as at the start; what a managed VF holds is part of its own
configuration, also after resets and restores (`Held`); when it waits for no
restore it holds all of it (`Full`); an unmanaged number holds nothing (`Empty`).  The
first two are what makes a delete complete, because its update removes only
what the configuration names.  `LimitInv` says that a rate above 100% never is a
limit, and that the limits of a VF fit the speed unless a restore of it or the interrupt of
a change of the link is outstanding; `SharesFit` makes the 16 bit product exact.

**MacTable.**  `MacInv` says where an address can be: `ListsFit` relates `first_mac`,
`num_macs` and the entries (a hole counts none, the next entry of an empty list is 1);
`StabHeld` puts every mapped address at an entry behind the reserved one, so a push,
which writes the reserved entry only, cannot hide a mapping from `clear_macs`;
`WhiteBehind` puts white-list addresses behind the default; `UntilPush` has that
the lists start at 1 and the symbol table is exactly what is in use.  Each is needed by
the others when a list is cleared and filled again.

**Mirrors.**  `Apart` says who may be where as long as no request has met a restore: what a
thread has read of a record is still there when it tells the NIC.  `RulesFollow` is then
`RulesMatch` for every moment: a mirror with a target has the rule that is due (none while its
VF is new), unless main is just about to call the NIC, and every rule is of such a mirror; ids
in `refused` are left out on both sides until a call for them succeeds.
`CountFollows` leaves out the mirrors of new VFs, which `num_mirrors` has yet to count.  `LeastNumber`
(a set of numbers that is not empty has a least one,
from the well-foundedness of finite subsets) gives that `idm_alloc` finds a free id.

**Requests.**  `LevelInv`: between a push and its pop `old_level` is the level to
return to, and the only request that changes it sets both.  `FlowInv`: what is not yet a
line (partial line, buffer and pipe, one after the other) is whole requests in the order they
were sent, after at most one empty line, and the block holds consecutive requests
of which all but the last were followed at once by the next; this does not depend on where
the buffers cut the text.  `AnswerInv`: what a client has got, what waits in its pipe
and what is still to be written are together an answer to its own request.

**Netlink.**  `NlInv` holds as long as the kernel module has not failed (`oops`).
`NoneForgotten`: a managed VF that is not excepted and has no device is on its way, because a
request for the list is queued, or the thread has not passed its slot, or a thread is inside
`add_vfd_net` for it, or its mark is ADDED and a pass has not come to it, or the socket has
overrun or is closed, and then nothing is received any more.  `AddedPending`: such a pass is
main's, waiting or under way, so a mark that is still ADDED is not overlooked.  `NoneLeft`: a
device that is not excepted is of a VF that no pass has taken back.  `Entries` says, for devices
that no two threads have added at once, that the module's entry and the registered device
agree, and that the thread that is adding it holds the entry.  `NlPlaces` ties the socket to
the netlink thread and says that nothing of a process outlives it.

**ConfigFiles.**  `FilesInv` follows the file of the request through copy, write, unlink
and remove; `OneLive` says that no VF has two live files, so a restart in any order
builds the same table from the files that it does not refuse.  `Orderly` is the use that the
documentation describes: adds name
files of the config directory, deletes files of the live directory, a base name is one
VF's, file operations succeed.

**Admission, restart.**  `LiveFits`: the live files are those of the VFs in the table and
those still to be read, no file is both, and together they fit on the PF.  `Fits` says
of a *set* of files what `Admissible` asks of one file and a table, so it does not depend on
an order: totals are sums over the set, and the spread of the shares is bounded pair by
pair.  That a restart accepts every file is then `FitsAccepted` (a file that fits together
with those of the table is accepted) and `PartFits` (a part of what fits, fits), for which the
sum over a part must be no more than that over the whole: VLANs and shares are
counts, and of rates `Fits` says nothing.  That they are accepted is `RatesFit`: a total of
floats that are not negative exceeds the exact sum by at most four units an addition as long
as it is below 1.0 (`RoundedUp`, `RateTotalBound`), in any order, so `RatesLeaveRoom` is enough.
It is needed: with rates of 0.60, 0.33 and 0.07 TLC finds a restart that drops a VF.

**Admission, shares.**  `NicFollows` says that the shares and registers are those computed
from the table as it is, and that an mlx5 with four classes has no class rates.  What these
are is then arithmetic: what rounding cuts off is less than one percent per VF
(`ScaledShare`), so with one more for each VF a class is not short, and as a class that is
short lacks at least one it ends less than its number of VFs over 100 (`SharesOfClass`); a
credit is rounded up from a quotient by the lowest share, so it is positive,
grows with the share and covers a frame (`CreditsFollow`); class rates are rounded
down, are at least the VF's part, and add up to no more than the shares do of the link
(`RatesOfLink`, `RateAtLeast`).

**Sums.**  `SumFunctionOnSet` is recursive.  Its recursion has one solution on a finite set
(`SumExists`, `SumsAgree`), from which follow what taking an element out does (`SumOut`), and
by induction order, addition, parts and sums through a bijection (`SumLeq`, `SumPlus`,
`SumOfPart`, `SumThrough`).  The induction is over the parts of one set, with the set of
those that have the property in the place of a predicate (`PartInduction`): among the parts
without it there is a smallest (`SmallestPart`, from the well-foundedness of finite subsets).

Only model-checked are the liveness properties (`LossIsRepaired`, `RequestsAnswered`,
`PendingIsServed`, `CallbacksEnd`, `EveryRequestEnds`, `DevicesAppear`, `ShutsDown`): they
rest on fairness and are out of the prover's reach.

## Not modelled

* Device setup and PF registers (`port_init`, `dcb_port_init`, the traffic class
  registers of `qos.c` and `vfd_dcb.c`): DPDK calls in a fixed order at the start;
  `Lifecycle` has that a port is up after them or the start fails.
* Statistics (`iplex show`): reads hardware and formats.
* JSON and parameter parsing, the hashing of the symbol table, logging: pure functions;
  what the fields mean is in the modules that use them.
* Export (`copy_vf_config`) and `ensure_dir`: write a copy elsewhere, make directories.
* `idm_use`, `idm_is_used`, `idm_free`: VFd never calls them.
* The default MAC register, which VFd only writes.
* Hot plug and user callbacks: shell commands without effect on VFd's state.
* Mirrors of an mlx5 (`vfd_mlx5_set_mirror`): commands that write the driver's files in sysfs, without ids.
* Two threads in `delete_vfd_net` for one device.
* Start-up scripts, DPDK and kernel patches, packaging, helper programs.
* Several PFs: ports share `update_lock`, the refresh queue and the id manager, and
  nothing else.

## Plan

1. MAC operations split at the accesses that two threads share (`push_mac` in a
   callback against `clear_macs` in the pass).
2. The registers of the traffic classes (`qos.c`), with restarts that change the number
   of classes.
