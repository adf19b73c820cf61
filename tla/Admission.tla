----------------------------- MODULE Admission -----------------------------
(***************************************************************************)
(* Which VF configurations VFd accepts on a PF, and the queue shares the   *)
(* accepted ones end up with on the NIC: the vetting of vfd_add_vf, the    *)
(* two checks of queue shares, their normalisation by gen_port_qshares and *)
(* the credits (ixgbe) or rates (mlx5) that vfd_update_nic pushes.         *)
(*                                                                         *)
(* A request is served by one thread from its reading to the end of the   *)
(* NIC update, so it is one step here; VfdConfig splits it where other     *)
(* threads may come in between.  A refused request changes nothing and is  *)
(* not a step.  MacTable vets the addresses.                               *)
(*                                                                         *)
(* Floating point: min_rate and its sums are floats, here whole numbers of *)
(* a 2^27th of the link, which holds every float from 1/16 up.  A quotient *)
(* computed in double is exact unless the true one is a whole number that  *)
(* the computed one just misses; FallsBelow and EndsAbove list those.      *)
(***************************************************************************)
EXTENDS Integers, Sequences, FiniteSets, FiniteSetsExt, Functions

CONSTANTS
  Configs,     \* the VF files clients write: [vfid, minRate, vlans, queues, cbs, target]
  FallsBelow,  \* <<share, sum>> for which share * (100.0 / sum) falls below a whole number
  EndsAbove,   \* <<share, lowest>> for which share * (mtu / 64.0 / lowest) ends above one
  Ports,       \* the PFs VFd may run on: [nic, ntcs, oversub]
  Nvfs,        \* nvfs_config, the VFs the PF has
  MaxVlans,    \* MAX_VF_VLANS and MAX_PF_VLANS
  MaxQueues,   \* MAX_QUEUES
  Mtu,         \* the MTU of the PF
  LinkSpeed    \* in Mbit/s

\* What read_config returns: the rate, the VLANs and the shares of the queues by class.
ASSUME ConfigTypes ==
  \A c \in Configs :
    /\ c.vfid \in Int /\ c.minRate \in Int /\ c.vlans \in Seq(Int)
    /\ \A t \in DOMAIN c.queues : c.queues[t] \in Int

\* The code takes for granted that the queues of all VFs fit in MAX_QUEUES.
ASSUME AdmAssumption ==
  /\ Nvfs \in Nat /\ MaxQueues \in Nat /\ MaxVlans \in Nat /\ Mtu \in Nat /\ LinkSpeed \in Nat
  /\ \A p \in Ports :
       p.ntcs \in {4, 8} /\ p.oversub \in BOOLEAN /\ Nvfs * p.ntcs <= MaxQueues
  /\ \A e \in FallsBelow \cup EndsAbove : e[1] # 0

VARIABLES
  port,      \* the PF, chosen once
  phase,     \* "restoring" while vfd_add_all_vfs reads the live files, then "running"
  pending,   \* live files vfd_add_all_vfs has not read yet
  live,      \* the files of the live directory
  slots,     \* port->vfs, up to num_vfs
  qshares,   \* port->vftc_qshares: percents by queue, vfid * ntcs + tc
  credits,   \* ixgbe: the credit register of each queue
  tcRate     \* mlx5: min_tx_tc_rate of each VF and traffic class

vars == <<port, phase, pending, live, slots, qshares, credits, tcRate>>

Tcs == 0 .. 7
Queues == 0 .. MaxQueues - 1
Numbers == 0 .. Nvfs - 1
NoVf == -1
NoMirror == -1

-----------------------------------------------------------------------------
(* The file as read_config returns it *)

\* A share is kept in eight bits; a class the file does not list gets 3.
QShare(c, t) ==
  IF t \in DOMAIN c.queues /\ c.queues[t] > 0 THEN c.queues[t] % 256 ELSE 3

(* A float: 24 bits, rounded to the nearest and to an even last bit in a tie *)

One == 134217728
Mantissas == 16777216

Rounded(x) ==
  LET unit == Min({u \in {1, 2, 4, 8, 16, 32, 64} : -u * Mantissas < x /\ x < u * Mantissas})
      low == x \div unit
      twice == 2 * (x % unit)
      up == twice > unit \/ (twice = unit /\ low % 2 = 1)
  IN  unit * (IF up THEN low + 1 ELSE low)

(* The table *)

Active(tb) == {j \in DOMAIN tb : tb[j].num >= 0}

Total(tb, amount) ==
  SumFunctionOnSet([j \in Active(tb) |-> amount[tb[j].cfg]], Active(tb))

\* The first hole, else one past the end.
SlotFor(tb) ==
  LET holes == DOMAIN tb \ Active(tb)
  IN  IF holes # {} THEN Min(holes) ELSE Len(tb) + 1

-----------------------------------------------------------------------------
(* Vetting, in the order of the code *)

NotDefined(tb, c) == \A j \in Active(tb) : tb[j].num # c.vfid

InRange(c) == c.vfid \in Numbers

\* What min_rate adds up to: every addition is rounded, so the order of the slots counts.
RateTotal(tb) ==
  LET tot[k \in 0 .. Len(tb)] ==
        IF k = 0 THEN 0
        ELSE IF tb[k].num < 0 THEN tot[k - 1]
        ELSE Rounded(tot[k - 1] + tb[k].cfg.minRate)
  IN  tot[Len(tb)]

RateFits(tb, c) == Rounded(RateTotal(tb) + c.minRate) <= One

VlansFit(tb, c) ==
  /\ Len(c.vlans) \in 1 .. MaxVlans
  /\ Total(tb, [d \in Configs |-> Len(d.vlans)]) + Len(c.vlans) <= MaxVlans

\* The loop over several VLANs stops before the last one: only its being a
\* duplicate of an earlier one is looked at.
VlansValid(c) ==
  LET n == Len(c.vlans)
      Checked == IF n = 1 THEN {1} ELSE 1 .. n - 1
  IN  /\ \A i \in Checked : c.vlans[i] \in 1 .. 4095
      /\ \A i, k \in 1 .. n : i < k => c.vlans[i] # c.vlans[k]

Demand(tb, t) == Total(tb, [c \in Configs |-> QShare(c, t)])

\* A mutant: the share asked for is left out of the sum.
SharesFitWithout(tb, c) == \A t \in Tcs : Demand(tb, t) <= 100

\* check_qs_oversub
SharesFit(tb, c) == \A t \in Tcs : Demand(tb, t) + QShare(c, t) <= 100

\* check_qs_spread: integer division, and zero shares are ignored.
SpreadFits(tb, c) ==
  \A t \in Tcs :
    LET mine == QShare(c, t)
        theirs == {QShare(tb[j].cfg, t) : j \in Active(tb)}
        low == IF mine = 0 THEN 0 ELSE Min({mine} \cup (theirs \ {0}))
    IN  low # 0 => Max({mine} \cup theirs) \div low <= 10

CallbacksClean(c) == c.cbs = "clean"

\* The bound is nvfs_config itself, one past the last VF.
MirrorFits(c) == c.target = NoMirror \/ c.target \in (0 .. Nvfs) \ {c.vfid}

Admissible(tb, c) ==
  /\ NotDefined(tb, c)
  /\ InRange(c)
  /\ RateFits(tb, c)
  /\ VlansFit(tb, c)
  /\ VlansValid(c)
  /\ port.oversub \/ SharesFit(tb, c)
  /\ SpreadFits(tb, c)
  /\ CallbacksClean(c)
  /\ MirrorFits(c)

Added(tb, c) ==
  LET slot == [num |-> c.vfid, cfg |-> c]
      s == SlotFor(tb)
  IN  IF s > Len(tb) THEN Append(tb, slot) ELSE [tb EXCEPT ![s] = slot]

-----------------------------------------------------------------------------
(* gen_port_qshares: the shares of a traffic class, scaled to at least 100 *)

\* Of no demand at all 100.0 / 0 makes NaN, which the casts of the build turn into 0.
Scaled(tb, t, j) ==
  LET d == Demand(tb, t)
      s == QShare(tb[j].cfg, t)
      below == IF <<s, d>> \in FallsBelow THEN 1 ELSE 0
  IN  IF d = 100 THEN s ELSE IF d = 0 THEN 0 ELSE (s * 100 - below) \div d

Short(tb, t) ==
  SumFunctionOnSet([j \in Active(tb) |-> Scaled(tb, t, j)], Active(tb)) < 100

\* A mutant: what rounding cut off is not made up for.
ScaledOnly(tb, t, j) == Scaled(tb, t, j)

\* The loop that tops a class up to 100 does not count what it hands out: every VF
\* of a class that is short gets one more.
Share(tb, t, j) == Scaled(tb, t, j) + (IF Short(tb, t) THEN 1 ELSE 0)

GenShares(tb) ==
  [q \in Queues |->
     LET owners == {j \in Active(tb) : tb[j].num = q \div port.ntcs}
     IN  IF owners = {} THEN 0 ELSE Share(tb, q % port.ntcs, Max(owners))]

(* qos_set_credits, always called for four classes per VF *)

MtuOf == IF Mtu < 1536 THEN 1536 ELSE Mtu

Lowest(sh, t) == Min({100} \cup {sh[q] : q \in {p \in Queues : p % 4 = t /\ sh[p] > 0}})

\* A mutant: the quotient is cut off, not rounded up.
CreditsCut(sh) == [q \in Queues |-> (sh[q] * MtuOf) \div (64 * Lowest(sh, q % 4))]

\* ceil(share * (mtu / 64) / lowest)
Credits(sh) ==
  [q \in Queues |->
     LET low == Lowest(sh, q % 4)
         above == IF <<sh[q], low>> \in EndsAbove THEN 1 ELSE 0
     IN  (sh[q] * MtuOf + above + 64 * low - 1) \div (64 * low)]

\* mlx5_set_vf_tcqos: the rates of deleted VFs stay as they are.
TcRates(tb, sh) ==
  [v \in Numbers |->
     IF \E j \in Active(tb) : tb[j].num = v
     THEN [t \in Tcs |-> (LinkSpeed * sh[v * 8 + t]) \div 100]
     ELSE tcRate[v]]

\* The part of vfd_update_nic run after a change when QoS is enabled.
PushShares(tb) ==
  /\ qshares' = GenShares(tb)
  /\ IF port.nic = "mlx5"
     THEN /\ tcRate' = IF port.ntcs = 8 THEN TcRates(tb, qshares') ELSE tcRate
          /\ UNCHANGED credits
     ELSE credits' = Credits(qshares') /\ UNCHANGED tcRate

-----------------------------------------------------------------------------
Init ==
  /\ port \in Ports
  /\ phase = "restoring"
  /\ pending = {} /\ live = {} /\ slots = << >>
  /\ qshares = [q \in Queues |-> 0]
  /\ credits = [q \in Queues |-> 0]
  /\ tcRate = [v \in Numbers |-> [t \in Tcs |-> 0]]

\* vfd_add_all_vfs: the next live file, in the order of the directory; a file
\* that is refused is moved out of the live directory.
RestoreFile(c) ==
  /\ phase = "restoring" /\ c \in pending
  /\ pending' = pending \ {c}
  /\ IF Admissible(slots, c)
     THEN slots' = Added(slots, c) /\ UNCHANGED live
     ELSE live' = live \ {c} /\ UNCHANGED slots
  /\ UNCHANGED <<port, phase, qshares, credits, tcRate>>

\* All files are read: the first vfd_update_nic.
StartUp ==
  /\ phase = "restoring" /\ pending = {}
  /\ phase' = "running"
  /\ IF slots = << >> THEN UNCHANGED <<qshares, credits, tcRate>> ELSE PushShares(slots)
  /\ UNCHANGED <<port, pending, live, slots>>

\* An accepted add request; its file moves to the live directory.
AddRequest(c) ==
  /\ phase = "running" /\ Admissible(slots, c)
  /\ slots' = Added(slots, c)
  /\ live' = live \cup {c}
  /\ PushShares(slots')
  /\ UNCHANGED <<port, phase, pending>>

\* An accepted delete request: the VF is marked DELETED, the update makes its
\* slot a hole that keeps its old contents.
DeleteRequest(c) ==
  /\ phase = "running"
  /\ \E j \in Active(slots) :
       /\ slots[j].num = c.vfid /\ slots[j].cfg = c
       /\ slots' = [slots EXCEPT ![j].num = NoVf]
  /\ live' = live \ {c}
  /\ PushShares(slots')
  /\ UNCHANGED <<port, phase, pending>>

\* VFd ends, or is killed, and starts again; the NIC keeps its registers.
Restart ==
  /\ phase = "running"
  /\ phase' = "restoring"
  /\ pending' = live
  /\ slots' = << >>
  /\ qshares' = [q \in Queues |-> 0]
  /\ UNCHANGED <<port, live, credits, tcRate>>

Next ==
  \/ \E c \in Configs : RestoreFile(c) \/ AddRequest(c) \/ DeleteRequest(c)
  \/ StartUp
  \/ Restart

Spec == Init /\ [][Next]_vars

-----------------------------------------------------------------------------
(* Properties *)

\* The rates of the files leave room for the rounding of their sum in any order: none
\* is negative, an addition below 1.0 loses or gains at most 4 of the units, and a
\* sum of at most 8 above it still counts as 1.0.
RatesLeaveRoom(files) ==
  /\ \A c \in files : c.minRate >= 0
  /\ SumFunctionOnSet([c \in Configs |-> c.minRate], files) + 4 * Cardinality(files) <= One + 12

\* vfd_add_all_vfs takes the live files in whatever order the directory lists them and
\* vets each again; whatever was accepted one by one is accepted again, unless it is
\* for the rates, whose sum depends on the order: no restart makes VFd drop the VF of
\* a running guest for its VLANs, shares, mirror or callbacks.
RestartKeepsAll ==
  [][phase = "restoring" /\ RatesLeaveRoom(live) => live' = live]_vars

\* Once the update is done each VF has at least its part of a traffic class and at most
\* one percent more, so that a class is never short, nor more over 100 than it has VFs
\* less one; and queues of no VF have none (gen_port_qshares).
SharesFilled ==
  phase = "running" /\ Active(slots) # {} =>
    /\ \A q \in Queues :
         (\A j \in Active(slots) : slots[j].num # q \div port.ntcs) => qshares[q] = 0
    /\ \A t \in 0 .. port.ntcs - 1 :
         LET d == Demand(slots, t)
             Got(j) == qshares[slots[j].num * port.ntcs + t]
         IN  d > 0 =>
               /\ \A j \in Active(slots) :
                    LET exact == QShare(slots[j].cfg, t) * 100
                    IN  Got(j) * d >= exact /\ Got(j) * d <= exact + d
               /\ SumFunctionOnSet(qshares, {q \in Queues : q % port.ntcs = t})
                    \in 100 .. 99 + Cardinality(Active(slots))

\* What the comments of gen_port_qshares and the documentation say of it: "the
\* percentages across each TC total exactly 100%".
SharesTotal100 ==
  phase = "running" /\ Active(slots) # {} =>
    \A t \in 0 .. port.ntcs - 1 :
      Demand(slots, t) > 0 =>
        SumFunctionOnSet(qshares, {q \in Queues : q % port.ntcs = t}) = 100

\* What the NIC holds follows what the files ask for: with ixgbe a queue has credits iff
\* it has a share, at least those of one maximal frame, and no less than a queue of
\* its class with a smaller share; with mlx5 a VF's rate of a class is at least its
\* part of the link, and the rates of n VFs promise at most n - 1 percent too much.
NicFollowsShares ==
  phase = "running" /\ Active(slots) # {} =>
    IF port.nic = "mlx5"
    THEN port.ntcs = 8 =>
           \A t \in Tcs :
             /\ \A j \in Active(slots) :
                  Demand(slots, t) > 0 =>
                    (tcRate[slots[j].num][t] + 1) * Demand(slots, t)
                      > LinkSpeed * QShare(slots[j].cfg, t)
             /\ SumFunctionOnSet([j \in Active(slots) |-> tcRate[slots[j].num][t]], Active(slots))
                  * 100 <= LinkSpeed * (99 + Cardinality(Active(slots)))
    ELSE \A q \in Queues :
           /\ (credits[q] > 0) = (qshares[q] > 0)
           /\ qshares[q] > 0 => credits[q] * 64 >= MtuOf
           /\ \A p \in Queues :
                q % 4 = p % 4 /\ qshares[q] <= qshares[p] => credits[q] <= credits[p]
=============================================================================
