----------------------------- MODULE NicSettings -----------------------------
(***************************************************************************)
(* What vfd_update_nic (main.c) makes of a VF's configuration on the NIC,  *)
(* through the setters of sriov.c and the wrappers of the four drivers.    *)
(* VF numbers are used again and again: the NIC keeps what a VF's former   *)
(* tenant had unless the update of a delete or of the next add undoes it.  *)
(* Rates are shares of the link's speed, which may change under the VFs,   *)
(* and guests lose and change settings of their own.                       *)
(*                                                                         *)
(* An update is one step (VfdConfig has its parts, and the races).  MACs   *)
(* are in MacTable, mirrors in Mirrors.  A guest runs while VFd manages    *)
(* its VF, and the NIC does what it is asked to.                           *)
(***************************************************************************)
EXTENDS Naturals, FiniteSets, Mailbox

CONSTANTS
  VfIds,      \* VFs of the PF
  Configs,    \* configurations, as vfd_add_vf takes them over
  NoCfg,      \* the VF is not managed
  Speeds,     \* of the link, in Mbit/s; 0: it is down
  Losses,     \* sets of settings that a guest's reset clears
  MaxReqs,    \* bound: adds and deletes
  MaxEvents   \* bound: resets and messages of guests, changes of the link

\* Percentages stand for the floats of the file; a file may ask for more than the link has.
ConfigRecords ==
  [vlans : SUBSET Nat, stag : BOOLEAN, ctag : BOOLEAN, bcast : BOOLEAN, mcast : BOOLEAN,
   ucast : BOOLEAN, rate : Nat, minRate : Nat, link : {"auto", "on", "off"}]

ASSUME NicAssumption ==
  /\ \A c \in Configs : c \in ConfigRecords /\ c.vlans # {} /\ IsFiniteSet(c.vlans)
  /\ NoCfg \notin Configs
  /\ Speeds \subseteq Nat /\ 0 \in Speeds
  /\ MaxReqs \in Nat /\ MaxEvents \in Nat

VARIABLES
  kind,       \* of the NIC
  cfg,        \* the vf_s of each VF, or NoCfg
  nic,        \* the settings of each VF on the NIC
  speed,      \* of the link
  lsc,        \* a link interrupt is pending
  lost,       \* VFs that wait for a restore: in the refresh queue
  nreqs, nevents

nicVars == <<kind, cfg, nic, speed, lsc, lost, nreqs, nevents>>

AllKinds == Kinds \cup {"mlx5"}

\* The settings of a VF nobody has used.
Fresh ==
  [vlans |-> {}, strip |-> FALSE, insert |-> 0, cinsert |-> 0, vlanSpoof |-> FALSE, macSpoof |-> FALSE,
   bcast |-> FALSE, mcast |-> FALSE, ucast |-> FALSE, trust |-> FALSE,
   rate |-> 0, minRate |-> 0, link |-> "auto"]

(***************************************************************************)
(* The drivers: the settings that their wrappers pass on.                  *)
(***************************************************************************)

IxgbeGuards == {"macSpoof", "vlanSpoof", "ucast", "mcast"}
IxgbeTags   == {"strip", "insert", "bcast", "vlans"}
IxgbeLimits == {"rate"}

I40eGuards == {"macSpoof", "vlanSpoof", "ucast", "mcast"}
I40eTags   == {"strip", "insert", "bcast", "vlans"}

BnxtGuards == {"macSpoof", "vlanSpoof", "ucast", "mcast"}
BnxtTags   == {"strip", "insert", "bcast", "vlans"}

\* mlx5 writes to sysfs and calls ip; its "trust" is for all that is promiscuous.
Mlx5Link   == {"link"}
Mlx5Tags   == {"insert", "cinsert"}
Mlx5Limits == {"rate", "minRate", "macSpoof"}
Mlx5Trust  == {"vlans", "trust"}

Has == CASE kind = "ixgbe" -> IxgbeGuards \cup IxgbeTags \cup IxgbeLimits
         [] kind = "i40e"  -> I40eGuards \cup I40eTags
         [] kind = "bnxt"  -> BnxtGuards \cup BnxtTags
         [] kind = "mlx5"  -> Mlx5Link \cup Mlx5Tags \cup Mlx5Limits \cup Mlx5Trust

\* What becomes of the settings s when those of t are asked for.
Take(s, t) == [n \in DOMAIN s |-> IF n \in Has THEN t[n] ELSE s[n]]

(***************************************************************************)
(* The setters of sriov.c.                                                 *)
(***************************************************************************)

\* set_vf_rate_limit and set_vf_min_rate; the product goes through a uint16_t.
Share(p)      == ((speed * p) \div 100) % 65536
SetRate(s, x) == IF x > speed THEN s ELSE Take(s, [s EXCEPT !.rate = x])
SetMin(s, x)  == Take(s, [s EXCEPT !.minRate = x])
SetLink(s, x) == Take(s, [s EXCEPT !.link = x])

\* tx_vlan_insert_set_on_vf, tx_cvlan_insert_set_on_vf; an mlx5 that inserts gives its
\* trunk up.
Trunk(s, id)    == IF kind = "mlx5" /\ id # 0 THEN {} ELSE s.vlans
Insert(s, id)   == Take(s, [s EXCEPT !.insert = id, !.vlans = Trunk(s, id)])
InsertC(s, id)  == Take(s, [s EXCEPT !.cinsert = id, !.vlans = Trunk(s, id)])
Strip(s, on)    == Take(s, [s EXCEPT !.strip = on])

\* set_vf_allow_mcast, then set_vf_allow_un_ucast: on an mlx5 the second overrides the first.
Accept(s, m, u) == Take(s, [s EXCEPT !.mcast = m, !.ucast = u, !.trust = u])
Broadcast(s, b) == Take(s, [s EXCEPT !.bcast = b])

\* set_vf_mac_anti_spoofing: always on for an ixgbe and always off for an i40e.
SpoofMac(s, on) == Take(s, [s EXCEPT !.macSpoof = (kind = "ixgbe" \/ (on /\ kind # "i40e"))])
SpoofVlan(s, on) == Take(s, [s EXCEPT !.vlanSpoof = on])

\* set_vf_rx_vlan.
Join(s, ids)  == Take(s, [s EXCEPT !.vlans = @ \cup ids])
Leave(s, ids) == Take(s, [s EXCEPT !.vlans = @ \ ids])

(***************************************************************************)
(* vfd_update_nic, for one VF.                                             *)
(***************************************************************************)

\* Where an mlx5 inserts it has no trunk.
Trunked(c) == IF kind = "mlx5" /\ (c.stag \/ c.ctag) THEN {} ELSE c.vlans

\* The rates are pushed for a delete, too, before they are cleared.
Rates(s, c) ==
  LET r == IF c.rate # 0 THEN SetRate(s, Share(c.rate)) ELSE s
  IN IF c.minRate # 0 THEN SetMin(r, Share(c.minRate)) ELSE r
NoRates(s, c) ==
  LET r == IF c.rate > 0 THEN SetRate(s, 0) ELSE s
  IN IF c.minRate > 0 THEN SetMin(r, 0) ELSE r

\* vfd_set_ins_strip, with a mutant that lets the tag of a former tenant stand.
TheId(c) == CHOOSE id \in c.vlans : TRUE
Untag(s) == InsertC(Insert(s, 0), 0)
UntagNot(s, c, active) ==
  LET t == Strip(s, c.stag)
  IN IF active /\ Cardinality(c.vlans) = 1 /\ c.stag THEN Insert(t, TheId(c)) ELSE t
InsStrip(s, c, active) ==
  LET t == Strip(s, c.stag)
  IN CASE active /\ Cardinality(c.vlans) = 1 /\ c.stag           -> Insert(t, TheId(c))
       [] active /\ Cardinality(c.vlans) = 1 /\ c.ctag /\ ~c.stag -> InsertC(t, TheId(c))
       [] OTHER                                                  -> Untag(t)

\* What get_mac_antispoof gave the VF.
MacSpoof == kind = "ixgbe"

\* A VF that was added or is reset.
Activate(s, c) ==
  LET s1 == Rates(Join(s, Trunked(c)), c)
      s2 == SpoofMac(SpoofVlan(s1, TRUE), MacSpoof)
      s3 == Broadcast(InsStrip(s2, c, TRUE), c.bcast)
  IN SetLink(Accept(s3, c.mcast, c.ucast), c.link)

\* A VF that was deleted; with a mutant that forgets its rates.
DeactivateKeepsRates(s, c) ==
  LET s1 == Rates(Leave(s, Trunked(c)), c)
  IN Accept(SetLink(InsStrip(s1, c, FALSE), "auto"), FALSE, FALSE)
Deactivate(s, c) ==
  LET s1 == Leave(s, Trunked(c))
      s2 == Rates(IF MacSpoof THEN SpoofMac(s1, FALSE) ELSE s1, c)
      s3 == InsStrip(NoRates(s2, c), c, FALSE)
  IN Accept(SetLink(s3, "auto"), FALSE, FALSE)

(***************************************************************************)
(* Actions.                                                                *)
(***************************************************************************)

Managed == {v \in VfIds : cfg[v] # NoCfg}

NicInit ==
  /\ kind \in AllKinds
  /\ cfg = [v \in VfIds |-> NoCfg] /\ nic = [v \in VfIds |-> Fresh]
  /\ speed \in Speeds \ {0}
  /\ lsc = FALSE /\ lost = {} /\ nreqs = 0 /\ nevents = 0

\* vfd_add_vf and vfd_update_nic.
Add(v, c) ==
  /\ nreqs < MaxReqs /\ v \notin Managed
  /\ cfg' = [cfg EXCEPT ![v] = c]
  /\ nic' = [nic EXCEPT ![v] = Activate(@, c)]
  /\ nreqs' = nreqs + 1
  /\ UNCHANGED <<kind, speed, lsc, lost, nevents>>

\* vfd_del_vf and vfd_update_nic.
Del(v) ==
  /\ nreqs < MaxReqs /\ v \in Managed
  /\ cfg' = [cfg EXCEPT ![v] = NoCfg]
  /\ nic' = [nic EXCEPT ![v] = Deactivate(@, cfg[v])]
  /\ nreqs' = nreqs + 1
  /\ UNCHANGED <<kind, speed, lsc, lost, nevents>>

\* The guest's driver resets its VF, and VFd queues a refresh.
GuestResets(v) ==
  /\ nevents < MaxEvents /\ v \in Managed /\ kind # "mlx5"
  /\ \E gone \in Losses :
       nic' = [nic EXCEPT ![v] = [n \in DOMAIN @ |-> IF n \in gone THEN Fresh[n] ELSE @[n]]]
  /\ lost' = lost \cup {v}
  /\ nevents' = nevents + 1
  /\ UNCHANGED <<kind, cfg, speed, lsc, nreqs>>

\* The guest asks for modes; VFd narrows the request, the NIC takes what is left, and a
\* refresh is queued.
Allowed(c) == {m \in {"bcast", "mcast", "ucast"} : c[m]}

I40eModes(v, flags) ==
  LET left == I40ePromisc(flags, Allowed(cfg[v]))
  IN [nic[v] EXCEPT !.ucast = "ucast" \in left, !.mcast = "mcast" \in left]

BnxtModes(v, mask) ==
  LET left == BnxtRxMask(mask, TRUE, Allowed(cfg[v]))
  IN [nic[v] EXCEPT !.bcast = "bcast" \in left, !.mcast = {"all_mcast", "promisc"} \cap left # {},
                    !.ucast = "promisc" \in left]

GuestAsks(v) ==
  /\ nevents < MaxEvents /\ v \in Managed
  /\ \/ /\ kind = "i40e"
        /\ \E flags \in SUBSET {"ucast", "mcast"} : nic' = [nic EXCEPT ![v] = I40eModes(v, flags)]
     \/ /\ kind = "bnxt"
        /\ \E mask \in SUBSET RxMask : nic' = [nic EXCEPT ![v] = BnxtModes(v, mask)]
  /\ lost' = lost \cup {v}
  /\ nevents' = nevents + 1
  /\ UNCHANGED <<kind, cfg, speed, lsc, nreqs>>

\* process_refresh_queue; a VF that is gone is only taken off the list.
RefreshVf(v) ==
  /\ v \in lost
  /\ nic' = IF v \in Managed THEN [nic EXCEPT ![v] = Activate(@, cfg[v])] ELSE nic
  /\ lost' = lost \ {v}
  /\ UNCHANGED <<kind, cfg, speed, lsc, nreqs, nevents>>

LinkChanges ==
  /\ nevents < MaxEvents
  /\ speed' \in Speeds \ {speed}
  /\ lsc' = TRUE
  /\ nevents' = nevents + 1
  /\ UNCHANGED <<kind, cfg, nic, lost, nreqs>>

\* lsi_event_callback: every VF is restored when the link is up; a mutant restores the
\* VFs that wait for it.
WaitingVfs  == Managed \cap lost
RestoredVfs == Managed

LinkInterrupt ==
  /\ lsc /\ lsc' = FALSE
  /\ nic' = IF speed = 0 THEN nic
            ELSE [v \in VfIds |-> IF v \in RestoredVfs THEN Activate(nic[v], cfg[v]) ELSE nic[v]]
  /\ UNCHANGED <<kind, cfg, speed, lost, nreqs, nevents>>

NicNext ==
  \/ \E v \in VfIds :
       \/ \E c \in Configs : Add(v, c)
       \/ Del(v) \/ GuestResets(v) \/ GuestAsks(v) \/ RefreshVf(v)
  \/ LinkChanges \/ LinkInterrupt

NicSpec == NicInit /\ [][NicNext]_nicVars

(***************************************************************************)
(* Properties.                                                             *)
(***************************************************************************)

Settled(v) == v \in Managed \ lost /\ ~lsc

\* The VLAN whose tag is inserted: the only one of a VF whose tags are stripped.
TagOf(c, stripped) == IF stripped /\ Cardinality(c.vlans) = 1 THEN TheId(c) ELSE 0

\* A VF that waits for nothing has what its configuration asks for, as far as the NIC has
\* it, and nothing of a former tenant of its number (vfd_update_nic, main.c).
AsConfigured ==
  \A v \in VfIds : Settled(v) =>
    LET c == cfg[v] s == nic[v]
    IN /\ s.vlans = IF kind = "mlx5" /\ (c.stag \/ c.ctag) THEN {} ELSE c.vlans
       /\ "insert" \in Has => s.insert = TagOf(c, c.stag)
       /\ "cinsert" \in Has => s.cinsert = TagOf(c, c.ctag /\ ~c.stag)
       /\ "strip" \in Has => s.strip = c.stag
       /\ "bcast" \in Has => s.bcast = c.bcast
       /\ "mcast" \in Has => s.mcast = c.mcast /\ s.ucast = c.ucast
       /\ "link" \in Has => s.link = c.link /\ s.trust = c.ucast
       /\ "vlanSpoof" \in Has => s.vlanSpoof /\ (s.macSpoof <=> kind = "ixgbe")

\* While the link is up, and VFd has seen it, the limits of a VF are its shares of the
\* link's speed, whatever the speed was when the VF was added (set_vf_rate_limit and
\* lsi_event_callback, sriov.c).  A share of more than the link is refused.
LimitsFollowLink ==
  \A v \in VfIds : Settled(v) /\ speed # 0 =>
    /\ "rate" \in Has =>
         nic[v].rate = IF cfg[v].rate > 100 THEN 0 ELSE (speed * cfg[v].rate) \div 100
    /\ "minRate" \in Has => nic[v].minRate = (speed * cfg[v].minRate) \div 100

\* What the limits take for granted: no share is too large for 16 bits, and the link makes
\* at least 100 Mbit/s, so that a rate of 101% is already more than all of it.
SharesFit ==
  \A s \in Speeds \ {0}, c \in Configs :
    s >= 100 /\ (s * c.rate) \div 100 < 65536 /\ (s * c.minRate) \div 100 < 65536

\* What lets traffic of a VF through, or limits it, is gone when the VF is
\* (the DELETED part of vfd_update_nic).
NothingLeft ==
  \A v \in VfIds \ Managed :
    LET s == nic[v]
    IN s.vlans = {} /\ s.insert = 0 /\ s.cinsert = 0 /\ s.rate = 0 /\ s.minRate = 0
       /\ ~s.mcast /\ ~s.ucast /\ ~s.trust

\* Whatever modes a guest asks for, it gets none that its configuration forbids
\* (the callbacks of vfd_i40e.c and vfd_bnxt.c).
GuestKeepsBounds ==
  \A v \in Managed : kind # "mlx5" =>
    /\ nic[v].ucast => cfg[v].ucast
    /\ nic[v].mcast => cfg[v].mcast
    /\ nic[v].bcast => cfg[v].bcast
=============================================================================
