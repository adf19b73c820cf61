-------------------------- MODULE NicSettingsProofs --------------------------
(***************************************************************************)
(* What a VF has on the NIC is its own configuration and nothing of the    *)
(* tenant before it, for any number of VFs and requests, any               *)
(* configurations, speeds of the link and resets, on every kind of NIC.    *)
(***************************************************************************)
EXTENDS NicSettings, TLAPS

Settings ==
  [vlans : SUBSET Nat, strip : BOOLEAN, insert : Nat, cinsert : Nat, vlanSpoof : BOOLEAN,
   macSpoof : BOOLEAN, bcast : BOOLEAN, mcast : BOOLEAN, ucast : BOOLEAN, trust : BOOLEAN,
   rate : Nat, minRate : Nat, link : {"auto", "on", "off"}]

Names == DOMAIN Fresh

(***************************************************************************)
(* The inductive invariant.                                                *)
(***************************************************************************)

NicTypes ==
  /\ kind \in AllKinds
  /\ cfg \in [VfIds -> Configs \cup {NoCfg}]
  /\ nic \in [VfIds -> Settings]
  /\ speed \in Nat
  /\ lost \subseteq VfIds

\* What the driver does not pass on is as it was at the start.
Untouched(s) == \A n \in Names \ Has : s[n] = Fresh[n]

\* What a VF of configuration c may have at any time: resets take away, and updates bring
\* back.
Held(s, c) ==
  /\ s.vlans \subseteq Trunked(c)
  /\ s.insert \in {0, TagOf(c, c.stag)}
  /\ s.cinsert \in {0, TagOf(c, c.ctag /\ ~c.stag)}
  /\ c.rate = 0 => s.rate = 0
  /\ c.minRate = 0 => s.minRate = 0

Bounded(s, c) ==
  kind # "mlx5" =>
    (s.ucast => c.ucast) /\ (s.mcast => c.mcast) /\ (s.bcast => c.bcast)

Full(s, c) ==
  /\ s.vlans = Trunked(c)
  /\ "insert" \in Has => s.insert = TagOf(c, c.stag)
  /\ "cinsert" \in Has => s.cinsert = TagOf(c, c.ctag /\ ~c.stag)
  /\ "strip" \in Has => s.strip = c.stag
  /\ "bcast" \in Has => s.bcast = c.bcast
  /\ "mcast" \in Has => s.mcast = c.mcast /\ s.ucast = c.ucast
  /\ "link" \in Has => s.link = c.link /\ s.trust = c.ucast
  /\ "vlanSpoof" \in Has => s.vlanSpoof /\ (s.macSpoof <=> kind = "ixgbe")

Empty(s) ==
  /\ s.vlans = {} /\ s.insert = 0 /\ s.cinsert = 0 /\ s.rate = 0 /\ s.minRate = 0
  /\ ~s.mcast /\ ~s.ucast /\ ~s.trust

VfInv(v) ==
  /\ Untouched(nic[v])
  /\ cfg[v] # NoCfg => Held(nic[v], cfg[v]) /\ Bounded(nic[v], cfg[v])
  /\ cfg[v] # NoCfg /\ v \notin lost => Full(nic[v], cfg[v])
  /\ cfg[v] = NoCfg => Empty(nic[v])

NicInv == NicTypes /\ \A v \in VfIds : VfInv(v)

(***************************************************************************)
(* The setters: which settings each may change, and to what.               *)
(***************************************************************************)

\* t differs from s in settings of N that the driver passes on.
Only(s, t, N) == \A n \in Names : t[n] = s[n] \/ (n \in N /\ n \in Has)

LEMMA FieldNames ==
  /\ Names = {"vlans", "strip", "insert", "cinsert", "vlanSpoof", "macSpoof", "bcast", "mcast",
              "ucast", "trust", "rate", "minRate", "link"}
  /\ Fresh \in Settings
  /\ \A s \in Settings : DOMAIN s = Names
BY DEF Names, Settings, Fresh

LEMMA KindHas ==
  ASSUME kind \in AllKinds
  PROVE  /\ {"vlans", "insert"} \subseteq Has
         /\ kind = "mlx5" => Has = {"link", "insert", "cinsert", "rate", "minRate", "macSpoof", "vlans", "trust"}
         /\ kind # "mlx5" =>
              /\ {"macSpoof", "vlanSpoof", "ucast", "mcast", "strip", "bcast"} \subseteq Has
              /\ Has \cap {"cinsert", "minRate", "trust", "link"} = {}
BY DEF AllKinds, Kinds, Has, IxgbeGuards, IxgbeTags, IxgbeLimits, I40eGuards, I40eTags,
       BnxtGuards, BnxtTags, Mlx5Link, Mlx5Tags, Mlx5Limits, Mlx5Trust

LEMMA TakeIs ==
  ASSUME NEW s \in Settings, NEW t \in Settings
  PROVE  /\ Take(s, t) \in Settings
         /\ \A n \in Names : Take(s, t)[n] = IF n \in Has THEN t[n] ELSE s[n]
<1>1. Take(s, t) \in Settings
  BY DEF Settings, Take
<1>2. DOMAIN s = Names
  BY FieldNames
<1>3. QED
  BY <1>1, <1>2 DEF Take

\* Taking t over changes what t changes.
LEMMA TakeOnly ==
  ASSUME NEW s \in Settings, NEW t \in Settings, NEW N, \A n \in Names \ N : t[n] = s[n]
  PROVE  Take(s, t) \in Settings /\ Only(s, Take(s, t), N)
BY TakeIs DEF Only

LEMMA SetLinkIs ==
  ASSUME NEW s \in Settings, NEW x \in {"auto", "on", "off"}
  PROVE  /\ SetLink(s, x) \in Settings /\ Only(s, SetLink(s, x), {"link"})
         /\ "link" \in Has => SetLink(s, x).link = x
<1> DEFINE t == [s EXCEPT !.link = x]
<1>1. t \in Settings /\ t.link = x /\ \A n \in Names \ {"link"} : t[n] = s[n]
  BY FieldNames DEF Settings
<1>2. QED
  BY <1>1, TakeOnly, TakeIs, FieldNames DEF SetLink, Settings

LEMMA LimitsIs ==
  ASSUME NEW s \in Settings, NEW x \in Nat
  PROVE  /\ SetRate(s, x) \in Settings /\ Only(s, SetRate(s, x), {"rate"})
         /\ SetMin(s, x) \in Settings /\ Only(s, SetMin(s, x), {"minRate"})
         /\ "rate" \in Has /\ ~(x > speed) => SetRate(s, x).rate = x
         /\ "minRate" \in Has => SetMin(s, x).minRate = x
<1> DEFINE t == [s EXCEPT !.rate = x]
           u == [s EXCEPT !.minRate = x]
<1>1. t \in Settings /\ t.rate = x /\ \A n \in Names \ {"rate"} : t[n] = s[n]
  BY FieldNames DEF Settings
<1>2. u \in Settings /\ u.minRate = x /\ \A n \in Names \ {"minRate"} : u[n] = s[n]
  BY FieldNames DEF Settings
<1>3. Only(s, s, {"rate"})
  BY DEF Only
<1>4. QED
  BY <1>1, <1>2, <1>3, TakeOnly, TakeIs, FieldNames DEF SetRate, SetMin, Settings

LEMMA TagsIs ==
  ASSUME NEW s \in Settings, NEW id \in Nat, NEW on \in BOOLEAN
  PROVE  /\ Insert(s, id) \in Settings /\ Only(s, Insert(s, id), {"insert", "vlans"})
         /\ Insert(s, id).insert = IF "insert" \in Has THEN id ELSE s.insert
         /\ Insert(s, id).vlans = IF "vlans" \in Has THEN Trunk(s, id) ELSE s.vlans
         /\ InsertC(s, id) \in Settings /\ Only(s, InsertC(s, id), {"cinsert", "vlans"})
         /\ InsertC(s, id).cinsert = IF "cinsert" \in Has THEN id ELSE s.cinsert
         /\ InsertC(s, id).vlans = IF "vlans" \in Has THEN Trunk(s, id) ELSE s.vlans
         /\ Strip(s, on) \in Settings /\ Only(s, Strip(s, on), {"strip"})
         /\ "strip" \in Has => Strip(s, on).strip = on
<1> DEFINE t == [s EXCEPT !.insert = id, !.vlans = Trunk(s, id)]
           u == [s EXCEPT !.cinsert = id, !.vlans = Trunk(s, id)]
           w == [s EXCEPT !.strip = on]
<1>1. Trunk(s, id) \in SUBSET Nat
  BY DEF Trunk, Settings
<1>2. t \in Settings /\ t.insert = id /\ t.vlans = Trunk(s, id)
      /\ \A n \in Names \ {"insert", "vlans"} : t[n] = s[n]
  BY <1>1, FieldNames DEF Settings
<1>3. u \in Settings /\ u.cinsert = id /\ u.vlans = Trunk(s, id)
      /\ \A n \in Names \ {"cinsert", "vlans"} : u[n] = s[n]
  BY <1>1, FieldNames DEF Settings
<1>4. w \in Settings /\ w.strip = on /\ \A n \in Names \ {"strip"} : w[n] = s[n]
  BY FieldNames DEF Settings
<1>5. Insert(s, id) = Take(s, t) /\ InsertC(s, id) = Take(s, u) /\ Strip(s, on) = Take(s, w)
  BY DEF Insert, InsertC, Strip
<1> HIDE DEF t, u, w
<1>6. /\ Insert(s, id) \in Settings /\ Only(s, Insert(s, id), {"insert", "vlans"})
      /\ InsertC(s, id) \in Settings /\ Only(s, InsertC(s, id), {"cinsert", "vlans"})
      /\ Strip(s, on) \in Settings /\ Only(s, Strip(s, on), {"strip"})
  BY <1>2, <1>3, <1>4, <1>5, TakeOnly
<1>7. /\ Insert(s, id).insert = IF "insert" \in Has THEN id ELSE s.insert
      /\ Insert(s, id).vlans = IF "vlans" \in Has THEN Trunk(s, id) ELSE s.vlans
  BY <1>2, <1>5, TakeIs, FieldNames DEF Settings
<1>8. /\ InsertC(s, id).cinsert = IF "cinsert" \in Has THEN id ELSE s.cinsert
      /\ InsertC(s, id).vlans = IF "vlans" \in Has THEN Trunk(s, id) ELSE s.vlans
  BY <1>3, <1>5, TakeIs, FieldNames DEF Settings
<1>9. "strip" \in Has => Strip(s, on).strip = on
  BY <1>4, <1>5, TakeIs, FieldNames DEF Settings
<1>10. QED
  BY <1>6, <1>7, <1>8, <1>9

LEMMA AcceptIs ==
  ASSUME NEW s \in Settings, NEW m \in BOOLEAN, NEW u \in BOOLEAN
  PROVE  /\ Accept(s, m, u) \in Settings /\ Only(s, Accept(s, m, u), {"mcast", "ucast", "trust"})
         /\ "mcast" \in Has => Accept(s, m, u).mcast = m
         /\ "ucast" \in Has => Accept(s, m, u).ucast = u
         /\ "trust" \in Has => Accept(s, m, u).trust = u
<1> DEFINE t == [s EXCEPT !.mcast = m, !.ucast = u, !.trust = u]
<1>1. t \in Settings /\ t.mcast = m /\ t.ucast = u /\ t.trust = u
      /\ \A n \in Names \ {"mcast", "ucast", "trust"} : t[n] = s[n]
  <2>1. t \in Settings
    BY DEF Settings
  <2>2. DOMAIN s = Names /\ "mcast" \in Names /\ "ucast" \in Names /\ "trust" \in Names
    BY FieldNames
  <2>3. QED
    BY <2>1, <2>2
<1>2. Accept(s, m, u) = Take(s, t)
  BY DEF Accept
<1> HIDE DEF t
<1>3. QED
  BY <1>1, <1>2, TakeOnly, TakeIs, FieldNames DEF Settings

LEMMA GuardsIs ==
  ASSUME NEW s \in Settings, NEW m \in BOOLEAN
  PROVE  /\ Broadcast(s, m) \in Settings /\ Only(s, Broadcast(s, m), {"bcast"})
         /\ "bcast" \in Has => Broadcast(s, m).bcast = m
         /\ SpoofMac(s, m) \in Settings /\ Only(s, SpoofMac(s, m), {"macSpoof"})
         /\ "macSpoof" \in Has =>
              (SpoofMac(s, m).macSpoof <=> kind = "ixgbe" \/ (m /\ kind # "i40e"))
         /\ SpoofVlan(s, m) \in Settings /\ Only(s, SpoofVlan(s, m), {"vlanSpoof"})
         /\ "vlanSpoof" \in Has => SpoofVlan(s, m).vlanSpoof = m
<1> DEFINE b == [s EXCEPT !.bcast = m]
           on == kind = "ixgbe" \/ (m /\ kind # "i40e")
           w == [s EXCEPT !.macSpoof = on]
           z == [s EXCEPT !.vlanSpoof = m]
<1>1. b \in Settings /\ b.bcast = m /\ \A n \in Names \ {"bcast"} : b[n] = s[n]
  BY FieldNames DEF Settings
<1>2. w \in Settings /\ (w.macSpoof <=> on) /\ \A n \in Names \ {"macSpoof"} : w[n] = s[n]
  <2>1. on \in BOOLEAN
    OBVIOUS
  <2> HIDE DEF on
  <2>2. QED
    BY <2>1, FieldNames DEF Settings
<1>3. z \in Settings /\ z.vlanSpoof = m /\ \A n \in Names \ {"vlanSpoof"} : z[n] = s[n]
  BY FieldNames DEF Settings
<1>4. Broadcast(s, m) = Take(s, b) /\ SpoofMac(s, m) = Take(s, w) /\ SpoofVlan(s, m) = Take(s, z)
  BY DEF Broadcast, SpoofMac, SpoofVlan
<1> HIDE DEF b, w, z, on
<1>5. /\ Broadcast(s, m) \in Settings /\ Only(s, Broadcast(s, m), {"bcast"})
      /\ SpoofMac(s, m) \in Settings /\ Only(s, SpoofMac(s, m), {"macSpoof"})
      /\ SpoofVlan(s, m) \in Settings /\ Only(s, SpoofVlan(s, m), {"vlanSpoof"})
  BY <1>1, <1>2, <1>3, <1>4, TakeOnly
<1>6. "bcast" \in Has => Broadcast(s, m).bcast = m
  BY <1>1, <1>4, TakeIs, FieldNames DEF Settings
<1>7. "macSpoof" \in Has => (SpoofMac(s, m).macSpoof <=> on)
  BY <1>2, <1>4, TakeIs, FieldNames DEF Settings
<1>8. "vlanSpoof" \in Has => SpoofVlan(s, m).vlanSpoof = m
  BY <1>3, <1>4, TakeIs, FieldNames DEF Settings
<1>9. QED
  BY <1>5, <1>6, <1>7, <1>8 DEF on

LEMMA TrunkIs ==
  ASSUME NEW s \in Settings, NEW ids \in SUBSET Nat
  PROVE  /\ Join(s, ids) \in Settings /\ Only(s, Join(s, ids), {"vlans"})
         /\ "vlans" \in Has => Join(s, ids).vlans = s.vlans \cup ids
         /\ Leave(s, ids) \in Settings /\ Only(s, Leave(s, ids), {"vlans"})
         /\ "vlans" \in Has => Leave(s, ids).vlans = s.vlans \ ids
<1> DEFINE t == [s EXCEPT !.vlans = @ \cup ids]
           u == [s EXCEPT !.vlans = @ \ ids]
<1>1. t \in Settings /\ t.vlans = s.vlans \cup ids /\ \A n \in Names \ {"vlans"} : t[n] = s[n]
  BY FieldNames DEF Settings
<1>2. u \in Settings /\ u.vlans = s.vlans \ ids /\ \A n \in Names \ {"vlans"} : u[n] = s[n]
  BY FieldNames DEF Settings
<1>3. Join(s, ids) = Take(s, t) /\ Leave(s, ids) = Take(s, u)
  BY DEF Join, Leave
<1> HIDE DEF t, u
<1>4. QED
  BY <1>1, <1>2, <1>3, TakeOnly, TakeIs, FieldNames DEF Settings

LEMMA OnlyTrans ==
  ASSUME NEW s, NEW t, NEW u, NEW N, NEW M, Only(s, t, N), Only(t, u, M)
  PROVE  Only(s, u, N \cup M)
BY DEF Only

LEMMA OnlyKeeps ==
  ASSUME NEW s \in Settings, NEW t \in Settings, NEW N, Only(s, t, N)
  PROVE  /\ "vlans" \notin N => t.vlans = s.vlans
         /\ "strip" \notin N => t.strip = s.strip
         /\ "insert" \notin N => t.insert = s.insert
         /\ "cinsert" \notin N => t.cinsert = s.cinsert
         /\ "vlanSpoof" \notin N => t.vlanSpoof = s.vlanSpoof
         /\ "macSpoof" \notin N => t.macSpoof = s.macSpoof
         /\ "bcast" \notin N => t.bcast = s.bcast
         /\ "mcast" \notin N => t.mcast = s.mcast
         /\ "ucast" \notin N => t.ucast = s.ucast
         /\ "trust" \notin N => t.trust = s.trust
         /\ "rate" \notin N => t.rate = s.rate
         /\ "minRate" \notin N => t.minRate = s.minRate
         /\ "link" \notin N => t.link = s.link
BY FieldNames DEF Only, Settings

LEMMA OnlyUntouched ==
  ASSUME NEW s, NEW t, NEW N, Only(s, t, N), Untouched(s)
  PROVE  Untouched(t)
BY DEF Only, Untouched

\* What a driver has no setter for.
LEMMA UntouchedIs ==
  ASSUME NEW s \in Settings, Untouched(s)
  PROVE  /\ "cinsert" \notin Has => s.cinsert = 0
         /\ "rate" \notin Has => s.rate = 0
         /\ "minRate" \notin Has => s.minRate = 0
         /\ "mcast" \notin Has => s.mcast = FALSE
         /\ "ucast" \notin Has => s.ucast = FALSE
         /\ "trust" \notin Has => s.trust = FALSE
         /\ "bcast" \notin Has => s.bcast = FALSE
BY FieldNames DEF Untouched, Settings, Fresh

LEMMA ConfigIs ==
  ASSUME NEW c \in Configs
  PROVE  /\ c # NoCfg
         /\ c.vlans \in SUBSET Nat /\ TheId(c) \in Nat
         /\ c.stag \in BOOLEAN /\ c.ctag \in BOOLEAN
         /\ c.bcast \in BOOLEAN /\ c.mcast \in BOOLEAN /\ c.ucast \in BOOLEAN
         /\ c.rate \in Nat /\ c.minRate \in Nat /\ c.link \in {"auto", "on", "off"}
         /\ Trunked(c) \in SUBSET Nat
<1>1. c \in ConfigRecords /\ c.vlans # {} /\ c # NoCfg
  BY NicAssumption
<1>2. TheId(c) \in c.vlans
  BY <1>1 DEF TheId
<1>3. QED
  BY <1>1, <1>2 DEF ConfigRecords, Trunked

LEMMA ShareIsNat ==
  ASSUME speed \in Nat, NEW p \in Nat
  PROVE  Share(p) \in Nat
<1>1. speed * p \in Nat
  OBVIOUS
<1>2. QED
  BY <1>1 DEF Share

LEMMA RatesIs ==
  ASSUME speed \in Nat, NEW s \in Settings, NEW c \in Configs
  PROVE  /\ Rates(s, c) \in Settings /\ Only(s, Rates(s, c), {"rate", "minRate"})
         /\ c.rate = 0 => Rates(s, c).rate = s.rate
         /\ c.minRate = 0 => Rates(s, c).minRate = s.minRate
<1> DEFINE r == IF c.rate # 0 THEN SetRate(s, Share(c.rate)) ELSE s
           q == IF c.minRate # 0 THEN SetMin(r, Share(c.minRate)) ELSE r
<1>1. Share(c.rate) \in Nat /\ Share(c.minRate) \in Nat
  BY ConfigIs, ShareIsNat
<1>2. r \in Settings /\ Only(s, r, {"rate"}) /\ (c.rate = 0 => r = s)
  BY <1>1, LimitsIs DEF Only
<1>3. q = Rates(s, c)
  BY DEF Rates
<1> HIDE DEF r
<1>4. q \in Settings /\ Only(r, q, {"minRate"}) /\ (c.minRate = 0 => q = r)
  BY <1>1, <1>2, LimitsIs DEF Only
<1> HIDE DEF q
<1>5. Only(s, q, {"rate", "minRate"})
  BY <1>2, <1>4 DEF Only
<1>6. QED
  BY <1>2, <1>3, <1>4, <1>5, OnlyKeeps

LEMMA RatesAre ==
  ASSUME speed \in Nat, NEW s \in Settings, NEW c \in Configs
  PROVE  /\ "rate" \in Has =>
              Rates(s, c).rate = IF c.rate # 0 /\ ~(Share(c.rate) > speed) THEN Share(c.rate)
                                 ELSE s.rate
         /\ "minRate" \in Has =>
              Rates(s, c).minRate = IF c.minRate # 0 THEN Share(c.minRate) ELSE s.minRate
<1> DEFINE x == Share(c.rate)
           y == Share(c.minRate)
           r == IF c.rate # 0 THEN SetRate(s, x) ELSE s
           q == IF c.minRate # 0 THEN SetMin(r, y) ELSE r
<1>1. x \in Nat /\ y \in Nat
  BY ConfigIs, ShareIsNat
<1>2. q = Rates(s, c)
  BY DEF Rates
<1> HIDE DEF x, y
<1>3. r \in Settings /\ Only(s, r, {"rate"})
  BY <1>1, LimitsIs DEF Only
<1>4. "rate" \in Has => r.rate = IF c.rate # 0 /\ ~(x > speed) THEN x ELSE s.rate
  <2>1. x > speed => SetRate(s, x) = s
    BY DEF SetRate
  <2>2. "rate" \in Has /\ ~(x > speed) => SetRate(s, x).rate = x
    BY <1>1, LimitsIs
  <2>3. QED
    BY <2>1, <2>2
<1> HIDE DEF r
<1>5. q \in Settings /\ Only(r, q, {"minRate"})
  BY <1>1, <1>3, LimitsIs DEF Only
<1>6. "minRate" \in Has => q.minRate = IF c.minRate # 0 THEN y ELSE r.minRate
  BY <1>1, <1>3, LimitsIs
<1> HIDE DEF q
<1>7. q.rate = r.rate /\ r.minRate = s.minRate
  BY <1>3, <1>5, OnlyKeeps
<1>8. QED
  BY <1>2, <1>4, <1>6, <1>7 DEF x, y

LEMMA NoRatesIs ==
  ASSUME speed \in Nat, NEW s \in Settings, NEW c \in Configs
  PROVE  /\ NoRates(s, c) \in Settings /\ Only(s, NoRates(s, c), {"rate", "minRate"})
         /\ NoRates(s, c).rate = IF c.rate # 0 /\ "rate" \in Has THEN 0 ELSE s.rate
         /\ NoRates(s, c).minRate = IF c.minRate # 0 /\ "minRate" \in Has THEN 0 ELSE s.minRate
<1> DEFINE r == IF c.rate > 0 THEN SetRate(s, 0) ELSE s
           q == IF c.minRate > 0 THEN SetMin(r, 0) ELSE r
<1>1. r \in Settings /\ Only(s, r, {"rate"})
  BY LimitsIs DEF Only
<1>2. r.rate = IF c.rate # 0 /\ "rate" \in Has THEN 0 ELSE s.rate
  <2>1. "rate" \notin Has => r.rate = s.rate
    BY <1>1, FieldNames DEF Only, Settings
  <2>2. 0 \in Nat /\ ~(0 > speed) /\ (c.rate > 0 <=> c.rate # 0)
    BY ConfigIs
  <2>3. "rate" \in Has => SetRate(s, 0).rate = 0
    BY <2>2, LimitsIs
  <2>4. QED
    BY <2>1, <2>2, <2>3
<1>3. q = NoRates(s, c)
  BY DEF NoRates
<1> HIDE DEF r
<1>4. q \in Settings /\ Only(r, q, {"minRate"})
  BY <1>1, LimitsIs DEF Only
<1>5. q.minRate = IF c.minRate # 0 /\ "minRate" \in Has THEN 0 ELSE r.minRate
  <2>1. "minRate" \notin Has => q.minRate = r.minRate
    BY <1>1, <1>4, FieldNames DEF Only, Settings
  <2>2. q = IF c.minRate # 0 THEN SetMin(r, 0) ELSE r
    BY ConfigIs
  <2>3. "minRate" \in Has => SetMin(r, 0).minRate = 0
    BY <1>1, LimitsIs
  <2> HIDE DEF q
  <2>4. QED
    BY <2>1, <2>2, <2>3
<1> HIDE DEF q
<1>6. Only(s, q, {"rate", "minRate"})
  BY <1>1, <1>4 DEF Only
<1>7. q.rate = r.rate /\ r.minRate = s.minRate
  BY <1>1, <1>4, OnlyKeeps
<1>8. QED
  BY <1>2, <1>3, <1>4, <1>5, <1>6, <1>7

\* The tag of a VF: inserted if it has one VLAN, else taken away.
LEMMA InsStripIs ==
  ASSUME kind \in AllKinds, NEW s \in Settings, NEW c \in Configs, NEW active \in BOOLEAN,
         Untouched(s), s.vlans \subseteq Trunked(c),
         s.insert \in {0, TagOf(c, c.stag)}, s.cinsert \in {0, TagOf(c, c.ctag /\ ~c.stag)}
  PROVE  /\ InsStrip(s, c, active) \in Settings
         /\ Only(s, InsStrip(s, c, active), {"strip", "insert", "cinsert", "vlans"})
         /\ "strip" \in Has => InsStrip(s, c, active).strip = c.stag
         /\ InsStrip(s, c, active).vlans = s.vlans
         /\ InsStrip(s, c, active).insert = IF active THEN TagOf(c, c.stag) ELSE 0
         /\ "cinsert" \in Has =>
              InsStrip(s, c, active).cinsert = IF active THEN TagOf(c, c.ctag /\ ~c.stag) ELSE 0
<1> DEFINE t == Strip(s, c.stag)
           r == InsStrip(s, c, active)
           one == Cardinality(c.vlans) = 1
           N == {"strip", "insert", "cinsert", "vlans"}
<1>1. /\ t \in Settings /\ Only(s, t, {"strip"}) /\ ("strip" \in Has => t.strip = c.stag)
      /\ t.vlans = s.vlans /\ t.insert = s.insert /\ t.cinsert = s.cinsert
  <2>1. t \in Settings /\ Only(s, t, {"strip"}) /\ ("strip" \in Has => t.strip = c.stag)
    <3>1. c.stag \in BOOLEAN /\ 0 \in Nat
      BY ConfigIs
    <3>2. QED
      BY <3>1, TagsIs, Zenon
  <2> HIDE DEF t
  <2>2. QED
    BY <2>1, OnlyKeeps
<1>2. TheId(c) \in Nat /\ {"vlans", "insert"} \subseteq Has
  BY ConfigIs, KindHas
<1>3. kind = "mlx5" /\ (c.stag \/ c.ctag) => s.vlans = {}
  BY DEF Trunked
<1> HIDE DEF t
<1>4. CASE active /\ one /\ c.stag
  <2>1. r = Insert(t, TheId(c))
    BY <1>4 DEF InsStrip, t
  <2>2. /\ r \in Settings /\ Only(t, r, {"insert", "vlans"})
        /\ r.insert = TheId(c) /\ r.vlans = Trunk(t, TheId(c))
    BY <1>1, <1>2, <2>1, TagsIs
  <2>3. r.strip = t.strip /\ r.cinsert = s.cinsert
    BY <1>1, <2>2, OnlyKeeps
  <2>4. r.vlans = s.vlans
    BY <1>1, <1>3, <1>4, <2>2 DEF Trunk
  <2>5. Only(s, r, N)
    BY <1>1, <2>2 DEF Only
  <2>6. TagOf(c, c.stag) = TheId(c) /\ TagOf(c, c.ctag /\ ~c.stag) = 0
    BY <1>4 DEF TagOf
  <2>7. QED
    BY <1>1, <1>4, <2>2, <2>3, <2>4, <2>5, <2>6
<1>5. CASE active /\ one /\ c.ctag /\ ~c.stag
  <2>1. r = InsertC(t, TheId(c))
    BY <1>5 DEF InsStrip, t
  <2>2. /\ r \in Settings /\ Only(t, r, {"cinsert", "vlans"})
        /\ "cinsert" \in Has => r.cinsert = TheId(c)
        /\ r.vlans = Trunk(t, TheId(c))
    BY <1>1, <1>2, <2>1, TagsIs
  <2>3. r.strip = t.strip /\ r.insert = s.insert
    BY <1>1, <2>2, OnlyKeeps
  <2>4. r.vlans = s.vlans
    BY <1>1, <1>3, <1>5, <2>2 DEF Trunk
  <2>5. Only(s, r, N)
    BY <1>1, <2>2 DEF Only
  <2>6. TagOf(c, c.stag) = 0 /\ TagOf(c, c.ctag /\ ~c.stag) = TheId(c)
    BY <1>5 DEF TagOf
  <2>7. QED
    BY <1>1, <1>5, <2>2, <2>3, <2>4, <2>5, <2>6
<1>6. CASE ~(active /\ one /\ c.stag) /\ ~(active /\ one /\ c.ctag /\ ~c.stag)
  <2> DEFINE u == Insert(t, 0)
  <2>1. r = InsertC(u, 0)
    BY <1>6 DEF InsStrip, Untag, t
  <2>2. /\ u \in Settings /\ Only(t, u, {"insert", "vlans"})
        /\ u.insert = 0 /\ u.vlans = s.vlans
    BY <1>1, <1>2, TagsIs DEF Trunk
  <2> HIDE DEF u
  <2>3. /\ r \in Settings /\ Only(u, r, {"cinsert", "vlans"})
        /\ "cinsert" \in Has => r.cinsert = 0
        /\ r.vlans = s.vlans
    BY <1>2, <2>1, <2>2, TagsIs DEF Trunk
  <2>4. r.insert = 0 /\ r.strip = t.strip
    BY <1>1, <2>2, <2>3, OnlyKeeps
  <2>5. Only(s, r, N)
    BY <1>1, <2>2, <2>3 DEF Only
  <2>6. active => TagOf(c, c.stag) = 0 /\ TagOf(c, c.ctag /\ ~c.stag) = 0
    BY <1>6 DEF TagOf
  <2>7. QED
    BY <1>1, <2>3, <2>4, <2>5, <2>6
<1>7. QED
  BY <1>4, <1>5, <1>6

(***************************************************************************)
(* The update pass.                                                        *)
(***************************************************************************)

LEMMA ActivateIs ==
  ASSUME kind \in AllKinds, speed \in Nat, NEW s \in Settings, NEW c \in Configs,
         Untouched(s), Held(s, c)
  PROVE  /\ Activate(s, c) \in Settings /\ Untouched(Activate(s, c))
         /\ Held(Activate(s, c), c) /\ Bounded(Activate(s, c), c) /\ Full(Activate(s, c), c)
         /\ "rate" \in Has =>
              Activate(s, c).rate = IF c.rate # 0 /\ ~(Share(c.rate) > speed) THEN Share(c.rate)
                                    ELSE s.rate
         /\ "minRate" \in Has =>
              Activate(s, c).minRate = IF c.minRate # 0 THEN Share(c.minRate) ELSE s.minRate
<1> DEFINE s0 == Join(s, Trunked(c))
           s1 == Rates(s0, c)
           s2 == SpoofVlan(s1, TRUE)
           s3 == SpoofMac(s2, MacSpoof)
           s4 == InsStrip(s3, c, TRUE)
           s5 == Broadcast(s4, c.bcast)
           s6 == Accept(s5, c.mcast, c.ucast)
           s7 == SetLink(s6, c.link)
<1>1. s7 = Activate(s, c)
  BY DEF Activate
<1>2. /\ "vlans" \in Has
      /\ Trunked(c) \in SUBSET Nat /\ s.vlans \subseteq Trunked(c)
      /\ c.bcast \in BOOLEAN /\ c.mcast \in BOOLEAN /\ c.ucast \in BOOLEAN
  BY KindHas, ConfigIs DEF Held
<1>3. s0 \in Settings /\ Only(s, s0, {"vlans"}) /\ s0.vlans = Trunked(c)
  <2>1. s.vlans \cup Trunked(c) = Trunked(c)
    BY <1>2
  <2>2. s0 \in Settings /\ Only(s, s0, {"vlans"}) /\ s0.vlans = s.vlans \cup Trunked(c)
    BY <1>2, TrunkIs
  <2>3. QED
    BY <2>1, <2>2
<1> HIDE DEF s0
<1>4. /\ s1 \in Settings /\ Only(s0, s1, {"rate", "minRate"})
      /\ c.rate = 0 => s1.rate = s0.rate
      /\ c.minRate = 0 => s1.minRate = s0.minRate
      /\ "rate" \in Has =>
           s1.rate = IF c.rate # 0 /\ ~(Share(c.rate) > speed) THEN Share(c.rate) ELSE s0.rate
      /\ "minRate" \in Has =>
           s1.minRate = IF c.minRate # 0 THEN Share(c.minRate) ELSE s0.minRate
  BY <1>3, RatesIs, RatesAre
<1> HIDE DEF s1
<1>5. s2 \in Settings /\ Only(s1, s2, {"vlanSpoof"}) /\ ("vlanSpoof" \in Has => s2.vlanSpoof = TRUE)
  BY <1>4, GuardsIs
<1> HIDE DEF s2
<1>6. /\ s3 \in Settings /\ Only(s2, s3, {"macSpoof"})
      /\ "macSpoof" \in Has => (s3.macSpoof <=> kind = "ixgbe")
  BY <1>5, GuardsIs DEF MacSpoof
<1> HIDE DEF s3
<1>7. Untouched(s3) /\ s3.vlans = Trunked(c) /\ s3.insert = s.insert /\ s3.cinsert = s.cinsert
  <2>1. Untouched(s0) /\ Untouched(s1) /\ Untouched(s2) /\ Untouched(s3)
    BY <1>3, <1>4, <1>5, <1>6, OnlyUntouched
  <2>2. s0.insert = s.insert /\ s0.cinsert = s.cinsert
    BY <1>3, OnlyKeeps
  <2>3. s1.insert = s0.insert /\ s1.cinsert = s0.cinsert /\ s1.vlans = s0.vlans
    BY <1>3, <1>4, OnlyKeeps
  <2>4. s2.insert = s1.insert /\ s2.cinsert = s1.cinsert /\ s2.vlans = s1.vlans
    BY <1>4, <1>5, OnlyKeeps
  <2>5. s3.insert = s2.insert /\ s3.cinsert = s2.cinsert /\ s3.vlans = s2.vlans
    BY <1>5, <1>6, OnlyKeeps
  <2>6. QED
    BY <1>3, <2>1, <2>2, <2>3, <2>4, <2>5
<1>8. /\ s4 \in Settings /\ Only(s3, s4, {"strip", "insert", "cinsert", "vlans"})
      /\ "strip" \in Has => s4.strip = c.stag
      /\ s4.vlans = s3.vlans
      /\ s4.insert = TagOf(c, c.stag)
      /\ "cinsert" \in Has => s4.cinsert = TagOf(c, c.ctag /\ ~c.stag)
  BY <1>6, <1>7, InsStripIs DEF Held
<1> HIDE DEF s4
<1>9. s5 \in Settings /\ Only(s4, s5, {"bcast"}) /\ ("bcast" \in Has => s5.bcast = c.bcast)
  BY <1>2, <1>8, GuardsIs
<1> HIDE DEF s5
<1>10. /\ s6 \in Settings /\ Only(s5, s6, {"mcast", "ucast", "trust"})
       /\ "mcast" \in Has => s6.mcast = c.mcast
       /\ "ucast" \in Has => s6.ucast = c.ucast
       /\ "trust" \in Has => s6.trust = c.ucast
  <2> DEFINE m == c.mcast
             u == c.ucast
  <2>1. m \in BOOLEAN /\ u \in BOOLEAN /\ s6 = Accept(s5, m, u)
    BY <1>2
  <2> HIDE DEF m, u, s6
  <2>2. /\ Accept(s5, m, u) \in Settings
        /\ Only(s5, Accept(s5, m, u), {"mcast", "ucast", "trust"})
        /\ "mcast" \in Has => Accept(s5, m, u).mcast = m
        /\ "ucast" \in Has => Accept(s5, m, u).ucast = u
        /\ "trust" \in Has => Accept(s5, m, u).trust = u
    BY <1>9, <2>1, AcceptIs, ZenonT(60)
  <2>3. QED
    BY <2>1, <2>2 DEF m, u
<1> HIDE DEF s6
<1>11. s7 \in Settings /\ Only(s6, s7, {"link"}) /\ ("link" \in Has => s7.link = c.link)
  BY <1>10, SetLinkIs, ConfigIs
<1> HIDE DEF s7
<1>12. Untouched(s7)
  BY <1>7, <1>8, <1>9, <1>10, <1>11, OnlyUntouched
<1>13. /\ s7.vlans = Trunked(c) /\ s7.insert = TagOf(c, c.stag)
       /\ "cinsert" \in Has => s7.cinsert = TagOf(c, c.ctag /\ ~c.stag)
       /\ "strip" \in Has => s7.strip = c.stag
  <2>1. s7.vlans = s6.vlans /\ s7.insert = s6.insert /\ s7.cinsert = s6.cinsert /\ s7.strip = s6.strip
    BY <1>10, <1>11, OnlyKeeps
  <2>2. s6.vlans = s5.vlans /\ s6.insert = s5.insert /\ s6.cinsert = s5.cinsert /\ s6.strip = s5.strip
    BY <1>9, <1>10, OnlyKeeps
  <2>3. s5.vlans = s4.vlans /\ s5.insert = s4.insert /\ s5.cinsert = s4.cinsert /\ s5.strip = s4.strip
    BY <1>8, <1>9, OnlyKeeps
  <2>4. QED
    BY <1>7, <1>8, <2>1, <2>2, <2>3
<1>14. /\ "vlanSpoof" \in Has => s7.vlanSpoof = TRUE
       /\ "macSpoof" \in Has => (s7.macSpoof <=> kind = "ixgbe")
       /\ "bcast" \in Has => s7.bcast = c.bcast
       /\ "mcast" \in Has => s7.mcast = c.mcast
       /\ "ucast" \in Has => s7.ucast = c.ucast
       /\ "trust" \in Has => s7.trust = c.ucast
  <2>1. s3.vlanSpoof = s2.vlanSpoof /\ s4.vlanSpoof = s3.vlanSpoof /\ s4.macSpoof = s3.macSpoof
    BY <1>5, <1>6, <1>8, OnlyKeeps
  <2>2. s5.vlanSpoof = s4.vlanSpoof /\ s5.macSpoof = s4.macSpoof
    BY <1>8, <1>9, OnlyKeeps
  <2>3. s6.vlanSpoof = s5.vlanSpoof /\ s6.macSpoof = s5.macSpoof /\ s6.bcast = s5.bcast
    BY <1>9, <1>10, OnlyKeeps
  <2>4. /\ s7.vlanSpoof = s6.vlanSpoof /\ s7.macSpoof = s6.macSpoof /\ s7.bcast = s6.bcast
        /\ s7.mcast = s6.mcast /\ s7.ucast = s6.ucast /\ s7.trust = s6.trust
    BY <1>10, <1>11, OnlyKeeps
  <2>5. QED
    BY <1>5, <1>6, <1>9, <1>10, <2>1, <2>2, <2>3, <2>4
<1>15. s0.rate = s.rate /\ s0.minRate = s.minRate /\ s7.rate = s1.rate /\ s7.minRate = s1.minRate
  <2>1. s0.rate = s.rate /\ s0.minRate = s.minRate
    BY <1>3, OnlyKeeps
  <2>2. s2.rate = s1.rate /\ s2.minRate = s1.minRate /\ s3.rate = s2.rate /\ s3.minRate = s2.minRate
    BY <1>4, <1>5, <1>6, OnlyKeeps
  <2>3. s4.rate = s3.rate /\ s4.minRate = s3.minRate /\ s5.rate = s4.rate /\ s5.minRate = s4.minRate
    BY <1>6, <1>8, <1>9, OnlyKeeps
  <2>4. s6.rate = s5.rate /\ s6.minRate = s5.minRate /\ s7.rate = s6.rate /\ s7.minRate = s6.minRate
    BY <1>9, <1>10, <1>11, OnlyKeeps
  <2>5. QED
    BY <2>1, <2>2, <2>3, <2>4
<1>16. Held(s7, c)
  <2>1. "cinsert" \notin Has => s7.cinsert = 0
    BY <1>11, <1>12, UntouchedIs
  <2>2. QED
    BY <1>4, <1>13, <1>15, <2>1 DEF Held
<1>17. Bounded(s7, c) /\ Full(s7, c)
  BY <1>11, <1>13, <1>14, KindHas DEF Bounded, Full
<1>18. QED
  BY <1>1, <1>4, <1>11, <1>12, <1>15, <1>16, <1>17

LEMMA DeactivateIs ==
  ASSUME kind \in AllKinds, speed \in Nat, NEW s \in Settings, NEW c \in Configs,
         Untouched(s), Held(s, c)
  PROVE  Deactivate(s, c) \in Settings /\ Untouched(Deactivate(s, c)) /\ Empty(Deactivate(s, c))
<1> DEFINE s0 == Leave(s, Trunked(c))
           s1 == IF MacSpoof THEN SpoofMac(s0, FALSE) ELSE s0
           s2 == Rates(s1, c)
           s3 == NoRates(s2, c)
           s4 == InsStrip(s3, c, FALSE)
           s5 == SetLink(s4, "auto")
           s6 == Accept(s5, FALSE, FALSE)
<1>1. s6 = Deactivate(s, c)
  BY DEF Deactivate
<1>2. "vlans" \in Has
  BY KindHas
<1>3. s0 \in Settings /\ Only(s, s0, {"vlans"}) /\ s0.vlans = {}
  BY <1>2, ConfigIs, TrunkIs DEF Held
<1> HIDE DEF s0
<1>4. s1 \in Settings /\ Only(s0, s1, {"macSpoof"})
  BY <1>3, GuardsIs DEF Only
<1> HIDE DEF s1
<1>5. /\ s2 \in Settings /\ Only(s1, s2, {"rate", "minRate"})
      /\ c.rate = 0 => s2.rate = s1.rate
      /\ c.minRate = 0 => s2.minRate = s1.minRate
  BY <1>4, RatesIs
<1> HIDE DEF s2
<1>6. /\ s3 \in Settings /\ Only(s2, s3, {"rate", "minRate"})
      /\ s3.rate = IF c.rate # 0 /\ "rate" \in Has THEN 0 ELSE s2.rate
      /\ s3.minRate = IF c.minRate # 0 /\ "minRate" \in Has THEN 0 ELSE s2.minRate
  BY <1>5, NoRatesIs
<1> HIDE DEF s3
<1>7. Untouched(s2) /\ Untouched(s3)
  BY <1>3, <1>4, <1>5, <1>6, OnlyUntouched
<1>8. s3.vlans = {} /\ s3.insert = s.insert /\ s3.cinsert = s.cinsert
  <2>1. s0.insert = s.insert /\ s0.cinsert = s.cinsert
    BY <1>3, OnlyKeeps
  <2>2. s1.vlans = s0.vlans /\ s1.insert = s0.insert /\ s1.cinsert = s0.cinsert
    BY <1>3, <1>4, OnlyKeeps
  <2>3. s2.vlans = s1.vlans /\ s2.insert = s1.insert /\ s2.cinsert = s1.cinsert
    BY <1>4, <1>5, OnlyKeeps
  <2>4. s3.vlans = s2.vlans /\ s3.insert = s2.insert /\ s3.cinsert = s2.cinsert
    BY <1>5, <1>6, OnlyKeeps
  <2>5. QED
    BY <1>3, <2>1, <2>2, <2>3, <2>4
<1>9. s3.rate = 0 /\ s3.minRate = 0
  <2>1. s0.rate = s.rate /\ s0.minRate = s.minRate
    BY <1>3, OnlyKeeps
  <2>2. s1.rate = s0.rate /\ s1.minRate = s0.minRate
    BY <1>3, <1>4, OnlyKeeps
  <2>3. ("rate" \notin Has => s2.rate = 0) /\ ("minRate" \notin Has => s2.minRate = 0)
    BY <1>5, <1>7, UntouchedIs
  <2>4. QED
    BY <1>5, <1>6, <2>1, <2>2, <2>3 DEF Held
<1>10. /\ s4 \in Settings /\ Only(s3, s4, {"strip", "insert", "cinsert", "vlans"})
       /\ s4.vlans = {} /\ s4.insert = 0
       /\ "cinsert" \in Has => s4.cinsert = 0
  BY <1>6, <1>7, <1>8, InsStripIs DEF Held
<1> HIDE DEF s4
<1>11. s5 \in Settings /\ Only(s4, s5, {"link"})
  BY <1>10, SetLinkIs
<1> HIDE DEF s5
<1>12. /\ s6 \in Settings /\ Only(s5, s6, {"mcast", "ucast", "trust"})
       /\ "mcast" \in Has => s6.mcast = FALSE
       /\ "ucast" \in Has => s6.ucast = FALSE
       /\ "trust" \in Has => s6.trust = FALSE
  BY <1>11, AcceptIs
<1> HIDE DEF s6
<1>13. Untouched(s6)
  BY <1>7, <1>10, <1>11, <1>12, OnlyUntouched
<1>14. /\ s6.vlans = {} /\ s6.insert = 0 /\ s6.rate = 0 /\ s6.minRate = 0
       /\ "cinsert" \in Has => s6.cinsert = 0
  <2>1. s4.rate = s3.rate /\ s4.minRate = s3.minRate
    BY <1>6, <1>10, OnlyKeeps
  <2>2. /\ s5.vlans = s4.vlans /\ s5.insert = s4.insert /\ s5.cinsert = s4.cinsert
        /\ s5.rate = s4.rate /\ s5.minRate = s4.minRate
    BY <1>10, <1>11, OnlyKeeps
  <2>3. /\ s6.vlans = s5.vlans /\ s6.insert = s5.insert /\ s6.cinsert = s5.cinsert
        /\ s6.rate = s5.rate /\ s6.minRate = s5.minRate
    BY <1>11, <1>12, OnlyKeeps
  <2>4. QED
    BY <1>9, <1>10, <2>1, <2>2, <2>3
<1>15. Empty(s6)
  BY <1>12, <1>13, <1>14, UntouchedIs DEF Empty
<1>16. QED
  BY <1>1, <1>12, <1>13, <1>15

(***************************************************************************)
(* Every step preserves the invariant.                                     *)
(***************************************************************************)

\* A VF that nobody used has what any configuration allows.
LEMMA EmptyIsHeld ==
  ASSUME NEW s \in Settings, NEW c \in Configs, Empty(s)
  PROVE  Held(s, c)
BY DEF Empty, Held

\* The invariant of a VF in the next state, said of its next settings.
LEMMA NextVf ==
  ASSUME kind' = kind, NEW v \in VfIds,
         Untouched(nic'[v]),
         cfg'[v] # NoCfg => Held(nic'[v], cfg'[v]) /\ Bounded(nic'[v], cfg'[v]),
         cfg'[v] # NoCfg /\ v \notin lost' => Full(nic'[v], cfg'[v]),
         cfg'[v] = NoCfg => Empty(nic'[v])
  PROVE  VfInv(v)'
<1>1. Has' = Has
  BY DEF Has
<1>2. Untouched(nic[v])'
  BY <1>1 DEF Untouched
<1>3. cfg'[v] # NoCfg => Held(nic[v], cfg[v])' /\ Bounded(nic[v], cfg[v])'
  BY DEF Held, Trunked, Bounded
<1>4. cfg'[v] # NoCfg /\ v \notin lost' => Full(nic[v], cfg[v])'
  BY <1>1 DEF Full, Trunked
<1>5. cfg'[v] = NoCfg => Empty(nic[v])'
  BY DEF Empty
<1>6. QED
  BY <1>2, <1>3, <1>4, <1>5 DEF VfInv

\* A VF that the step leaves alone.
LEMMA SameVf ==
  ASSUME kind' = kind, NEW v \in VfIds, VfInv(v),
         nic'[v] = nic[v], cfg'[v] = cfg[v], v \in lost => v \in lost'
  PROVE  VfInv(v)'
BY NextVf DEF VfInv

\* A VF whose update pass makes it what its configuration says.
LEMMA ActiveVf ==
  ASSUME NicTypes, kind' = kind, NEW v \in VfIds, VfInv(v), NEW c \in Configs,
         cfg[v] \in {c, NoCfg}, cfg'[v] = c, nic'[v] = Activate(nic[v], c)
  PROVE  VfInv(v)' /\ nic'[v] \in Settings
<1>1. nic[v] \in Settings /\ c # NoCfg
  BY ConfigIs DEF NicTypes
<1>2. Untouched(nic[v]) /\ Held(nic[v], c)
  BY <1>1, EmptyIsHeld DEF VfInv
<1>3. /\ nic'[v] \in Settings /\ Untouched(nic'[v])
      /\ Held(nic'[v], c) /\ Bounded(nic'[v], c) /\ Full(nic'[v], c)
  BY <1>1, <1>2, ActivateIs DEF NicTypes
<1>4. QED
  BY <1>1, <1>3, NextVf

LEMMA NicInitially == NicInit => NicInv
<1> SUFFICES ASSUME NicInit PROVE NicInv
  OBVIOUS
<1>1. NicTypes
  BY NicAssumption, FieldNames DEF NicInit, NicTypes
<1>2. ASSUME NEW v \in VfIds PROVE VfInv(v)
  <2>1. cfg[v] = NoCfg /\ nic[v] = Fresh
    BY DEF NicInit
  <2>2. Untouched(Fresh) /\ Empty(Fresh)
    BY DEF Untouched, Empty, Fresh
  <2>3. QED
    BY <2>1, <2>2 DEF VfInv
<1>3. QED
  BY <1>1, <1>2 DEF NicInv

LEMMA AddKeeps ==
  ASSUME NicInv, NEW v \in VfIds, NEW c \in Configs, Add(v, c)
  PROVE  NicInv'
<1>1. NicTypes /\ cfg[v] = NoCfg /\ kind' = kind
  BY DEF NicInv, Add, Managed
<1>2. cfg'[v] = c /\ nic'[v] = Activate(nic[v], c)
  BY <1>1 DEF NicTypes, Add
<1>3. VfInv(v)' /\ nic'[v] \in Settings
  BY <1>1, <1>2, ActiveVf DEF NicInv
<1>4. NicTypes'
  BY <1>1, <1>2, <1>3 DEF NicTypes, Add
<1>5. ASSUME NEW w \in VfIds, w # v PROVE VfInv(w)'
  BY <1>1, <1>5, SameVf DEF NicInv, NicTypes, Add
<1>6. QED
  BY <1>3, <1>4, <1>5 DEF NicInv

LEMMA DelKeeps ==
  ASSUME NicInv, NEW v \in VfIds, Del(v)
  PROVE  NicInv'
<1>1. NicTypes /\ cfg[v] \in Configs /\ cfg[v] # NoCfg /\ kind' = kind
  BY DEF NicInv, NicTypes, Del, Managed
<1>2. cfg'[v] = NoCfg /\ nic'[v] = Deactivate(nic[v], cfg[v])
  BY <1>1 DEF NicTypes, Del
<1>3. nic[v] \in Settings /\ Untouched(nic[v]) /\ Held(nic[v], cfg[v])
  BY <1>1 DEF NicInv, NicTypes, VfInv
<1>4. nic'[v] \in Settings /\ Untouched(nic'[v]) /\ Empty(nic'[v])
  BY <1>1, <1>2, <1>3, DeactivateIs DEF NicTypes
<1>5. VfInv(v)'
  BY <1>1, <1>2, <1>4, NextVf
<1>6. NicTypes'
  BY <1>1, <1>2, <1>4 DEF NicTypes, Del
<1>7. ASSUME NEW w \in VfIds, w # v PROVE VfInv(w)'
  BY <1>1, <1>7, SameVf DEF NicInv, NicTypes, Del
<1>8. QED
  BY <1>5, <1>6, <1>7 DEF NicInv

\* What a reset leaves of the settings.
LEMMA ResetIs ==
  ASSUME NEW s \in Settings, NEW gone, NEW t,
         t = [n \in DOMAIN s |-> IF n \in gone THEN Fresh[n] ELSE s[n]]
  PROVE  /\ t \in Settings
         /\ Untouched(s) => Untouched(t)
         /\ \A c \in Configs : (Held(s, c) => Held(t, c)) /\ (Bounded(s, c) => Bounded(t, c))
<1>1. t \in Settings /\ \A n \in Names : t[n] = Fresh[n] \/ t[n] = s[n]
  BY FieldNames DEF Settings, Fresh
<1>2. Untouched(s) => Untouched(t)
  BY <1>1 DEF Untouched
<1>3. /\ t.vlans = {} \/ t.vlans = s.vlans
      /\ t.insert = 0 \/ t.insert = s.insert
      /\ t.cinsert = 0 \/ t.cinsert = s.cinsert
      /\ t.rate = 0 \/ t.rate = s.rate
      /\ t.minRate = 0 \/ t.minRate = s.minRate
  BY <1>1, FieldNames DEF Fresh
<1>4. /\ t.ucast = FALSE \/ t.ucast = s.ucast
      /\ t.mcast = FALSE \/ t.mcast = s.mcast
      /\ t.bcast = FALSE \/ t.bcast = s.bcast
  BY <1>1, FieldNames DEF Fresh
<1>5. ASSUME NEW c \in Configs, Held(s, c) PROVE Held(t, c)
  BY <1>3, <1>5 DEF Held
<1>6. ASSUME NEW c \in Configs, Bounded(s, c) PROVE Bounded(t, c)
  BY <1>4, <1>6 DEF Bounded
<1>7. QED
  BY <1>1, <1>2, <1>5, <1>6

LEMMA GuestResetsKeeps ==
  ASSUME NicInv, NEW v \in VfIds, GuestResets(v)
  PROVE  NicInv'
<1>1. NicTypes /\ cfg[v] \in Configs /\ cfg[v] # NoCfg
  BY DEF NicInv, NicTypes, GuestResets, Managed
<1>2. kind' = kind /\ cfg' = cfg /\ lost' = lost \cup {v} /\ speed' = speed
  BY DEF GuestResets
<1>3. PICK gone : nic' = [nic EXCEPT ![v] = [n \in DOMAIN nic[v] |->
                            IF n \in gone THEN Fresh[n] ELSE nic[v][n]]]
  BY DEF GuestResets
<1>4. nic[v] \in Settings /\ Untouched(nic[v]) /\ Held(nic[v], cfg[v]) /\ Bounded(nic[v], cfg[v])
  BY <1>1 DEF NicInv, NicTypes, VfInv
<1>5. nic'[v] = [n \in DOMAIN nic[v] |-> IF n \in gone THEN Fresh[n] ELSE nic[v][n]]
  BY <1>1, <1>3 DEF NicTypes
<1>6. /\ nic'[v] \in Settings /\ Untouched(nic'[v])
      /\ Held(nic'[v], cfg[v]) /\ Bounded(nic'[v], cfg[v])
  BY <1>1, <1>4, <1>5, ResetIs
<1>7. VfInv(v)'
  BY <1>1, <1>2, <1>6, NextVf
<1>8. NicTypes'
  BY <1>1, <1>2, <1>3, <1>6 DEF NicTypes
<1>9. ASSUME NEW w \in VfIds, w # v PROVE VfInv(w)'
  BY <1>1, <1>2, <1>3, <1>9, SameVf DEF NicInv, NicTypes
<1>10. QED
  BY <1>7, <1>8, <1>9 DEF NicInv

\* What a guest's message leaves of the settings.
LEMMA ModesAre ==
  ASSUME NEW s \in Settings, NEW c \in Configs,
         NEW u \in BOOLEAN, NEW m \in BOOLEAN, NEW b \in BOOLEAN, NEW t,
         t = [s EXCEPT !.ucast = u, !.mcast = m, !.bcast = b],
         kind \in {"i40e", "bnxt"},
         Untouched(s), Held(s, c), u => c.ucast, m => c.mcast, b => c.bcast
  PROVE  t \in Settings /\ Untouched(t) /\ Held(t, c) /\ Bounded(t, c)
<1>1. /\ t \in Settings /\ t.ucast = u /\ t.mcast = m /\ t.bcast = b
      /\ \A n \in Names \ {"ucast", "mcast", "bcast"} : t[n] = s[n]
  <2> DEFINE x == [s EXCEPT !.ucast = u, !.mcast = m, !.bcast = b]
  <2>1. x \in Settings
    BY DEF Settings
  <2>2. DOMAIN s = Names /\ "ucast" \in Names /\ "mcast" \in Names /\ "bcast" \in Names
    BY FieldNames
  <2>3. QED
    BY <2>1, <2>2
<1>2. {"ucast", "mcast", "bcast"} \subseteq Has
  BY KindHas DEF AllKinds, Kinds
<1>3. Untouched(t)
  BY <1>1, <1>2 DEF Untouched
<1>4. Held(t, c)
  <2>1. t.vlans = s.vlans /\ t.insert = s.insert /\ t.cinsert = s.cinsert
        /\ t.rate = s.rate /\ t.minRate = s.minRate
    BY <1>1, FieldNames
  <2>2. QED
    BY <2>1 DEF Held
<1>5. Bounded(t, c)
  BY <1>1 DEF Bounded
<1>6. QED
  BY <1>1, <1>3, <1>4, <1>5

\* A message that is narrowed first asks for no mode that is forbidden.
LEMMA NarrowedIs ==
  ASSUME NEW c \in Configs
  PROVE  /\ \A flags \in SUBSET {"ucast", "mcast"} :
              LET left == I40ePromisc(flags, Allowed(c))
              IN ("ucast" \in left => c.ucast) /\ ("mcast" \in left => c.mcast)
         /\ \A mask \in SUBSET RxMask :
              LET left == BnxtRxMask(mask, TRUE, Allowed(c))
              IN /\ "bcast" \in left => c.bcast
                 /\ {"all_mcast", "promisc"} \cap left # {} => c.mcast
                 /\ "promisc" \in left => c.ucast
<1>1. /\ "ucast" \in Allowed(c) <=> c.ucast
      /\ "mcast" \in Allowed(c) <=> c.mcast
      /\ "bcast" \in Allowed(c) <=> c.bcast
  BY DEF Allowed
<1>2. ASSUME NEW flags \in SUBSET {"ucast", "mcast"}, NEW left,
             left = I40ePromisc(flags, Allowed(c))
      PROVE  ("ucast" \in left => c.ucast) /\ ("mcast" \in left => c.mcast)
  BY <1>1, <1>2 DEF I40ePromisc, Narrow
<1>3. ASSUME NEW mask \in SUBSET RxMask, NEW left, left = BnxtRxMask(mask, TRUE, Allowed(c))
      PROVE  /\ "bcast" \in left => c.bcast
             /\ {"all_mcast", "promisc"} \cap left # {} => c.mcast
             /\ "promisc" \in left => c.ucast
  <2> DEFINE b == IF "bcast" \in Allowed(c) THEN mask ELSE mask \ {"bcast", "promisc"}
             m == IF "mcast" \in Allowed(c) THEN b
                  ELSE (b \ {"bcast", "all_mcast", "promisc"}) \cup {"mcast"}
  <2>1. left = IF "ucast" \in Allowed(c) THEN m ELSE m \ {"promisc"}
    BY <1>3 DEF BnxtRxMask
  <2>2. "bcast" \in b => c.bcast
    BY <1>1
  <2> HIDE DEF b
  <2>3. /\ "bcast" \in m => "bcast" \in b
        /\ "all_mcast" \in m \/ "promisc" \in m => c.mcast
    BY <1>1
  <2> HIDE DEF m
  <2>4. QED
    BY <1>1, <2>1, <2>2, <2>3
<1>4. QED
  BY <1>2, <1>3

LEMMA GuestAsksKeeps ==
  ASSUME NicInv, NEW v \in VfIds, GuestAsks(v)
  PROVE  NicInv'
<1> DEFINE c == cfg[v]
           s == nic[v]
<1>1. /\ NicTypes /\ c \in Configs /\ c # NoCfg
      /\ s \in Settings /\ Untouched(s) /\ Held(s, c) /\ Bounded(s, c)
  BY DEF NicInv, NicTypes, VfInv, GuestAsks, Managed
<1>2. kind' = kind /\ cfg' = cfg /\ lost' = lost \cup {v} /\ speed' = speed
  BY DEF GuestAsks
<1>3. PICK u \in BOOLEAN, m \in BOOLEAN, b \in BOOLEAN :
        /\ nic' = [nic EXCEPT ![v] = [s EXCEPT !.ucast = u, !.mcast = m, !.bcast = b]]
        /\ kind \in {"i40e", "bnxt"} /\ (u => c.ucast) /\ (m => c.mcast) /\ (b => c.bcast)
  <2>1. CASE kind = "i40e"
    <3>1. PICK flags \in SUBSET {"ucast", "mcast"} : nic' = [nic EXCEPT ![v] = I40eModes(v, flags)]
      BY <2>1 DEF GuestAsks
    <3> DEFINE left == I40ePromisc(flags, Allowed(c))
               u == "ucast" \in left
               m == "mcast" \in left
    <3>2. u \in BOOLEAN /\ m \in BOOLEAN /\ (u => c.ucast) /\ (m => c.mcast)
      <4>1. (u => c.ucast) /\ (m => c.mcast)
        BY <1>1, NarrowedIs, Zenon
      <4>2. QED
        BY <4>1
    <3>3. s.bcast \in BOOLEAN /\ (s.bcast => c.bcast)
      BY <1>1, <2>1 DEF Settings, Bounded
    <3>4. I40eModes(v, flags) = [s EXCEPT !.ucast = u, !.mcast = m]
      BY DEF I40eModes
    <3> HIDE DEF u, m
    <3>5. [s EXCEPT !.ucast = u, !.mcast = m] = [s EXCEPT !.ucast = u, !.mcast = m, !.bcast = s.bcast]
      BY <1>1 DEF Settings
    <3>6. QED
      BY <2>1, <3>1, <3>2, <3>3, <3>4, <3>5
  <2>2. CASE kind = "bnxt"
    <3>1. PICK mask \in SUBSET RxMask : nic' = [nic EXCEPT ![v] = BnxtModes(v, mask)]
      BY <2>2 DEF GuestAsks
    <3> DEFINE left == BnxtRxMask(mask, TRUE, Allowed(c))
               u == "promisc" \in left
               m == {"all_mcast", "promisc"} \cap left # {}
               b == "bcast" \in left
    <3>2. u \in BOOLEAN /\ m \in BOOLEAN /\ b \in BOOLEAN
          /\ (u => c.ucast) /\ (m => c.mcast) /\ (b => c.bcast)
      <4>1. (u => c.ucast) /\ (m => c.mcast) /\ (b => c.bcast)
        BY <1>1, NarrowedIs, Zenon
      <4>2. u \in BOOLEAN /\ m \in BOOLEAN /\ b \in BOOLEAN
        BY SMT
      <4> HIDE DEF u, m, b
      <4>3. QED
        BY <4>1, <4>2
    <3>3. BnxtModes(v, mask) = [s EXCEPT !.bcast = b, !.mcast = m, !.ucast = u]
      BY DEF BnxtModes
    <3> HIDE DEF u, m, b
    <3>4. [s EXCEPT !.bcast = b, !.mcast = m, !.ucast = u] = [s EXCEPT !.ucast = u, !.mcast = m, !.bcast = b]
      BY <1>1 DEF Settings
    <3>5. QED
      BY <2>2, <3>1, <3>2, <3>3, <3>4
  <2>3. QED
    BY <2>1, <2>2 DEF GuestAsks
<1>4. nic'[v] = [s EXCEPT !.ucast = u, !.mcast = m, !.bcast = b]
  BY <1>1, <1>3 DEF NicTypes
<1> HIDE DEF c, s
<1>5. nic'[v] \in Settings /\ Untouched(nic'[v]) /\ Held(nic'[v], c) /\ Bounded(nic'[v], c)
  BY <1>1, <1>3, <1>4, ModesAre, ZenonT(60)
<1> USE DEF c, s
<1>6. VfInv(v)'
  BY <1>1, <1>2, <1>5, NextVf
<1>7. NicTypes'
  BY <1>1, <1>2, <1>3, <1>4, <1>5 DEF NicTypes
<1>8. ASSUME NEW w \in VfIds, w # v PROVE VfInv(w)'
  BY <1>1, <1>2, <1>3, <1>8, SameVf DEF NicInv, NicTypes
<1>9. QED
  BY <1>6, <1>7, <1>8 DEF NicInv

LEMMA RefreshVfKeeps ==
  ASSUME NicInv, NEW v \in VfIds, RefreshVf(v)
  PROVE  NicInv'
<1>1. NicTypes /\ kind' = kind /\ cfg' = cfg /\ lost' = lost \ {v} /\ speed' = speed
  BY DEF NicInv, RefreshVf
<1>2. CASE v \in Managed
  <2>1. cfg[v] \in Configs /\ nic'[v] = Activate(nic[v], cfg[v])
    BY <1>1, <1>2 DEF NicTypes, Managed, RefreshVf
  <2>2. VfInv(v)' /\ nic'[v] \in Settings
    BY <1>1, <2>1, ActiveVf DEF NicInv
  <2>3. NicTypes'
    BY <1>1, <1>2, <2>1, <2>2 DEF NicTypes, RefreshVf
  <2>4. ASSUME NEW w \in VfIds, w # v PROVE VfInv(w)'
    BY <1>1, <1>2, <2>4, SameVf DEF NicInv, NicTypes, RefreshVf
  <2>5. QED
    BY <2>2, <2>3, <2>4 DEF NicInv
<1>3. CASE v \notin Managed
  <2>1. nic' = nic /\ cfg[v] = NoCfg
    BY <1>3 DEF Managed, RefreshVf
  <2>2. VfInv(v)'
    BY <1>1, <2>1, NextVf DEF NicInv, VfInv
  <2>3. ASSUME NEW w \in VfIds, w # v PROVE VfInv(w)'
    BY <1>1, <2>1, <2>3, SameVf DEF NicInv
  <2>4. NicTypes'
    BY <1>1, <2>1 DEF NicTypes
  <2>5. QED
    BY <2>2, <2>3, <2>4 DEF NicInv
<1>4. QED
  BY <1>2, <1>3

LEMMA LinkKeeps ==
  ASSUME NicInv, LinkChanges \/ LinkInterrupt
  PROVE  NicInv'
<1>1. NicTypes /\ kind' = kind /\ cfg' = cfg /\ lost' = lost
  BY DEF NicInv, LinkChanges, LinkInterrupt
<1>2. CASE nic' = nic
  <2>1. speed' \in Nat
    BY <1>1, NicAssumption DEF NicTypes, LinkChanges, LinkInterrupt
  <2>2. ASSUME NEW v \in VfIds PROVE VfInv(v)'
    BY <1>1, <1>2, SameVf DEF NicInv
  <2>3. QED
    BY <1>1, <1>2, <2>1, <2>2 DEF NicInv, NicTypes
<1>3. CASE nic' # nic
  <2>1. /\ speed' = speed
        /\ nic' = [v \in VfIds |-> IF v \in Managed THEN Activate(nic[v], cfg[v]) ELSE nic[v]]
    BY <1>3 DEF LinkChanges, LinkInterrupt, RestoredVfs
  <2>2. ASSUME NEW v \in VfIds PROVE VfInv(v)' /\ nic'[v] \in Settings
    <3>1. CASE v \in Managed
      BY <1>1, <2>1, <3>1, ActiveVf DEF NicInv, NicTypes, Managed
    <3>2. CASE v \notin Managed
      BY <1>1, <2>1, <3>2, SameVf DEF NicInv, NicTypes
    <3>3. QED
      BY <3>1, <3>2
  <2>3. NicTypes'
    BY <1>1, <2>1, <2>2 DEF NicTypes
  <2>4. QED
    BY <2>2, <2>3 DEF NicInv
<1>4. QED
  BY <1>2, <1>3

LEMMA NicStep == NicInv /\ [NicNext]_nicVars => NicInv'
<1> SUFFICES ASSUME NicInv, [NicNext]_nicVars PROVE NicInv'
  OBVIOUS
<1>1. ASSUME NEW v \in VfIds, NEW c \in Configs, Add(v, c) PROVE NicInv'
  BY <1>1, AddKeeps
<1>2. ASSUME NEW v \in VfIds, Del(v) PROVE NicInv'
  BY <1>2, DelKeeps
<1>3. ASSUME NEW v \in VfIds, GuestResets(v) PROVE NicInv'
  BY <1>3, GuestResetsKeeps
<1>4. ASSUME NEW v \in VfIds, GuestAsks(v) PROVE NicInv'
  BY <1>4, GuestAsksKeeps
<1>5. ASSUME NEW v \in VfIds, RefreshVf(v) PROVE NicInv'
  BY <1>5, RefreshVfKeeps
<1>6. ASSUME LinkChanges \/ LinkInterrupt PROVE NicInv'
  BY <1>6, LinkKeeps
<1>7. CASE UNCHANGED nicVars
  <2>1. kind' = kind /\ cfg' = cfg /\ nic' = nic /\ lost' = lost /\ speed' = speed
    BY <1>7 DEF nicVars
  <2>2. ASSUME NEW v \in VfIds PROVE VfInv(v)'
    BY <2>1, SameVf DEF NicInv
  <2>3. QED
    BY <2>1, <2>2 DEF NicInv, NicTypes
<1>8. QED
  BY <1>1, <1>2, <1>3, <1>4, <1>5, <1>6, <1>7 DEF NicNext

LEMMA NicInvariant == NicSpec => []NicInv
<1>1. QED
  BY NicInitially, NicStep, PTL DEF NicSpec

(***************************************************************************)
(* The limits.                                                             *)
(***************************************************************************)

\* The limits of a VF are its shares.
InLimits(s, c) ==
  /\ "rate" \in Has => s.rate = IF c.rate > 100 THEN 0 ELSE (speed * c.rate) \div 100
  /\ "minRate" \in Has => s.minRate = (speed * c.minRate) \div 100

\* A rate of more than the link was refused at all times, so none is in force.
LimitInv(v) ==
  cfg[v] # NoCfg =>
    /\ cfg[v].rate > 100 => nic[v].rate = 0
    /\ v \notin lost /\ ~lsc /\ speed # 0 => InLimits(nic[v], cfg[v])

LimitsInv == NicInv /\ speed \in Speeds /\ \A v \in VfIds : LimitInv(v)

\* A percentage p of x is at most x, or more.
LEMMA PartOf ==
  ASSUME NEW x \in Nat, NEW p \in Nat
  PROVE  /\ p <= 100 => (x * p) \div 100 <= x
         /\ p > 100 /\ x >= 100 => (x * p) \div 100 > x
         /\ (x * p) \div 100 \in Nat
         /\ x = 0 \/ p = 0 => (x * p) \div 100 = 0
<1>1. x * p \in Nat
  OBVIOUS
<1>2. p <= 100 => x * p <= x * 100
  <2>1. p <= 100 => x * (100 - p) >= 0 /\ x * p + x * (100 - p) = x * 100
    OBVIOUS
  <2>2. QED
    BY <1>1, <2>1
<1>3. p > 100 /\ x >= 100 => x * p >= x * 101
  <2>1. p > 100 => x * (p - 101) >= 0 /\ x * p = x * 101 + x * (p - 101)
    OBVIOUS
  <2>2. QED
    BY <1>1, <2>1
<1>4. x = 0 \/ p = 0 => x * p = 0
  OBVIOUS
<1>5. PICK y \in Nat : y = x * p
  BY <1>1
<1>6. /\ p <= 100 => y <= x * 100
      /\ p > 100 /\ x >= 100 => y >= x * 101
      /\ x = 0 \/ p = 0 => y = 0
  BY <1>2, <1>3, <1>4, <1>5
<1>7. y \div 100 \in Nat /\ 100 * (y \div 100) <= y /\ y < 100 * (y \div 100) + 100
  OBVIOUS
<1>8. QED
  BY <1>5, <1>6, <1>7

\* No share of a link that is up wraps, and one of more than 100% is more than the link.
LEMMA ShareIs ==
  ASSUME SharesFit, speed \in Speeds, speed # 0, NEW c \in Configs
  PROVE  /\ Share(c.rate) = (speed * c.rate) \div 100
         /\ Share(c.minRate) = (speed * c.minRate) \div 100
         /\ Share(c.rate) > speed <=> c.rate > 100
         /\ c.rate = 0 => Share(c.rate) = 0
         /\ c.minRate = 0 => Share(c.minRate) = 0
<1>1. speed \in Nat /\ c.rate \in Nat /\ c.minRate \in Nat
  BY NicAssumption, ConfigIs
<1>2. /\ speed >= 100
      /\ (speed * c.rate) \div 100 < 65536 /\ (speed * c.minRate) \div 100 < 65536
  BY DEF SharesFit
<1>3. PICK x \in Nat, y \in Nat :
        x = (speed * c.rate) \div 100 /\ y = (speed * c.minRate) \div 100
  BY <1>1, PartOf
<1>4. x % 65536 = x /\ y % 65536 = y
  BY <1>2, <1>3
<1>5. Share(c.rate) = x /\ Share(c.minRate) = y
  BY <1>3, <1>4 DEF Share
<1>6. (x > speed <=> c.rate > 100) /\ (c.rate = 0 => x = 0) /\ (c.minRate = 0 => y = 0)
  BY <1>1, <1>2, <1>3, PartOf
<1>7. QED
  BY <1>3, <1>5, <1>6

\* While the link is down every share is 0.
LEMMA NoShare ==
  ASSUME speed = 0, NEW p \in Nat
  PROVE  Share(p) = 0
<1>1. (speed * p) \div 100 = 0
  BY PartOf
<1>2. QED
  BY <1>1 DEF Share

\* After its update pass a VF has its limits, whatever it had of its own before.
LEMMA ActiveIsLimited ==
  ASSUME SharesFit, kind \in AllKinds, speed \in Speeds,
         NEW s \in Settings, NEW c \in Configs, Untouched(s), Held(s, c),
         c.rate > 100 => s.rate = 0
  PROVE  /\ c.rate > 100 => Activate(s, c).rate = 0
         /\ speed # 0 => InLimits(Activate(s, c), c)
<1> DEFINE t == Activate(s, c)
<1>1. speed \in Nat /\ c.rate \in Nat /\ c.minRate \in Nat
  BY NicAssumption, ConfigIs
<1>2. /\ t \in Settings /\ Untouched(t)
      /\ "rate" \in Has =>
           t.rate = IF c.rate # 0 /\ ~(Share(c.rate) > speed) THEN Share(c.rate) ELSE s.rate
      /\ "minRate" \in Has => t.minRate = IF c.minRate # 0 THEN Share(c.minRate) ELSE s.minRate
  BY <1>1, ActivateIs
<1> HIDE DEF t
<1>3. (c.rate = 0 => s.rate = 0) /\ (c.minRate = 0 => s.minRate = 0)
  BY DEF Held
<1>4. c.rate > 100 => t.rate = 0
  <2>1. CASE "rate" \notin Has
    BY <1>2, <2>1, UntouchedIs
  <2>2. CASE "rate" \in Has /\ speed = 0
    BY <1>1, <1>2, <2>2, NoShare
  <2>3. CASE "rate" \in Has /\ speed # 0
    BY <1>2, <2>3, ShareIs
  <2>4. QED
    BY <2>1, <2>2, <2>3
<1>5. ASSUME speed # 0 PROVE InLimits(t, c)
  <2>1. "rate" \in Has => t.rate = IF c.rate > 100 THEN 0 ELSE (speed * c.rate) \div 100
    BY <1>1, <1>2, <1>3, <1>4, <1>5, ShareIs
  <2>2. "minRate" \in Has => t.minRate = (speed * c.minRate) \div 100
    BY <1>2, <1>3, <1>5, ShareIs
  <2>3. QED
    BY <2>1, <2>2 DEF InLimits
<1>6. QED
  BY <1>4, <1>5 DEF t

\* A VF that the step leaves alone, or whose rates it does not touch while a restore is due.
LEMMA SameLimits ==
  ASSUME kind' = kind, NEW v \in VfIds, LimitInv(v), cfg'[v] = cfg[v],
         nic'[v].rate = nic[v].rate \/ (nic'[v].rate = 0 /\ v \in lost'),
         \/ v \in lost' \/ lsc'
         \/ speed' = speed /\ lsc' = lsc /\ (v \in lost => v \in lost')
            /\ nic'[v].rate = nic[v].rate /\ nic'[v].minRate = nic[v].minRate
  PROVE  LimitInv(v)'
<1>1. Has' = Has
  BY DEF Has
<1>2. cfg'[v] # NoCfg /\ cfg'[v].rate > 100 => nic'[v].rate = 0
  BY DEF LimitInv
<1>3. cfg'[v] # NoCfg /\ v \notin lost' /\ ~lsc' /\ speed' # 0 => InLimits(nic[v], cfg[v])'
  BY <1>1 DEF LimitInv, InLimits
<1>4. QED
  BY <1>2, <1>3 DEF LimitInv

\* A VF whose update pass runs in the step.
LEMMA ActiveLimits ==
  ASSUME SharesFit, LimitsInv, NEW v \in VfIds, NEW c \in Configs,
         kind' = kind, speed' = speed,
         cfg[v] \in {c, NoCfg}, cfg'[v] = c, nic'[v] = Activate(nic[v], c)
  PROVE  LimitInv(v)'
<1>1. /\ NicTypes /\ VfInv(v) /\ LimitInv(v) /\ speed \in Speeds
      /\ c # NoCfg /\ nic[v] \in Settings
  BY ConfigIs DEF LimitsInv, NicInv, NicTypes
<1>2. /\ Untouched(nic[v]) /\ Held(nic[v], c)
      /\ c.rate > 100 => nic[v].rate = 0
  BY <1>1, EmptyIsHeld DEF VfInv, LimitInv, Empty
<1>3. /\ c.rate > 100 => nic'[v].rate = 0
      /\ speed # 0 => InLimits(nic'[v], c)
  BY <1>1, <1>2, ActiveIsLimited DEF NicTypes
<1>4. speed # 0 => InLimits(nic[v], cfg[v])'
  <2>1. Has' = Has
    BY DEF Has
  <2>2. QED
    BY <1>3, <2>1 DEF InLimits
<1>5. QED
  BY <1>3, <1>4 DEF LimitInv

LEMMA AddLimits ==
  ASSUME SharesFit, LimitsInv, NEW v \in VfIds, NEW c \in Configs, Add(v, c)
  PROVE  \A w \in VfIds : LimitInv(w)'
<1>1. NicTypes /\ cfg[v] = NoCfg
  BY DEF LimitsInv, NicInv, Add, Managed
<1>2. cfg'[v] = c /\ nic'[v] = Activate(nic[v], c)
  BY <1>1 DEF NicTypes, Add
<1>3. LimitInv(v)'
  BY <1>1, <1>2, ActiveLimits DEF Add
<1>4. ASSUME NEW w \in VfIds, w # v PROVE LimitInv(w)'
  BY <1>1, <1>4, SameLimits DEF LimitsInv, NicTypes, Add
<1>5. QED
  BY <1>3, <1>4

LEMMA DelLimits ==
  ASSUME LimitsInv, NEW v \in VfIds, Del(v)
  PROVE  \A w \in VfIds : LimitInv(w)'
<1>1. NicTypes
  BY DEF LimitsInv, NicInv
<1>2. LimitInv(v)'
  BY <1>1 DEF NicTypes, Del, LimitInv
<1>3. ASSUME NEW w \in VfIds, w # v PROVE LimitInv(w)'
  BY <1>1, <1>3, SameLimits DEF LimitsInv, NicTypes, Del
<1>4. QED
  BY <1>2, <1>3

LEMMA GuestResetsLimits ==
  ASSUME LimitsInv, NEW v \in VfIds, GuestResets(v)
  PROVE  \A w \in VfIds : LimitInv(w)'
<1>1. NicTypes /\ LimitInv(v)
  BY DEF LimitsInv, NicInv
<1>2. kind' = kind /\ cfg' = cfg /\ lost' = lost \cup {v} /\ speed' = speed /\ lsc' = lsc
  BY DEF GuestResets
<1>3. PICK gone : nic' = [nic EXCEPT ![v] = [n \in DOMAIN nic[v] |->
                            IF n \in gone THEN Fresh[n] ELSE nic[v][n]]]
  BY DEF GuestResets
<1>4. nic'[v].rate \in {0, nic[v].rate}
  <2>1. nic[v] \in Settings
    BY <1>1 DEF NicTypes
  <2>2. DOMAIN nic[v] = Names /\ "rate" \in Names /\ Fresh.rate = 0
    BY <2>1, FieldNames DEF Fresh
  <2>3. nic'[v] = [n \in DOMAIN nic[v] |-> IF n \in gone THEN Fresh[n] ELSE nic[v][n]]
    BY <1>1, <1>3 DEF NicTypes
  <2>4. QED
    BY <2>2, <2>3
<1>5. LimitInv(v)'
  BY <1>1, <1>2, <1>4, SameLimits
<1>6. ASSUME NEW w \in VfIds, w # v PROVE LimitInv(w)'
  BY <1>1, <1>2, <1>3, <1>6, SameLimits DEF LimitsInv, NicTypes
<1>7. QED
  BY <1>5, <1>6

LEMMA GuestAsksLimits ==
  ASSUME LimitsInv, NEW v \in VfIds, GuestAsks(v)
  PROVE  \A w \in VfIds : LimitInv(w)'
<1>1. NicTypes /\ LimitInv(v) /\ nic[v] \in Settings
  BY DEF LimitsInv, NicInv, NicTypes
<1>2. kind' = kind /\ cfg' = cfg /\ lost' = lost \cup {v} /\ speed' = speed /\ lsc' = lsc
  BY DEF GuestAsks
<1>3. PICK t : nic' = [nic EXCEPT ![v] = t] /\ t.rate = nic[v].rate
  <2>1. ASSUME NEW flags, nic' = [nic EXCEPT ![v] = I40eModes(v, flags)]
        PROVE  I40eModes(v, flags).rate = nic[v].rate
    BY <1>1 DEF I40eModes, Settings
  <2>2. ASSUME NEW mask, nic' = [nic EXCEPT ![v] = BnxtModes(v, mask)]
        PROVE  BnxtModes(v, mask).rate = nic[v].rate
    BY <1>1 DEF BnxtModes, Settings
  <2>3. QED
    BY <2>1, <2>2 DEF GuestAsks
<1>4. LimitInv(v)'
  BY <1>1, <1>2, <1>3, SameLimits DEF NicTypes
<1>5. ASSUME NEW w \in VfIds, w # v PROVE LimitInv(w)'
  BY <1>1, <1>2, <1>3, <1>5, SameLimits DEF LimitsInv, NicTypes
<1>6. QED
  BY <1>4, <1>5

LEMMA RefreshVfLimits ==
  ASSUME SharesFit, LimitsInv, NEW v \in VfIds, RefreshVf(v)
  PROVE  \A w \in VfIds : LimitInv(w)'
<1>1. /\ NicTypes
      /\ kind' = kind /\ cfg' = cfg /\ lost' = lost \ {v} /\ speed' = speed /\ lsc' = lsc
  BY DEF LimitsInv, NicInv, RefreshVf
<1>2. LimitInv(v)'
  <2>1. CASE v \in Managed
    <3>1. cfg[v] \in Configs /\ nic'[v] = Activate(nic[v], cfg[v])
      BY <1>1, <2>1 DEF NicTypes, Managed, RefreshVf
    <3>2. QED
      BY <1>1, <3>1, ActiveLimits
  <2>2. CASE v \notin Managed
    BY <1>1, <2>2 DEF Managed, LimitInv
  <2>3. QED
    BY <2>1, <2>2
<1>3. ASSUME NEW w \in VfIds, w # v PROVE LimitInv(w)'
  <2>1. nic'[w] = nic[w]
    BY <1>1, <1>3 DEF NicTypes, RefreshVf
  <2>2. QED
    BY <1>1, <1>3, <2>1, SameLimits DEF LimitsInv
<1>4. QED
  BY <1>2, <1>3

LEMMA LinkLimits ==
  ASSUME SharesFit, LimitsInv, LinkChanges \/ LinkInterrupt
  PROVE  \A w \in VfIds : LimitInv(w)'
<1>1. NicTypes /\ kind' = kind /\ cfg' = cfg /\ lost' = lost
  BY DEF LimitsInv, NicInv, LinkChanges, LinkInterrupt
<1>2. ASSUME NEW w \in VfIds, LinkChanges PROVE LimitInv(w)'
  BY <1>1, <1>2, SameLimits DEF LimitsInv, LinkChanges
<1>3. ASSUME NEW w \in VfIds, LinkInterrupt, speed = 0 PROVE LimitInv(w)'
  BY <1>1, <1>3 DEF LimitsInv, LimitInv, LinkInterrupt
<1>4. ASSUME NEW w \in VfIds, LinkInterrupt, speed # 0 PROVE LimitInv(w)'
  <2>1. CASE w \in Managed
    <3>1. cfg[w] \in Configs /\ nic'[w] = Activate(nic[w], cfg[w]) /\ speed' = speed
      BY <1>1, <1>4, <2>1 DEF NicTypes, Managed, LinkInterrupt, RestoredVfs
    <3>2. QED
      BY <1>1, <3>1, ActiveLimits
  <2>2. CASE w \notin Managed
    BY <1>1, <2>2 DEF Managed, LimitInv
  <2>3. QED
    BY <2>1, <2>2
<1>5. QED
  BY <1>2, <1>3, <1>4

LEMMA LimitsStep == SharesFit /\ LimitsInv /\ [NicNext]_nicVars => LimitsInv'
<1> SUFFICES ASSUME SharesFit, LimitsInv, [NicNext]_nicVars PROVE LimitsInv'
  OBVIOUS
<1>1. NicInv'
  BY NicStep DEF LimitsInv
<1>2. speed' \in Speeds
  BY DEF LimitsInv, NicNext, nicVars, Add, Del, GuestResets, GuestAsks, RefreshVf,
         LinkChanges, LinkInterrupt
<1>3. ASSUME NEW v \in VfIds, NEW c \in Configs, Add(v, c) PROVE \A w \in VfIds : LimitInv(w)'
  BY <1>3, AddLimits
<1>4. ASSUME NEW v \in VfIds, Del(v) PROVE \A w \in VfIds : LimitInv(w)'
  BY <1>4, DelLimits
<1>5. ASSUME NEW v \in VfIds, GuestResets(v) PROVE \A w \in VfIds : LimitInv(w)'
  BY <1>5, GuestResetsLimits
<1>6. ASSUME NEW v \in VfIds, GuestAsks(v) PROVE \A w \in VfIds : LimitInv(w)'
  BY <1>6, GuestAsksLimits
<1>7. ASSUME NEW v \in VfIds, RefreshVf(v) PROVE \A w \in VfIds : LimitInv(w)'
  BY <1>7, RefreshVfLimits
<1>8. ASSUME LinkChanges \/ LinkInterrupt PROVE \A w \in VfIds : LimitInv(w)'
  BY <1>8, LinkLimits
<1>9. ASSUME UNCHANGED nicVars PROVE \A w \in VfIds : LimitInv(w)'
  BY <1>9, SameLimits DEF LimitsInv, nicVars
<1>10. \A w \in VfIds : LimitInv(w)'
  BY <1>3, <1>4, <1>5, <1>6, <1>7, <1>8, <1>9 DEF NicNext
<1>11. QED
  BY <1>1, <1>2, <1>10 DEF LimitsInv

(***************************************************************************)
(* The theorems.                                                           *)
(***************************************************************************)

\* A VF that waits for no restore has its own configuration on the NIC, whoever had its
\* number before, and whatever its guest reset or asked for since (vfd_update_nic).
THEOREM OwnConfiguration == NicSpec => []AsConfigured
<1>1. NicInv => AsConfigured
  <2> SUFFICES ASSUME NicInv, NEW v \in VfIds, Settled(v) PROVE Full(nic[v], cfg[v])
    BY DEF AsConfigured, Full, Trunked
  <2>1. QED
    BY DEF Settled, Managed, NicInv, VfInv
<1>2. QED
  BY <1>1, NicInvariant, PTL

\* The number of a VF that was deleted keeps no VLAN, tag, limit or mode: the DELETED part
\* of vfd_update_nic undoes all that its ADDED part, a restore or the guest did.
THEOREM NumbersAreCleared == NicSpec => []NothingLeft
<1>1. NicInv => NothingLeft
  BY DEF NothingLeft, Managed, NicInv, VfInv, Empty
<1>2. QED
  BY <1>1, NicInvariant, PTL

\* No sequence of messages, resets and restores gives a guest a mode that its
\* configuration forbids (the callbacks of vfd_i40e.c and vfd_bnxt.c, and vfd_update_nic).
THEOREM GuestsStayBounded == NicSpec => []GuestKeepsBounds
<1>1. NicInv => GuestKeepsBounds
  BY DEF GuestKeepsBounds, Managed, NicInv, VfInv, Bounded
<1>2. QED
  BY <1>1, NicInvariant, PTL


\* Once VFd has seen what the link makes, a VF that waits for no restore is limited to its
\* shares of just that, however often the speed changed, also while the link was down or
\* the VF was another's; with shares that fit into 16 bits (set_vf_rate_limit and
\* lsi_event_callback, sriov.c).
THEOREM LimitsFollow ==
  ASSUME SharesFit
  PROVE  NicSpec => []LimitsFollowLink
<1>1. NicInit => LimitsInv
  <2>1. NicInit => speed \in Speeds /\ \A v \in VfIds : LimitInv(v)
    BY DEF NicInit, LimitInv
  <2>2. QED
    BY <2>1, NicInitially DEF LimitsInv
<1>2. LimitsInv /\ [NicNext]_nicVars => LimitsInv'
  BY LimitsStep
<1>3. LimitsInv => LimitsFollowLink
  BY DEF LimitsInv, LimitInv, LimitsFollowLink, InLimits, Settled, Managed
<1>4. QED
  BY <1>1, <1>2, <1>3, PTL DEF NicSpec

=============================================================================
