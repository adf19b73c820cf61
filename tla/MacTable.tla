------------------------------ MODULE MacTable ------------------------------
(***************************************************************************)
(* The MAC addresses of the VFs of one PF (vfd_mac.c): the list in each    *)
(* vf_s, the symbol table that detects duplicates across the PF, and what  *)
(* the NIC was told.  VFs come and go with requests; a running guest       *)
(* pushes its default MAC, adds white-list MACs or clears them through     *)
(* mailbox messages.                                                       *)
(*                                                                         *)
(* vf_s.macs[0] is reserved for a default MAC the guest pushes; the MACs   *)
(* of the configuration file start at [1].  first_mac says which of the    *)
(* two is the first in use.  Each operation is one step here; VfdConfig    *)
(* has the interleavings.                                                  *)
(***************************************************************************)
EXTENDS Integers, FiniteSets, Sequences

CONSTANTS
  VfIds,      \* VFs of the PF
  Macs,       \* MAC addresses
  NoMac,      \* an entry that was never written
  MaxVfMacs,  \* MAX_VF_MACS, the length of vf_s.macs
  MaxPfMacs,  \* MAX_PF_MACS
  Files       \* the MAC lists that VF configuration files have

\* The last index is one past the array: add_mac can write there.
Index == 0 .. MaxVfMacs

ASSUME MacSizes ==
  /\ MaxVfMacs \in Nat \ {0}
  /\ MaxPfMacs \in Nat
  /\ NoMac \notin Macs
  /\ \A f \in Files : f \in Seq(Macs)

VARIABLES
  managed,    \* VFs in the table
  first,      \* vf_s.first_mac
  n,          \* vf_s.num_macs
  macs,       \* vf_s.macs
  stab,       \* MACs of this PF in mac_stab
  white,      \* <<vf, mac>> pairs in the NIC's receive white list
  pushed      \* history: some guest has pushed a default MAC

macVars == <<managed, first, n, macs, stab, white, pushed>>

(***************************************************************************)
(* State functions.                                                        *)
(***************************************************************************)

\* The indices in use: from the first on, num_macs of them.
Live(v) == {i \in Index : first[v] <= i /\ i < first[v] + n[v]}

Listed(v) == IF v \in managed THEN {macs[v][i] : i \in Live(v)} \ {NoMac} ELSE {}

\* num_macs summed over the slots of the PF, holes included.
Total == Cardinality({p \in VfIds \X (Index \cup {MaxVfMacs + 1}) : p[2] < n[p[1]]})

\* can_add_mac for a VF that is in the table.
CanAdd(v, m) ==
  /\ m \notin stab
  /\ Total + 1 <= MaxPfMacs
  /\ n[v] + 1 <= MaxVfMacs

\* The entries behind the default, which clear_macs takes out.
BehindStops(v) == {i \in Index : first[v] < i /\ i < n[v]}   \* mutant: forgets first_mac
Behind(v) == {i \in Index : first[v] < i /\ i < first[v] + n[v]}

MacsAt(v, I) == {macs[v][i] : i \in I}

\* set_vf_rx_mac(SET_OFF) removes a MAC from the port, whoever it is for.
WhiteWithout(M) == {p \in white : p[2] \notin M}

(***************************************************************************)
(* Requests.                                                               *)
(***************************************************************************)

MacInit ==
  /\ managed = {}
  /\ first = [v \in VfIds |-> 1]
  /\ n = [v \in VfIds |-> 0]
  /\ macs = [v \in VfIds |-> [i \in Index |-> NoMac]]
  /\ stab = {}
  /\ white = {}
  /\ pushed = FALSE

\* The checks of vfd_add_vf.  Each MAC of the file is vetted on its own, before any
\* of them is counted.
VettedBlindly(f) == Len(f) <= MaxVfMacs   \* mutant: the MACs are not looked up
Vetted(f) ==
  /\ Len(f) <= MaxVfMacs
  /\ \A i \in DOMAIN f : f[i] \notin stab /\ Total + 1 <= MaxPfMacs

\* What add_mac makes of a file's list: a duplicate is passed over, and so is what
\* exceeds the PF's limit.  The addresses taken lie from entry 1 on, in the order in
\* which the file first has them.
FirstUses(f) == {i \in DOMAIN f : \A j \in 1 .. i - 1 : f[j] # f[i]}
Taken(f) ==
  [i \in Index |->
     LET at == {j \in FirstUses(f) :
                  Cardinality(FirstUses(f) \cap 1 .. j) = i /\ Total + i <= MaxPfMacs}
     IN IF at = {} THEN NoMac ELSE f[CHOOSE j \in at : TRUE]]

\* The white list after set_macs has pushed cnt entries of a list from fst on.  The
\* first goes to the NIC as default; an unwritten one is refused as a bad MAC.
PushedOut(v, list, cnt, fst) ==
  white \cup {<<v, list[i]>> : i \in {j \in Index : fst < j /\ j < fst + cnt /\ list[j] # NoMac}}

\* vfd_add_vf and the update pass.  num_macs is what the file has, whatever
\* add_mac took.
AddVf(v, f) ==
  /\ v \notin managed
  /\ Vetted(f)
  /\ macs' = [macs EXCEPT ![v] = Taken(f)]
  /\ stab' = stab \cup ({Taken(f)[i] : i \in Index} \ {NoMac})
  /\ white' = PushedOut(v, Taken(f), Len(f), 1)
  /\ managed' = managed \cup {v}
  /\ first' = [first EXCEPT ![v] = 1]
  /\ n' = [n EXCEPT ![v] = Len(f)]
  /\ UNCHANGED pushed

\* vfd_del_vf and the update pass: clear_macs with RESET_DEFAULT.  The entries stay in
\* the hole until vfd_add_vf zeroes it; nothing reads them, and they are zero here.
DelVf(v) ==
  /\ v \in managed
  /\ stab' = stab \ MacsAt(v, Behind(v) \cup {first[v]})
  /\ white' = WhiteWithout(MacsAt(v, Behind(v)))
  /\ n' = [n EXCEPT ![v] = 0]
  /\ first' = [first EXCEPT ![v] = 1]
  /\ macs' = [macs EXCEPT ![v] = [i \in Index |-> NoMac]]
  /\ managed' = managed \ {v}
  /\ UNCHANGED pushed

(***************************************************************************)
(* Mailbox messages of the guest on a managed VF.                          *)
(***************************************************************************)

\* Where push_mac puts the new default: in the reserved entry, also when an earlier
\* push is there already.
PushedBelow(v) == first[v] - 1   \* mutant: in front of the first, whatever that is
PushedAt(v) == 0

\* IXGBE_VF_SET_MAC_ADDR: push_mac.  The MAC is checked against the symbol table
\* and not entered there.
PushMac(v, m) ==
  /\ v \in managed
  /\ ~(n[v] > 0 /\ m = macs[v][first[v]])
  /\ CanAdd(v, m)
  /\ n' = IF first[v] > 0 THEN [n EXCEPT ![v] = @ + 1] ELSE n
  /\ first' = [first EXCEPT ![v] = PushedAt(v)]
  /\ macs' = [macs EXCEPT ![v][PushedAt(v)] = m]
  /\ pushed' = TRUE
  /\ UNCHANGED <<managed, stab, white>>

\* IXGBE_VF_SET_MACVLAN with an address: add_mac.
AddMac(v, m) ==
  /\ v \in managed
  /\ m \notin MacsAt(v, Live(v))
  /\ CanAdd(v, m)
  /\ macs' = [macs EXCEPT ![v][n[v] + first[v]] = m]
  /\ n' = [n EXCEPT ![v] = @ + 1]
  /\ stab' = stab \cup {m}
  /\ UNCHANGED <<managed, first, white, pushed>>

\* IXGBE_VF_SET_MACVLAN with zeroes: clear_macs with KEEP_DEFAULT.
ClearMacs(v) ==
  /\ v \in managed
  /\ stab' = stab \ MacsAt(v, Behind(v))
  /\ white' = WhiteWithout(MacsAt(v, Behind(v)))
  /\ n' = [n EXCEPT ![v] = IF @ > 0 THEN 1 ELSE 0]
  /\ UNCHANGED <<managed, first, macs, pushed>>

\* A refresh of the VF reaches set_macs.
RefreshMacs(v) ==
  /\ v \in managed
  /\ white' = PushedOut(v, macs[v], n[v], first[v])
  /\ UNCHANGED <<managed, first, n, macs, stab, pushed>>

MacNext ==
  \E v \in VfIds :
    \/ \E f \in Files : AddVf(v, f)
    \/ DelVf(v)
    \/ \E m \in Macs : PushMac(v, m) \/ AddMac(v, m)
    \/ ClearMacs(v)
    \/ RefreshMacs(v)

MacSpec == MacInit /\ [][MacNext]_macVars

(***************************************************************************)
(* Properties.                                                             *)
(***************************************************************************)

\* Every variable has its type.
MacTypeOK ==
  /\ managed \subseteq VfIds
  /\ first \in [VfIds -> {0, 1}]
  /\ n \in [VfIds -> 0 .. MaxVfMacs]
  /\ macs \in [VfIds -> [Index -> Macs \cup {NoMac}]]
  /\ stab \subseteq Macs
  /\ white \subseteq VfIds \X Macs
  /\ pushed \in BOOLEAN

\* A MAC that no VF lists can be assigned again: the symbol table holds no
\* left-over of a cleared list or a deleted VF.
NothingLeaks == stab \subseteq UNION {Listed(v) : v \in VfIds}

\* The NIC never delivers to a VF for an address that has been taken from its list.
WhiteIsListed == \A p \in white : p[2] \in Listed(p[1])

\* An address is in use by one VF of the PF only (README.md:216).
UniqueMacs ==
  \A v, w \in VfIds : v # w => Listed(v) \cap Listed(w) = {}

\* As long as no guest has pushed a default MAC, addresses are unique on the PF and
\* each one listed is found in the symbol table.
UniqueUntilPush ==
  ~pushed => UniqueMacs /\ \A v \in VfIds : Listed(v) \subseteq stab
=============================================================================
