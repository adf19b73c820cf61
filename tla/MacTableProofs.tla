--------------------------- MODULE MacTableProofs ---------------------------
(***************************************************************************)
(* Proofs about MacTable, for any VFs, addresses, files and limits: the    *)
(* symbol table keeps no left-over, the NIC's white list stays within the  *)
(* lists, and addresses are unique until a guest pushes a default one.     *)
(*                                                                         *)
(* None of them is inductive alone.  What they need is where an address    *)
(* lies in the list: an entered one not in the reserved entry 0, which a   *)
(* push overwrites without looking; a white one behind the default, where  *)
(* clear_macs finds it.                                                    *)
(***************************************************************************)
EXTENDS MacTable, FiniteSetTheorems, TLAPS

\* A hole counts no addresses; a VF without any has nothing in its entries, and its
\* next one goes to entry 1.
ListsFit ==
  /\ \A v \in VfIds \ managed : n[v] = 0
  /\ \A v \in VfIds : n[v] = 0 => first[v] = 1 /\ \A i \in Index : macs[v][i] = NoMac

\* Each address in the symbol table is in use at an entry other than the reserved one.
StabHeld ==
  \A m \in stab : \E v \in managed : \E i \in Live(v) : i > 0 /\ macs[v][i] = m

\* Each address on the white list is behind the default of its VF.
WhiteBehind ==
  \A p \in white : p[1] \in managed /\ \E i \in Behind(p[1]) : macs[p[1]][i] = p[2]

\* No two entries in use, of one VF or two, have the same address.
Settled ==
  \A v, w \in VfIds : \A i \in Live(v), j \in Live(w) :
    macs[v][i] = macs[w][j] /\ macs[v][i] # NoMac => v = w /\ i = j

\* Until a push every list starts at 1, and the symbol table has what is in use.
UntilPush ==
  ~pushed => /\ \A v \in VfIds : first[v] = 1
             /\ \A v \in VfIds : \A i \in Live(v) : macs[v][i] \in stab \cup {NoMac}
             /\ Settled

MacInv == MacTypeOK /\ ListsFit /\ StabHeld /\ WhiteBehind /\ UntilPush

(***************************************************************************)
(* What add_mac makes of a file.                                           *)
(***************************************************************************)

\* The first uses up to the j-th address of a file are finitely many, no more than
\* the file has, and at least one if the j-th is one of them.
LEMMA PlaceInFile ==
  ASSUME NEW f \in Files, NEW j \in FirstUses(f)
  PROVE  Cardinality(FirstUses(f) \cap 1 .. j) \in 1 .. Len(f)
<1> DEFINE S == FirstUses(f) \cap 1 .. j
<1>1. f \in Seq(Macs) /\ Len(f) \in Nat /\ DOMAIN f = 1 .. Len(f)
  BY MacSizes
<1>2. S \in SUBSET (1 .. Len(f)) /\ j \in S
  BY <1>1 DEF FirstUses
<1>3. IsFiniteSet(1 .. Len(f)) /\ Cardinality(1 .. Len(f)) = Len(f)
  BY <1>1, FS_Interval
<1> HIDE DEF S
<1>4. IsFiniteSet(S) /\ Cardinality(S) <= Len(f)
  BY <1>2, <1>3, FS_Subset
<1>5. Cardinality(S) \in Nat /\ Cardinality(S) # 0
  BY <1>2, <1>4, FS_CardinalityType, FS_EmptySet
<1>6. QED
  BY <1>1, <1>4, <1>5 DEF S

\* An entry that add_mac fills from a file lies within the file's count and has one
\* of its addresses.
LEMMA TakenEntry ==
  ASSUME NEW f \in Files, NEW i \in Index, Taken(f)[i] # NoMac
  PROVE  /\ i \in 1 .. Len(f)
         /\ \E j \in FirstUses(f) :
              /\ Taken(f)[i] = f[j]
              /\ Cardinality(FirstUses(f) \cap 1 .. j) = i
<1> DEFINE at == {j \in FirstUses(f) :
                    Cardinality(FirstUses(f) \cap 1 .. j) = i /\ Total + i <= MaxPfMacs}
<1>1. Taken(f)[i] = IF at = {} THEN NoMac ELSE f[CHOOSE j \in at : TRUE]
  BY DEF Taken
<1>2. at # {}
  BY <1>1
<1>3. (CHOOSE j \in at : TRUE) \in at
  BY <1>2
<1>4. PICK j \in at : Taken(f)[i] = f[j]
  BY <1>1, <1>2, <1>3
<1>5. j \in FirstUses(f) /\ Cardinality(FirstUses(f) \cap 1 .. j) = i
  OBVIOUS
<1>6. i \in 1 .. Len(f)
  BY <1>5, PlaceInFile
<1>7. QED
  BY <1>4, <1>5, <1>6

\* The list that add_mac makes of a file holds addresses, and none of them twice.
LEMMA TakenList ==
  ASSUME NEW f \in Files
  PROVE  /\ Taken(f) \in [Index -> Macs \cup {NoMac}]
         /\ \A i \in Index : Taken(f)[i] # NoMac =>
              i \in 1 .. Len(f) /\ \E j \in DOMAIN f : Taken(f)[i] = f[j]
         /\ \A i, k \in Index :
              Taken(f)[i] = Taken(f)[k] /\ Taken(f)[i] # NoMac => i = k
<1>1. f \in Seq(Macs) /\ DOMAIN f = 1 .. Len(f) /\ Len(f) \in Nat
  BY MacSizes
<1>2. FirstUses(f) \subseteq DOMAIN f
  BY DEF FirstUses
<1>3. ASSUME NEW i \in Index, Taken(f)[i] # NoMac
      PROVE  i \in 1 .. Len(f) /\ \E j \in DOMAIN f : Taken(f)[i] = f[j]
  BY <1>2, <1>3, TakenEntry
<1>4. ASSUME NEW i \in Index
      PROVE  Taken(f)[i] \in Macs \cup {NoMac}
  <2>1. CASE Taken(f)[i] = NoMac
    BY <2>1
  <2>2. CASE Taken(f)[i] # NoMac
    BY <1>1, <1>3, <2>2
  <2>3. QED
    BY <2>1, <2>2
<1>5. Taken(f) \in [Index -> Macs \cup {NoMac}]
  <2>1. Taken(f) = [i \in Index |-> Taken(f)[i]]
    BY DEF Taken
  <2>2. QED
    BY <1>4, <2>1
<1>6. ASSUME NEW i \in Index, NEW k \in Index,
             Taken(f)[i] = Taken(f)[k], Taken(f)[i] # NoMac
      PROVE  i = k
  <2>1. PICK a \in FirstUses(f) :
          Taken(f)[i] = f[a] /\ Cardinality(FirstUses(f) \cap 1 .. a) = i
    BY <1>6, TakenEntry
  <2>2. PICK b \in FirstUses(f) :
          Taken(f)[k] = f[b] /\ Cardinality(FirstUses(f) \cap 1 .. b) = k
    BY <1>6, TakenEntry
  <2>3. a \in 1 .. Len(f) /\ b \in 1 .. Len(f) /\ f[a] = f[b]
    BY <1>1, <1>2, <1>6, <2>1, <2>2
  <2>4. ~(a < b) /\ ~(b < a)
    BY <1>1, <2>3 DEF FirstUses
  <2>5. a = b
    BY <1>1, <2>3, <2>4
  <2>6. QED
    BY <2>1, <2>2, <2>5
<1>7. QED
  BY <1>3, <1>5, <1>6

(***************************************************************************)
(* The entries in use.                                                     *)
(***************************************************************************)

\* Where the entries of a VF lie, in the terms of the type invariant.
LEMMA Entries ==
  ASSUME MacTypeOK, ListsFit, NEW v \in VfIds
  PROVE  /\ first[v] \in {0, 1} /\ n[v] \in 0 .. MaxVfMacs /\ MaxVfMacs \in Nat \ {0}
         /\ first[v] = 0 => n[v] > 0
         /\ Live(v) \subseteq Index /\ Behind(v) \subseteq Live(v)
         /\ Live(v) \ Behind(v) \subseteq {first[v]}
         /\ \A i \in Index : macs[v][i] \in Macs \cup {NoMac}
         /\ Index \subseteq Nat /\ 0 \in Index /\ 1 \in Index
<1>1. first[v] \in {0, 1} /\ n[v] \in 0 .. MaxVfMacs /\ MaxVfMacs \in Nat \ {0}
  BY MacSizes DEF MacTypeOK
<1>2. first[v] = 0 => n[v] > 0
  BY <1>1 DEF ListsFit
<1>3. /\ Live(v) \subseteq Index /\ Behind(v) \subseteq Live(v)
      /\ Live(v) \ Behind(v) \subseteq {first[v]}
  BY <1>1 DEF Live, Behind, Index
<1>4. \A i \in Index : macs[v][i] \in Macs \cup {NoMac}
  BY DEF MacTypeOK
<1>5. Index \subseteq Nat /\ 0 \in Index /\ 1 \in Index
  BY <1>1 DEF Index
<1>6. QED
  BY <1>1, <1>2, <1>3, <1>4, <1>5

(***************************************************************************)
(* Each operation keeps the invariant.                                     *)
(***************************************************************************)

LEMMA MacInitially == MacInit => MacInv
<1> SUFFICES ASSUME MacInit PROVE MacInv
  OBVIOUS
<1> USE MacSizes DEF MacInit
<1>1. MacTypeOK
  <2>1. first \in [VfIds -> {0, 1}] /\ n \in [VfIds -> 0 .. MaxVfMacs]
    OBVIOUS
  <2>2. macs \in [VfIds -> [Index -> Macs \cup {NoMac}]]
    <3> DEFINE E == Macs \cup {NoMac}
    <3>1. [i \in Index |-> NoMac] \in [Index -> E]
      OBVIOUS
    <3> HIDE DEF E
    <3>2. macs \in [VfIds -> [Index -> E]]
      BY <3>1
    <3>3. QED
      BY <3>2 DEF E
  <2>3. QED
    BY <2>1, <2>2 DEF MacTypeOK
<1>2. ListsFit /\ StabHeld /\ WhiteBehind
  BY DEF ListsFit, StabHeld, WhiteBehind
<1>3. UntilPush
  BY DEF UntilPush, Settled, Live, Index
<1>4. QED
  BY <1>1, <1>2, <1>3 DEF MacInv

\* A VF comes with the addresses of its file.
LEMMA AddVfKeeps ==
  ASSUME MacInv, NEW v \in VfIds, NEW f \in Files, AddVf(v, f)
  PROVE  MacInv'
<1> DEFINE list == Taken(f)
<1>1. MacTypeOK /\ ListsFit /\ StabHeld /\ WhiteBehind /\ UntilPush
  BY DEF MacInv
<1>2. f \in Seq(Macs) /\ DOMAIN f = 1 .. Len(f) /\ Len(f) \in 0 .. MaxVfMacs
  BY MacSizes DEF AddVf, Vetted
<1>3. /\ list \in [Index -> Macs \cup {NoMac}]
      /\ \A i \in Index : list[i] # NoMac =>
           i \in 1 .. Len(f) /\ \E j \in DOMAIN f : list[i] = f[j]
      /\ \A i, k \in Index : list[i] = list[k] /\ list[i] # NoMac => i = k
  BY TakenList
<1>4. /\ v \notin managed /\ managed' = managed \cup {v}
      /\ macs' = [macs EXCEPT ![v] = list]
      /\ first' = [first EXCEPT ![v] = 1]
      /\ n' = [n EXCEPT ![v] = Len(f)]
      /\ stab' = stab \cup ({list[i] : i \in Index} \ {NoMac})
      /\ white' = white \cup {<<v, list[i]>> :
                     i \in {j \in Index : 1 < j /\ j < 1 + Len(f) /\ list[j] # NoMac}}
      /\ pushed' = pushed
      /\ \A j \in DOMAIN f : f[j] \notin stab
  BY DEF AddVf, PushedOut, Vetted
<1> HIDE DEF list
<1>5. macs'[v] = list /\ first'[v] = 1 /\ n'[v] = Len(f)
  BY <1>1, <1>4 DEF MacTypeOK
<1>6. \A w \in VfIds \ {v} :
        macs'[w] = macs[w] /\ first'[w] = first[w] /\ n'[w] = n[w]
  BY <1>1, <1>4 DEF MacTypeOK
<1>7. Live(v)' = 1 .. Len(f) /\ Live(v)' \subseteq Index /\ Behind(v)' = Live(v)' \ {1}
  BY <1>2, <1>5, MacSizes DEF Live, Behind, Index
<1>8. \A w \in VfIds \ {v} : Live(w)' = Live(w) /\ Behind(w)' = Behind(w)
  BY <1>6 DEF Live, Behind
<1>9. MacTypeOK'
  <2>1. first' \in [VfIds -> {0, 1}] /\ n' \in [VfIds -> 0 .. MaxVfMacs]
    BY <1>1, <1>2, <1>4 DEF MacTypeOK
  <2>2. macs' \in [VfIds -> [Index -> Macs \cup {NoMac}]]
    BY <1>1, <1>3, <1>4 DEF MacTypeOK
  <2>3. stab' \subseteq Macs /\ white' \subseteq VfIds \X Macs
    BY <1>1, <1>3, <1>4 DEF MacTypeOK
  <2>4. managed' \subseteq VfIds /\ pushed' \in BOOLEAN
    BY <1>1, <1>4 DEF MacTypeOK
  <2>5. QED
    BY <2>1, <2>2, <2>3, <2>4 DEF MacTypeOK
<1>10. ListsFit'
  <2>1. \A w \in VfIds \ managed' : n'[w] = 0
    BY <1>1, <1>4, <1>6 DEF ListsFit
  <2>2. n'[v] = 0 => first'[v] = 1 /\ \A i \in Index : macs'[v][i] = NoMac
    BY <1>2, <1>3, <1>5
  <2>3. \A w \in VfIds : n'[w] = 0 => first'[w] = 1 /\ \A i \in Index : macs'[w][i] = NoMac
    BY <1>1, <1>6, <2>2 DEF ListsFit
  <2>4. QED
    BY <2>1, <2>3 DEF ListsFit
<1>11. StabHeld'
  <2> SUFFICES ASSUME NEW m \in stab'
               PROVE  \E w \in managed' : \E i \in Live(w)' : i > 0 /\ macs'[w][i] = m
    BY DEF StabHeld
  <2>1. CASE m \in stab
    <3>1. PICK w \in managed : \E i \in Live(w) : i > 0 /\ macs[w][i] = m
      BY <1>1, <2>1 DEF StabHeld
    <3>2. w # v /\ w \in VfIds
      BY <1>1, <1>4 DEF MacTypeOK
    <3>3. QED
      BY <1>4, <1>6, <1>8, <3>1, <3>2
  <2>2. CASE m \notin stab
    <3>1. PICK i \in Index : m = list[i] /\ list[i] # NoMac
      BY <1>4, <2>2
    <3>2. i \in Live(v)' /\ i > 0
      BY <1>3, <1>7, <3>1
    <3>3. QED
      BY <1>4, <1>5, <3>1, <3>2
  <2>3. QED
    BY <2>1, <2>2
<1>12. WhiteBehind'
  <2> SUFFICES ASSUME NEW p \in white'
               PROVE  p[1] \in managed' /\ \E i \in Behind(p[1])' : macs'[p[1]][i] = p[2]
    BY DEF WhiteBehind
  <2>1. CASE p \in white
    <3>1. p[1] \in managed /\ \E i \in Behind(p[1]) : macs[p[1]][i] = p[2]
      BY <1>1, <2>1 DEF WhiteBehind
    <3>2. p[1] # v /\ p[1] \in VfIds
      BY <1>1, <1>4, <3>1 DEF MacTypeOK
    <3>3. QED
      BY <1>4, <1>6, <1>8, <3>1, <3>2
  <2>2. CASE p \notin white
    <3>1. PICK i \in Index : p = <<v, list[i]>> /\ 1 < i /\ i < 1 + Len(f)
      BY <1>4, <2>2
    <3>2. i \in Behind(v)'
      BY <1>2, <1>7, <3>1, MacSizes DEF Index
    <3>3. QED
      BY <1>4, <1>5, <3>1, <3>2
  <2>3. QED
    BY <2>1, <2>2
<1>13. UntilPush'
  <2> SUFFICES ASSUME ~pushed
               PROVE  /\ \A w \in VfIds : first'[w] = 1
                      /\ \A w \in VfIds : \A i \in Live(w)' : macs'[w][i] \in stab' \cup {NoMac}
                      /\ Settled'
    BY <1>4 DEF UntilPush
  <2>1. /\ \A w \in VfIds : first[w] = 1
        /\ \A w \in VfIds : \A i \in Live(w) : macs[w][i] \in stab \cup {NoMac}
        /\ Settled
    BY <1>1 DEF UntilPush
  <2>2. \A w \in VfIds : first'[w] = 1
    BY <1>5, <1>6, <2>1
  <2>3. \A i \in Live(v)' : macs'[v][i] \in stab' \cup {NoMac}
    BY <1>4, <1>5, <1>7
  <2>4. \A w \in VfIds \ {v} : \A i \in Live(w)' : macs'[w][i] \in stab' \cup {NoMac}
    BY <1>4, <1>6, <1>8, <2>1
  <2>5. Settled'
    <3> SUFFICES ASSUME NEW w \in VfIds, NEW x \in VfIds,
                        NEW i \in Live(w)', NEW j \in Live(x)',
                        macs'[w][i] = macs'[x][j], macs'[w][i] # NoMac
                 PROVE  w = x /\ i = j
      BY DEF Settled
    <3>1. CASE w # v /\ x # v
      BY <1>6, <1>8, <2>1, <3>1 DEF Settled
    <3>2. CASE w = v /\ x = v
      BY <1>3, <1>5, <1>7, <3>2
    <3>3. CASE w = v /\ x # v
      <4>1. macs'[w][i] \notin stab
        BY <1>3, <1>4, <1>5, <1>7, <3>3
      <4>2. macs'[x][j] \in stab
        BY <1>6, <1>8, <2>1, <3>3
      <4>3. QED
        BY <4>1, <4>2
    <3>4. CASE w # v /\ x = v
      <4>1. macs'[x][j] \notin stab
        BY <1>3, <1>4, <1>5, <1>7, <3>4
      <4>2. macs'[w][i] \in stab
        BY <1>6, <1>8, <2>1, <3>4
      <4>3. QED
        BY <4>1, <4>2
    <3>5. QED
      BY <3>1, <3>2, <3>3, <3>4
  <2>6. QED
    BY <2>2, <2>3, <2>4, <2>5
<1>14. QED
  BY <1>9, <1>10, <1>11, <1>12, <1>13 DEF MacInv

\* A VF goes, and the symbol table and the white list lose its addresses.
LEMMA DelVfKeeps ==
  ASSUME MacInv, NEW v \in VfIds, DelVf(v)
  PROVE  MacInv'
<1>1. MacTypeOK /\ ListsFit /\ StabHeld /\ WhiteBehind /\ UntilPush
  BY DEF MacInv
<1>2. /\ first[v] \in {0, 1} /\ n[v] \in 0 .. MaxVfMacs /\ MaxVfMacs \in Nat \ {0}
      /\ Live(v) \subseteq Index /\ Live(v) \ Behind(v) \subseteq {first[v]}
      /\ Behind(v) \subseteq Live(v) /\ 1 \in Index
  BY <1>1, Entries
<1> DEFINE zeroes == [i \in Index |-> NoMac]
           gone   == MacsAt(v, Behind(v) \cup {first[v]})
<1>3. /\ v \in managed /\ managed' = managed \ {v}
      /\ macs' = [macs EXCEPT ![v] = zeroes]
      /\ first' = [first EXCEPT ![v] = 1]
      /\ n' = [n EXCEPT ![v] = 0]
      /\ stab' = stab \ gone
      /\ white' = WhiteWithout(MacsAt(v, Behind(v)))
      /\ pushed' = pushed
  BY DEF DelVf
<1>4. zeroes \in [Index -> Macs \cup {NoMac}] /\ \A i \in Index : zeroes[i] = NoMac
  OBVIOUS
<1>5. \A i \in Live(v) : macs[v][i] \in gone
  BY <1>2 DEF MacsAt
<1>6. \A m \in gone : m = macs[v][first[v]] \/ \E i \in Live(v) : m = macs[v][i]
  BY <1>2 DEF MacsAt
<1> HIDE DEF zeroes, gone
<1>7. macs'[v] = zeroes /\ first'[v] = 1 /\ n'[v] = 0
  BY <1>1, <1>3 DEF MacTypeOK
<1>8. \A w \in VfIds \ {v} :
        macs'[w] = macs[w] /\ first'[w] = first[w] /\ n'[w] = n[w]
  BY <1>1, <1>3 DEF MacTypeOK
<1>9. Live(v)' = {}
  BY <1>7 DEF Live, Index
<1>10. \A w \in VfIds \ {v} : Live(w)' = Live(w) /\ Behind(w)' = Behind(w)
  BY <1>8 DEF Live, Behind
<1>11. MacTypeOK'
  <2>1. first' \in [VfIds -> {0, 1}] /\ n' \in [VfIds -> 0 .. MaxVfMacs]
    BY <1>1, <1>2, <1>3 DEF MacTypeOK
  <2>2. macs' \in [VfIds -> [Index -> Macs \cup {NoMac}]]
    BY <1>1, <1>3, <1>4 DEF MacTypeOK
  <2>3. stab' \subseteq Macs /\ white' \subseteq VfIds \X Macs
    BY <1>1, <1>3 DEF MacTypeOK, WhiteWithout
  <2>4. managed' \subseteq VfIds /\ pushed' \in BOOLEAN
    BY <1>1, <1>3 DEF MacTypeOK
  <2>5. QED
    BY <2>1, <2>2, <2>3, <2>4 DEF MacTypeOK
<1>12. ListsFit'
  <2>1. \A w \in VfIds \ managed' : n'[w] = 0
    BY <1>1, <1>3, <1>7, <1>8 DEF ListsFit
  <2>2. \A w \in VfIds : n'[w] = 0 => first'[w] = 1 /\ \A i \in Index : macs'[w][i] = NoMac
    BY <1>1, <1>4, <1>7, <1>8 DEF ListsFit
  <2>3. QED
    BY <2>1, <2>2 DEF ListsFit
<1>13. StabHeld'
  <2> SUFFICES ASSUME NEW m \in stab'
               PROVE  \E w \in managed' : \E i \in Live(w)' : i > 0 /\ macs'[w][i] = m
    BY DEF StabHeld
  <2>1. m \in stab /\ m \notin gone
    BY <1>3
  <2>2. PICK w \in managed : \E i \in Live(w) : i > 0 /\ macs[w][i] = m
    BY <1>1, <2>1 DEF StabHeld
  <2>3. w # v /\ w \in VfIds
    BY <1>1, <1>5, <2>1, <2>2 DEF MacTypeOK
  <2>4. QED
    BY <1>3, <1>8, <1>10, <2>2, <2>3
<1>14. WhiteBehind'
  <2> SUFFICES ASSUME NEW p \in white'
               PROVE  p[1] \in managed' /\ \E i \in Behind(p[1])' : macs'[p[1]][i] = p[2]
    BY DEF WhiteBehind
  <2>1. p \in white /\ p[2] \notin MacsAt(v, Behind(v))
    BY <1>3 DEF WhiteWithout
  <2>2. p[1] \in managed /\ \E i \in Behind(p[1]) : macs[p[1]][i] = p[2]
    BY <1>1, <2>1 DEF WhiteBehind
  <2>3. p[1] # v /\ p[1] \in VfIds
    BY <1>1, <2>1, <2>2 DEF MacTypeOK, MacsAt
  <2>4. QED
    BY <1>3, <1>8, <1>10, <2>2, <2>3
<1>15. UntilPush'
  <2> SUFFICES ASSUME ~pushed
               PROVE  /\ \A w \in VfIds : first'[w] = 1
                      /\ \A w \in VfIds : \A i \in Live(w)' : macs'[w][i] \in stab' \cup {NoMac}
                      /\ Settled'
    BY <1>3 DEF UntilPush
  <2>1. /\ \A w \in VfIds : first[w] = 1
        /\ \A w \in VfIds : \A i \in Live(w) : macs[w][i] \in stab \cup {NoMac}
        /\ Settled
    BY <1>1 DEF UntilPush
  <2>2. \A w \in VfIds : first'[w] = 1
    BY <1>7, <1>8, <2>1
  <2>3. \A m \in gone : m = NoMac \/ \E i \in Live(v) : m = macs[v][i]
    <3>1. CASE n[v] = 0
      BY <1>1, <1>2, <1>6, <2>1, <3>1 DEF ListsFit
    <3>2. CASE n[v] # 0
      <4>1. first[v] \in Live(v)
        BY <1>2, <2>1, <3>2 DEF Live
      <4>2. QED
        BY <1>6, <4>1
    <3>3. QED
      BY <3>1, <3>2
  <2>4. ASSUME NEW w \in VfIds, NEW i \in Live(w)'
        PROVE  macs'[w][i] \in stab' \cup {NoMac}
    <3>1. w # v
      BY <1>9
    <3>2. i \in Live(w) /\ macs'[w][i] = macs[w][i] /\ macs[w][i] \in stab \cup {NoMac}
      BY <1>8, <1>10, <2>1, <3>1
    <3>3. macs[w][i] # NoMac => macs[w][i] \notin gone
      BY <2>1, <2>3, <3>1, <3>2 DEF Settled
    <3>4. QED
      BY <1>3, <3>2, <3>3
  <2>5. Settled'
    BY <1>8, <1>9, <1>10, <2>1 DEF Settled
  <2>6. QED
    BY <2>2, <2>4, <2>5
<1>16. QED
  BY <1>11, <1>12, <1>13, <1>14, <1>15 DEF MacInv

\* A guest pushes a default address into the reserved entry.
LEMMA PushMacKeeps ==
  ASSUME MacInv, NEW v \in VfIds, NEW m \in Macs, PushMac(v, m)
  PROVE  MacInv'
<1>1. MacTypeOK /\ ListsFit /\ StabHeld /\ WhiteBehind
  BY DEF MacInv
<1>2. /\ first[v] \in {0, 1} /\ n[v] \in 0 .. MaxVfMacs /\ MaxVfMacs \in Nat \ {0}
      /\ first[v] = 0 => n[v] > 0
      /\ Index \subseteq Nat /\ 0 \in Index
  BY <1>1, Entries
<1>3. /\ v \in managed /\ managed' = managed /\ n[v] + 1 <= MaxVfMacs
      /\ n' = IF first[v] > 0 THEN [n EXCEPT ![v] = @ + 1] ELSE n
      /\ first' = [first EXCEPT ![v] = 0]
      /\ macs' = [macs EXCEPT ![v][0] = m]
      /\ pushed' = TRUE /\ stab' = stab /\ white' = white
  BY DEF PushMac, CanAdd, PushedAt
<1>4. /\ first'[v] = 0
      /\ n'[v] = IF first[v] = 1 THEN n[v] + 1 ELSE n[v]
      /\ \A i \in Index \ {0} : macs'[v][i] = macs[v][i]
  BY <1>1, <1>2, <1>3 DEF MacTypeOK
<1>5. \A w \in VfIds \ {v} :
        macs'[w] = macs[w] /\ first'[w] = first[w] /\ n'[w] = n[w]
  BY <1>1, <1>3 DEF MacTypeOK
<1>6. \A i \in Live(v) : i \in Live(v)'
  BY <1>2, <1>4 DEF Live
<1>7. \A i \in Behind(v) : i \in Behind(v)' /\ i \in Index \ {0}
  BY <1>2, <1>4 DEF Behind
<1>8. \A w \in VfIds \ {v} : Live(w)' = Live(w) /\ Behind(w)' = Behind(w)
  BY <1>5 DEF Live, Behind
<1>9. MacTypeOK'
  <2>1. first' \in [VfIds -> {0, 1}]
    BY <1>1, <1>3 DEF MacTypeOK
  <2>2. n' \in [VfIds -> 0 .. MaxVfMacs]
    BY <1>1, <1>2, <1>3 DEF MacTypeOK
  <2>3. macs' \in [VfIds -> [Index -> Macs \cup {NoMac}]]
    <3>1. macs[v] \in [Index -> Macs \cup {NoMac}]
      BY <1>1 DEF MacTypeOK
    <3>2. [macs[v] EXCEPT ![0] = m] \in [Index -> Macs \cup {NoMac}]
      BY <3>1
    <3>3. QED
      BY <1>1, <1>3, <3>2 DEF MacTypeOK
  <2>4. QED
    BY <1>1, <1>3, <2>1, <2>2, <2>3 DEF MacTypeOK
<1>10. ListsFit'
  <2>1. \A w \in VfIds \ managed' : n'[w] = 0
    BY <1>1, <1>3, <1>5 DEF ListsFit
  <2>2. n'[v] # 0
    BY <1>2, <1>4
  <2>3. \A w \in VfIds : n'[w] = 0 => first'[w] = 1 /\ \A i \in Index : macs'[w][i] = NoMac
    BY <1>1, <1>5, <2>2 DEF ListsFit
  <2>4. QED
    BY <2>1, <2>3 DEF ListsFit
<1>11. StabHeld'
  <2> SUFFICES ASSUME NEW a \in stab
               PROVE  \E w \in managed : \E i \in Live(w)' : i > 0 /\ macs'[w][i] = a
    BY <1>3 DEF StabHeld
  <2>1. PICK w \in managed : \E i \in Live(w) : i > 0 /\ macs[w][i] = a
    BY <1>1 DEF StabHeld
  <2>2. w \in VfIds
    BY <1>1 DEF MacTypeOK
  <2>3. PICK i \in Live(w) : i > 0 /\ macs[w][i] = a
    BY <2>1
  <2>4. i \in Live(w)' /\ macs'[w][i] = a
    <3>1. CASE w = v
      <4>1. i \in Index \ {0}
        BY <2>3 DEF Live
      <4>2. QED
        BY <1>4, <1>6, <2>3, <3>1, <4>1
    <3>2. CASE w # v
      BY <1>5, <1>8, <2>2, <2>3, <3>2
    <3>3. QED
      BY <3>1, <3>2
  <2>5. QED
    BY <2>3, <2>4
<1>12. WhiteBehind'
  <2> SUFFICES ASSUME NEW p \in white
               PROVE  p[1] \in managed /\ \E i \in Behind(p[1])' : macs'[p[1]][i] = p[2]
    BY <1>3 DEF WhiteBehind
  <2>1. p[1] \in managed /\ p[1] \in VfIds
    BY <1>1 DEF WhiteBehind, MacTypeOK
  <2>2. PICK i \in Behind(p[1]) : macs[p[1]][i] = p[2]
    BY <1>1 DEF WhiteBehind
  <2>3. i \in Behind(p[1])' /\ macs'[p[1]][i] = p[2]
    <3>1. CASE p[1] = v
      BY <1>4, <1>7, <2>2, <3>1
    <3>2. CASE p[1] # v
      BY <1>5, <1>8, <2>1, <2>2, <3>2
    <3>3. QED
      BY <3>1, <3>2
  <2>4. QED
    BY <2>1, <2>3
<1>13. UntilPush'
  BY <1>3 DEF UntilPush
<1>14. QED
  BY <1>9, <1>10, <1>11, <1>12, <1>13 DEF MacInv

\* A guest adds a white-list address at the end of its list.
LEMMA AddMacKeeps ==
  ASSUME MacInv, NEW v \in VfIds, NEW m \in Macs, AddMac(v, m)
  PROVE  MacInv'
<1> DEFINE ip == n[v] + first[v]
<1>1. MacTypeOK /\ ListsFit /\ StabHeld /\ WhiteBehind /\ UntilPush
  BY DEF MacInv
<1>2. /\ first[v] \in {0, 1} /\ n[v] \in 0 .. MaxVfMacs /\ MaxVfMacs \in Nat \ {0}
      /\ first[v] = 0 => n[v] > 0
      /\ Live(v) \subseteq Index
  BY <1>1, Entries
<1>3. /\ v \in managed /\ managed' = managed /\ n[v] + 1 <= MaxVfMacs
      /\ n' = [n EXCEPT ![v] = @ + 1] /\ first' = first
      /\ macs' = [macs EXCEPT ![v][ip] = m]
      /\ stab' = stab \cup {m} /\ m \notin stab
      /\ pushed' = pushed /\ white' = white
  BY DEF AddMac, CanAdd
<1>4. ip \in Index /\ ip > 0 /\ ip \notin Live(v) /\ ip \notin Behind(v)
  BY <1>2, <1>3 DEF Index, Live, Behind
<1>5. Live(v)' = Live(v) \cup {ip} /\ Behind(v) \subseteq Behind(v)'
  <2>1. n'[v] = n[v] + 1 /\ first'[v] = first[v]
    BY <1>1, <1>3 DEF MacTypeOK
  <2>2. Live(v)' = Live(v) \cup {ip}
    BY <1>2, <1>4, <2>1 DEF Live, Index
  <2>3. Behind(v) \subseteq Behind(v)'
    BY <1>2, <2>1 DEF Behind, Index
  <2>4. QED
    BY <2>2, <2>3
<1> HIDE DEF ip
<1>6. macs'[v][ip] = m /\ \A i \in Index \ {ip} : macs'[v][i] = macs[v][i]
  BY <1>1, <1>3, <1>4 DEF MacTypeOK
<1>7. \A w \in VfIds \ {v} : macs'[w] = macs[w] /\ n'[w] = n[w]
  BY <1>1, <1>3 DEF MacTypeOK
<1>8. \A w \in VfIds \ {v} : Live(w)' = Live(w) /\ Behind(w)' = Behind(w)
  BY <1>3, <1>7 DEF Live, Behind
<1>9. MacTypeOK'
  <2>1. n' \in [VfIds -> 0 .. MaxVfMacs]
    BY <1>1, <1>2, <1>3 DEF MacTypeOK
  <2>2. macs' \in [VfIds -> [Index -> Macs \cup {NoMac}]]
    <3>1. macs[v] \in [Index -> Macs \cup {NoMac}]
      BY <1>1 DEF MacTypeOK
    <3>2. [macs[v] EXCEPT ![ip] = m] \in [Index -> Macs \cup {NoMac}]
      BY <3>1
    <3>3. QED
      BY <1>1, <1>3, <3>2 DEF MacTypeOK
  <2>3. QED
    BY <1>1, <1>3, <2>1, <2>2 DEF MacTypeOK
<1>10. ListsFit'
  <2>1. \A w \in VfIds \ managed' : n'[w] = 0
    BY <1>1, <1>3, <1>7 DEF ListsFit
  <2>2. n'[v] # 0
    BY <1>1, <1>2, <1>3 DEF MacTypeOK
  <2>3. \A w \in VfIds : n'[w] = 0 => first'[w] = 1 /\ \A i \in Index : macs'[w][i] = NoMac
    BY <1>1, <1>3, <1>7, <2>2 DEF ListsFit
  <2>4. QED
    BY <2>1, <2>3 DEF ListsFit
<1>11. StabHeld'
  <2> SUFFICES ASSUME NEW a \in stab'
               PROVE  \E w \in managed : \E i \in Live(w)' : i > 0 /\ macs'[w][i] = a
    BY <1>3 DEF StabHeld
  <2>1. CASE a = m
    BY <1>3, <1>4, <1>5, <1>6, <2>1
  <2>2. CASE a # m
    <3>1. PICK w \in managed : \E i \in Live(w) : i > 0 /\ macs[w][i] = a
      BY <1>1, <1>3, <2>2 DEF StabHeld
    <3>2. PICK i \in Live(w) : i > 0 /\ macs[w][i] = a
      BY <3>1
    <3>3. i \in Live(w)' /\ macs'[w][i] = a
      <4>1. CASE w = v
        BY <1>2, <1>4, <1>5, <1>6, <3>2, <4>1
      <4>2. CASE w # v
        BY <1>1, <1>7, <1>8, <3>1, <3>2, <4>2 DEF MacTypeOK
      <4>3. QED
        BY <4>1, <4>2
    <3>4. QED
      BY <3>2, <3>3
  <2>3. QED
    BY <2>1, <2>2
<1>12. WhiteBehind'
  <2> SUFFICES ASSUME NEW p \in white
               PROVE  p[1] \in managed /\ \E i \in Behind(p[1])' : macs'[p[1]][i] = p[2]
    BY <1>3 DEF WhiteBehind
  <2>1. p[1] \in managed /\ p[1] \in VfIds
    BY <1>1 DEF WhiteBehind, MacTypeOK
  <2>2. PICK i \in Behind(p[1]) : macs[p[1]][i] = p[2]
    BY <1>1 DEF WhiteBehind
  <2>3. i \in Behind(p[1])' /\ macs'[p[1]][i] = p[2]
    <3>1. CASE p[1] = v
      <4>1. i \in Index \ {ip}
        BY <1>4, <2>2, <3>1 DEF Behind
      <4>2. QED
        BY <1>5, <1>6, <2>2, <3>1, <4>1
    <3>2. CASE p[1] # v
      BY <1>7, <1>8, <2>1, <2>2, <3>2
    <3>3. QED
      BY <3>1, <3>2
  <2>4. QED
    BY <2>1, <2>3
<1>13. UntilPush'
  <2> SUFFICES ASSUME ~pushed
               PROVE  /\ \A w \in VfIds : first'[w] = 1
                      /\ \A w \in VfIds : \A i \in Live(w)' : macs'[w][i] \in stab' \cup {NoMac}
                      /\ Settled'
    BY <1>3 DEF UntilPush
  <2>1. /\ \A w \in VfIds : first[w] = 1
        /\ \A w \in VfIds : \A i \in Live(w) : macs[w][i] \in stab \cup {NoMac}
        /\ Settled
    BY <1>1 DEF UntilPush
  \* An entry in use is one that was, or the new one.
  <2>2. ASSUME NEW w \in VfIds, NEW i \in Live(w)'
        PROVE  \/ i \in Live(w) /\ macs'[w][i] = macs[w][i] /\ macs[w][i] \in stab \cup {NoMac}
               \/ w = v /\ i = ip /\ macs'[w][i] = m
    <3>1. CASE w = v
      BY <1>2, <1>4, <1>5, <1>6, <2>1, <3>1
    <3>2. CASE w # v
      BY <1>7, <1>8, <2>1, <3>2
    <3>3. QED
      BY <3>1, <3>2
  <2>3. Settled'
    <3> SUFFICES ASSUME NEW w \in VfIds, NEW x \in VfIds,
                        NEW i \in Live(w)', NEW j \in Live(x)',
                        macs'[w][i] = macs'[x][j], macs'[w][i] # NoMac
                 PROVE  w = x /\ i = j
      BY DEF Settled
    <3>1. \/ i \in Live(w) /\ macs'[w][i] = macs[w][i] /\ macs[w][i] \in stab \cup {NoMac}
          \/ w = v /\ i = ip /\ macs'[w][i] = m
      BY <2>2
    <3>2. \/ j \in Live(x) /\ macs'[x][j] = macs[x][j] /\ macs[x][j] \in stab \cup {NoMac}
          \/ x = v /\ j = ip /\ macs'[x][j] = m
      BY <2>2
    <3>3. QED
      BY <1>3, <2>1, <3>1, <3>2 DEF Settled
  <2>4. QED
    BY <1>3, <2>1, <2>2, <2>3
<1>14. QED
  BY <1>9, <1>10, <1>11, <1>12, <1>13 DEF MacInv

\* A guest clears its list down to the default.
LEMMA ClearMacsKeeps ==
  ASSUME MacInv, NEW v \in VfIds, ClearMacs(v)
  PROVE  MacInv'
<1>1. MacTypeOK /\ ListsFit /\ StabHeld /\ WhiteBehind /\ UntilPush
  BY DEF MacInv
<1>2. /\ first[v] \in {0, 1} /\ n[v] \in 0 .. MaxVfMacs /\ MaxVfMacs \in Nat \ {0}
      /\ first[v] = 0 => n[v] > 0
      /\ Live(v) \subseteq Index /\ Live(v) \ Behind(v) \subseteq {first[v]}
  BY <1>1, Entries
<1>3. /\ v \in managed /\ managed' = managed
      /\ n' = [n EXCEPT ![v] = IF @ > 0 THEN 1 ELSE 0]
      /\ first' = first /\ macs' = macs /\ pushed' = pushed
      /\ stab' = stab \ MacsAt(v, Behind(v))
      /\ white' = {p \in white : p[2] \notin MacsAt(v, Behind(v))}
  BY DEF ClearMacs, WhiteWithout
<1>4. n'[v] = IF n[v] > 0 THEN 1 ELSE 0
  BY <1>1, <1>3 DEF MacTypeOK
<1>5. \A w \in VfIds \ {v} : n'[w] = n[w]
  BY <1>1, <1>3 DEF MacTypeOK
<1>6. \A w \in VfIds \ {v} : Live(w)' = Live(w) /\ Behind(w)' = Behind(w)
  BY <1>3, <1>5 DEF Live, Behind
<1>7. Live(v)' = Live(v) \ Behind(v) /\ Live(v)' \cap Behind(v) = {}
  BY <1>2, <1>3, <1>4 DEF Live, Behind, Index
<1>8. MacTypeOK'
  <2>1. n' \in [VfIds -> 0 .. MaxVfMacs]
    BY <1>1, <1>2, <1>3 DEF MacTypeOK
  <2>2. QED
    BY <1>1, <1>3, <2>1 DEF MacTypeOK
<1>9. ListsFit'
  <2>1. \A w \in VfIds : n'[w] = 0 <=> n[w] = 0
    BY <1>2, <1>4, <1>5
  <2>2. QED
    BY <1>1, <1>3, <2>1 DEF ListsFit, MacTypeOK
<1>10. StabHeld'
  <2> SUFFICES ASSUME NEW a \in stab'
               PROVE  \E w \in managed : \E i \in Live(w)' : i > 0 /\ macs[w][i] = a
    BY <1>3 DEF StabHeld
  <2>1. a \in stab /\ a \notin MacsAt(v, Behind(v))
    BY <1>3
  <2>2. PICK w \in managed : \E i \in Live(w) : i > 0 /\ macs[w][i] = a
    BY <1>1, <2>1 DEF StabHeld
  <2>3. PICK i \in Live(w) : i > 0 /\ macs[w][i] = a
    BY <2>2
  <2>4. i \in Live(w)'
    <3>1. CASE w = v
      BY <1>7, <2>1, <2>3, <3>1 DEF MacsAt
    <3>2. CASE w # v
      BY <1>1, <1>6, <2>2, <2>3, <3>2 DEF MacTypeOK
    <3>3. QED
      BY <3>1, <3>2
  <2>5. QED
    BY <2>3, <2>4
<1>11. WhiteBehind'
  <2> SUFFICES ASSUME NEW p \in white'
               PROVE  p[1] \in managed /\ \E i \in Behind(p[1])' : macs[p[1]][i] = p[2]
    BY <1>3 DEF WhiteBehind
  <2>1. p \in white /\ p[2] \notin MacsAt(v, Behind(v))
    BY <1>3
  <2>2. p[1] \in managed /\ p[1] \in VfIds
    BY <1>1, <2>1 DEF WhiteBehind, MacTypeOK
  <2>3. PICK i \in Behind(p[1]) : macs[p[1]][i] = p[2]
    BY <1>1, <2>1 DEF WhiteBehind
  <2>4. p[1] # v
    BY <2>1, <2>3 DEF MacsAt
  <2>5. QED
    BY <1>6, <2>2, <2>3, <2>4
<1>12. UntilPush'
  <2> SUFFICES ASSUME ~pushed
               PROVE  /\ \A w \in VfIds : first[w] = 1
                      /\ \A w \in VfIds : \A i \in Live(w)' : macs[w][i] \in stab' \cup {NoMac}
                      /\ Settled'
    BY <1>3 DEF UntilPush
  <2>1. /\ \A w \in VfIds : first[w] = 1
        /\ \A w \in VfIds : \A i \in Live(w) : macs[w][i] \in stab \cup {NoMac}
        /\ Settled
    BY <1>1 DEF UntilPush
  <2>2. \A w \in VfIds : Live(w)' \subseteq Live(w)
    BY <1>6, <1>7
  <2>3. Settled'
    BY <1>3, <2>1, <2>2 DEF Settled
  <2>4. ASSUME NEW w \in VfIds, NEW i \in Live(w)', macs[w][i] # NoMac
        PROVE  macs[w][i] \notin MacsAt(v, Behind(v))
    <3> SUFFICES ASSUME NEW j \in Behind(v), macs[w][i] = macs[v][j] PROVE FALSE
      BY DEF MacsAt
    <3>1. i \in Live(w) /\ j \in Live(v)
      BY <1>1, <2>2, Entries
    <3>2. w = v /\ i = j
      BY <2>1, <2>4, <3>1 DEF Settled
    <3>3. QED
      BY <1>7, <3>2
  <2>5. \A w \in VfIds : \A i \in Live(w)' : macs[w][i] \in stab' \cup {NoMac}
    BY <1>3, <2>1, <2>2, <2>4
  <2>6. QED
    BY <2>1, <2>3, <2>5
<1>13. QED
  BY <1>8, <1>9, <1>10, <1>11, <1>12 DEF MacInv

\* A refresh pushes the list of a VF to the NIC once more.
LEMMA RefreshMacsKeeps ==
  ASSUME MacInv, NEW v \in VfIds, RefreshMacs(v)
  PROVE  MacInv'
<1>1. MacTypeOK /\ ListsFit /\ StabHeld /\ WhiteBehind /\ UntilPush
  BY DEF MacInv
<1>2. \A i \in Index : macs[v][i] \in Macs \cup {NoMac}
  BY <1>1, Entries
<1>3. /\ v \in managed
      /\ white' = white \cup {<<v, macs[v][i]>> :
             i \in {j \in Index : first[v] < j /\ j < first[v] + n[v] /\ macs[v][j] # NoMac}}
      /\ managed' = managed /\ first' = first /\ n' = n /\ macs' = macs
      /\ stab' = stab /\ pushed' = pushed
  BY DEF RefreshMacs, PushedOut
<1>4. \A w \in VfIds : Live(w)' = Live(w) /\ Behind(w)' = Behind(w)
  BY <1>3 DEF Live, Behind
<1>5. MacTypeOK'
  BY <1>1, <1>2, <1>3 DEF MacTypeOK
<1>6. ListsFit' /\ StabHeld'
  BY <1>1, <1>3, <1>4 DEF ListsFit, StabHeld, MacTypeOK
<1>7. WhiteBehind'
  <2> SUFFICES ASSUME NEW p \in white'
               PROVE  p[1] \in managed /\ \E i \in Behind(p[1])' : macs[p[1]][i] = p[2]
    BY <1>3 DEF WhiteBehind
  <2>1. CASE p \in white
    BY <1>1, <1>4, <2>1 DEF WhiteBehind, MacTypeOK
  <2>2. CASE p \notin white
    <3>1. PICK i \in Index : p = <<v, macs[v][i]>> /\ first[v] < i /\ i < first[v] + n[v]
      BY <1>3, <2>2
    <3>2. i \in Behind(v)'
      BY <1>4, <3>1 DEF Behind
    <3>3. QED
      BY <1>3, <3>1, <3>2
  <2>3. QED
    BY <2>1, <2>2
<1>8. UntilPush'
  BY <1>1, <1>3, <1>4 DEF UntilPush, Settled
<1>9. QED
  BY <1>5, <1>6, <1>7, <1>8 DEF MacInv

LEMMA MacStep == MacInv /\ [MacNext]_macVars => MacInv'
<1> SUFFICES ASSUME MacInv, [MacNext]_macVars PROVE MacInv'
  OBVIOUS
<1>1. ASSUME NEW v \in VfIds, NEW f \in Files, AddVf(v, f) PROVE MacInv'
  BY <1>1, AddVfKeeps
<1>2. ASSUME NEW v \in VfIds, DelVf(v) PROVE MacInv'
  BY <1>2, DelVfKeeps
<1>3. ASSUME NEW v \in VfIds, NEW m \in Macs, PushMac(v, m) PROVE MacInv'
  BY <1>3, PushMacKeeps
<1>4. ASSUME NEW v \in VfIds, NEW m \in Macs, AddMac(v, m) PROVE MacInv'
  BY <1>4, AddMacKeeps
<1>5. ASSUME NEW v \in VfIds, ClearMacs(v) PROVE MacInv'
  BY <1>5, ClearMacsKeeps
<1>6. ASSUME NEW v \in VfIds, RefreshMacs(v) PROVE MacInv'
  BY <1>6, RefreshMacsKeeps
<1>7. CASE UNCHANGED macVars
  BY <1>7 DEF macVars, MacInv, MacTypeOK, ListsFit, StabHeld, WhiteBehind, UntilPush,
              Settled, Live, Behind
<1>8. QED
  BY <1>1, <1>2, <1>3, <1>4, <1>5, <1>6, <1>7 DEF MacNext

(***************************************************************************)
(* The theorems.                                                           *)
(***************************************************************************)

LEMMA MacInvHolds == MacSpec => []MacInv
<1>1. QED
  BY MacInitially, MacStep, PTL DEF MacSpec

\* Every variable keeps its type: num_macs stays within the array, and so does the
\* entry that add_mac computes from it and first_mac (vfd_mac.c:252).
THEOREM MacTypesHold == MacSpec => []MacTypeOK
<1>1. MacInv => MacTypeOK
  BY DEF MacInv
<1>2. QED
  BY <1>1, MacInvHolds, PTL

\* The symbol table that refuses duplicates keeps nothing of a cleared list or a
\* deleted VF (clear_macs), whatever a guest has pushed over its reserved entry.
THEOREM NothingStaysMapped == MacSpec => []NothingLeaks
<1>1. ASSUME MacInv PROVE NothingLeaks
  <2> SUFFICES ASSUME NEW m \in stab
               PROVE  \E v \in VfIds : m \in Listed(v)
    BY DEF NothingLeaks
  <2>1. PICK v \in managed : \E i \in Live(v) : macs[v][i] = m
    BY <1>1 DEF MacInv, StabHeld
  <2>2. v \in VfIds /\ m # NoMac
    BY <1>1, MacSizes DEF MacInv, MacTypeOK
  <2>3. QED
    BY <2>1, <2>2 DEF Listed
<1>2. QED
  BY <1>1, MacInvHolds, PTL

\* The NIC's white list has no address that is not in the list of the VF it is
\* delivered to (set_macs, clear_macs).
THEOREM WhiteStaysListed == MacSpec => []WhiteIsListed
<1>1. ASSUME MacInv PROVE WhiteIsListed
  <2> SUFFICES ASSUME NEW p \in white PROVE p[2] \in Listed(p[1])
    BY DEF WhiteIsListed
  <2>1. p[1] \in managed /\ p[1] \in VfIds /\ p[2] # NoMac
    BY <1>1, MacSizes DEF MacInv, WhiteBehind, MacTypeOK
  <2>2. PICK i \in Behind(p[1]) : macs[p[1]][i] = p[2]
    BY <1>1 DEF MacInv, WhiteBehind
  <2>3. i \in Live(p[1])
    BY <1>1, <2>1, <2>2, Entries DEF MacInv
  <2>4. QED
    BY <2>1, <2>2, <2>3 DEF Listed
<1>2. QED
  BY <1>1, MacInvHolds, PTL

\* While no guest has pushed a default address, no two VFs of a PF use the same one,
\* and can_add_mac finds each that is in use.
THEOREM UniqueWithoutPush == MacSpec => []UniqueUntilPush
<1>1. ASSUME MacInv PROVE UniqueUntilPush
  <2> SUFFICES ASSUME ~pushed
               PROVE  UniqueMacs /\ \A v \in VfIds : Listed(v) \subseteq stab
    BY DEF UniqueUntilPush
  <2>1. /\ \A v \in VfIds : \A i \in Live(v) : macs[v][i] \in stab \cup {NoMac}
        /\ Settled
    BY <1>1 DEF MacInv, UntilPush
  <2>2. ASSUME NEW v \in VfIds, NEW m \in Listed(v)
        PROVE  m # NoMac /\ \E i \in Live(v) : macs[v][i] = m
    BY DEF Listed
  <2>3. UniqueMacs
    BY <2>1, <2>2 DEF UniqueMacs, Settled
  <2>4. \A v \in VfIds : Listed(v) \subseteq stab
    BY <2>1, <2>2
  <2>5. QED
    BY <2>3, <2>4
<1>2. QED
  BY <1>1, MacInvHolds, PTL

=============================================================================
