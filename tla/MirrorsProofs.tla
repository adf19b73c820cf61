---------------------------- MODULE MirrorsProofs ----------------------------
(***************************************************************************)
(* Proofs about Mirrors, for any VFs, targets, directions and sizes of the *)
(* id pool: ids of active mirrors are held, the NIC's rules are the        *)
(* mirrors that are on, and num_mirrors counts them.                       *)
(***************************************************************************)
EXTENDS Mirrors, FiniteSetTheorems, TLAPS

(***************************************************************************)
(* The id manager.                                                         *)
(***************************************************************************)

\* A set of numbers that is not empty has a least one.
LEMMA LeastNumber ==
  ASSUME NEW S \in SUBSET Nat, S # {}
  PROVE  Min(S) \in S /\ \A y \in S : Min(S) <= y
<1> DEFINE upTo(n) == 0 .. n
           T       == {upTo(n) : n \in S}
           R       == StrictSubsetOrdering(Nat)
<1>1. IsWellFoundedOn(R, FiniteSubsetsOf(Nat))
  BY FS_StrictSubsetOrderingWellFounded
<1>2. \A n \in S : IsFiniteSet(upTo(n)) /\ upTo(n) \in SUBSET Nat
  BY FS_Interval
<1>3. T \subseteq FiniteSubsetsOf(Nat) /\ T # {}
  BY <1>2 DEF FiniteSubsetsOf
<1> HIDE DEF T, R
<1>4. PICK t \in T : \A u \in T : ~(<<u, t>> \in R)
  BY <1>1, <1>3, WFMin
<1>5. PICK x \in S : t = upTo(x)
  BY DEF T
<1>6. ASSUME NEW y \in S PROVE x <= y
  <2>1. upTo(y) \in T
    BY DEF T
  <2>2. <<upTo(y), upTo(x)>> \notin R
    BY <1>4, <1>5, <2>1
  <2>3. ~(upTo(y) \subseteq upTo(x) /\ upTo(y) # upTo(x))
    BY <1>2, <2>2 DEF R, StrictSubsetOrdering
  <2>4. y < x => upTo(y) \subseteq upTo(x) /\ x \in upTo(x) /\ x \notin upTo(y)
    OBVIOUS
  <2>5. QED
    BY <2>3, <2>4
<1>7. QED
  BY <1>6 DEF Min

LEMMA PoolSize == PoolLen \in Nat \ {0} /\ PoolLen * ByteBits \in Nat \ {0}
<1>1. PoolLen \in Nat \ {0}
  BY IdSizes DEF PoolLen
<1>2. QED
  BY <1>1, IdSizes

\* An id that idm_alloc finds was not in use, and mirror_s.id can hold it.
LEMMA FreshId ==
  ASSUME NextId # NoId
  PROVE  NextId \notin used /\ NextId \in Ids /\ StoredId = NextId
<1>1. Holes # {} /\ NextId = Min(Holes)
  BY DEF NextId
<1>2. Pool \subseteq Ids
  <2> DEFINE size == PoolLen * ByteBits
  <2>1. size \in Nat /\ size <= IdRange /\ IdRange \in Nat
    BY PoolSize, MirrorSizes
  <2> HIDE DEF size
  <2>2. 0 .. size - 1 \subseteq 0 .. IdRange - 1
    BY <2>1
  <2>3. QED
    BY <2>2 DEF size, Pool, Ids
<1>3. Holes \in SUBSET Nat
  <2>1. Ids \subseteq Nat
    BY MirrorSizes DEF Ids
  <2>2. QED
    BY <1>2, <2>1 DEF Holes
<1>4. NextId \in Holes
  BY <1>1, <1>3, LeastNumber
<1>5. NextId \notin used /\ NextId \in Ids
  BY <1>2, <1>4 DEF Holes
<1>6. NextId % IdRange = NextId
  BY <1>5, MirrorSizes DEF Ids
<1>7. QED
  BY <1>5, <1>6 DEF StoredId

(***************************************************************************)
(* The inductive invariant.                                                *)
(***************************************************************************)

MirrorRecords == [target : Targets \cup {NoTarget}, dir : Dirs \cup {"off"}, id : Ids]
Flags         == {"none", "added", "deleted", "reset", "unchanged"}
Labels        == {"idle", "call", "update", "pass", "program", "closed"}

MirTypeOK ==
  /\ flag \in [VfIds -> Flags]
  /\ mirrors \in [VfIds -> MirrorRecords]
  /\ numMirrors \in Nat
  /\ rules \in [Ids -> {NoRule} \cup VfIds \X Targets \X Dirs]
  /\ lock \in Threads \cup {"free"}
  /\ pc \in [Threads -> Labels]
  /\ vf \in [Threads -> VfIds]
  /\ args \in [Threads -> MirrorRecords]

\* A mirror that is on has a target, and it is off while main calls the NIC to turn
\* it off.
OnHasTarget ==
  /\ \A v \in VfIds : mirrors[v].dir # "off" => mirrors[v].target # NoTarget
  /\ \A t \in Threads : args[t].dir # "off" => args[t].target # NoTarget
  /\ pc["main"] = "call" /\ args["main"].dir = "off" => mirrors[vf["main"]].dir = "off"

\* Only the holder of update_lock is in the update pass.
PassHolds == \A t \in Threads : pc[t] \in {"pass", "program"} => lock = t

\* No request has met a restore, and the ports are open.
Quiet == "race" \notin past /\ pc["main"] # "closed" /\ pc["restorer"] # "closed"

\* A VF whose mirror main has changed and not yet told the NIC about.
Calling(v) == pc["main"] = "call" /\ vf["main"] = v

\* The mirror of a VF has a target, on or being turned off.
Aimed(v) == mirrors[v].target # NoTarget
AreAimed == {v \in VfIds : Aimed(v)}

\* Who may be where as long as no request meets a restore: what a thread has read is
\* still what is there when it tells the NIC.
Apart ==
  Quiet =>
    /\ pc["main"] = "call" =>
         /\ pc["restorer"] = "idle"
         /\ args["main"] = mirrors[vf["main"]]
         /\ flag[vf["main"]] = "unchanged"
    /\ \A t \in Threads : pc[t] = "program" =>
         args[t] = mirrors[vf[t]] /\ flag[vf[t]] \in {"added", "reset"}
    /\ (\E v \in VfIds : Pending(v)) => \E t \in Threads : pc[t] \in {"update", "pass", "program"}
    /\ \A v \in VfIds : Aimed(v) => On(v) \/ Calling(v)
    /\ \A v \in VfIds : flag[v] = "none" => ~Aimed(v)

\* No two mirrors that have a target share an id, and the pool has theirs.
AimedIdsHeld ==
  /\ \A v, w \in AreAimed : mirrors[v].id = mirrors[w].id => v = w
  /\ \A v \in AreAimed : mirrors[v].id \in used

\* The rule a mirror that is on should have: none yet when its VF is new.
RuleDue(v) == IF flag[v] = "added" THEN NoRule ELSE <<v, mirrors[v].target, mirrors[v].dir>>

RulesFollow ==
  Quiet /\ "exhausted" \notin past =>
    /\ AimedIdsHeld
    /\ \A v \in AreAimed : ~Calling(v) /\ mirrors[v].id \notin refused =>
         rules[mirrors[v].id] = RuleDue(v)
    /\ \A i \in Ids \ refused : rules[i] # NoRule => \E v \in AreAimed : mirrors[v].id = i

\* The mirrors num_mirrors has counted.
Counted == {v \in VfIds : On(v) /\ flag[v] # "added"}

CountFollows ==
  Quiet /\ "reset" \notin past =>
    /\ numMirrors = Cardinality(Counted)
    /\ \A t \in Threads : pc[t] = "program" /\ flag[vf[t]] = "reset" => args[t].dir = "off"

MirInv ==
  /\ MirTypeOK /\ OnHasTarget /\ PassHolds /\ IdsHeld
  /\ Apart /\ RulesFollow /\ CountFollows


LEMMA MirInitially == MirInit => MirInv
<1> SUFFICES ASSUME MirInit PROVE MirInv
  OBVIOUS
<1> USE MirrorSizes DEF MirInit, IdInit
<1>1. Zeroes \in MirrorRecords /\ Zeroes.dir = "off" /\ Zeroes.target = NoTarget
  BY DEF Zeroes, MirrorRecords, Ids
<1>2. MirTypeOK
  BY <1>1 DEF MirTypeOK, Flags, Labels, Threads
<1>3. \A v \in VfIds : mirrors[v].dir = "off" /\ mirrors[v].target = NoTarget
  BY <1>1
<1>4. OnHasTarget /\ PassHolds /\ Apart
  BY <1>1, <1>3 DEF OnHasTarget, PassHolds, Apart, Pending, Aimed, Threads
<1>5. AreOn = {} /\ AreAimed = {} /\ Counted = {}
  BY <1>3 DEF AreOn, On, AreAimed, Aimed, Counted
<1>6. IdsHeld /\ RulesFollow
  BY <1>5 DEF IdsHeld, RulesFollow, AimedIdsHeld
<1>7. CountFollows
  BY <1>5, FS_EmptySet DEF CountFollows, Threads
<1>8. QED
  BY <1>2, <1>4, <1>6, <1>7 DEF MirInv

(***************************************************************************)
(* Steps that leave the mirrors and the id pool alone.                     *)
(***************************************************************************)

\* The parts of the invariant that are about mirrors and ids alone.
LEMMA SameMirrors ==
  ASSUME mirrors' = mirrors, used' = used, past \subseteq past'
  PROVE  /\ AreOn' = AreOn /\ AreAimed' = AreAimed
         /\ \A v \in VfIds : On(v)' = On(v) /\ Aimed(v)' = Aimed(v)
         /\ IdsHeld => IdsHeld'
         /\ AimedIdsHeld' = AimedIdsHeld
<1>1. \A v \in VfIds : On(v)' = On(v) /\ Aimed(v)' = Aimed(v)
  BY DEF On, Aimed
<1>2. AreOn' = AreOn /\ AreAimed' = AreAimed
  BY <1>1 DEF AreOn, AreAimed
<1>3. IdsHeld => IdsHeld'
  BY <1>2 DEF IdsHeld
<1>4. AimedIdsHeld' = AimedIdsHeld
  BY <1>2 DEF AimedIdsHeld
<1>5. QED
  BY <1>1, <1>2, <1>3, <1>4

\* A thread takes update_lock.
LEMMA PassLockKeeps ==
  ASSUME MirInv, NEW t \in Threads, PassLock(t)
  PROVE  MirInv'
<1>1. /\ MirTypeOK /\ OnHasTarget /\ PassHolds /\ IdsHeld
      /\ Apart /\ RulesFollow /\ CountFollows
  BY DEF MirInv
<1>2. /\ pc[t] = "update" /\ lock = "free" /\ lock' = t
      /\ pc' = [pc EXCEPT ![t] = "pass"]
      /\ used' = used /\ flag' = flag /\ mirrors' = mirrors /\ numMirrors' = numMirrors
      /\ rules' = rules /\ refused' = refused /\ vf' = vf /\ args' = args /\ past' = past
  BY DEF PassLock, Goto, idVars
<1>3. pc'[t] = "pass" /\ \A o \in Threads \ {t} : pc'[o] = pc[o]
  BY <1>1, <1>2 DEF MirTypeOK
<1>4. /\ AreOn' = AreOn /\ AreAimed' = AreAimed
      /\ \A v \in VfIds : On(v)' = On(v) /\ Aimed(v)' = Aimed(v)
      /\ IdsHeld' /\ AimedIdsHeld' = AimedIdsHeld
  BY <1>1, <1>2, SameMirrors
<1>5. \A v \in VfIds : Calling(v)' = Calling(v) /\ Pending(v)' = Pending(v)
  BY <1>2, <1>3 DEF Calling, Pending, Threads
<1>6. Quiet' = Quiet
  BY <1>2, <1>3 DEF Quiet, Threads
<1>7. MirTypeOK' /\ OnHasTarget' /\ PassHolds'
  BY <1>1, <1>2, <1>3 DEF MirTypeOK, OnHasTarget, PassHolds, Labels, Threads
<1>8. Apart'
  BY <1>1, <1>2, <1>3, <1>4, <1>5, <1>6 DEF Apart, Threads
<1>9. RulesFollow'
  BY <1>1, <1>2, <1>4, <1>5, <1>6 DEF RulesFollow, RuleDue, AreAimed
<1>10. CountFollows'
  <2>1. Counted' = Counted
    BY <1>2, <1>4 DEF Counted
  <2>2. QED
    BY <1>1, <1>2, <1>3, <1>6, <2>1 DEF CountFollows
<1>11. QED
  BY <1>4, <1>7, <1>8, <1>9, <1>10 DEF MirInv

\* A thread leaves the pass.
LEMMA PassUnlockKeeps ==
  ASSUME MirInv, NEW t \in Threads, PassUnlock(t)
  PROVE  MirInv'
<1>1. /\ MirTypeOK /\ OnHasTarget /\ PassHolds /\ IdsHeld
      /\ Apart /\ RulesFollow /\ CountFollows
  BY DEF MirInv
<1>2. /\ pc[t] = "pass" /\ ~(\E v \in VfIds : Pending(v)) /\ lock' = "free"
      /\ pc' = [pc EXCEPT ![t] = "idle"]
      /\ used' = used /\ flag' = flag /\ mirrors' = mirrors /\ numMirrors' = numMirrors
      /\ rules' = rules /\ refused' = refused /\ vf' = vf /\ args' = args /\ past' = past
  BY DEF PassUnlock, Goto, idVars
<1>3. pc'[t] = "idle" /\ \A o \in Threads \ {t} : pc'[o] = pc[o]
  BY <1>1, <1>2 DEF MirTypeOK
<1>4. /\ AreOn' = AreOn /\ AreAimed' = AreAimed
      /\ \A v \in VfIds : On(v)' = On(v) /\ Aimed(v)' = Aimed(v)
      /\ IdsHeld' /\ AimedIdsHeld' = AimedIdsHeld
  BY <1>1, <1>2, SameMirrors
<1>5. \A v \in VfIds : Calling(v)' = Calling(v) /\ Pending(v)' = Pending(v)
  BY <1>2, <1>3 DEF Calling, Pending, Threads
<1>6. Quiet' = Quiet
  BY <1>2, <1>3 DEF Quiet, Threads
<1>7. MirTypeOK' /\ OnHasTarget'
  BY <1>1, <1>2, <1>3 DEF MirTypeOK, OnHasTarget, Labels, Threads
<1>8. PassHolds'
  <2> SUFFICES ASSUME NEW o \in Threads, pc'[o] \in {"pass", "program"} PROVE FALSE
    BY DEF PassHolds
  <2>1. o # t /\ pc[o] \in {"pass", "program"}
    BY <1>3
  <2>2. QED
    BY <1>1, <1>2, <2>1 DEF PassHolds
<1>9. Apart'
  BY <1>1, <1>2, <1>3, <1>4, <1>5, <1>6 DEF Apart, Threads
<1>10. RulesFollow'
  BY <1>1, <1>2, <1>4, <1>5, <1>6 DEF RulesFollow, RuleDue, AreAimed
<1>11. CountFollows'
  <2>1. Counted' = Counted
    BY <1>2, <1>4 DEF Counted
  <2>2. QED
    BY <1>1, <1>2, <1>3, <1>6, <2>1 DEF CountFollows
<1>12. QED
  BY <1>4, <1>7, <1>8, <1>9, <1>10, <1>11 DEF MirInv

\* The pass reads the mirror_s of an added or reset VF.
LEMMA PassReadKeeps ==
  ASSUME MirInv, NEW t \in Threads, PassRead(t)
  PROVE  MirInv'
<1>1. /\ MirTypeOK /\ OnHasTarget /\ PassHolds /\ IdsHeld
      /\ Apart /\ RulesFollow /\ CountFollows
  BY DEF MirInv
<1>2. PICK v \in VfIds :
        /\ flag[v] \in {"added", "reset"}
        /\ vf' = [vf EXCEPT ![t] = v]
        /\ args' = [args EXCEPT ![t] = mirrors[v]]
        /\ past' = past \cup IF On(v) /\ flag[v] = "reset" THEN {"reset"} ELSE {}
  BY DEF PassRead
<1>3. /\ pc[t] = "pass" /\ lock' = lock
      /\ pc' = [pc EXCEPT ![t] = "program"]
      /\ used' = used /\ flag' = flag /\ mirrors' = mirrors /\ numMirrors' = numMirrors
      /\ rules' = rules /\ refused' = refused
  BY DEF PassRead, Goto, idVars
<1>4. /\ pc'[t] = "program" /\ \A o \in Threads \ {t} : pc'[o] = pc[o]
      /\ vf'[t] = v /\ \A o \in Threads \ {t} : vf'[o] = vf[o]
      /\ args'[t] = mirrors[v] /\ \A o \in Threads \ {t} : args'[o] = args[o]
  BY <1>1, <1>2, <1>3 DEF MirTypeOK
<1>5. /\ AreOn' = AreOn /\ AreAimed' = AreAimed
      /\ \A u \in VfIds : On(u)' = On(u) /\ Aimed(u)' = Aimed(u)
      /\ IdsHeld' /\ AimedIdsHeld' = AimedIdsHeld
  BY <1>1, <1>2, <1>3, SameMirrors
<1>6. \A u \in VfIds : Calling(u)' = Calling(u) /\ Pending(u)' = Pending(u)
  BY <1>3, <1>4 DEF Calling, Pending, Threads
<1>7. /\ Quiet' = Quiet /\ ("exhausted" \in past' <=> "exhausted" \in past)
      /\ "reset" \in past => "reset" \in past'
  BY <1>2, <1>3, <1>4 DEF Quiet, Threads
<1>8. MirTypeOK'
  <2>1. vf' \in [Threads -> VfIds] /\ args' \in [Threads -> MirrorRecords]
    BY <1>1, <1>2 DEF MirTypeOK
  <2>2. pc' \in [Threads -> Labels]
    BY <1>1, <1>3 DEF MirTypeOK, Labels
  <2>3. QED
    BY <1>1, <1>3, <2>1, <2>2 DEF MirTypeOK
<1>9. OnHasTarget' /\ PassHolds'
  <2>1. pc'["main"] = "call" => pc["main"] = "call" /\ t # "main"
    BY <1>4 DEF Threads
  <2>2. QED
    BY <1>1, <1>3, <1>4, <2>1 DEF OnHasTarget, PassHolds, Threads
<1>10. Apart'
  <2> SUFFICES ASSUME Quiet
               PROVE  /\ pc'["main"] = "call" =>
                           /\ pc'["restorer"] = "idle"
                           /\ args'["main"] = mirrors[vf'["main"]]
                           /\ flag[vf'["main"]] = "unchanged"
                      /\ \A o \in Threads : pc'[o] = "program" =>
                           args'[o] = mirrors[vf'[o]] /\ flag[vf'[o]] \in {"added", "reset"}
                      /\ (\E u \in VfIds : Pending(u)) =>
                           \E o \in Threads : pc'[o] \in {"update", "pass", "program"}
                      /\ \A u \in VfIds : Aimed(u) => On(u) \/ Calling(u)
                      /\ \A u \in VfIds : flag[u] = "none" => ~Aimed(u)
    BY <1>3, <1>5, <1>6, <1>7 DEF Apart
  <2>1. pc["main"] # "call"
    BY <1>1, <1>3 DEF Apart, Threads
  <2>2. pc'["main"] # "call"
    BY <1>4, <2>1 DEF Threads
  <2>3. QED
    BY <1>1, <1>2, <1>4, <2>2 DEF Apart
<1>11. RulesFollow'
  BY <1>1, <1>3, <1>5, <1>6, <1>7 DEF RulesFollow, RuleDue, AreAimed
<1>12. CountFollows'
  <2>1. Counted' = Counted
    BY <1>3, <1>5 DEF Counted
  <2>2. ASSUME "reset" \notin past', flag[v] = "reset" PROVE mirrors[v].dir = "off"
    BY <1>2, <2>2 DEF On
  <2>3. QED
    BY <1>1, <1>3, <1>4, <1>7, <2>1, <2>2 DEF CountFollows
<1>13. QED
  BY <1>5, <1>8, <1>9, <1>10, <1>11, <1>12 DEF MirInv

\* A restore flags a VF.
LEMMA ResetKeeps ==
  ASSUME MirInv, NEW v \in VfIds, Reset(v)
  PROVE  MirInv'
<1>1. /\ MirTypeOK /\ OnHasTarget /\ PassHolds /\ IdsHeld
      /\ Apart /\ RulesFollow /\ CountFollows
  BY DEF MirInv
<1>2. /\ pc["restorer"] = "idle" /\ flag[v] # "none" /\ lock' = lock
      /\ pc' = [pc EXCEPT !["restorer"] = "update"]
      /\ flag' = [flag EXCEPT ![v] = "reset"]
      /\ past' = past \cup IF pc["main"] = "idle" THEN {} ELSE {"race"}
      /\ used' = used /\ mirrors' = mirrors /\ numMirrors' = numMirrors
      /\ rules' = rules /\ refused' = refused /\ vf' = vf /\ args' = args
  BY DEF Reset, Goto, idVars
<1>3. /\ pc'["restorer"] = "update" /\ pc'["main"] = pc["main"]
      /\ flag'[v] = "reset" /\ \A u \in VfIds \ {v} : flag'[u] = flag[u]
  BY <1>1, <1>2 DEF MirTypeOK, Threads
<1>4. /\ AreOn' = AreOn /\ AreAimed' = AreAimed
      /\ \A u \in VfIds : On(u)' = On(u) /\ Aimed(u)' = Aimed(u)
      /\ IdsHeld' /\ AimedIdsHeld' = AimedIdsHeld
  BY <1>1, <1>2, SameMirrors
<1>5. Quiet' => Quiet /\ pc["main"] = "idle" /\ past' = past
  BY <1>2, <1>3 DEF Quiet
<1>6. MirTypeOK'
  <2>1. flag' \in [VfIds -> Flags] /\ pc' \in [Threads -> Labels]
    BY <1>1, <1>2 DEF MirTypeOK, Flags, Labels
  <2>2. QED
    BY <1>1, <1>2, <2>1 DEF MirTypeOK
<1>7. OnHasTarget' /\ PassHolds'
  BY <1>1, <1>2, <1>3 DEF OnHasTarget, PassHolds, Threads
\* Both threads were idle, so that no other VF is flagged.
<1>8. Quiet' => flag[v] = "unchanged"
  <2>1. Quiet' => ~Pending(v)
    BY <1>1, <1>2, <1>5 DEF Apart, Threads
  <2>2. QED
    BY <1>1, <1>2, <2>1 DEF Pending, MirTypeOK, Flags
<1>9. Apart'
  <2> SUFFICES ASSUME Quiet' PROVE Apart'
    BY DEF Apart
  <2>1. \A u \in VfIds : Calling(u)' = Calling(u)
    BY <1>2, <1>3 DEF Calling
  <2>2. \A t \in Threads : pc'[t] # "program" /\ pc'["main"] # "call"
    BY <1>3, <1>5 DEF Threads
  <2>3. \E t \in Threads : pc'[t] \in {"update", "pass", "program"}
    BY <1>3 DEF Threads
  <2>4. QED
    BY <1>1, <1>3, <1>4, <1>5, <2>1, <2>2, <2>3 DEF Apart
<1>10. RulesFollow'
  <2> SUFFICES ASSUME Quiet', "exhausted" \notin past' PROVE RulesFollow'
    BY DEF RulesFollow
  <2>1. \A u \in VfIds : Calling(u)' = Calling(u) /\ RuleDue(u)' = RuleDue(u)
    BY <1>2, <1>3, <1>8 DEF Calling, RuleDue
  <2>2. QED
    BY <1>1, <1>2, <1>4, <1>5, <2>1 DEF RulesFollow, AreAimed
<1>11. CountFollows'
  <2> SUFFICES ASSUME Quiet', "reset" \notin past' PROVE CountFollows'
    BY DEF CountFollows
  <2>1. Counted' = Counted
    BY <1>3, <1>4, <1>8 DEF Counted
  <2>2. \A t \in Threads : pc'[t] # "program"
    BY <1>3, <1>5 DEF Threads
  <2>3. QED
    BY <1>1, <1>2, <1>5, <2>1, <2>2 DEF CountFollows
<1>12. QED
  BY <1>4, <1>6, <1>7, <1>9, <1>10, <1>11 DEF MirInv

\* A request deletes a VF.
LEMMA DeleteKeeps ==
  ASSUME MirInv, NEW v \in VfIds, Delete(v)
  PROVE  MirInv'
<1>1. /\ MirTypeOK /\ OnHasTarget /\ PassHolds /\ IdsHeld
      /\ Apart /\ RulesFollow /\ CountFollows
  BY DEF MirInv
<1>2. /\ pc["main"] = "idle" /\ flag[v] # "none" /\ lock' = lock
      /\ pc' = [pc EXCEPT !["main"] = "update"]
      /\ flag' = [flag EXCEPT ![v] = "deleted"]
      /\ past' = past \cup IF pc["restorer"] = "idle" THEN {} ELSE {"race"}
      /\ used' = used /\ mirrors' = mirrors /\ numMirrors' = numMirrors
      /\ rules' = rules /\ refused' = refused /\ vf' = vf /\ args' = args
  BY DEF Delete, NewRequest, Racing, Goto, idVars
<1>3. /\ pc'["main"] = "update" /\ pc'["restorer"] = pc["restorer"]
      /\ flag'[v] = "deleted" /\ \A u \in VfIds \ {v} : flag'[u] = flag[u]
  BY <1>1, <1>2 DEF MirTypeOK, Threads
<1>4. /\ AreOn' = AreOn /\ AreAimed' = AreAimed
      /\ \A u \in VfIds : On(u)' = On(u) /\ Aimed(u)' = Aimed(u)
      /\ IdsHeld' /\ AimedIdsHeld' = AimedIdsHeld
  BY <1>1, <1>2, SameMirrors
<1>5. Quiet' => Quiet /\ pc["restorer"] = "idle" /\ past' = past
  BY <1>2, <1>3 DEF Quiet
<1>6. MirTypeOK'
  <2>1. flag' \in [VfIds -> Flags] /\ pc' \in [Threads -> Labels]
    BY <1>1, <1>2 DEF MirTypeOK, Flags, Labels
  <2>2. QED
    BY <1>1, <1>2, <2>1 DEF MirTypeOK
<1>7. OnHasTarget' /\ PassHolds'
  BY <1>1, <1>2, <1>3 DEF OnHasTarget, PassHolds, Threads
<1>8. Quiet' => flag[v] = "unchanged"
  <2>1. Quiet' => ~Pending(v)
    BY <1>1, <1>2, <1>5 DEF Apart, Threads
  <2>2. QED
    BY <1>1, <1>2, <2>1 DEF Pending, MirTypeOK, Flags
<1>9. \A u \in VfIds : ~Calling(u) /\ ~Calling(u)'
  BY <1>2, <1>3 DEF Calling
<1>10. Apart'
  <2> SUFFICES ASSUME Quiet' PROVE Apart'
    BY DEF Apart
  <2>1. \A t \in Threads : pc'[t] # "program" /\ pc'["main"] # "call"
    BY <1>3, <1>5 DEF Threads
  <2>2. \E t \in Threads : pc'[t] \in {"update", "pass", "program"}
    BY <1>3 DEF Threads
  <2>3. QED
    BY <1>1, <1>3, <1>4, <1>5, <1>9, <2>1, <2>2 DEF Apart
<1>11. RulesFollow'
  <2> SUFFICES ASSUME Quiet', "exhausted" \notin past' PROVE RulesFollow'
    BY DEF RulesFollow
  <2>1. \A u \in VfIds : RuleDue(u)' = RuleDue(u)
    BY <1>2, <1>3, <1>8 DEF RuleDue
  <2>2. QED
    BY <1>1, <1>2, <1>4, <1>5, <1>9, <2>1 DEF RulesFollow, AreAimed
<1>12. CountFollows'
  <2> SUFFICES ASSUME Quiet', "reset" \notin past' PROVE CountFollows'
    BY DEF CountFollows
  <2>1. Counted' = Counted
    BY <1>3, <1>4, <1>8 DEF Counted
  <2>2. \A t \in Threads : pc'[t] # "program"
    BY <1>3, <1>5 DEF Threads
  <2>3. QED
    BY <1>1, <1>2, <1>5, <2>1, <2>2 DEF CountFollows
<1>13. QED
  BY <1>4, <1>6, <1>7, <1>10, <1>11, <1>12 DEF MirInv

\* The ports are closed, and nothing runs any more.
LEMMA ClosePortsKeeps ==
  ASSUME MirInv, ClosePorts
  PROVE  MirInv'
<1>1. MirTypeOK /\ OnHasTarget /\ IdsHeld
  BY DEF MirInv
<1>2. /\ pc' = [t \in Threads |-> "closed"] /\ lock' = lock
      /\ \E gone : rules' = [i \in Ids |-> IF i \in gone THEN NoRule ELSE rules[i]]
      /\ used' = used /\ flag' = flag /\ mirrors' = mirrors /\ numMirrors' = numMirrors
      /\ vf' = vf /\ args' = args /\ past' = past
  BY DEF ClosePorts, idVars
<1>3. MirTypeOK'
  <2>1. pc' \in [Threads -> Labels]
    BY <1>2 DEF Labels
  <2>2. rules' \in [Ids -> {NoRule} \cup VfIds \X Targets \X Dirs]
    BY <1>1, <1>2 DEF MirTypeOK
  <2>3. QED
    BY <1>1, <1>2, <2>1, <2>2 DEF MirTypeOK
<1>4. OnHasTarget' /\ PassHolds' /\ IdsHeld'
  BY <1>1, <1>2, SameMirrors DEF OnHasTarget, PassHolds, Threads
<1>5. ~Quiet'
  BY <1>2 DEF Quiet, Threads
<1>6. Apart' /\ RulesFollow' /\ CountFollows'
  BY <1>5 DEF Apart, RulesFollow, CountFollows
<1>7. QED
  BY <1>3, <1>4, <1>6 DEF MirInv

(***************************************************************************)
(* Requests that write a mirror.                                           *)
(***************************************************************************)

\* What idm_alloc does to the pool.
LEMMA AllocMarks ==
  ASSUME Alloc
  PROVE  /\ StoredId \in Ids
         /\ Exhausted = {} => used' = used \cup {StoredId} /\ StoredId \notin used
         /\ Exhausted # {} => Exhausted = {"exhausted"} /\ used' = used
<1>1. StoredId \in Ids
  <2>1. NextId \in Int
    <3>1. CASE NextId = NoId
      BY <3>1 DEF NoId
    <3>2. CASE NextId # NoId
      BY <3>2, FreshId DEF Ids
    <3>3. QED
      BY <3>1, <3>2
  <2>2. \A k \in Int : k % IdRange \in 0 .. IdRange - 1
    BY MirrorSizes
  <2>3. QED
    BY <2>1, <2>2 DEF StoredId, Ids
<1>2. CASE NextId = NoId
  BY <1>1, <1>2 DEF Alloc, Exhausted, idVars
<1>3. CASE NextId # NoId
  BY <1>1, <1>3, FreshId DEF Alloc, Exhausted
<1>4. QED
  BY <1>2, <1>3

\* The mirrors of one PF after one of them has been written.
LEMMA MirrorWritten ==
  ASSUME MirTypeOK, NEW v \in VfIds, NEW m \in MirrorRecords,
         mirrors' = [mirrors EXCEPT ![v] = m]
  PROVE  /\ mirrors' \in [VfIds -> MirrorRecords]
         /\ mirrors'[v] = m /\ \A u \in VfIds \ {v} : mirrors'[u] = mirrors[u]
         /\ On(v)' <=> m.dir # "off"
         /\ Aimed(v)' <=> m.target # NoTarget
         /\ \A u \in VfIds \ {v} : On(u)' = On(u) /\ Aimed(u)' = Aimed(u)
<1>1. /\ mirrors' \in [VfIds -> MirrorRecords]
      /\ mirrors'[v] = m /\ \A u \in VfIds \ {v} : mirrors'[u] = mirrors[u]
  BY DEF MirTypeOK
<1>2. QED
  BY <1>1 DEF On, Aimed

\* A mirror that gets an id from the pool: ids stay held.
LEMMA NewMirrorIds ==
  ASSUME MirTypeOK, NEW v \in VfIds, NEW m \in MirrorRecords,
         mirrors' = [mirrors EXCEPT ![v] = m], Alloc, m.id = StoredId, m.target # NoTarget,
         past \subseteq past', Exhausted \subseteq past'
  PROVE  /\ IdsHeld => IdsHeld'
         /\ AimedIdsHeld /\ "exhausted" \notin past' => AimedIdsHeld' /\ m.id \notin used
<1>1. /\ mirrors'[v] = m /\ \A u \in VfIds \ {v} : mirrors'[u] = mirrors[u]
      /\ \A u \in VfIds \ {v} : On(u)' = On(u) /\ Aimed(u)' = Aimed(u)
  BY MirrorWritten
<1>2. "exhausted" \notin past' => used' = used \cup {m.id} /\ m.id \notin used
  BY AllocMarks
<1>3. IdsHeld => IdsHeld'
  <2> SUFFICES ASSUME IdsHeld, "exhausted" \notin past'
               PROVE  /\ \A a, b \in AreOn' : mirrors'[a].id = mirrors'[b].id => a = b
                      /\ {mirrors'[a].id : a \in AreOn'} \subseteq used'
    BY DEF IdsHeld
  <2>1. /\ \A a, b \in AreOn : mirrors[a].id = mirrors[b].id => a = b
        /\ \A a \in AreOn : mirrors[a].id \in used
    BY DEF IdsHeld
  <2>2. \A a \in AreOn' : a = v \/ (a \in AreOn /\ mirrors'[a] = mirrors[a])
    <3> TAKE a \in AreOn'
    <3>1. a \in VfIds /\ On(a)'
      BY DEF AreOn
    <3>2. QED
      BY <1>1, <3>1 DEF AreOn
  <2>3. \A a \in AreOn' : mirrors'[a].id \in used'
    BY <1>1, <1>2, <2>1, <2>2
  <2>4. \A a, b \in AreOn' : mirrors'[a].id = mirrors'[b].id => a = b
    BY <1>1, <1>2, <2>1, <2>2
  <2>5. QED
    BY <2>3, <2>4
<1>4. AimedIdsHeld /\ "exhausted" \notin past' => AimedIdsHeld'
  <2> SUFFICES ASSUME AimedIdsHeld, "exhausted" \notin past' PROVE AimedIdsHeld'
    OBVIOUS
  <2>1. \A a \in AreAimed' : a = v \/ (a \in AreAimed /\ mirrors'[a] = mirrors[a])
    <3> TAKE a \in AreAimed'
    <3>1. a \in VfIds /\ Aimed(a)'
      BY DEF AreAimed
    <3>2. QED
      BY <1>1, <3>1 DEF AreAimed
  <2>2. QED
    BY <1>1, <1>2, <2>1 DEF AimedIdsHeld
<1>5. QED
  BY <1>2, <1>3, <1>4

\* A mirror that keeps its id, or loses its target: ids stay held.
LEMMA OldMirrorIds ==
  ASSUME MirTypeOK, NEW v \in VfIds, NEW m \in MirrorRecords,
         mirrors' = [mirrors EXCEPT ![v] = m], m.id = mirrors[v].id,
         used' = used, past \subseteq past'
  PROVE  /\ IdsHeld /\ (m.dir # "off" => On(v)) => IdsHeld'
         /\ AimedIdsHeld /\ (m.target # NoTarget => Aimed(v)) => AimedIdsHeld'
<1>1. /\ mirrors'[v] = m /\ \A u \in VfIds \ {v} : mirrors'[u] = mirrors[u]
      /\ (On(v)' <=> m.dir # "off") /\ (Aimed(v)' <=> m.target # NoTarget)
      /\ \A u \in VfIds \ {v} : On(u)' = On(u) /\ Aimed(u)' = Aimed(u)
  BY MirrorWritten
<1>2. \A u \in VfIds : mirrors'[u].id = mirrors[u].id
  BY <1>1
<1>3. (m.dir # "off" => On(v)) => AreOn' \subseteq AreOn
  BY <1>1 DEF AreOn
<1>4. (m.target # NoTarget => Aimed(v)) => AreAimed' \subseteq AreAimed
  BY <1>1 DEF AreAimed
<1>5. AreOn \subseteq VfIds /\ AreAimed \subseteq VfIds
  BY DEF AreOn, AreAimed
<1>6. IdsHeld /\ (m.dir # "off" => On(v)) => IdsHeld'
  BY <1>2, <1>3, <1>5 DEF IdsHeld
<1>7. AimedIdsHeld /\ (m.target # NoTarget => Aimed(v)) => AimedIdsHeld'
  BY <1>2, <1>4, <1>5 DEF AimedIdsHeld
<1>8. QED
  BY <1>6, <1>7

\* The counted mirrors are finitely many.
LEMMA CountedFinite == IsFiniteSet(Counted) /\ Cardinality(Counted) \in Nat
<1>1. Counted \in SUBSET VfIds
  BY DEF Counted
<1>2. IsFiniteSet(Counted)
  BY <1>1, MirrorSizes, FS_Subset
<1>3. QED
  BY <1>2, FS_CardinalityType

\* vfd_add_vf without a mirror.
LEMMA AddPlainKeeps ==
  ASSUME MirInv, NEW v \in VfIds, AddPlain(v)
  PROVE  MirInv'
<1> DEFINE m == [mirrors[v] EXCEPT !.target = NoTarget, !.dir = "off"]
<1>1. /\ MirTypeOK /\ OnHasTarget /\ PassHolds /\ IdsHeld
      /\ Apart /\ RulesFollow /\ CountFollows
  BY DEF MirInv
<1>2. /\ pc["main"] = "idle" /\ flag[v] = "none" /\ lock = "free" /\ lock' = lock
      /\ pc' = [pc EXCEPT !["main"] = "update"]
      /\ flag' = [flag EXCEPT ![v] = "added"]
      /\ mirrors' = [mirrors EXCEPT ![v] = m]
      /\ used' = used /\ numMirrors' = numMirrors /\ past' = past
      /\ rules' = rules /\ refused' = refused /\ vf' = vf /\ args' = args
  BY DEF AddPlain, NewRequest, Goto, idVars
<1>3. mirrors[v] \in MirrorRecords
  BY <1>1 DEF MirTypeOK
<1>4. /\ m \in MirrorRecords /\ m.dir = "off" /\ m.target = NoTarget
      /\ m.id = mirrors[v].id
  BY <1>3 DEF MirrorRecords
<1> HIDE DEF m
<1>5. /\ mirrors' \in [VfIds -> MirrorRecords]
      /\ mirrors'[v] = m /\ \A u \in VfIds \ {v} : mirrors'[u] = mirrors[u]
      /\ ~On(v)' /\ ~Aimed(v)'
      /\ \A u \in VfIds \ {v} : On(u)' = On(u) /\ Aimed(u)' = Aimed(u)
  BY <1>1, <1>2, <1>4, MirrorWritten
<1>6. /\ pc'["main"] = "update" /\ pc'["restorer"] = pc["restorer"]
      /\ flag'[v] = "added" /\ \A u \in VfIds \ {v} : flag'[u] = flag[u]
  BY <1>1, <1>2 DEF MirTypeOK, Threads
<1>7. Quiet' = Quiet
  BY <1>2, <1>6 DEF Quiet
<1>8. \A t \in Threads : pc[t] \notin {"pass", "program"} /\ pc'[t] \notin {"pass", "program"}
  BY <1>1, <1>2, <1>6 DEF PassHolds, Threads
<1>9. \A u \in VfIds : ~Calling(u) /\ ~Calling(u)'
  BY <1>2, <1>6 DEF Calling
<1>10. MirTypeOK'
  <2>1. flag' \in [VfIds -> Flags] /\ pc' \in [Threads -> Labels]
    BY <1>1, <1>2 DEF MirTypeOK, Flags, Labels
  <2>2. QED
    BY <1>1, <1>2, <1>5, <2>1 DEF MirTypeOK
<1>11. OnHasTarget' /\ PassHolds'
  BY <1>1, <1>2, <1>4, <1>5, <1>8 DEF OnHasTarget, PassHolds
<1>12. IdsHeld' /\ (AimedIdsHeld => AimedIdsHeld')
  BY <1>1, <1>2, <1>4, OldMirrorIds
<1>13. Apart'
  <2>1. \E t \in Threads : pc'[t] \in {"update", "pass", "program"}
    BY <1>6 DEF Threads
  <2>2. QED
    BY <1>1, <1>5, <1>6, <1>7, <1>8, <1>9, <2>1 DEF Apart
<1>14. RulesFollow'
  <2> SUFFICES ASSUME Quiet, "exhausted" \notin past PROVE RulesFollow'
    BY <1>2, <1>7 DEF RulesFollow
  <2>1. ~Aimed(v)
    BY <1>1, <1>2 DEF Apart
  <2>2. AreAimed' = AreAimed /\ \A u \in AreAimed : u # v /\ u \in VfIds
    BY <1>5, <2>1 DEF AreAimed
  <2>3. \A u \in AreAimed : RuleDue(u)' = RuleDue(u) /\ mirrors'[u] = mirrors[u]
    BY <1>5, <1>6, <2>2 DEF RuleDue
  <2>4. QED
    BY <1>1, <1>2, <1>9, <1>12, <2>2, <2>3 DEF RulesFollow
<1>15. CountFollows'
  <2> SUFFICES ASSUME Quiet, "reset" \notin past PROVE CountFollows'
    BY <1>2, <1>7 DEF CountFollows
  <2>1. ~On(v)
    BY <1>1, <1>2 DEF Apart, OnHasTarget, On, Aimed
  <2>2. Counted' = Counted
    BY <1>5, <1>6, <2>1 DEF Counted
  <2>3. QED
    BY <1>1, <1>2, <1>8, <2>2 DEF CountFollows
<1>16. QED
  BY <1>10, <1>11, <1>12, <1>13, <1>14, <1>15 DEF MirInv

\* vfd_add_vf with a mirror.
LEMMA AddMirroredKeeps ==
  ASSUME MirInv, NEW v \in VfIds, NEW d \in Dirs, NEW w \in Targets, AddMirrored(v, d, w)
  PROVE  MirInv'
<1> DEFINE m == [target |-> w, dir |-> d, id |-> StoredId]
<1>1. /\ MirTypeOK /\ OnHasTarget /\ PassHolds /\ IdsHeld
      /\ Apart /\ RulesFollow /\ CountFollows
  BY DEF MirInv
<1>2. /\ pc["main"] = "idle" /\ flag[v] = "none" /\ lock = "free" /\ lock' = lock
      /\ pc' = [pc EXCEPT !["main"] = "update"]
      /\ flag' = [flag EXCEPT ![v] = "added"]
      /\ mirrors' = [mirrors EXCEPT ![v] = m]
      /\ Alloc /\ numMirrors' = numMirrors /\ past' = past \cup Exhausted
      /\ rules' = rules /\ refused' = refused /\ vf' = vf /\ args' = args
  BY DEF AddMirrored, NewRequest, Goto
<1>3. /\ m \in MirrorRecords /\ m.dir # "off" /\ m.target # NoTarget /\ m.id = StoredId
  <2>1. StoredId \in Ids /\ d # "off" /\ w # NoTarget
    BY <1>2, AllocMarks, MirrorSizes DEF NoTarget
  <2>2. QED
    BY <2>1 DEF MirrorRecords
<1> HIDE DEF m
<1>4. /\ mirrors' \in [VfIds -> MirrorRecords]
      /\ mirrors'[v] = m /\ \A u \in VfIds \ {v} : mirrors'[u] = mirrors[u]
      /\ On(v)' /\ Aimed(v)'
      /\ \A u \in VfIds \ {v} : On(u)' = On(u) /\ Aimed(u)' = Aimed(u)
  BY <1>1, <1>2, <1>3, MirrorWritten
<1>5. /\ pc'["main"] = "update" /\ pc'["restorer"] = pc["restorer"]
      /\ flag'[v] = "added" /\ \A u \in VfIds \ {v} : flag'[u] = flag[u]
  BY <1>1, <1>2 DEF MirTypeOK, Threads
<1>6. /\ Quiet' = Quiet /\ ("reset" \in past' <=> "reset" \in past) /\ past \subseteq past'
      /\ Exhausted \subseteq past'
  BY <1>2, <1>5, AllocMarks DEF Quiet
<1>7. \A t \in Threads : pc[t] \notin {"pass", "program"} /\ pc'[t] \notin {"pass", "program"}
  BY <1>1, <1>2, <1>5 DEF PassHolds, Threads
<1>8. \A u \in VfIds : ~Calling(u) /\ ~Calling(u)'
  BY <1>2, <1>5 DEF Calling
<1>9. MirTypeOK'
  <2>1. flag' \in [VfIds -> Flags] /\ pc' \in [Threads -> Labels]
    BY <1>1, <1>2 DEF MirTypeOK, Flags, Labels
  <2>2. QED
    BY <1>1, <1>2, <1>4, <2>1 DEF MirTypeOK
<1>10. OnHasTarget' /\ PassHolds'
  BY <1>1, <1>2, <1>3, <1>4, <1>7 DEF OnHasTarget, PassHolds
<1>11. IdsHeld' /\ (AimedIdsHeld /\ "exhausted" \notin past' => AimedIdsHeld' /\ m.id \notin used)
  BY <1>1, <1>2, <1>3, <1>6, NewMirrorIds
<1>12. Apart'
  <2>1. \E t \in Threads : pc'[t] \in {"update", "pass", "program"}
    BY <1>5 DEF Threads
  <2>2. QED
    BY <1>1, <1>4, <1>5, <1>6, <1>7, <1>8, <2>1 DEF Apart
<1>13. RulesFollow'
  <2> SUFFICES ASSUME Quiet, "exhausted" \notin past' PROVE RulesFollow'
    BY <1>6 DEF RulesFollow
  <2>1. /\ AimedIdsHeld
        /\ \A u \in AreAimed : mirrors[u].id \notin refused => rules[mirrors[u].id] = RuleDue(u)
        /\ \A i \in Ids \ refused : rules[i] # NoRule => \E u \in AreAimed : mirrors[u].id = i
    BY <1>1, <1>6, <1>8 DEF RulesFollow, AreAimed
  <2>2. ~Aimed(v)
    BY <1>1, <1>2 DEF Apart
  <2>3. AreAimed' = AreAimed \cup {v} /\ \A u \in AreAimed : u # v /\ u \in VfIds
    BY <1>4, <2>2 DEF AreAimed
  <2>4. \A u \in AreAimed : RuleDue(u)' = RuleDue(u) /\ mirrors'[u] = mirrors[u]
    BY <1>4, <1>5, <2>3 DEF RuleDue
  <2>5. m.id \notin refused => rules[m.id] = NoRule
    <3>1. m.id \in Ids /\ m.id \notin used
      BY <1>3, <1>11, <2>1 DEF MirrorRecords
    <3>2. QED
      BY <2>1, <3>1 DEF AimedIdsHeld
  <2>6. RuleDue(v)' = NoRule
    BY <1>5 DEF RuleDue
  <2>7. \A u \in AreAimed' : mirrors'[u].id \notin refused' => rules'[mirrors'[u].id] = RuleDue(u)'
    BY <1>2, <1>4, <2>1, <2>3, <2>4, <2>5, <2>6
  <2>8. \A i \in Ids \ refused' : rules'[i] # NoRule => \E u \in AreAimed' : mirrors'[u].id = i
    BY <1>2, <2>1, <2>3, <2>4
  <2>9. QED
    BY <1>11, <2>1, <2>7, <2>8 DEF RulesFollow
<1>14. CountFollows'
  <2> SUFFICES ASSUME Quiet, "reset" \notin past PROVE CountFollows'
    BY <1>6 DEF CountFollows
  <2>1. ~On(v)
    BY <1>1, <1>2 DEF Apart, OnHasTarget, On, Aimed
  <2>2. Counted' = Counted
    BY <1>4, <1>5, <2>1 DEF Counted
  <2>3. QED
    BY <1>1, <1>2, <1>7, <2>2 DEF CountFollows
<1>15. QED
  BY <1>9, <1>10, <1>11, <1>12, <1>13, <1>14 DEF MirInv

\* vfd_update_mirror for a direction, up to the call of the NIC.
LEMMA TurnOnKeeps ==
  ASSUME MirInv, NEW v \in VfIds, NEW d \in Dirs, NEW w \in Targets, TurnOn(v, d, w)
  PROVE  MirInv'
<1> DEFINE m == IF On(v) THEN [mirrors[v] EXCEPT !.target = w, !.dir = d]
                ELSE [target |-> w, dir |-> d, id |-> StoredId]
<1>1. /\ MirTypeOK /\ OnHasTarget /\ PassHolds /\ IdsHeld
      /\ Apart /\ RulesFollow /\ CountFollows
  BY DEF MirInv
<1>2. /\ pc["main"] = "idle" /\ flag[v] # "none" /\ lock' = lock
      /\ pc' = [pc EXCEPT !["main"] = "call"]
      /\ flag' = flag /\ rules' = rules /\ refused' = refused
      /\ mirrors' = [mirrors EXCEPT ![v] = m]
      /\ args' = [args EXCEPT !["main"] = mirrors'[v]]
      /\ vf' = [vf EXCEPT !["main"] = v]
  BY DEF TurnOn, NewRequest, Goto
<1>3. /\ past \subseteq past' /\ Racing \subseteq past'
      /\ past' \subseteq past \cup {"race", "exhausted"}
  BY AllocMarks DEF TurnOn, Racing
<1>4. On(v) => used' = used /\ numMirrors' = numMirrors /\ past' = past \cup Racing
  BY DEF TurnOn, idVars
<1>5. ~On(v) => Alloc /\ numMirrors' = numMirrors + 1 /\ Exhausted \subseteq past'
  BY DEF TurnOn
<1>6. mirrors[v] \in MirrorRecords /\ d # "off" /\ w # NoTarget
  BY <1>1, MirrorSizes DEF MirTypeOK, NoTarget
<1>7. /\ m \in MirrorRecords /\ m.dir # "off" /\ m.target # NoTarget
      /\ On(v) => m.id = mirrors[v].id
      /\ ~On(v) => m.id = StoredId
  <2>1. CASE On(v)
    BY <1>6, <2>1 DEF MirrorRecords
  <2>2. CASE ~On(v)
    BY <1>5, <1>6, <2>2, AllocMarks DEF MirrorRecords
  <2>3. QED
    BY <2>1, <2>2
<1> HIDE DEF m
<1>8. /\ mirrors' \in [VfIds -> MirrorRecords]
      /\ mirrors'[v] = m /\ \A u \in VfIds \ {v} : mirrors'[u] = mirrors[u]
      /\ On(v)' /\ Aimed(v)'
      /\ \A u \in VfIds \ {v} : On(u)' = On(u) /\ Aimed(u)' = Aimed(u)
  BY <1>1, <1>2, <1>7, MirrorWritten
<1>9. /\ pc'["main"] = "call" /\ pc'["restorer"] = pc["restorer"]
      /\ args'["main"] = m /\ args'["restorer"] = args["restorer"]
      /\ vf'["main"] = v /\ vf'["restorer"] = vf["restorer"]
  BY <1>1, <1>2, <1>8 DEF MirTypeOK, Threads
<1>10. /\ Quiet' => Quiet /\ pc["restorer"] = "idle"
       /\ "reset" \in past' <=> "reset" \in past
  <2>1. "reset" \in past' <=> "reset" \in past
    BY <1>3
  <2>2. Quiet' => Quiet
    BY <1>2, <1>3, <1>9 DEF Quiet
  <2>3. pc["restorer"] # "idle" => "race" \in past'
    BY <1>3 DEF Racing
  <2>4. QED
    BY <2>1, <2>2, <2>3 DEF Quiet
<1>11. \A u \in VfIds : ~Calling(u) /\ (Calling(u)' <=> u = v)
  BY <1>2, <1>9 DEF Calling
\* Both threads were idle, so that no VF is flagged.
<1>12. Quiet' => (\A u \in VfIds : ~Pending(u)) /\ flag[v] = "unchanged"
  <2>1. Quiet' => \A u \in VfIds : ~Pending(u)
    BY <1>1, <1>2, <1>10 DEF Apart, Threads
  <2>2. QED
    BY <1>1, <1>2, <2>1 DEF Pending, MirTypeOK, Flags
<1>13. MirTypeOK'
  <2>1. /\ pc' \in [Threads -> Labels] /\ vf' \in [Threads -> VfIds]
        /\ args' \in [Threads -> MirrorRecords]
    BY <1>1, <1>2, <1>7, <1>8 DEF MirTypeOK, Labels
  <2>2. numMirrors' \in Nat
    BY <1>1, <1>4, <1>5 DEF MirTypeOK
  <2>3. QED
    BY <1>1, <1>2, <1>8, <2>1, <2>2 DEF MirTypeOK
<1>14. OnHasTarget' /\ PassHolds'
  BY <1>1, <1>2, <1>7, <1>8, <1>9 DEF OnHasTarget, PassHolds, Threads
<1>15. IdsHeld' /\ (AimedIdsHeld /\ "exhausted" \notin past' => AimedIdsHeld')
  <2>1. CASE On(v)
    <3>1. Aimed(v)
      BY <1>1, <2>1 DEF OnHasTarget, On, Aimed
    <3>2. QED
      BY <1>1, <1>2, <1>3, <1>4, <1>7, <2>1, <3>1, OldMirrorIds
  <2>2. CASE ~On(v)
    BY <1>1, <1>2, <1>3, <1>5, <1>7, <2>2, NewMirrorIds
  <2>3. QED
    BY <2>1, <2>2
<1>16. Apart'
  <2> SUFFICES ASSUME Quiet' PROVE Apart'
    BY DEF Apart
  <2>1. \A u \in VfIds : ~Pending(u)'
    BY <1>2, <1>12 DEF Pending
  <2>2. \A t \in Threads : pc'[t] # "program"
    BY <1>9, <1>10 DEF Threads
  <2>3. QED
    BY <1>1, <1>2, <1>8, <1>9, <1>10, <1>11, <1>12, <2>1, <2>2 DEF Apart
<1>17. RulesFollow'
  <2> SUFFICES ASSUME Quiet', "exhausted" \notin past' PROVE RulesFollow'
    BY DEF RulesFollow
  <2>1. /\ AimedIdsHeld
        /\ \A u \in AreAimed : mirrors[u].id \notin refused => rules[mirrors[u].id] = RuleDue(u)
        /\ \A i \in Ids \ refused : rules[i] # NoRule => \E u \in AreAimed : mirrors[u].id = i
    BY <1>1, <1>3, <1>10, <1>11 DEF RulesFollow, AreAimed
  <2>2. AreAimed' = AreAimed \cup {v}
    BY <1>8 DEF AreAimed
  <2>3. \A u \in AreAimed' \ {v} :
          u \in AreAimed /\ RuleDue(u)' = RuleDue(u) /\ mirrors'[u] = mirrors[u]
    BY <1>2, <1>8, <2>2 DEF RuleDue, AreAimed
  <2>4. \A u \in AreAimed' : ~Calling(u)' /\ mirrors'[u].id \notin refused' =>
          rules'[mirrors'[u].id] = RuleDue(u)'
    <3> TAKE u \in AreAimed'
    <3>1. u \in VfIds
      BY DEF AreAimed
    <3>2. QED
      BY <1>2, <1>11, <2>1, <2>3, <3>1
  <2>5. ASSUME NEW i \in Ids \ refused', rules'[i] # NoRule
        PROVE  \E u \in AreAimed' : mirrors'[u].id = i
    <3>1. PICK u \in AreAimed : mirrors[u].id = i
      BY <1>2, <2>1, <2>5
    <3>2. u = v => On(v)
      BY <1>1, <1>10, <1>11, <3>1 DEF Apart, AreAimed
    <3>3. mirrors'[u].id = i
      BY <1>7, <1>8, <2>2, <2>3, <3>1, <3>2
    <3>4. QED
      BY <2>2, <3>1, <3>3
  <2>6. QED
    BY <1>15, <2>1, <2>4, <2>5 DEF RulesFollow
<1>18. CountFollows'
  <2> SUFFICES ASSUME Quiet', "reset" \notin past' PROVE CountFollows'
    BY DEF CountFollows
  <2>1. Counted' = Counted \cup {v}
    BY <1>2, <1>8, <1>12 DEF Counted
  <2>2. v \in Counted <=> On(v)
    BY <1>12 DEF Counted
  <2>3. Cardinality(Counted \cup {v}) = IF On(v) THEN Cardinality(Counted) ELSE Cardinality(Counted) + 1
    BY <2>2, CountedFinite, FS_AddElement
  <2>4. numMirrors' = Cardinality(Counted')
    BY <1>1, <1>4, <1>5, <1>10, <2>1, <2>3 DEF CountFollows
  <2>5. \A t \in Threads : pc'[t] # "program"
    BY <1>9, <1>10 DEF Threads
  <2>6. QED
    BY <2>4, <2>5 DEF CountFollows
<1>19. QED
  BY <1>13, <1>14, <1>15, <1>16, <1>17, <1>18 DEF MirInv

\* vfd_update_mirror for off, up to the call of the NIC.
LEMMA TurnOffKeeps ==
  ASSUME MirInv, NEW v \in VfIds, TurnOff(v)
  PROVE  MirInv'
<1> DEFINE m == Off(mirrors[v])
<1>1. /\ MirTypeOK /\ OnHasTarget /\ PassHolds /\ IdsHeld
      /\ Apart /\ RulesFollow /\ CountFollows
  BY DEF MirInv
<1>2. /\ pc["main"] = "idle" /\ flag[v] # "none" /\ lock' = lock
      /\ pc' = [pc EXCEPT !["main"] = "call"]
      /\ flag' = flag /\ rules' = rules /\ refused' = refused /\ used' = used
      /\ numMirrors' = CountDown(v)
      /\ mirrors' = [mirrors EXCEPT ![v] = m]
      /\ args' = [args EXCEPT !["main"] = mirrors'[v]]
      /\ vf' = [vf EXCEPT !["main"] = v]
      /\ past' = past \cup Racing
  BY DEF TurnOff, NewRequest, Goto, idVars
<1>3. mirrors[v] \in MirrorRecords
  BY <1>1 DEF MirTypeOK
<1>4. /\ m \in MirrorRecords /\ m.dir = "off" /\ m.target = mirrors[v].target
      /\ m.id = mirrors[v].id
  BY <1>3 DEF MirrorRecords, Off
<1> HIDE DEF m
<1>5. /\ mirrors' \in [VfIds -> MirrorRecords]
      /\ mirrors'[v] = m /\ \A u \in VfIds \ {v} : mirrors'[u] = mirrors[u]
      /\ ~On(v)' /\ Aimed(v)' = Aimed(v)
      /\ \A u \in VfIds \ {v} : On(u)' = On(u) /\ Aimed(u)' = Aimed(u)
  <2>1. /\ mirrors' \in [VfIds -> MirrorRecords]
        /\ mirrors'[v] = m /\ \A u \in VfIds \ {v} : mirrors'[u] = mirrors[u]
        /\ ~On(v)' /\ (Aimed(v)' <=> m.target # NoTarget)
        /\ \A u \in VfIds \ {v} : On(u)' = On(u) /\ Aimed(u)' = Aimed(u)
    BY <1>1, <1>2, <1>4, MirrorWritten
  <2>2. QED
    BY <1>4, <2>1 DEF Aimed
<1>6. /\ pc'["main"] = "call" /\ pc'["restorer"] = pc["restorer"]
      /\ args'["main"] = m /\ args'["restorer"] = args["restorer"]
      /\ vf'["main"] = v /\ vf'["restorer"] = vf["restorer"]
  BY <1>1, <1>2, <1>5 DEF MirTypeOK, Threads
<1>7. /\ Quiet' => Quiet /\ pc["restorer"] = "idle"
      /\ "reset" \in past' <=> "reset" \in past
      /\ "exhausted" \in past' <=> "exhausted" \in past
      /\ past \subseteq past'
  BY <1>2, <1>6 DEF Quiet, Racing
<1>8. \A u \in VfIds : ~Calling(u) /\ (Calling(u)' <=> u = v)
  BY <1>2, <1>6 DEF Calling
<1>9. Quiet' => (\A u \in VfIds : ~Pending(u)) /\ flag[v] = "unchanged"
  <2>1. Quiet' => \A u \in VfIds : ~Pending(u)
    BY <1>1, <1>2, <1>7 DEF Apart, Threads
  <2>2. QED
    BY <1>1, <1>2, <2>1 DEF Pending, MirTypeOK, Flags
<1>10. MirTypeOK'
  <2>1. /\ pc' \in [Threads -> Labels] /\ vf' \in [Threads -> VfIds]
        /\ args' \in [Threads -> MirrorRecords]
    BY <1>1, <1>2, <1>4, <1>5 DEF MirTypeOK, Labels
  <2>2. numMirrors' \in Nat
    BY <1>1, <1>2 DEF MirTypeOK, CountDown
  <2>3. QED
    BY <1>1, <1>2, <1>5, <2>1, <2>2 DEF MirTypeOK
<1>11. OnHasTarget' /\ PassHolds'
  BY <1>1, <1>2, <1>4, <1>5, <1>6 DEF OnHasTarget, PassHolds, Threads
<1>12. IdsHeld' /\ (AimedIdsHeld => AimedIdsHeld')
  BY <1>1, <1>2, <1>4, <1>7, OldMirrorIds DEF Aimed
<1>13. Apart'
  <2> SUFFICES ASSUME Quiet' PROVE Apart'
    BY DEF Apart
  <2>1. \A u \in VfIds : ~Pending(u)'
    BY <1>2, <1>9 DEF Pending
  <2>2. \A t \in Threads : pc'[t] # "program"
    BY <1>6, <1>7 DEF Threads
  <2>3. QED
    BY <1>1, <1>2, <1>5, <1>6, <1>7, <1>8, <1>9, <2>1, <2>2 DEF Apart
<1>14. RulesFollow'
  <2> SUFFICES ASSUME Quiet', "exhausted" \notin past' PROVE RulesFollow'
    BY DEF RulesFollow
  <2>1. /\ AimedIdsHeld
        /\ \A u \in AreAimed : mirrors[u].id \notin refused => rules[mirrors[u].id] = RuleDue(u)
        /\ \A i \in Ids \ refused : rules[i] # NoRule => \E u \in AreAimed : mirrors[u].id = i
    BY <1>1, <1>7, <1>8 DEF RulesFollow, AreAimed
  <2>2. AreAimed' = AreAimed
    BY <1>5 DEF AreAimed
  <2>3. \A u \in AreAimed \ {v} : RuleDue(u)' = RuleDue(u) /\ mirrors'[u] = mirrors[u]
    BY <1>2, <1>5 DEF RuleDue, AreAimed
  <2>4. \A u \in AreAimed : ~Calling(u)' /\ mirrors'[u].id \notin refused' =>
          rules'[mirrors'[u].id] = RuleDue(u)'
    BY <1>2, <1>8, <2>1, <2>3 DEF AreAimed
  <2>5. \A u \in AreAimed : mirrors'[u].id = mirrors[u].id
    BY <1>4, <1>5, <2>3
  <2>6. QED
    BY <1>2, <1>12, <2>1, <2>2, <2>4, <2>5 DEF RulesFollow
<1>15. CountFollows'
  <2> SUFFICES ASSUME Quiet', "reset" \notin past' PROVE CountFollows'
    BY DEF CountFollows
  <2>1. Counted' = Counted \ {v}
    BY <1>2, <1>5 DEF Counted
  <2>2. v \in Counted <=> On(v)
    BY <1>9 DEF Counted
  <2>3. Cardinality(Counted \ {v}) = IF On(v) THEN Cardinality(Counted) - 1 ELSE Cardinality(Counted)
    BY <2>2, CountedFinite, FS_RemoveElement
  <2>4. On(v) => Cardinality(Counted) > 0
    BY <2>2, CountedFinite, FS_EmptySet
  <2>5. numMirrors' = Cardinality(Counted')
    BY <1>1, <1>2, <1>7, <2>1, <2>3, <2>4, CountedFinite DEF CountFollows, CountDown
  <2>6. \A t \in Threads : pc'[t] # "program"
    BY <1>6, <1>7 DEF Threads
  <2>7. QED
    BY <2>5, <2>6 DEF CountFollows
<1>16. QED
  BY <1>10, <1>11, <1>12, <1>13, <1>14, <1>15 DEF MirInv

(***************************************************************************)
(* Calls of the NIC.                                                       *)
(***************************************************************************)

\* What set_mirror makes of the rules: nothing changes but the rule of its id, which
\* is as asked for unless the NIC has refused it.
LEMMA RuleSet ==
  ASSUME MirTypeOK, NEW v \in VfIds, NEW m \in MirrorRecords, SetMirror(v, m),
         m.dir # "off" => m.target # NoTarget
  PROVE  /\ rules' \in [Ids -> {NoRule} \cup VfIds \X Targets \X Dirs]
         /\ \A i \in Ids \ {m.id} : rules'[i] = rules[i] /\ (i \in refused' <=> i \in refused)
         /\ m.target # NoTarget /\ m.id \notin refused' =>
              rules'[m.id] = IF m.dir = "off" THEN NoRule ELSE <<v, m.target, m.dir>>
         /\ m.target = NoTarget => rules' = rules /\ refused' = refused
<1>1. m.id \in Ids /\ m.target \in Targets \cup {NoTarget} /\ m.dir \in Dirs \cup {"off"}
  BY DEF MirrorRecords
<1>2. rules \in [Ids -> {NoRule} \cup VfIds \X Targets \X Dirs]
  BY DEF MirTypeOK
<1>3. CASE m.target = NoTarget
  BY <1>2, <1>3 DEF SetMirror
<1>4. CASE m.target # NoTarget
  <2> DEFINE r == IF m.dir = "off" THEN NoRule ELSE <<v, m.target, m.dir>>
  <2>1. r \in {NoRule} \cup VfIds \X Targets \X Dirs
    BY <1>1, <1>4
  <2>2. \/ rules' = [rules EXCEPT ![m.id] = r] /\ refused' = refused \ {m.id}
        \/ /\ \E rule \in RuleLeft(m) : rules' = [rules EXCEPT ![m.id] = rule]
           /\ refused' = refused \cup {m.id}
    BY <1>4 DEF SetMirror, SetRule
  <2> HIDE DEF r
  <2>3. RuleLeft(m) \subseteq {NoRule} \cup VfIds \X Targets \X Dirs
    BY <1>1, <1>2 DEF RuleLeft
  <2>4. PICK q \in {NoRule} \cup VfIds \X Targets \X Dirs :
          /\ rules' = [rules EXCEPT ![m.id] = q]
          /\ m.id \notin refused' => q = r
    BY <2>1, <2>2, <2>3
  <2>5. /\ rules' \in [Ids -> {NoRule} \cup VfIds \X Targets \X Dirs]
        /\ rules'[m.id] = q /\ \A i \in Ids \ {m.id} : rules'[i] = rules[i]
    BY <1>1, <1>2, <2>4
  <2>6. \A i \in Ids \ {m.id} : i \in refused' <=> i \in refused
    BY <2>2
  <2>7. QED
    BY <1>4, <2>4, <2>5, <2>6 DEF r
<1>5. QED
  BY <1>3, <1>4

\* The call of vfd_update_mirror.
LEMMA CallNicKeeps ==
  ASSUME MirInv, CallNic
  PROVE  MirInv'
<1>0. PICK v \in VfIds : v = vf["main"]
  BY DEF MirInv, MirTypeOK, Threads
<1> DEFINE a == args["main"]
           m == IF a.dir # "off" THEN mirrors[v] ELSE [mirrors[v] EXCEPT !.target = NoTarget]
<1>1. /\ MirTypeOK /\ OnHasTarget /\ PassHolds /\ IdsHeld
      /\ Apart /\ RulesFollow /\ CountFollows
  BY DEF MirInv
<1>2. a \in MirrorRecords /\ mirrors[v] \in MirrorRecords
  BY <1>1 DEF MirTypeOK, Threads
<1>3. /\ pc["main"] = "call" /\ lock' = lock
      /\ SetMirror(v, a)
      /\ pc' = [pc EXCEPT !["main"] = "idle"]
      /\ args' = [args EXCEPT !["main"] = Zeroes]
      /\ used' = used /\ flag' = flag /\ numMirrors' = numMirrors
      /\ vf' = vf /\ past' = past
  BY <1>0 DEF CallNic, Goto, idVars
<1>4. mirrors' = [mirrors EXCEPT ![v] = m]
  BY <1>0, <1>1, <1>2 DEF CallNic, MirTypeOK
<1>5. /\ m \in MirrorRecords /\ m.id = mirrors[v].id /\ m.dir = mirrors[v].dir
      /\ m.target = IF a.dir # "off" THEN mirrors[v].target ELSE NoTarget
  BY <1>2 DEF MirrorRecords
<1>6. a.dir # "off" => a.target # NoTarget
  BY <1>1 DEF OnHasTarget, Threads
<1>7. /\ rules' \in [Ids -> {NoRule} \cup VfIds \X Targets \X Dirs]
      /\ \A i \in Ids \ {a.id} : rules'[i] = rules[i] /\ (i \in refused' <=> i \in refused)
      /\ a.target # NoTarget /\ a.id \notin refused' =>
           rules'[a.id] = IF a.dir = "off" THEN NoRule ELSE <<v, a.target, a.dir>>
      /\ a.target = NoTarget => rules' = rules /\ refused' = refused
  BY <1>1, <1>2, <1>3, <1>6, RuleSet
<1> HIDE DEF m, a
<1>8. /\ mirrors' \in [VfIds -> MirrorRecords]
      /\ mirrors'[v] = m /\ \A u \in VfIds \ {v} : mirrors'[u] = mirrors[u]
      /\ (On(v)' <=> m.dir # "off") /\ (Aimed(v)' <=> m.target # NoTarget)
      /\ \A u \in VfIds \ {v} : On(u)' = On(u) /\ Aimed(u)' = Aimed(u)
  BY <1>1, <1>2, <1>4, <1>5, MirrorWritten
<1>9. \A u \in VfIds : On(u)' = On(u)
  BY <1>5, <1>8 DEF On
<1>10. /\ pc'["main"] = "idle" /\ pc'["restorer"] = pc["restorer"]
       /\ args'["main"] = Zeroes /\ args'["restorer"] = args["restorer"]
  BY <1>1, <1>3 DEF MirTypeOK, Threads
<1>11. Quiet' = Quiet
  BY <1>3, <1>10 DEF Quiet
<1>12. /\ \A u \in VfIds : ~Calling(u)' /\ (Calling(u) <=> u = v)
       /\ \A u \in VfIds : Pending(u)' = Pending(u)
  BY <1>0, <1>3, <1>10 DEF Calling, Pending
<1>13. Zeroes \in MirrorRecords /\ Zeroes.dir = "off"
  BY MirrorSizes DEF Zeroes, MirrorRecords, Ids
\* What main has read is still there, and its target stays only with a direction.
<1>14. Quiet => /\ pc["restorer"] = "idle" /\ a = mirrors[v] /\ flag[v] = "unchanged"
                /\ m.target # NoTarget <=> m.dir # "off"
  <2>1. Quiet => pc["restorer"] = "idle" /\ a = mirrors[v] /\ flag[v] = "unchanged"
    BY <1>0, <1>1, <1>3 DEF Apart, a
  <2>2. QED
    BY <1>5, <1>6, <2>1
<1>15. MirTypeOK'
  <2>1. pc' \in [Threads -> Labels] /\ args' \in [Threads -> MirrorRecords]
    BY <1>1, <1>3, <1>13 DEF MirTypeOK, Labels
  <2>2. QED
    BY <1>1, <1>3, <1>7, <1>8, <2>1 DEF MirTypeOK
<1>16. PassHolds'
  BY <1>1, <1>3, <1>10 DEF PassHolds, Threads
<1>17. OnHasTarget'
  <2>1. \A t \in Threads : args'[t].dir # "off" => args'[t].target # NoTarget
    BY <1>1, <1>10, <1>13 DEF OnHasTarget, Threads
  \* A direction that main is about to switch off cannot have come back.
  <2>2. mirrors'[v].dir # "off" => mirrors'[v].target # NoTarget
    BY <1>0, <1>1, <1>3, <1>5, <1>8 DEF OnHasTarget, a
  <2>3. QED
    BY <1>1, <1>8, <1>10, <2>1, <2>2 DEF OnHasTarget
<1>18. IdsHeld' /\ (AimedIdsHeld => AimedIdsHeld')
  <2>1. (m.dir # "off" => On(v)) /\ (m.target # NoTarget => Aimed(v))
    BY <1>5 DEF On, Aimed
  <2>2. QED
    BY <1>1, <1>2, <1>3, <1>4, <1>5, <2>1, OldMirrorIds
<1>19. Apart'
  <2> SUFFICES ASSUME Quiet PROVE Apart'
    BY <1>11 DEF Apart
  <2>1. \A u \in VfIds : Aimed(u)' => On(u)'
    BY <1>1, <1>8, <1>12, <1>14 DEF Apart
  <2>2. \A u \in VfIds : flag'[u] = "none" => ~Aimed(u)'
    BY <1>1, <1>3, <1>8, <1>14 DEF Apart
  <2>3. \A t \in Threads : pc'[t] = "idle" /\ (pc[t] = "call" \/ pc[t] = "idle")
    BY <1>3, <1>10, <1>14 DEF Threads
  <2>4. \A u \in VfIds : ~Pending(u)'
    BY <1>1, <1>12, <2>3 DEF Apart
  <2>5. QED
    BY <1>10, <2>1, <2>2, <2>3, <2>4 DEF Apart
<1>20. RulesFollow'
  <2> SUFFICES ASSUME Quiet, "exhausted" \notin past PROVE RulesFollow'
    BY <1>3, <1>11 DEF RulesFollow
  <2>1. /\ AimedIdsHeld
        /\ \A u \in AreAimed \ {v} : mirrors[u].id \notin refused => rules[mirrors[u].id] = RuleDue(u)
        /\ \A i \in Ids \ refused : rules[i] # NoRule => \E u \in AreAimed : mirrors[u].id = i
    BY <1>1, <1>12 DEF RulesFollow, AreAimed
  <2>2. a = mirrors[v] /\ a.id = m.id /\ a.id \in Ids
    BY <1>2, <1>5, <1>14 DEF MirrorRecords
  <2>3. \A u \in AreAimed' \ {v} :
          u \in VfIds /\ u \in AreAimed /\ RuleDue(u)' = RuleDue(u) /\ mirrors'[u] = mirrors[u]
    BY <1>3, <1>8 DEF RuleDue, AreAimed
  <2>4. \A u \in AreAimed \ {v} : u \in AreAimed' /\ mirrors'[u] = mirrors[u]
    BY <1>8 DEF AreAimed
  <2>5. \A u \in AreAimed \ {v} : Aimed(v) => mirrors[u].id # a.id
    BY <1>2, <2>1, <2>2 DEF AimedIdsHeld, AreAimed
  <2>6. ASSUME NEW u \in AreAimed', mirrors'[u].id \notin refused'
        PROVE  rules'[mirrors'[u].id] = RuleDue(u)'
    <3>1. CASE u = v
      <4>1. m.target # NoTarget
        BY <1>8, <3>1 DEF AreAimed
      <4>2. a.dir # "off" /\ a.target # NoTarget
        BY <1>5, <1>6, <4>1
      <4>3. m = mirrors[v]
        BY <4>2 DEF m
      <4>4. a.id \notin refused'
        BY <1>8, <2>2, <2>6, <3>1
      <4>5. QED
        BY <1>3, <1>7, <1>8, <1>14, <2>2, <3>1, <4>2, <4>3, <4>4 DEF RuleDue
    <3>2. CASE u # v
      <4>1. u \in AreAimed /\ RuleDue(u)' = RuleDue(u) /\ mirrors'[u] = mirrors[u] /\ u \in VfIds
        BY <2>3, <3>2
      <4>2. /\ rules'[mirrors[u].id] = rules[mirrors[u].id]
            /\ mirrors[u].id \notin refused
        <5>1. CASE a.target = NoTarget
          BY <1>7, <2>6, <4>1, <5>1
        <5>2. CASE a.target # NoTarget
          <6>1. Aimed(v)
            BY <2>2, <5>2 DEF Aimed
          <6>2. mirrors[u].id \in Ids \ {a.id}
            BY <1>1, <2>5, <3>2, <4>1, <6>1 DEF MirTypeOK, MirrorRecords
          <6>3. QED
            BY <1>7, <2>6, <4>1, <6>2
        <5>3. QED
          BY <5>1, <5>2
      <4>3. QED
        BY <2>1, <3>2, <4>1, <4>2
    <3>3. QED
      BY <3>1, <3>2
  <2>7. ASSUME NEW i \in Ids \ refused', rules'[i] # NoRule
        PROVE  \E u \in AreAimed' : mirrors'[u].id = i
    <3>1. CASE a.target # NoTarget /\ i = a.id
      <4>1. a.dir # "off"
        BY <1>7, <2>7, <3>1
      <4>2. v \in AreAimed' /\ mirrors'[v].id = i
        BY <1>2, <1>5, <1>8, <1>6, <2>2, <3>1, <4>1 DEF AreAimed
      <4>3. QED
        BY <4>2
    <3>2. CASE ~(a.target # NoTarget /\ i = a.id)
      <4>1. rules[i] # NoRule /\ i \notin refused
        BY <1>7, <2>7, <3>2
      <4>2. PICK u \in AreAimed : mirrors[u].id = i
        BY <2>1, <4>1
      <4>3. u # v
        BY <2>2, <3>2, <4>2 DEF AreAimed, Aimed
      <4>4. QED
        BY <2>4, <4>2, <4>3
    <3>3. QED
      BY <3>1, <3>2
  <2>8. QED
    BY <1>18, <2>1, <2>6, <2>7 DEF RulesFollow
<1>21. CountFollows'
  <2>1. Counted' = Counted
    BY <1>3, <1>9 DEF Counted
  <2>2. \A t \in Threads : pc'[t] = "program" => pc[t] = "program" /\ args'[t] = args[t]
    BY <1>10 DEF Threads
  <2>3. QED
    BY <1>1, <1>3, <1>11, <2>1, <2>2 DEF CountFollows
<1>22. QED
  BY <1>15, <1>16, <1>17, <1>18, <1>19, <1>20, <1>21 DEF MirInv

\* The pass turns off the mirror of a deleted VF and gives its id back.
LEMMA PassDeletedKeeps ==
  ASSUME MirInv, NEW t \in Threads, PassDeleted(t)
  PROVE  MirInv'
<1>1. /\ MirTypeOK /\ OnHasTarget /\ PassHolds /\ IdsHeld
      /\ Apart /\ RulesFollow /\ CountFollows
  BY DEF MirInv
<1>2. PICK v \in VfIds :
        /\ flag[v] = "deleted"
        /\ IF On(v)
           THEN /\ SetMirror(v, Off(mirrors[v]))
                /\ mirrors' = [mirrors EXCEPT ![v] = [Off(mirrors[v]) EXCEPT !.target = NoTarget]]
                /\ Return(mirrors[v].id)
           ELSE UNCHANGED <<mirrors, rules, refused, idVars>>
        /\ numMirrors' = CountDown(v)
        /\ flag' = [flag EXCEPT ![v] = "none"]
  BY <1>1 DEF PassDeleted, MirTypeOK
<1>3. /\ pc[t] = "pass" /\ lock' = lock /\ pc' = pc /\ vf' = vf /\ args' = args
      /\ past' = past
  BY DEF PassDeleted
<1> DEFINE off == Off(mirrors[v])
           m   == IF On(v) THEN [off EXCEPT !.target = NoTarget] ELSE mirrors[v]
<1>4. mirrors[v] \in MirrorRecords
  BY <1>1 DEF MirTypeOK
<1>5. /\ off \in MirrorRecords /\ off.dir = "off"
      /\ off.id = mirrors[v].id /\ off.target = mirrors[v].target
  BY <1>4 DEF MirrorRecords, Off
<1> HIDE DEF off
<1>6. /\ m \in MirrorRecords /\ m.id = mirrors[v].id /\ m.dir = "off"
      /\ On(v) => m.target = NoTarget
      /\ ~On(v) => m.target = mirrors[v].target
  <2>1. CASE On(v)
    BY <1>5, <2>1 DEF MirrorRecords
  <2>2. CASE ~On(v)
    BY <1>4, <2>2 DEF On
  <2>3. QED
    BY <2>1, <2>2
<1>7. mirrors' = [mirrors EXCEPT ![v] = m]
  BY <1>1, <1>2 DEF MirTypeOK, off
<1> HIDE DEF m
<1>8. /\ mirrors' \in [VfIds -> MirrorRecords]
      /\ mirrors'[v] = m /\ \A u \in VfIds \ {v} : mirrors'[u] = mirrors[u]
      /\ ~On(v)' /\ (Aimed(v)' <=> m.target # NoTarget)
      /\ \A u \in VfIds \ {v} : On(u)' = On(u) /\ Aimed(u)' = Aimed(u)
  BY <1>1, <1>6, <1>7, MirrorWritten
<1>9. used' \in {used, used \ {mirrors[v].id}} /\ (~On(v) => used' = used)
  BY <1>2 DEF Return, idVars
<1>10. /\ rules' \in [Ids -> {NoRule} \cup VfIds \X Targets \X Dirs]
       /\ On(v) => /\ mirrors[v].id \notin refused' => rules'[mirrors[v].id] = NoRule
                   /\ \A i \in Ids \ {mirrors[v].id} :
                        rules'[i] = rules[i] /\ (i \in refused' <=> i \in refused)
       /\ ~On(v) => rules' = rules /\ refused' = refused
  <2>1. CASE On(v)
    <3>1. off.target # NoTarget
      BY <1>1, <1>5, <2>1 DEF OnHasTarget, On
    <3>2. SetMirror(v, off)
      BY <1>2, <2>1 DEF off
    <3>3. QED
      BY <1>1, <1>5, <2>1, <3>1, <3>2, RuleSet
  <2>2. CASE ~On(v)
    BY <1>1, <1>2, <2>2 DEF MirTypeOK
  <2>3. QED
    BY <2>1, <2>2
<1>11. flag'[v] = "none" /\ \A u \in VfIds \ {v} : flag'[u] = flag[u]
  BY <1>1, <1>2 DEF MirTypeOK
<1>12. /\ Quiet' = Quiet
       /\ \A u \in VfIds : Calling(u)' = Calling(u)
  BY <1>3 DEF Quiet, Calling
<1>13. MirTypeOK'
  <2>1. flag' \in [VfIds -> Flags]
    BY <1>1, <1>2 DEF MirTypeOK, Flags
  <2>2. numMirrors' \in Nat
    BY <1>1, <1>2 DEF MirTypeOK, CountDown
  <2>3. QED
    BY <1>1, <1>3, <1>8, <1>10, <2>1, <2>2 DEF MirTypeOK
<1>14. OnHasTarget' /\ PassHolds'
  <2>1. mirrors'[v].dir = "off"
    BY <1>6, <1>8
  <2>2. vf["main"] \in VfIds
    BY <1>1 DEF MirTypeOK, Threads
  <2>3. pc["main"] = "call" /\ args["main"].dir = "off" => mirrors'[vf["main"]].dir = "off"
    BY <1>1, <1>8, <2>1, <2>2 DEF OnHasTarget
  <2>4. OnHasTarget'
    BY <1>1, <1>3, <1>8, <2>1, <2>3 DEF OnHasTarget
  <2>5. PassHolds'
    BY <1>1, <1>3 DEF PassHolds
  <2>6. QED
    BY <2>4, <2>5
\* The VFs whose mirrors are still on keep their ids in the pool.
<1>15. IdsHeld'
  <2> SUFFICES ASSUME "exhausted" \notin past
               PROVE  /\ \A a, b \in AreOn' : mirrors'[a].id = mirrors'[b].id => a = b
                      /\ \A a \in AreOn' : mirrors'[a].id \in used'
    BY <1>3 DEF IdsHeld
  <2>1. /\ \A a, b \in AreOn : mirrors[a].id = mirrors[b].id => a = b
        /\ \A a \in AreOn : mirrors[a].id \in used
    BY <1>1 DEF IdsHeld
  <2>2. \A a \in AreOn' : a \in AreOn /\ a # v /\ mirrors'[a] = mirrors[a]
    <3> TAKE a \in AreOn'
    <3>1. a \in VfIds /\ On(a)'
      BY DEF AreOn
    <3>2. QED
      BY <1>8, <3>1 DEF AreOn
  <2>3. \A a \in AreOn' : On(v) => mirrors[a].id # mirrors[v].id
    BY <2>1, <2>2 DEF AreOn
  <2>4. QED
    BY <1>9, <2>1, <2>2, <2>3
<1>16. Quiet => ~Aimed(v)'
  <2> SUFFICES ASSUME Quiet, ~On(v) PROVE ~Aimed(v)
    BY <1>6, <1>8 DEF Aimed
  <2>1. pc["main"] # "call"
    BY <1>1, <1>3 DEF Apart, Threads
  <2>2. QED
    BY <1>1, <2>1 DEF Apart, Calling
<1>17. Apart'
  <2> SUFFICES ASSUME Quiet PROVE Apart'
    BY <1>12 DEF Apart
  <2>1. pc["main"] # "call"
    BY <1>1, <1>3 DEF Apart, Threads
  \* The other thread is not in the pass.
  <2>2. \A o \in Threads : pc[o] # "program"
    BY <1>1, <1>3 DEF PassHolds
  <2>3. \A u \in VfIds : Aimed(u)' => On(u)' \/ Calling(u)'
    BY <1>1, <1>8, <1>12, <1>16 DEF Apart
  <2>4. \A u \in VfIds : flag'[u] = "none" => ~Aimed(u)'
    BY <1>1, <1>8, <1>11, <1>16 DEF Apart
  <2>5. QED
    BY <1>3, <2>1, <2>2, <2>3, <2>4 DEF Apart
<1>18. RulesFollow'
  <2> SUFFICES ASSUME Quiet, "exhausted" \notin past PROVE RulesFollow'
    BY <1>3, <1>12 DEF RulesFollow
  <2>1. /\ AimedIdsHeld
        /\ \A u \in AreAimed : ~Calling(u) /\ mirrors[u].id \notin refused =>
             rules[mirrors[u].id] = RuleDue(u)
        /\ \A i \in Ids \ refused : rules[i] # NoRule => \E u \in AreAimed : mirrors[u].id = i
    BY <1>1 DEF RulesFollow
  <2>2. \A u \in AreAimed' :
          u \in VfIds /\ u \in AreAimed /\ u # v /\ mirrors'[u] = mirrors[u]
    <3> TAKE u \in AreAimed'
    <3>1. u \in VfIds /\ Aimed(u)'
      BY DEF AreAimed
    <3>2. QED
      BY <1>8, <1>16, <3>1 DEF AreAimed
  <2>3. \A u \in AreAimed \ {v} : u \in AreAimed' /\ mirrors'[u] = mirrors[u]
    BY <1>8 DEF AreAimed
  <2>4. On(v) => v \in AreAimed
    BY <1>1 DEF OnHasTarget, On, AreAimed, Aimed
  <2>5. \A u \in AreAimed' : On(v) => mirrors[u].id # mirrors[v].id
    BY <2>1, <2>2, <2>4 DEF AimedIdsHeld
  <2>6. AimedIdsHeld'
    <3>1. \A a, b \in AreAimed' : mirrors'[a].id = mirrors'[b].id => a = b
      BY <2>1, <2>2 DEF AimedIdsHeld
    <3>2. \A a \in AreAimed' : mirrors'[a].id \in used'
      BY <1>9, <2>1, <2>2, <2>5 DEF AimedIdsHeld
    <3>3. QED
      BY <3>1, <3>2 DEF AimedIdsHeld
  <2>7. ASSUME NEW u \in AreAimed', ~Calling(u)', mirrors'[u].id \notin refused'
        PROVE  rules'[mirrors'[u].id] = RuleDue(u)'
    <3>1. u \in VfIds /\ u \in AreAimed /\ u # v /\ mirrors'[u] = mirrors[u]
      BY <2>2
    <3>2. RuleDue(u)' = RuleDue(u)
      BY <1>11, <3>1 DEF RuleDue
    <3>3. rules'[mirrors[u].id] = rules[mirrors[u].id] /\ mirrors[u].id \notin refused
      <4>1. mirrors[u].id \in Ids
        BY <1>1, <3>1 DEF MirTypeOK, MirrorRecords
      <4>2. QED
        BY <1>10, <2>5, <2>7, <3>1, <4>1
    <3>4. QED
      BY <1>12, <2>1, <2>7, <3>1, <3>2, <3>3
  <2>8. ASSUME NEW i \in Ids \ refused', rules'[i] # NoRule
        PROVE  \E u \in AreAimed' : mirrors'[u].id = i
    <3>1. rules[i] # NoRule /\ i \notin refused /\ (On(v) => i # mirrors[v].id)
      BY <1>10, <2>8
    <3>2. PICK u \in AreAimed : mirrors[u].id = i
      BY <2>1, <3>1
    <3>3. u # v
      BY <1>6, <1>8, <1>16, <3>1, <3>2 DEF AreAimed, Aimed
    <3>4. QED
      BY <2>3, <3>2, <3>3
  <2>9. QED
    BY <2>6, <2>7, <2>8 DEF RulesFollow
<1>19. CountFollows'
  <2> SUFFICES ASSUME Quiet, "reset" \notin past PROVE CountFollows'
    BY <1>3, <1>12 DEF CountFollows
  <2>1. Counted' = Counted \ {v}
    BY <1>8, <1>11 DEF Counted
  <2>2. v \in Counted <=> On(v)
    BY <1>2 DEF Counted
  <2>3. Cardinality(Counted \ {v}) = IF On(v) THEN Cardinality(Counted) - 1 ELSE Cardinality(Counted)
    BY <2>2, CountedFinite, FS_RemoveElement
  <2>4. On(v) => Cardinality(Counted) > 0
    BY <2>2, CountedFinite, FS_EmptySet
  <2>5. numMirrors' = Cardinality(Counted')
    BY <1>1, <1>2, <2>1, <2>3, <2>4, CountedFinite DEF CountFollows, CountDown
  <2>6. \A o \in Threads : pc'[o] # "program"
    BY <1>1, <1>3 DEF PassHolds
  <2>7. QED
    BY <2>5, <2>6 DEF CountFollows
<1>20. QED
  BY <1>13, <1>14, <1>15, <1>17, <1>18, <1>19 DEF MirInv

\* The pass programs the mirror it has read.
LEMMA PassProgramKeeps ==
  ASSUME MirInv, NEW t \in Threads, PassProgram(t)
  PROVE  MirInv'
<1>1. /\ MirTypeOK /\ OnHasTarget /\ PassHolds /\ IdsHeld
      /\ Apart /\ RulesFollow /\ CountFollows
  BY DEF MirInv
<1>2. PICK v \in VfIds : v = vf[t]
  BY <1>1 DEF MirTypeOK
<1>3. PICK a \in MirrorRecords : a = args[t]
  BY <1>1 DEF MirTypeOK
<1>4. /\ pc[t] = "program" /\ lock' = lock /\ used' = used /\ mirrors' = mirrors
      /\ IF a.dir # "off" THEN SetMirror(v, a) /\ numMirrors' = numMirrors + 1
         ELSE UNCHANGED <<rules, refused, numMirrors>>
      /\ args' = [args EXCEPT ![t] = Zeroes]
      /\ pc' = [pc EXCEPT ![t] = "pass"] /\ vf' = vf /\ past' = past
  BY <1>2, <1>3 DEF PassProgram, Goto, idVars
<1>5. flag' = [flag EXCEPT ![v] = IF flag[v] = "deleted" THEN "none" ELSE "unchanged"]
  BY <1>1, <1>2 DEF PassProgram, MirTypeOK
<1>6. a.dir # "off" => a.target # NoTarget
  BY <1>1, <1>3 DEF OnHasTarget
<1>7. /\ rules' \in [Ids -> {NoRule} \cup VfIds \X Targets \X Dirs]
      /\ a.dir # "off" => /\ a.id \notin refused' => rules'[a.id] = <<v, a.target, a.dir>>
                          /\ \A i \in Ids \ {a.id} :
                               rules'[i] = rules[i] /\ (i \in refused' <=> i \in refused)
      /\ a.dir = "off" => rules' = rules /\ refused' = refused
  <2>1. CASE a.dir # "off"
    BY <1>1, <1>4, <1>6, <2>1, RuleSet
  <2>2. CASE a.dir = "off"
    BY <1>1, <1>4, <2>2 DEF MirTypeOK
  <2>3. QED
    BY <2>1, <2>2
<1>8. /\ AreOn' = AreOn /\ AreAimed' = AreAimed
      /\ \A u \in VfIds : On(u)' = On(u) /\ Aimed(u)' = Aimed(u)
      /\ IdsHeld' /\ AimedIdsHeld' = AimedIdsHeld
  BY <1>1, <1>4, SameMirrors
<1>9. /\ flag'[v] = IF flag[v] = "deleted" THEN "none" ELSE "unchanged"
      /\ \A u \in VfIds \ {v} : flag'[u] = flag[u]
  BY <1>1, <1>5 DEF MirTypeOK
<1>10. /\ pc'[t] = "pass" /\ args'[t] = Zeroes
       /\ \A o \in Threads \ {t} : pc'[o] = pc[o] /\ args'[o] = args[o]
  BY <1>1, <1>4 DEF MirTypeOK
<1>11. /\ Quiet' = Quiet
       /\ \A u \in VfIds : Calling(u)' = Calling(u)
  BY <1>4, <1>10 DEF Quiet, Calling, Threads
<1>12. Zeroes \in MirrorRecords /\ Zeroes.dir = "off"
  BY MirrorSizes DEF Zeroes, MirrorRecords, Ids
<1>13. MirTypeOK'
  <2>1. flag' \in [VfIds -> Flags] /\ pc' \in [Threads -> Labels]
    BY <1>1, <1>4, <1>5 DEF MirTypeOK, Flags, Labels
  <2>2. numMirrors' \in Nat /\ args' \in [Threads -> MirrorRecords]
    BY <1>1, <1>4, <1>12 DEF MirTypeOK
  <2>3. QED
    BY <1>1, <1>4, <1>7, <2>1, <2>2 DEF MirTypeOK
<1>14. OnHasTarget' /\ PassHolds'
  <2>1. pc'["main"] = "call" => pc["main"] = "call" /\ t # "main"
    BY <1>10 DEF Threads
  <2>2. QED
    BY <1>1, <1>4, <1>10, <1>12, <2>1 DEF OnHasTarget, PassHolds, Threads
\* No request has met the restore: what was read is what is there.
<1>15. Quiet => a = mirrors[v] /\ flag[v] \in {"added", "reset"} /\ flag'[v] = "unchanged"
  BY <1>1, <1>2, <1>3, <1>4, <1>9 DEF Apart
<1>16. Apart'
  <2> SUFFICES ASSUME Quiet PROVE Apart'
    BY <1>11 DEF Apart
  <2>1. pc'["main"] # "call"
    BY <1>1, <1>4, <1>10 DEF Apart, Threads
  <2>2. \A o \in Threads : pc'[o] # "program"
    <3> SUFFICES ASSUME NEW o \in Threads, pc'[o] = "program" PROVE FALSE
      OBVIOUS
    <3>1. o # t /\ pc[o] = "program"
      BY <1>10
    <3>2. QED
      BY <1>1, <1>4, <3>1 DEF PassHolds
  <2>3. QED
    BY <1>1, <1>8, <1>9, <1>10, <1>11, <1>15, <2>1, <2>2 DEF Apart
<1>17. RulesFollow'
  <2> SUFFICES ASSUME Quiet, "exhausted" \notin past PROVE RulesFollow'
    BY <1>4, <1>11 DEF RulesFollow
  <2>1. /\ AimedIdsHeld
        /\ \A u \in AreAimed : ~Calling(u) /\ mirrors[u].id \notin refused =>
             rules[mirrors[u].id] = RuleDue(u)
        /\ \A i \in Ids \ refused : rules[i] # NoRule => \E u \in AreAimed : mirrors[u].id = i
    BY <1>1 DEF RulesFollow
  <2>2. /\ v \in AreAimed <=> a.dir # "off"
        /\ a.id = mirrors[v].id /\ a.id \in Ids
    <3>1. ~Calling(v)
      BY <1>1, <1>4 DEF Apart, Calling, Threads
    <3>2. QED
      BY <1>1, <1>6, <1>15, <3>1 DEF AreAimed, Aimed, On, Apart, MirrorRecords
  <2>3. ASSUME NEW u \in AreAimed, ~Calling(u), mirrors[u].id \notin refused'
        PROVE  rules'[mirrors[u].id] = RuleDue(u)'
    <3>1. u \in VfIds
      BY DEF AreAimed
    <3>2. CASE u = v
      BY <1>4, <1>7, <1>15, <2>2, <2>3, <3>2 DEF RuleDue
    <3>3. CASE u # v
      <4>1. RuleDue(u)' = RuleDue(u)
        BY <1>4, <1>9, <3>1, <3>3 DEF RuleDue
      <4>2. v \in AreAimed => mirrors[u].id # a.id
        BY <2>1, <2>2, <3>3 DEF AimedIdsHeld
      <4>3. mirrors[u].id \in Ids
        BY <1>1, <3>1 DEF MirTypeOK, MirrorRecords
      <4>4. rules'[mirrors[u].id] = rules[mirrors[u].id] /\ mirrors[u].id \notin refused
        BY <1>7, <2>2, <2>3, <4>2, <4>3
      <4>5. QED
        BY <2>1, <2>3, <4>1, <4>4
    <3>4. QED
      BY <3>2, <3>3
  <2>4. ASSUME NEW i \in Ids \ refused', rules'[i] # NoRule
        PROVE  \E u \in AreAimed : mirrors[u].id = i
    <3>1. CASE a.dir # "off" /\ i = a.id
      BY <2>2, <3>1
    <3>2. CASE ~(a.dir # "off" /\ i = a.id)
      BY <1>7, <2>1, <2>4, <3>2
    <3>3. QED
      BY <3>1, <3>2
  <2>5. QED
    BY <1>4, <1>8, <1>11, <2>1, <2>3, <2>4 DEF RulesFollow, AreAimed
<1>18. CountFollows'
  <2> SUFFICES ASSUME Quiet, "reset" \notin past PROVE CountFollows'
    BY <1>4, <1>11 DEF CountFollows
  <2>1. On(v) <=> a.dir # "off"
    BY <1>15 DEF On
  <2>2. a.dir # "off" => flag[v] = "added"
    BY <1>1, <1>2, <1>3, <1>4, <1>15 DEF CountFollows
  <2>3. Counted' = IF a.dir # "off" THEN Counted \cup {v} ELSE Counted
    BY <1>8, <1>9, <1>15, <2>1 DEF Counted
  <2>4. v \in Counted => a.dir = "off"
    BY <2>1, <2>2 DEF Counted
  <2>5. a.dir # "off" => Cardinality(Counted \cup {v}) = Cardinality(Counted) + 1
    BY <2>4, CountedFinite, FS_AddElement
  <2>6. numMirrors' = Cardinality(Counted')
    BY <1>1, <1>4, <2>3, <2>5 DEF CountFollows
  <2>7. \A o \in Threads : pc'[o] # "program"
    <3> SUFFICES ASSUME NEW o \in Threads, pc'[o] = "program" PROVE FALSE
      OBVIOUS
    <3>1. o # t /\ pc[o] = "program"
      BY <1>10
    <3>2. QED
      BY <1>1, <1>4, <3>1 DEF PassHolds
  <2>8. QED
    BY <2>6, <2>7 DEF CountFollows
<1>19. QED
  BY <1>8, <1>13, <1>14, <1>16, <1>17, <1>18 DEF MirInv

LEMMA MirStep == MirInv /\ [MirNext]_mirVars => MirInv'
<1> SUFFICES ASSUME MirInv, [MirNext]_mirVars PROVE MirInv'
  OBVIOUS
<1>1. ASSUME NEW v \in VfIds, AddPlain(v) PROVE MirInv'
  BY <1>1, AddPlainKeeps
<1>2. ASSUME NEW v \in VfIds, Delete(v) PROVE MirInv'
  BY <1>2, DeleteKeeps
<1>3. ASSUME NEW v \in VfIds, TurnOff(v) PROVE MirInv'
  BY <1>3, TurnOffKeeps
<1>4. ASSUME NEW v \in VfIds, Reset(v) PROVE MirInv'
  BY <1>4, ResetKeeps
<1>5. ASSUME NEW v \in VfIds, NEW d \in Dirs, NEW w \in Targets, AddMirrored(v, d, w)
      PROVE  MirInv'
  BY <1>5, AddMirroredKeeps
<1>6. ASSUME NEW v \in VfIds, NEW d \in Dirs, NEW w \in Targets, TurnOn(v, d, w)
      PROVE  MirInv'
  BY <1>6, TurnOnKeeps
<1>7. CASE CallNic
  BY <1>7, CallNicKeeps
<1>8. CASE ClosePorts
  BY <1>8, ClosePortsKeeps
<1>9. ASSUME NEW t \in Threads, PassLock(t) PROVE MirInv'
  BY <1>9, PassLockKeeps
<1>10. ASSUME NEW t \in Threads, PassDeleted(t) PROVE MirInv'
  BY <1>10, PassDeletedKeeps
<1>11. ASSUME NEW t \in Threads, PassRead(t) PROVE MirInv'
  BY <1>11, PassReadKeeps
<1>12. ASSUME NEW t \in Threads, PassProgram(t) PROVE MirInv'
  BY <1>12, PassProgramKeeps
<1>13. ASSUME NEW t \in Threads, PassUnlock(t) PROVE MirInv'
  BY <1>13, PassUnlockKeeps
<1>14. CASE UNCHANGED mirVars
  <2>1. /\ used' = used /\ flag' = flag /\ mirrors' = mirrors /\ numMirrors' = numMirrors
        /\ rules' = rules /\ refused' = refused /\ lock' = lock /\ pc' = pc /\ vf' = vf /\ args' = args
        /\ past' = past
    BY <1>14 DEF mirVars, idVars
  <2>2. /\ AreOn' = AreOn /\ AreAimed' = AreAimed
        /\ \A v \in VfIds : On(v)' = On(v) /\ Aimed(v)' = Aimed(v)
        /\ (IdsHeld => IdsHeld') /\ AimedIdsHeld' = AimedIdsHeld
    BY <2>1, SameMirrors
  <2>3. MirTypeOK' = MirTypeOK /\ OnHasTarget' = OnHasTarget /\ PassHolds' = PassHolds
    BY <2>1 DEF MirTypeOK, OnHasTarget, PassHolds
  <2>4. Apart' = Apart
    BY <2>1, <2>2 DEF Apart, Quiet, Calling, Pending
  <2>5. RulesFollow' = RulesFollow
    BY <2>1, <2>2 DEF RulesFollow, Quiet, Calling, RuleDue, AreAimed
  <2>6. Counted' = Counted
    BY <2>1, <2>2 DEF Counted
  <2>7. CountFollows' = CountFollows
    BY <2>1, <2>6 DEF CountFollows, Quiet
  <2>8. QED
    BY <2>2, <2>3, <2>4, <2>5, <2>7 DEF MirInv
<1>15. QED
  BY <1>1, <1>2, <1>3, <1>4, <1>5, <1>6, <1>7, <1>8, <1>9, <1>10, <1>11, <1>12, <1>13, <1>14
     DEF MirNext

(***************************************************************************)
(* The theorems.                                                           *)
(***************************************************************************)

LEMMA MirInvHolds == MirSpec => []MirInv
<1>1. QED
  BY MirInitially, MirStep, PTL DEF MirSpec

\* Until the ids run out, idm_alloc gives no mirror the id of one that is on, and
\* returning one (vfd_update_nic) frees no other's, whatever requests and restores
\* do at the same time.
THEOREM IdsStayHeld == MirSpec => []IdsHeld
<1>1. MirInv => IdsHeld
  BY DEF MirInv
<1>2. QED
  BY <1>1, MirInvHolds, PTL

\* With the threads idle the rule of each id is that of the mirror that is on with it,
\* and there is none for other ids, unless the NIC refused the last call for the id, ids
\* ran out, or a request met a restore: vfd_update_mirror, the update pass and the
\* deletion of a VF leave no rule behind that they were not refused to change, and a
\* refusal for one id (set_mirror) never falsifies another's rule.
THEOREM RulesMatchMirrors == MirSpec => []RulesMatch
<1>1. ASSUME MirInv PROVE RulesMatch
  <2>1. MirTypeOK /\ OnHasTarget /\ Apart /\ RulesFollow
    BY <1>1 DEF MirInv
  <2> SUFFICES ASSUME Idle, past \cap {"exhausted", "race"} = {}, NEW i \in Ids \ refused
               PROVE  {rules[i]} \ {NoRule} =
                        {<<v, mirrors[v].target, mirrors[v].dir>> :
                           v \in {w \in AreOn : mirrors[w].id = i}}
    BY DEF RulesMatch
  <2>2. \A t \in Threads : pc[t] = "idle"
    BY DEF Idle
  <2>3. Quiet /\ "exhausted" \notin past
    BY <2>2 DEF Quiet, Threads
  <2>4. \A v \in VfIds : ~Calling(v) /\ ~Pending(v)
    BY <2>1, <2>2, <2>3 DEF Calling, Apart, Threads
  <2>5. AreOn = AreAimed
    BY <2>1, <2>3, <2>4 DEF AreOn, AreAimed, Apart, OnHasTarget, On, Aimed
  <2>6. /\ \A v, w \in AreOn : mirrors[v].id = mirrors[w].id => v = w
        /\ \A v \in AreOn : mirrors[v].id \notin refused =>
             rules[mirrors[v].id] = <<v, mirrors[v].target, mirrors[v].dir>>
        /\ rules[i] # NoRule => \E v \in AreOn : mirrors[v].id = i
    BY <2>1, <2>3, <2>4, <2>5 DEF RulesFollow, AimedIdsHeld, RuleDue, Pending, AreAimed
  <2>7. CASE \E v \in AreOn : mirrors[v].id = i
    <3>1. PICK v \in AreOn : mirrors[v].id = i
      BY <2>7
    <3>2. {w \in AreOn : mirrors[w].id = i} = {v}
      BY <2>6, <3>1
    <3>3. rules[i] = <<v, mirrors[v].target, mirrors[v].dir>>
      BY <2>6, <3>1
    <3>4. \A x, y, z : <<x, y, z>> # NoRule
      BY DEF NoRule
    <3>5. rules[i] # NoRule
      BY <3>3, <3>4
    <3>6. QED
      BY <3>2, <3>3, <3>5
  <2>8. CASE ~\E v \in AreOn : mirrors[v].id = i
    BY <2>6, <2>8
  <2>9. QED
    BY <2>7, <2>8
<1>2. QED
  BY <1>1, MirInvHolds, PTL

\* num_mirrors, which iplex shows, is the number of mirrors that are on while no
\* restore has programmed one and no request has met a restore.
THEOREM CountStaysRight == MirSpec => []CountIsRight
<1>1. ASSUME MirInv PROVE CountIsRight
  <2>1. Apart /\ CountFollows
    BY <1>1 DEF MirInv
  <2> SUFFICES ASSUME Idle, past \cap {"race", "reset"} = {}
               PROVE  numMirrors = Cardinality(AreOn)
    BY DEF CountIsRight
  <2>2. \A t \in Threads : pc[t] = "idle"
    BY DEF Idle
  <2>3. Quiet /\ "reset" \notin past
    BY <2>2 DEF Quiet, Threads
  <2>4. \A v \in VfIds : ~Pending(v)
    BY <2>1, <2>2, <2>3 DEF Apart
  <2>5. Counted = AreOn
    BY <2>4 DEF Counted, AreOn, Pending
  <2>6. QED
    BY <2>1, <2>3, <2>5 DEF CountFollows
<1>2. QED
  BY <1>1, MirInvHolds, PTL

=============================================================================
