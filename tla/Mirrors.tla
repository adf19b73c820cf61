------------------------------ MODULE Mirrors ------------------------------
(***************************************************************************)
(* Traffic mirrors of one PF: the mirror_s of each VF, the ids that name   *)
(* mirror rules in the NIC, the count num_mirrors, and the rules.  Three   *)
(* parts of VFd write them: a VF's configuration file (vfd_add_vf, then    *)
(* the update pass), an iplex mirror request (vfd_update_mirror, which     *)
(* takes no lock), and the update pass of a restore, which programs the    *)
(* mirrors of every VF that is flagged.                                    *)
(*                                                                         *)
(* main is the request loop; restorer is the refresh or interrupt thread   *)
(* that runs restore_vf_setings.  Between reading a mirror_s and writing   *)
(* the rule to the NIC the other thread may run.  A VF keeps its slot      *)
(* here, and the parts of the pass that do not touch mirrors happen in its *)
(* last step: VfdConfig has those.  The NIC may refuse a rule: a client is  *)
(* then told ERROR, the pass writes a line to the log, and the mirror_s,    *)
(* its id and the count stay as if the rule were there.                     *)
(***************************************************************************)
EXTENDS IdMgr

CONSTANTS
  VfIds,     \* VFs of the PF
  Targets,   \* VF numbers that are named as targets, managed or not
  IdRange,   \* what fits a mirror_s.id (uint8_t): 256
  NicRules,  \* mirror rules the NIC has: ids from this on are refused (ixgbe: 4)
  Dirs,      \* directions other than off
  MaxReqs,   \* bound on the requests of a behaviour
  MaxResets  \* bound on the restores of a behaviour

\* main makes the id manager for 256 ids, so that each one fits a byte.
ASSUME MirrorSizes ==
  /\ VfIds \subseteq Nat /\ VfIds # {} /\ IsFiniteSet(VfIds)
  /\ Targets \subseteq Nat
  /\ IdRange \in Nat \ {0} /\ PoolLen * ByteBits <= IdRange
  /\ NicRules \in Nat
  /\ "off" \notin Dirs
  /\ MaxReqs \in Nat
  /\ MaxResets \in Nat

NoTarget == -1       \* MAX_VFS + 1: the target of a mirror that is off
NoRule   == <<>>
OneWay   == {"in", "out"}

VARIABLES
  flag,        \* last_updated of the VF's slot, "none" when it is not managed
  mirrors,     \* mirror_s of the VF: [target, dir, id]
  numMirrors,  \* port->num_mirrors
  rules,       \* the NIC: for each id the mirror it carries out, or NoRule
  lock,        \* holder of update_lock, or "free"
  pc,          \* where the two threads are
  vf,          \* the VF each thread works on
  args,        \* the mirror_s a thread has read for its call of set_mirror
  reqs,        \* requests so far
  resets,      \* restores so far
  refused,     \* history: ids whose last call of the NIC was refused
  past         \* history: "exhausted" no id was left, "race" a mirror request or a
               \* delete met a restore, "reset" a restore programmed a mirror

mirVars ==
  <<idVars, flag, mirrors, numMirrors, rules, lock, pc, vf, args, reqs, resets, refused, past>>

Threads == {"main", "restorer"}
Ids     == 0 .. IdRange - 1

On(v)   == mirrors[v].dir # "off"
AreOn   == {v \in VfIds : On(v)}
Pending(v) == flag[v] \in {"added", "deleted", "reset"}

Goto(t, label) == pc' = [pc EXCEPT ![t] = label]

NewRequest == pc["main"] = "idle" /\ reqs < MaxReqs /\ reqs' = reqs + 1

\* A restore is under way, so what main does now races with it.
Racing == IF pc["restorer"] = "idle" THEN {} ELSE {"race"}

\* The id as mirror_s stores it: -1 becomes the last one.
StoredId == NextId % IdRange
Exhausted == IF NextId = NoId THEN {"exhausted"} ELSE {}

\* num_mirrors without the mirror of v.
CountDownBlindly(v) == IF numMirrors > 0 THEN numMirrors - 1 ELSE numMirrors  \* mutant: on or off
CountDown(v) == IF On(v) /\ numMirrors > 0 THEN numMirrors - 1 ELSE numMirrors

\* rte_eth_mirror_rule_set (external): a rule is replaced as a whole.
SetRule(v, m) ==
  rules' = [rules EXCEPT ![m.id] = IF m.dir = "off" THEN NoRule ELSE <<v, m.target, m.dir>>]

\* A call that the NIC refuses leaves the rule, or none: before one direction is set
\* the other is turned off, and that call may have been taken.
RuleLeft(m) ==
  {rules[m.id]} \cup (IF m.dir \in OneWay /\ m.id < NicRules THEN {NoRule} ELSE {})

\* set_mirror calls nothing for a target that is out of range.
SetMirror(v, m) ==
  \/ /\ m.target = NoTarget
     /\ UNCHANGED <<rules, refused>>
  \/ /\ m.target # NoTarget /\ m.id < NicRules
     /\ SetRule(v, m)
     /\ refused' = refused \ {m.id}
  \/ /\ m.target # NoTarget
     /\ \E rule \in RuleLeft(m) : rules' = [rules EXCEPT ![m.id] = rule]
     /\ refused' = refused \cup {m.id}

Off(m) == [m EXCEPT !.dir = "off"]

\* A mirror_s of zeroes, and what a thread holds that is not about to call the NIC.
Zeroes == [target |-> NoTarget, dir |-> "off", id |-> 0]

MirInit ==
  /\ IdInit
  /\ flag = [v \in VfIds |-> "none"]
  /\ mirrors = [v \in VfIds |-> Zeroes]
  /\ numMirrors = 0
  /\ rules = [i \in Ids |-> NoRule]
  /\ lock = "free"
  /\ pc = [t \in Threads |-> "idle"]
  /\ vf = [t \in Threads |-> CHOOSE v \in VfIds : TRUE]
  /\ args = [t \in Threads |-> Zeroes]
  /\ reqs = 0
  /\ resets = 0
  /\ refused = {}
  /\ past = {}

(***************************************************************************)
(* Requests, by main.                                                      *)
(***************************************************************************)

\* vfd_add_vf without a mirror.  The id of an earlier mirror stays.
AddPlain(v) ==
  /\ NewRequest /\ flag[v] = "none" /\ lock = "free"
  /\ flag' = [flag EXCEPT ![v] = "added"]
  /\ mirrors' = [mirrors EXCEPT ![v] = [@ EXCEPT !.target = NoTarget, !.dir = "off"]]
  /\ Goto("main", "update")
  /\ UNCHANGED <<idVars, numMirrors, rules, lock, vf, args, resets, refused, past>>

\* vfd_add_vf with a mirror to another VF.
AddMirrored(v, d, w) ==
  /\ NewRequest /\ flag[v] = "none" /\ lock = "free"
  /\ w # v
  /\ Alloc
  /\ past' = past \cup Exhausted
  /\ flag' = [flag EXCEPT ![v] = "added"]
  /\ mirrors' = [mirrors EXCEPT ![v] = [target |-> w, dir |-> d, id |-> StoredId]]
  /\ Goto("main", "update")
  /\ UNCHANGED <<numMirrors, rules, lock, vf, args, resets, refused>>

\* vfd_del_vf.
Delete(v) ==
  /\ NewRequest /\ flag[v] # "none"
  /\ flag' = [flag EXCEPT ![v] = "deleted"]
  /\ past' = past \cup Racing
  /\ Goto("main", "update")
  /\ UNCHANGED <<idVars, mirrors, numMirrors, rules, lock, vf, args, resets, refused>>

\* vfd_update_mirror for a direction: the mirror_s is written (in one step here; dir,
\* which the pass tests, is the last field), then read again for the call of
\* set_mirror.  Only a mirror that was off gets an id.
TurnOn(v, d, w) ==
  /\ NewRequest /\ flag[v] # "none"
  /\ IF On(v)
     THEN /\ mirrors' = [mirrors EXCEPT ![v] = [@ EXCEPT !.target = w, !.dir = d]]
          /\ past' = past \cup Racing
          /\ UNCHANGED <<idVars, numMirrors>>
     ELSE /\ Alloc
          /\ mirrors' = [mirrors EXCEPT ![v] = [target |-> w, dir |-> d, id |-> StoredId]]
          /\ numMirrors' = numMirrors + 1
          /\ past' = past \cup Racing \cup Exhausted
  /\ args' = [args EXCEPT !["main"] = mirrors'[v]]
  /\ vf' = [vf EXCEPT !["main"] = v]
  /\ Goto("main", "call")
  /\ UNCHANGED <<flag, rules, lock, resets, refused>>

\* Mutants of TurnOff: the id is given back, whether the mirror is on or off; the
\* target is forgotten before set_mirror is called.
TurnOffReturning(v) ==
  /\ NewRequest /\ flag[v] # "none"
  /\ numMirrors' = CountDown(v)
  /\ Return(mirrors[v].id)
  /\ mirrors' = [mirrors EXCEPT ![v] = Off(@)]
  /\ args' = [args EXCEPT !["main"] = mirrors'[v]]
  /\ vf' = [vf EXCEPT !["main"] = v]
  /\ past' = past \cup Racing
  /\ Goto("main", "call")
  /\ UNCHANGED <<flag, rules, lock, resets, refused>>
TurnOffEarly(v) ==
  /\ NewRequest /\ flag[v] # "none"
  /\ numMirrors' = CountDown(v)
  /\ mirrors' = [mirrors EXCEPT ![v] = [Off(@) EXCEPT !.target = NoTarget]]
  /\ args' = [args EXCEPT !["main"] = mirrors'[v]]
  /\ vf' = [vf EXCEPT !["main"] = v]
  /\ past' = past \cup Racing
  /\ Goto("main", "call")
  /\ UNCHANGED <<idVars, flag, rules, lock, resets, refused>>

\* vfd_update_mirror for off.  The id is not given back.
TurnOff(v) ==
  /\ NewRequest /\ flag[v] # "none"
  /\ numMirrors' = CountDown(v)
  /\ mirrors' = [mirrors EXCEPT ![v] = Off(@)]
  /\ args' = [args EXCEPT !["main"] = mirrors'[v]]
  /\ vf' = [vf EXCEPT !["main"] = v]
  /\ past' = past \cup Racing
  /\ Goto("main", "call")
  /\ UNCHANGED <<idVars, flag, rules, lock, resets, refused>>

\* The rest of vfd_update_mirror: set_mirror, then the target of a mirror that is
\* off is forgotten.  A refusal becomes the client's ERROR, and changes nothing here.
CallNic ==
  /\ pc["main"] = "call"
  /\ SetMirror(vf["main"], args["main"])
  /\ mirrors' = IF args["main"].dir # "off" THEN mirrors
                ELSE [mirrors EXCEPT ![vf["main"]].target = NoTarget]
  /\ args' = [args EXCEPT !["main"] = Zeroes]
  /\ Goto("main", "idle")
  /\ UNCHANGED <<idVars, flag, numMirrors, lock, vf, reqs, resets, past>>

\* close_ports at the end of main: every mirror that is on is turned off, in holes
\* as well; then the ports are stopped, and VFd with them.
ClosePorts ==
  /\ pc["main"] = "idle"
  /\ LET ids == {mirrors[v].id : v \in AreOn}
     IN \E gone \in SUBSET {i \in ids : i < NicRules} :
          /\ rules' = [i \in Ids |-> IF i \in gone THEN NoRule ELSE rules[i]]
          /\ refused' = (refused \ gone) \cup (ids \ gone)
  /\ pc' = [t \in Threads |-> "closed"]
  /\ UNCHANGED <<idVars, flag, mirrors, numMirrors, lock, vf, args, reqs, resets, past>>

(***************************************************************************)
(* The update pass, by either thread.                                      *)
(***************************************************************************)

\* restore_vf_setings flags the VF, whatever its flag was.
Reset(v) ==
  /\ pc["restorer"] = "idle" /\ flag[v] # "none" /\ resets < MaxResets
  /\ flag' = [flag EXCEPT ![v] = "reset"]
  /\ resets' = resets + 1
  /\ past' = past \cup IF pc["main"] = "idle" THEN {} ELSE {"race"}
  /\ Goto("restorer", "update")
  /\ UNCHANGED <<idVars, mirrors, numMirrors, rules, lock, vf, args, reqs, refused>>

PassLock(t) ==
  /\ pc[t] = "update" /\ lock = "free"
  /\ lock' = t
  /\ Goto(t, "pass")
  /\ UNCHANGED <<idVars, flag, mirrors, numMirrors, rules, vf, args, reqs, resets, refused, past>>

\* A deleted VF: its mirror is turned off and its id given back.
PassDeleted(t) ==
  /\ pc[t] = "pass"
  /\ \E v \in VfIds :
       /\ flag[v] = "deleted"
       /\ IF On(v)
          THEN /\ SetMirror(v, Off(mirrors[v]))
               /\ mirrors' = [mirrors EXCEPT ![v] = [Off(@) EXCEPT !.target = NoTarget]]
               /\ Return(mirrors[v].id)
          ELSE UNCHANGED <<mirrors, rules, refused, idVars>>
       /\ numMirrors' = CountDown(v)
       /\ flag' = [flag EXCEPT ![v] = "none"]
  /\ UNCHANGED <<lock, pc, vf, args, reqs, resets, past>>

\* An added or reset VF: the mirror_s is read for the call of set_mirror.
PassRead(t) ==
  /\ pc[t] = "pass"
  /\ \E v \in VfIds :
       /\ flag[v] \in {"added", "reset"}
       /\ vf' = [vf EXCEPT ![t] = v]
       /\ args' = [args EXCEPT ![t] = mirrors[v]]
       /\ past' = past \cup IF On(v) /\ flag[v] = "reset" THEN {"reset"} ELSE {}
  /\ Goto(t, "program")
  /\ UNCHANGED <<idVars, flag, mirrors, numMirrors, rules, lock, reqs, resets, refused>>

\* The call, and the rest of the pass for this VF.  A DELETED mark that has come in
\* by now makes it a hole, its mirror still on.
PassProgram(t) ==
  /\ pc[t] = "program"
  /\ IF args[t].dir # "off"
     THEN SetMirror(vf[t], args[t]) /\ numMirrors' = numMirrors + 1
     ELSE UNCHANGED <<rules, refused, numMirrors>>
  /\ flag' = [flag EXCEPT ![vf[t]] = IF @ = "deleted" THEN "none" ELSE "unchanged"]
  /\ args' = [args EXCEPT ![t] = Zeroes]
  /\ Goto(t, "pass")
  /\ UNCHANGED <<idVars, mirrors, lock, vf, reqs, resets, past>>

PassUnlock(t) ==
  /\ pc[t] = "pass" /\ ~\E v \in VfIds : Pending(v)
  /\ lock' = "free"
  /\ Goto(t, "idle")
  /\ UNCHANGED <<idVars, flag, mirrors, numMirrors, rules, vf, args, reqs, resets, refused, past>>

MirNext ==
  \/ \E v \in VfIds :
       \/ AddPlain(v) \/ Delete(v) \/ TurnOff(v) \/ Reset(v)
       \/ \E d \in Dirs :
            \E w \in Targets : AddMirrored(v, d, w) \/ TurnOn(v, d, w)
  \/ CallNic \/ ClosePorts
  \/ \E t \in Threads :
       PassLock(t) \/ PassDeleted(t) \/ PassRead(t) \/ PassProgram(t) \/ PassUnlock(t)

MirSpec == MirInit /\ [][MirNext]_mirVars

(***************************************************************************)
(* Properties.                                                             *)
(***************************************************************************)

Idle == \A t \in Threads : pc[t] = "idle"

\* Unless the ids have run out, mirrors that are on never share an id, and theirs
\* are marked in the pool: returning one id never frees another mirror's.
IdsHeld ==
  "exhausted" \notin past =>
    /\ \A v, w \in AreOn : mirrors[v].id = mirrors[w].id => v = w
    /\ {mirrors[v].id : v \in AreOn} \subseteq used

\* With the threads idle, the rule of each id is that of the mirror that is on with
\* the id, with its present target, and there is none for an id of no mirror: unless
\* the NIC refused the last call for the id, ids ran out, or a request met a restore.
RulesMatch ==
  Idle /\ past \cap {"exhausted", "race"} = {} =>
    \A i \in Ids \ refused :
      {rules[i]} \ {NoRule} =
        {<<v, mirrors[v].target, mirrors[v].dir>> : v \in {w \in AreOn : mirrors[w].id = i}}

\* num_mirrors, which iplex shows, counts the mirrors that are on, as long as no
\* restore has programmed one.
CountIsRight ==
  Idle /\ past \cap {"race", "reset"} = {} => numMirrors = Cardinality(AreOn)
=============================================================================
