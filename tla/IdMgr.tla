------------------------------- MODULE IdMgr -------------------------------
(***************************************************************************)
(* The id manager (lib/id_mgr.c): numbers handed out from a pool of bits.  *)
(* Its two bounds are not quite the size of the pool: an id equal to       *)
(* num_ids passes them, and an id whose byte is further out than the       *)
(* number of ids in use is refused.                                        *)
(***************************************************************************)
EXTENDS Integers, FiniteSets, FiniteSetsExt

CONSTANTS
  NumIds,     \* num_ids
  ByteBits    \* bits in a byte of the pool

ASSUME IdSizes == NumIds \in Nat \ {0} /\ ByteBits \in Nat \ {0}

VARIABLES
  used,       \* ids whose bit is set
  nallocated  \* nallocated

idVars == <<used, nallocated>>

NoId    == -1
PoolLen == ((NumIds - 1) \div ByteBits) + 1
Pool    == 0 .. PoolLen * ByteBits - 1
Holes   == Pool \ used

IdInit == used = {} /\ nallocated = 0

\* What idm_alloc returns.
NextId ==
  IF nallocated >= NumIds \/ Holes = {} \/ Min(Holes) > NumIds THEN NoId ELSE Min(Holes)

\* idm_alloc.
Alloc ==
  IF NextId = NoId THEN UNCHANGED idVars
  ELSE used' = used \cup {NextId} /\ nallocated' = nallocated + 1

\* idm_return: anything it does not like is ignored.
Returnable(id) == id \in 0 .. NumIds /\ id \div ByteBits <= nallocated /\ id \in used
Return(id) ==
  IF Returnable(id)
  THEN used' = used \ {id} /\ nallocated' = IF nallocated > 0 THEN nallocated - 1 ELSE 0
  ELSE UNCHANGED idVars
=============================================================================
