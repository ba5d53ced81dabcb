---------------------- MODULE TransactionOps_proofs -------------------------
(***************************************************************************)
(* What the operations on the table of transactions return, for every pool *)
(* size and every set T of what a slot can hold, Free included.            *)
(***************************************************************************)
EXTENDS TransactionOps, WellFoundedInduction, TLAPS

(* The operators of TransactionOps choose the lowest matching slot with    *)
(* Min: for a non-empty set of slots it is its least member.               *)
LEMMA MinInSet ==
    ASSUME NEW S \in SUBSET Nat, S # {}
    PROVE  Min(S) \in S /\ \A y \in S : Min(S) =< y
<1> DEFINE below == OpToRel(<, Nat)
<1>1. IsWellFoundedOn(below, Nat)
  BY NatLessThanWellFounded
<1> HIDE DEF below
<1>2. PICK x \in S : \A y \in S : <<y, x>> \notin below
  BY <1>1, WFMin
<1>3. \A a, b \in Nat : a < b => <<a, b>> \in below
  BY DEF below, OpToRel
<1>4. \A y \in S : x =< y
  <2> TAKE y \in S
  <2>1. ~(y < x)
    BY <1>2, <1>3
  <2> QED
    BY <2>1
<1> QED
  BY <1>4 DEF Min

(* A scan of a table for an active or an inactive slot. *)
LEMMA VacantSlot ==
    ASSUME NEW table, DOMAIN table \subseteq Nat
    PROVE  /\ Vacant(table) # {} => Min(Vacant(table)) \in Vacant(table)
           /\ \A S \in SUBSET Occupied(table) : S # {} => Min(S) \in S
<1>1. Vacant(table) \in SUBSET Nat /\ Occupied(table) \in SUBSET Nat
  BY DEF Vacant, Occupied
<1> QED BY <1>1, MinInSet

(* start() leaves every occupied slot alone and fills at most one free one *)
(* with the new transaction.                                               *)
LEMMA StartTxEffect ==
    ASSUME NEW T, Free \in T, NEW pool \in [TxSlots -> T], NEW tx \in T
    PROVE  /\ StartTx(pool, tx) \in [TxSlots -> T]
           /\ \A i \in TxSlots : \/ StartTx(pool, tx)[i] = pool[i]
                                 \/ pool[i] = Free /\ StartTx(pool, tx)[i] = tx
<1>1. CASE FreeSlots(pool) = {}
  BY <1>1 DEF StartTx
<1>2. CASE FreeSlots(pool) # {}
  <2>1. FreeSlots(pool) \in SUBSET Nat
    BY PoolAssumption DEF FreeSlots, TxSlots
  <2>2. Min(FreeSlots(pool)) \in FreeSlots(pool)
    BY <1>2, <2>1, MinInSet
  <2> QED
    BY <1>2, <2>2 DEF StartTx, FreeSlots
<1> QED
  BY <1>1, <1>2

(* start() never overwrites a transaction in flight. *)
LEMMA StartTxKeeps ==
    ASSUME NEW T, NEW pool \in [TxSlots -> T], NEW tx
    PROVE  \A i \in InFlight(pool) : StartTx(pool, tx)[i] = pool[i]
<1>1. CASE FreeSlots(pool) = {}
  BY <1>1 DEF StartTx
<1>2. CASE FreeSlots(pool) # {}
  <2>1. FreeSlots(pool) \in SUBSET Nat
    BY PoolAssumption DEF FreeSlots, TxSlots
  <2>2. Min(FreeSlots(pool)) \in FreeSlots(pool)
    BY <1>2, <2>1, MinInSet
  <2> QED
    BY <1>2, <2>2 DEF StartTx, FreeSlots, InFlight
<1> QED
  BY <1>1, <1>2

(* complete() and completeByToken() free at most one slot and touch no     *)
(* other.                                                                  *)
LEMMA FreeFirstEffect ==
    ASSUME NEW T, Free \in T, NEW pool \in [TxSlots -> T],
           NEW matches \in SUBSET TxSlots
    PROVE  /\ FreeFirst(pool, matches) \in [TxSlots -> T]
           /\ \A i \in TxSlots : \/ FreeFirst(pool, matches)[i] = pool[i]
                                 \/ FreeFirst(pool, matches)[i] = Free
<1> QED
  BY DEF FreeFirst
=============================================================================
