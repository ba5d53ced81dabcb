---------------------- MODULE TransactionPool_proofs ------------------------
(***************************************************************************)
(* Proofs about the retransmission engine, for every pool size, word size, *)
(* backoff and poll interval that TransactionPool's assumptions allow.     *)
(***************************************************************************)
EXTENDS TransactionPool, TransactionOps_proofs

USE PoolAssumption, TimingAssumption

(* Real time since slot i was armed, and what remains of its timeout.      *)
Elapsed(i)   == hist[i].waited + hist[i].lag
Remaining(i) == slots[i].timeout - Elapsed(i)

(* The strengthening that makes DueIffElapsed inductive: the deadline word *)
(* is the clock shifted by the remaining time, the remaining time stays in *)
(* the window where the signed comparison is right, and the total waiting  *)
(* time accounts for every doubling so far.                                *)
SlotInv(i) ==
    /\ slots[i].timeout \in 1 .. MaxTimeout[slots[i].retries]
    /\ Elapsed(i) < slots[i].timeout + unticked
    /\ slots[i].nextRetryAt = (IF now + Remaining(i) < 0
                               THEN now + Remaining(i) + Word
                               ELSE Plus(now, Remaining(i)))
    /\ hist[i].lag =< PollGap
    /\ hist[i].total - hist[i].waited + PollGap
          >= slots[i].timeout - hist[i].first + hist[i].lag

IInv == /\ TypeOK
        /\ Gap <= PollGap
        /\ Gap <= unticked /\ unticked <= TickGap
        /\ \A i \in InFlight(slots) : SlotInv(i)

-----------------------------------------------------------------------------
(* What the assumptions say of the timeout of a transaction with n retries. *)
LEMMA BackoffFits ==
    /\ \A n \in 0 .. MaxRetransmit :
          MaxTimeout[n] \in Nat /\ 2 * (MaxTimeout[n] + TickGap) < Word
    /\ \A n \in 0 .. MaxRetransmit - 1 : MaxTimeout[n + 1] = 2 * MaxTimeout[n]
    /\ \A t \in InitialTimeouts : t \in 1 .. MaxTimeout[0]
<1>1. 0 \in 0 .. MaxRetransmit
  OBVIOUS
<1>2. \A n \in 0 .. MaxRetransmit :
         MaxTimeout[n] \in Nat /\ 2 * (MaxTimeout[n] + TickGap) < Word
  BY BackoffAssumption
<1>3. \A n \in 0 .. MaxRetransmit - 1 : MaxTimeout[n + 1] = 2 * MaxTimeout[n]
  <2> TAKE n \in 0 .. MaxRetransmit - 1
  <2>1. n + 1 \in 1 .. MaxRetransmit /\ (n + 1) - 1 = n
    OBVIOUS
  <2> QED
    BY <2>1, BackoffAssumption
<1>4. \A t \in InitialTimeouts : t \in 1 .. MaxTimeout[0]
  BY BackoffAssumption DEF InitialTimeouts
<1> QED
  BY <1>2, <1>3, <1>4

(* The signed comparison of tick() tells exactly whether the timeout has   *)
(* run out, wherever the 32-bit clock stands.                              *)
LEMMA WrapSafe ==
    ASSUME IInv, NEW i \in InFlight(slots)
    PROVE  /\ slots[i] \in Transaction
           /\ Due(slots[i], now) <=> Elapsed(i) >= slots[i].timeout
<1>1. i \in TxSlots /\ slots[i] \in Transaction /\ SlotInv(i)
  BY DEF IInv, TypeOK, InFlight
<1>2. /\ slots[i].timeout \in Nat /\ slots[i].nextRetryAt \in 0 .. Word - 1
      /\ slots[i].retries \in 0 .. MaxRetransmit
      /\ now \in 0 .. Word - 1 /\ lastNow \in 0 .. Word - 1
      /\ hist[i].waited \in Nat /\ hist[i].lag \in Nat
  BY <1>1 DEF IInv, TypeOK, Transaction, Clock
<1>3. /\ MaxTimeout[slots[i].retries] \in Nat
      /\ 2 * (MaxTimeout[slots[i].retries] + TickGap) < Word
  BY <1>2, BackoffFits
<1>4. unticked \in Nat /\ unticked =< TickGap
  BY DEF IInv, TypeOK
<1> DEFINE T == slots[i].timeout
           E == Elapsed(i)
           D == slots[i].nextRetryAt
           M == MaxTimeout[slots[i].retries]
<1>5. /\ T \in 1 .. M /\ E < T + unticked /\ E \in Nat
      /\ D = (IF now + (T - E) < 0 THEN now + (T - E) + Word
              ELSE Plus(now, T - E))
  BY <1>1, <1>2 DEF SlotInv, Elapsed, Remaining
<1>6. Due(slots[i], now) <=> ~(0 < Sub(D, now) /\ 2 * Sub(D, now) < Word)
  BY DEF Due
<1> HIDE DEF T, E, D, M
<1>7. (~(0 < Sub(D, now) /\ 2 * Sub(D, now) < Word)) <=> E >= T
  BY <1>2, <1>3, <1>4, <1>5 DEF Sub, Plus, M, D
<1> QED
  BY <1>1, <1>6, <1>7 DEF E, T

(* A slot that an action leaves alone keeps its invariant while time       *)
(* stands still and nothing ticks.                                         *)
LEMMA SlotUntouched ==
    ASSUME NEW i, SlotInv(i), slots'[i] = slots[i], hist'[i] = hist[i],
           now' = now, unticked' = unticked
    PROVE  SlotInv(i)'
<1> QED
  BY DEF SlotInv, Elapsed, Remaining

(* start() *)
LEMMA StartPreserves ==
    ASSUME IInv, NEW r \in Remotes, NEW m \in Mids, NEW tok \in Tokens,
           NEW t \in InitialTimeouts, Start(r, m, tok, t)
    PROVE  IInv'
<1> DEFINE tx == [remote |-> r, mid |-> m, token |-> tok, retries |-> 0,
                  timeout |-> t, nextRetryAt |-> Plus(lastNow, t)]
           fresh == [first |-> t, waited |-> 0, lag |-> Gap, total |-> 0]
<1>1. /\ now \in 0 .. Word - 1 /\ lastNow \in 0 .. Word - 1
      /\ now' = now /\ lastNow' = lastNow /\ Gap' = Gap
      /\ unticked' = unticked /\ unticked \in Nat
      /\ Gap \in Nat /\ Gap =< PollGap /\ Gap =< unticked
      /\ unticked =< TickGap
  BY DEF IInv, TypeOK, Clock, Start, Gap, Sub
<1>2. /\ t \in 1 .. MaxTimeout[0] /\ MaxTimeout[0] \in Nat
      /\ 2 * (MaxTimeout[0] + TickGap) < Word
  BY BackoffFits
<1>3. Plus(lastNow, t) \in 0 .. Word - 1
  BY <1>1, <1>2 DEF Plus
<1>4. tx \in Transaction /\ tx # Free
  BY <1>2, <1>3, FreeAssumption DEF Transaction, Clock
<1>5. slots \in [TxSlots -> Transaction \cup {Free}]
  BY DEF IInv, TypeOK
<1>6. /\ slots' = StartTx(slots, tx)
      /\ hist' = [i \in TxSlots |-> IF slots[i] = Free /\ slots'[i] # Free
                                   THEN fresh ELSE hist[i]]
  BY DEF Start
<1> HIDE DEF tx
<1>7. /\ slots' \in [TxSlots -> Transaction \cup {Free}]
      /\ \A i \in TxSlots : \/ slots'[i] = slots[i]
                            \/ slots[i] = Free /\ slots'[i] = tx
  <2> DEFINE Contents == Transaction \cup {Free}
  <2>1. Free \in Contents /\ tx \in Contents /\ slots \in [TxSlots -> Contents]
    BY <1>4, <1>5
  <2> HIDE DEF Contents
  <2>2. /\ StartTx(slots, tx) \in [TxSlots -> Contents]
        /\ \A i \in TxSlots : \/ StartTx(slots, tx)[i] = slots[i]
                              \/ slots[i] = Free /\ StartTx(slots, tx)[i] = tx
    BY <2>1, StartTxEffect
  <2> QED
    BY <1>6, <2>2 DEF Contents
<1>8. TypeOK'
  BY <1>1, <1>2, <1>6, <1>7 DEF TypeOK, IInv
<1>9. ASSUME NEW i \in InFlight(slots)' PROVE SlotInv(i)'
  <2>1. i \in TxSlots /\ slots'[i] # Free
    BY DEF InFlight
  <2>2. CASE slots'[i] = slots[i]
    BY <1>1, <1>6, <2>1, <2>2, SlotUntouched DEF IInv, InFlight
  <2>3. CASE slots[i] = Free /\ slots'[i] = tx
    <3>1. /\ hist'[i] = fresh
      BY <1>4, <1>6, <2>1, <2>3
    <3>2. /\ slots'[i].timeout = t /\ slots'[i].retries = 0
          /\ slots'[i].nextRetryAt = Plus(lastNow, t)
      BY <2>3 DEF tx
    <3>3. Elapsed(i)' = Gap /\ Remaining(i)' = t - Gap
      BY <1>1, <3>1, <3>2 DEF Elapsed, Remaining
    <3>4. Plus(lastNow, t) = (IF now + (t - Gap) < 0 THEN now + (t - Gap) + Word
                              ELSE Plus(now, t - Gap))
      BY <1>1, <1>2 DEF Gap, Sub, Plus
    <3> HIDE DEF fresh
    <3>5. slots'[i].nextRetryAt = (IF now' + Remaining(i)' < 0
                                   THEN now' + Remaining(i)' + Word
                                   ELSE Plus(now, Remaining(i))')
      BY <1>1, <3>2, <3>3, <3>4 DEF Plus
    <3>6. /\ hist'[i].lag = Gap /\ hist'[i].total = 0 /\ hist'[i].waited = 0
          /\ hist'[i].first = t
      BY <3>1 DEF fresh
    <3> QED
      BY <1>1, <1>2, <3>2, <3>3, <3>5, <3>6 DEF SlotInv
  <2> QED
    BY <1>7, <2>1, <2>2, <2>3
<1> QED
  BY <1>1, <1>8, <1>9 DEF IInv

(* complete() and completeByToken(), with or without the update of         *)
(* lastNowMs_ of the poll that calls them                                  *)
LEMMA FreePreserves ==
    ASSUME IInv, NEW matches \in SUBSET TxSlots,
           slots' = FreeFirst(slots, matches), ForgetFreed,
           lastNow' \in {lastNow, now}, UNCHANGED <<now, unticked>>
    PROVE  IInv'
<1>1. slots \in [TxSlots -> Transaction \cup {Free}]
  BY DEF IInv, TypeOK
<1>2. /\ slots' \in [TxSlots -> Transaction \cup {Free}]
      /\ \A i \in TxSlots : slots'[i] = slots[i] \/ slots'[i] = Free
  BY <1>1, FreeFirstEffect
<1>3. TypeOK'
  BY <1>2 DEF TypeOK, IInv, ForgetFreed, NoHistory
<1>4. /\ Gap' <= PollGap /\ Gap' <= unticked'
      /\ unticked' <= TickGap
  <2>1. /\ now \in 0 .. Word - 1 /\ unticked \in Nat /\ now' = now
        /\ unticked' = unticked /\ unticked <= TickGap
        /\ Gap <= PollGap /\ Gap <= unticked
    BY DEF IInv, TypeOK, Clock
  <2>2. CASE lastNow' = lastNow
    BY <2>1, <2>2 DEF Gap
  <2>3. CASE lastNow' = now
    <3>1. Gap' = 0
      BY <2>1, <2>3 DEF Gap, Sub
    <3> QED
      BY <2>1, <3>1
  <2> QED
    BY <2>1, <2>2, <2>3
<1>5. ASSUME NEW i \in InFlight(slots)' PROVE SlotInv(i)'
  <2>1. /\ i \in TxSlots /\ slots'[i] # Free /\ slots'[i] = slots[i]
        /\ hist'[i] = hist[i]
    BY <1>2 DEF InFlight, ForgetFreed
  <2> QED
    BY <2>1, SlotUntouched DEF IInv, InFlight
<1> QED
  BY <1>3, <1>4, <1>5 DEF IInv

(* What tick() does to each slot, in terms of the time really elapsed. *)
LEMMA PollEffect ==
    ASSUME IInv, Poll, NEW i \in InFlight(slots)
    PROVE  \/ /\ Elapsed(i) < slots[i].timeout
              /\ slots'[i] = slots[i] /\ hist'[i] = hist[i]
           \/ /\ Elapsed(i) >= slots[i].timeout
              /\ slots[i].retries < MaxRetransmit
              /\ slots'[i] = Rearm(slots[i])
              /\ hist'[i] = Restarted(hist[i])
           \/ /\ Elapsed(i) >= slots[i].timeout
              /\ slots[i].retries = MaxRetransmit
              /\ slots'[i] = Free /\ hist'[i] = NoHistory
<1>1. /\ i \in TxSlots /\ slots[i] # Free /\ slots[i] \in Transaction
      /\ Due(slots[i], now) <=> Elapsed(i) >= slots[i].timeout
  BY WrapSafe DEF InFlight
<1>2. /\ slots[i].retries \in 0 .. MaxRetransmit /\ slots[i].timeout \in Nat
      /\ hist[i].waited \in Nat /\ hist[i].lag \in Nat
  BY <1>1 DEF Transaction, IInv, TypeOK
<1>3. Elapsed(i) \in Nat
  BY <1>2 DEF Elapsed
<1>4. i \in DueSlots <=> Elapsed(i) >= slots[i].timeout
  BY <1>1 DEF DueSlots
<1>5. CASE i \notin DueSlots
  BY <1>1, <1>2, <1>3, <1>4, <1>5 DEF Poll, Resent, Expired
<1>6. CASE i \in DueSlots /\ slots[i].retries < MaxRetransmit
  BY <1>1, <1>4, <1>6 DEF Poll, Resent
<1>7. CASE i \in DueSlots /\ slots[i].retries = MaxRetransmit
  <2>1. i \in Expired(slots, DueSlots) /\ i \notin Resent(slots, DueSlots)
    BY <1>7, PoolAssumption DEF Resent, Expired
  <2> QED
    BY <1>1, <1>4, <1>7, <2>1 DEF Poll
<1> QED
  BY <1>2, <1>5, <1>6, <1>7

(* A slot that holds no transaction stays that way in a poll. *)
LEMMA PollFree ==
    ASSUME Poll, NEW i \in TxSlots, slots[i] = Free
    PROVE  slots'[i] = Free /\ hist'[i] = NoHistory
<1>1. i \notin DueSlots
  BY DEF DueSlots, InFlight
<1> QED
  BY <1>1 DEF Poll, Resent, Expired

(* A resend doubles the timeout inside the bound of the next retry. *)
LEMMA RearmFits ==
    ASSUME IInv, NEW i \in InFlight(slots), slots[i].retries < MaxRetransmit
    PROVE  /\ Rearm(slots[i]) \in Transaction
           /\ 2 * slots[i].timeout \in 1 .. MaxTimeout[slots[i].retries + 1]
           /\ Rearm(slots[i]).retries = slots[i].retries + 1
           /\ Rearm(slots[i]).timeout = 2 * slots[i].timeout
           /\ Rearm(slots[i]).nextRetryAt = Plus(now, 2 * slots[i].timeout)
<1>1. slots[i] \in Transaction /\ SlotInv(i)
  BY DEF IInv, TypeOK, InFlight
<1>2. /\ slots[i].retries \in 0 .. MaxRetransmit - 1 /\ slots[i].timeout \in Nat
      /\ slots[i].timeout \in 1 .. MaxTimeout[slots[i].retries]
      /\ now \in 0 .. Word - 1
  BY <1>1, PoolAssumption DEF Transaction, SlotInv, IInv, TypeOK, Clock
<1>3. /\ MaxTimeout[slots[i].retries + 1] = 2 * MaxTimeout[slots[i].retries]
      /\ MaxTimeout[slots[i].retries] \in Nat
      /\ 2 * (MaxTimeout[slots[i].retries + 1] + TickGap) < Word
  BY <1>2, BackoffFits
<1>4. 2 * slots[i].timeout \in 1 .. MaxTimeout[slots[i].retries + 1]
  BY <1>2, <1>3
<1>5. Plus(now, 2 * slots[i].timeout) \in 0 .. Word - 1
  BY <1>2, <1>3, <1>4 DEF Plus
<1>6. /\ slots[i].retries + 1 \in 0 .. MaxRetransmit
      /\ 2 * slots[i].timeout \in Nat
  BY <1>2, PoolAssumption
<1> QED
  BY <1>1, <1>4, <1>5, <1>6 DEF Rearm, Transaction, Clock

(* poll() *)
LEMMA PollPreserves ==
    ASSUME IInv, Poll
    PROVE  IInv'
<1>1. /\ now \in 0 .. Word - 1 /\ now' = now /\ lastNow' = now /\ Gap' = 0
      /\ unticked' = 0 /\ unticked \in Nat
  BY DEF IInv, TypeOK, Clock, Poll, Gap, Sub
<1>2. ASSUME NEW i \in TxSlots
      PROVE  /\ slots'[i] \in Transaction \cup {Free}
             /\ hist'[i] \in [first : Nat, waited : Nat, lag : Nat, total : Nat]
  <2>1. hist[i] \in [first : Nat, waited : Nat, lag : Nat, total : Nat]
    BY DEF IInv, TypeOK
  <2>2. Restarted(hist[i])
          \in [first : Nat, waited : Nat, lag : Nat, total : Nat]
    BY <2>1 DEF Restarted
  <2>3. NoHistory \in [first : Nat, waited : Nat, lag : Nat, total : Nat]
    BY DEF NoHistory
  <2>4. CASE slots[i] = Free
    BY <2>3, <2>4, PollFree
  <2>5. CASE slots[i] # Free
    <3>1. i \in InFlight(slots) /\ slots[i] \in Transaction
      BY <2>5 DEF InFlight, IInv, TypeOK
    <3> QED
      BY <2>1, <2>2, <2>3, <3>1, PollEffect, RearmFits
  <2> QED
    BY <2>4, <2>5
<1>3. TypeOK'
  <2>1. /\ slots' = [i \in TxSlots |-> slots'[i]]
        /\ hist' = [i \in TxSlots |-> hist'[i]]
    BY DEF Poll
  <2> QED
    BY <1>1, <1>2, <2>1 DEF TypeOK, Clock
<1>4. ASSUME NEW i \in InFlight(slots)' PROVE SlotInv(i)'
  <2>1. i \in InFlight(slots) /\ slots'[i] # Free
    BY PollFree DEF InFlight
  <2>2. /\ SlotInv(i) /\ slots[i] \in Transaction /\ slots[i].timeout \in Nat
        /\ hist[i] \in [first : Nat, waited : Nat, lag : Nat, total : Nat]
    BY <2>1 DEF IInv, TypeOK, InFlight, Transaction
  <2>3. CASE /\ Elapsed(i) < slots[i].timeout
             /\ slots'[i] = slots[i] /\ hist'[i] = hist[i]
    <3>1. Elapsed(i)' = Elapsed(i) /\ Remaining(i)' = Remaining(i)
      BY <2>3 DEF Elapsed, Remaining
    <3> QED
      BY <1>1, <2>2, <2>3, <3>1 DEF SlotInv, Elapsed, Plus
  <2>4. CASE /\ Elapsed(i) >= slots[i].timeout
             /\ slots[i].retries < MaxRetransmit
             /\ slots'[i] = Rearm(slots[i])
             /\ hist'[i] = Restarted(hist[i])
    <3>1. /\ slots'[i].timeout = 2 * slots[i].timeout
          /\ slots'[i].retries = slots[i].retries + 1
          /\ slots'[i].nextRetryAt = Plus(now, 2 * slots[i].timeout)
          /\ slots'[i].timeout \in 1 .. MaxTimeout[slots'[i].retries]
      BY <2>1, <2>4, RearmFits
    <3>2. /\ hist'[i].waited = 0 /\ hist'[i].lag = 0
          /\ hist'[i].total = hist[i].total /\ hist'[i].first = hist[i].first
      BY <2>2, <2>4 DEF Restarted
    <3>3. Elapsed(i)' = 0 /\ Remaining(i)' = 2 * slots[i].timeout
      BY <2>2, <3>1, <3>2 DEF Elapsed, Remaining
    <3>4. hist[i].total - 0 + PollGap >= 2 * slots[i].timeout - hist[i].first + 0
      BY <2>2, <2>4 DEF SlotInv, Elapsed
    <3>5. slots'[i].nextRetryAt = (IF now' + Remaining(i)' < 0
                                   THEN now' + Remaining(i)' + Word
                                   ELSE Plus(now, Remaining(i))')
      BY <1>1, <2>2, <3>1, <3>3 DEF Plus
    <3>6. Elapsed(i)' < slots'[i].timeout + unticked'
      BY <1>1, <2>2, <3>1, <3>3 DEF SlotInv
    <3>7. hist'[i].lag =< PollGap
      BY <3>2
    <3>8. hist'[i].total - hist'[i].waited + PollGap
            >= slots'[i].timeout - hist'[i].first + hist'[i].lag
      BY <3>1, <3>2, <3>4
    <3> QED
      BY <3>1, <3>5, <3>6, <3>7, <3>8 DEF SlotInv
  <2> QED
    BY <2>1, <2>3, <2>4, PollEffect
<1> QED
  BY <1>1, <1>3, <1>4 DEF IInv

(* Passing time *)
LEMMA AdvancePreserves ==
    ASSUME IInv, NEW d \in 1 .. PollGap, Advance(d)
    PROVE  IInv'
<1>1. /\ now \in 0 .. Word - 1 /\ lastNow \in 0 .. Word - 1
      /\ now' = Plus(now, d) /\ lastNow' = lastNow /\ slots' = slots
      /\ Gap \in Nat /\ Gap + d =< PollGap /\ d \in Nat
      /\ unticked' = unticked + d /\ unticked \in Nat
      /\ unticked + d =< TickGap /\ Gap =< unticked
  BY DEF IInv, TypeOK, Clock, Advance, Gap, Sub
<1>2. 2 * PollGap < Word
  <2>1. /\ MaxTimeout[0] \in Nat /\ 2 * (MaxTimeout[0] + TickGap) < Word
    BY BackoffFits, PoolAssumption
  <2> QED
    BY <2>1
<1>3. now' \in 0 .. Word - 1 /\ Gap' = Gap + d
  BY <1>1, <1>2 DEF Plus, Gap, Sub
<1>4. \A i \in TxSlots :
        hist[i] \in [first : Nat, waited : Nat, lag : Nat, total : Nat]
  BY DEF IInv, TypeOK
<1>5. TypeOK'
  <2>1. \A i \in TxSlots :
          Aged(hist[i], d) \in [first : Nat, waited : Nat, lag : Nat, total : Nat]
    BY <1>1, <1>4 DEF Aged
  <2> QED
    BY <1>1, <1>3, <1>4, <2>1 DEF TypeOK, IInv, Advance, Clock
<1>6. ASSUME NEW i \in InFlight(slots)' PROVE SlotInv(i)'
  <2>1. /\ i \in TxSlots /\ i \in InFlight(slots) /\ SlotInv(i)
        /\ slots[i] \in Transaction /\ slots[i].timeout \in Nat
        /\ slots[i].retries \in 0 .. MaxRetransmit
    BY <1>1 DEF InFlight, IInv, TypeOK, Transaction
  <2>2. /\ MaxTimeout[slots[i].retries] \in Nat
        /\ 2 * (MaxTimeout[slots[i].retries] + TickGap) < Word
    BY <2>1, BackoffFits
  <2>3. /\ hist'[i].waited = hist[i].waited + d /\ hist'[i].lag = hist[i].lag
        /\ hist'[i].total = hist[i].total + d /\ hist'[i].first = hist[i].first
    BY <2>1 DEF Advance, Aged, InFlight
  <2>4. /\ hist[i].waited \in Nat /\ hist[i].lag \in Nat
        /\ hist[i].total \in Nat /\ hist[i].first \in Nat
    BY <1>4, <2>1
  <2>5. /\ Elapsed(i) \in Nat /\ Elapsed(i)' = Elapsed(i) + d
        /\ Remaining(i) = slots[i].timeout - Elapsed(i)
        /\ Remaining(i)' = Remaining(i) - d
    BY <1>1, <2>1, <2>3, <2>4 DEF Elapsed, Remaining
  <2>6. slots'[i].nextRetryAt = (IF now' + Remaining(i)' < 0
                                 THEN now' + Remaining(i)' + Word
                                 ELSE Plus(now', Remaining(i)'))
    <3>1. slots'[i].nextRetryAt = (IF now + Remaining(i) < 0
                                   THEN now + Remaining(i) + Word
                                   ELSE Plus(now, Remaining(i)))
      BY <1>1, <2>1 DEF SlotInv
    <3>2. /\ Elapsed(i) < slots[i].timeout + unticked
          /\ slots[i].timeout \in 1 .. MaxTimeout[slots[i].retries]
      BY <2>1 DEF SlotInv
    <3> QED
      BY <1>1, <1>3, <2>2, <2>5, <3>1, <3>2 DEF Plus
  <2> QED
    BY <1>1, <1>3, <2>1, <2>3, <2>4, <2>5, <2>6 DEF SlotInv, Plus
<1> QED
  BY <1>1, <1>3, <1>5, <1>6 DEF IInv

(* The inductive step, one case per action. *)
LEMMA NextPreserves == IInv /\ [Next]_vars => IInv'
<1> SUFFICES ASSUME IInv, [Next]_vars PROVE IInv'
  OBVIOUS
<1>1. CASE \E r \in Remotes, m \in Mids, tok \in Tokens, t \in InitialTimeouts :
              Start(r, m, tok, t)
  BY <1>1, StartPreserves
<1>2. ASSUME NEW r \in Remotes, NEW m \in Mids, Complete(r, m) PROVE IInv'
  BY <1>2, FreePreserves DEF Complete, CompleteTx, SlotsByMid, InFlight
<1>3. ASSUME NEW r \in Remotes, NEW tok \in Tokens, CompleteToken(r, tok) PROVE IInv'
  BY <1>3, FreePreserves DEF CompleteToken, CompleteByToken, SlotsByToken, InFlight
<1>4. ASSUME NEW r \in Remotes, NEW m \in Mids, PollReset(r, m) PROVE IInv'
  BY <1>4, FreePreserves DEF PollReset, CompleteTx, SlotsByMid, InFlight
<1>5. CASE Poll
  BY <1>5, PollPreserves
<1>6. CASE \E d \in 1 .. PollGap : Advance(d)
  BY <1>6, AdvancePreserves
<1>7. CASE UNCHANGED vars
  BY <1>7 DEF vars, IInv, TypeOK, InFlight, SlotInv, Elapsed, Remaining, Gap
<1> QED
  BY <1>1, <1>2, <1>3, <1>4, <1>5, <1>6, <1>7 DEF Next

(* A platform clock that starts near zero, as millis() does, establishes   *)
(* the invariant.                                                          *)
LEMMA InitInv ==
    ASSUME BootClocks \subseteq 0 .. PollGap, Init
    PROVE  IInv
<1>1. InFlight(slots) = {}
  BY DEF Init, EmptyPool, InFlight
<1>2. now \in 0 .. PollGap /\ now \in 0 .. Word - 1 /\ lastNow = 0
  BY DEF Init
<1>3. TypeOK
  BY <1>2 DEF Init, TypeOK, EmptyPool, NoHistory, Clock
<1>4. Gap =< PollGap /\ Gap =< unticked /\ unticked =< TickGap
  BY <1>2 DEF Init, Gap, Sub
<1> QED
  BY <1>1, <1>3, <1>4 DEF IInv

(***************************************************************************)
(* The slots always hold well-formed transactions, the clock and its       *)
(* stored copy are words, and the inductive invariant holds throughout.    *)
(***************************************************************************)
THEOREM TypeCorrect ==
    ASSUME BootClocks \subseteq 0 .. PollGap
    PROVE  Spec => []IInv /\ []TypeOK
<1>1. Init => IInv
  BY InitInv
<1>2. IInv => TypeOK
  BY DEF IInv
<1> QED
  BY <1>1, <1>2, NextPreserves, PTL DEF Spec

(***************************************************************************)
(* TransactionPool::tick() is right across every wrap of the 32-bit clock: *)
(* a slot is called due exactly when its timeout has really elapsed.       *)
(***************************************************************************)
THEOREM WrapAroundSafe ==
    ASSUME BootClocks \subseteq 0 .. PollGap
    PROVE  Spec => []DueIffElapsed
<1>1. IInv => DueIffElapsed
  BY WrapSafe DEF DueIffElapsed, Elapsed
<1> QED
  BY <1>1, TypeCorrect, PTL

(***************************************************************************)
(* tick() forgets no transaction: none stays overdue past the next tick,   *)
(* wherever the clock has wrapped and however many polls a Reset has cut   *)
(* short in between.                                                       *)
(***************************************************************************)
THEOREM PromptlyServed ==
    ASSUME BootClocks \subseteq 0 .. PollGap
    PROVE  Spec => []NeverOverdue
<1>1. IInv => NeverOverdue
  <2> SUFFICES ASSUME IInv, NEW i \in InFlight(slots)
               PROVE  hist[i].waited < slots[i].timeout + unticked
    BY DEF NeverOverdue
  <2>1. /\ SlotInv(i) /\ slots[i] \in Transaction
        /\ hist[i] \in [first : Nat, waited : Nat, lag : Nat, total : Nat]
    BY DEF IInv, TypeOK, InFlight
  <2>2. unticked \in Nat /\ slots[i].timeout \in Nat
    BY <2>1 DEF IInv, TypeOK, Transaction
  <2> QED
    BY <2>1, <2>2 DEF SlotInv, Elapsed
<1> QED
  BY <1>1, TypeCorrect, PTL

(* Outside a poll a transaction in flight stays as it is or is completed. *)
LEMMA OnlyPollServes ==
    ASSUME IInv, [Next]_vars, ~Poll, NEW i \in InFlight(slots)
    PROVE  slots'[i] = slots[i] \/ slots'[i] = Free
<1>1. slots \in [TxSlots -> Transaction \cup {Free}] /\ i \in TxSlots
  BY DEF IInv, TypeOK, InFlight
<1>2. ASSUME NEW r \in Remotes, NEW m \in Mids, NEW tok \in Tokens,
             NEW t \in InitialTimeouts, Start(r, m, tok, t)
      PROVE  slots'[i] = slots[i]
  BY <1>1, <1>2, StartTxKeeps DEF Start
<1>3. ASSUME NEW matches \in SUBSET TxSlots, slots' = FreeFirst(slots, matches)
      PROVE  slots'[i] = slots[i] \/ slots'[i] = Free
  BY <1>1, <1>3, FreeFirstEffect
<1>4. ASSUME NEW r \in Remotes, NEW m \in Mids, Complete(r, m)
      PROVE  slots'[i] = slots[i] \/ slots'[i] = Free
  BY <1>3, <1>4 DEF Complete, CompleteTx, SlotsByMid, InFlight
<1>5. ASSUME NEW r \in Remotes, NEW tok \in Tokens, CompleteToken(r, tok)
      PROVE  slots'[i] = slots[i] \/ slots'[i] = Free
  BY <1>3, <1>5 DEF CompleteToken, CompleteByToken, SlotsByToken, InFlight
<1>6. ASSUME NEW r \in Remotes, NEW m \in Mids, PollReset(r, m)
      PROVE  slots'[i] = slots[i] \/ slots'[i] = Free
  BY <1>3, <1>6 DEF PollReset, CompleteTx, SlotsByMid, InFlight
<1> QED
  BY <1>2, <1>4, <1>5, <1>6 DEF Next, Advance, vars

(* What the invariant says of a slot in flight. *)
LEMMA InFlightTyped ==
    ASSUME IInv, NEW i \in InFlight(slots)
    PROVE  /\ SlotInv(i) /\ slots[i].timeout \in Nat
           /\ hist[i] \in [first : Nat, waited : Nat, lag : Nat, total : Nat]
<1> QED
  BY DEF IInv, TypeOK, InFlight, Transaction

(***************************************************************************)
(* tick() does not resend early: every resend comes after the timeout      *)
(* since the last transmission, up to the staleness of lastNowMs_ when the *)
(* transaction was armed.                                                  *)
(***************************************************************************)
THEOREM NeverEarly ==
    ASSUME BootClocks \subseteq 0 .. PollGap
    PROVE  Spec => ResendSpacing
<1>1. IInv /\ [Next]_vars =>
        [\A i \in InFlight(slots) :
           slots'[i] # Free /\ slots'[i].retries # slots[i].retries
           => hist[i].waited + PollGap >= slots[i].timeout]_vars
  <2> SUFFICES ASSUME IInv, [Next]_vars, NEW i \in InFlight(slots),
                      slots'[i] # Free, slots'[i].retries # slots[i].retries
               PROVE  hist[i].waited + PollGap >= slots[i].timeout
    OBVIOUS
  <2>1. Poll
    BY OnlyPollServes
  <2>2. Elapsed(i) >= slots[i].timeout
    BY <2>1, PollEffect
  <2> QED
    BY <2>2, InFlightTyped DEF SlotInv, Elapsed
<1> QED
  BY <1>1, TypeCorrect, PTL DEF Spec, ResendSpacing

(***************************************************************************)
(* tick() does not give up early: a transaction is dropped only after all  *)
(* MaxRetransmit resends had their doubled timeouts, up to the staleness   *)
(* of lastNowMs_ when the transaction was armed.                           *)
(***************************************************************************)
THEOREM GivesUpLast ==
    ASSUME BootClocks \subseteq 0 .. PollGap
    PROVE  Spec => PatientTimeout
<1>1. IInv /\ [Next]_vars =>
        [Poll => \A i \in InFlight(slots) :
           slots'[i] = Free =>
             /\ slots[i].retries = MaxRetransmit
             /\ hist[i].total + PollGap >= 2 * slots[i].timeout - hist[i].first]_vars
  <2> SUFFICES ASSUME IInv, Poll, NEW i \in InFlight(slots), slots'[i] = Free
               PROVE  /\ slots[i].retries = MaxRetransmit
                      /\ hist[i].total + PollGap
                            >= 2 * slots[i].timeout - hist[i].first
    OBVIOUS
  <2>1. slots[i].retries < MaxRetransmit => Rearm(slots[i]) # Free
    BY RearmFits, FreeAssumption
  <2>2. Elapsed(i) >= slots[i].timeout /\ slots[i].retries = MaxRetransmit
    BY <2>1, PollEffect DEF InFlight
  <2> QED
    BY <2>2, InFlightTyped DEF SlotInv, Elapsed
<1> QED
  BY <1>1, TypeCorrect, PTL DEF Spec, PatientTimeout
=============================================================================
