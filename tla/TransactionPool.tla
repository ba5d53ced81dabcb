-------------------------- MODULE TransactionPool ---------------------------
(***************************************************************************)
(* The retransmission engine of PulseCoAPTransaction.cpp with its clock.   *)
(* The owner of the pool (Client or Server) stores the last time it was    *)
(* polled in lastNowMs_ and arms a new transaction from that stored value, *)
(* not from the clock; tick() compares the 32-bit deadline of each slot    *)
(* with the 32-bit clock by signed difference.  Here the word has Word     *)
(* values, the clock wraps, and the owner polls at least once every        *)
(* PollGap milliseconds.  Server::poll() ticks every time; Client::poll()  *)
(* does not when it receives a Reset (PollReset), so ticks may be further  *)
(* apart than polls, by TickGap at most.                                   *)
(*                                                                         *)
(* hist and unticked are history variables: for each slot, how long the    *)
(* transaction has really been waiting, and how long ago the last tick     *)
(* was.  Only the guards of Advance, the bounds on time, read them.        *)
(***************************************************************************)
EXTENDS TransactionOps

CONSTANTS
    Word,         \* number of values of a uint32_t
    AckTimeout,   \* PULSECOAP_ACK_TIMEOUT_MS
    JitterSpan,   \* AckTimeout * (ACK_RANDOM_FACTOR - 1)
    MaxTimeout,   \* MaxTimeout[n] bounds the timeout after n retries
    PollGap,      \* longest time between two calls of poll()
    TickGap,      \* longest time between two polls that tick
    BootClocks,   \* what the clock may read when the owner is constructed
    Horizon,      \* bound of the model: no transaction waits longer than this
    Remotes, Mids, Tokens

(* computeInitialTimeoutMs(): base + (hash % span), or base if span is 0. *)
InitialTimeouts ==
    IF JitterSpan > 0 THEN AckTimeout .. AckTimeout + JitterSpan - 1
                      ELSE {AckTimeout}

ASSUME TimingAssumption ==
    /\ Word \in Nat /\ AckTimeout \in Nat \ {0}
    /\ JitterSpan \in Nat /\ PollGap \in Nat /\ Horizon \in Nat
    /\ TickGap \in Nat /\ PollGap <= TickGap
    /\ BootClocks \subseteq 0 .. Word - 1

(* Doubling never leaves the half of the word in which a signed difference *)
(* is positive: 3000 * 2^4 ms against 2^31 with the default configuration. *)
ASSUME BackoffAssumption ==
    /\ MaxTimeout \in [0 .. MaxRetransmit -> Nat]
    /\ MaxTimeout[0] = AckTimeout + JitterSpan
    /\ \A n \in 1 .. MaxRetransmit : MaxTimeout[n] = 2 * MaxTimeout[n - 1]
    /\ \A n \in 0 .. MaxRetransmit : 2 * (MaxTimeout[n] + TickGap) < Word

VARIABLES
    slots,     \* slots_
    now,       \* the platform's millisecond counter
    lastNow,   \* lastNowMs_ of the owner
    hist,      \* history: first timeout, true waiting times, initial lag
    unticked   \* history: true time since the last tick

vars == <<slots, now, lastNow, hist, unticked>>

Clock == 0 .. Word - 1

(* uint32_t arithmetic of two words, and of a word and a small number. *)
Sub(a, b)  == IF a >= b THEN a - b ELSE a - b + Word
PlusNoWrap(a, d) == a + d      \* mutant
Plus(a, d) == IF a + d >= Word THEN a + d - Word ELSE a + d

(* How far lastNowMs_ is behind the clock. *)
Gap == Sub(now, lastNow)

(* Mutant: the deadline compared with the clock as an unsigned number. *)
DueUnsigned(t, clock) == t.nextRetryAt <= clock

(* tick(): remaining = (int32_t)(nextRetryAtMs - nowMs); due unless > 0. *)
Due(t, clock) == LET d == Sub(t.nextRetryAt, clock)
                 IN  ~(0 < d /\ 2 * d < Word)

DueSlots == {i \in InFlight(slots) : Due(slots[i], now)}

Transaction == [remote : Remotes, mid : Mids, token : Tokens,
                retries : 0 .. MaxRetransmit, timeout : Nat,
                nextRetryAt : Clock]

ASSUME FreeAssumption == Free \notin Transaction

NoHistory == [first |-> 0, waited |-> 0, lag |-> 0, total |-> 0]

Init ==
    /\ slots = EmptyPool
    /\ now \in BootClocks
    /\ lastNow = 0
    /\ hist = [i \in TxSlots |-> NoHistory]
    /\ unticked = now

(* start(), called with lastNowMs_ right after the message was first sent. *)
Start(r, m, tok, timeout) ==
    LET tx == [remote |-> r, mid |-> m, token |-> tok, retries |-> 0,
               timeout |-> timeout, nextRetryAt |-> Plus(lastNow, timeout)]
        fresh == [first |-> timeout, waited |-> 0, lag |-> Gap, total |-> 0]
    IN  /\ slots' = StartTx(slots, tx)
        /\ hist' = [i \in TxSlots |->
                      IF slots[i] = Free /\ slots'[i] # Free THEN fresh ELSE hist[i]]
        /\ UNCHANGED <<now, lastNow, unticked>>

(* A freed slot has no history. *)
ForgetFreed ==
    hist' = [i \in TxSlots |-> IF slots'[i] = Free THEN NoHistory ELSE hist[i]]

(* complete(), called when an ACK or RST arrives. *)
Complete(r, m) ==
    /\ SlotsByMid(slots, r, m) # {}
    /\ slots' = CompleteTx(slots, r, m)
    /\ ForgetFreed
    /\ UNCHANGED <<now, lastNow, unticked>>

(* completeByToken(), offered for separate responses. *)
CompleteToken(r, tok) ==
    /\ SlotsByToken(slots, r, tok) # {}
    /\ slots' = CompleteByToken(slots, r, tok)
    /\ ForgetFreed
    /\ UNCHANGED <<now, lastNow, unticked>>

(* Mutant: the deadline armed before the timeout is doubled. *)
RearmUndoubled(t) ==
    [remote |-> t.remote, mid |-> t.mid, token |-> t.token,
     retries |-> t.retries + 1, timeout |-> 2 * t.timeout,
     nextRetryAt |-> Plus(now, t.timeout)]

(* A resend doubles the timeout and arms it from the polled clock. *)
Rearm(t) ==
    [remote |-> t.remote, mid |-> t.mid, token |-> t.token,
     retries |-> t.retries + 1, timeout |-> 2 * t.timeout,
     nextRetryAt |-> Plus(now, 2 * t.timeout)]

Restarted(h) == [first |-> h.first, waited |-> 0, lag |-> 0, total |-> h.total]

(* Client::poll() given a Reset: lastNowMs_ = nowMs, complete(), if some    *)
(* transaction matches, and an early return before the tick.               *)
PollReset(r, m) ==
    /\ lastNow' = now
    /\ slots' = CompleteTx(slots, r, m)
    /\ ForgetFreed
    /\ UNCHANGED <<now, unticked>>

(* poll(): lastNowMs_ = nowMs, then tick(nowMs) over every slot. *)
Poll ==
    /\ lastNow' = now
    /\ slots' = [i \in TxSlots |->
                   IF i \in Resent(slots, DueSlots) THEN Rearm(slots[i])
                   ELSE IF i \in Expired(slots, DueSlots) THEN Free
                   ELSE slots[i]]
    /\ hist' = [i \in TxSlots |->
                   IF i \in Resent(slots, DueSlots)
                   THEN Restarted(hist[i])
                   ELSE IF slots'[i] = Free THEN NoHistory ELSE hist[i]]
    /\ unticked' = 0
    /\ UNCHANGED now

Aged(h, d) == [first |-> h.first, waited |-> h.waited + d, lag |-> h.lag,
               total |-> h.total + d]

(* Time passes; the owner does not stay away longer than PollGap, and      *)
(* Resets do not keep it from ticking longer than TickGap.  Horizon keeps  *)
(* hist finite where a transaction would never end.                        *)
Advance(d) ==
    /\ Gap + d <= PollGap
    /\ unticked + d <= TickGap
    /\ \A i \in InFlight(slots) : hist[i].total + d <= Horizon
    /\ now' = Plus(now, d)
    /\ hist' = [i \in TxSlots |->
                  IF slots[i] = Free THEN hist[i]
                  ELSE Aged(hist[i], d)]
    /\ unticked' = unticked + d
    /\ UNCHANGED <<slots, lastNow>>

Next ==
    \/ \E r \in Remotes, m \in Mids, tok \in Tokens, t \in InitialTimeouts :
          Start(r, m, tok, t)
    \/ \E r \in Remotes, m \in Mids : Complete(r, m)
    \/ \E r \in Remotes, tok \in Tokens : CompleteToken(r, tok)
    \/ \E r \in Remotes, m \in Mids : PollReset(r, m)
    \/ Poll
    \/ \E d \in 1 .. PollGap : Advance(d)

Spec == Init /\ [][Next]_vars

(* The main loop keeps calling poll(), not every poll finds a Reset, and    *)
(* the clock keeps running.                                                *)
LiveSpec ==
    /\ Spec
    /\ WF_vars(Poll)
    /\ WF_vars(\E d \in 1 .. PollGap : Advance(d))

-----------------------------------------------------------------------------
(* Type invariant of the slots, the clock and its stored copy. *)
TypeOK ==
    /\ slots \in [TxSlots -> Transaction \cup {Free}]
    /\ now \in Clock /\ lastNow \in Clock
    /\ hist \in [TxSlots -> [first : Nat, waited : Nat, lag : Nat, total : Nat]]
    /\ unticked \in Nat

(* The signed comparison in tick() calls a slot due exactly when its       *)
(* timeout has really run out since it was armed, on both sides of every   *)
(* wrap of the 32-bit clock.                                               *)
DueIffElapsed ==
    \A i \in InFlight(slots) :
        Due(slots[i], now) <=> hist[i].waited + hist[i].lag >= slots[i].timeout

(* No transaction is forgotten: once its timeout has run out it is served  *)
(* by the next tick(), so it is never overdue by more than the time since  *)
(* the last tick.  That time is the polling gap of a server; of a client   *)
(* it is longer by every poll that returns early with a Reset.             *)
NeverOverdue ==
    \A i \in InFlight(slots) : hist[i].waited < slots[i].timeout + unticked

(* tick() never resends before the timeout has run out since the last      *)
(* transmission, up to the staleness of lastNowMs_ when it was armed.      *)
ResendSpacing ==
    [][\A i \in InFlight(slots) :
          slots'[i] # Free /\ slots'[i].retries # slots[i].retries
          => hist[i].waited + PollGap >= slots[i].timeout]_vars

(* tick() gives a transaction up only after the original transmission and  *)
(* MaxRetransmit resends have each been given their doubled timeout: with  *)
(* first timeout t and last timeout T that is 2T - t milliseconds.         *)
PatientTimeout ==
    [][Poll => \A i \in InFlight(slots) :
          slots'[i] = Free =>
             /\ slots[i].retries = MaxRetransmit
             /\ hist[i].total + PollGap >= 2 * slots[i].timeout - hist[i].first]_vars

(* Every transaction ends, acknowledged or given up. *)
EveryTransactionEnds ==
    \A i \in TxSlots : slots[i] # Free ~> slots[i] = Free
=============================================================================
