--------------------------- MODULE TransactionOps ---------------------------
(***************************************************************************)
(* The table of in-flight Confirmable messages of class TransactionPool    *)
(* (PulseCoAPTransaction.h/.cpp), as operators on a function from slots to *)
(* transactions.  The timed machine TransactionPool and the two roles that *)
(* own a pool, Client and Server, use these operators; they differ only in *)
(* the fields of a transaction they keep.  Every transaction has at least  *)
(* the fields remote, mid, token and retries.                              *)
(***************************************************************************)
EXTENDS Integers, FiniteSetsExt

CONSTANTS
    MaxTransactions,   \* PULSECOAP_MAX_TRANSACTIONS
    MaxRetransmit,     \* PULSECOAP_MAX_RETRANSMIT
    Free               \* a slot in TransactionState::Free

ASSUME PoolAssumption ==
    /\ MaxTransactions \in Nat \ {0}
    /\ MaxRetransmit \in Nat

(* slots_[0 .. PULSECOAP_MAX_TRANSACTIONS-1] *)
TxSlots == 0 .. MaxTransactions - 1

(* reset(): every slot back to a default-constructed Transaction.  What a  *)
(* freed slot still holds is never read: every reader tests its state.     *)
EmptyPool == [i \in TxSlots |-> Free]

(* The entries of any fixed table of the library that are active, and the  *)
(* ones a new entry may take.                                              *)
Occupied(table) == {i \in DOMAIN table : table[i] # Free}
Vacant(table)   == {i \in DOMAIN table : table[i] = Free}

FreeSlots(pool) == {i \in TxSlots : pool[i] = Free}

InFlight(pool) == {i \in TxSlots : pool[i] # Free}

(* activeCount() *)
ActiveCount(pool) == Cardinality(InFlight(pool))

(* start(): the first Free slot takes the transaction.  A full pool        *)
(* returns -1 and tracks nothing.                                          *)
StartTx(pool, tx) ==
    IF FreeSlots(pool) = {}
    THEN pool
    ELSE [pool EXCEPT ![Min(FreeSlots(pool))] = tx]

(* The loops of complete() and getToken() stop at the first slot with this *)
(* remote and message ID, the loop of completeByToken() at the first one   *)
(* with this remote and token.                                             *)
SlotsByMid(pool, remote, mid) ==
    {i \in InFlight(pool) : pool[i].remote = remote /\ pool[i].mid = mid}

SlotsByToken(pool, remote, token) ==
    {i \in InFlight(pool) : pool[i].remote = remote /\ pool[i].token = token}

FreeFirst(pool, matches) ==
    IF matches = {} THEN pool ELSE [pool EXCEPT ![Min(matches)] = Free]

(* complete() *)
CompleteTx(pool, remote, mid) ==
    FreeFirst(pool, SlotsByMid(pool, remote, mid))

(* completeByToken() *)
CompleteByToken(pool, remote, token) ==
    FreeFirst(pool, SlotsByToken(pool, remote, token))

(* getToken(): the token of the matching transaction, or {} for "false".   *)
GetToken(pool, remote, mid) ==
    LET matches == SlotsByMid(pool, remote, mid)
    IN  IF matches = {} THEN {} ELSE {pool[Min(matches)].token}

(* tick(): what happens to the slots whose deadline has passed.  Those     *)
(* with retries left are resent, the others are freed before onTimeout is  *)
(* called for them.                                                        *)
(* Mutants of the two comparisons with MaxRetransmit. *)
ResentOnceMore(pool, due) == {i \in due : pool[i].retries <= MaxRetransmit}
ExpiredLate(pool, due)    == {i \in due : pool[i].retries > MaxRetransmit}

Resent(pool, due)  == {i \in due : pool[i].retries < MaxRetransmit}
Expired(pool, due) == {i \in due : pool[i].retries >= MaxRetransmit}

RetryCounted(tx) == [tx EXCEPT !.retries = @ + 1]

(* tick() of a role that leaves the clock out. *)
TickTx(pool, due) ==
    [i \in TxSlots |->
        CASE i \in Resent(pool, due)  -> RetryCounted(pool[i])
          [] i \in Expired(pool, due) -> Free
          [] OTHER -> pool[i]]
=============================================================================
