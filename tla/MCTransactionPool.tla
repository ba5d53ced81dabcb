------------------------- MODULE MCTransactionPool --------------------------
(* TransactionPool on small words. *)
EXTENDS TransactionPool
MCMaxTimeout == [n \in 0 .. MaxRetransmit |-> (AckTimeout + JitterSpan) * 2^n]
=============================================================================
