------------------------------ MODULE LwipRing ------------------------------
(***************************************************************************)
(* The receive ring of LwIpUdpTransport (PulseCoAPTransportLwIP.h):        *)
(* recvCallback() puts datagrams in, receive() takes them out.  head and   *)
(* tail are uint32_t counters that are never reset; they index the ring    *)
(* modulo its size, so their own overflow matters.                         *)
(*                                                                         *)
(* A datagram is its number in the order of arrival and its length; its    *)
(* bytes and the remote endpoint travel with the number.                   *)
(***************************************************************************)
EXTENDS Integers, Sequences

CONSTANTS
    Slots,         \* PULSECOAP_LWIP_RX_SLOTS
    CounterMod,    \* number of values of the counters (uint32_t)
    MaxMsg,        \* PULSECOAP_MAX_MSG_SIZE, also the buffer of poll()
    Lengths,       \* lengths of arriving datagrams
    MaxArrivals    \* bound: datagrams that arrive

ASSUME RingAssumption ==
    /\ Slots \in Nat \ {0} /\ CounterMod \in Nat /\ CounterMod > Slots
    /\ MaxMsg \in Nat /\ Lengths \subseteq Nat /\ MaxArrivals \in Nat

(* Default: 4 slots, 2^32 counter values.  Nothing in the code enforces it; *)
(* for other sizes the ring loses its order when the counters overflow.    *)
ASSUME SizeAssumption == CounterMod % Slots = 0

VARIABLES
    up,            \* pcb_ is bound and recvCallback() installed
    slots,         \* slots_
    head, tail,    \* head_, tail_
    arrived,       \* datagrams that have reached recvCallback()
    taken          \* what receive() returned last

ringVars == <<up, slots, head, tail, arrived, taken>>

Empty == [id |-> 0, len |-> 0]

(* tail_ - head_, in uint32_t arithmetic *)
Used == (tail - head) % CounterMod

Shorter(a, b) == IF a < b THEN a ELSE b

(* The slot keeps the first MaxMsg bytes, and forgets there were more. *)
Clamped(id, len) == [id |-> id, len |-> Shorter(len, MaxMsg)]

RingInit ==
    /\ up = FALSE
    /\ slots = [i \in 0 .. Slots - 1 |-> Empty]
    /\ head = 0 /\ tail = 0 /\ arrived = 0 /\ taken = Empty

(* begin() succeeds; when it fails, or is called again, nothing changes. *)
Begin == ~up /\ up' = TRUE /\ UNCHANGED <<slots, head, tail, arrived, taken>>

(* Mutant: one datagram more than the ring has slots. *)
ArriveOneMore(len) ==
    /\ up /\ arrived < MaxArrivals
    /\ arrived' = arrived + 1
    /\ IF Used <= Slots
       THEN /\ slots' = [slots EXCEPT ![tail % Slots] = Clamped(arrived + 1, len)]
            /\ tail' = (tail + 1) % CounterMod
       ELSE UNCHANGED <<slots, tail>>
    /\ UNCHANGED <<up, head, taken>>

(* recvCallback() *)
Arrive(len) ==
    /\ up /\ arrived < MaxArrivals
    /\ arrived' = arrived + 1
    /\ IF Used < Slots
       THEN /\ slots' = [slots EXCEPT ![tail % Slots] = Clamped(arrived + 1, len)]
            /\ tail' = (tail + 1) % CounterMod
       ELSE UNCHANGED <<slots, tail>>
    /\ UNCHANGED <<up, head, taken>>

(* receive(): the buffer of poll() is MaxMsg bytes. *)
Receive ==
    /\ head # tail
    /\ taken' = LET s == slots[head % Slots] IN [s EXCEPT !.len = Shorter(@, MaxMsg)]
    /\ head' = (head + 1) % CounterMod
    /\ UNCHANGED <<up, slots, tail, arrived>>

RingNext == Begin \/ (\E len \in Lengths : Arrive(len)) \/ Receive

RingSpec == RingInit /\ [][RingNext]_ringVars

-----------------------------------------------------------------------------
(* What is waiting in the ring, oldest first. *)
Waiting == [k \in 1 .. Used |-> slots[((head + k - 1) % CounterMod) % Slots]]

Fifo == INSTANCE BoundedFifo WITH
          queue <- Waiting, got <- taken, Capacity <- Slots, NoDatagram <- Empty,
          Datagrams <- {Clamped(id, len) : id \in 1 .. MaxArrivals, len \in Lengths}

(* What is kept comes out once and in order, also after the counters have  *)
(* wrapped around: nothing is overwritten, repeated or reordered.  The     *)
(* FIFO drops the arriving datagram when it is full, as recvCallback()     *)
(* does (PulseCoAPTransportLwIP.h:144-146).                                *)
RingIsFifo == Fifo!Spec

(* "the oldest datagram is silently dropped"                               *)
(* (PulseCoAPTransportLwIP.h:30-31): the arriving one is always kept.      *)
OldestIsDropped ==
    [][\A len \in Lengths :
          Arrive(len) => \E k \in DOMAIN Waiting' : Waiting'[k].id = arrived']_ringVars
=============================================================================
