---------------------------- MODULE BoundedFifo -----------------------------
(***************************************************************************)
(* What a transport with a receive buffer promises to poll(): datagrams    *)
(* come out in the order they went in, none twice, and as long as there    *)
(* is room none is lost; one that meets a full buffer is dropped.          *)
(***************************************************************************)
EXTENDS Naturals, Sequences

CONSTANTS Datagrams, Capacity, NoDatagram

VARIABLES queue, got

Init == queue = <<>> /\ got = NoDatagram

Put(d) ==
    /\ queue' = IF Len(queue) < Capacity THEN Append(queue, d) ELSE queue
    /\ UNCHANGED got

Get ==
    /\ queue # <<>>
    /\ got' = Head(queue)
    /\ queue' = Tail(queue)

Next == (\E d \in Datagrams : Put(d)) \/ Get

Spec == Init /\ [][Next]_<<queue, got>>
=============================================================================
