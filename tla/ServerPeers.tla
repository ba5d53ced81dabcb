---------------------------- MODULE ServerPeers -----------------------------
(***************************************************************************)
(* A Server among arbitrary CoAP clients (RFC 7252), which send requests   *)
(* with tokens of their choice, acknowledge, reset or ignore what they     *)
(* receive, and vanish.                                                    *)
(***************************************************************************)
EXTENDS Server

CONSTANTS
    PeerRequests,   \* peer -> what it asks: records [type, code, obs, path,
                    \* token]
    MaxRequests,    \* bound: requests they send
    SilentPeers     \* peers that never acknowledge or reset

ASSUME PeersAssumption ==
    /\ ServerEp \notin Peers /\ MaxRequests \in Nat
    /\ \A p \in Peers : \A q \in PeerRequests[p] :
          /\ q.type \in {"CON", "NON"} /\ q.code \in MethodCodes
          /\ q.obs \in ObserveOptions /\ q.token \in Tokens

VARIABLE asked      \* number of requests sent so far

vars == <<sv, held, net, dups, asked>>

(* A new request; its message ID and its number are the peer's counter.    *)
PeerAsk ==
    /\ asked < MaxRequests
    /\ asked' = asked + 1
    /\ \E p \in Peers : \E q \in PeerRequests[p] :
         Transmit({[src |-> p, dst |-> ServerEp, type |-> q.type, code |-> q.code,
                    mid |-> asked % MidMod, token |-> q.token, obs |-> q.obs,
                    path |-> q.path, about |-> asked + 1]})
    /\ UNCHANGED serverVars

Reset(m) == [EmptyAck(m.dst, m.src, m.mid) EXCEPT !.type = "RST"]

(* A CON may be acknowledged or reset, a NON reset. *)
PeerAnswer(m) ==
    /\ m \in net /\ m.dst \in Peers \ SilentPeers
    /\ \/ m.type = "CON" /\ Deliver(m, {EmptyAck(m.dst, m.src, m.mid)})
       \/ m.type \in {"CON", "NON"} /\ Deliver(m, {Reset(m)})
    /\ UNCHANGED <<serverVars, asked>>

Init == NetInit /\ ServerInit /\ asked = 0

Next ==
    \/ ServerNext /\ UNCHANGED asked
    \/ PeerAsk
    \/ \E m \in net : PeerAnswer(m)
    \/ \E m \in net : Lose(m) /\ UNCHANGED <<serverVars, asked>>

Spec == Init /\ [][Next]_vars

(* The main loop keeps polling and time passes, so that each transaction   *)
(* in flight is found due again and again until it ends.                   *)
ServeSlot(i) ==
    /\ i \in InFlight(sv.tx)
    /\ LET s == TickServer(sv, {i})
       IN  sv' = [s EXCEPT !.out = {}] /\ Transmit(s.out)
    /\ UNCHANGED <<held, asked>>

LiveSpec == Spec /\ \A i \in TxSlots : WF_vars(ServeSlot(i))

(* The slots of peer p that its n-th request registered. *)
RegisteredBy(p, n) ==
    {i \in Occupied(sv.observers) :
        sv.observers[i].remote = p /\ sv.observers[i].about = n}

(* Dead-peer detection (PulseCoAPServer.h, notify()): once a Confirmable   *)
(* notification to an observer that never acknowledges is tracked, its     *)
(* registration ends, unless the observer renews it, however the           *)
(* observer slot is reused in between.                                     *)
DeadPeerRemoved ==
    \A p \in SilentPeers, n \in 1 .. MaxRequests :
       (\E i \in RegisteredBy(p, n) : SlotsByToken(sv.tx, p, sv.observers[i].token) # {})
       ~> RegisteredBy(p, n) = {}
=============================================================================
