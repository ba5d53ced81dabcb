------------------------------ MODULE CoapNet -------------------------------
(***************************************************************************)
(* The datagram network under Client and Server, and the packets they      *)
(* exchange, reduced to what the two roles branch on.                      *)
(*                                                                         *)
(* The network is a set of packets in flight.  A packet may be delivered   *)
(* late, out of order or never, may be lost at any moment, and as long as  *)
(* dups is positive a delivery may leave a copy behind.  A resend of a     *)
(* packet that is still in flight adds nothing new to the set; one of a    *)
(* packet that was already delivered makes the peer see it again.  At most *)
(* MaxNet packets are in flight: what is sent into a full network is lost. *)
(***************************************************************************)
EXTENDS Integers, FiniteSets

CONSTANTS
    MaxDups,      \* bound: deliveries that leave a copy in the network
    MaxNet,       \* bound: packets in flight at the same time
    MidMod,       \* number of message IDs (uint16_t)
    NoToken       \* a packet whose token has length 0

ASSUME NetAssumption == MaxDups \in Nat /\ MaxNet \in Nat /\ MidMod \in Nat \ {0}

(* Values of a message ID. *)
Mids == 0 .. MidMod - 1

VARIABLES
    net,          \* packets in flight
    dups          \* how many deliveries may still be duplicated

netVars == <<net, dups>>

NetInit == net = {} /\ dups = MaxDups

Carry(packets, out) ==
    IF Cardinality(packets \cup out) <= MaxNet THEN packets \cup out ELSE packets

(* Transport::receive() hands packet m over; the packets in out are sent.  *)
Deliver(m, out) ==
    \/ net' = Carry(net \ {m}, out) /\ UNCHANGED dups
    \/ dups > 0 /\ net' = Carry(net, out) /\ dups' = dups - 1

Transmit(out) == net' = Carry(net, out) /\ UNCHANGED dups

Lose(m) == net' = net \ {m} /\ UNCHANGED dups

MethodCodes   == {"Get", "Put"}
ResponseCodes == {"Content", "NotFound", "MethodNotAllowed", "Continue", "BadRequest",
                  "Incomplete", "TooLarge", "Unavailable"}

(* The Observe option of a request: absent, 0 or any other value.          *)
ObserveOptions == {"none", "register", "deregister"}

(* The fields every packet has. *)
PacketFields ==
    {"src", "dst", "type", "code", "mid", "token", "obs", "path", "about"}

(* An acknowledgement with code Empty and no token. *)
EmptyAck(from, to, mid) ==
    [src |-> from, dst |-> to, type |-> "ACK", code |-> "Empty", mid |-> mid,
     token |-> NoToken, obs |-> "none", path |-> "none", about |-> 0]
=============================================================================
