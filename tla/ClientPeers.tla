---------------------------- MODULE ClientPeers -----------------------------
(***************************************************************************)
(* A Client among arbitrary CoAP servers (RFC 7252), so that it meets      *)
(* every kind of answer its poll() has a branch for, also those a          *)
(* PulseCoAP server never gives: a Reset, a separate response without an   *)
(* empty ACK, several multicast responders.                                *)
(***************************************************************************)
EXTENDS Client

vars == <<cl, net, dups>>

(* A response to request m from server s, of the given type. *)
Reply(m, s, type) ==
    [src |-> s, dst |-> m.src, type |-> type, code |-> "Content",
     mid |-> IF type = "ACK" THEN m.mid ELSE 0, token |-> m.token,
     obs |-> "none", path |-> m.path, about |-> m.about]

Reset(m) == [EmptyAck(m.dst, m.src, m.mid) EXCEPT !.type = "RST"]

(* What a server may send when request m arrives.  Each packet may then be *)
(* delayed, overtaken or lost on its own.                                  *)
Answers(m) ==
    IF m.dst = AllNodes THEN {{Reply(m, s, "NON") : s \in Servers}}
    ELSE IF m.type = "NON" THEN {{Reply(m, m.dst, "NON")}}
    ELSE {{Reply(m, m.dst, "ACK")}, {Reset(m)},
          {EmptyAck(m.dst, m.src, m.mid), Reply(m, m.dst, "CON")}}
         \cup (IF m.obs = "register"
               THEN {{Reply(m, m.dst, "ACK"), Reply(m, m.dst, "NON")}} ELSE {})

PeerAnswer(m) ==
    /\ m \in net /\ m.dst # ClientEp /\ m.code \in MethodCodes
    /\ \E answer \in Answers(m) : Deliver(m, answer)
    /\ UNCHANGED cl

(* The peer consumes the acknowledgements of its separate responses. *)
PeerTakesAck(m) ==
    /\ m \in net /\ m.dst # ClientEp /\ m.type = "ACK"
    /\ Deliver(m, {})
    /\ UNCHANGED cl

Init == NetInit /\ ClientInit

Next ==
    \/ ClientNext
    \/ \E m \in net : PeerAnswer(m)
    \/ \E m \in net : PeerTakesAck(m)
    \/ \E m \in net : Lose(m) /\ UNCHANGED cl

Spec == Init /\ [][Next]_vars
=============================================================================
