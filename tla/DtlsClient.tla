----------------------------- MODULE DtlsClient -----------------------------
(***************************************************************************)
(* A Client whose transport is a DtlsTransport in client mode: send() of   *)
(* the session table decides whether sendRequest() succeeds, and the       *)
(* retransmission of a transaction is another send().                      *)
(*                                                                         *)
(* What the servers answer once a session is established is left out, and  *)
(* so is a poll that both hears a record and resends.                      *)
(***************************************************************************)
EXTENDS Client, DtlsSessions

VARIABLE packets   \* history: the packet of each send()

dtlsClientVars == <<cl, netVars, dtlsVars, packets>>

(* One call of send(), and what it has returned. *)
SendPacket(pkt) == DtlsSend(pkt.dst) /\ packets' = Append(packets, pkt)
SendResult      == sends'[Len(sends')].result

(* get(), put(), observe(): when send() returns false the pending slot is  *)
(* given back, and no transaction is started.                              *)
CallOverDtls ==
    /\ cl.issued < MaxCalls
    /\ Vacant(cl.pending) # {}
    /\ \E server \in Servers, path \in Paths, kind \in RequestKinds :
         LET c == Issue(cl, server, path, kind)
         IN  /\ \E pkt \in c.out : SendPacket(pkt)
             /\ cl' = IF SendResult THEN [c EXCEPT !.out = {}]
                      ELSE Number(ConsumeIds(cl), "failed")
    /\ UNCHANGED netVars

(* poll() without a CoAP message, and nothing due; or time passes. *)
PollOverDtls ==
    /\ DtlsReceive \/ TimePasses
    /\ UNCHANGED <<cl, netVars, packets>>

(* poll() that finds one transaction due. *)
ResendOverDtls ==
    /\ \E i \in InFlight(cl.tx) :
         /\ cl' = [Tick(cl, {i}) EXCEPT !.out = {}]
         /\ IF i \in Resent(cl.tx, {i}) THEN SendPacket(cl.tx[i].packet)
            ELSE UNCHANGED <<dtlsVars, packets>>
    /\ UNCHANGED netVars

DtlsClientInit ==
    /\ ClientInit /\ NetInit
    /\ DtlsInit /\ ~isServer
    /\ packets = <<>>

DtlsClientNext == CallOverDtls \/ PollOverDtls \/ ResendOverDtls

DtlsClientSpec == DtlsClientInit /\ [][DtlsClientNext]_dtlsClientVars

(* "PulseCoAP's CON retransmit engine will call send() again"              *)
(* (PulseCoAPTransportDTLS.h:185): a Confirmable packet that waits for a   *)
(* handshake belongs to a transaction that resends it.                     *)
BufferedIsRetried ==
    \A i \in SessionSlots : \A n \in sessions[i].tx :
       sessions[i].state = "handshaking" /\ packets[n].type = "CON"
         => \E t \in InFlight(cl.tx) : cl.tx[t].packet = packets[n]
=============================================================================
