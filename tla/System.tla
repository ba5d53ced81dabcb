------------------------------- MODULE System -------------------------------
(***************************************************************************)
(* One Client and one Server of the library on a network that loses,       *)
(* delays, reorders and duplicates.  Each side polls when it likes.        *)
(***************************************************************************)
EXTENDS Client, Server

ASSUME SystemAssumption ==
    /\ ServerEp \in Servers /\ ClientEp \in Peers
    /\ Peers \cap {ServerEp, AllNodes} = {}
    /\ 0 .. TokenMod - 1 \subseteq Tokens

vars == <<cl, sv, held, net, dups>>

(* The discovery request reaches a member of the multicast group. *)
Multicast(m) ==
    /\ m \in net /\ m.dst = AllNodes
    /\ Deliver(m, {[m EXCEPT !.dst = ServerEp]})
    /\ UNCHANGED <<cl, serverVars>>

Init == NetInit /\ ClientInit /\ ServerInit

Next ==
    \/ ClientNext /\ UNCHANGED serverVars
    \/ ServerNext /\ UNCHANGED cl
    \/ \E m \in net : Multicast(m)
    \/ \E m \in net : Lose(m) /\ UNCHANGED <<cl, serverVars>>

Spec == Init /\ [][Next]_vars

(* A poll that finds slot i due; what it sends may get lost. *)
ClientServes(i) ==
    /\ i \in InFlight(cl.tx)
    /\ cl' = [Tick(cl, {i}) EXCEPT !.out = {}]

(* The client's main loop polls for ever and time passes, so that each of  *)
(* its transactions in flight is found due again and again.                *)
LiveSpec == Spec /\ \A i \in TxSlots : WF_cl(ClientServes(i))

ServerServes(i) ==
    /\ i \in InFlight(sv.tx)
    /\ sv' = [TickServer(sv, {i}) EXCEPT !.out = {}]

Arrival ==
    \E m \in net :
       \/ (ClientReset(m) \/ ClientReceive(m)) /\ UNCHANGED serverVars
       \/ ServerReceive(m) /\ UNCHANGED cl
       \/ Multicast(m)

Answer == UNCHANGED cl /\ \E handle \in held : Respond(handle)

(* Moreover the server polls for ever too, a packet that stays in the      *)
(* network reaches a poll, and the application answers what it deferred.   *)
ResponsiveSpec ==
    /\ LiveSpec
    /\ \A i \in TxSlots : WF_sv(ServerServes(i))
    /\ WF_vars(Arrival) /\ WF_vars(Answer)

-----------------------------------------------------------------------------
(* The server never remembers a subscription under another call, path or   *)
(* token than the client made it with: an observer stands for an observe() *)
(* call, and if that call still has its slot, for the slot's path and      *)
(* token.  Otherwise notifications would reach the wrong handler.          *)
ObserversAreSubscriptions ==
    \A i \in Occupied(sv.observers) :
       LET o == sv.observers[i]
       IN  /\ cl.calls[o.about].kind = "observe"
           /\ \A k \in Occupied(cl.pending) :
                 cl.pending[k].ctx = o.about /\ cl.pending[k].observing
                   => cl.pending[k].path = o.res /\ cl.pending[k].token = o.token

(* Once the reply to the deregistering GET has arrived, the server has     *)
(* removed the subscription (docs/use-cases/observe.md:216-217).           *)
CancelRemoves ==
    \A i \in Occupied(sv.observers) : cl.calls[sv.observers[i].about].late = 0

Ended(n) == cl.calls[n].responses + cl.calls[n].timeouts > 0

(* Every Confirmable one-shot call ends: its response handler or the       *)
(* timeout handler is called (API.md:1061).                                *)
EveryCallEnds == \A n \in 1 .. MaxCalls : cl.calls[n].kind = "con" ~> Ended(n)

(* As long as handlers answer at once, a Confirmable one-shot call that is *)
(* tracked ends, by a response or by the timeout handler, however its      *)
(* packets, its retransmissions and those of other calls are lost or late. *)
TrackedCallEnds ==
    \A n \in 1 .. MaxCalls :
       cl.calls[n].kind = "con" /\ (\E i \in InFlight(cl.tx) : cl.tx[i].packet.about = n)
         ~> Ended(n)
=============================================================================
