------------------------- MODULE ServerPeers_proofs -------------------------
(***************************************************************************)
(* The server among arbitrary clients: its invariants, whatever its        *)
(* clients ask for, repeat, ignore and reset, and the network loses,       *)
(* delays and duplicates.                                                  *)
(***************************************************************************)
EXTENDS ServerPeers, Server_proofs

(* What reaches the server comes from its clients. *)
InOrder(m) == m.mid \in Mids /\ (m.dst = ServerEp => FromClient(m))

NetOK == \A m \in net : InOrder(m)

(* The inductive invariant. *)
Inv == ServerInv /\ NetOK /\ asked \in Nat

LEMMA ToClientInOrder == \A p : ToClient(p) => InOrder(p)
BY PeersAssumption DEF ToClient, InOrder

(* A client sends a request, or answers a packet with an ACK or a Reset.   *)
LEMMA PeerAskPreserves ==
    ASSUME Inv, PeerAsk
    PROVE  Inv'
<1>1. PICK p \in Peers : \E q \in PeerRequests[p] :
        Transmit({[src |-> p, dst |-> ServerEp, type |-> q.type, code |-> q.code,
                   mid |-> asked % MidMod, token |-> q.token, obs |-> q.obs,
                   path |-> q.path, about |-> asked + 1]})
  BY DEF PeerAsk
<1>2. PICK q \in PeerRequests[p] :
        Transmit({[src |-> p, dst |-> ServerEp, type |-> q.type, code |-> q.code,
                   mid |-> asked % MidMod, token |-> q.token, obs |-> q.obs,
                   path |-> q.path, about |-> asked + 1]})
  BY <1>1
<1> DEFINE r == [src |-> p, dst |-> ServerEp, type |-> q.type, code |-> q.code,
                 mid |-> asked % MidMod, token |-> q.token, obs |-> q.obs,
                 path |-> q.path, about |-> asked + 1]
<1>3. InOrder(r)
  <2>1. DOMAIN r = PacketFields /\ r.src \in Peers /\ r.token \in Tokens /\ r.about \in Nat
    BY PeersAssumption DEF Inv, PacketFields
  <2>2. r.mid \in Mids
    BY MidsClosed DEF Inv
  <2> HIDE DEF r
  <2> QED BY <2>1, <2>2 DEF InOrder, FromClient, HasOption, PacketFields
<1> HIDE DEF r
<1>4. \A x \in net' : x \in net \/ x = r
  BY <1>2 DEF Transmit, Carry, r
<1>5. NetOK'
  BY <1>3, <1>4 DEF Inv, NetOK
<1>6. ServerInv' /\ asked' \in Nat
  BY DEF Inv, PeerAsk, serverVars, ServerInv
<1> QED BY <1>5, <1>6 DEF Inv

LEMMA PeerAnswerPreserves ==
    ASSUME Inv, NEW m, PeerAnswer(m)
    PROVE  Inv'
<1> DEFINE ack == EmptyAck(m.dst, m.src, m.mid)
<1>1. m \in net /\ m.dst \in Peers /\ m.mid \in Mids
  BY DEF PeerAnswer, Inv, NetOK, InOrder
<1>2. InOrder(ack) /\ InOrder(Reset(m))
  BY <1>1 DEF EmptyAck, Reset, InOrder, FromClient, MethodCodes
<1>3. Deliver(m, {ack}) \/ Deliver(m, {Reset(m)})
  BY DEF PeerAnswer
<1> HIDE DEF ack
<1>4. \A x \in net' : x \in net \/ x = ack \/ x = Reset(m)
  BY <1>3 DEF Deliver, Carry
<1>5. NetOK'
  BY <1>2, <1>4 DEF Inv, NetOK
<1>6. ServerInv' /\ asked' \in Nat
  BY DEF Inv, PeerAnswer, serverVars, ServerInv
<1> QED BY <1>5, <1>6 DEF Inv

LEMMA Invariance == Spec => []Inv
<1>1. Init => Inv
  <2> SUFFICES ASSUME Init PROVE Inv
    OBVIOUS
  <2>1. NetOK /\ asked \in Nat
    BY DEF Init, NetInit, NetOK
  <2> QED BY <2>1, ServerInitially DEF Init, Inv
<1>2. Inv /\ [Next]_vars => Inv'
  <2> SUFFICES ASSUME Inv, [Next]_vars PROVE Inv'
    OBVIOUS
  <2>1. CASE ServerNext /\ UNCHANGED asked
    <3>1. ServerInv' /\ OnlyToClients
      BY <2>1, ServerStep DEF Inv, NetOK, InOrder
    <3>2. NetOK'
      BY <3>1, ToClientInOrder DEF Inv, NetOK, OnlyToClients
    <3> QED BY <2>1, <3>1, <3>2 DEF Inv
  <2>2. CASE PeerAsk
    BY <2>2, PeerAskPreserves
  <2>3. CASE \E m \in net : PeerAnswer(m)
    BY <2>3, PeerAnswerPreserves
  <2>4. CASE \E m \in net : Lose(m) /\ UNCHANGED <<serverVars, asked>>
    BY <2>4 DEF Lose, Inv, NetOK, serverVars, ServerInv
  <2>5. CASE UNCHANGED vars
    BY <2>5 DEF vars, Inv, NetOK, ServerInv
  <2> QED BY <2>1, <2>2, <2>3, <2>4, <2>5 DEF Next
<1> QED BY <1>1, <1>2, PTL DEF Spec

-----------------------------------------------------------------------------
(* For any tables, clients and requests: the slots of the three tables     *)
(* hold what registerObserver(), the deferring handlers and notify() and   *)
(* respond() put there, and the handles of the application name slots.     *)
THEOREM ServerTypeCorrect == Spec => []ServerTypeOK
<1>1. Inv => ServerTypeOK
  BY ServerInvImplies DEF Inv
<1> QED BY <1>1, Invariance, PTL

(* For any number of observers and clients: registerObserver() keeps one   *)
(* slot per client and token.                                              *)
THEOREM ObserversUnique == Spec => []UniqueObservers
<1>1. Inv => UniqueObservers
  BY ServerInvImplies DEF Inv
<1> QED BY <1>1, Invariance, PTL

(* For any size of the table of deferred responses: between the claim of a *)
(* slot and respond() its handle and its request stay the same.            *)
THEOREM HandlesMatch == Spec => []HandlesMatchSlots
<1>1. Inv => HandlesMatchSlots
  BY ServerInvImplies DEF Inv
<1> QED BY <1>1, Invariance, PTL

-----------------------------------------------------------------------------
(* Why an observer goes.                                                   *)
AllAsked == \A m \in net : m.dst = ServerEp /\ m.code \in MethodCodes => m.obs \in ObserveOptions

(* The same tables, but for the packets handed to the network. *)
LEMMA OutTables ==
    ASSUME NEW s, TablesOK(s)
    PROVE  LET t == [s EXCEPT !.out = {}]
           IN  t.observers = s.observers /\ t.tx = s.tx
BY DEF TablesOK, Object

(* Why observer i goes in this step. *)
Cause(i) ==
    LET o == sv.observers[i]
    IN  \/ \E k \in SlotsByToken(sv.tx, o.remote, o.token) :
              /\ sv.tx[k].retries = MaxRetransmit
              /\ sv'.tx[k] # sv.tx[k]
        \/ \E m \in net : /\ ServerReceive(m) /\ m.src = o.remote
                          /\ \/ m.type = "RST" /\ m.mid = o.lastMid
                             \/ m.obs = "deregister" /\ m.token = o.token

OnlyForCause == \A i \in Occupied(sv.observers) : sv'.observers[i] = Free => Cause(i)

(* An observer that a tick removes has lost a message with its token. *)
LEMMA TickCause ==
    ASSUME TablesOK(sv), NEW due \in SUBSET InFlight(sv.tx),
           NEW i \in Occupied(sv.observers), TickServer(sv, due).observers[i] # sv.observers[i]
    PROVE  \E k \in SlotsByToken(sv.tx, sv.observers[i].remote, sv.observers[i].token) :
              /\ sv.tx[k].retries = MaxRetransmit
              /\ TickServer(sv, due).tx[k] = Free
<1>1. i \in ObserverSlots /\ sv.observers[i] \in ObserverEntry
  BY DEF TablesOK, ObserverTable, Occupied
<1>2. PICK k \in Expired(sv.tx, due) : i \in ObserversOf(sv, sv.tx[k].remote, sv.tx[k].token)
  BY <1>1, TickEffect
<1>3. k \in InFlight(sv.tx) /\ k \in TxSlots /\ sv.tx[k].retries >= MaxRetransmit
  BY <1>2 DEF Expired, InFlight
<1>4. sv.tx[k] \in ServerTransaction
  BY <1>3 DEF TablesOK, ServerPool, InFlight
<1>5. sv.tx[k].retries = MaxRetransmit
  BY <1>3, <1>4, PoolAssumption DEF ServerTransaction
<1>6. sv.observers[i].remote = sv.tx[k].remote /\ sv.observers[i].token = sv.tx[k].token
  BY <1>2 DEF ObserversOf
<1>7. k \in SlotsByToken(sv.tx, sv.observers[i].remote, sv.observers[i].token)
  BY <1>3, <1>6 DEF SlotsByToken
<1>8. TickServer(sv, due).tx[k] = Free
  BY <1>2, <1>3, TickEffect
<1> QED BY <1>5, <1>7, <1>8

LEMMA IdlePollCause ==
    ASSUME ServerInv, ServerIdlePoll
    PROVE  OnlyForCause
<1>1. PICK due \in SUBSET InFlight(sv.tx) : sv' = [TickServer(sv, due) EXCEPT !.out = {}]
  BY DEF ServerIdlePoll
<1> DEFINE t == TickServer(sv, due)
<1>2. TablesOK(t)
  BY TickEffect DEF ServerInv
<1>3. sv' = [t EXCEPT !.out = {}]
  BY <1>1
<1> HIDE DEF t
<1>4. sv'.observers = t.observers /\ sv'.tx = t.tx
  BY <1>2, <1>3, OutTables
<1>5. ASSUME NEW i \in Occupied(sv.observers), sv'.observers[i] = Free
      PROVE  Cause(i)
  <2>1. t.observers[i] # sv.observers[i]
    BY <1>4, <1>5 DEF Occupied
  <2>2. PICK k \in SlotsByToken(sv.tx, sv.observers[i].remote, sv.observers[i].token) :
           sv.tx[k].retries = MaxRetransmit /\ t.tx[k] = Free
    BY <2>1, TickCause DEF ServerInv, t
  <2>3. sv.tx[k] # Free
    BY DEF SlotsByToken, InFlight
  <2> QED BY <1>4, <2>2, <2>3 DEF Cause
<1> QED BY <1>4, <1>5 DEF OnlyForCause

LEMMA ReceiveCause ==
    ASSUME ServerInv, NEW m \in net, ServerReceive(m),
           FromClient(m), m.code \in MethodCodes => m.obs \in ObserveOptions
    PROVE  OnlyForCause
<1>1. PICK due \in SUBSET InFlight(sv.tx), answer \in AnswersTo(m) :
         sv' = [OnServerPacket(TickServer(sv, due), m, answer) EXCEPT !.out = {}]
  BY DEF ServerReceive
<1> DEFINE s1 == TickServer(sv, due)
           s2 == OnServerPacket(s1, m, answer)
<1>2. TablesOK(s1)
  BY TickEffect DEF ServerInv
<1>3. \A i \in Occupied(sv.observers) :
         \/ s1.observers[i] = sv.observers[i]
         \/ \E k \in SlotsByToken(sv.tx, sv.observers[i].remote, sv.observers[i].token) :
               sv.tx[k].retries = MaxRetransmit /\ s1.tx[k] = Free
  BY TickCause DEF ServerInv
<1> HIDE DEF s1
<1>4. /\ TablesOK(s2) /\ \A k \in TxSlots : s2.tx[k] \in {s1.tx[k], Free}
      /\ \/ s2.observers = s1.observers
         \/ m.type = "RST" /\ s2.observers = OnServerReset(s1, m).observers
         \/ /\ m.type # "RST" /\ m.code \in MethodCodes
            /\ s2.observers = HandleObserve(s1, m).observers
  BY <1>2, PacketEffect
<1>5. sv' = [s2 EXCEPT !.out = {}]
  BY <1>1 DEF s1
<1> HIDE DEF s2
<1>6. sv'.observers = s2.observers /\ sv'.tx = s2.tx
  BY <1>4, <1>5, OutTables
<1>7. ASSUME NEW i \in Occupied(sv.observers), sv'.observers[i] = Free
      PROVE  Cause(i)
  <2>1. i \in ObserverSlots /\ sv.observers[i] # Free
    BY DEF ServerInv, TablesOK, ObserverTable, Occupied
  <2>2. CASE s1.observers[i] # sv.observers[i]
    <3>1. PICK k \in SlotsByToken(sv.tx, sv.observers[i].remote, sv.observers[i].token) :
             sv.tx[k].retries = MaxRetransmit /\ s1.tx[k] = Free
      BY <1>3, <2>2
    <3>2. k \in TxSlots /\ sv.tx[k] # Free
      BY DEF SlotsByToken, InFlight
    <3>3. sv'.tx[k] # sv.tx[k]
      BY <1>4, <1>6, <3>1, <3>2
    <3> QED BY <3>1, <3>3 DEF Cause
  <2>3. CASE s1.observers[i] = sv.observers[i]
    <3>1. s2.observers[i] = Free /\ s2.observers[i] # s1.observers[i]
      BY <1>6, <1>7, <2>1, <2>3
    <3>2. CASE m.type = "RST"
      <4>1. i \in Rejected(s1, m)
        BY <1>2, <1>4, <2>1, <3>1, <3>2, ResetSlot
      <4>2. m.src = sv.observers[i].remote /\ m.mid = sv.observers[i].lastMid
        BY <2>3, <4>1 DEF Rejected
      <4> QED BY <3>2, <4>2 DEF Cause
    <3>3. CASE m.type # "RST"
      <4>1. /\ m.code \in MethodCodes
            /\ \/ m.obs = "register" /\ s2.observers[i] \in ObserverEntry
               \/ m.obs \notin {"none", "register"} /\ i \in ObserversOf(s1, m.src, m.token)
        BY <1>2, <1>4, <2>1, <3>1, <3>3, ObserveSlot DEF AskedForBy
      <4>2. m.obs \notin {"none", "register"} /\ i \in ObserversOf(s1, m.src, m.token)
        BY <3>1, <4>1, FreeSlotAssumption
      <4>3. m.obs = "deregister"
        BY <4>1, <4>2 DEF ObserveOptions
      <4>4. m.src = sv.observers[i].remote /\ m.token = sv.observers[i].token
        BY <2>3, <4>2 DEF ObserversOf
      <4> QED BY <4>3, <4>4 DEF Cause
    <3> QED BY <3>2, <3>3
  <2> QED BY <2>2, <2>3
<1> QED BY <1>7 DEF OnlyForCause

LEMMA NotifyCause ==
    ASSUME ServerInv, Notify
    PROVE  OnlyForCause
<1>1. PICK res \in Observable, con \in BOOLEAN :
         sv' = [NotifyAll(sv, res, con) EXCEPT !.out = {}]
  BY DEF Notify
<1> DEFINE t == NotifyAll(sv, res, con)
<1>2. /\ TablesOK(t)
      /\ \A i \in ObserverSlots : t.observers[i] = Free <=> sv.observers[i] = Free
  BY NotifyEffect DEF ServerInv, Notify
<1>3. sv' = [t EXCEPT !.out = {}]
  BY <1>1
<1> HIDE DEF t
<1>4. DOMAIN sv.observers = ObserverSlots
  BY DEF ServerInv, TablesOK, ObserverTable
<1>5. sv'.observers = t.observers
  BY <1>2, <1>3, OutTables
<1> QED BY <1>2, <1>4, <1>5 DEF OnlyForCause, Occupied

LEMMA RespondCause ==
    ASSUME ServerInv, NEW handle \in held, Respond(handle)
    PROVE  OnlyForCause
<1>1. Object(sv)
  BY DEF ServerInv, TablesOK
<1>2. sv'.observers = sv.observers
  BY <1>1 DEF Respond, RespondTo, Send, NextMid, Object
<1> QED BY <1>2 DEF OnlyForCause, Occupied

(* The inductive invariant: requests have one of the Observe options. *)
CauseInv == Inv /\ AllAsked

(* Every step of the system keeps to the causes and to what was asked.     *)
LEMMA ServerCause ==
    ASSUME CauseInv, ServerNext
    PROVE  OnlyForCause /\ AllAsked'
<1>1. ServerInv /\ \A m \in net : m.dst = ServerEp => FromClient(m)
  BY DEF CauseInv, Inv, NetOK, InOrder
<1>2. ASSUME NEW m \in net, ServerReceive(m) PROVE OnlyForCause
  <2>1. m.dst = ServerEp
    BY <1>2 DEF ServerReceive
  <2>2. FromClient(m) /\ (m.code \in MethodCodes => m.obs \in ObserveOptions)
    BY <1>1, <2>1 DEF CauseInv, AllAsked
  <2> QED BY <1>1, <1>2, <2>2, ReceiveCause
<1>3. OnlyForCause
  BY <1>1, <1>2, IdlePollCause, NotifyCause, RespondCause DEF ServerNext
<1>4. \A p \in net' : p \in net \/ p.dst # ServerEp
  BY <1>1, ServerStep, PeersAssumption DEF OnlyToClients, ToClient
<1> QED BY <1>3, <1>4 DEF CauseInv, AllAsked

LEMMA PeerAskAsked ==
    ASSUME CauseInv, PeerAsk
    PROVE  AllAsked'
<1>1. PICK p \in Peers : \E q \in PeerRequests[p] :
        Transmit({[src |-> p, dst |-> ServerEp, type |-> q.type, code |-> q.code,
                   mid |-> asked % MidMod, token |-> q.token, obs |-> q.obs,
                   path |-> q.path, about |-> asked + 1]})
  BY DEF PeerAsk
<1>2. PICK q \in PeerRequests[p] :
        Transmit({[src |-> p, dst |-> ServerEp, type |-> q.type, code |-> q.code,
                   mid |-> asked % MidMod, token |-> q.token, obs |-> q.obs,
                   path |-> q.path, about |-> asked + 1]})
  BY <1>1
<1> DEFINE r == [src |-> p, dst |-> ServerEp, type |-> q.type, code |-> q.code,
                 mid |-> asked % MidMod, token |-> q.token, obs |-> q.obs,
                 path |-> q.path, about |-> asked + 1]
<1>3. r.obs \in ObserveOptions
  BY PeersAssumption
<1> HIDE DEF r
<1>4. \A x \in net' : x \in net \/ x = r
  BY <1>2 DEF Transmit, Carry, r
<1> QED BY <1>3, <1>4 DEF CauseInv, AllAsked

LEMMA PeerAnswerAsked ==
    ASSUME CauseInv, NEW m, PeerAnswer(m)
    PROVE  AllAsked'
<1>1. /\ EmptyAck(m.dst, m.src, m.mid).code \notin MethodCodes
      /\ Reset(m).code \notin MethodCodes
  BY DEF EmptyAck, Reset, MethodCodes
<1>2. \A x \in net' : x \in net \/ x = EmptyAck(m.dst, m.src, m.mid) \/ x = Reset(m)
  BY DEF PeerAnswer, Deliver, Carry
<1> QED BY <1>1, <1>2 DEF CauseInv, AllAsked

(* For any number of clients: an observer slot is emptied only for a       *)
(* client that has asked for it, has reset its latest notification, or has *)
(* left a Confirmable message with that token unacknowledged through all   *)
(* its retransmissions.                                                    *)
THEOREM RemovalHasCause == Spec => RemovedForCause
<1>1. Init => CauseInv
  <2> SUFFICES ASSUME Init PROVE CauseInv
    OBVIOUS
  <2>1. net = {} /\ asked = 0
    BY DEF Init, NetInit
  <2>2. NetOK /\ AllAsked /\ asked \in Nat
    BY <2>1 DEF NetOK, AllAsked
  <2>3. ServerInv
    BY ServerInitially DEF Init
  <2> QED BY <2>2, <2>3 DEF CauseInv, Inv
<1>2. CauseInv /\ [Next]_vars /\ Inv' => CauseInv' /\ OnlyForCause
  <2> SUFFICES ASSUME CauseInv, [Next]_vars, Inv' PROVE CauseInv' /\ OnlyForCause
    OBVIOUS
  <2>1. UNCHANGED sv => OnlyForCause
    BY DEF OnlyForCause, Occupied
  <2>2. CASE ServerNext /\ UNCHANGED asked
    BY <2>2, ServerCause DEF CauseInv
  <2>3. CASE PeerAsk
    BY <2>1, <2>3, PeerAskAsked DEF PeerAsk, serverVars, CauseInv
  <2>4. CASE \E m \in net : PeerAnswer(m)
    BY <2>1, <2>4, PeerAnswerAsked DEF PeerAnswer, serverVars, CauseInv
  <2>5. CASE \E m \in net : Lose(m) /\ UNCHANGED <<serverVars, asked>>
    BY <2>1, <2>5 DEF Lose, serverVars, CauseInv, AllAsked
  <2>6. CASE UNCHANGED vars
    BY <2>1, <2>6 DEF vars, CauseInv, AllAsked
  <2> QED BY <2>2, <2>3, <2>4, <2>5, <2>6 DEF Next
<1>3. OnlyForCause => [\A i \in Occupied(sv.observers) :
          sv'.observers[i] = Free =>
             LET o == sv.observers[i]
             IN  \/ \E k \in SlotsByToken(sv.tx, o.remote, o.token) :
                       /\ sv.tx[k].retries = MaxRetransmit
                       /\ sv'.tx[k] # sv.tx[k]
                 \/ \E m \in net : /\ ServerReceive(m) /\ m.src = o.remote
                                   /\ \/ m.type = "RST" /\ m.mid = o.lastMid
                                      \/ m.obs = "deregister" /\ m.token = o.token
      ]_<<serverVars, netVars>>
  BY DEF OnlyForCause, Cause
<1> QED BY <1>1, <1>2, <1>3, Invariance, PTL DEF Spec, RemovedForCause
=============================================================================
