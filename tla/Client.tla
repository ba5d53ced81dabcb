------------------------------- MODULE Client -------------------------------
(***************************************************************************)
(* Class Client (PulseCoAPClient.h/.cpp): requests, Observe subscriptions, *)
(* multicast discovery, and poll(), which receives one packet, calls the   *)
(* application back and drives retransmission.                             *)
(*                                                                         *)
(* The state of the object is the record cl; every method is an operator   *)
(* from one such record to the next, because callbacks run in the middle   *)
(* of poll() and may call the API again.  The packets a method sends are   *)
(* collected in cl.out and handed to the network in the same step.         *)
(*                                                                         *)
(* Time is abstracted: which transactions tick() finds due, and which      *)
(* discoveries have run out, is a choice of each poll.  TransactionPool    *)
(* models the clock.  A payload of more than one block is sent and         *)
(* received block by block.                                                *)
(*                                                                         *)
(* userContext is modelled by the number of the API call that passed it;   *)
(* a packet carries in about the number of the call it answers, so that a  *)
(* callback can be compared with the request it belongs to.                *)
(***************************************************************************)
EXTENDS CoapNet, TransactionOps, Blockwise

CONSTANTS
    ClientEp,        \* the client's own endpoint
    Servers,         \* endpoints of the servers it talks to
    AllNodes,        \* the multicast endpoint of discover()
    Paths,           \* resource paths the application uses
    MaxDiscovers,    \* PULSECOAP_MAX_DISCOVERS, 0 if discover() is not called
    TokenMod,        \* number of values of nextTokenByte_ (uint8_t)
    MaxCalls,        \* bound: API calls the application makes
    RequestKinds,    \* the API calls of a run, records [code, con, observe,
                     \* size], where size is the length of the payload
    Reactions        \* what the response callback may do: "none",
                     \* "get" or "cancel"

ASSUME ClientAssumption ==
    /\ MaxDiscovers \in Nat /\ TokenMod \in Nat \ {0} /\ MaxCalls \in Nat
    /\ RequestKinds \subseteq
          [code : MethodCodes, con : BOOLEAN, observe : BOOLEAN, size : Nat]
    /\ \A kind \in RequestKinds : kind.code = "Get" => kind.size = 0
    /\ Reactions \subseteq {"none", "get", "cancel"}

VARIABLE cl

DiscoverSlots == 0 .. MaxDiscovers - 1
TokenBytes    == 0 .. TokenMod - 1

(* What the slots of the two tables hold that are in use.  A slot has its  *)
(* own block1up_ and block2recv_; blockServer is block2recv_[slot].server. *)
PendingEntry ==
    [server : Servers, token : TokenBytes, ctx : 1 .. MaxCalls, observing : BOOLEAN,
     path : Paths, up : [size : Nat, next : Nat],
     recv : [active : BOOLEAN, next : Nat, data : Seq(Nat)], blockServer : Servers]

DiscoverEntry == [token : TokenBytes, ctx : 1 .. MaxCalls]

(* An inactive slot holds neither. *)
ASSUME FreeEntryAssumption == Free \notin PendingEntry /\ Free \notin DiscoverEntry

CallRecord ==
    [kind : {"none", "failed", "con", "non", "observe", "discover"},
     responses : 0 .. 2, timeouts : 0 .. 2, wrong : BOOLEAN, cancelled : BOOLEAN,
     late : 0 .. 2, size : Nat, bodies : SUBSET Seq(Nat)]

(* What the application has seen of one API call (history). *)
NotCalled == [kind |-> "none", responses |-> 0, timeouts |-> 0, wrong |-> FALSE,
           cancelled |-> FALSE, late |-> 0, size |-> 0, bodies |-> {}]

(* Of the times a handler has run, more than two are not told apart. *)
Capped(n) == IF n > 2 THEN 2 ELSE n

Responded(call, ctx, m) ==
    [call EXCEPT !.responses = Capped(@ + 1),
                 !.wrong = @ \/ m.about # ctx,
                 !.late = IF call.cancelled THEN Capped(@ + 1) ELSE @]

Expire(call, times) == [call EXCEPT !.timeouts = Capped(@ + times)]

ClientInitState ==
    [pending   |-> [i \in TxSlots |-> Free],
     tx        |-> EmptyPool,
     discovers |-> [i \in DiscoverSlots |-> Free],
     nextToken |-> 1 % TokenMod,
     nextMid   |-> 1 % MidMod,
     issued    |-> 0,
     calls     |-> [n \in 1 .. MaxCalls |-> NotCalled],
     out       |-> {}]

-----------------------------------------------------------------------------
(* Requests *)

(* findPendingByToken(): the token decides, not the server. *)
PendingByToken(c, token) ==
    {i \in Occupied(c.pending) : c.pending[i].token = token}

(* Mutant: the token is not advanced. *)
ConsumeMidOnly(c) == [c EXCEPT !.nextMid = (@ + 1) % MidMod]

(* The token byte and the message ID are consumed before anything can fail. *)
ConsumeIds(c) ==
    [c EXCEPT !.nextToken = (@ + 1) % TokenMod,
              !.nextMid = (@ + 1) % MidMod]

RequestPacket(c, q) ==
    [src |-> ClientEp, dst |-> q.server, type |-> IF q.con THEN "CON" ELSE "NON",
     code |-> q.code, mid |-> c.nextMid, token |-> c.nextToken, obs |-> q.obs,
     path |-> q.path, about |-> q.ctx]

Track(c, pkt) ==
    StartTx(c.tx, [remote |-> pkt.dst, mid |-> pkt.mid, token |-> pkt.token,
                   retries |-> 0, packet |-> pkt])

(* block1up_[slot] and block2recv_[slot].  They are kept in the pending    *)
(* slot: a slot is never taken without being given fresh ones.  (What       *)
(* blockServer starts with does not matter: the first block sets it.)      *)
NoUpload   == [size |-> 0, next |-> 0]
NoDownload == [active |-> FALSE, next |-> 0, data |-> <<>>]

(* sendRequest(), returning true: the first inactive slot is taken, the    *)
(* packet sent, and start() asked to track it; whether the pool had room   *)
(* is not looked at.                                                       *)
SendRequest(c, q) ==
    LET pkt == RequestPacket(c, q)
    IN  [ConsumeIds(c) EXCEPT
           !.pending[Min(Vacant(c.pending))] =
               [server |-> q.server, token |-> c.nextToken, ctx |-> q.ctx,
                observing |-> q.observing, path |-> q.path,
                up |-> NoUpload, recv |-> NoDownload, blockServer |-> q.server],
           !.tx = IF q.con THEN Track(c, pkt) ELSE @,
           !.out = @ \cup {pkt}]

(* Mutant: start() is not called. *)
SendBlockUntracked(c, pkt) ==
    [c EXCEPT !.nextMid = (@ + 1) % MidMod, !.out = @ \cup {pkt}]

(* The end of sendBlock1() and sendBlock2Request(). *)
SendBlock(c, pkt) ==
    [c EXCEPT !.nextMid = (@ + 1) % MidMod, !.tx = Track(c, pkt), !.out = @ \cup {pkt}]

(* sendBlock1(): block up.next of the payload, Confirmable and with the    *)
(* token of pending slot i.                                                *)
SendBlock1(c, i) ==
    LET p == c.pending[i]
    IN  SendBlock(c,
          [src |-> ClientEp, dst |-> p.server, type |-> "CON", code |-> "Put",
           mid |-> c.nextMid, token |-> p.token, obs |-> "none",
           path |-> p.path, about |-> p.ctx,
           block1 |-> Block(p.up.size, p.up.next),
           data   |-> Slice(Payload(p.ctx, p.up.size), p.up.next)])

(* sendBlock2Request(): to the server the first block came from. *)
SendBlock2Request(c, i) ==
    LET p == c.pending[i]
    IN  SendBlock(c,
          [src |-> ClientEp, dst |-> p.blockServer, type |-> "CON", code |-> "Get",
           mid |-> c.nextMid, token |-> p.token, obs |-> "none",
           path |-> p.path, about |-> p.ctx,
           block2 |-> [num |-> p.recv.next, more |-> FALSE]])

(* put(), post() of more than one block, Confirmable or not: the slot is   *)
(* taken, and block 0 sent.  (Where block2recv_[slot].path comes from is   *)
(* not modelled: no server of this library fragments the reply to a PUT.)  *)
Upload(c, q) ==
    LET i == Min(Vacant(c.pending))
    IN  SendBlock1([c EXCEPT
          !.nextToken = (@ + 1) % TokenMod,
          !.pending[i] = [server |-> q.server, token |-> c.nextToken, ctx |-> q.ctx,
                          observing |-> FALSE, path |-> q.path,
                          up |-> [size |-> q.size, next |-> 0], recv |-> NoDownload,
                          blockServer |-> q.server]], i)

(* get(), put(), observe(): the arguments they pass to sendRequest().      *)
NewRequest(c, server, path, kind) ==
    [server |-> server, path |-> path, code |-> kind.code, con |-> kind.con,
     obs |-> IF kind.observe THEN "register" ELSE "none",
     observing |-> kind.observe, ctx |-> c.issued + 1, size |-> kind.size]

(* The next API call gets a number; what it asked for is remembered.       *)
Number(c, what) == [c EXCEPT !.issued = @ + 1, !.calls[c.issued + 1].kind = what]

KindOf(kind) == IF kind.observe THEN "observe"
                ELSE IF kind.con THEN "con" ELSE "non"

Issue(c, server, path, kind) ==
    LET c1 == [Number(c, KindOf(kind)) EXCEPT !.calls[c.issued + 1].size = kind.size]
        q  == NewRequest(c, server, path, kind)
    IN  IF kind.size > BlockSize THEN Upload(c1, q) ELSE SendRequest(c1, q)

(* cancelObserve(): frees the first subscription to this server and path,  *)
(* then sends the deregistering GET like a new request.                    *)
Subscriptions(c, server, path) ==
    {i \in Occupied(c.pending) : /\ c.pending[i].observing
                               /\ c.pending[i].server = server
                               /\ c.pending[i].path = path}

(* Mutant: the slot of the subscription is kept until the reply. *)
DeregisterKeepsSlot(c, server, path) ==
    LET ctx == c.pending[Min(Subscriptions(c, server, path))].ctx
    IN  IF Vacant(c.pending) = {} THEN c
        ELSE SendRequest([c EXCEPT !.calls[ctx].cancelled = TRUE],
                    [server |-> server, path |-> path, code |-> "Get", con |-> TRUE,
                     obs |-> "deregister", observing |-> FALSE, ctx |-> ctx])

Deregister(c, server, path) ==
    LET i == Min(Subscriptions(c, server, path))
        ctx == c.pending[i].ctx
    IN  SendRequest([c EXCEPT !.pending[i] = Free, !.calls[ctx].cancelled = TRUE],
                    [server |-> server, path |-> path, code |-> "Get", con |-> TRUE,
                     obs |-> "deregister", observing |-> FALSE,
                     ctx |-> ctx])

-----------------------------------------------------------------------------
(* poll() *)

IsResponse(m) == m.code \in ResponseCodes

(* onTimeout_(userContext) *)
CallTimeout(c, ctx) == [c EXCEPT !.calls[ctx] = Expire(@, 1)]

(* A Reset: recover the token, complete the transaction, and end the       *)
(* pending request.                                                        *)
OnReset(c, m) ==
    LET tokens == GetToken(c.tx, m.src, m.mid)
        slots  == UNION {PendingByToken(c, token) : token \in tokens}
        c1     == [c EXCEPT !.tx = CompleteTx(@, m.src, m.mid)]
    IN  IF slots = {} THEN c1
        ELSE CallTimeout([c1 EXCEPT !.pending[Min(slots)] = Free],
                         c1.pending[Min(slots)].ctx)

(* onResponse_(userContext, m) *)
CallResponse(c, ctx, m) ==
    [c EXCEPT !.calls[ctx] = Responded(@, ctx, m)]

OneShotGet == [code |-> "Get", con |-> TRUE, observe |-> FALSE, size |-> 0]

(* The application's callback for pending slot i, and what it may do.      *)
React(c, i, reaction) ==
    LET p == c.pending[i]
    IN  CASE reaction = "get" /\ c.issued < MaxCalls /\ Vacant(c.pending) # {} ->
               Issue(c, p.server, p.path, OneShotGet)
          [] reaction = "cancel" /\ Subscriptions(c, p.server, p.path) # {} ->
               Deregister(c, p.server, p.path)
          [] OTHER -> c

(* Mutant: the slot is never given back. *)
ReleaseNothing(c, i) == c

(* Mutant: a subscription is released like a one-shot request. *)
ReleaseAlways(c, i) == [c EXCEPT !.pending[i] = Free]

(* The slot is given back after the callback, judged by what it holds then. *)
ReleaseOneShot(c, i) ==
    IF c.pending[i] # Free /\ ~c.pending[i].observing
    THEN [c EXCEPT !.pending[i] = Free]
    ELSE c

(* The application's response callback, and the slot after it. *)
Answered(c, i, m, reaction) ==
    ReleaseOneShot(React(CallResponse(c, c.pending[i].ctx, m), i, reaction), i)

(* Mutant: the slot of a failed upload is kept. *)
OnContinueKeepsSlot(c, i) ==
    LET c1 == [c EXCEPT !.pending[i].up.next = @ + 1]
        up == c1.pending[i].up
    IN  IF Offset(up.next) < up.size THEN SendBlock1(c1, i)
        ELSE CallTimeout(c1, c.pending[i].ctx)

(* 2.31 Continue: the next block, whichever block was acknowledged; past   *)
(* the last one the call ends as if it had timed out.                      *)
OnContinue(c, i) ==
    LET c1 == [c EXCEPT !.pending[i].up.next = @ + 1]
        up == c1.pending[i].up
    IN  IF Offset(up.next) < up.size THEN SendBlock1(c1, i)
        ELSE CallTimeout([c1 EXCEPT !.pending[i] = Free], c.pending[i].ctx)

Clipped(data) == SubSeq(data, 1, Min({Len(data), MaxBlock2Body}))

(* Mutant: every block is appended. *)
CollectedAny(recv, m) ==
    [active |-> TRUE, next |-> recv.next + 1, data |-> Clipped(recv.data \o m.data)]

(* block2recv_[slot] after a block: appended if it is the expected one.    *)
Collected(recv, m) ==
    IF m.block2.num # recv.next THEN [recv EXCEPT !.active = TRUE]
    ELSE [active |-> TRUE, next |-> recv.next + 1, data |-> Clipped(recv.data \o m.data)]

(* A response with a Block2 option: the next block is requested, or the    *)
(* callback gets what has been assembled.  A subscription then starts      *)
(* afresh with its next block.                                             *)
OnBlock2(c, i, m, reaction) ==
    LET recv == IF c.pending[i].recv.active THEN c.pending[i].recv ELSE NoDownload
        c1   == [c EXCEPT !.pending[i].recv = Collected(recv, m)]
        c2   == [c EXCEPT !.pending[i].recv = NoDownload,
                          !.calls[c.pending[i].ctx].bodies = @ \cup {Collected(recv, m).data}]
    IN  IF m.block2.more THEN SendBlock2Request(c1, i) ELSE Answered(c2, i, m, reaction)

(* The first block tells where the others are requested: its endpoint, not *)
(* the one the request was sent to.                                        *)
FirstBlock(c, i, m) ==
    IF c.pending[i].recv.active THEN c
    ELSE [c EXCEPT !.pending[i].blockServer = m.src]

(* A response that matches pending slot i. *)
OnMatched(c, i, m, reaction) ==
    LET c1 == [c EXCEPT !.pending[i].up = NoUpload]
    IN  IF m.code = "Continue" /\ c.pending[i].up # NoUpload THEN OnContinue(c, i)
        ELSE IF HasOption(m, "block2") THEN OnBlock2(FirstBlock(c1, i, m), i, m, reaction)
        ELSE Answered(c1, i, m, reaction)

DiscoverByToken(c, token) ==
    {i \in Occupied(c.discovers) : c.discovers[i].token = token}

(* A response: acknowledged if Confirmable, then offered to the discover   *)
(* slots, then to the pending requests.                                    *)
OnResponse(c, m, reaction) ==
    LET c1 == IF m.type = "CON"
              THEN [c EXCEPT !.out = @ \cup {EmptyAck(ClientEp, m.src, m.mid)}]
              ELSE c
        ds == DiscoverByToken(c1, m.token)
        ps == PendingByToken(c1, m.token)
    IN  IF ds # {} THEN CallResponse(c1, c1.discovers[Min(ds)].ctx, m)
        ELSE IF ps # {} THEN OnMatched(c1, Min(ps), m, reaction)
        ELSE c1

(* An Acknowledgement completes its transaction before the code is looked  *)
(* at; a packet that is not a response changes nothing else.               *)
OnPacket(c, m, reaction) ==
    LET c1 == IF m.type = "ACK"
              THEN [c EXCEPT !.tx = CompleteTx(@, m.src, m.mid)]
              ELSE c
    IN  IF IsResponse(m) THEN OnResponse(c1, m, reaction) ELSE c1

ExpireDiscovers(c, gone) ==
    [c EXCEPT !.discovers = [i \in DiscoverSlots |-> IF i \in gone THEN Free ELSE @[i]]]

(* The k transactions with one token that expire in a tick end, through    *)
(* timeoutTrampoline(), the first k pending requests with that token; the  *)
(* remaining calls find none and report nullptr, to no call.               *)
ExpiredWith(c, due, token) == {i \in Expired(c.tx, due) : c.tx[i].token = token}

TimedOut(c, due) ==
    {i \in Occupied(c.pending) :
        LET token == c.pending[i].token
        IN  Cardinality({j \in PendingByToken(c, token) : j <= i})
              <= Cardinality(ExpiredWith(c, due, token))}

(* transactions_.tick() with resendTrampoline() and timeoutTrampoline().   *)
Tick(c, due) ==
    LET ended == TimedOut(c, due)
    IN  [c EXCEPT
           !.tx = TickTx(@, due),
           !.pending = [i \in TxSlots |-> IF i \in ended THEN Free ELSE @[i]],
           !.calls = [n \in 1 .. MaxCalls |->
                        Expire(@[n], Cardinality({i \in ended : c.pending[i].ctx = n}))],
           !.out = @ \cup {c.tx[i].packet : i \in Resent(c.tx, due)}]

-----------------------------------------------------------------------------
(* Actions *)

(* The application calls the API between polls. *)
CallApi ==
    /\ cl.issued < MaxCalls
    /\ Vacant(cl.pending) # {}
    /\ \E server \in Servers, path \in Paths, kind \in RequestKinds :
         LET c == Issue(cl, server, path, kind)
         IN  /\ cl' = [c EXCEPT !.out = {}]
             /\ Transmit(c.out)

(* transport_.send() or the encoding fails, in sendRequest() or discover(): *)
(* the slot is given back or was not taken yet.                            *)
CallApiFails ==
    /\ cl.issued < MaxCalls
    /\ Vacant(cl.pending) # {} \/ Vacant(cl.discovers) # {}
    /\ cl' = Number(ConsumeIds(cl), "failed")
    /\ UNCHANGED netVars

CancelObserve(server, path) ==
    /\ Subscriptions(cl, server, path) # {}
    /\ LET c == Deregister(cl, server, path)
       IN  /\ cl' = [c EXCEPT !.out = {}]
           /\ Transmit(c.out)

CancelObserveFails(server, path) ==
    /\ Subscriptions(cl, server, path) # {}
    /\ LET i == Min(Subscriptions(cl, server, path))
       IN  cl' = [ConsumeIds(cl) EXCEPT
                    !.pending[i] = Free,
                    !.calls[cl.pending[i].ctx].cancelled = TRUE]
    /\ UNCHANGED netVars

(* discover(): a NON GET to the multicast endpoint, and a discover slot. *)
Discover ==
    /\ cl.issued < MaxCalls
    /\ Vacant(cl.discovers) # {}
    /\ LET q == [server |-> AllNodes, path |-> "wellknown", code |-> "Get",
                 con |-> FALSE, obs |-> "none", ctx |-> cl.issued + 1]
       IN  /\ cl' = [Number(ConsumeIds(cl), "discover") EXCEPT
                       !.discovers[Min(Vacant(cl.discovers))] =
                           [token |-> cl.nextToken, ctx |-> q.ctx]]
           /\ Transmit({RequestPacket(cl, q)})

(* The end of poll(): discoveries run out, then the pool ticks. *)
FinishPoll(c, gone, due) == Tick(ExpireDiscovers(c, gone), due)

ClientIdlePoll ==
    \E gone \in SUBSET Occupied(cl.discovers), due \in SUBSET InFlight(cl.tx) :
       LET c == FinishPoll(cl, gone, due)
       IN  /\ cl' = [c EXCEPT !.out = {}]
           /\ Transmit(c.out)

(* poll() with a Reset returns before the discoveries and the tick. *)
ClientReset(m) ==
    /\ m \in net /\ m.dst = ClientEp /\ m.type = "RST"
    /\ cl' = OnReset(cl, m)
    /\ Deliver(m, {})

(* A transaction started in this very poll is not due in its tick.         *)
ClientReceive(m) ==
    /\ m \in net /\ m.dst = ClientEp /\ m.type # "RST"
    /\ \E reaction \in Reactions :
         LET c1 == OnPacket(cl, m, reaction)
             old == {i \in InFlight(c1.tx) : c1.tx[i] = cl.tx[i]}
         IN  \E gone \in SUBSET Occupied(c1.discovers), due \in SUBSET old :
               LET c == FinishPoll(c1, gone, due)
               IN  /\ cl' = [c EXCEPT !.out = {}]
                   /\ Deliver(m, c.out)

ClientInit == cl = ClientInitState

ClientNext ==
    \/ CallApi
    \/ CallApiFails
    \/ \E server \in Servers, path \in Paths : CancelObserve(server, path)
    \/ \E server \in Servers, path \in Paths : CancelObserveFails(server, path)
    \/ Discover
    \/ ClientIdlePoll
    \/ \E m \in net : ClientReset(m)
    \/ \E m \in net : ClientReceive(m)

-----------------------------------------------------------------------------
(* Type invariant of the client's tables. *)
ClientTypeOK ==
    /\ cl.pending \in [TxSlots -> PendingEntry \cup {Free}]
    /\ cl.discovers \in [DiscoverSlots -> DiscoverEntry \cup {Free}]
    /\ DOMAIN cl.tx = TxSlots
    /\ \A i \in InFlight(cl.tx) :
          /\ cl.tx[i].remote \in Servers /\ cl.tx[i].mid \in Mids
          /\ cl.tx[i].token \in TokenBytes /\ cl.tx[i].retries \in 0 .. MaxRetransmit
    /\ cl.calls \in [1 .. MaxCalls -> CallRecord]
    /\ cl.nextToken \in TokenBytes /\ cl.nextMid \in Mids
    /\ cl.issued \in 0 .. MaxCalls

(* Whatever the network does, a response reaches the handler and the       *)
(* userContext of the call it answers, never those of another call that    *)
(* took over its slot: poll() matches responses by token alone.            *)
RightCallback == \A n \in 1 .. MaxCalls : ~cl.calls[n].wrong

(* nextTokenByte_, counting modulo TokenMod, has not come round to a value *)
(* of a request that is still pending, retransmitted or on its way, or of  *)
(* an answer on its way: nothing in the code looks.                        *)
NextTokenUnused ==
    /\ \A i \in Occupied(cl.pending) : cl.pending[i].token # cl.nextToken
    /\ \A i \in Occupied(cl.discovers) : cl.discovers[i].token # cl.nextToken
    /\ \A i \in InFlight(cl.tx) : cl.tx[i].packet.token # cl.nextToken
    /\ \A m \in net : m.code # "Empty" => m.token # cl.nextToken

(* A one-shot call is answered once: never twice, and never both by a      *)
(* response and by the timeout handler (API.md:1061), whatever is          *)
(* duplicated, late, or still being retransmitted.                         *)
OneOutcome ==
    \A n \in 1 .. MaxCalls :
       cl.calls[n].kind \in {"con", "non"}
         => cl.calls[n].responses + cl.calls[n].timeouts <= 1

(* After cancelObserve() the handler of the subscription runs at most once  *)
(* more, for the reply to the deregistering GET, however many notifications *)
(* of the old subscription are still under way or yet to be sent.          *)
QuietAfterCancel == \A n \in 1 .. MaxCalls : cl.calls[n].late <= 1

(* A subscription keeps its slot until cancelObserve(), a Reset from the   *)
(* server (API.md:1062), or the timeout of a request with its token;       *)
(* neither notifications, however they come, nor what callbacks do, nor    *)
(* the end of other calls take it away.                                    *)
SubscriptionHolds ==
    [][\A i \in Occupied(cl.pending) :
          LET ctx == cl.pending[i].ctx
          IN  /\ cl.pending[i].observing
              /\ cl'.pending[i] = Free \/ cl'.pending[i].ctx # ctx
              => \/ cl'.calls[ctx].cancelled
                 \/ \E m \in net : ClientReset(m)
                 \/ \E t \in InFlight(cl.tx) :
                       /\ cl.tx[t].token = cl.pending[i].token
                       /\ cl.tx[t].retries = MaxRetransmit
                       /\ cl'.tx[t] # cl.tx[t]]_<<cl, netVars>>
=============================================================================
