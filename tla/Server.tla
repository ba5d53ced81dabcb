------------------------------- MODULE Server -------------------------------
(***************************************************************************)
(* Class Server (PulseCoAPServer.h/.cpp): dispatch of requests to resource *)
(* handlers, Observe registrations and notifications, deferred (separate)  *)
(* responses, and poll(), which ticks the transaction pool and then        *)
(* handles one packet.                                                     *)
(*                                                                         *)
(* As in Client, sv is the state of the object, methods are operators from *)
(* one such record to the next, sv.out collects what they send, and which  *)
(* transactions a tick finds due is a choice.  Notifications and separate  *)
(* responses fit in one message.  held is the application's: the handles   *)
(* of the deferred requests it still has to answer; it answers each once.  *)
(***************************************************************************)
EXTENDS CoapNet, TransactionOps, Blockwise

CONSTANTS
    ServerEp,        \* the server's endpoint
    Peers,           \* endpoints that send it requests
    Tokens,          \* tokens of these requests
    Resources,       \* paths of the resource table
    Methods,         \* path -> methods the resource accepts
    Observable,      \* the resources registered as observable
    MaxObservers,    \* PULSECOAP_MAX_OBSERVERS
    MaxDeferred,     \* PULSECOAP_MAX_DEFERRED
    MaxNotify,       \* bound: calls of notify()
    HandlerAnswers,  \* path -> what its handler does: subset of
                     \* {"inline", "defer"}
    MaxSessions,     \* PULSECOAP_MAX_BLOCK1_SESSIONS
    ReplySize        \* path -> length of the representation a GET returns

ASSUME ServerAssumption ==
    /\ MaxObservers \in Nat \ {0} /\ MaxDeferred \in Nat \ {0} /\ MaxNotify \in Nat
    /\ Observable \subseteq Resources
    /\ \A r \in Resources : Methods[r] \subseteq MethodCodes
    /\ HandlerAnswers \in [Resources -> SUBSET {"inline", "defer"}]
    /\ MaxSessions \in Nat \ {0} /\ ReplySize \in [Resources -> Nat]

VARIABLES
    sv,       \* the Server object
    held      \* handles the application has yet to answer

serverVars == <<sv, held>>

ObserverSlots == 0 .. MaxObservers - 1
DeferSlots    == 0 .. MaxDeferred - 1
SessionSlots  == 0 .. MaxSessions - 1

(* What the slots of the three tables hold that are in use.                *)
ObserverEntry ==
    [res : Observable, remote : Peers, token : Tokens, lastMid : Mids,
     about : Nat]

DeferredResponse == [remote : Peers, token : Tokens, con : BOOLEAN, about : Nat]

(* A notification or separate response that is sent as Confirmable. *)
TrackedPacket ==
    [src : {ServerEp}, dst : Peers, type : {"CON"}, code : {"Content"},
     mid : Mids, token : Tokens, obs : {"none"},
     path : Observable \cup {"none"}, about : Nat]

ServerTransaction ==
    [remote : Peers, mid : Mids, token : Tokens,
     retries : 0 .. MaxRetransmit, packet : TrackedPacket, kind : {"notify", "separate"}]

(* An inactive slot holds none of them. *)
ASSUME FreeSlotAssumption == Free \notin ObserverEntry /\ Free \notin DeferredResponse

ServerInitState ==
    [observers |-> [i \in ObserverSlots |-> Free],
     deferred  |-> [i \in DeferSlots |-> Free],
     tx        |-> EmptyPool,
     nextMid   |-> 1 % MidMod,
     sessions  |-> [i \in SessionSlots |-> Free],
     notified  |-> 0,
     bodies    |-> {},
     out       |-> {}]

Send(s, packets) == [s EXCEPT !.out = @ \cup packets]
NextMid(s)       == [s EXCEPT !.nextMid = (@ + 1) % MidMod]

-----------------------------------------------------------------------------
(* Observe registrations *)

ObserversOf(s, remote, token) ==
    {i \in Occupied(s.observers) :
        s.observers[i].remote = remote /\ s.observers[i].token = token}

(* Mutant: every registration takes a new slot. *)
RegisterAgain(s, m) ==
    IF Vacant(s.observers) = {} THEN s
    ELSE [s EXCEPT !.observers[Min(Vacant(s.observers))] =
            [res |-> m.path, remote |-> m.src, token |-> m.token,
             lastMid |-> m.mid, about |-> m.about]]

(* registerObserver(), and the message ID handleRequest() stores after it: *)
(* the same remote and token refresh their slot, others take the first     *)
(* inactive one, and a full table drops the registration.                  *)
RegisterObserver(s, m) ==
    LET same == ObserversOf(s, m.src, m.token)
        slot == IF same # {} THEN same ELSE Vacant(s.observers)
    IN  IF slot = {} THEN s
        ELSE [s EXCEPT !.observers[Min(slot)] =
                [res |-> m.path, remote |-> m.src, token |-> m.token,
                 lastMid |-> m.mid, about |-> m.about]]

(* removeObserver(): every slot with this remote and token. *)
RemoveObserver(s, remote, token) ==
    [s EXCEPT !.observers = [i \in ObserverSlots |->
        IF i \in ObserversOf(s, remote, token) THEN Free ELSE @[i]]]

(* Mutant: a GET without an Observe option registers too. *)
HandleObserveAlways(s, m) ==
    IF m.path \notin Observable \/ m.code # "Get" THEN s
    ELSE IF m.obs # "deregister" THEN RegisterObserver(s, m)
    ELSE RemoveObserver(s, m.src, m.token)

(* handleRequest(): a GET of an observable resource with an Observe option. *)
HandleObserve(s, m) ==
    IF m.path \notin Observable \/ m.code # "Get" \/ m.obs = "none" THEN s
    ELSE IF m.obs = "register" THEN RegisterObserver(s, m)
    ELSE RemoveObserver(s, m.src, m.token)

-----------------------------------------------------------------------------
(* Replies *)

(* sendPiggybackedResponse(): an ACK with the request's message ID, or for *)
(* a NON request a NON with a message ID of the server's own.              *)
ReplyPacket(s, m, code) ==
    LET con == m.type = "CON"
    IN  [src |-> ServerEp, dst |-> m.src, type |-> IF con THEN "ACK" ELSE "NON",
         code |-> code, mid |-> IF con THEN m.mid ELSE s.nextMid,
         token |-> m.token, obs |-> "none", path |-> m.path, about |-> m.about]

SendReply(s, m, pkt) == Send(IF m.type = "CON" THEN s ELSE NextMid(s), {pkt})

Piggyback(s, m, code) == SendReply(s, m, ReplyPacket(s, m, code))

(* sendBlock2Response() for the block the request asks for. *)
SendBlock2(s, m, body) ==
    LET num == IF HasOption(m, "block2") THEN m.block2.num ELSE 0
    IN  SendReply(s, m, WithOption(ReplyPacket(s, m, "Content"),
          [block2 |-> Block(Len(body), num), data |-> Slice(body, num)]))

(* The reply to a request whose handler answered inline with body: in one  *)
(* piece, or the block asked for, if there is one.                         *)
ReplyInline(s, m, body) ==
    IF body = <<>> \/ (Len(body) <= BlockSize /\ ~HasOption(m, "block2"))
    THEN Piggyback(s, m, "Content")
    ELSE IF HasOption(m, "block2") /\ Offset(m.block2.num) >= Len(body)
    THEN Piggyback(s, m, "BadRequest")
    ELSE SendBlock2(s, m, body)

DeferredEntry(m) ==
    [remote |-> m.src, token |-> m.token, con |-> m.type = "CON", about |-> m.about]

(* The handler claimed deferred slot h: a CON gets its empty ACK.          *)
Defer(s, m, h) ==
    LET s1 == [s EXCEPT !.deferred[h] = DeferredEntry(m)]
    IN  IF m.type = "CON" THEN Send(s1, {EmptyAck(ServerEp, m.src, m.mid)}) ELSE s1

(* The handler runs, and answers inline if it does not want to defer or    *)
(* the table of deferred requests is full.                                 *)
RunHandler(s, m, answer, body) ==
    IF answer = "defer" /\ Vacant(s.deferred) # {}
    THEN Defer(s, m, Min(Vacant(s.deferred)))
    ELSE ReplyInline(s, m, body)

-----------------------------------------------------------------------------
(* Block1 sessions *)

(* Mutant: the token is not compared. *)
SessionsOfRemote(s, m) == {i \in Occupied(s.sessions) : s.sessions[i].remote = m.src}

(* findBlock1Session() *)
SessionsOf(s, m) ==
    {i \in Occupied(s.sessions) :
        s.sessions[i].remote = m.src /\ s.sessions[i].token = m.token}

(* The session of a block: an existing one or, for block 0, a new one.     *)
SessionFor(s, m) ==
    IF SessionsOf(s, m) # {} THEN s.sessions[Min(SessionsOf(s, m))]
    ELSE [remote |-> m.src, token |-> m.token, next |-> 0, data |-> <<>>]

(* A 2.31 Continue. *)
Continue(s, m, num, more) ==
    SendReply(s, m, WithOption(ReplyPacket(s, m, "Continue"),
                               [block1 |-> [num |-> num, more |-> more]]))

(* Mutant: the number of the block is not compared. *)
OnBlock1AnyOrder(s, m, answer) ==
    LET known == SessionsOf(s, m)
        k     == Min(IF known # {} THEN known ELSE Vacant(s.sessions))
        old   == SessionFor(s, m)
        new   == [old EXCEPT !.next = m.block1.num + 1, !.data = @ \o m.data]
        freed == [s EXCEPT !.sessions[k] = Free]
    IN  IF known = {} /\ m.block1.num # 0 THEN Piggyback(s, m, "Incomplete")
        ELSE IF known = {} /\ Vacant(s.sessions) = {} THEN Piggyback(s, m, "Unavailable")
        ELSE IF Len(new.data) > MaxBlock1Body THEN Piggyback(freed, m, "TooLarge")
        ELSE IF m.block1.more
        THEN Continue([s EXCEPT !.sessions[k] = new], m, m.block1.num, FALSE)
        ELSE RunHandler([freed EXCEPT !.bodies = @ \cup {new.data}], m, answer, <<>>)

(* A block of an upload.  One that is not the next is answered with the    *)
(* number of the last one accepted; the final one frees the session, and   *)
(* the handler gets the body (bodies is history).                          *)
OnBlock1(s, m, answer) ==
    LET known == SessionsOf(s, m)
        k     == Min(IF known # {} THEN known ELSE Vacant(s.sessions))
        old   == SessionFor(s, m)
        new   == [old EXCEPT !.next = @ + 1, !.data = @ \o m.data]
        freed == [s EXCEPT !.sessions[k] = Free]
    IN  IF known = {} /\ m.block1.num # 0 THEN Piggyback(s, m, "Incomplete")
        ELSE IF known = {} /\ Vacant(s.sessions) = {} THEN Piggyback(s, m, "Unavailable")
        ELSE IF m.block1.num # old.next THEN Continue(s, m, old.next - 1, TRUE)
        ELSE IF Len(new.data) > MaxBlock1Body THEN Piggyback(freed, m, "TooLarge")
        ELSE IF m.block1.more
        THEN Continue([s EXCEPT !.sessions[k] = new], m, m.block1.num, FALSE)
        ELSE RunHandler([freed EXCEPT !.bodies = @ \cup {new.data}], m, answer, <<>>)

-----------------------------------------------------------------------------
(* handleRequest() *)
HandleRequest(s, m, answer) ==
    IF m.path \notin Resources THEN Piggyback(s, m, "NotFound")
    ELSE IF m.code \notin Methods[m.path] THEN Piggyback(s, m, "MethodNotAllowed")
    ELSE LET s1 == HandleObserve(s, m)
         IN  IF HasOption(m, "block1") /\ m.code = "Put" THEN OnBlock1(s1, m, answer)
             ELSE RunHandler(s1, m, answer,
                    Representation(IF m.code = "Get" THEN ReplySize[m.path] ELSE 0))

-----------------------------------------------------------------------------
(* notify() *)

Watchers(s, res) == {i \in Occupied(s.observers) : s.observers[i].res = res}

(* Position of x among the members of S, from 0. *)
Rank(x, S) == Cardinality({y \in S : y < x})

Notification(s, i, con) ==
    LET o == s.observers[i]
    IN  [src |-> ServerEp, dst |-> o.remote, type |-> IF con THEN "CON" ELSE "NON",
         code |-> "Content",
         mid |-> (s.nextMid + Rank(i, Watchers(s, o.res))) % MidMod,
         token |-> o.token, obs |-> "none", path |-> o.res, about |-> o.about]

TrackPacket(pkt, kind) ==
    [remote |-> pkt.dst, mid |-> pkt.mid, token |-> pkt.token, retries |-> 0,
     packet |-> pkt, kind |-> kind]

(* One packet per observer, in slot order; with confirmable the k-th of    *)
(* them is tracked in the k-th free transaction slot, if there is one.     *)
NotifyAll(s, res, con) ==
    LET targets == Watchers(s, res)
        free    == FreeSlots(s.tx)
        pkt(i)  == Notification(s, i, con)
        forSlot(k) == {i \in targets : con /\ k \in free /\ Rank(i, targets) = Rank(k, free)}
    IN  [s EXCEPT
           !.nextMid = (@ + Cardinality(targets)) % MidMod,
           !.observers = [i \in ObserverSlots |->
               IF i \in targets THEN [@[i] EXCEPT !.lastMid = pkt(i).mid] ELSE @[i]],
           !.tx = [k \in TxSlots |->
               IF forSlot(k) = {} THEN @[k]
               ELSE TrackPacket(pkt(CHOOSE i \in forSlot(k) : TRUE), "notify")],
           !.notified = @ + 1,
           !.out = @ \cup {pkt(i) : i \in targets}]

-----------------------------------------------------------------------------
(* respond() *)

SeparateResponse(s, h) ==
    [src |-> ServerEp, dst |-> s.deferred[h].remote,
     type |-> IF s.deferred[h].con THEN "CON" ELSE "NON", code |-> "Content",
     mid |-> s.nextMid, token |-> s.deferred[h].token, obs |-> "none",
     path |-> "none", about |-> s.deferred[h].about]

(* Mutant: the slot is not freed. *)
RespondKeepsSlot(s, handle) ==
    LET h   == handle.slot
        pkt == SeparateResponse(s, h)
    IN  IF s.deferred[h] = Free THEN s
        ELSE Send([NextMid(s) EXCEPT !.tx = IF s.deferred[h].con
                                    THEN StartTx(@, TrackPacket(pkt, "separate"))
                                    ELSE @], {pkt})

(* respond() on an active slot: sent, tracked if the request was CON, and  *)
(* the slot freed.  On an inactive one it returns false.                   *)
RespondTo(s, handle) ==
    LET h   == handle.slot
        pkt == SeparateResponse(s, h)
        s1  == [NextMid(s) EXCEPT !.deferred[h] = Free]
    IN  IF s.deferred[h] = Free THEN s
        ELSE Send([s1 EXCEPT !.tx = IF s.deferred[h].con
                                    THEN StartTx(@, TrackPacket(pkt, "separate"))
                                    ELSE @], {pkt})

-----------------------------------------------------------------------------
(* poll() *)

(* Mutant: no timeout callback. *)
TickKeepsObservers(s, due) ==
    [s EXCEPT
       !.tx = TickTx(@, due),
       !.out = @ \cup {s.tx[i].packet : i \in Resent(s.tx, due)}]

(* txPool_.tick() with separateResendTrampoline() and                      *)
(* observeTimeoutTrampoline().                                             *)
TickServer(s, due) ==
    LET lost == UNION {ObserversOf(s, s.tx[i].remote, s.tx[i].token) :
                          i \in Expired(s.tx, due)}
    IN  [s EXCEPT
           !.tx = TickTx(@, due),
           !.observers = [i \in ObserverSlots |-> IF i \in lost THEN Free ELSE @[i]],
           !.out = @ \cup {s.tx[i].packet : i \in Resent(s.tx, due)}]

(* Mutant: the message ID is not compared. *)
RejectedByRemote(s, m) == {i \in Occupied(s.observers) : s.observers[i].remote = m.src}

(* A Reset removes the first observer this message ID was last stored for. *)
Rejected(s, m) ==
    {i \in Occupied(s.observers) :
        s.observers[i].remote = m.src /\ s.observers[i].lastMid = m.mid}

OnServerReset(s, m) ==
    IF Rejected(s, m) = {} THEN s
    ELSE [s EXCEPT !.observers[Min(Rejected(s, m))] = Free]

OnServerPacket(s, m, answer) ==
    CASE m.type = "RST" -> OnServerReset(s, m)
      [] m.type = "ACK" -> [s EXCEPT !.tx = CompleteTx(@, m.src, m.mid)]
      [] m.type \in {"CON", "NON"} /\ m.code \in MethodCodes ->
            HandleRequest(s, m, answer)
      [] OTHER -> s

-----------------------------------------------------------------------------
(* Actions *)

ServerIdlePoll ==
    \E due \in SUBSET InFlight(sv.tx) :
       LET s == TickServer(sv, due)
       IN  /\ sv' = [s EXCEPT !.out = {}]
           /\ Transmit(s.out)
           /\ UNCHANGED held

AnswersTo(m) ==
    IF m.path \in Resources THEN HandlerAnswers[m.path] ELSE {"inline"}

Claimed(s1, s2) == {i \in Vacant(s1.deferred) : s2.deferred[i] # Free}

(* poll(): tick, then one packet.  A handler that defers leaves its handle *)
(* with the application.                                                   *)
ServerReceive(m) ==
    /\ m \in net /\ m.dst = ServerEp
    /\ \E due \in SUBSET InFlight(sv.tx), answer \in AnswersTo(m) :
         LET s1 == TickServer(sv, due)
             s2 == OnServerPacket(s1, m, answer)
         IN  /\ sv' = [s2 EXCEPT !.out = {}]
             /\ held' = held \cup {[slot |-> i, about |-> m.about] :
                                    i \in Claimed(s1, s2)}
             /\ Deliver(m, s2.out)

Notify ==
    /\ sv.notified < MaxNotify
    /\ \E res \in Observable, con \in BOOLEAN :
         LET s == NotifyAll(sv, res, con)
         IN  /\ sv' = [s EXCEPT !.out = {}]
             /\ Transmit(s.out)
    /\ UNCHANGED held

(* The application answers a deferred request. *)
Respond(handle) ==
    /\ LET s == RespondTo(sv, handle)
       IN  /\ sv' = [s EXCEPT !.out = {}]
           /\ Transmit(s.out)
    /\ held' = held \ {handle}

ServerInit == sv = ServerInitState /\ held = {}

ServerNext ==
    \/ ServerIdlePoll
    \/ \E m \in net : ServerReceive(m)
    \/ Notify
    \/ \E handle \in held : Respond(handle)

-----------------------------------------------------------------------------
(* Type invariant of the server's tables. *)
ServerTypeOK ==
    /\ sv.observers \in [ObserverSlots -> ObserverEntry \cup {Free}]
    /\ sv.deferred \in [DeferSlots -> DeferredResponse \cup {Free}]
    /\ sv.tx \in [TxSlots -> ServerTransaction \cup {Free}]
    /\ sv.nextMid \in Mids /\ sv.notified \in 0 .. MaxNotify
    /\ held \subseteq [slot : DeferSlots, about : Nat]

(* One subscription, one slot: however registrations are repeated, mixed   *)
(* with removals and refused for lack of room, no client gets a            *)
(* notification twice and none keeps a slot that removal does not reach.   *)
UniqueObservers ==
    \A i, j \in Occupied(sv.observers) :
       /\ sv.observers[i].remote = sv.observers[j].remote
       /\ sv.observers[i].token = sv.observers[j].token
       => i = j

(* Every deferred slot is held by exactly one handle of the application,   *)
(* for the request that claimed it: no slot leaks and no handle dangles,   *)
(* also when requests are duplicated and the deferred pool is full.        *)
HandlesMatchSlots ==
    /\ \A h \in held : /\ sv.deferred[h.slot] # Free
                       /\ sv.deferred[h.slot].about = h.about
    /\ \A i \in Occupied(sv.deferred) : \E h \in held : h.slot = i

(* A client stays subscribed until it deregisters, resets the latest       *)
(* notification, or leaves a Confirmable message with its token            *)
(* unacknowledged through all its retransmissions; losing other messages,  *)
(* old Resets, and the renewals and removals of others do not end it.      *)
RemovedForCause ==
    [][\A i \in Occupied(sv.observers) :
          sv'.observers[i] = Free =>
             LET o == sv.observers[i]
             IN  \/ \E k \in SlotsByToken(sv.tx, o.remote, o.token) :
                       /\ sv.tx[k].retries = MaxRetransmit
                       /\ sv'.tx[k] # sv.tx[k]
                 \/ \E m \in net : /\ ServerReceive(m) /\ m.src = o.remote
                                   /\ \/ m.type = "RST" /\ m.mid = o.lastMid
                                      \/ m.obs = "deregister" /\ m.token = o.token
      ]_<<serverVars, netVars>>

(* The tick of an idle poll() removes an observer only for a notification  *)
(* it has not acknowledged; "no observer carries that token" of a separate *)
(* response that times out (PulseCoAPServer.cpp:306-308).                  *)
SeparateTimeoutHarmless ==
    [][ServerIdlePoll =>
          \A i \in Occupied(sv.observers) :
             sv'.observers[i] = Free =>
                \E k \in SlotsByToken(sv.tx, sv.observers[i].remote, sv.observers[i].token) :
                   /\ sv.tx[k].kind = "notify"
                   /\ sv.tx[k].retries = MaxRetransmit
                   /\ sv'.tx[k] # sv.tx[k]]_<<serverVars, netVars>>
=============================================================================
