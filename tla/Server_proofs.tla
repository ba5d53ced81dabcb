---------------------------- MODULE Server_proofs ----------------------------
(***************************************************************************)
(* What the operations of class Server do to its tables, for every size of *)
(* the tables, set of resources and packet received, block options         *)
(* included, and the invariants each of its actions preserves.             *)
(***************************************************************************)
EXTENDS Server, TransactionOps_proofs, FiniteSetTheorems, SequenceTheorems

LEMMA MidsClosed == \A n \in Nat : n % MidMod \in Mids
BY NetAssumption DEF Mids

(* The fields of a Server object, whatever they hold. *)
Object(s) ==
    s = [observers |-> s.observers, deferred |-> s.deferred, tx |-> s.tx,
         nextMid |-> s.nextMid, sessions |-> s.sessions, notified |-> s.notified,
         bodies |-> s.bodies, out |-> s.out]

(* A packet of a client: a request has a token and may ask for a block;    *)
(* what an ACK or a Reset carries beside its message ID is not looked at.  *)
FromClient(m) ==
    /\ m.src \in Peers /\ m.mid \in Mids
    /\ m.code \in MethodCodes =>
          /\ m.token \in Tokens /\ m.about \in Nat
          /\ HasOption(m, "block2") => m.block2.num \in Nat

(* A packet for a client: a response has the token and the number of a     *)
(* request, and may have a block, then with the server as its source.      *)
ToClient(p) ==
    /\ p.dst \in Peers /\ p.mid \in Mids /\ p.obs = "none"
    /\ p.code \in ResponseCodes \cup {"Empty"}
    /\ p.code \in ResponseCodes => p.token \in Tokens /\ p.about \in Nat
    /\ HasOption(p, "block2") =>
          p.block2.num \in Nat /\ p.data \in Seq(Nat) /\ p.src = ServerEp

(* The answer to request m has its token and number. *)
AnswerTo(p, m) ==
    ToClient(p) /\ (p.code \in ResponseCodes => p.token = m.token /\ p.about = m.about)

(* Nothing but message IDs, sessions, bodies and packets that answer m     *)
(* differ.                                                                 *)
SameTables(s, t, m) ==
    /\ Object(t) /\ t.nextMid \in Mids
    /\ \A p \in t.out : p \in s.out \/ AnswerTo(p, m)
    /\ t.observers = s.observers /\ t.deferred = s.deferred /\ t.tx = s.tx
    /\ t.notified = s.notified

(* Nor does the table of deferred responses, except that request m, if its *)
(* handler defers, may have claimed a vacant slot of it.                   *)
ClaimedBy(s, t, m, answer) ==
    \/ SameTables(s, t, m)
    \/ answer = "defer" /\ \E h \in Vacant(s.deferred) :
         SameTables([s EXCEPT !.deferred[h] = DeferredEntry(m)], t, m)

(* An observer is the one another slot, or the same slot earlier, holds;   *)
(* or the one a request has asked for.                                     *)
SameSubscription(o, o0) ==
    /\ o.res = o0.res /\ o.remote = o0.remote
    /\ o.token = o0.token /\ o.about = o0.about

AskedForBy(o, m) ==
    /\ m.obs = "register" /\ m.code = "Get"
    /\ o.res = m.path /\ o.remote = m.src
    /\ o.token = m.token /\ o.about = m.about

LEMMA TablesNumbered ==
    ObserverSlots \subseteq Nat /\ DeferSlots \subseteq Nat /\ TxSlots \subseteq Nat
BY ServerAssumption, PoolAssumption DEF ObserverSlots, DeferSlots, TxSlots

(* sendPiggybackedResponse() *)
LEMMA SendReplyEffect ==
    ASSUME NEW s, Object(s), s.nextMid \in Mids, NEW m, NEW pkt, AnswerTo(pkt, m)
    PROVE  SameTables(s, SendReply(s, m, pkt), m)
<1>1. SameTables(s, s, m)
  BY DEF SameTables
<1>2. SameTables(s, NextMid(s), m)
  <2>1. (s.nextMid + 1) % MidMod \in Mids
    BY MidsClosed DEF Mids
  <2> HIDE DEF Mids
  <2>2. NextMid(s).nextMid \in Mids
    BY <2>1 DEF NextMid, Object
  <2>3. Object(NextMid(s))
    BY DEF NextMid, Object
  <2> QED BY <2>1, <2>2, <2>3 DEF NextMid, SameTables, Object
<1>3. ASSUME NEW t, SameTables(s, t, m) PROVE SameTables(s, Send(t, {pkt}), m)
  <2>1. Object(Send(t, {pkt}))
    BY <1>3 DEF Send, SameTables, Object
  <2> QED BY <1>3, <2>1 DEF Send, SameTables, Object
<1> QED BY <1>1, <1>2, <1>3 DEF SendReply

(* The packets a request is answered with: the fields of a block come last. *)
LEMMA ReplyToClient ==
    ASSUME NEW s, s.nextMid \in Mids, NEW m, FromClient(m), m.code \in MethodCodes,
           NEW code \in ResponseCodes
    PROVE  AnswerTo(ReplyPacket(s, m, code), m)
<1> DEFINE r == ReplyPacket(s, m, code)
<1>1. /\ DOMAIN r = PacketFields
      /\ r.dst \in Peers /\ r.mid \in Mids /\ r.obs = "none" /\ r.code = code
      /\ r.token \in Tokens /\ r.about \in Nat /\ r.token = m.token /\ r.about = m.about
  BY DEF ReplyPacket, FromClient, PacketFields
<1> HIDE DEF r
<1>2. AnswerTo(r, m)
  BY <1>1 DEF AnswerTo, ToClient, HasOption, PacketFields
<1> QED BY <1>2 DEF r

LEMMA BlockToClient ==
    ASSUME NEW s, s.nextMid \in Mids, NEW m, FromClient(m), m.code \in MethodCodes,
           NEW code \in ResponseCodes, NEW x,
           "block2" \in DOMAIN x =>
              "data" \in DOMAIN x /\ x.block2.num \in Nat /\ x.data \in Seq(Nat)
    PROVE  AnswerTo(WithOption(ReplyPacket(s, m, code), x), m)
<1> DEFINE r == ReplyPacket(s, m, code)
           w == WithOption(r, x)
<1>1. DOMAIN r = PacketFields
  BY DEF ReplyPacket, PacketFields
<1>2. AnswerTo(r, m) /\ r.code = code /\ r.src = ServerEp
  BY ReplyToClient DEF ReplyPacket
<1> HIDE DEF r
<1>3. /\ DOMAIN w = DOMAIN r \cup DOMAIN x
      /\ \A f \in DOMAIN r : w[f] = r[f]
      /\ \A f \in DOMAIN x : f \notin DOMAIN r => w[f] = x[f]
  BY DEF WithOption
<1> HIDE DEF w
<1>4. /\ w.dst = r.dst /\ w.mid = r.mid /\ w.obs = r.obs /\ w.code = r.code
      /\ w.token = r.token /\ w.about = r.about /\ w.src = r.src
  BY <1>1, <1>3 DEF PacketFields
<1>5. "block2" \in DOMAIN w => "block2" \in DOMAIN x
  BY <1>1, <1>3 DEF PacketFields
<1>6. "block2" \in DOMAIN x => w.block2 = x.block2 /\ w.data = x.data
  BY <1>1, <1>3 DEF PacketFields
<1>7. AnswerTo(w, m)
  BY <1>2, <1>4, <1>5, <1>6 DEF AnswerTo, ToClient, HasOption
<1> QED BY <1>7 DEF w, r

(* A block that begins within the body. *)
LEMMA SliceIsBody ==
    ASSUME NEW body \in Seq(Nat), NEW num \in Nat, Offset(num) < Len(body)
    PROVE  Slice(body, num) \in Seq(Nat)
<1> DEFINE from == Offset(num) + 1
           to   == Min({Offset(num) + BlockSize, Len(body)})
<1>1. Offset(num) \in Nat /\ Len(body) \in Nat
  BY BlockAssumption DEF Offset
<1>2. to \in {Offset(num) + BlockSize, Len(body)} /\ to \in Nat /\ to <= Len(body)
  <2> DEFINE S == {Offset(num) + BlockSize, Len(body)}
  <2>1. S \in SUBSET Nat /\ S # {}
    BY <1>1, BlockAssumption
  <2> HIDE DEF S
  <2>2. Min(S) \in S /\ \A x \in S : Min(S) <= x
    BY <2>1, MinInSet
  <2> QED BY <1>1, <2>1, <2>2 DEF S
<1>3. from \in 1 .. Len(body) + 1 /\ to \in from - 1 .. Len(body)
  BY <1>1, <1>2, BlockAssumption
<1> HIDE DEF from, to
<1>4. SubSeq(body, from, to) \in Seq(Nat)
  BY <1>3, SubSeqProperties
<1> QED BY <1>4 DEF Slice, from, to

LEMMA RepresentationIsBody == \A size \in Nat : Representation(size) \in Seq(Nat)
BY DEF Representation

(* The reply in one piece, the block the request asks for, or an error. *)
LEMMA ReplyInlineEffect ==
    ASSUME NEW s, Object(s), s.nextMid \in Mids, NEW m, FromClient(m), m.code \in MethodCodes,
           NEW body \in Seq(Nat)
    PROVE  SameTables(s, ReplyInline(s, m, body), m)
<1> DEFINE num == IF HasOption(m, "block2") THEN m.block2.num ELSE 0
           x   == [block2 |-> Block(Len(body), num), data |-> Slice(body, num)]
<1>1. \A code \in ResponseCodes : SameTables(s, Piggyback(s, m, code), m)
  BY SendReplyEffect, ReplyToClient DEF Piggyback
<1>2. CASE body # <<>> /\ Offset(num) < Len(body)
  <2>1. num \in Nat
    BY DEF FromClient
  <2> HIDE DEF num
  <2>2. x.block2.num = num /\ x.data \in Seq(Nat) /\ "data" \in DOMAIN x
    BY <1>2, <2>1, SliceIsBody DEF Block
  <2> HIDE DEF x
  <2>3. AnswerTo(WithOption(ReplyPacket(s, m, "Content"), x), m)
    BY <2>1, <2>2, BlockToClient DEF ResponseCodes
  <2>4. SameTables(s, SendReply(s, m, WithOption(ReplyPacket(s, m, "Content"), x)), m)
    BY <2>3, SendReplyEffect
  <2>5. SameTables(s, SendBlock2(s, m, body), m)
    BY <2>4 DEF SendBlock2, num, x
  <2> QED BY <1>1, <2>5 DEF ReplyInline, ResponseCodes
<1>3. CASE body = <<>>
  BY <1>1, <1>3 DEF ReplyInline, ResponseCodes
<1>4. CASE body # <<>> /\ Offset(num) >= Len(body)
  <2>1. Len(body) > 0 /\ Offset(0) = 0
    BY <1>4, BlockAssumption DEF Offset
  <2>2. HasOption(m, "block2") /\ Offset(m.block2.num) >= Len(body)
    BY <1>4, <2>1
  <2> QED BY <1>1, <2>2 DEF ReplyInline, ResponseCodes
<1>5. Offset(num) \in Nat
  BY BlockAssumption DEF Offset, FromClient
<1> QED BY <1>2, <1>3, <1>4, <1>5

(* A slot of the table of deferred responses is claimed, or the handler    *)
(* answers at once.                                                        *)
LEMMA RunHandlerEffect ==
    ASSUME NEW s, Object(s), s.nextMid \in Mids, NEW m, FromClient(m), m.code \in MethodCodes,
           NEW answer, NEW body \in Seq(Nat), DOMAIN s.deferred = DeferSlots
    PROVE  ClaimedBy(s, RunHandler(s, m, answer, body), m, answer)
<1>1. CASE answer = "defer" /\ Vacant(s.deferred) # {}
  <2> DEFINE h  == Min(Vacant(s.deferred))
             s1 == [s EXCEPT !.deferred[h] = DeferredEntry(m)]
  <2>1. h \in Vacant(s.deferred)
    BY <1>1, VacantSlot, TablesNumbered
  <2>2. RunHandler(s, m, answer, body) = Defer(s, m, h)
    BY <1>1 DEF RunHandler
  <2> HIDE DEF h
  <2>0. Object(s1) /\ s1.nextMid = s.nextMid
    <3> DEFINE d == [s.deferred EXCEPT ![h] = DeferredEntry(m)]
    <3>1. s1 = [s EXCEPT !.deferred = d]
      OBVIOUS
    <3> HIDE DEF d, s1
    <3>2. s1 = [observers |-> s.observers, deferred |-> d, tx |-> s.tx,
                nextMid |-> s.nextMid, sessions |-> s.sessions, notified |-> s.notified,
                bodies |-> s.bodies, out |-> s.out]
      BY <3>1 DEF Object
    <3> QED BY <3>2 DEF Object
  <2> HIDE DEF s1
  <2>3. SameTables(s1, s1, m)
    BY <2>0 DEF SameTables
  <2>4. ASSUME NEW pkt, AnswerTo(pkt, m) PROVE SameTables(s1, Send(s1, {pkt}), m)
    <3> DEFINE s2 == Send(s1, {pkt})
    <3>0. s2 = [s1 EXCEPT !.out = s1.out \cup {pkt}]
      BY DEF Send
    <3> HIDE DEF s2
    <3>9. s2 = [observers |-> s1.observers, deferred |-> s1.deferred, tx |-> s1.tx,
                nextMid |-> s1.nextMid, sessions |-> s1.sessions, notified |-> s1.notified,
                bodies |-> s1.bodies, out |-> s1.out \cup {pkt}]
      BY <2>0, <3>0 DEF Object
    <3>1. Object(s2) /\ s2.out = s1.out \cup {pkt}
      BY <3>9 DEF Object
    <3> USE DEF s2
    <3>2. \A p \in Send(s1, {pkt}).out : p \in s1.out \/ AnswerTo(p, m)
      BY <2>4, <3>1
    <3> QED BY <2>3, <3>1, <3>2 DEF Send, SameTables, Object
  <2>5. SameTables(s1, Defer(s, m, h), m)
    <3> DEFINE ack == EmptyAck(ServerEp, m.src, m.mid)
    <3>0. /\ DOMAIN ack = PacketFields
          /\ ack.dst \in Peers /\ ack.mid \in Mids /\ ack.obs = "none" /\ ack.code = "Empty"
      BY DEF EmptyAck, FromClient, PacketFields
    <3> HIDE DEF ack
    <3>1. AnswerTo(ack, m)
      BY <3>0 DEF AnswerTo, ToClient, HasOption, ResponseCodes, PacketFields
    <3> USE DEF ack
    <3>2. Defer(s, m, h) \in {s1, Send(s1, {EmptyAck(ServerEp, m.src, m.mid)})}
      BY DEF Defer, s1
    <3> QED BY <2>3, <2>4, <3>1, <3>2
  <2> QED BY <1>1, <2>1, <2>2, <2>5 DEF ClaimedBy, s1
<1>2. CASE ~(answer = "defer" /\ Vacant(s.deferred) # {})
  <2>1. SameTables(s, ReplyInline(s, m, body), m)
    BY ReplyInlineEffect
  <2> QED BY <1>2, <2>1 DEF RunHandler, ClaimedBy
<1> QED BY <1>1, <1>2

(* A block of an upload reaches the handler, or only its session changes. *)
LEMMA OnBlock1Effect ==
    ASSUME NEW s, Object(s), s.nextMid \in Mids, NEW m, FromClient(m), m.code \in MethodCodes,
           NEW answer, DOMAIN s.deferred = DeferSlots
    PROVE  ClaimedBy(s, OnBlock1(s, m, answer), m, answer)
<1> DEFINE known == SessionsOf(s, m)
           k     == Min(IF known # {} THEN known ELSE Vacant(s.sessions))
           old   == SessionFor(s, m)
           new   == [old EXCEPT !.next = @ + 1, !.data = @ \o m.data]
           freed == [s EXCEPT !.sessions[k] = Free]
           kept  == [s EXCEPT !.sessions[k] = new]
           done  == [freed EXCEPT !.bodies = @ \cup {new.data}]
<1>1. \/ \E code \in ResponseCodes : OnBlock1(s, m, answer) = Piggyback(s, m, code)
      \/ \E num, more : OnBlock1(s, m, answer) = Continue(s, m, num, more)
      \/ \E code \in ResponseCodes : OnBlock1(s, m, answer) = Piggyback(freed, m, code)
      \/ \E num, more : OnBlock1(s, m, answer) = Continue(kept, m, num, more)
      \/ OnBlock1(s, m, answer) = RunHandler(done, m, answer, <<>>)
  BY DEF OnBlock1, ResponseCodes
<1> HIDE DEF known, k, old, new
<1>2. Object(freed) /\ SameTables(s, freed, m)
  BY DEF Object, SameTables
<1>3. Object(kept) /\ SameTables(s, kept, m)
  BY DEF Object, SameTables
<1> HIDE DEF freed, kept
<1>4. Object(done) /\ SameTables(s, done, m)
  BY <1>2 DEF Object, SameTables
<1>5. done.nextMid \in Mids /\ DOMAIN done.deferred = DeferSlots
  BY <1>4 DEF SameTables
<1> HIDE DEF done
<1>6. ASSUME NEW t, Object(t), SameTables(s, t, m), NEW code \in ResponseCodes, NEW num, NEW more
      PROVE  /\ SameTables(s, Piggyback(t, m, code), m)
             /\ SameTables(s, Continue(t, m, num, more), m)
  <2>1. t.nextMid \in Mids
    BY <1>6 DEF SameTables
  <2> DEFINE x == [block1 |-> [num |-> num, more |-> more]]
  <2>2. "block2" \notin DOMAIN x /\ "Continue" \in ResponseCodes
    BY DEF ResponseCodes
  <2> HIDE DEF x
  <2>3. SameTables(t, Piggyback(t, m, code), m)
    <3>1. AnswerTo(ReplyPacket(t, m, code), m)
      BY <2>1, ReplyToClient
    <3> QED BY <1>6, <2>1, <3>1, SendReplyEffect DEF Piggyback
  <2>4. SameTables(t, Continue(t, m, num, more), m)
    <3>1. AnswerTo(WithOption(ReplyPacket(t, m, "Continue"), x), m)
      BY <2>1, <2>2, BlockToClient
    <3> QED BY <1>6, <2>1, <3>1, SendReplyEffect DEF Continue, x
  <2> QED BY <1>6, <2>3, <2>4 DEF SameTables
<1>7. SameTables(s, s, m)
  BY DEF SameTables
<1>8. CASE OnBlock1(s, m, answer) = RunHandler(done, m, answer, <<>>)
  <2>1. ClaimedBy(done, RunHandler(done, m, answer, <<>>), m, answer)
    <3>1. <<>> \in Seq(Nat)
      OBVIOUS
    <3> QED BY <1>4, <1>5, <3>1, RunHandlerEffect
  <2>2. ASSUME NEW t, SameTables(done, t, m) PROVE SameTables(s, t, m)
    BY <1>4, <2>2 DEF SameTables
  <2>3. ASSUME NEW t, NEW h, SameTables([done EXCEPT !.deferred[h] = DeferredEntry(m)], t, m)
        PROVE  SameTables([s EXCEPT !.deferred[h] = DeferredEntry(m)], t, m)
    BY <1>4, <2>3 DEF SameTables, Object
  <2>4. Vacant(done.deferred) = Vacant(s.deferred)
    BY <1>4 DEF SameTables
  <2> QED BY <1>8, <2>1, <2>2, <2>3, <2>4 DEF ClaimedBy
<1>9. "Content" \in ResponseCodes
  BY DEF ResponseCodes
<1> QED BY <1>1, <1>2, <1>3, <1>6, <1>7, <1>8, <1>9 DEF ClaimedBy

-----------------------------------------------------------------------------
(* The tables, of any Server object. *)
ObserverTable == [ObserverSlots -> ObserverEntry \cup {Free}]
DeferredTable == [DeferSlots -> DeferredResponse \cup {Free}]
ServerPool    == [TxSlots -> ServerTransaction \cup {Free}]

Unique(table) ==
    \A i, j \in Occupied(table) :
       table[i].remote = table[j].remote /\ table[i].token = table[j].token => i = j

TablesOK(s) ==
    /\ Object(s) /\ s.nextMid \in Mids
    /\ s.observers \in ObserverTable /\ Unique(s.observers)
    /\ s.deferred \in DeferredTable
    /\ s.tx \in ServerPool
    /\ s.notified \in 0 .. MaxNotify
    /\ \A p \in s.out : ToClient(p)

(* Entries with one remote and token are overwritten, or there are none.   *)
LEMMA PutObserver ==
    ASSUME NEW table \in ObserverTable, Unique(table), NEW o \in ObserverEntry,
           NEW k \in ObserverSlots,
           \A i \in Occupied(table) :
              table[i].remote = o.remote /\ table[i].token = o.token => i = k
    PROVE  [table EXCEPT ![k] = o] \in ObserverTable /\ Unique([table EXCEPT ![k] = o])
BY DEF ObserverTable, Unique, Occupied

(* Slots that are freed leave the table as it should be. *)
LEMMA FreeObservers ==
    ASSUME NEW table \in ObserverTable, Unique(table), NEW gone
    PROVE  LET new == [i \in ObserverSlots |-> IF i \in gone THEN Free ELSE table[i]]
           IN  new \in ObserverTable /\ Unique(new)
<1> DEFINE new == [i \in ObserverSlots |-> IF i \in gone THEN Free ELSE table[i]]
<1>1. new \in ObserverTable
  BY DEF ObserverTable
<1>2. DOMAIN table = ObserverSlots /\ DOMAIN new = ObserverSlots
  BY DEF ObserverTable
<1>3. \A i \in Occupied(new) : i \in Occupied(table) /\ new[i] = table[i]
  BY <1>2 DEF Occupied
<1> HIDE DEF new
<1>4. Unique(new)
  BY <1>3 DEF Unique
<1> QED BY <1>1, <1>4 DEF new

(* registerObserver() *)
LEMMA RegisterEffect ==
    ASSUME NEW s, TablesOK(s), NEW m, FromClient(m), m.code \in MethodCodes,
           m.path \in Observable
    PROVE  LET t == RegisterObserver(s, m)
           IN  /\ TablesOK(t) /\ t.deferred = s.deferred
               /\ t.tx = s.tx /\ t.out = s.out
<1> DEFINE same == ObserversOf(s, m.src, m.token)
           slot == IF same # {} THEN same ELSE Vacant(s.observers)
           o    == [res |-> m.path, remote |-> m.src, token |-> m.token,
                    lastMid |-> m.mid, about |-> m.about]
           new  == [s.observers EXCEPT ![Min(slot)] = o]
<1>1. CASE slot = {}
  BY <1>1 DEF RegisterObserver
<1>2. CASE slot # {}
  <2>1. o \in ObserverEntry
    BY DEF FromClient, ObserverEntry, Mids
  <2>2. s.observers \in ObserverTable /\ Unique(s.observers) /\ DOMAIN s.observers = ObserverSlots
    BY DEF TablesOK, ObserverTable
  <2>3. Min(slot) \in slot
    BY <1>2, <2>2, VacantSlot, TablesNumbered DEF ObserversOf
  <2>4. Min(slot) \in ObserverSlots
    BY <2>2, <2>3 DEF ObserversOf, Vacant, Occupied
  <2>5. \A i \in Occupied(s.observers) :
           s.observers[i].remote = m.src /\ s.observers[i].token = m.token => i = Min(slot)
    BY <2>2, <2>3 DEF ObserversOf, Unique
  <2>6. o.remote = m.src /\ o.token = m.token
    OBVIOUS
  <2>7. RegisterObserver(s, m) = [s EXCEPT !.observers = new]
    BY <1>2 DEF RegisterObserver, TablesOK, Object
  <2> HIDE DEF o, slot, same
  <2>8. new \in ObserverTable /\ Unique(new)
    BY <2>1, <2>2, <2>4, <2>5, <2>6, PutObserver
  <2> HIDE DEF new
  <2>9. TablesOK([s EXCEPT !.observers = new])
    BY <2>8 DEF TablesOK, Object
  <2> QED BY <2>7, <2>9 DEF TablesOK, Object
<1> QED BY <1>1, <1>2

(* A GET of an observable resource registers, renews or removes an         *)
(* observer, and leaves the other tables alone.                            *)
LEMMA HandleObserveEffect ==
    ASSUME NEW s, TablesOK(s), NEW m, FromClient(m)
    PROVE  LET t == HandleObserve(s, m)
           IN  /\ TablesOK(t) /\ t.deferred = s.deferred
               /\ t.tx = s.tx /\ t.out = s.out
<1>1. CASE m.path \notin Observable \/ m.code # "Get" \/ m.obs = "none"
  BY <1>1 DEF HandleObserve
<1>2. CASE m.path \in Observable /\ m.code = "Get" /\ m.obs = "register"
  BY <1>2, RegisterEffect DEF HandleObserve, MethodCodes
<1>3. CASE m.path \in Observable /\ m.code = "Get" /\ m.obs \notin {"none", "register"}
  <2> DEFINE gone == ObserversOf(s, m.src, m.token)
             new  == [i \in ObserverSlots |-> IF i \in gone THEN Free ELSE s.observers[i]]
  <2>1. HandleObserve(s, m) = [s EXCEPT !.observers = new]
    BY <1>3 DEF HandleObserve, RemoveObserver
  <2>2. new \in ObserverTable /\ Unique(new)
    BY FreeObservers DEF TablesOK
  <2> HIDE DEF new
  <2>3. TablesOK([s EXCEPT !.observers = new])
    BY <2>2 DEF TablesOK, Object
  <2> QED BY <2>1, <2>3 DEF TablesOK, Object
<1> QED BY <1>1, <1>2, <1>3

(* handleRequest(): beside the observers at most one vacant slot of the    *)
(* deferred responses changes hands.                                       *)
LEMMA HandleRequestEffect ==
    ASSUME NEW s, TablesOK(s), NEW m, FromClient(m), m.code \in MethodCodes, NEW answer
    PROVE  LET t == HandleRequest(s, m, answer)
           IN  /\ TablesOK(t) /\ t.tx = s.tx
               /\ \A p \in t.out : p \in s.out \/ AnswerTo(p, m)
               /\ t.observers \in {s.observers, HandleObserve(s, m).observers}
               /\ \/ t.deferred = s.deferred
                  \/ answer = "defer" /\ \E h \in Vacant(s.deferred) :
                       t.deferred = [s.deferred EXCEPT ![h] = DeferredEntry(m)]
<1> DEFINE s1 == HandleObserve(s, m)
           t  == HandleRequest(s, m, answer)
<1>1. /\ TablesOK(s1) /\ s1.deferred = s.deferred
      /\ s1.tx = s.tx /\ s1.out = s.out
  BY HandleObserveEffect
<1>2. \A u \in {s, s1} : Object(u) /\ u.nextMid \in Mids /\ DOMAIN u.deferred = DeferSlots
  BY <1>1 DEF TablesOK, DeferredTable
<1>3. \/ \E code \in ResponseCodes : t = Piggyback(s, m, code)
      \/ t = OnBlock1(s1, m, answer)
      \/ \E body \in Seq(Nat) : t = RunHandler(s1, m, answer, body)
  <2> DEFINE body == Representation(IF m.code = "Get" THEN ReplySize[m.path] ELSE 0)
  <2>1. m.path \in Resources => (IF m.code = "Get" THEN ReplySize[m.path] ELSE 0) \in Nat
    BY ServerAssumption
  <2>2. m.path \in Resources => body \in Seq(Nat)
    BY <2>1, RepresentationIsBody
  <2> QED BY <2>2 DEF HandleRequest, ResponseCodes
<1> HIDE DEF s1, t
<1>4. CASE \E code \in ResponseCodes : t = Piggyback(s, m, code)
  <2>1. SameTables(s, t, m)
    <3>1. PICK code \in ResponseCodes : t = Piggyback(s, m, code)
      BY <1>4
    <3>2. Object(s) /\ s.nextMid \in Mids
      BY <1>2
    <3>3. AnswerTo(ReplyPacket(s, m, code), m)
      BY <3>2, ReplyToClient
    <3>4. SameTables(s, SendReply(s, m, ReplyPacket(s, m, code)), m)
      BY <3>2, <3>3, SendReplyEffect
    <3> QED BY <3>1, <3>4 DEF Piggyback
  <2>2. TablesOK(t)
    BY <2>1 DEF SameTables, TablesOK, AnswerTo
  <2> QED BY <2>1, <2>2 DEF t, SameTables
<1>5. CASE ClaimedBy(s1, t, m, answer)
  <2>1. CASE SameTables(s1, t, m)
    <3>1. TablesOK(t)
      BY <1>1, <2>1 DEF SameTables, TablesOK, AnswerTo
    <3> QED BY <1>1, <2>1, <3>1 DEF t, s1, SameTables
  <2>2. ASSUME NEW h \in Vacant(s1.deferred),
               SameTables([s1 EXCEPT !.deferred[h] = DeferredEntry(m)], t, m)
        PROVE  /\ TablesOK(t) /\ t.tx = s.tx
               /\ t.observers = s1.observers /\ h \in Vacant(s.deferred)
               /\ t.deferred = [s.deferred EXCEPT ![h] = DeferredEntry(m)]
               /\ \A p \in t.out : p \in s.out \/ AnswerTo(p, m)
    <3> DEFINE new == [s1.deferred EXCEPT ![h] = DeferredEntry(m)]
    <3>1. /\ Object(t) /\ t.nextMid \in Mids /\ t.deferred = new
          /\ t.observers = s1.observers /\ t.tx = s1.tx
          /\ t.notified = s1.notified
      BY <1>2, <2>2 DEF SameTables, Object
    <3>2. DeferredEntry(m) \in DeferredResponse
      BY DEF FromClient, DeferredEntry, DeferredResponse
    <3>3. new \in DeferredTable
      BY <1>1, <3>2 DEF TablesOK, DeferredTable
    <3> HIDE DEF new
    <3>4. \A p \in t.out : p \in s1.out \/ AnswerTo(p, m)
      BY <1>1, <1>2, <2>2 DEF SameTables, TablesOK, Object
    <3>5. TablesOK(t)
      BY <1>1, <3>1, <3>3, <3>4 DEF TablesOK, AnswerTo
    <3> QED BY <1>1, <3>1, <3>4, <3>5 DEF new
  <2> QED BY <1>5, <2>1, <2>2 DEF t, s1, ClaimedBy
<1> QED BY <1>2, <1>3, <1>4, <1>5, OnBlock1Effect, RunHandlerEffect

-----------------------------------------------------------------------------
(* What is tracked has no block: it fits in one message. *)
LEMMA TrackedToClient == \A p \in TrackedPacket : ToClient(p)
<1> SUFFICES ASSUME NEW p \in TrackedPacket PROVE ToClient(p)
  OBVIOUS
<1>1. /\ DOMAIN p = PacketFields
      /\ p.dst \in Peers /\ p.mid \in Mids /\ p.obs = "none" /\ p.code = "Content"
      /\ p.token \in Tokens /\ p.about \in Nat
  BY DEF TrackedPacket, PacketFields
<1> QED BY <1>1 DEF ToClient, HasOption, ResponseCodes, PacketFields

Resends(p, s) == \E k \in TxSlots : s.tx[k] # Free /\ p = s.tx[k].packet

(* txPool_.tick(): transactions are resent or end, and observers may go.   *)
LEMMA TickEffect ==
    ASSUME NEW s, TablesOK(s), NEW due \in SUBSET InFlight(s.tx)
    PROVE  LET t == TickServer(s, due)
           IN  /\ TablesOK(t) /\ t.deferred = s.deferred
               /\ \A i \in ObserverSlots :
                     \/ t.observers[i] = s.observers[i]
                     \/ /\ t.observers[i] = Free
                        /\ \E k \in Expired(s.tx, due) :
                              i \in ObserversOf(s, s.tx[k].remote, s.tx[k].token)
               /\ \A k \in TxSlots :
                     /\ t.tx[k] # Free => /\ s.tx[k] # Free
                                          /\ t.tx[k].remote = s.tx[k].remote
                                          /\ t.tx[k].token = s.tx[k].token
                                          /\ t.tx[k].kind = s.tx[k].kind
                                          /\ t.tx[k].packet = s.tx[k].packet
                     /\ k \in Expired(s.tx, due) => t.tx[k] = Free
               /\ \A p \in t.out : p \in s.out \/ Resends(p, s)
<1> DEFINE gone == UNION {ObserversOf(s, s.tx[i].remote, s.tx[i].token) :
                             i \in Expired(s.tx, due)}
           obs  == [i \in ObserverSlots |-> IF i \in gone THEN Free ELSE s.observers[i]]
           pool == TickTx(s.tx, due)
           sent == s.out \cup {s.tx[i].packet : i \in Resent(s.tx, due)}
<1>1. TickServer(s, due) = [s EXCEPT !.tx = pool, !.observers = obs, !.out = sent]
  BY DEF TickServer
<1>2. obs \in ObserverTable /\ Unique(obs)
  BY FreeObservers DEF TablesOK
<1>3. pool \in ServerPool
  <2> SUFFICES ASSUME NEW i \in TxSlots PROVE pool[i] \in ServerTransaction \cup {Free}
    BY DEF ServerPool, TickTx
  <2>1. s.tx[i] \in ServerTransaction \cup {Free}
    BY DEF TablesOK, ServerPool
  <2>2. CASE i \in Resent(s.tx, due)
    <3>1. s.tx[i] # Free /\ s.tx[i].retries < MaxRetransmit
      BY <2>2 DEF Resent, InFlight
    <3>2. s.tx[i].retries + 1 \in 0 .. MaxRetransmit
      BY <2>1, <3>1, PoolAssumption DEF ServerTransaction
    <3>3. RetryCounted(s.tx[i]) \in ServerTransaction
      BY <2>1, <3>1, <3>2 DEF ServerTransaction, RetryCounted
    <3> QED BY <2>2, <3>3 DEF TickTx
  <2>3. CASE i \notin Resent(s.tx, due)
    BY <2>1, <2>3 DEF TickTx
  <2> QED BY <2>2, <2>3
<1> HIDE DEF obs, pool, sent
<1> DEFINE t == TickServer(s, due)
<1>4. t = [observers |-> obs, deferred |-> s.deferred, tx |-> pool,
           nextMid |-> s.nextMid, sessions |-> s.sessions, notified |-> s.notified,
           bodies |-> s.bodies, out |-> sent]
  BY <1>1 DEF TablesOK, Object
<1> HIDE DEF t
<1>5. \A p \in sent : ToClient(p)
  <2> SUFFICES ASSUME NEW i \in Resent(s.tx, due) PROVE ToClient(s.tx[i].packet)
    BY DEF sent, TablesOK
  <2>1. i \in TxSlots /\ s.tx[i] # Free
    BY DEF Resent, InFlight
  <2>2. s.tx[i] \in ServerTransaction
    BY <2>1 DEF TablesOK, ServerPool
  <2>3. s.tx[i].packet \in TrackedPacket
    BY <2>2 DEF ServerTransaction
  <2> QED BY <2>3, TrackedToClient
<1>6. TablesOK(t)
  BY <1>2, <1>3, <1>4, <1>5 DEF TablesOK, Object
<1>7. \A i \in ObserverSlots :
         \/ obs[i] = s.observers[i]
         \/ /\ obs[i] = Free
            /\ \E k \in Expired(s.tx, due) :
                  i \in ObserversOf(s, s.tx[k].remote, s.tx[k].token)
  BY DEF obs
<1>8. ASSUME NEW k \in TxSlots
      PROVE  /\ pool[k] # Free => /\ s.tx[k] # Free
                                  /\ pool[k].remote = s.tx[k].remote
                                  /\ pool[k].token = s.tx[k].token
                                  /\ pool[k].kind = s.tx[k].kind
                                  /\ pool[k].packet = s.tx[k].packet
             /\ k \in Expired(s.tx, due) => pool[k] = Free
  <2>1. s.tx[k] \in ServerTransaction \cup {Free}
    BY DEF TablesOK, ServerPool
  <2>2. CASE k \in Resent(s.tx, due)
    <3>1. s.tx[k] # Free /\ s.tx[k] \in ServerTransaction /\ s.tx[k].retries < MaxRetransmit
      BY <2>1, <2>2 DEF Resent, InFlight
    <3>2. k \notin Expired(s.tx, due)
      BY <3>1, PoolAssumption DEF Expired, ServerTransaction
    <3>3. pool[k] = RetryCounted(s.tx[k])
      BY <2>2, <3>2 DEF pool, TickTx
    <3> QED BY <3>1, <3>2, <3>3 DEF RetryCounted, ServerTransaction
  <2>3. CASE k \notin Resent(s.tx, due)
    BY <2>3 DEF pool, TickTx
  <2> QED BY <2>2, <2>3
<1>9. \A p \in sent : p \in s.out \/ Resends(p, s)
  BY DEF sent, Resends, Resent, InFlight
<1> QED BY <1>4, <1>6, <1>7, <1>8, <1>9 DEF t

(* One packet. *)
LEMMA PacketEffect ==
    ASSUME NEW s, TablesOK(s), NEW m, FromClient(m), NEW answer
    PROVE  LET t == OnServerPacket(s, m, answer)
           IN  /\ TablesOK(t)
               /\ \A k \in TxSlots : t.tx[k] \in {s.tx[k], Free}
               /\ \/ t.observers = s.observers
                  \/ m.type = "RST" /\ t.observers = OnServerReset(s, m).observers
                  \/ /\ m.type # "RST" /\ m.code \in MethodCodes
                     /\ t.observers = HandleObserve(s, m).observers
               /\ \/ t.deferred = s.deferred
                  \/ /\ m.code \in MethodCodes /\ answer = "defer"
                     /\ \E h \in Vacant(s.deferred) :
                          t.deferred = [s.deferred EXCEPT ![h] = DeferredEntry(m)]
               /\ \A p \in t.out : p \in s.out \/ (m.code \in MethodCodes /\ AnswerTo(p, m))
<1>1. CASE m.type = "RST"
  <2> DEFINE gone == {Min(Rejected(s, m))}
             new  == [i \in ObserverSlots |-> IF i \in gone THEN Free ELSE s.observers[i]]
  <2>1. CASE Rejected(s, m) = {}
    BY <1>1, <2>1 DEF OnServerPacket, OnServerReset
  <2>2. CASE Rejected(s, m) # {}
    <3>1. s.observers \in ObserverTable
      BY DEF TablesOK
    <3>2. [s.observers EXCEPT ![Min(Rejected(s, m))] = Free] = new
      BY <3>1 DEF ObserverTable
    <3>3. OnServerPacket(s, m, answer) = [s EXCEPT !.observers = new]
      BY <1>1, <2>2, <3>2 DEF OnServerPacket, OnServerReset, TablesOK, Object
    <3>4. new \in ObserverTable /\ Unique(new)
      BY FreeObservers DEF TablesOK
    <3> HIDE DEF new
    <3>5. TablesOK([s EXCEPT !.observers = new])
      BY <3>4 DEF TablesOK, Object
    <3>6. OnServerPacket(s, m, answer) = OnServerReset(s, m)
      BY <1>1 DEF OnServerPacket
    <3> QED BY <1>1, <3>3, <3>5, <3>6 DEF TablesOK, Object
  <2> QED BY <2>1, <2>2
<1>2. CASE m.type = "ACK"
  <2> DEFINE new == CompleteTx(s.tx, m.src, m.mid)
  <2>1. OnServerPacket(s, m, answer) = [s EXCEPT !.tx = new]
    BY <1>2 DEF OnServerPacket, TablesOK, Object
  <2>2. new \in ServerPool /\ \A k \in TxSlots : new[k] \in {s.tx[k], Free}
    <3> DEFINE Contents == ServerTransaction \cup {Free}
               matches  == SlotsByMid(s.tx, m.src, m.mid)
    <3>1. Free \in Contents /\ s.tx \in [TxSlots -> Contents]
      BY DEF TablesOK, ServerPool
    <3>2. matches \in SUBSET TxSlots
      BY DEF SlotsByMid, InFlight
    <3> HIDE DEF Contents, matches
    <3>3. /\ FreeFirst(s.tx, matches) \in [TxSlots -> Contents]
          /\ \A k \in TxSlots : \/ FreeFirst(s.tx, matches)[k] = s.tx[k]
                                \/ FreeFirst(s.tx, matches)[k] = Free
      BY <3>1, <3>2, FreeFirstEffect
    <3> QED BY <3>3 DEF CompleteTx, Contents, matches, ServerPool
  <2> HIDE DEF new
  <2>3. TablesOK([s EXCEPT !.tx = new])
    BY <2>2 DEF TablesOK, Object
  <2> QED BY <2>1, <2>2, <2>3 DEF TablesOK, Object
<1>3. CASE m.type \in {"CON", "NON"} /\ m.code \in MethodCodes
  <2>1. OnServerPacket(s, m, answer) = HandleRequest(s, m, answer)
    BY <1>3 DEF OnServerPacket
  <2> QED BY <1>3, <2>1, HandleRequestEffect
<1>4. CASE m.type \notin {"RST", "ACK"} /\ ~(m.type \in {"CON", "NON"} /\ m.code \in MethodCodes)
  BY <1>4 DEF OnServerPacket
<1> QED BY <1>1, <1>2, <1>3, <1>4

-----------------------------------------------------------------------------
(* The handles hs of the application and the table of deferred responses   *)
(* are one to one, and speak of the same requests.                         *)
Matching(table, hs) ==
    /\ table \in DeferredTable
    /\ hs \subseteq [slot : DeferSlots, about : Nat]
    /\ \A h \in hs : table[h.slot] # Free /\ table[h.slot].about = h.about
    /\ \A i \in Occupied(table) : \E h \in hs : h.slot = i

(* The inductive invariant of the server's actions. *)
ServerInv ==
    TablesOK(sv) /\ Matching(sv.deferred, held)

(* The packets sent in a step are handed to the network. *)
LEMMA OutEffect ==
    ASSUME NEW s, TablesOK(s)
    PROVE  LET t == [s EXCEPT !.out = {}]
           IN  TablesOK(t) /\ t.deferred = s.deferred
<1> DEFINE t == [s EXCEPT !.out = {}]
<1>1. /\ Object(t) /\ t.nextMid = s.nextMid /\ t.observers = s.observers
      /\ t.deferred = s.deferred /\ t.tx = s.tx /\ t.notified = s.notified
      /\ t.out = {}
  BY DEF TablesOK, Object
<1> HIDE DEF t
<1>2. TablesOK(t)
  BY <1>1 DEF TablesOK
<1> QED BY <1>1, <1>2 DEF t

(* What is in the network after a step was there before, or is sent.       *)
LEMMA NetEffect ==
    ASSUME NEW out, NEW m, Transmit(out) \/ Deliver(m, out)
    PROVE  \A p \in net' : p \in net \/ p \in out
BY DEF Transmit, Deliver, Carry

OnlyToClients == \A p \in net' : p \in net \/ ToClient(p)

(* poll() without a packet *)
LEMMA IdlePollPreserves ==
    ASSUME ServerInv, ServerIdlePoll
    PROVE  ServerInv' /\ OnlyToClients
<1>1. PICK due \in SUBSET InFlight(sv.tx) :
        /\ sv' = [TickServer(sv, due) EXCEPT !.out = {}]
        /\ Transmit(TickServer(sv, due).out)
  BY DEF ServerIdlePoll
<1>2. /\ TablesOK(TickServer(sv, due)) /\ TickServer(sv, due).deferred = sv.deferred
     
  BY TickEffect DEF ServerInv
<1>3. TablesOK(sv') /\ sv'.deferred = sv.deferred
  BY <1>1, <1>2, OutEffect
<1>4. OnlyToClients
  BY <1>1, <1>2, NetEffect DEF TablesOK, OnlyToClients
<1> QED BY <1>3, <1>4 DEF ServerInv, ServerIdlePoll

(* poll() with a packet: a handler that defers gets a handle for the slot  *)
(* it has claimed, and that was vacant.                                    *)
LEMMA ReceivePreserves ==
    ASSUME ServerInv, NEW m, FromClient(m), ServerReceive(m)
    PROVE  ServerInv' /\ OnlyToClients
<1>1. PICK due \in SUBSET InFlight(sv.tx), answer \in AnswersTo(m) :
        LET s1 == TickServer(sv, due)
            s2 == OnServerPacket(s1, m, answer)
        IN  /\ sv' = [s2 EXCEPT !.out = {}]
            /\ held' = held \cup {[slot |-> i, about |-> m.about] : i \in Claimed(s1, s2)}
            /\ Deliver(m, s2.out)
  BY DEF ServerReceive
<1> DEFINE s1 == TickServer(sv, due)
           s2 == OnServerPacket(s1, m, answer)
<1>2. TablesOK(s1) /\ s1.deferred = sv.deferred
  BY TickEffect DEF ServerInv
<1> HIDE DEF s1
<1>3. /\ TablesOK(s2)
      /\ \/ s2.deferred = sv.deferred
         \/ /\ m.code \in MethodCodes
            /\ \E h \in Vacant(sv.deferred) :
                 s2.deferred = [sv.deferred EXCEPT ![h] = DeferredEntry(m)]
  <2>1. /\ TablesOK(s2)
        /\ \/ s2.deferred = s1.deferred
           \/ /\ m.code \in MethodCodes
              /\ \E h \in Vacant(s1.deferred) :
                   s2.deferred = [s1.deferred EXCEPT ![h] = DeferredEntry(m)]
    BY <1>2, PacketEffect, SMTT(60)
  <2> QED BY <1>2, <2>1
<1>4. /\ sv' = [s2 EXCEPT !.out = {}]
      /\ held' = held \cup {[slot |-> i, about |-> m.about] : i \in Claimed(s1, s2)}
      /\ Deliver(m, s2.out)
  BY <1>1 DEF s1
<1> HIDE DEF s2
<1>5. TablesOK(sv') /\ sv'.deferred = s2.deferred
  BY <1>3, <1>4, OutEffect
<1>6. Matching(sv'.deferred, held')
  <2>1. Matching(sv.deferred, held) /\ DOMAIN sv.deferred = DeferSlots
    BY DEF ServerInv, Matching, DeferredTable
  <2>2. CASE s2.deferred = sv.deferred
    <3>1. Claimed(s1, s2) = {}
      BY <1>2, <2>2 DEF Claimed, Vacant
    <3>2. held' = held
      BY <1>4, <3>1
    <3> QED BY <1>5, <2>1, <2>2, <3>2
  <2>3. ASSUME NEW h \in Vacant(sv.deferred), m.code \in MethodCodes,
               s2.deferred = [sv.deferred EXCEPT ![h] = DeferredEntry(m)]
        PROVE  Matching(sv'.deferred, held')
    <3>1. DeferredEntry(m) \in DeferredResponse /\ DeferredEntry(m).about = m.about
      BY <2>3 DEF FromClient, DeferredEntry, DeferredResponse
    <3>2. DeferredEntry(m) # Free
      BY <3>1, FreeSlotAssumption
    <3>3. h \in DeferSlots /\ sv.deferred[h] = Free
      BY <2>1 DEF Vacant
    <3>4. Claimed(s1, s2) = {h}
      BY <1>2, <2>1, <2>3, <3>2, <3>3 DEF Claimed, Vacant
    <3>5. held' = held \cup {[slot |-> h, about |-> m.about]}
      BY <1>4, <3>4
    <3>6. m.about \in Nat
      BY <2>3 DEF FromClient
    <3>7. s2.deferred \in DeferredTable
      BY <1>3 DEF TablesOK
    <3>8. \A g \in held : g.slot # h
      BY <2>1, <3>3 DEF Matching
    <3>9. \A i \in DeferSlots :
             s2.deferred[i] = IF i = h THEN DeferredEntry(m) ELSE sv.deferred[i]
      BY <2>1, <2>3
    <3>10. held' \subseteq [slot : DeferSlots, about : Nat]
      BY <2>1, <3>3, <3>5, <3>6 DEF Matching
    <3>11. \A g \in held' : s2.deferred[g.slot] # Free /\ s2.deferred[g.slot].about = g.about
      BY <2>1, <3>1, <3>2, <3>3, <3>5, <3>8, <3>9 DEF Matching
    <3>12. \A i \in Occupied(s2.deferred) : \E g \in held' : g.slot = i
      <4> SUFFICES ASSUME NEW i \in Occupied(s2.deferred) PROVE \E g \in held' : g.slot = i
        OBVIOUS
      <4>1. i = h \/ i \in Occupied(sv.deferred)
        BY <2>1, <2>3, <3>9 DEF Occupied
      <4>2. CASE i = h
        <5> DEFINE g == [slot |-> h, about |-> m.about]
        <5>1. g \in held' /\ g.slot = i
          BY <3>5, <4>2
        <5> QED BY <5>1
      <4>3. CASE i \in Occupied(sv.deferred)
        BY <2>1, <3>5, <4>3 DEF Matching
      <4> QED BY <4>1, <4>2, <4>3
    <3> QED BY <1>5, <3>7, <3>10, <3>11, <3>12 DEF Matching
  <2> QED BY <1>3, <2>2, <2>3
<1>7. OnlyToClients
  BY <1>3, <1>4, NetEffect DEF TablesOK, OnlyToClients
<1> QED BY <1>5, <1>6, <1>7 DEF ServerInv

(* Slots are finitely many: a rank is a number. *)
LEMMA RankIsNat ==
    ASSUME NEW table, DOMAIN table = ObserverSlots, NEW S \in SUBSET Occupied(table), NEW x
    PROVE  Cardinality(S) \in Nat /\ Rank(x, S) \in Nat
<1>1. IsFiniteSet(ObserverSlots)
  BY ServerAssumption, FS_Interval DEF ObserverSlots
<1>2. \A T \in SUBSET S : IsFiniteSet(T)
  BY <1>1, FS_Subset DEF Occupied
<1>3. {y \in S : y < x} \in SUBSET S
  OBVIOUS
<1> QED BY <1>2, <1>3, FS_CardinalityType DEF Rank

Notifies(p, s) ==
    \E i \in ObserverSlots : /\ s.observers[i] # Free
                            /\ p.token = s.observers[i].token /\ p.about = s.observers[i].about

(* notify(): every observer keeps its slot, remote and token. *)
LEMMA NotifyEffect ==
    ASSUME NEW s, TablesOK(s), NEW res \in Observable, NEW con \in BOOLEAN,
           s.notified < MaxNotify
    PROVE  LET t == NotifyAll(s, res, con)
           IN  /\ TablesOK(t) /\ t.deferred = s.deferred
               /\ \A i \in ObserverSlots :
                     /\ t.observers[i] = Free <=> s.observers[i] = Free
                     /\ t.observers[i] # Free => SameSubscription(t.observers[i], s.observers[i])
               /\ \A k \in TxSlots :
                     \/ t.tx[k] = s.tx[k]
                     \/ t.tx[k].kind = "notify" /\ Notifies(t.tx[k].packet, s)
               /\ \A p \in t.out : p \in s.out \/ Notifies(p, s)
<1> DEFINE targets == Watchers(s, res)
           free    == FreeSlots(s.tx)
           pkt(i)  == Notification(s, i, con)
           forSlot(k) == {i \in targets : con /\ k \in free /\ Rank(i, targets) = Rank(k, free)}
           obs  == [i \in ObserverSlots |->
                      IF i \in targets THEN [s.observers[i] EXCEPT !.lastMid = pkt(i).mid]
                      ELSE s.observers[i]]
           pool == [k \in TxSlots |->
                      IF forSlot(k) = {} THEN s.tx[k]
                      ELSE TrackPacket(pkt(CHOOSE i \in forSlot(k) : TRUE), "notify")]
           next == (s.nextMid + Cardinality(targets)) % MidMod
           t    == NotifyAll(s, res, con)
<1>1. t = [s EXCEPT !.nextMid = next, !.observers = obs, !.tx = pool,
                    !.notified = @ + 1, !.out = @ \cup {pkt(i) : i \in targets}]
  BY DEF NotifyAll
<1>2. /\ s.observers \in ObserverTable /\ DOMAIN s.observers = ObserverSlots
      /\ targets \subseteq Occupied(s.observers) /\ targets \subseteq ObserverSlots
      /\ s.nextMid \in Nat
  BY NetAssumption DEF TablesOK, ObserverTable, Watchers, Occupied, Mids
<1>3. Cardinality(targets) \in Nat /\ \A i : Rank(i, targets) \in Nat
  BY <1>2, RankIsNat
<1>4. next \in Mids
  BY <1>2, <1>3, MidsClosed
<1>5. ASSUME NEW i \in targets
      PROVE  /\ s.observers[i] \in ObserverEntry /\ s.observers[i].res = res
             /\ pkt(i).mid \in Mids
             /\ con => pkt(i) \in TrackedPacket
             /\ ToClient(pkt(i)) /\ Notifies(pkt(i), s)
  <2>1. s.observers[i] \in ObserverEntry /\ s.observers[i].res = res
    BY <1>2 DEF ObserverTable, Watchers, Occupied
  <2>2. s.nextMid + Rank(i, targets) \in Nat
    BY <1>2, <1>3
  <2>3. (s.nextMid + Rank(i, targets)) % MidMod \in Mids
    BY <2>2, MidsClosed
  <2>4. pkt(i).mid = (s.nextMid + Rank(i, targets)) % MidMod
    BY <2>1 DEF Notification
  <2>5. /\ DOMAIN pkt(i) = PacketFields
        /\ pkt(i).dst \in Peers /\ pkt(i).obs = "none" /\ pkt(i).code = "Content"
        /\ pkt(i).token \in Tokens /\ pkt(i).about \in Nat
    BY <2>1 DEF Notification, ObserverEntry, PacketFields
  <2>6. con => pkt(i) \in TrackedPacket
    BY <2>1, <2>3, <2>4 DEF Notification, TrackedPacket, ObserverEntry, Mids
  <2> HIDE DEF pkt
  <2>7. ToClient(pkt(i))
    BY <2>3, <2>4, <2>5 DEF ToClient, HasOption, ResponseCodes, PacketFields
  <2>8. Notifies(pkt(i), s)
    <3>1. i \in ObserverSlots /\ s.observers[i] # Free
      BY <1>2 DEF Occupied
    <3>2. pkt(i).token = s.observers[i].token /\ pkt(i).about = s.observers[i].about
      BY DEF pkt, Notification
    <3> QED BY <3>1, <3>2 DEF Notifies
  <2> QED BY <2>1, <2>3, <2>4, <2>6, <2>7, <2>8
<1>6. /\ obs \in ObserverTable /\ Unique(obs)
      /\ \A i \in ObserverSlots :
            /\ obs[i] = Free <=> s.observers[i] = Free
            /\ obs[i] # Free => SameSubscription(obs[i], s.observers[i])
  <2>1. ASSUME NEW i \in ObserverSlots
        PROVE  /\ obs[i] \in ObserverEntry \cup {Free}
               /\ obs[i] = Free <=> s.observers[i] = Free
               /\ obs[i] # Free => /\ i \in Occupied(s.observers)
                                  /\ SameSubscription(obs[i], s.observers[i])
    <3>1. CASE i \in targets
      <4>1. /\ obs[i] = [s.observers[i] EXCEPT !.lastMid = pkt(i).mid]
            /\ s.observers[i] \in ObserverEntry /\ pkt(i).mid \in Mids
        BY <1>5, <3>1
      <4> HIDE DEF targets, pkt, obs
      <4>2. obs[i] \in ObserverEntry
        BY <4>1 DEF ObserverEntry, Mids
      <4>3. obs[i] # Free /\ s.observers[i] # Free
        BY <4>1, <4>2, FreeSlotAssumption
      <4> QED BY <1>2, <4>1, <4>2, <4>3 DEF ObserverEntry, Occupied, SameSubscription
    <3>2. CASE i \notin targets
      <4>1. obs[i] = s.observers[i]
        BY <3>2
      <4> HIDE DEF obs
      <4> QED BY <1>2, <4>1 DEF ObserverTable, Occupied, SameSubscription
    <3> QED BY <3>1, <3>2
  <2>2. DOMAIN obs = ObserverSlots /\ obs = [i \in ObserverSlots |-> obs[i]]
    OBVIOUS
  <2> HIDE DEF obs
  <2>3. obs \in ObserverTable
    BY <2>1, <2>2 DEF ObserverTable
  <2>4. Unique(s.observers)
    BY DEF TablesOK
  <2> QED BY <2>1, <2>2, <2>3, <2>4 DEF Unique, Occupied, SameSubscription
<1>7. /\ pool \in ServerPool
      /\ \A k \in TxSlots : \/ pool[k] = s.tx[k]
                            \/ pool[k].kind = "notify" /\ Notifies(pool[k].packet, s)
  <2> SUFFICES ASSUME NEW k \in TxSlots
               PROVE  \/ pool[k] = s.tx[k] /\ s.tx[k] \in ServerTransaction \cup {Free}
                      \/ /\ pool[k] \in ServerTransaction /\ pool[k].kind = "notify"
                         /\ Notifies(pool[k].packet, s)
    BY DEF ServerPool
  <2>1. CASE forSlot(k) = {}
    BY <2>1 DEF TablesOK, ServerPool
  <2>2. CASE forSlot(k) # {}
    <3> DEFINE i == CHOOSE i \in forSlot(k) : TRUE
    <3>1. i \in forSlot(k)
      BY <2>2
    <3>2. i \in targets /\ con
      BY <3>1
    <3>3. pool[k] = TrackPacket(pkt(i), "notify")
      BY <2>2
    <3> HIDE DEF i
    <3>4. pkt(i) \in TrackedPacket /\ Notifies(pkt(i), s)
      BY <1>5, <3>2
    <3> HIDE DEF pool, pkt, forSlot, targets
    <3> QED BY <3>3, <3>4, PoolAssumption DEF TrackPacket, TrackedPacket, ServerTransaction
  <2> QED BY <2>1, <2>2
<1>8. s.notified + 1 \in 0 .. MaxNotify
  BY ServerAssumption DEF TablesOK
<1> DEFINE sent == s.out \cup {pkt(i) : i \in targets}
<1>9. /\ \A p \in sent : ToClient(p)
      /\ \A p \in sent : p \in s.out \/ Notifies(p, s)
  BY <1>5 DEF TablesOK
<1> HIDE DEF obs, pool, next, targets, free, pkt, forSlot
<1>10. t = [observers |-> obs, deferred |-> s.deferred, tx |-> pool,
             nextMid |-> next, sessions |-> s.sessions, notified |-> s.notified + 1,
            bodies |-> s.bodies, out |-> sent]
  BY <1>1 DEF TablesOK, Object
<1> HIDE DEF t, sent
<1>11. TablesOK(t)
  BY <1>4, <1>6, <1>7, <1>8, <1>9, <1>10 DEF TablesOK, Object
<1> QED BY <1>6, <1>7, <1>9, <1>10, <1>11 DEF t

LEMMA NotifyPreserves ==
    ASSUME ServerInv, Notify
    PROVE  ServerInv' /\ OnlyToClients
<1>1. PICK res \in Observable, con \in BOOLEAN :
        /\ sv' = [NotifyAll(sv, res, con) EXCEPT !.out = {}]
        /\ Transmit(NotifyAll(sv, res, con).out)
  BY DEF Notify
<1> DEFINE s == NotifyAll(sv, res, con)
<1>2. TablesOK(s) /\ s.deferred = sv.deferred
  BY NotifyEffect DEF ServerInv, Notify
<1>3. sv' = [s EXCEPT !.out = {}] /\ Transmit(s.out)
  BY <1>1
<1> HIDE DEF s
<1>4. TablesOK(sv') /\ sv'.deferred = sv.deferred
  BY <1>2, <1>3, OutEffect
<1>5. OnlyToClients
  BY <1>2, <1>3, NetEffect DEF TablesOK, OnlyToClients
<1> QED BY <1>4, <1>5 DEF ServerInv, Notify

(* respond(): the handle's own slot is freed, which no other handle has.   *)
LEMMA RespondPreserves ==
    ASSUME ServerInv, NEW handle \in held, Respond(handle)
    PROVE  ServerInv' /\ OnlyToClients /\ TablesOK(RespondTo(sv, handle))
<1> DEFINE h    == handle.slot
           d    == sv.deferred[h]
           pkt  == SeparateResponse(sv, h)
           next == (sv.nextMid + 1) % MidMod
           pool == IF d.con THEN StartTx(sv.tx, TrackPacket(pkt, "separate")) ELSE sv.tx
           dfr  == [sv.deferred EXCEPT ![h] = Free]
           s    == RespondTo(sv, handle)
<1>1. /\ TablesOK(sv) /\ Matching(sv.deferred, held)
      /\ DOMAIN sv.deferred = DeferSlots
  BY DEF ServerInv, Matching, DeferredTable
<1>2. /\ handle \in [slot : DeferSlots, about : Nat]
      /\ h \in DeferSlots /\ d # Free /\ d.about = handle.about
  BY <1>1 DEF Matching
<1>3. d \in DeferredResponse
  BY <1>1, <1>2 DEF Matching, DeferredTable
<1>4. sv.nextMid \in Nat /\ sv.nextMid \in Mids
  BY <1>1, NetAssumption DEF TablesOK, Mids
<1>5. next \in Mids
  BY <1>4, MidsClosed
<1>6. pool \in ServerPool
  <2>1. CASE d.con
    <3> DEFINE tx == TrackPacket(pkt, "separate")
    <3>1. pkt \in TrackedPacket
      BY <1>3, <1>4, <2>1 DEF SeparateResponse, TrackedPacket, DeferredResponse, Mids
    <3>2. tx \in ServerTransaction
      BY <3>1, PoolAssumption DEF TrackPacket, TrackedPacket, ServerTransaction
    <3> DEFINE Contents == ServerTransaction \cup {Free}
    <3>3. tx \in Contents /\ Free \in Contents /\ sv.tx \in [TxSlots -> Contents]
      BY <1>1, <3>2 DEF TablesOK, ServerPool
    <3> HIDE DEF tx, Contents
    <3>4. StartTx(sv.tx, tx) \in [TxSlots -> Contents]
      BY <3>3, StartTxEffect
    <3> QED BY <2>1, <3>4 DEF tx, Contents, ServerPool
  <2>2. CASE ~d.con
    BY <1>1, <2>2 DEF TablesOK
  <2> QED BY <2>1, <2>2
<1>7. dfr \in DeferredTable
  BY <1>1 DEF TablesOK, DeferredTable
<1>8. s = [observers |-> sv.observers, deferred |-> dfr, tx |-> pool,
           nextMid |-> next, sessions |-> sv.sessions, notified |-> sv.notified,
           bodies |-> sv.bodies, out |-> sv.out \cup {pkt}]
  <2>1. d # Free
    BY <1>2
  <2> HIDE DEF pkt
  <2> QED BY <1>1, <2>1 DEF RespondTo, Send, NextMid, TablesOK, Object, pkt
<1>9. sv' = [s EXCEPT !.out = {}] /\ held' = held \ {handle} /\ Transmit(s.out)
  BY DEF Respond
<1> HIDE DEF s, pool, next
<1>10. ToClient(pkt)
  <2>1. /\ DOMAIN pkt = PacketFields
        /\ pkt.dst \in Peers /\ pkt.mid \in Mids /\ pkt.obs = "none" /\ pkt.code = "Content"
        /\ pkt.token \in Tokens /\ pkt.about \in Nat
    BY <1>3, <1>4 DEF SeparateResponse, DeferredResponse, PacketFields
  <2> HIDE DEF pkt
  <2> QED BY <2>1 DEF ToClient, HasOption, ResponseCodes, PacketFields
<1>11. TablesOK(s)
  <2> HIDE DEF pkt, dfr
  <2> QED BY <1>1, <1>5, <1>6, <1>7, <1>8, <1>10 DEF TablesOK, Object
<1>12. TablesOK(sv') /\ sv'.deferred = dfr
  BY <1>1, <1>2, <1>8, <1>9, <1>11, OutEffect
<1>13. \A g \in held' : g.slot # h
  <2> SUFFICES ASSUME NEW g \in held', g.slot = h PROVE FALSE
    OBVIOUS
  <2>1. g \in [slot : DeferSlots, about : Nat] /\ g.about = d.about
    BY <1>1, <1>9 DEF Matching
  <2>2. g = handle
    BY <1>2, <2>1
  <2> QED BY <1>9, <2>2
<1>14. Matching(dfr, held')
  BY <1>1, <1>7, <1>9, <1>13 DEF Matching, Occupied
<1>15. OnlyToClients
  BY <1>9, <1>11, NetEffect DEF TablesOK, OnlyToClients
<1> QED BY <1>11, <1>12, <1>14, <1>15 DEF ServerInv, s

(* Every step of the server preserves its invariant, as long as what       *)
(* reaches it comes from its clients.                                      *)
LEMMA ServerStep ==
    ASSUME ServerInv, \A m \in net : m.dst = ServerEp => FromClient(m), ServerNext
    PROVE  ServerInv' /\ OnlyToClients
<1>1. ASSUME NEW m \in net, ServerReceive(m) PROVE FromClient(m)
  BY <1>1 DEF ServerReceive
<1> QED
  BY <1>1, IdlePollPreserves, ReceivePreserves, NotifyPreserves, RespondPreserves
     DEF ServerNext

-----------------------------------------------------------------------------
(* Where observers come from. *)
(* What a request does to one slot of the observers. *)
LEMMA ObserveSlot ==
    ASSUME NEW s, TablesOK(s), NEW m, FromClient(m), m.code \in MethodCodes,
           NEW i \in ObserverSlots
    PROVE  LET o == HandleObserve(s, m).observers[i]
           IN  \/ o = s.observers[i]
               \/ o \in ObserverEntry /\ AskedForBy(o, m)
               \/ /\ m.obs \notin {"none", "register"}
                  /\ o = Free /\ i \in ObserversOf(s, m.src, m.token)
<1>1. /\ s.observers \in ObserverTable /\ Object(s)
      /\ \A j \in ObserverSlots : s.observers[j] \in ObserverEntry \cup {Free}
  BY DEF TablesOK, ObserverTable
<1>2. CASE m.path \notin Observable \/ m.code # "Get" \/ m.obs = "none"
  BY <1>2 DEF HandleObserve
<1>3. CASE m.path \in Observable /\ m.code = "Get" /\ m.obs = "register"
  <2> DEFINE same == ObserversOf(s, m.src, m.token)
             slot == IF same # {} THEN same ELSE Vacant(s.observers)
             new  == [res |-> m.path, remote |-> m.src, token |-> m.token,
                      lastMid |-> m.mid, about |-> m.about]
  <2>1. HandleObserve(s, m) = RegisterObserver(s, m)
    BY <1>3 DEF HandleObserve
  <2>2. new \in ObserverEntry /\ AskedForBy(new, m)
    BY <1>3 DEF FromClient, ObserverEntry, Mids, AskedForBy
  <2>3. RegisterObserver(s, m) \in {s, [s EXCEPT !.observers[Min(slot)] = new]}
    BY DEF RegisterObserver
  <2> HIDE DEF slot, new
  <2>4. HandleObserve(s, m).observers[i] \in {s.observers[i], new}
    BY <1>1, <2>1, <2>3 DEF ObserverTable, Object
  <2> QED BY <1>3, <2>2, <2>4
<1>4. CASE m.path \in Observable /\ m.code = "Get" /\ m.obs \notin {"none", "register"}
  BY <1>1, <1>4 DEF HandleObserve, RemoveObserver, Object
<1> QED BY <1>2, <1>3, <1>4

(* What a Reset does to it. *)
LEMMA ResetSlot ==
    ASSUME NEW s, TablesOK(s), NEW m, NEW i \in ObserverSlots
    PROVE  LET o == OnServerReset(s, m).observers[i]
           IN  \/ o = s.observers[i]
               \/ o = Free /\ i \in Rejected(s, m)
<1>1. s.observers \in ObserverTable /\ Object(s) /\ DOMAIN s.observers = ObserverSlots
  BY DEF TablesOK, ObserverTable
<1>2. CASE Rejected(s, m) = {}
  BY <1>2 DEF OnServerReset
<1>3. CASE Rejected(s, m) # {}
  <2>1. Min(Rejected(s, m)) \in Rejected(s, m)
    BY <1>1, <1>3, VacantSlot, TablesNumbered DEF Rejected
  <2> QED BY <1>1, <1>3, <2>1 DEF OnServerReset, ObserverTable, Object
<1> QED BY <1>2, <1>3

(* Every observer was there before the step, or a request it received has  *)
(* registered it.                                                          *)
ObserversExplained ==
    \A i \in ObserverSlots : sv'.observers[i] # Free =>
       \/ sv.observers[i] # Free /\ SameSubscription(sv'.observers[i], sv.observers[i])
       \/ \E m \in net : AskedForBy(sv'.observers[i], m)

LEMMA OutKeepsObservers ==
    ASSUME NEW s, TablesOK(s)
    PROVE  [s EXCEPT !.out = {}].observers = s.observers
BY DEF TablesOK, Object

LEMMA ReceiveExplained ==
    ASSUME ServerInv, NEW m \in net, FromClient(m), ServerReceive(m)
    PROVE  ObserversExplained
<1>1. PICK due \in SUBSET InFlight(sv.tx), answer \in AnswersTo(m) :
         sv' = [OnServerPacket(TickServer(sv, due), m, answer) EXCEPT !.out = {}]
  BY DEF ServerReceive
<1> DEFINE s1 == TickServer(sv, due)
           s2 == OnServerPacket(s1, m, answer)
<1>2. TablesOK(s1) /\ \A i \in ObserverSlots : s1.observers[i] \in {sv.observers[i], Free}
  BY TickEffect DEF ServerInv
<1> HIDE DEF s1
<1>3. /\ TablesOK(s2)
      /\ \/ s2.observers = s1.observers
         \/ m.type = "RST" /\ s2.observers = OnServerReset(s1, m).observers
         \/ m.code \in MethodCodes /\ s2.observers = HandleObserve(s1, m).observers
  BY <1>2, PacketEffect
<1>4. sv' = [s2 EXCEPT !.out = {}]
  BY <1>1 DEF s1
<1> HIDE DEF s2
<1>5. sv'.observers = s2.observers
  BY <1>3, <1>4, OutKeepsObservers
<1>6. ASSUME NEW i \in ObserverSlots
      PROVE  s2.observers[i] \in {s1.observers[i], Free} \/ AskedForBy(s2.observers[i], m)
  BY <1>2, <1>3, ObserveSlot, ResetSlot
<1> QED BY <1>2, <1>5, <1>6 DEF ObserversExplained, SameSubscription

LEMMA ServerExplained ==
    ASSUME ServerInv, \A m \in net : m.dst = ServerEp => FromClient(m), ServerNext
    PROVE  ObserversExplained
<1>1. CASE ServerIdlePoll
  <2>1. PICK due \in SUBSET InFlight(sv.tx) : sv' = [TickServer(sv, due) EXCEPT !.out = {}]
    BY <1>1 DEF ServerIdlePoll
  <2> DEFINE s == TickServer(sv, due)
  <2>2. TablesOK(s) /\ \A i \in ObserverSlots : s.observers[i] \in {sv.observers[i], Free}
    BY TickEffect DEF ServerInv
  <2> HIDE DEF s
  <2>3. sv'.observers = s.observers
    BY <2>1, <2>2, OutKeepsObservers DEF s
  <2> QED BY <2>2, <2>3 DEF ObserversExplained, SameSubscription
<1>2. CASE \E m \in net : ServerReceive(m)
  BY <1>2, ReceiveExplained DEF ServerReceive
<1>3. CASE Notify
  <2>1. PICK res \in Observable, con \in BOOLEAN : sv' = [NotifyAll(sv, res, con) EXCEPT !.out = {}]
    BY <1>3 DEF Notify
  <2> DEFINE s == NotifyAll(sv, res, con)
  <2>2. /\ TablesOK(s)
        /\ \A i \in ObserverSlots :
              /\ s.observers[i] = Free <=> sv.observers[i] = Free
              /\ s.observers[i] # Free => SameSubscription(s.observers[i], sv.observers[i])
    BY <1>3, NotifyEffect DEF ServerInv, Notify
  <2> HIDE DEF s
  <2>3. sv'.observers = s.observers
    BY <2>1, <2>2, OutKeepsObservers DEF s
  <2> QED BY <2>2, <2>3 DEF ObserversExplained
<1>4. CASE \E handle \in held : Respond(handle)
  <2>1. PICK handle \in held : Respond(handle)
    BY <1>4
  <2>2. sv'.observers = sv.observers
    BY <2>1 DEF ServerInv, TablesOK, Respond, RespondTo, Send, NextMid, Object
  <2> QED BY <2>2 DEF ObserversExplained, SameSubscription
<1> QED BY <1>1, <1>2, <1>3, <1>4 DEF ServerNext

-----------------------------------------------------------------------------
LEMMA ServerInitially ==
    ASSUME ServerInit
    PROVE  ServerInv
<1>1. sv = ServerInitState /\ held = {}
  BY DEF ServerInit
<1>2. 1 % MidMod \in Mids
  BY MidsClosed
<1>3. /\ Object(sv) /\ sv.nextMid \in Mids /\ sv.out = {} /\ sv.notified = 0
      /\ sv.observers = [i \in ObserverSlots |-> Free]
      /\ sv.deferred = [i \in DeferSlots |-> Free]
      /\ sv.tx = [i \in TxSlots |-> Free]
  BY <1>1, <1>2 DEF ServerInitState, Object, EmptyPool
<1>4. TablesOK(sv)
  BY <1>3, ServerAssumption DEF TablesOK, ObserverTable, DeferredTable, ServerPool,
     Unique, Occupied
<1>5. Matching(sv.deferred, held)
  BY <1>1, <1>3 DEF Matching, DeferredTable, Occupied
<1> QED BY <1>3, <1>4, <1>5 DEF ServerInv

(* The invariants that follow from it. *)
LEMMA ServerInvImplies ==
    ServerInv => ServerTypeOK /\ UniqueObservers /\ HandlesMatchSlots
BY DEF ServerInv, TablesOK, Matching, Mids, ObserverTable, DeferredTable, ServerPool,
   Unique, ServerTypeOK, UniqueObservers, HandlesMatchSlots

-----------------------------------------------------------------------------
(* Whom the server answers.  own says which call a token was sent for: the *)
(* server keeps and sends no token under another call's number.            *)
Belongs(x, own) == <<x.token, x.about>> \in own

Traced(s, own) ==
    /\ \A i \in ObserverSlots : s.observers[i] # Free => Belongs(s.observers[i], own)
    /\ \A i \in DeferSlots : s.deferred[i] # Free => Belongs(s.deferred[i], own)
    /\ \A k \in TxSlots : s.tx[k] # Free => Belongs(s.tx[k].packet, own)
    /\ \A p \in s.out : p.code \in ResponseCodes => Belongs(p, own)

(* A request names the call of its token. *)
AskedOf(m, own) == FromClient(m) /\ (m.code \in MethodCodes => Belongs(m, own))

LEMMA TickTraced ==
    ASSUME NEW s, TablesOK(s), NEW due \in SUBSET InFlight(s.tx), NEW own, Traced(s, own)
    PROVE  Traced(TickServer(s, due), own)
<1> DEFINE t == TickServer(s, due)
<1>1. /\ t.deferred = s.deferred
      /\ \A i \in ObserverSlots : t.observers[i] \in {s.observers[i], Free}
      /\ \A k \in TxSlots : t.tx[k] # Free => s.tx[k] # Free /\ t.tx[k].packet = s.tx[k].packet
      /\ \A p \in t.out : p \in s.out \/ Resends(p, s)
  BY TickEffect
<1> HIDE DEF t
<1> QED BY <1>1 DEF Traced, Resends, t

LEMMA PacketTraced ==
    ASSUME NEW s, TablesOK(s), NEW m, NEW own, AskedOf(m, own), NEW answer, Traced(s, own)
    PROVE  Traced(OnServerPacket(s, m, answer), own)
<1> DEFINE t == OnServerPacket(s, m, answer)
<1>0. FromClient(m)
  BY DEF AskedOf
<1>1. /\ \A k \in TxSlots : t.tx[k] \in {s.tx[k], Free}
      /\ \/ t.observers = s.observers
         \/ m.type = "RST" /\ t.observers = OnServerReset(s, m).observers
         \/ m.code \in MethodCodes /\ t.observers = HandleObserve(s, m).observers
      /\ \/ t.deferred = s.deferred
         \/ /\ m.code \in MethodCodes
            /\ \E h \in Vacant(s.deferred) :
                 t.deferred = [s.deferred EXCEPT ![h] = DeferredEntry(m)]
      /\ \A p \in t.out : p \in s.out \/ (m.code \in MethodCodes /\ AnswerTo(p, m))
  BY <1>0, PacketEffect, SMTT(60)
<1> HIDE DEF t
<1>2. ASSUME NEW i \in ObserverSlots, t.observers[i] # Free
      PROVE  Belongs(t.observers[i], own)
  <2>1. t.observers[i] = s.observers[i] \/ (m.code \in MethodCodes /\ AskedForBy(t.observers[i], m))
    BY <1>0, <1>1, <1>2, ObserveSlot, ResetSlot
  <2> QED BY <1>2, <2>1 DEF Traced, AskedForBy, AskedOf, Belongs
<1>3. ASSUME NEW i \in DeferSlots, t.deferred[i] # Free
      PROVE  Belongs(t.deferred[i], own)
  <2>1. DOMAIN s.deferred = DeferSlots
    BY DEF TablesOK, DeferredTable
  <2>2. DeferredEntry(m).token = m.token /\ DeferredEntry(m).about = m.about
    BY DEF DeferredEntry
  <2>3. t.deferred[i] = s.deferred[i] \/ (m.code \in MethodCodes /\ t.deferred[i] = DeferredEntry(m))
    BY <1>1, <2>1
  <2> QED BY <1>3, <2>2, <2>3 DEF Traced, AskedOf, Belongs
<1>4. \A k \in TxSlots : t.tx[k] # Free => Belongs(t.tx[k].packet, own)
  BY <1>1 DEF Traced
<1>5. \A p \in t.out : p.code \in ResponseCodes => Belongs(p, own)
  BY <1>1 DEF Traced, AnswerTo, AskedOf, Belongs
<1> QED BY <1>2, <1>3, <1>4, <1>5 DEF Traced, t

LEMMA NotifyTraced ==
    ASSUME NEW s, TablesOK(s), NEW res \in Observable, NEW con \in BOOLEAN,
           s.notified < MaxNotify, NEW own, Traced(s, own)
    PROVE  Traced(NotifyAll(s, res, con), own)
<1> DEFINE t == NotifyAll(s, res, con)
<1>1. /\ t.deferred = s.deferred
      /\ \A i \in ObserverSlots :
            t.observers[i] # Free =>
               s.observers[i] # Free /\ SameSubscription(t.observers[i], s.observers[i])
      /\ \A k \in TxSlots : t.tx[k] = s.tx[k] \/ Notifies(t.tx[k].packet, s)
      /\ \A p \in t.out : p \in s.out \/ Notifies(p, s)
  BY NotifyEffect
<1> HIDE DEF t
<1> QED BY <1>1 DEF Traced, Belongs, SameSubscription, Notifies, t

(* respond() sends the token and the number the slot has kept. *)
LEMMA RespondTraced ==
    ASSUME ServerInv, NEW handle \in held, NEW own, Traced(sv, own)
    PROVE  Traced(RespondTo(sv, handle), own)
<1> DEFINE h    == handle.slot
           d    == sv.deferred[h]
           pkt  == SeparateResponse(sv, h)
           pool == IF d.con THEN StartTx(sv.tx, TrackPacket(pkt, "separate")) ELSE sv.tx
           s    == RespondTo(sv, handle)
<1>1. /\ TablesOK(sv) /\ h \in DeferSlots /\ d # Free
      /\ sv.deferred \in DeferredTable /\ sv.tx \in ServerPool
  BY DEF ServerInv, TablesOK, Matching
<1>2. Belongs(pkt, own)
  BY <1>1 DEF SeparateResponse, Traced, Belongs
<1>3. /\ s.observers = sv.observers /\ s.deferred = [sv.deferred EXCEPT ![h] = Free]
      /\ s.tx = pool /\ s.out = sv.out \cup {pkt}
  <2> HIDE DEF pkt
  <2> QED BY <1>1 DEF RespondTo, Send, NextMid, TablesOK, Object, pkt
<1> HIDE DEF s, pkt
<1>4. ASSUME NEW k \in TxSlots, pool[k] # Free
      PROVE  Belongs(pool[k].packet, own)
  <2> DEFINE x == TrackPacket(pkt, "separate")
             Contents == {sv.tx[i] : i \in TxSlots} \cup {Free, x}
  <2>1. x \in Contents /\ Free \in Contents /\ sv.tx \in [TxSlots -> Contents]
    BY <1>1 DEF ServerPool
  <2>2. x.packet = pkt
    BY DEF TrackPacket
  <2> HIDE DEF x, Contents
  <2>3. \A i \in TxSlots : \/ StartTx(sv.tx, x)[i] = sv.tx[i]
                           \/ sv.tx[i] = Free /\ StartTx(sv.tx, x)[i] = x
    BY <2>1, StartTxEffect
  <2> QED BY <1>2, <1>4, <2>2, <2>3 DEF Traced, x
<1>5. \A i \in DeferSlots : s.deferred[i] # Free => sv.deferred[i] = s.deferred[i]
  BY <1>1, <1>3 DEF DeferredTable
<1> HIDE DEF pool
<1> QED BY <1>2, <1>3, <1>4, <1>5 DEF Traced, s

(* What is new in the network is an answer to the call its token was sent  *)
(* for.                                                                    *)
AnswersTheirs(own) == \A p \in net' \ net : p.code \in ResponseCodes => Belongs(p, own)

LEMMA ServerTraced ==
    ASSUME ServerInv, NEW own, Traced(sv, own), ServerNext,
           \A m \in net : m.dst = ServerEp => AskedOf(m, own)
    PROVE  Traced(sv', own) /\ AnswersTheirs(own)
<1>1. ASSUME NEW s, TablesOK(s), Traced(s, own), sv' = [s EXCEPT !.out = {}],
             Transmit(s.out) \/ \E m \in net : Deliver(m, s.out)
      PROVE  Traced(sv', own) /\ AnswersTheirs(own)
  <2>1. /\ sv'.observers = s.observers /\ sv'.deferred = s.deferred /\ sv'.tx = s.tx
        /\ sv'.out = {}
    BY <1>1 DEF TablesOK, Object
  <2>2. \A p \in net' : p \in net \/ p \in s.out
    BY <1>1, NetEffect
  <2> QED BY <1>1, <2>1, <2>2 DEF Traced, AnswersTheirs
<1>2. TablesOK(sv)
  BY DEF ServerInv
<1>3. CASE ServerIdlePoll
  <2>1. PICK due \in SUBSET InFlight(sv.tx) :
          /\ sv' = [TickServer(sv, due) EXCEPT !.out = {}]
          /\ Transmit(TickServer(sv, due).out)
    BY <1>3 DEF ServerIdlePoll
  <2>2. TablesOK(TickServer(sv, due)) /\ Traced(TickServer(sv, due), own)
    BY <1>2, TickEffect, TickTraced
  <2> QED BY <1>1, <2>1, <2>2
<1>4. ASSUME NEW m \in net, ServerReceive(m)
      PROVE  Traced(sv', own) /\ AnswersTheirs(own)
  <2>1. PICK due \in SUBSET InFlight(sv.tx), answer \in AnswersTo(m) :
          LET s == OnServerPacket(TickServer(sv, due), m, answer)
          IN  sv' = [s EXCEPT !.out = {}] /\ Deliver(m, s.out)
    BY <1>4 DEF ServerReceive
  <2> DEFINE s1 == TickServer(sv, due)
  <2>2. TablesOK(s1) /\ Traced(s1, own)
    BY <1>2, TickEffect, TickTraced
  <2> HIDE DEF s1
  <2>3. AskedOf(m, own) /\ FromClient(m)
    BY <1>4 DEF ServerReceive, AskedOf
  <2>4. TablesOK(OnServerPacket(s1, m, answer))
    BY <2>2, <2>3, PacketEffect
  <2>5. Traced(OnServerPacket(s1, m, answer), own)
    BY <2>2, <2>3, PacketTraced
  <2> QED BY <1>1, <2>1, <2>4, <2>5 DEF s1
<1>5. CASE Notify
  <2>1. PICK res \in Observable, con \in BOOLEAN :
          /\ sv' = [NotifyAll(sv, res, con) EXCEPT !.out = {}]
          /\ Transmit(NotifyAll(sv, res, con).out)
    BY <1>5 DEF Notify
  <2>2. sv.notified < MaxNotify
    BY <1>5 DEF Notify
  <2>3. TablesOK(NotifyAll(sv, res, con)) /\ Traced(NotifyAll(sv, res, con), own)
    BY <1>2, <2>2, NotifyEffect, NotifyTraced
  <2> QED BY <1>1, <2>1, <2>3
<1>6. ASSUME NEW handle \in held, Respond(handle)
      PROVE  Traced(sv', own) /\ AnswersTheirs(own)
  <2>1. /\ sv' = [RespondTo(sv, handle) EXCEPT !.out = {}]
        /\ Transmit(RespondTo(sv, handle).out)
    BY <1>6 DEF Respond
  <2>2. TablesOK(RespondTo(sv, handle))
    BY <1>6, RespondPreserves
  <2>3. Traced(RespondTo(sv, handle), own)
    BY RespondTraced
  <2> QED BY <1>1, <2>1, <2>2, <2>3
<1> QED BY <1>3, <1>4, <1>5, <1>6 DEF ServerNext
-----------------------------------------------------------------------------
(* Uploads. *)
SessionRecord(x) == x = [remote |-> x.remote, token |-> x.token, next |-> x.next, data |-> x.data]

SessionTable(table) ==
    /\ table = [i \in SessionSlots |-> table[i]]
    /\ \A i \in SessionSlots : table[i] # Free => SessionRecord(table[i])

(* The session a block finds, or opens. *)
Before(old, table, m) ==
    \/ old = [remote |-> m.src, token |-> m.token, next |-> 0, data |-> <<>>]
    \/ /\ \E i \in SessionSlots : table[i] # Free /\ old = table[i]
       /\ old.remote = m.src /\ old.token = m.token

(* The block m is the next one of that session. *)
NextBlock(old, table, m) ==
    /\ m.code = "Put" /\ HasOption(m, "block1")
    /\ Before(old, table, m) /\ SessionRecord(old) /\ m.block1.num = old.next

Appended(old, m) ==
    [remote |-> old.remote, token |-> old.token, next |-> old.next + 1,
     data |-> old.data \o m.data]

SameUploads(t, s) == t.sessions = s.sessions /\ t.bodies = s.bodies

(* What has come to the sessions and bodies is of block m. *)
UploadsBy(t, s, m) ==
    /\ SessionTable(t.sessions)
    /\ \A i \in SessionSlots : t.sessions[i] # Free =>
          \/ t.sessions[i] = s.sessions[i]
          \/ \E old : /\ NextBlock(old, s.sessions, m) /\ m.block1.more
                      /\ t.sessions[i] = Appended(old, m)
    /\ \A body \in t.bodies :
          \/ body \in s.bodies
          \/ \E old : /\ NextBlock(old, s.sessions, m) /\ ~m.block1.more
                      /\ body = Appended(old, m).data

LEMMA SessionsNumbered == SessionSlots \subseteq Nat
BY ServerAssumption DEF SessionSlots

LEMMA SendReplyUploads ==
    ASSUME NEW s, Object(s), NEW m, NEW pkt
    PROVE  SameUploads(SendReply(s, m, pkt), s)
<1>1. ASSUME NEW t, Object(t)
      PROVE  SameUploads(Send(t, {pkt}), t)
  BY <1>1 DEF Send, Object, SameUploads
<1>2. Object(NextMid(s)) /\ SameUploads(NextMid(s), s)
  BY DEF NextMid, Object, SameUploads
<1> QED BY <1>1, <1>2 DEF SendReply, SameUploads

LEMMA RunHandlerUploads ==
    ASSUME NEW s, Object(s), NEW m, NEW answer, NEW body
    PROVE  SameUploads(RunHandler(s, m, answer, body), s)
<1>1. SameUploads(ReplyInline(s, m, body), s)
  <2>1. PICK pkt : ReplyInline(s, m, body) = SendReply(s, m, pkt)
    BY DEF ReplyInline, Piggyback, SendBlock2
  <2> QED BY <2>1, SendReplyUploads
<1>2. ASSUME NEW h PROVE SameUploads(Defer(s, m, h), s)
  <2> DEFINE s1  == [s EXCEPT !.deferred[h] = DeferredEntry(m)]
             ack == EmptyAck(ServerEp, m.src, m.mid)
  <2>1. Object(s1) /\ SameUploads(s1, s)
    <3> DEFINE d == [s.deferred EXCEPT ![h] = DeferredEntry(m)]
    <3>1. s1 = [s EXCEPT !.deferred = d]
      OBVIOUS
    <3> HIDE DEF d, s1
    <3>2. s1 = [observers |-> s.observers, deferred |-> d, tx |-> s.tx,
                nextMid |-> s.nextMid, sessions |-> s.sessions, notified |-> s.notified,
                bodies |-> s.bodies, out |-> s.out]
      BY <3>1 DEF Object
    <3> QED BY <3>2 DEF Object, SameUploads
  <2>2. Defer(s, m, h) = IF m.type = "CON" THEN Send(s1, {ack}) ELSE s1
    BY DEF Defer
  <2> HIDE DEF s1, ack
  <2>3. SameUploads(Send(s1, {ack}), s1)
    BY <2>1 DEF Send, Object, SameUploads
  <2> QED BY <2>1, <2>2, <2>3 DEF SameUploads
<1> QED BY <1>1, <1>2 DEF RunHandler

(* A slot of the sessions is freed, or filled with the next block. *)
LEMMA OnBlock1Uploads ==
    ASSUME NEW s, Object(s), SessionTable(s.sessions), NEW m, NEW answer,
           m.code = "Put", HasOption(m, "block1")
    PROVE  UploadsBy(OnBlock1(s, m, answer), s, m)
<1> DEFINE known == SessionsOf(s, m)
           k     == Min(IF known # {} THEN known ELSE Vacant(s.sessions))
           old   == SessionFor(s, m)
           new   == [old EXCEPT !.next = @ + 1, !.data = @ \o m.data]
           freed == [s EXCEPT !.sessions[k] = Free]
           kept  == [s EXCEPT !.sessions[k] = new]
           done  == [freed EXCEPT !.bodies = @ \cup {new.data}]
           t     == OnBlock1(s, m, answer)
<1>1. \/ \E pkt : t = SendReply(s, m, pkt)
      \/ \E pkt : t = SendReply(freed, m, pkt)
      \/ (\E pkt : t = SendReply(kept, m, pkt)) /\ m.block1.num = old.next /\ m.block1.more
      \/ t = RunHandler(done, m, answer, <<>>) /\ m.block1.num = old.next /\ ~m.block1.more
  BY DEF OnBlock1, Piggyback, Continue
<1>2. Before(old, s.sessions, m) /\ SessionRecord(old)
  <2>1. CASE known = {}
    BY <2>1 DEF SessionFor, Before, SessionRecord
  <2>2. CASE known # {}
    <3>1. DOMAIN s.sessions = SessionSlots
      BY DEF SessionTable
    <3>2. Min(known) \in known
      <4>1. known \in SUBSET Occupied(s.sessions)
        BY DEF SessionsOf
      <4> QED BY <2>2, <3>1, <4>1, SessionsNumbered, VacantSlot
    <3>3. old = s.sessions[Min(known)]
      BY <2>2 DEF SessionFor
    <3>4. Min(known) \in SessionSlots /\ old # Free /\ old.remote = m.src /\ old.token = m.token
      BY <3>1, <3>2, <3>3 DEF SessionsOf, Occupied
    <3> HIDE DEF old, known
    <3> QED BY <3>3, <3>4 DEF Before, SessionTable
  <2> QED BY <2>1, <2>2
<1> SUFFICES UploadsBy(t, s, m)
  OBVIOUS
<1> HIDE DEF t, known, k, old
<1>3. new = Appended(old, m)
  <2> DEFINE a == old.next + 1
             b == old.data \o m.data
             y == [old EXCEPT !.next = a, !.data = b]
  <2>1. new = y
    OBVIOUS
  <2>2. y = [old EXCEPT !.next = a, !.data = b]
    OBVIOUS
  <2> HIDE DEF new, y, a, b
  <2>3. y = [remote |-> old.remote, token |-> old.token, next |-> a, data |-> b]
    BY <1>2, <2>2 DEF SessionRecord
  <2> QED BY <2>1, <2>3 DEF Appended, a, b
<1> HIDE DEF new
<1>4. SessionRecord(new)
  BY <1>3 DEF SessionRecord, Appended
<1>5. Object(freed) /\ freed.sessions = [s.sessions EXCEPT ![k] = Free] /\ freed.bodies = s.bodies
  <2> DEFINE d == [s.sessions EXCEPT ![k] = Free]
  <2>1. freed = [s EXCEPT !.sessions = d]
    OBVIOUS
  <2> HIDE DEF d, freed
  <2>2. freed = [observers |-> s.observers, deferred |-> s.deferred, tx |-> s.tx,
                 nextMid |-> s.nextMid, sessions |-> d, notified |-> s.notified,
                 bodies |-> s.bodies, out |-> s.out]
    BY <2>1 DEF Object
  <2> QED BY <2>2 DEF Object, d
<1>6. Object(kept) /\ kept.sessions = [s.sessions EXCEPT ![k] = new] /\ kept.bodies = s.bodies
  <2> DEFINE d == [s.sessions EXCEPT ![k] = new]
  <2>1. kept = [s EXCEPT !.sessions = d]
    OBVIOUS
  <2> HIDE DEF d, kept
  <2>2. kept = [observers |-> s.observers, deferred |-> s.deferred, tx |-> s.tx,
                nextMid |-> s.nextMid, sessions |-> d, notified |-> s.notified,
                bodies |-> s.bodies, out |-> s.out]
    BY <2>1 DEF Object
  <2> QED BY <2>2 DEF Object, d
<1> HIDE DEF freed, kept
<1>7. /\ Object(done) /\ done.sessions = freed.sessions
      /\ done.bodies = s.bodies \cup {Appended(old, m).data}
  <2> DEFINE d == s.bodies \cup {new.data}
  <2>1. done = [freed EXCEPT !.bodies = d]
    BY <1>5
  <2> HIDE DEF d, done
  <2>2. done = [observers |-> freed.observers, deferred |-> freed.deferred, tx |-> freed.tx,
                nextMid |-> freed.nextMid, sessions |-> freed.sessions,
                notified |-> freed.notified, bodies |-> d,
                out |-> freed.out]
    BY <1>5, <2>1 DEF Object
  <2> QED BY <1>3, <2>2 DEF Object, d
<1> HIDE DEF done
<1>8. ASSUME NEW x, x = Free \/ SessionRecord(x)
      PROVE  LET table == [s.sessions EXCEPT ![k] = x]
             IN  /\ SessionTable(table)
                 /\ \A i \in SessionSlots : table[i] = s.sessions[i] \/ table[i] = x
  BY <1>8 DEF SessionTable
<1>9. SessionTable(freed.sessions) /\ \A i \in SessionSlots : freed.sessions[i] \in {s.sessions[i], Free}
  <2>1. Free = Free \/ SessionRecord(Free)
    OBVIOUS
  <2> QED BY <1>5, <1>8, <2>1
<1>10. SessionTable(kept.sessions) /\ \A i \in SessionSlots : kept.sessions[i] \in {s.sessions[i], new}
  BY <1>4, <1>6, <1>8
<1>11. \/ SameUploads(t, s)
       \/ SameUploads(t, freed)
       \/ SameUploads(t, kept) /\ m.block1.num = old.next /\ m.block1.more
       \/ SameUploads(t, done) /\ m.block1.num = old.next /\ ~m.block1.more
  BY <1>1, <1>5, <1>6, <1>7, SendReplyUploads, RunHandlerUploads
<1>12. m.block1.num = old.next => NextBlock(old, s.sessions, m)
  BY <1>2 DEF NextBlock
<1>13. CASE SameUploads(t, s)
  BY <1>13 DEF SameUploads, UploadsBy
<1>14. CASE SameUploads(t, freed)
  BY <1>5, <1>9, <1>14 DEF SameUploads, UploadsBy
<1>15. CASE SameUploads(t, kept) /\ m.block1.num = old.next /\ m.block1.more
  <2>1. t.sessions = kept.sessions /\ t.bodies = s.bodies
    BY <1>6, <1>15 DEF SameUploads
  <2>2. NextBlock(old, s.sessions, m)
    BY <1>12, <1>15
  <2> QED BY <1>3, <1>10, <1>15, <2>1, <2>2 DEF UploadsBy
<1>16. CASE SameUploads(t, done) /\ m.block1.num = old.next /\ ~m.block1.more
  <2>1. t.sessions = freed.sessions /\ t.bodies = s.bodies \cup {Appended(old, m).data}
    BY <1>7, <1>16 DEF SameUploads
  <2>2. NextBlock(old, s.sessions, m)
    BY <1>12, <1>16
  <2> QED BY <1>9, <1>16, <2>1, <2>2 DEF UploadsBy
<1> QED BY <1>11, <1>13, <1>14, <1>15, <1>16

LEMMA HandleRequestUploads ==
    ASSUME NEW s, TablesOK(s), SessionTable(s.sessions), NEW m, FromClient(m), NEW answer
    PROVE  UploadsBy(HandleRequest(s, m, answer), s, m)
<1> DEFINE s1 == HandleObserve(s, m)
           t  == HandleRequest(s, m, answer)
<1>1. Object(s1) /\ SameUploads(s1, s)
  <2>1. TablesOK(s1)
    BY HandleObserveEffect
  <2>2. SameUploads(s1, s)
    BY DEF HandleObserve, RegisterObserver, RemoveObserver, TablesOK, Object, SameUploads
  <2> QED BY <2>1, <2>2 DEF TablesOK
<1>2. \/ \E pkt : t = SendReply(s, m, pkt)
      \/ t = OnBlock1(s1, m, answer) /\ m.code = "Put" /\ HasOption(m, "block1")
      \/ \E body : t = RunHandler(s1, m, answer, body)
  BY DEF HandleRequest, Piggyback
<1> HIDE DEF s1, t
<1>3. CASE t = OnBlock1(s1, m, answer) /\ m.code = "Put" /\ HasOption(m, "block1")
  <2>1. UploadsBy(t, s1, m)
    BY <1>1, <1>3, OnBlock1Uploads DEF SameUploads
  <2> QED BY <1>1, <2>1 DEF UploadsBy, SameUploads, t
<1>4. CASE ~(t = OnBlock1(s1, m, answer) /\ m.code = "Put" /\ HasOption(m, "block1"))
  <2>1. SameUploads(t, s) \/ SameUploads(t, s1)
    BY <1>1, <1>2, <1>4, SendReplyUploads, RunHandlerUploads DEF TablesOK
  <2> QED BY <1>1, <2>1 DEF UploadsBy, SameUploads, t
<1> QED BY <1>3, <1>4

(* Sessions and bodies are those before the step, but for what a block in  *)
(* the network has added.                                                  *)
LEMMA ServerUploads ==
    ASSUME ServerInv, SessionTable(sv.sessions), ServerNext,
           \A m \in net : m.dst = ServerEp => FromClient(m)
    PROVE  \/ SameUploads(sv', sv)
           \/ \E m \in net : m.dst = ServerEp /\ UploadsBy(sv', sv, m)
<1>1. ASSUME NEW s, TablesOK(s), sv' = [s EXCEPT !.out = {}]
      PROVE  SameUploads(sv', s)
  BY <1>1 DEF TablesOK, Object, SameUploads
<1>2. TablesOK(sv)
  BY DEF ServerInv
<1>3. ASSUME NEW due \in SUBSET InFlight(sv.tx)
      PROVE  TablesOK(TickServer(sv, due)) /\ SameUploads(TickServer(sv, due), sv)
  <2>1. SameUploads(TickServer(sv, due), sv)
    BY <1>2 DEF TickServer, TablesOK, Object, SameUploads
  <2> QED BY <1>2, <2>1, TickEffect
<1>4. CASE ServerIdlePoll
  <2>1. PICK due \in SUBSET InFlight(sv.tx) : sv' = [TickServer(sv, due) EXCEPT !.out = {}]
    BY <1>4 DEF ServerIdlePoll
  <2>2. SameUploads(sv', TickServer(sv, due))
    BY <1>1, <1>3, <2>1
  <2> QED BY <1>3, <2>2 DEF SameUploads
<1>5. ASSUME NEW m \in net, ServerReceive(m)
      PROVE  SameUploads(sv', sv) \/ (m.dst = ServerEp /\ UploadsBy(sv', sv, m))
  <2>1. PICK due \in SUBSET InFlight(sv.tx), answer \in AnswersTo(m) :
          sv' = [OnServerPacket(TickServer(sv, due), m, answer) EXCEPT !.out = {}]
    BY <1>5 DEF ServerReceive
  <2> DEFINE s == TickServer(sv, due)
             t == OnServerPacket(s, m, answer)
  <2>2. TablesOK(s) /\ SameUploads(s, sv)
    BY <1>3
  <2>3. m.dst = ServerEp /\ FromClient(m)
    BY <1>5 DEF ServerReceive
  <2> HIDE DEF s
  <2>4. TablesOK(t)
    BY <2>2, <2>3, PacketEffect
  <2>5. SameUploads(sv', t)
    BY <1>1, <2>1, <2>4 DEF s
  <2>6. SameUploads(t, s) \/ UploadsBy(t, s, m)
    <3>1. CASE m.type \in {"RST", "ACK"} \/ m.code \notin MethodCodes
      <4>1. SameUploads(OnServerReset(s, m), s)
        BY <2>2 DEF OnServerReset, TablesOK, Object, SameUploads
      <4>2. SameUploads([s EXCEPT !.tx = CompleteTx(s.tx, m.src, m.mid)], s)
        BY <2>2 DEF TablesOK, Object, SameUploads
      <4>3. t \in {OnServerReset(s, m), [s EXCEPT !.tx = CompleteTx(s.tx, m.src, m.mid)], s}
        BY <3>1 DEF OnServerPacket
      <4> HIDE DEF t
      <4> QED BY <4>1, <4>2, <4>3 DEF SameUploads
    <3>2. CASE m.type \notin {"RST", "ACK"} /\ m.code \in MethodCodes
      <4>1. SessionTable(s.sessions)
        BY <2>2 DEF SameUploads
      <4>2. t \in {HandleRequest(s, m, answer), s}
        BY <3>2 DEF OnServerPacket
      <4>3. UploadsBy(HandleRequest(s, m, answer), s, m)
        BY <2>2, <2>3, <4>1, HandleRequestUploads
      <4> HIDE DEF t
      <4> QED BY <4>2, <4>3 DEF SameUploads
    <3> QED BY <3>1, <3>2
  <2> HIDE DEF t
  <2>7. s.sessions = sv.sessions /\ s.bodies = sv.bodies
    BY <2>2 DEF SameUploads
  <2>8. sv'.sessions = t.sessions /\ sv'.bodies = t.bodies
    BY <2>5 DEF SameUploads
  <2>9. CASE SameUploads(t, s)
    BY <2>7, <2>8, <2>9 DEF SameUploads
  <2>10. CASE UploadsBy(t, s, m)
    BY <2>3, <2>7, <2>8, <2>10 DEF UploadsBy
  <2> QED BY <2>6, <2>9, <2>10
<1>6. CASE Notify
  <2>1. PICK res \in Observable, con \in BOOLEAN : sv' = [NotifyAll(sv, res, con) EXCEPT !.out = {}]
    BY <1>6 DEF Notify
  <2>2. sv.notified < MaxNotify
    BY <1>6 DEF Notify
  <2>3. TablesOK(NotifyAll(sv, res, con))
    BY <1>2, <2>2, NotifyEffect
  <2>4. SameUploads(NotifyAll(sv, res, con), sv)
    BY <1>2 DEF NotifyAll, TablesOK, Object, SameUploads
  <2>5. SameUploads(sv', NotifyAll(sv, res, con))
    BY <1>1, <2>1, <2>3
  <2> QED BY <2>4, <2>5 DEF SameUploads
<1>7. ASSUME NEW handle \in held, Respond(handle)
      PROVE  SameUploads(sv', sv)
  <2>1. sv' = [RespondTo(sv, handle) EXCEPT !.out = {}]
    BY <1>7 DEF Respond
  <2>2. TablesOK(RespondTo(sv, handle))
    BY <1>7, RespondPreserves
  <2>3. SameUploads(RespondTo(sv, handle), sv)
    <3> DEFINE pkt == SeparateResponse(sv, handle.slot)
    <3>1. RespondTo(sv, handle).sessions = sv.sessions /\ RespondTo(sv, handle).bodies = sv.bodies
      BY <1>2 DEF RespondTo, Send, NextMid, TablesOK, Object
    <3> QED BY <3>1 DEF SameUploads
  <2>4. SameUploads(sv', RespondTo(sv, handle))
    BY <1>1, <2>1, <2>2
  <2> QED BY <2>3, <2>4 DEF SameUploads
<1> QED BY <1>4, <1>5, <1>6, <1>7 DEF ServerNext
-----------------------------------------------------------------------------
(* Downloads.  Only a GET is answered with a block, and it gets the one it *)
(* asks for, or the first.                                                 *)
NoBlock2(p) == ~HasOption(p, "block2")

Portion(p, m) ==
    HasOption(p, "block2") =>
       LET size == ReplySize[m.path]
           num  == IF HasOption(m, "block2") THEN m.block2.num ELSE 0
       IN  /\ m.code \in MethodCodes /\ m.path \in Resources
           /\ p.path = m.path /\ p.about = m.about
           /\ Offset(num) < size /\ p.block2 = Block(size, num)
           /\ p.data = Slice(Representation(size), num)

Portions(t, s, m) == \A p \in t.out : p \in s.out \/ Portion(p, m)

LEMMA SendReplyPortions ==
    ASSUME NEW s, Object(s), NEW m, NEW pkt, Portion(pkt, m)
    PROVE  Portions(SendReply(s, m, pkt), s, m)
<1>1. ASSUME NEW t, Object(t)
      PROVE  Send(t, {pkt}).out = t.out \cup {pkt}
  BY <1>1 DEF Send, Object
<1>2. Object(NextMid(s)) /\ NextMid(s).out = s.out
  BY DEF NextMid, Object
<1> QED BY <1>1, <1>2 DEF SendReply, Portions

LEMMA ReplyHasNoBlock2 ==
    ASSUME NEW s, NEW m, NEW code
    PROVE  /\ NoBlock2(ReplyPacket(s, m, code))
           /\ \A num, more :
                 NoBlock2(WithOption(ReplyPacket(s, m, code),
                                     [block1 |-> [num |-> num, more |-> more]]))
<1> DEFINE r == ReplyPacket(s, m, code)
<1>1. DOMAIN r = PacketFields
  BY DEF ReplyPacket, PacketFields
<1> HIDE DEF r
<1>2. NoBlock2(r)
  BY <1>1 DEF NoBlock2, HasOption, PacketFields
<1>3. ASSUME NEW num, NEW more
      PROVE  NoBlock2(WithOption(r, [block1 |-> [num |-> num, more |-> more]]))
  <2> DEFINE x == [block1 |-> [num |-> num, more |-> more]]
  <2>1. DOMAIN x = {"block1"}
    OBVIOUS
  <2> HIDE DEF x
  <2>2. DOMAIN WithOption(r, x) = DOMAIN r \cup DOMAIN x
    BY DEF WithOption
  <2>3. NoBlock2(WithOption(r, x))
    BY <1>1, <2>1, <2>2 DEF NoBlock2, HasOption, PacketFields
  <2> QED BY <2>3 DEF x
<1> QED BY <1>2, <1>3 DEF r

LEMMA NoBlock2Portions ==
    ASSUME NEW s, Object(s), NEW m, NEW pkt, NoBlock2(pkt)
    PROVE  Portions(SendReply(s, m, pkt), s, m)
BY SendReplyPortions DEF NoBlock2, Portion

(* What the body of a reply may be: that of a GET has a size. *)
BodyFor(body, m) ==
    \/ body = <<>>
    \/ m.path \in Resources /\ body = Representation(ReplySize[m.path])

LEMMA ReplyInlinePortions ==
    ASSUME NEW s, Object(s), NEW m, FromClient(m), m.code \in MethodCodes,
           NEW body, BodyFor(body, m)
    PROVE  Portions(ReplyInline(s, m, body), s, m)
<1> DEFINE num == IF HasOption(m, "block2") THEN m.block2.num ELSE 0
           r   == ReplyPacket(s, m, "Content")
           x   == [block2 |-> Block(Len(body), num), data |-> Slice(body, num)]
<1>1. \A code : Portions(Piggyback(s, m, code), s, m)
  BY NoBlock2Portions, ReplyHasNoBlock2 DEF Piggyback
<1>2. CASE body = <<>>
  BY <1>1, <1>2 DEF ReplyInline
<1>3. CASE body # <<>>
  <2> DEFINE size == ReplySize[m.path]
  <2>1. m.path \in Resources /\ size \in Nat /\ body = Representation(size)
    BY <1>3, ServerAssumption DEF BodyFor
  <2> HIDE DEF size
  <2>2. Len(body) = size
    BY <2>1 DEF Representation
  <2>3. size > 0
    <3>1. CASE size = 0
      <4>1. body \in Seq(Nat) /\ Len(body) = 0
        BY <2>1, <2>2, <3>1, RepresentationIsBody
      <4>2. body = <<>>
        BY <4>1, EmptySeq
      <4> QED BY <1>3, <4>2
    <3> QED BY <2>1, <3>1
  <2>4. num \in Nat /\ Offset(num) \in Nat
    BY BlockAssumption DEF FromClient, Offset
  <2>5. CASE Offset(num) < Len(body)
    <3>1. DOMAIN r = PacketFields /\ r.path = m.path /\ r.about = m.about
      BY DEF ReplyPacket, PacketFields
    <3>2. DOMAIN x = {"block2", "data"} /\ x.block2 = Block(size, num) /\ x.data = Slice(body, num)
      BY <2>2
    <3> HIDE DEF r, x, num
    <3> DEFINE w == WithOption(r, x)
    <3>3. w.path = r.path /\ w.about = r.about /\ w.block2 = x.block2 /\ w.data = x.data
      BY <3>1, <3>2 DEF WithOption, PacketFields
    <3> HIDE DEF w
    <3>4. Portion(w, m)
      BY <2>1, <2>2, <2>5, <3>1, <3>2, <3>3 DEF Portion, size, num
    <3>5. Portions(SendReply(s, m, w), s, m)
      BY <3>4, SendReplyPortions
    <3>6. SendBlock2(s, m, body) = SendReply(s, m, w)
      BY DEF SendBlock2, w, r, x, num
    <3>7. Portions(SendBlock2(s, m, body), s, m)
      BY <3>5, <3>6
    <3> QED BY <1>1, <3>7 DEF ReplyInline
  <2>6. CASE ~(Offset(num) < Len(body))
    <3>1. Offset(num) >= Len(body)
      BY <2>1, <2>2, <2>4, <2>6
    <3>2. Offset(0) = 0
      BY BlockAssumption DEF Offset
    <3>3. HasOption(m, "block2")
      BY <2>1, <2>2, <2>3, <3>1, <3>2
    <3>4. Offset(m.block2.num) >= Len(body)
      BY <3>1, <3>3
    <3> QED BY <1>1, <3>3, <3>4 DEF ReplyInline
  <2> QED BY <2>5, <2>6
<1> QED BY <1>2, <1>3

LEMMA RunHandlerPortions ==
    ASSUME NEW s, Object(s), NEW m, FromClient(m), m.code \in MethodCodes, NEW answer,
           NEW body, BodyFor(body, m)
    PROVE  Portions(RunHandler(s, m, answer, body), s, m)
<1>1. Portions(ReplyInline(s, m, body), s, m)
  BY ReplyInlinePortions
<1>2. ASSUME NEW h PROVE Portions(Defer(s, m, h), s, m)
  <2> DEFINE d   == [s.deferred EXCEPT ![h] = DeferredEntry(m)]
             s1  == [s EXCEPT !.deferred[h] = DeferredEntry(m)]
             ack == EmptyAck(ServerEp, m.src, m.mid)
  <2>1. Object(s1) /\ s1.out = s.out
    <3>1. s1 = [s EXCEPT !.deferred = d]
      OBVIOUS
    <3> HIDE DEF d, s1
    <3>2. s1 = [observers |-> s.observers, deferred |-> d, tx |-> s.tx,
                nextMid |-> s.nextMid, sessions |-> s.sessions, notified |-> s.notified,
                bodies |-> s.bodies, out |-> s.out]
      BY <3>1 DEF Object
    <3> QED BY <3>2 DEF Object
  <2>2. Defer(s, m, h) = IF m.type = "CON" THEN Send(s1, {ack}) ELSE s1
    BY DEF Defer
  <2>3. DOMAIN ack = PacketFields
    BY DEF EmptyAck, PacketFields
  <2> HIDE DEF s1, ack
  <2>4. Portion(ack, m)
    BY <2>3 DEF Portion, HasOption, PacketFields
  <2>5. Send(s1, {ack}).out = s1.out \cup {ack}
    BY <2>1 DEF Send, Object
  <2> QED BY <2>1, <2>2, <2>4, <2>5 DEF Portions
<1> QED BY <1>1, <1>2 DEF RunHandler

LEMMA OnBlock1Portions ==
    ASSUME NEW s, Object(s), NEW m, FromClient(m), m.code \in MethodCodes, NEW answer
    PROVE  Portions(OnBlock1(s, m, answer), s, m)
<1> DEFINE known == SessionsOf(s, m)
           k     == Min(IF known # {} THEN known ELSE Vacant(s.sessions))
           old   == SessionFor(s, m)
           new   == [old EXCEPT !.next = @ + 1, !.data = @ \o m.data]
           freed == [s EXCEPT !.sessions[k] = Free]
           kept  == [s EXCEPT !.sessions[k] = new]
           done  == [freed EXCEPT !.bodies = @ \cup {new.data}]
           t     == OnBlock1(s, m, answer)
<1>1. \/ \E code : t = Piggyback(s, m, code)
      \/ \E num, more : t = Continue(s, m, num, more)
      \/ \E code : t = Piggyback(freed, m, code)
      \/ \E num, more : t = Continue(kept, m, num, more)
      \/ t = RunHandler(done, m, answer, <<>>)
  BY DEF OnBlock1
<1> SUFFICES Portions(t, s, m)
  OBVIOUS
<1> HIDE DEF t, known, k, old, new
<1>2. Object(freed) /\ freed.out = s.out
  BY DEF Object
<1>3. Object(kept) /\ kept.out = s.out
  BY DEF Object
<1> HIDE DEF freed, kept
<1>4. Object(done) /\ done.out = s.out
  BY <1>2 DEF Object
<1> HIDE DEF done
<1>5. ASSUME NEW u, Object(u), u.out = s.out, NEW code, NEW num, NEW more
      PROVE  Portions(Piggyback(u, m, code), s, m) /\ Portions(Continue(u, m, num, more), s, m)
  <2>1. /\ NoBlock2(ReplyPacket(u, m, code))
        /\ NoBlock2(WithOption(ReplyPacket(u, m, "Continue"),
                               [block1 |-> [num |-> num, more |-> more]]))
    BY ReplyHasNoBlock2
  <2>2. Portions(Piggyback(u, m, code), u, m) /\ Portions(Continue(u, m, num, more), u, m)
    BY <1>5, <2>1, NoBlock2Portions DEF Piggyback, Continue
  <2> QED BY <1>5, <2>2 DEF Portions
<1>6. Portions(RunHandler(done, m, answer, <<>>), s, m)
  <2>1. Portions(RunHandler(done, m, answer, <<>>), done, m)
    BY <1>4, RunHandlerPortions DEF BodyFor
  <2> QED BY <1>4, <2>1 DEF Portions
<1> QED BY <1>1, <1>2, <1>3, <1>5, <1>6

LEMMA HandleRequestPortions ==
    ASSUME NEW s, TablesOK(s), NEW m, FromClient(m), m.code \in MethodCodes, NEW answer
    PROVE  Portions(HandleRequest(s, m, answer), s, m)
<1> DEFINE s1   == HandleObserve(s, m)
           body == Representation(IF m.code = "Get" THEN ReplySize[m.path] ELSE 0)
           t    == HandleRequest(s, m, answer)
<1>1. Object(s) /\ Object(s1) /\ s1.out = s.out
  BY HandleObserveEffect DEF TablesOK
<1>2. \/ \E code : t = Piggyback(s, m, code)
      \/ t = OnBlock1(s1, m, answer)
      \/ t = RunHandler(s1, m, answer, body) /\ m.path \in Resources
  BY DEF HandleRequest
<1>3. m.path \in Resources => BodyFor(body, m)
  <2>1. Representation(0) = <<>>
    <3>1. Representation(0) \in Seq(Nat) /\ Len(Representation(0)) = 0
      BY RepresentationIsBody DEF Representation
    <3> QED BY <3>1, EmptySeq
  <2> QED BY <2>1 DEF BodyFor
<1> SUFFICES Portions(t, s, m)
  OBVIOUS
<1> HIDE DEF s1, body, t
<1>4. \A code : Portions(Piggyback(s, m, code), s, m)
  BY <1>1, NoBlock2Portions, ReplyHasNoBlock2 DEF Piggyback
<1>5. Portions(OnBlock1(s1, m, answer), s, m)
  <2>1. Portions(OnBlock1(s1, m, answer), s1, m)
    BY <1>1, OnBlock1Portions
  <2> QED BY <1>1, <2>1 DEF Portions
<1>6. m.path \in Resources => Portions(RunHandler(s1, m, answer, body), s, m)
  <2>1. m.path \in Resources => Portions(RunHandler(s1, m, answer, body), s1, m)
    BY <1>1, <1>3, RunHandlerPortions
  <2> QED BY <1>1, <2>1 DEF Portions
<1> QED BY <1>2, <1>4, <1>5, <1>6

LEMMA PacketPortions ==
    ASSUME NEW s, TablesOK(s), NEW m, FromClient(m), NEW answer
    PROVE  Portions(OnServerPacket(s, m, answer), s, m)
<1> DEFINE t == OnServerPacket(s, m, answer)
           u == [s EXCEPT !.tx = CompleteTx(s.tx, m.src, m.mid)]
<1>1. t \in {OnServerReset(s, m), u, s} \/ (m.code \in MethodCodes /\ t = HandleRequest(s, m, answer))
  BY DEF OnServerPacket
<1>2. OnServerReset(s, m).out = s.out
  BY DEF OnServerReset, TablesOK, Object
<1>3. u.out = s.out
  BY DEF TablesOK, Object
<1> SUFFICES Portions(t, s, m)
  OBVIOUS
<1> HIDE DEF t, u
<1> QED BY <1>1, <1>2, <1>3, HandleRequestPortions DEF Portions

(* What is new in the network and has a block is the answer to a request.  *)
AnswersWithPortions ==
    \A p \in net' \ net :
       HasOption(p, "block2") => \E m \in net : m.dst = ServerEp /\ Portion(p, m)

LEMMA ServerPortions ==
    ASSUME ServerInv, sv.out = {}, ServerNext, \A m \in net : m.dst = ServerEp => FromClient(m)
    PROVE  sv'.out = {} /\ AnswersWithPortions
<1>1. ASSUME NEW s, TablesOK(s), sv' = [s EXCEPT !.out = {}]
      PROVE  sv'.out = {}
  BY <1>1 DEF TablesOK, Object
<1>2. ASSUME NEW s, Transmit(s.out), \A p \in s.out : NoBlock2(p)
      PROVE  AnswersWithPortions
  <2>1. \A p \in net' : p \in net \/ p \in s.out
    BY <1>2, NetEffect
  <2> QED BY <1>2, <2>1 DEF AnswersWithPortions, NoBlock2
<1>3. TablesOK(sv)
  BY DEF ServerInv
<1>4. ASSUME NEW due \in SUBSET InFlight(sv.tx)
      PROVE  /\ TablesOK(TickServer(sv, due))
             /\ \A p \in TickServer(sv, due).out : NoBlock2(p)
  <2>1. TablesOK(TickServer(sv, due)) /\ \A p \in TickServer(sv, due).out : Resends(p, sv)
    BY <1>3, TickEffect
  <2>2. ASSUME NEW p, Resends(p, sv) PROVE NoBlock2(p)
    <3>1. PICK k \in TxSlots : sv.tx[k] # Free /\ p = sv.tx[k].packet
      BY <2>2 DEF Resends
    <3>2. sv.tx[k] \in ServerTransaction
      BY <1>3, <3>1 DEF TablesOK, ServerPool
    <3>3. p \in TrackedPacket
      BY <3>1, <3>2 DEF ServerTransaction
    <3>4. DOMAIN p = PacketFields
      BY <3>3 DEF TrackedPacket, PacketFields
    <3> QED BY <3>4 DEF NoBlock2, HasOption, PacketFields
  <2> QED BY <2>1, <2>2
<1>5. CASE ServerIdlePoll
  <2>1. PICK due \in SUBSET InFlight(sv.tx) :
          /\ sv' = [TickServer(sv, due) EXCEPT !.out = {}]
          /\ Transmit(TickServer(sv, due).out)
    BY <1>5 DEF ServerIdlePoll
  <2> QED BY <1>1, <1>2, <1>4, <2>1
<1>6. ASSUME NEW m \in net, ServerReceive(m)
      PROVE  sv'.out = {} /\ AnswersWithPortions
  <2>1. PICK due \in SUBSET InFlight(sv.tx), answer \in AnswersTo(m) :
          LET s == OnServerPacket(TickServer(sv, due), m, answer)
          IN  sv' = [s EXCEPT !.out = {}] /\ Deliver(m, s.out)
    BY <1>6 DEF ServerReceive
  <2> DEFINE s1 == TickServer(sv, due)
             s2 == OnServerPacket(s1, m, answer)
  <2>2. TablesOK(s1) /\ \A p \in s1.out : NoBlock2(p)
    BY <1>4
  <2> HIDE DEF s1
  <2>3. FromClient(m) /\ m.dst = ServerEp
    BY <1>6 DEF ServerReceive
  <2>4. TablesOK(s2)
    BY <2>2, <2>3, PacketEffect
  <2>5. Portions(s2, s1, m)
    BY <2>2, <2>3, PacketPortions
  <2>6. sv' = [s2 EXCEPT !.out = {}] /\ Deliver(m, s2.out)
    BY <2>1 DEF s1
  <2> HIDE DEF s2
  <2>7. \A p \in net' : p \in net \/ p \in s2.out
    BY <2>6, NetEffect
  <2>8. AnswersWithPortions
    BY <2>2, <2>3, <2>5, <2>7 DEF AnswersWithPortions, Portions, NoBlock2
  <2> QED BY <1>1, <2>4, <2>6, <2>8
<1>7. CASE Notify
  <2>1. PICK res \in Observable, con \in BOOLEAN :
          /\ sv' = [NotifyAll(sv, res, con) EXCEPT !.out = {}]
          /\ Transmit(NotifyAll(sv, res, con).out)
    BY <1>7 DEF Notify
  <2>2. sv.notified < MaxNotify
    BY <1>7 DEF Notify
  <2>3. TablesOK(NotifyAll(sv, res, con))
    BY <1>3, <2>2, NotifyEffect
  <2>4. \A p \in NotifyAll(sv, res, con).out : NoBlock2(p)
    <3>1. \A p \in NotifyAll(sv, res, con).out : \E i : p = Notification(sv, i, con)
      BY <1>3 DEF NotifyAll, TablesOK, Object
    <3>2. \A i : DOMAIN Notification(sv, i, con) = PacketFields
      BY DEF Notification, PacketFields
    <3> QED BY <3>1, <3>2 DEF NoBlock2, HasOption, PacketFields
  <2> QED BY <1>1, <1>2, <2>1, <2>3, <2>4
<1>8. ASSUME NEW handle \in held, Respond(handle)
      PROVE  sv'.out = {} /\ AnswersWithPortions
  <2> DEFINE pkt == SeparateResponse(sv, handle.slot)
  <2>1. /\ sv' = [RespondTo(sv, handle) EXCEPT !.out = {}]
        /\ Transmit(RespondTo(sv, handle).out)
    BY <1>8 DEF Respond
  <2>2. TablesOK(RespondTo(sv, handle))
    BY <1>8, RespondPreserves
  <2>3. DOMAIN pkt = PacketFields
    BY DEF SeparateResponse, PacketFields
  <2>4. RespondTo(sv, handle).out \subseteq {pkt}
    <3> HIDE DEF pkt
    <3> QED BY <1>3 DEF RespondTo, Send, NextMid, TablesOK, Object, pkt
  <2> HIDE DEF pkt
  <2>5. \A p \in RespondTo(sv, handle).out : NoBlock2(p)
    BY <2>3, <2>4 DEF NoBlock2, HasOption, PacketFields
  <2> QED BY <1>1, <1>2, <2>1, <2>2, <2>5
<1> QED BY <1>5, <1>6, <1>7, <1>8 DEF ServerNext
=============================================================================
