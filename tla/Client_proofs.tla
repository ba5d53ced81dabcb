---------------------------- MODULE Client_proofs ---------------------------
(***************************************************************************)
(* What the operations of class Client do to its tables, for every size of *)
(* the tables, number of calls and packet received, block options          *)
(* included, and the invariants each of its actions preserves.             *)
(***************************************************************************)
EXTENDS Client, TransactionOps_proofs, FiniteSetTheorems, SequenceTheorems

(* The fields of a Client object, whatever they hold. *)
ClientObject(c) ==
    c = [pending |-> c.pending, tx |-> c.tx, discovers |-> c.discovers,
         nextToken |-> c.nextToken, nextMid |-> c.nextMid, issued |-> c.issued,
         calls |-> c.calls, out |-> c.out]

TransactionRecord(x) ==
    x = [remote |-> x.remote, mid |-> x.mid, token |-> x.token,
         retries |-> x.retries, packet |-> x.packet]

(* own says which call a token was sent for: pairs of a token in use and   *)
(* the number of a call.  Unless a token is used again too early, it       *)
(* belongs to one call.                                                    *)
Owns(own, token, ctx) == <<token, ctx>> \in own

OneOwner(own) ==
    \A token, ctx1, ctx2 :
       Owns(own, token, ctx1) /\ Owns(own, token, ctx2) => ctx1 = ctx2

Fresh(own, token) == \A ctx : ~Owns(own, token, ctx)

(* One more pair, of the given token and a call, or none. *)
Extends(own2, own) == \A token, ctx : Owns(own, token, ctx) => Owns(own2, token, ctx)

Grows(own2, own, token) ==
    /\ Extends(own2, own)
    /\ \A token2, ctx : Owns(own2, token2, ctx) =>
          Owns(own, token2, ctx) \/ (token2 = token /\ ctx \in 1 .. MaxCalls)
    /\ OneOwner(own) /\ Fresh(own, token) => OneOwner(own2)

With(own, token, ctx) == own \cup {<<token, ctx>>}

(* A packet the client sends: a request has the token of its call. *)
SentOK(p, own) ==
    /\ PacketFields \subseteq DOMAIN p /\ p.src = ClientEp
    /\ p.mid \in Mids /\ p.code \in MethodCodes \cup {"Empty"}
    /\ p.code \in MethodCodes => Owns(own, p.token, p.about)
    /\ HasOption(p, "block2") => p.block2.num \in Nat

(* A packet it receives: a response has the token of the call it answers.  *)
HeardOK(m, own) ==
    /\ m.mid \in Mids
    /\ m.code \in MethodCodes \cup ResponseCodes => Owns(own, m.token, m.about)
    /\ IsResponse(m) /\ HasOption(m, "block2") =>
          m.block2.num \in Nat /\ m.data \in Seq(Nat) /\ m.src \in Servers

TransactionOK(x, own) ==
    /\ TransactionRecord(x) /\ x.remote \in Servers /\ x.mid \in Mids
    /\ x.token \in TokenBytes /\ x.retries \in 0 .. MaxRetransmit
    /\ SentOK(x.packet, own) /\ x.packet.code \in MethodCodes

ClientPool(pool, own) ==
    /\ pool = [i \in TxSlots |-> pool[i]]
    /\ \A i \in TxSlots : pool[i] # Free => TransactionOK(pool[i], own)

PendingTable(table, own) ==
    /\ table \in [TxSlots -> PendingEntry \cup {Free}]
    /\ \A i \in TxSlots : table[i] # Free => Owns(own, table[i].token, table[i].ctx)

DiscoverTable(table, own) ==
    /\ table \in [DiscoverSlots -> DiscoverEntry \cup {Free}]
    /\ \A i \in DiscoverSlots : table[i] # Free => Owns(own, table[i].token, table[i].ctx)

(* No answer to another call has reached this one. *)
Right(call, own) == OneOwner(own) => ~call.wrong

CallTable(calls, own) ==
    /\ calls \in [1 .. MaxCalls -> CallRecord]
    /\ \A n \in 1 .. MaxCalls : Right(calls[n], own)

(* Every entry of the tables has the types it should have, and the token   *)
(* of its call; and while a token belongs to one call, no call has got the *)
(* answer to another one.                                                  *)
ClientOK(c, own) ==
    /\ ClientObject(c)
    /\ PendingTable(c.pending, own) /\ ClientPool(c.tx, own)
    /\ DiscoverTable(c.discovers, own) /\ CallTable(c.calls, own)
    /\ c.nextToken \in TokenBytes /\ c.nextMid \in Mids /\ c.issued \in 0 .. MaxCalls
    /\ \A p \in c.out : SentOK(p, own)

LEMMA WithExtends ==
    ASSUME NEW own, NEW token, NEW ctx \in 1 .. MaxCalls
    PROVE  Grows(With(own, token, ctx), own, token) /\ Owns(With(own, token, ctx), token, ctx)
BY DEF Grows, Extends, With, Owns, OneOwner, Fresh

LEMMA NoneAdded == \A own, token : Grows(own, own, token)
BY DEF Grows, Extends

LEMMA ExtendsClientOK ==
    ASSUME NEW own, NEW own2, Extends(own2, own), NEW c, ClientOK(c, own)
    PROVE  ClientOK(c, own2)
<1>1. \A token, ctx : Owns(own, token, ctx) => Owns(own2, token, ctx)
  BY DEF Extends
<1>2. \A p : SentOK(p, own) => SentOK(p, own2)
  BY <1>1 DEF SentOK
<1>3. ClientPool(c.tx, own2)
  BY <1>2 DEF ClientOK, ClientPool, TransactionOK
<1>4. PendingTable(c.pending, own2) /\ DiscoverTable(c.discovers, own2)
  BY <1>1 DEF ClientOK, PendingTable, DiscoverTable
<1>5. OneOwner(own2) => OneOwner(own)
  BY <1>1 DEF OneOwner
<1>6. CallTable(c.calls, own2)
  BY <1>5 DEF ClientOK, CallTable, Right
<1> QED BY <1>2, <1>3, <1>4, <1>6 DEF ClientOK

LEMMA NextIds ==
    /\ \A n \in Mids : (n + 1) % MidMod \in Mids
    /\ \A n \in TokenBytes : (n + 1) % TokenMod \in TokenBytes
BY NetAssumption, ClientAssumption DEF Mids, TokenBytes

LEMMA SlotNumbers == TxSlots \subseteq Nat /\ DiscoverSlots \subseteq Nat
BY PoolAssumption, ClientAssumption DEF TxSlots, DiscoverSlots

LEMMA NextCall ==
    ASSUME NEW own, NEW c, ClientOK(c, own), c.issued < MaxCalls
    PROVE  c.issued + 1 \in 1 .. MaxCalls
BY ClientAssumption DEF ClientOK

(* One slot of the table of pending requests is filled or overwritten. *)
LEMMA PutPending ==
    ASSUME NEW own, NEW table, PendingTable(table, own), NEW i \in TxSlots,
           NEW p, p \in PendingEntry => Owns(own, p.token, p.ctx),
           p \in PendingEntry \cup {Free}
    PROVE  PendingTable([table EXCEPT ![i] = p], own)
<1>1. [table EXCEPT ![i] = p] \in [TxSlots -> PendingEntry \cup {Free}]
  BY DEF PendingTable
<1> QED BY <1>1 DEF PendingTable

LEMMA PutCall ==
    ASSUME NEW own, NEW calls, CallTable(calls, own), NEW n \in 1 .. MaxCalls,
           NEW call \in CallRecord, Right(call, own)
    PROVE  CallTable([calls EXCEPT ![n] = call], own)
BY DEF CallTable

(* Any of the first fields of a Client object may change at a time. *)
LEMMA PendingChange ==
    ASSUME NEW own, NEW c, ClientOK(c, own), NEW table, PendingTable(table, own)
    PROVE  ClientOK([c EXCEPT !.pending = table], own)
BY DEF ClientOK, ClientObject

LEMMA PoolChange ==
    ASSUME NEW own, NEW c, ClientOK(c, own), NEW pool, ClientPool(pool, own)
    PROVE  ClientOK([c EXCEPT !.tx = pool], own)
BY DEF ClientOK, ClientObject

LEMMA CallsChange ==
    ASSUME NEW own, NEW c, ClientOK(c, own), NEW calls, CallTable(calls, own)
    PROVE  ClientOK([c EXCEPT !.calls = calls], own)
BY DEF ClientOK, ClientObject

LEMMA Sends ==
    ASSUME NEW own, NEW c, ClientOK(c, own), NEW pkts, \A p \in pkts : SentOK(p, own)
    PROVE  ClientOK([c EXCEPT !.out = @ \cup pkts], own)
BY DEF ClientOK, ClientObject

(* start() *)
LEMMA TrackOK ==
    ASSUME NEW own, NEW c, ClientOK(c, own), NEW pkt, SentOK(pkt, own),
           pkt.code \in MethodCodes, pkt.dst \in Servers, pkt.token \in TokenBytes
    PROVE  ClientPool(Track(c, pkt), own)
<1> DEFINE x == [remote |-> pkt.dst, mid |-> pkt.mid, token |-> pkt.token,
                 retries |-> 0, packet |-> pkt]
           T == {c.tx[i] : i \in TxSlots} \cup {Free, x}
<1>1. TransactionOK(x, own)
  BY PoolAssumption DEF TransactionOK, TransactionRecord, SentOK
<1>2. Free \in T /\ x \in T
  OBVIOUS
<1>3. c.tx \in [TxSlots -> T]
  BY DEF ClientOK, ClientPool
<1>4. Track(c, pkt) = StartTx(c.tx, x)
  BY DEF Track
<1> HIDE DEF x, T
<1>5. /\ StartTx(c.tx, x) \in [TxSlots -> T]
      /\ \A i \in TxSlots : \/ StartTx(c.tx, x)[i] = c.tx[i]
                            \/ c.tx[i] = Free /\ StartTx(c.tx, x)[i] = x
  BY <1>2, <1>3, StartTxEffect
<1>6. \A i \in TxSlots : StartTx(c.tx, x)[i] # Free => TransactionOK(StartTx(c.tx, x)[i], own)
  BY <1>1, <1>5 DEF ClientOK, ClientPool
<1> QED BY <1>4, <1>5, <1>6 DEF ClientPool
-----------------------------------------------------------------------------
(* Requests.  q is a call of the application, or the deregistering GET.    *)
RequestOK(q) ==
    /\ q.server \in Servers /\ q.path \in Paths /\ q.code \in MethodCodes
    /\ q.con \in BOOLEAN /\ q.observing \in BOOLEAN /\ q.ctx \in 1 .. MaxCalls

LEMMA NoCodeTwice == MethodCodes \cap ResponseCodes = {} /\ "Empty" \notin MethodCodes \cup ResponseCodes
BY DEF MethodCodes, ResponseCodes

(* A packet without options has no Block2 option. *)
LEMMA PlainSent ==
    ASSUME NEW own, NEW p, DOMAIN p = PacketFields, p.src = ClientEp, p.mid \in Mids,
           \/ p.code = "Empty"
           \/ p.code \in MethodCodes /\ Owns(own, p.token, p.about)
    PROVE  SentOK(p, own)
BY DEF SentOK, HasOption, PacketFields, MethodCodes

(* sendRequest() *)
LEMMA SendRequestOK ==
    ASSUME NEW own, NEW c, ClientOK(c, own), NEW q, RequestOK(q), Vacant(c.pending) # {},
           Owns(own, c.nextToken, q.ctx)
    PROVE  ClientOK(SendRequest(c, q), own)
<1> DEFINE pkt == RequestPacket(c, q)
           i   == Min(Vacant(c.pending))
           p   == [server |-> q.server, token |-> c.nextToken, ctx |-> q.ctx,
                   observing |-> q.observing, path |-> q.path,
                   up |-> NoUpload, recv |-> NoDownload,
                   blockServer |-> q.server]
           pending == [c.pending EXCEPT ![i] = p]
           pool    == IF q.con THEN Track(c, pkt) ELSE c.tx
           sent    == c.out \cup {pkt}
<1>1. DOMAIN c.pending = TxSlots /\ ClientObject(c)
  BY DEF ClientOK, PendingTable
<1>2. i \in TxSlots
  BY <1>1, VacantSlot, SlotNumbers DEF Vacant
<1>3. SentOK(pkt, own) /\ pkt.code \in MethodCodes /\ pkt.token \in TokenBytes
  <2>1. /\ DOMAIN pkt = PacketFields /\ pkt.src = ClientEp /\ pkt.mid \in Mids
        /\ pkt.code \in MethodCodes /\ Owns(own, pkt.token, pkt.about)
        /\ pkt.token \in TokenBytes
    BY DEF RequestPacket, PacketFields, ClientOK, RequestOK
  <2> HIDE DEF pkt
  <2> QED BY <2>1, PlainSent
<1>4. p \in PendingEntry /\ Owns(own, p.token, p.ctx)
  BY DEF RequestOK, ClientOK, PendingEntry, NoUpload, NoDownload
<1> HIDE DEF p, i
<1>5. PendingTable(pending, own)
  BY <1>2, <1>4, PutPending DEF ClientOK
<1>6. ClientPool(pool, own)
  <2>1. CASE q.con
    <3>1. pkt.dst \in Servers
      BY DEF RequestPacket, RequestOK
    <3> HIDE DEF pkt
    <3> QED BY <1>3, <2>1, <3>1, TrackOK
  <2>2. CASE ~q.con
    BY <2>2 DEF ClientOK
  <2> QED BY <2>1, <2>2
<1> DEFINE t == SendRequest(c, q)
<1>7. t = [c EXCEPT !.nextToken = (@ + 1) % TokenMod, !.nextMid = (@ + 1) % MidMod,
                    !.pending = pending, !.tx = pool, !.out = sent]
  BY DEF SendRequest, ConsumeIds, p, i
<1> HIDE DEF pkt, t, pending, pool, sent
<1>8. t =
        [pending |-> pending, tx |-> pool, discovers |-> c.discovers,
         nextToken |-> (c.nextToken + 1) % TokenMod, nextMid |-> (c.nextMid + 1) % MidMod,
         issued |-> c.issued, calls |-> c.calls, out |-> sent]
  BY <1>1, <1>7 DEF ClientObject
<1>9. \A x \in sent : SentOK(x, own)
  BY <1>3 DEF ClientOK, sent
<1>10. ClientOK(t, own)
  BY <1>5, <1>6, <1>8, <1>9, NextIds DEF ClientOK, ClientObject
<1> QED BY <1>10 DEF t

(* The end of sendBlock1() and sendBlock2Request() *)
LEMMA SendBlockOK ==
    ASSUME NEW own, NEW c, ClientOK(c, own), NEW pkt, SentOK(pkt, own),
           pkt.code \in MethodCodes, pkt.dst \in Servers, pkt.token \in TokenBytes
    PROVE  ClientOK(SendBlock(c, pkt), own)
<1> DEFINE pool == Track(c, pkt)
           sent == c.out \cup {pkt}
<1>1. ClientPool(pool, own) /\ ClientObject(c)
  BY TrackOK DEF ClientOK
<1> DEFINE t == SendBlock(c, pkt)
<1>2. t = [c EXCEPT !.nextMid = (@ + 1) % MidMod, !.tx = pool, !.out = sent]
  BY DEF SendBlock
<1> HIDE DEF t, pool, sent
<1>3. t =
        [pending |-> c.pending, tx |-> pool, discovers |-> c.discovers,
         nextToken |-> c.nextToken, nextMid |-> (c.nextMid + 1) % MidMod,
         issued |-> c.issued, calls |-> c.calls, out |-> sent]
  BY <1>1, <1>2 DEF ClientObject
<1>4. \A x \in sent : SentOK(x, own)
  BY DEF ClientOK, sent
<1>5. ClientOK(t, own)
  BY <1>1, <1>3, <1>4, NextIds DEF ClientOK, ClientObject
<1> QED BY <1>5 DEF t

LEMMA SendBlock1OK ==
    ASSUME NEW own, NEW c, ClientOK(c, own), NEW i \in TxSlots, c.pending[i] # Free
    PROVE  ClientOK(SendBlock1(c, i), own)
<1> DEFINE p   == c.pending[i]
           blk == Block(p.up.size, p.up.next)
           dat == Slice(Payload(p.ctx, p.up.size), p.up.next)
           pkt == [src |-> ClientEp, dst |-> p.server, type |-> "CON", code |-> "Put",
                   mid |-> c.nextMid, token |-> p.token, obs |-> "none",
                   path |-> p.path, about |-> p.ctx, block1 |-> blk, data |-> dat]
<1>1. p \in PendingEntry /\ Owns(own, p.token, p.ctx) /\ c.nextMid \in Mids
  BY DEF ClientOK, PendingTable
<1> HIDE DEF p, blk, dat
<1>2. /\ SentOK(pkt, own) /\ pkt.code \in MethodCodes
      /\ pkt.dst \in Servers /\ pkt.token \in TokenBytes
  <2>1. /\ DOMAIN pkt = PacketFields \cup {"block1", "data"} /\ pkt.src = ClientEp
        /\ pkt.mid \in Mids /\ pkt.code \in MethodCodes /\ Owns(own, pkt.token, pkt.about)
        /\ pkt.dst \in Servers /\ pkt.token \in TokenBytes
    BY <1>1 DEF PacketFields, PendingEntry, MethodCodes
  <2> HIDE DEF pkt
  <2> QED BY <2>1 DEF SentOK, HasOption, PacketFields
<1>3. SendBlock1(c, i) = SendBlock(c, pkt)
  BY DEF SendBlock1, p, blk, dat
<1> HIDE DEF pkt
<1> QED BY <1>2, <1>3, SendBlockOK

LEMMA SendBlock2RequestOK ==
    ASSUME NEW own, NEW c, ClientOK(c, own), NEW i \in TxSlots, c.pending[i] # Free
    PROVE  ClientOK(SendBlock2Request(c, i), own)
<1> DEFINE p   == c.pending[i]
           pkt == [src |-> ClientEp, dst |-> p.blockServer, type |-> "CON", code |-> "Get",
                   mid |-> c.nextMid, token |-> p.token, obs |-> "none",
                   path |-> p.path, about |-> p.ctx,
                   block2 |-> [num |-> p.recv.next, more |-> FALSE]]
<1>1. p \in PendingEntry /\ Owns(own, p.token, p.ctx) /\ c.nextMid \in Mids
  BY DEF ClientOK, PendingTable
<1> HIDE DEF p
<1>2. /\ SentOK(pkt, own) /\ pkt.code \in MethodCodes
      /\ pkt.dst \in Servers /\ pkt.token \in TokenBytes
  <2>1. /\ DOMAIN pkt = PacketFields \cup {"block2"} /\ pkt.src = ClientEp
        /\ pkt.mid \in Mids /\ pkt.code \in MethodCodes /\ Owns(own, pkt.token, pkt.about)
        /\ pkt.dst \in Servers /\ pkt.token \in TokenBytes /\ pkt.block2.num \in Nat
    BY <1>1 DEF PacketFields, PendingEntry, MethodCodes
  <2> HIDE DEF pkt
  <2> QED BY <2>1 DEF SentOK, PacketFields
<1>3. SendBlock2Request(c, i) = SendBlock(c, pkt)
  BY DEF SendBlock2Request, p
<1> HIDE DEF pkt
<1> QED BY <1>2, <1>3, SendBlockOK

(* put() of more than one block *)
LEMMA UploadOK ==
    ASSUME NEW own, NEW c, ClientOK(c, own), NEW q, RequestOK(q), q.size \in Nat,
           Vacant(c.pending) # {}, Owns(own, c.nextToken, q.ctx)
    PROVE  ClientOK(Upload(c, q), own)
<1> DEFINE i  == Min(Vacant(c.pending))
           p  == [server |-> q.server, token |-> c.nextToken, ctx |-> q.ctx,
                  observing |-> FALSE, path |-> q.path,
                  up |-> [size |-> q.size, next |-> 0], recv |-> NoDownload,
                  blockServer |-> q.server]
           pending == [c.pending EXCEPT ![i] = p]
           c1 == [c EXCEPT !.nextToken = (@ + 1) % TokenMod, !.pending[i] = p]
<1>1. DOMAIN c.pending = TxSlots /\ ClientObject(c)
  BY DEF ClientOK, PendingTable
<1>2. i \in TxSlots
  BY <1>1, VacantSlot, SlotNumbers DEF Vacant
<1>3. p \in PendingEntry /\ Owns(own, p.token, p.ctx)
  BY DEF RequestOK, ClientOK, PendingEntry, NoDownload
<1>4. Upload(c, q) = SendBlock1(c1, i)
  BY DEF Upload
<1> HIDE DEF p, i
<1>5. PendingTable(pending, own)
  BY <1>2, <1>3, PutPending DEF ClientOK
<1>6. c1 = [c EXCEPT !.nextToken = (@ + 1) % TokenMod, !.pending = pending]
  OBVIOUS
<1> HIDE DEF c1
<1>7. c1 = [pending |-> pending, tx |-> c.tx, discovers |-> c.discovers,
            nextToken |-> (c.nextToken + 1) % TokenMod, nextMid |-> c.nextMid,
            issued |-> c.issued, calls |-> c.calls, out |-> c.out]
  BY <1>1, <1>6 DEF ClientObject
<1>8. pending[i] = p /\ p # Free
  BY <1>1, <1>2, <1>3, FreeEntryAssumption
<1> HIDE DEF pending
<1>9. ClientOK(c1, own)
  BY <1>5, <1>7, NextIds DEF ClientOK, ClientObject
<1> QED BY <1>2, <1>4, <1>7, <1>8, <1>9, SendBlock1OK DEF c1

(* The next API call gets its record. *)
LEMMA NumberOK ==
    ASSUME NEW own, NEW c, ClientOK(c, own), c.issued < MaxCalls,
           NEW what \in {"failed", "con", "non", "observe", "discover"}
    PROVE  /\ ClientOK(Number(c, what), own)
           /\ Number(c, what).pending = c.pending /\ Number(c, what).discovers = c.discovers
           /\ Number(c, what).nextToken = c.nextToken
           /\ Number(c, what).nextMid = c.nextMid
           /\ Number(c, what).tx = c.tx /\ Number(c, what).out = c.out
<1> DEFINE n     == c.issued + 1
           call  == [c.calls[n] EXCEPT !.kind = what]
           calls == [c.calls EXCEPT ![n] = call]
           t     == Number(c, what)
<1>1. n \in 1 .. MaxCalls /\ ClientObject(c)
  BY ClientAssumption DEF ClientOK
<1>2. t = [c EXCEPT !.issued = n, !.calls = calls]
  BY DEF Number
<1>3. c.calls[n] \in CallRecord /\ Right(c.calls[n], own)
  BY <1>1 DEF ClientOK, CallTable
<1> HIDE DEF n
<1>4. call \in CallRecord /\ Right(call, own)
  BY <1>3 DEF CallRecord, Right
<1> HIDE DEF call
<1>5. CallTable(calls, own)
  BY <1>1, <1>4, PutCall DEF ClientOK
<1> HIDE DEF calls, t
<1>6. t = [pending |-> c.pending, tx |-> c.tx, discovers |-> c.discovers,
           nextToken |-> c.nextToken, nextMid |-> c.nextMid, issued |-> n,
           calls |-> calls, out |-> c.out]
  BY <1>1, <1>2 DEF ClientObject
<1>7. ClientOK(t, own)
  BY <1>1, <1>5, <1>6 DEF ClientOK, ClientObject
<1> QED BY <1>6, <1>7 DEF t, n, calls, call

(* get(), put(), observe(), for the next token. *)
LEMMA IssueOK ==
    ASSUME NEW own, NEW c, ClientOK(c, own), c.issued < MaxCalls, Vacant(c.pending) # {},
           NEW server \in Servers, NEW path \in Paths,
           NEW kind \in [code : MethodCodes, con : BOOLEAN, observe : BOOLEAN, size : Nat],
           Owns(own, c.nextToken, c.issued + 1)
    PROVE  ClientOK(Issue(c, server, path, kind), own)
<1> DEFINE c0 == Number(c, KindOf(kind))
           n  == c.issued + 1
           call == [c0.calls[n] EXCEPT !.size = kind.size]
           calls == [c0.calls EXCEPT ![n] = call]
           c1 == [c0 EXCEPT !.calls[n].size = kind.size]
           q  == NewRequest(c, server, path, kind)
<1>1. KindOf(kind) \in {"con", "non", "observe"}
  BY DEF KindOf
<1>2. /\ ClientOK(c0, own) /\ c0.pending = c.pending /\ c0.nextToken = c.nextToken
  BY <1>1, NumberOK
<1>3. n \in 1 .. MaxCalls
  BY ClientAssumption DEF ClientOK
<1>4. Issue(c, server, path, kind) = IF kind.size > BlockSize THEN Upload(c1, q)
                                     ELSE SendRequest(c1, q)
  BY DEF Issue
<1>5. RequestOK(q) /\ q.size = kind.size /\ q.ctx = n /\ q.size \in Nat
  BY <1>3 DEF NewRequest, RequestOK
<1> HIDE DEF c0, q
<1>6. c0.calls[n] \in CallRecord /\ Right(c0.calls[n], own)
  BY <1>2, <1>3 DEF ClientOK, CallTable
<1>7. call \in CallRecord /\ Right(call, own)
  BY <1>6 DEF CallRecord, Right
<1>8. c1 = [c0 EXCEPT !.calls = calls]
  OBVIOUS
<1> HIDE DEF call, c1
<1>9. CallTable(calls, own)
  BY <1>2, <1>3, <1>7, PutCall DEF ClientOK
<1> HIDE DEF calls
<1>10. ClientOK(c1, own)
  BY <1>2, <1>8, <1>9, CallsChange
<1>11. c1.pending = c.pending /\ c1.nextToken = c.nextToken
  BY <1>2, <1>8 DEF ClientOK, ClientObject
<1> HIDE DEF n
<1>12. Owns(own, c1.nextToken, q.ctx)
  BY <1>5, <1>11 DEF n
<1> QED BY <1>4, <1>5, <1>10, <1>11, <1>12, UploadOK, SendRequestOK

(* A field of the record of call n. *)
LEMMA CallChange ==
    ASSUME NEW own, NEW c, ClientOK(c, own), NEW n \in 1 .. MaxCalls,
           NEW call, c.calls[n] \in CallRecord /\ Right(c.calls[n], own) =>
                       call \in CallRecord /\ Right(call, own)
    PROVE  ClientOK([c EXCEPT !.calls[n] = call], own)
<1> DEFINE calls == [c.calls EXCEPT ![n] = call]
<1>1. c.calls[n] \in CallRecord /\ Right(c.calls[n], own) /\ CallTable(c.calls, own)
  BY DEF ClientOK, CallTable
<1>2. CallTable(calls, own)
  BY <1>1, PutCall
<1>3. [c EXCEPT !.calls[n] = call] = [c EXCEPT !.calls = calls]
  OBVIOUS
<1> HIDE DEF calls
<1> QED BY <1>2, <1>3, CallsChange

(* cancelObserve(), for the next token. *)
LEMMA SubscriptionSlot ==
    ASSUME NEW own, NEW c, ClientOK(c, own), NEW server, NEW path,
           Subscriptions(c, server, path) # {}
    PROVE  LET i == Min(Subscriptions(c, server, path))
           IN  /\ i \in TxSlots /\ c.pending[i] # Free
               /\ i \in Subscriptions(c, server, path)
               /\ c.pending[i].ctx \in 1 .. MaxCalls
<1> DEFINE i == Min(Subscriptions(c, server, path))
<1>1. i \in Subscriptions(c, server, path)
  <2>1. DOMAIN c.pending \subseteq Nat
    BY SlotNumbers DEF ClientOK, PendingTable
  <2> QED BY <2>1, VacantSlot DEF Subscriptions
<1>2. i \in TxSlots /\ c.pending[i] # Free
  BY <1>1 DEF Subscriptions, Occupied, ClientOK, PendingTable
<1>3. c.pending[i].ctx \in 1 .. MaxCalls
  BY <1>2 DEF ClientOK, PendingTable, PendingEntry
<1> QED BY <1>1, <1>2, <1>3

LEMMA DeregisterOK ==
    ASSUME NEW own, NEW c, ClientOK(c, own), NEW server \in Servers, NEW path \in Paths,
           Subscriptions(c, server, path) # {},
           Owns(own, c.nextToken, c.pending[Min(Subscriptions(c, server, path))].ctx)
    PROVE  ClientOK(Deregister(c, server, path), own)
<1> DEFINE i   == Min(Subscriptions(c, server, path))
           n   == c.pending[i].ctx
           pending == [c.pending EXCEPT ![i] = Free]
           call == [c.calls[n] EXCEPT !.cancelled = TRUE]
           calls == [c.calls EXCEPT ![n] = call]
           c1  == [c EXCEPT !.pending[i] = Free, !.calls[n].cancelled = TRUE]
           q   == [server |-> server, path |-> path, code |-> "Get", con |-> TRUE,
                   obs |-> "deregister", observing |-> FALSE, ctx |-> n]
<1>2. i \in TxSlots /\ c.pending[i] # Free
  BY SubscriptionSlot
<1>3. n \in 1 .. MaxCalls
  BY SubscriptionSlot
<1>4. Deregister(c, server, path) = SendRequest(c1, q)
  BY DEF Deregister
<1> HIDE DEF i, n
<1>5. RequestOK(q) /\ q.ctx = n
  BY <1>3 DEF RequestOK, MethodCodes
<1> HIDE DEF q
<1>6. PendingTable(pending, own) /\ Vacant(pending) # {}
  BY <1>2 DEF ClientOK, PendingTable, Vacant
<1>7. c.calls[n] \in CallRecord /\ Right(c.calls[n], own)
  BY <1>3 DEF ClientOK, CallTable
<1>8. call \in CallRecord /\ Right(call, own)
  BY <1>7 DEF CallRecord, Right
<1>9. CallTable(calls, own)
  BY <1>3, <1>8, PutCall DEF ClientOK
<1>10. c1 = [[c EXCEPT !.pending = pending] EXCEPT !.calls = calls]
  BY DEF ClientOK, ClientObject
<1> HIDE DEF pending, call, calls, c1
<1>11. ClientOK([c EXCEPT !.pending = pending], own)
  BY <1>6, PendingChange
<1>12. ClientOK(c1, own) /\ c1.pending = pending /\ c1.nextToken = c.nextToken
  BY <1>9, <1>10, <1>11, CallsChange DEF ClientOK, ClientObject
<1>13. Owns(own, c1.nextToken, q.ctx)
  BY <1>5, <1>12 DEF n, i
<1> QED BY <1>4, <1>5, <1>6, <1>12, <1>13, SendRequestOK
-----------------------------------------------------------------------------
(* poll().  A handler of the application is called, with the context of a  *)
(* call.                                                                   *)
LEMMA CallTimeoutOK ==
    ASSUME NEW own, NEW c, ClientOK(c, own), NEW n \in 1 .. MaxCalls, NEW times \in Nat
    PROVE  ClientOK([c EXCEPT !.calls[n] = Expire(@, times)], own)
<1>1. ASSUME c.calls[n] \in CallRecord, Right(c.calls[n], own)
      PROVE  Expire(c.calls[n], times) \in CallRecord /\ Right(Expire(c.calls[n], times), own)
  <2>1. Capped(c.calls[n].timeouts + times) \in 0 .. 2
    BY <1>1 DEF Capped, CallRecord
  <2> QED BY <1>1, <2>1 DEF Expire, CallRecord, Right
<1> QED BY <1>1, CallChange

LEMMA CallResponseOK ==
    ASSUME NEW own, NEW c, ClientOK(c, own), NEW n \in 1 .. MaxCalls,
           NEW m, OneOwner(own) => m.about = n
    PROVE  ClientOK(CallResponse(c, n, m), own)
<1>1. ASSUME c.calls[n] \in CallRecord, Right(c.calls[n], own)
      PROVE  /\ Responded(c.calls[n], n, m) \in CallRecord
             /\ Right(Responded(c.calls[n], n, m), own)
  <2>1. Capped(c.calls[n].responses + 1) \in 0 .. 2 /\ Capped(c.calls[n].late + 1) \in 0 .. 2
    BY <1>1 DEF Capped, CallRecord
  <2> QED BY <1>1, <2>1 DEF Responded, CallRecord, Right
<1> QED BY <1>1, CallChange DEF CallResponse

(* A call of the API from a callback, which takes the next token. *)
LEMMA ReactOK ==
    ASSUME NEW own, NEW c, ClientOK(c, own), NEW i \in TxSlots, c.pending[i] # Free, NEW reaction
    PROVE  \E own2 : Grows(own2, own, c.nextToken) /\ ClientOK(React(c, i, reaction), own2)
<1> DEFINE p == c.pending[i]
<1>1. p.server \in Servers /\ p.path \in Paths
  BY DEF ClientOK, PendingTable, PendingEntry
<1>2. CASE reaction = "get" /\ c.issued < MaxCalls /\ Vacant(c.pending) # {}
  <2> DEFINE own2 == With(own, c.nextToken, c.issued + 1)
  <2>1. Grows(own2, own, c.nextToken) /\ Owns(own2, c.nextToken, c.issued + 1)
    BY <1>2, NextCall, WithExtends
  <2> HIDE DEF own2
  <2>2. ClientOK(c, own2)
    BY <2>1, ExtendsClientOK DEF Grows
  <2>3. OneShotGet \in [code : MethodCodes, con : BOOLEAN, observe : BOOLEAN, size : Nat]
    BY DEF OneShotGet, MethodCodes
  <2>4. ClientOK(Issue(c, p.server, p.path, OneShotGet), own2)
    BY <1>1, <1>2, <2>1, <2>2, <2>3, IssueOK
  <2>5. React(c, i, reaction) = Issue(c, p.server, p.path, OneShotGet)
    BY <1>2 DEF React
  <2> QED BY <2>1, <2>4, <2>5
<1>3. CASE reaction = "cancel" /\ Subscriptions(c, p.server, p.path) # {}
  <2> DEFINE n == c.pending[Min(Subscriptions(c, p.server, p.path))].ctx
             own2 == With(own, c.nextToken, n)
  <2>1. Grows(own2, own, c.nextToken) /\ Owns(own2, c.nextToken, n)
    BY <1>3, SubscriptionSlot, WithExtends
  <2> HIDE DEF own2
  <2>2. ClientOK(c, own2)
    BY <2>1, ExtendsClientOK DEF Grows
  <2>3. ClientOK(Deregister(c, p.server, p.path), own2)
    BY <1>1, <1>3, <2>1, <2>2, DeregisterOK
  <2>4. React(c, i, reaction) = Deregister(c, p.server, p.path)
    BY <1>3 DEF React
  <2> QED BY <2>1, <2>3, <2>4
<1>4. CASE /\ ~(reaction = "get" /\ c.issued < MaxCalls /\ Vacant(c.pending) # {})
           /\ ~(reaction = "cancel" /\ Subscriptions(c, p.server, p.path) # {})
  <2>1. React(c, i, reaction) = c
    BY <1>4 DEF React
  <2>2. Grows(own, own, c.nextToken)
    BY NoneAdded
  <2> QED BY <2>1, <2>2
<1> QED BY <1>2, <1>3, <1>4

LEMMA FreesPending ==
    ASSUME NEW own, NEW c, ClientOK(c, own), NEW i \in TxSlots
    PROVE  ClientOK([c EXCEPT !.pending[i] = Free], own)
<1> DEFINE pending == [c.pending EXCEPT ![i] = Free]
<1>1. PendingTable(pending, own)
  BY DEF ClientOK, PendingTable
<1>2. [c EXCEPT !.pending[i] = Free] = [c EXCEPT !.pending = pending]
  OBVIOUS
<1> HIDE DEF pending
<1> QED BY <1>1, <1>2, PendingChange

LEMMA ReleaseOneShotOK ==
    ASSUME NEW own, NEW c, ClientOK(c, own), NEW i \in TxSlots
    PROVE  ClientOK(ReleaseOneShot(c, i), own)
BY FreesPending DEF ReleaseOneShot

(* The response callback for pending slot i. *)
LEMMA AnsweredOK ==
    ASSUME NEW own, NEW c, ClientOK(c, own), NEW i \in TxSlots, c.pending[i] # Free, NEW m,
           OneOwner(own) => m.about = c.pending[i].ctx,
           NEW reaction
    PROVE  \E own2 : Grows(own2, own, c.nextToken) /\ ClientOK(Answered(c, i, m, reaction), own2)
<1> DEFINE c1 == CallResponse(c, c.pending[i].ctx, m)
<1>1. c.pending[i].ctx \in 1 .. MaxCalls
  BY DEF ClientOK, PendingTable, PendingEntry
<1>2. ClientOK(c1, own)
  BY <1>1, CallResponseOK
<1>3. c1.pending = c.pending /\ c1.nextToken = c.nextToken
  BY DEF CallResponse, ClientOK, ClientObject
<1>4. Answered(c, i, m, reaction) = ReleaseOneShot(React(c1, i, reaction), i)
  BY DEF Answered
<1> HIDE DEF c1
<1>5. PICK own2 : Grows(own2, own, c.nextToken) /\ ClientOK(React(c1, i, reaction), own2)
  BY <1>2, <1>3, ReactOK
<1> QED BY <1>4, <1>5, ReleaseOneShotOK

(* 2.31 Continue *)
LEMMA OnContinueOK ==
    ASSUME NEW own, NEW c, ClientOK(c, own), NEW i \in TxSlots, c.pending[i] # Free
    PROVE  ClientOK(OnContinue(c, i), own)
<1> DEFINE p  == c.pending[i]
           p1 == [p EXCEPT !.up.next = @ + 1]
           pending == [c.pending EXCEPT ![i] = p1]
           c1 == [c EXCEPT !.pending[i].up.next = @ + 1]
           c2 == [c1 EXCEPT !.pending[i] = Free]
<1>1. p \in PendingEntry /\ Owns(own, p.token, p.ctx) /\ DOMAIN c.pending = TxSlots
  BY DEF ClientOK, PendingTable
<1>2. c1 = [c EXCEPT !.pending = pending]
  BY DEF ClientOK, ClientObject
<1>3. OnContinue(c, i) = IF Offset(c1.pending[i].up.next) < c1.pending[i].up.size
                         THEN SendBlock1(c1, i) ELSE CallTimeout(c2, p.ctx)
  BY DEF OnContinue
<1> HIDE DEF p, c1
<1>4. p1 \in PendingEntry /\ Owns(own, p1.token, p1.ctx) /\ p.ctx \in 1 .. MaxCalls
  <2> DEFINE up == [p.up EXCEPT !.next = @ + 1]
  <2>1. p.up \in [size : Nat, next : Nat]
    BY <1>1 DEF PendingEntry
  <2>2. up \in [size : Nat, next : Nat]
    BY <2>1
  <2>3. p1 = [p EXCEPT !.up = up]
    OBVIOUS
  <2> HIDE DEF up
  <2> QED BY <1>1, <2>2, <2>3 DEF PendingEntry
<1> HIDE DEF p1
<1>5. PendingTable(pending, own) /\ pending[i] # Free
  BY <1>1, <1>4, PutPending, FreeEntryAssumption DEF ClientOK
<1> HIDE DEF pending
<1>6. ClientOK(c1, own) /\ c1.pending = pending
  BY <1>2, <1>5, PendingChange DEF ClientOK, ClientObject
<1>7. ClientOK(SendBlock1(c1, i), own) /\ ClientOK(c2, own)
  BY <1>5, <1>6, SendBlock1OK, FreesPending
<1> HIDE DEF c2
<1>8. ClientOK(CallTimeout(c2, p.ctx), own)
  BY <1>4, <1>7, CallTimeoutOK DEF CallTimeout
<1> QED BY <1>3, <1>7, <1>8

(* What has been assembled of a body is a sequence of units again. *)
LEMMA CollectedOK ==
    ASSUME NEW recv \in [active : BOOLEAN, next : Nat, data : Seq(Nat)],
           NEW m, m.block2.num \in Nat, m.data \in Seq(Nat)
    PROVE  Collected(recv, m) \in [active : BOOLEAN, next : Nat, data : Seq(Nat)]
<1> DEFINE data == recv.data \o m.data
<1>1. data \in Seq(Nat) /\ Len(data) \in Nat
  OBVIOUS
<1> HIDE DEF data
<1>2. Min({Len(data), MaxBlock2Body}) \in 0 .. Len(data)
  <2>1. PICK n \in {Len(data), MaxBlock2Body} : \A k \in {Len(data), MaxBlock2Body} : n <= k
    BY <1>1, BlockAssumption
  <2>2. /\ Min({Len(data), MaxBlock2Body}) \in {Len(data), MaxBlock2Body}
        /\ \A k \in {Len(data), MaxBlock2Body} : Min({Len(data), MaxBlock2Body}) <= k
    BY <2>1 DEF Min
  <2> QED BY <1>1, <2>2, BlockAssumption
<1> DEFINE n == Min({Len(data), MaxBlock2Body})
           clipped == Clipped(data)
<1>3. clipped = SubSeq(data, 1, n)
  BY DEF Clipped
<1> HIDE DEF n, clipped
<1>4. clipped \in Seq(Nat)
  <2>1. n \in 0 .. Len(data)
    BY <1>2 DEF n
  <2>2. \A k \in 1 .. Len(data) : data[k] \in Nat
    BY <1>1
  <2>3. n \in Int /\ \A k \in 1 .. n : data[k] \in Nat
    BY <1>1, <2>1, <2>2
  <2> QED BY <1>3, <2>3, SubSeqProperties
<1>5. Collected(recv, m) = IF m.block2.num # recv.next THEN [recv EXCEPT !.active = TRUE]
                           ELSE [active |-> TRUE, next |-> recv.next + 1, data |-> clipped]
  BY DEF Collected, data, clipped
<1>6. [recv EXCEPT !.active = TRUE] \in [active : BOOLEAN, next : Nat, data : Seq(Nat)]
  OBVIOUS
<1>7. recv.next + 1 \in Nat
  OBVIOUS
<1> QED BY <1>4, <1>5, <1>6, <1>7

(* The bookkeeping of a transfer in slot i changes, nothing else. *)
WithEntry(c, i, p)   == [c EXCEPT !.pending[i] = p]
WithRecv(c, i, recv) == [c EXCEPT !.pending[i].recv = recv]
WithUp(c, i, up)     == [c EXCEPT !.pending[i].up = up]

LEMMA TransferChange ==
    ASSUME NEW own, NEW c, ClientOK(c, own), NEW i \in TxSlots, c.pending[i] # Free,
           NEW p, p \in PendingEntry, p.ctx = c.pending[i].ctx, p.token = c.pending[i].token
    PROVE  /\ ClientOK(WithEntry(c, i, p), own)
           /\ WithEntry(c, i, p).pending[i] = p /\ p # Free
           /\ WithEntry(c, i, p).nextToken = c.nextToken
<1> DEFINE pending == [c.pending EXCEPT ![i] = p]
<1>1. Owns(own, p.token, p.ctx) /\ DOMAIN c.pending = TxSlots
  BY DEF ClientOK, PendingTable
<1>2. PendingTable(pending, own) /\ pending[i] = p /\ p # Free
  BY <1>1, PutPending, FreeEntryAssumption DEF ClientOK
<1>3. WithEntry(c, i, p) = [c EXCEPT !.pending = pending]
  BY DEF WithEntry
<1> HIDE DEF pending
<1> QED BY <1>2, <1>3, PendingChange DEF ClientOK, ClientObject

LEMMA RecvChange ==
    ASSUME NEW own, NEW c, ClientOK(c, own), NEW i \in TxSlots, c.pending[i] # Free,
           NEW recv \in [active : BOOLEAN, next : Nat, data : Seq(Nat)]
    PROVE  /\ ClientOK(WithRecv(c, i, recv), own)
           /\ WithRecv(c, i, recv).pending[i] # Free
           /\ WithRecv(c, i, recv).pending[i].ctx = c.pending[i].ctx
           /\ WithRecv(c, i, recv).nextToken = c.nextToken
<1> DEFINE p == [c.pending[i] EXCEPT !.recv = recv]
<1>1. c.pending[i] \in PendingEntry
  BY DEF ClientOK, PendingTable
<1>2. p \in PendingEntry /\ p.ctx = c.pending[i].ctx /\ p.token = c.pending[i].token
  BY <1>1 DEF PendingEntry
<1>3. WithRecv(c, i, recv) = WithEntry(c, i, p)
  BY DEF WithRecv, WithEntry
<1> HIDE DEF p
<1> QED BY <1>2, <1>3, TransferChange

(* What FirstBlock() makes of the entry of slot i *)
Sourced(c, i, m) ==
    IF c.pending[i].recv.active THEN c.pending[i]
    ELSE [c.pending[i] EXCEPT !.blockServer = m.src]

LEMMA FirstBlockEntry ==
    ASSUME NEW c, ClientObject(c), c.pending \in [TxSlots -> PendingEntry \cup {Free}],
           NEW i \in TxSlots, c.pending[i] # Free, NEW m, m.src \in Servers
    PROVE  /\ Sourced(c, i, m) \in PendingEntry
           /\ Sourced(c, i, m).ctx = c.pending[i].ctx
           /\ Sourced(c, i, m).token = c.pending[i].token
           /\ Sourced(c, i, m).observing = c.pending[i].observing
           /\ Sourced(c, i, m).path = c.pending[i].path
           /\ Sourced(c, i, m).server = c.pending[i].server
           /\ Sourced(c, i, m).up = c.pending[i].up
           /\ Sourced(c, i, m).recv = c.pending[i].recv
           /\ FirstBlock(c, i, m) = WithEntry(c, i, Sourced(c, i, m))
<1> DEFINE p == c.pending[i]
<1>1. p \in PendingEntry
  OBVIOUS
<1>2. FirstBlock(c, i, m) = WithEntry(c, i, Sourced(c, i, m))
  <2>1. c = WithEntry(c, i, c.pending[i])
    BY DEF WithEntry, ClientObject
  <2> QED BY <2>1 DEF FirstBlock, WithEntry, Sourced
<1> HIDE DEF p
<1>3. p.recv.active => Sourced(c, i, m) = p
  BY DEF Sourced, p
<1>4. ~p.recv.active => Sourced(c, i, m) = [p EXCEPT !.blockServer = m.src]
  BY DEF Sourced, p
<1>5. [p EXCEPT !.blockServer = m.src] \in PendingEntry
  BY <1>1 DEF PendingEntry
<1> DEFINE q == [p EXCEPT !.blockServer = m.src]
<1>6. /\ q.ctx = p.ctx /\ q.token = p.token /\ q.observing = p.observing
      /\ q.path = p.path /\ q.server = p.server /\ q.up = p.up /\ q.recv = p.recv
  BY <1>1 DEF PendingEntry
<1> HIDE DEF q
<1> QED BY <1>1, <1>2, <1>3, <1>4, <1>5, <1>6 DEF p, q

LEMMA FirstBlockOK ==
    ASSUME NEW own, NEW c, ClientOK(c, own), NEW i \in TxSlots, c.pending[i] # Free,
           NEW m, m.src \in Servers
    PROVE  /\ ClientOK(FirstBlock(c, i, m), own)
           /\ FirstBlock(c, i, m).pending[i] # Free
           /\ FirstBlock(c, i, m).pending[i].ctx = c.pending[i].ctx
           /\ FirstBlock(c, i, m).pending[i].token = c.pending[i].token
           /\ FirstBlock(c, i, m).nextToken = c.nextToken
<1>1. ClientObject(c) /\ c.pending \in [TxSlots -> PendingEntry \cup {Free}]
  BY DEF ClientOK, PendingTable
<1> QED BY <1>1, FirstBlockEntry, TransferChange

LEMMA UpChange ==
    ASSUME NEW own, NEW c, ClientOK(c, own), NEW i \in TxSlots, c.pending[i] # Free,
           NEW up \in [size : Nat, next : Nat]
    PROVE  /\ ClientOK(WithUp(c, i, up), own)
           /\ WithUp(c, i, up).pending[i] # Free
           /\ WithUp(c, i, up).pending[i].ctx = c.pending[i].ctx
           /\ WithUp(c, i, up).nextToken = c.nextToken
<1> DEFINE p == [c.pending[i] EXCEPT !.up = up]
<1>1. c.pending[i] \in PendingEntry
  BY DEF ClientOK, PendingTable
<1>2. p \in PendingEntry /\ p.ctx = c.pending[i].ctx /\ p.token = c.pending[i].token
  BY <1>1 DEF PendingEntry
<1>3. WithUp(c, i, up) = WithEntry(c, i, p)
  BY DEF WithUp, WithEntry
<1> HIDE DEF p
<1> QED BY <1>2, <1>3, TransferChange

(* A response with a Block2 option *)
LEMMA OnBlock2OK ==
    ASSUME NEW own, NEW c, ClientOK(c, own), NEW i \in TxSlots, c.pending[i] # Free, NEW m,
           OneOwner(own) => m.about = c.pending[i].ctx,
           m.block2.num \in Nat, m.data \in Seq(Nat), NEW reaction
    PROVE  \E own2 : Grows(own2, own, c.nextToken) /\ ClientOK(OnBlock2(c, i, m, reaction), own2)
<1> DEFINE recv == IF c.pending[i].recv.active THEN c.pending[i].recv ELSE NoDownload
           got  == Collected(recv, m)
           n    == c.pending[i].ctx
           c1   == [c EXCEPT !.pending[i].recv = got]
           c0   == [c EXCEPT !.pending[i].recv = NoDownload]
           call == [c0.calls[n] EXCEPT !.bodies = @ \cup {got.data}]
           c2   == [c EXCEPT !.pending[i].recv = NoDownload,
                             !.calls[n].bodies = @ \cup {got.data}]
<1>1. n \in 1 .. MaxCalls /\ c.pending[i].recv \in [active : BOOLEAN, next : Nat, data : Seq(Nat)]
  BY DEF ClientOK, PendingTable, PendingEntry
<1>2. NoDownload \in [active : BOOLEAN, next : Nat, data : Seq(Nat)]
  BY DEF NoDownload
<1>3. recv \in [active : BOOLEAN, next : Nat, data : Seq(Nat)]
  BY <1>1, <1>2
<1>4. OnBlock2(c, i, m, reaction) =
        IF m.block2.more THEN SendBlock2Request(c1, i) ELSE Answered(c2, i, m, reaction)
  BY DEF OnBlock2
<1> HIDE DEF recv, n
<1>5. got \in [active : BOOLEAN, next : Nat, data : Seq(Nat)]
  BY <1>3, CollectedOK
<1> HIDE DEF got
<1>6. c1 = WithRecv(c, i, got) /\ c0 = WithRecv(c, i, NoDownload)
  BY DEF WithRecv
<1>8. c2 = [c0 EXCEPT !.calls[n] = call]
  BY DEF ClientOK, ClientObject
<1> HIDE DEF c0, c1, c2
<1>14. ClientOK(SendBlock2Request(c1, i), own)
  BY <1>5, <1>6, RecvChange, SendBlock2RequestOK
<1>7. /\ ClientOK(c0, own) /\ c0.pending[i] # Free
      /\ c0.pending[i].ctx = n /\ c0.nextToken = c.nextToken
  BY <1>2, <1>6, RecvChange DEF n
<1>9. c0.calls[n] \in CallRecord /\ Right(c0.calls[n], own) => call \in CallRecord /\ Right(call, own)
  <2> DEFINE bodies == c0.calls[n].bodies \cup {got.data}
  <2>1. ASSUME c0.calls[n] \in CallRecord PROVE bodies \in SUBSET Seq(Nat)
    BY <2>1, <1>5 DEF CallRecord
  <2>2. call = [c0.calls[n] EXCEPT !.bodies = bodies]
    OBVIOUS
  <2> HIDE DEF bodies
  <2> QED BY <2>1, <2>2 DEF CallRecord, Right
<1> HIDE DEF call
<1>10. ClientOK(c2, own)
  BY <1>1, <1>7, <1>8, <1>9, CallChange
<1>11. c2.pending = c0.pending /\ c2.nextToken = c0.nextToken
  BY <1>7, <1>8 DEF ClientOK, ClientObject
<1>12. \E own2 : Grows(own2, own, c.nextToken) /\ ClientOK(Answered(c2, i, m, reaction), own2)
  BY <1>7, <1>10, <1>11, AnsweredOK DEF n
<1>13. Grows(own, own, c.nextToken)
  BY NoneAdded
<1> QED BY <1>4, <1>14, <1>12, <1>13

(* A response that matches pending slot i *)
LEMMA OnMatchedOK ==
    ASSUME NEW own, NEW c, ClientOK(c, own), NEW i \in TxSlots, c.pending[i] # Free, NEW m,
           OneOwner(own) => m.about = c.pending[i].ctx,
           HeardOK(m, own), IsResponse(m), NEW reaction
    PROVE  \E own2 : Grows(own2, own, c.nextToken) /\ ClientOK(OnMatched(c, i, m, reaction), own2)
<1> DEFINE c1 == [c EXCEPT !.pending[i].up = NoUpload]
           c2 == FirstBlock(c1, i, m)
<1>1. c1 = WithUp(c, i, NoUpload) /\ NoUpload \in [size : Nat, next : Nat]
  BY DEF WithUp, NoUpload
<1>2. OnMatched(c, i, m, reaction) =
        IF m.code = "Continue" /\ c.pending[i].up # NoUpload THEN OnContinue(c, i)
        ELSE IF HasOption(m, "block2") THEN OnBlock2(c2, i, m, reaction)
        ELSE Answered(c1, i, m, reaction)
  BY DEF OnMatched
<1> HIDE DEF c1, c2
<1>3. /\ ClientOK(c1, own) /\ c1.pending[i] # Free
      /\ c1.pending[i].ctx = c.pending[i].ctx /\ c1.nextToken = c.nextToken
  BY <1>1, UpChange
<1>4. CASE m.code = "Continue" /\ c.pending[i].up # NoUpload
  BY <1>2, <1>4, OnContinueOK, NoneAdded
<1>5. CASE ~(m.code = "Continue" /\ c.pending[i].up # NoUpload) /\ HasOption(m, "block2")
  <2>1. m.block2.num \in Nat /\ m.data \in Seq(Nat) /\ m.src \in Servers
    BY <1>5 DEF HeardOK
  <2>2. /\ ClientOK(c2, own) /\ c2.pending[i] # Free
        /\ c2.pending[i].ctx = c.pending[i].ctx /\ c2.nextToken = c.nextToken
    BY <1>3, <2>1, FirstBlockOK DEF c2
  <2>3. \E own2 : Grows(own2, own, c.nextToken) /\ ClientOK(OnBlock2(c2, i, m, reaction), own2)
    BY <2>1, <2>2, OnBlock2OK
  <2> QED BY <1>2, <1>5, <2>3
<1>6. CASE ~(m.code = "Continue" /\ c.pending[i].up # NoUpload) /\ ~HasOption(m, "block2")
  <2>1. \E own2 : Grows(own2, own, c.nextToken) /\ ClientOK(Answered(c1, i, m, reaction), own2)
    BY <1>3, AnsweredOK
  <2> QED BY <1>2, <1>6, <2>1
<1> QED BY <1>4, <1>5, <1>6

(* The lowest slot of a table with some property. *)
LEMMA FirstOf ==
    ASSUME NEW own, NEW c, ClientOK(c, own), NEW token
    PROVE  /\ PendingByToken(c, token) # {} =>
                 /\ Min(PendingByToken(c, token)) \in TxSlots
                 /\ c.pending[Min(PendingByToken(c, token))] # Free
                 /\ c.pending[Min(PendingByToken(c, token))].token = token
           /\ DiscoverByToken(c, token) # {} =>
                 /\ Min(DiscoverByToken(c, token)) \in DiscoverSlots
                 /\ c.discovers[Min(DiscoverByToken(c, token))] # Free
                 /\ c.discovers[Min(DiscoverByToken(c, token))].token = token
<1>1. DOMAIN c.pending = TxSlots /\ DOMAIN c.discovers = DiscoverSlots
  BY DEF ClientOK, PendingTable, DiscoverTable
<1>2. /\ PendingByToken(c, token) \in SUBSET Occupied(c.pending)
      /\ DiscoverByToken(c, token) \in SUBSET Occupied(c.discovers)
  BY DEF PendingByToken, DiscoverByToken
<1>3. /\ PendingByToken(c, token) # {} =>
           Min(PendingByToken(c, token)) \in PendingByToken(c, token)
      /\ DiscoverByToken(c, token) # {} =>
           Min(DiscoverByToken(c, token)) \in DiscoverByToken(c, token)
  BY <1>1, <1>2, SlotNumbers, VacantSlot
<1> QED BY <1>1, <1>3 DEF PendingByToken, DiscoverByToken, Occupied

LEMMA AckSent ==
    ASSUME NEW own, NEW m, HeardOK(m, own)
    PROVE  SentOK(EmptyAck(ClientEp, m.src, m.mid), own)
<1> DEFINE ack == EmptyAck(ClientEp, m.src, m.mid)
<1>1. /\ DOMAIN ack = PacketFields /\ ack.src = ClientEp /\ ack.mid \in Mids
      /\ ack.code = "Empty"
  BY DEF EmptyAck, PacketFields, HeardOK
<1> HIDE DEF ack
<1>2. SentOK(ack, own)
  BY <1>1, PlainSent
<1> QED BY <1>2 DEF ack

LEMMA OnResponseOK ==
    ASSUME NEW own, NEW c, ClientOK(c, own), NEW m, HeardOK(m, own), IsResponse(m), NEW reaction
    PROVE  \E own2 : Grows(own2, own, c.nextToken) /\ ClientOK(OnResponse(c, m, reaction), own2)
<1> DEFINE ack == EmptyAck(ClientEp, m.src, m.mid)
           c1  == IF m.type = "CON" THEN [c EXCEPT !.out = @ \cup {ack}] ELSE c
           d   == Min(DiscoverByToken(c1, m.token))
           i   == Min(PendingByToken(c1, m.token))
<1>1. SentOK(ack, own)
  BY AckSent
<1>2. OnResponse(c, m, reaction) =
        IF DiscoverByToken(c1, m.token) # {} THEN CallResponse(c1, c1.discovers[d].ctx, m)
        ELSE IF PendingByToken(c1, m.token) # {} THEN OnMatched(c1, i, m, reaction)
        ELSE c1
  BY DEF OnResponse
<1> HIDE DEF ack
<1>3. ClientOK(c1, own) /\ c1.nextToken = c.nextToken
  <2>1. \A p \in {ack} : SentOK(p, own)
    BY <1>1
  <2>2. ClientOK([c EXCEPT !.out = @ \cup {ack}], own)
    BY <2>1, Sends
  <2> QED BY <2>2 DEF ClientOK, ClientObject
<1> HIDE DEF c1, d, i
<1>4. CASE DiscoverByToken(c1, m.token) # {}
  <2>1. d \in DiscoverSlots /\ c1.discovers[d] # Free /\ c1.discovers[d].token = m.token
    BY <1>3, <1>4, FirstOf DEF d
  <2>2. /\ c1.discovers[d].ctx \in 1 .. MaxCalls
        /\ Owns(own, m.token, c1.discovers[d].ctx)
    BY <1>3, <2>1 DEF ClientOK, DiscoverTable, DiscoverEntry
  <2>3. OneOwner(own) => m.about = c1.discovers[d].ctx
    BY <2>2 DEF HeardOK, IsResponse, OneOwner
  <2>4. ClientOK(CallResponse(c1, c1.discovers[d].ctx, m), own)
    BY <1>3, <2>2, <2>3, CallResponseOK
  <2> QED BY <1>2, <1>4, <2>4, NoneAdded
<1>5. CASE DiscoverByToken(c1, m.token) = {} /\ PendingByToken(c1, m.token) # {}
  <2>1. i \in TxSlots /\ c1.pending[i] # Free /\ c1.pending[i].token = m.token
    BY <1>3, <1>5, FirstOf DEF i
  <2>2. Owns(own, m.token, c1.pending[i].ctx)
    BY <1>3, <2>1 DEF ClientOK, PendingTable
  <2>3. OneOwner(own) => m.about = c1.pending[i].ctx
    BY <2>2 DEF HeardOK, IsResponse, OneOwner
  <2>4. \E own2 : Grows(own2, own, c.nextToken) /\ ClientOK(OnMatched(c1, i, m, reaction), own2)
    BY <1>3, <2>1, <2>3, OnMatchedOK
  <2> QED BY <1>2, <1>5, <2>4
<1>6. CASE DiscoverByToken(c1, m.token) = {} /\ PendingByToken(c1, m.token) = {}
  BY <1>2, <1>3, <1>6, NoneAdded
<1> QED BY <1>4, <1>5, <1>6

(* complete() *)
LEMMA CompleteTxOK ==
    ASSUME NEW own, NEW c, ClientOK(c, own), NEW remote, NEW mid
    PROVE  ClientOK([c EXCEPT !.tx = CompleteTx(@, remote, mid)], own)
<1> DEFINE matches == SlotsByMid(c.tx, remote, mid)
           T    == {c.tx[i] : i \in TxSlots} \cup {Free}
           pool == CompleteTx(c.tx, remote, mid)
<1>1. pool = FreeFirst(c.tx, matches) /\ matches \in SUBSET TxSlots
  BY DEF CompleteTx, SlotsByMid, InFlight
<1>2. Free \in T /\ c.tx \in [TxSlots -> T]
  BY DEF ClientOK, ClientPool
<1> HIDE DEF T, matches, pool
<1>3. /\ pool \in [TxSlots -> T]
      /\ \A i \in TxSlots : pool[i] = c.tx[i] \/ pool[i] = Free
  BY <1>1, <1>2, FreeFirstEffect
<1>4. ClientPool(pool, own)
  BY <1>3 DEF ClientOK, ClientPool
<1> QED BY <1>4, PoolChange DEF pool

(* What poll() does with a packet that is not a Reset *)
LEMMA OnPacketOK ==
    ASSUME NEW own, NEW c, ClientOK(c, own), NEW m, HeardOK(m, own), NEW reaction
    PROVE  \E own2 : Grows(own2, own, c.nextToken) /\ ClientOK(OnPacket(c, m, reaction), own2)
<1> DEFINE c1 == IF m.type = "ACK" THEN [c EXCEPT !.tx = CompleteTx(@, m.src, m.mid)] ELSE c
<1>1. ClientOK(c1, own)
  BY CompleteTxOK
<1>2. c1.nextToken = c.nextToken
  BY DEF ClientOK, ClientObject
<1>3. OnPacket(c, m, reaction) = IF IsResponse(m) THEN OnResponse(c1, m, reaction) ELSE c1
  BY DEF OnPacket
<1> HIDE DEF c1
<1>4. CASE IsResponse(m)
  BY <1>1, <1>2, <1>3, <1>4, OnResponseOK
<1>5. CASE ~IsResponse(m)
  BY <1>1, <1>3, <1>5, NoneAdded
<1> QED BY <1>4, <1>5

(* A Reset *)
LEMMA OnResetOK ==
    ASSUME NEW own, NEW c, ClientOK(c, own), NEW m
    PROVE  ClientOK(OnReset(c, m), own)
<1> DEFINE slots == UNION {PendingByToken(c, token) : token \in GetToken(c.tx, m.src, m.mid)}
           c1 == [c EXCEPT !.tx = CompleteTx(@, m.src, m.mid)]
           i  == Min(slots)
           n  == c1.pending[i].ctx
           c2 == [c1 EXCEPT !.pending[i] = Free]
<1>1. OnReset(c, m) = IF slots = {} THEN c1 ELSE CallTimeout(c2, n)
  BY DEF OnReset
<1>2. ClientOK(c1, own) /\ c1.pending = c.pending
  <2>1. ClientOK(c1, own)
    BY CompleteTxOK
  <2> QED BY <2>1 DEF ClientOK, ClientObject
<1>3. slots # {} => i \in slots
  <2>1. slots \subseteq Occupied(c.pending) /\ DOMAIN c.pending \subseteq Nat
    BY SlotNumbers DEF PendingByToken, ClientOK, PendingTable
  <2> HIDE DEF slots
  <2> QED BY <2>1, VacantSlot
<1>4. slots # {} => i \in TxSlots /\ c.pending[i] # Free
  BY <1>3 DEF PendingByToken, Occupied, ClientOK, PendingTable
<1> HIDE DEF slots, i, c1
<1>5. slots # {} => n \in 1 .. MaxCalls
  BY <1>2, <1>4 DEF ClientOK, PendingTable, PendingEntry
<1>6. slots # {} => ClientOK(c2, own)
  <2>1. \A k \in TxSlots : ClientOK([c1 EXCEPT !.pending[k] = Free], own)
    BY <1>2, FreesPending
  <2> QED BY <1>4, <2>1
<1> HIDE DEF n, c2
<1>7. slots # {} => ClientOK(CallTimeout(c2, n), own)
  BY <1>5, <1>6, CallTimeoutOK DEF CallTimeout
<1> QED BY <1>1, <1>2, <1>7

(* Discoveries run out. *)
LEMMA ExpireDiscoversOK ==
    ASSUME NEW own, NEW c, ClientOK(c, own), NEW gone
    PROVE  ClientOK(ExpireDiscovers(c, gone), own)
<1> DEFINE table == [i \in DiscoverSlots |-> IF i \in gone THEN Free ELSE c.discovers[i]]
           t == ExpireDiscovers(c, gone)
<1>1. DiscoverTable(table, own)
  BY DEF ClientOK, DiscoverTable
<1>2. t = [c EXCEPT !.discovers = table]
  BY DEF ExpireDiscovers
<1> HIDE DEF table, t
<1>3. t = [pending |-> c.pending, tx |-> c.tx, discovers |-> table,
           nextToken |-> c.nextToken, nextMid |-> c.nextMid, issued |-> c.issued,
           calls |-> c.calls, out |-> c.out]
  BY <1>2 DEF ClientOK, ClientObject
<1>4. ClientOK(t, own)
  BY <1>1, <1>3 DEF ClientOK, ClientObject
<1> QED BY <1>4 DEF t

(* tick() of the client's pool *)
LEMMA TickTxOK ==
    ASSUME NEW own, NEW pool, ClientPool(pool, own), NEW due \in SUBSET InFlight(pool)
    PROVE  /\ ClientPool(TickTx(pool, due), own)
           /\ \A i \in Resent(pool, due) : SentOK(pool[i].packet, own)
<1> DEFINE pool2 == TickTx(pool, due)
<1>1. Resent(pool, due) \cap Expired(pool, due) = {}
  <2> SUFFICES ASSUME NEW i \in due PROVE ~(i \in Resent(pool, due) /\ i \in Expired(pool, due))
    BY DEF Resent, Expired
  <2>1. pool[i].retries \in Nat
    BY DEF InFlight, ClientPool, TransactionOK
  <2> QED BY <2>1, PoolAssumption DEF Resent, Expired
<1>2. ASSUME NEW i \in TxSlots
      PROVE  pool2[i] # Free => TransactionOK(pool2[i], own)
  <2>1. CASE i \in Resent(pool, due)
    <3> DEFINE x == pool[i]
    <3>1. TransactionOK(x, own) /\ x.retries < MaxRetransmit
      BY <2>1 DEF Resent, InFlight, ClientPool
    <3>2. pool2[i] = RetryCounted(x)
      BY <1>1, <2>1 DEF TickTx
    <3> HIDE DEF x
    <3>3. RetryCounted(x) = [remote |-> x.remote, mid |-> x.mid, token |-> x.token,
                             retries |-> x.retries + 1, packet |-> x.packet]
      BY <3>1 DEF TransactionOK, TransactionRecord, RetryCounted
    <3>4. x.retries + 1 \in 0 .. MaxRetransmit
      BY <3>1, PoolAssumption DEF TransactionOK
    <3> DEFINE y == RetryCounted(x)
    <3>7. y = [remote |-> x.remote, mid |-> x.mid, token |-> x.token,
               retries |-> x.retries + 1, packet |-> x.packet]
      BY <3>3
    <3> HIDE DEF y
    <3>6. /\ y.remote = x.remote /\ y.mid = x.mid /\ y.token = x.token
          /\ y.retries = x.retries + 1 /\ y.packet = x.packet
      BY <3>7
    <3>8. TransactionRecord(y)
      BY <3>6, <3>7 DEF TransactionRecord
    <3>5. TransactionOK(RetryCounted(x), own)
      BY <3>1, <3>4, <3>6, <3>8 DEF TransactionOK, y
    <3> QED BY <3>2, <3>5
  <2>2. CASE i \notin Resent(pool, due) /\ i \in Expired(pool, due)
    BY <2>2, <1>1 DEF TickTx
  <2>3. CASE i \notin Resent(pool, due) /\ i \notin Expired(pool, due)
    <3>1. pool2[i] = pool[i]
      BY <2>3 DEF TickTx
    <3> QED BY <3>1 DEF ClientPool
  <2> QED BY <2>1, <2>2, <2>3
<1>3. pool2 = [i \in TxSlots |-> pool2[i]]
  BY DEF TickTx
<1>4. \A i \in Resent(pool, due) : SentOK(pool[i].packet, own)
  BY DEF Resent, InFlight, ClientPool, TransactionOK
<1> HIDE DEF pool2
<1>5. ClientPool(pool2, own)
  BY <1>2, <1>3 DEF ClientPool
<1> QED BY <1>4, <1>5 DEF pool2

(* transactions_.tick() with its callbacks *)
LEMMA TickOK ==
    ASSUME NEW own, NEW c, ClientOK(c, own), NEW due \in SUBSET InFlight(c.tx)
    PROVE  ClientOK(Tick(c, due), own)
<1> DEFINE ended == TimedOut(c, due)
           pool  == TickTx(c.tx, due)
           table == [i \in TxSlots |-> IF i \in ended THEN Free ELSE c.pending[i]]
           times(n) == Cardinality({i \in ended : c.pending[i].ctx = n})
           calls == [n \in 1 .. MaxCalls |-> Expire(c.calls[n], times(n))]
           sent  == c.out \cup {c.tx[i].packet : i \in Resent(c.tx, due)}
           t     == Tick(c, due)
<1>1. ClientPool(pool, own) /\ \A p \in sent : SentOK(p, own)
  BY TickTxOK DEF ClientOK
<1>2. t = [c EXCEPT !.tx = pool, !.pending = table, !.calls = calls, !.out = sent]
  BY DEF Tick
<1>3. ended \subseteq TxSlots
  BY DEF TimedOut, Occupied, ClientOK, PendingTable
<1> HIDE DEF ended, pool, sent, t
<1>4. PendingTable(table, own)
  BY DEF ClientOK, PendingTable
<1>5. ASSUME NEW n \in 1 .. MaxCalls
      PROVE  Expire(c.calls[n], times(n)) \in CallRecord /\ Right(Expire(c.calls[n], times(n)), own)
  <2>1. IsFiniteSet(TxSlots)
    BY PoolAssumption, FS_Interval DEF TxSlots
  <2>2. {i \in ended : c.pending[i].ctx = n} \subseteq TxSlots
    BY <1>3
  <2>3. times(n) \in Nat
    BY <2>1, <2>2, FS_Subset, FS_CardinalityType
  <2> HIDE DEF times
  <2>4. c.calls[n] \in CallRecord /\ Right(c.calls[n], own)
    BY DEF ClientOK, CallTable
  <2>5. Capped(c.calls[n].timeouts + times(n)) \in 0 .. 2
    BY <2>3, <2>4 DEF Capped, CallRecord
  <2> QED BY <2>4, <2>5 DEF Expire, CallRecord, Right
<1> HIDE DEF times
<1>6. CallTable(calls, own)
  BY <1>5 DEF CallTable
<1> HIDE DEF table, calls
<1>7. t = [pending |-> table, tx |-> pool, discovers |-> c.discovers,
           nextToken |-> c.nextToken, nextMid |-> c.nextMid, issued |-> c.issued,
           calls |-> calls, out |-> sent]
  BY <1>2 DEF ClientOK, ClientObject
<1>8. ClientOK(t, own)
  BY <1>1, <1>4, <1>6, <1>7 DEF ClientOK, ClientObject
<1> QED BY <1>8 DEF t

LEMMA FinishPollOK ==
    ASSUME NEW own, NEW c, ClientOK(c, own), NEW gone, NEW due \in SUBSET InFlight(c.tx)
    PROVE  ClientOK(FinishPoll(c, gone, due), own)
<1>1. ClientOK(ExpireDiscovers(c, gone), own)
  BY ExpireDiscoversOK
<1>2. ExpireDiscovers(c, gone).tx = c.tx
  BY DEF ExpireDiscovers, ClientOK, ClientObject
<1> QED BY <1>1, <1>2, TickOK DEF FinishPoll
-----------------------------------------------------------------------------
(* The network.  Responses in it have the token and the call of a request. *)
PacketsOK(packets, own) == \A m \in packets : HeardOK(m, own)

LEMMA CarryOK ==
    ASSUME NEW own, NEW own2, Extends(own2, own), NEW packets, PacketsOK(packets, own),
           NEW out, \A p \in out : SentOK(p, own2)
    PROVE  PacketsOK(Carry(packets, out), own2) /\ PacketsOK(packets, own2)
<1>1. \A m : HeardOK(m, own) => HeardOK(m, own2)
  BY DEF Extends, HeardOK
<1>2. \A m : SentOK(m, own2) => HeardOK(m, own2)
  BY NoCodeTwice DEF SentOK, HeardOK, IsResponse
<1> QED BY <1>1, <1>2 DEF PacketsOK, Carry

(* What is new in the network was sent by the client. *)
OnlySent(own) == \A m \in net' : m \in net \/ SentOK(m, own)

(* What a method has collected in out is handed to the network, after      *)
(* packet m has been taken from it or not.                                 *)
LEMMA Departs ==
    ASSUME NEW own, PacketsOK(net, own), NEW c, NEW own2, Grows(own2, own, cl.nextToken),
           ClientOK(c, own2), cl' = [c EXCEPT !.out = {}],
           \/ Transmit(c.out)
           \/ \E m : Deliver(m, c.out)
    PROVE  ClientOK(cl', own2) /\ cl'.out = {} /\ PacketsOK(net', own2) /\ OnlySent(own2)
<1>1. ClientOK(cl', own2) /\ cl'.out = {}
  BY DEF ClientOK, ClientObject
<1>2. \A p \in c.out : SentOK(p, own2)
  BY DEF ClientOK
<1>3. Extends(own2, own)
  BY DEF Grows
<1>4. \A packets : PacketsOK(packets, own) => PacketsOK(Carry(packets, c.out), own2)
  BY <1>2, <1>3, CarryOK
<1>5. PICK packets : packets \subseteq net /\ net' = Carry(packets, c.out)
  BY DEF Transmit, Deliver
<1>6. PacketsOK(packets, own)
  BY <1>5 DEF PacketsOK
<1>7. OnlySent(own2)
  BY <1>2, <1>5 DEF OnlySent, Carry
<1> QED BY <1>1, <1>4, <1>5, <1>6, <1>7

LEMMA ConsumeIdsOK ==
    ASSUME NEW own, NEW c, ClientOK(c, own)
    PROVE  /\ ClientOK(ConsumeIds(c), own)
           /\ ConsumeIds(c).pending = c.pending /\ ConsumeIds(c).discovers = c.discovers
           /\ ConsumeIds(c).calls = c.calls /\ ConsumeIds(c).issued = c.issued
           /\ ConsumeIds(c).out = c.out
<1> DEFINE t == ConsumeIds(c)
<1>1. t = [c EXCEPT !.nextToken = (@ + 1) % TokenMod, !.nextMid = (@ + 1) % MidMod]
  BY DEF ConsumeIds
<1>2. ClientObject(c)
  BY DEF ClientOK
<1> HIDE DEF t
<1>3. t = [pending |-> c.pending, tx |-> c.tx, discovers |-> c.discovers,
           nextToken |-> (c.nextToken + 1) % TokenMod, nextMid |-> (c.nextMid + 1) % MidMod,
           issued |-> c.issued, calls |-> c.calls, out |-> c.out]
  BY <1>1, <1>2 DEF ClientObject
<1>4. ClientOK(t, own)
  BY <1>3, NextIds DEF ClientOK, ClientObject
<1> QED BY <1>3, <1>4 DEF t
-----------------------------------------------------------------------------
(* The actions.  Each may put one more token to use, the next one.         *)
ClientTablesOK(own) ==
    ClientOK(cl, own) /\ cl.out = {} /\ PacketsOK(net, own)

Preserved(own) ==
    \E own2 : Grows(own2, own, cl.nextToken) /\ ClientTablesOK(own2)' /\ OnlySent(own2)

LEMMA CallApiStep ==
    ASSUME NEW own, ClientTablesOK(own), CallApi
    PROVE  Preserved(own)
<1>1. cl.issued < MaxCalls /\ Vacant(cl.pending) # {}
  BY DEF CallApi
<1>2. PICK server \in Servers : \E path \in Paths, kind \in RequestKinds :
         LET c == Issue(cl, server, path, kind)
         IN  cl' = [c EXCEPT !.out = {}] /\ Transmit(c.out)
  BY DEF CallApi
<1>3. PICK path \in Paths : \E kind \in RequestKinds :
         LET c == Issue(cl, server, path, kind)
         IN  cl' = [c EXCEPT !.out = {}] /\ Transmit(c.out)
  BY <1>2
<1>4. PICK kind \in RequestKinds :
         LET c == Issue(cl, server, path, kind)
         IN  cl' = [c EXCEPT !.out = {}] /\ Transmit(c.out)
  BY <1>3
<1> DEFINE c == Issue(cl, server, path, kind)
           own2 == With(own, cl.nextToken, cl.issued + 1)
<1>5. cl' = [c EXCEPT !.out = {}] /\ Transmit(c.out)
  BY <1>4
<1>6. Grows(own2, own, cl.nextToken) /\ Owns(own2, cl.nextToken, cl.issued + 1)
  BY <1>1, NextCall, WithExtends DEF ClientTablesOK
<1>7. ClientOK(cl, own2)
  BY <1>6, ExtendsClientOK DEF Grows, ClientTablesOK
<1> HIDE DEF own2
<1>8. kind \in [code : MethodCodes, con : BOOLEAN, observe : BOOLEAN, size : Nat]
  BY ClientAssumption
<1>9. ClientOK(c, own2)
  BY <1>1, <1>6, <1>7, <1>8, IssueOK
<1> HIDE DEF c
<1>10. ClientOK(cl', own2) /\ cl'.out = {} /\ PacketsOK(net', own2) /\ OnlySent(own2)
  BY <1>5, <1>6, <1>9, Departs DEF ClientTablesOK
<1> QED BY <1>6, <1>10 DEF Preserved, ClientTablesOK

LEMMA CallApiFailsStep ==
    ASSUME NEW own, ClientTablesOK(own), CallApiFails
    PROVE  Preserved(own)
<1> DEFINE c == ConsumeIds(cl)
<1>1. cl' = Number(c, "failed") /\ cl.issued < MaxCalls /\ net' = net
  BY DEF CallApiFails, netVars
<1>2. ClientOK(c, own) /\ c.issued = cl.issued /\ c.out = {}
  BY ConsumeIdsOK DEF ClientTablesOK
<1> HIDE DEF c
<1>3. ClientOK(cl', own) /\ cl'.out = {}
  BY <1>1, <1>2, NumberOK
<1>4. PacketsOK(net', own) /\ OnlySent(own)
  BY <1>1 DEF ClientTablesOK, OnlySent
<1> QED BY <1>3, <1>4, NoneAdded DEF Preserved, ClientTablesOK

LEMMA CancelObserveStep ==
    ASSUME NEW own, ClientTablesOK(own), NEW server \in Servers, NEW path \in Paths,
           CancelObserve(server, path)
    PROVE  Preserved(own)
<1> DEFINE c == Deregister(cl, server, path)
           n == cl.pending[Min(Subscriptions(cl, server, path))].ctx
           own2 == With(own, cl.nextToken, n)
<1>1. /\ Subscriptions(cl, server, path) # {}
      /\ cl' = [c EXCEPT !.out = {}] /\ Transmit(c.out)
  BY DEF CancelObserve
<1>2. Grows(own2, own, cl.nextToken) /\ Owns(own2, cl.nextToken, n)
  BY <1>1, SubscriptionSlot, WithExtends DEF ClientTablesOK
<1>3. ClientOK(cl, own2)
  BY <1>2, ExtendsClientOK DEF Grows, ClientTablesOK
<1> HIDE DEF own2
<1>4. ClientOK(c, own2)
  BY <1>1, <1>2, <1>3, DeregisterOK
<1> HIDE DEF c
<1>5. ClientOK(cl', own2) /\ cl'.out = {} /\ PacketsOK(net', own2) /\ OnlySent(own2)
  <2>1. PacketsOK(net, own)
    BY DEF ClientTablesOK
  <2>2. cl' = [c EXCEPT !.out = {}] /\ Transmit(c.out)
    BY <1>1
  <2>3. Grows(own2, own, cl.nextToken)
    BY <1>2
  <2> QED BY <1>4, <2>1, <2>2, <2>3, Departs
<1> QED BY <1>2, <1>5 DEF Preserved, ClientTablesOK

LEMMA CancelObserveFailsStep ==
    ASSUME NEW own, ClientTablesOK(own), NEW server \in Servers, NEW path \in Paths,
           CancelObserveFails(server, path)
    PROVE  Preserved(own)
<1> DEFINE i  == Min(Subscriptions(cl, server, path))
           n  == cl.pending[i].ctx
           c0 == ConsumeIds(cl)
           c1 == [c0 EXCEPT !.pending[i] = Free]
           call == [c1.calls[n] EXCEPT !.cancelled = TRUE]
<1>1. /\ Subscriptions(cl, server, path) # {}
      /\ cl' = [c0 EXCEPT !.pending[i] = Free, !.calls[n].cancelled = TRUE]
      /\ net' = net
  BY DEF CancelObserveFails, netVars
<1>2. i \in Subscriptions(cl, server, path)
  <2>1. DOMAIN cl.pending \subseteq Nat
    BY SlotNumbers DEF ClientTablesOK, ClientOK, PendingTable
  <2> QED BY <1>1, <2>1, VacantSlot DEF Subscriptions
<1>3. i \in TxSlots /\ n \in 1 .. MaxCalls
  BY <1>2 DEF Subscriptions, Occupied, ClientTablesOK, ClientOK, PendingTable, PendingEntry
<1>4. ClientOK(c0, own) /\ c0.out = {}
  BY ConsumeIdsOK DEF ClientTablesOK
<1> HIDE DEF c0, i, n
<1>5. ClientOK(c1, own)
  BY <1>3, <1>4, FreesPending
<1>6. c1.out = {}
  BY <1>4 DEF ClientOK, ClientObject
<1>7. cl' = [c1 EXCEPT !.calls[n] = call]
  BY <1>1, <1>4 DEF ClientOK, ClientObject
<1> HIDE DEF c1
<1>8. c1.calls[n] \in CallRecord /\ Right(c1.calls[n], own) =>
        call \in CallRecord /\ Right(call, own)
  BY DEF CallRecord, Right
<1> HIDE DEF call
<1>9. ClientOK(cl', own)
  BY <1>3, <1>5, <1>7, <1>8, CallChange
<1>10. cl'.out = {} /\ PacketsOK(net', own) /\ OnlySent(own)
  BY <1>1, <1>5, <1>6, <1>7 DEF ClientTablesOK, ClientOK, ClientObject, OnlySent
<1> QED BY <1>9, <1>10, NoneAdded DEF Preserved, ClientTablesOK

LEMMA DiscoverStep ==
    ASSUME NEW own, ClientTablesOK(own), Discover
    PROVE  Preserved(own)
<1> DEFINE n   == cl.issued + 1
           q   == [server |-> AllNodes, path |-> "wellknown", code |-> "Get",
                   con |-> FALSE, obs |-> "none", ctx |-> n]
           pkt == RequestPacket(cl, q)
           k   == Min(Vacant(cl.discovers))
           e   == [token |-> cl.nextToken, ctx |-> n]
           own2 == With(own, cl.nextToken, n)
           c0  == ConsumeIds(cl)
           c1  == Number(c0, "discover")
           table == [c1.discovers EXCEPT ![k] = e]
<1>1. /\ cl.issued < MaxCalls /\ Vacant(cl.discovers) # {}
      /\ cl' = [c1 EXCEPT !.discovers[k] = e] /\ net' = Carry(net, {pkt})
  BY DEF Discover, Transmit
<1>2. Grows(own2, own, cl.nextToken) /\ Owns(own2, cl.nextToken, n)
  BY <1>1, NextCall, WithExtends DEF ClientTablesOK
<1>3. ClientOK(cl, own2)
  BY <1>2, ExtendsClientOK DEF Grows, ClientTablesOK
<1>4. k \in DiscoverSlots
  <2>1. DOMAIN cl.discovers = DiscoverSlots
    BY DEF ClientTablesOK, ClientOK, DiscoverTable
  <2> QED BY <1>1, <2>1, SlotNumbers, VacantSlot DEF Vacant
<1>5. n \in 1 .. MaxCalls
  BY <1>1, ClientAssumption DEF ClientTablesOK, ClientOK
<1>6. e \in DiscoverEntry /\ Owns(own2, e.token, e.ctx)
  BY <1>2, <1>5 DEF ClientTablesOK, ClientOK, DiscoverEntry
<1>7. SentOK(pkt, own2)
  <2>1. /\ DOMAIN pkt = PacketFields /\ pkt.src = ClientEp /\ pkt.mid \in Mids
        /\ pkt.code \in MethodCodes /\ Owns(own2, pkt.token, pkt.about)
    BY <1>2, <1>3 DEF RequestPacket, PacketFields, ClientOK, MethodCodes
  <2> HIDE DEF pkt
  <2> QED BY <2>1, PlainSent
<1> HIDE DEF own2, k, e, pkt
<1>8. ClientOK(c0, own2) /\ c0.issued = cl.issued /\ c0.out = {}
  BY <1>3, ConsumeIdsOK DEF ClientTablesOK
<1> HIDE DEF c0
<1>9. ClientOK(c1, own2) /\ c1.out = {}
  BY <1>1, <1>8, NumberOK
<1> HIDE DEF c1
<1>10. DiscoverTable(table, own2)
  <2>1. c1.discovers \in [DiscoverSlots -> DiscoverEntry \cup {Free}]
    BY <1>9 DEF ClientOK, DiscoverTable
  <2>2. table \in [DiscoverSlots -> DiscoverEntry \cup {Free}]
    BY <1>6, <2>1
  <2> QED BY <1>4, <1>6, <1>9, <2>1, <2>2 DEF ClientOK, DiscoverTable
<1>11. cl' = [c1 EXCEPT !.discovers = table]
  BY <1>1
<1> HIDE DEF table
<1>12. ClientObject(c1)
  BY <1>9 DEF ClientOK
<1>13. cl' = [pending |-> c1.pending, tx |-> c1.tx, discovers |-> table,
              nextToken |-> c1.nextToken, nextMid |-> c1.nextMid, issued |-> c1.issued,
              calls |-> c1.calls, out |-> c1.out]
  BY <1>11, <1>12 DEF ClientObject
<1>14. ClientOK(cl', own2) /\ cl'.out = {}
  BY <1>9, <1>10, <1>13 DEF ClientOK, ClientObject
<1>15. PacketsOK(net', own2)
  <2>1. \A p \in {pkt} : SentOK(p, own2)
    BY <1>7
  <2>2. PacketsOK(net, own)
    BY DEF ClientTablesOK
  <2> QED BY <1>1, <1>2, <2>1, <2>2, CarryOK DEF Grows
<1>16. OnlySent(own2)
  BY <1>1, <1>7 DEF OnlySent, Carry
<1> QED BY <1>2, <1>14, <1>15, <1>16 DEF Preserved, ClientTablesOK

LEMMA ClientIdlePollStep ==
    ASSUME NEW own, ClientTablesOK(own), ClientIdlePoll
    PROVE  Preserved(own)
<1>1. PICK gone \in SUBSET Occupied(cl.discovers) : \E due \in SUBSET InFlight(cl.tx) :
         LET c == FinishPoll(cl, gone, due)
         IN  cl' = [c EXCEPT !.out = {}] /\ Transmit(c.out)
  BY DEF ClientIdlePoll
<1>2. PICK due \in SUBSET InFlight(cl.tx) :
         LET c == FinishPoll(cl, gone, due)
         IN  cl' = [c EXCEPT !.out = {}] /\ Transmit(c.out)
  BY <1>1
<1> DEFINE c == FinishPoll(cl, gone, due)
<1>3. cl' = [c EXCEPT !.out = {}] /\ Transmit(c.out)
  BY <1>2
<1>4. ClientOK(c, own)
  BY FinishPollOK DEF ClientTablesOK
<1> HIDE DEF c
<1>5. ClientOK(cl', own) /\ cl'.out = {} /\ PacketsOK(net', own) /\ OnlySent(own)
  BY <1>3, <1>4, NoneAdded, Departs DEF ClientTablesOK
<1> QED BY <1>5, NoneAdded DEF Preserved, ClientTablesOK

LEMMA ClientResetStep ==
    ASSUME NEW own, ClientTablesOK(own), NEW m \in net, ClientReset(m)
    PROVE  Preserved(own)
<1>1. cl' = OnReset(cl, m) /\ net' \subseteq net
  BY DEF ClientReset, Deliver, Carry
<1>2. ClientOK(cl', own)
  BY <1>1, OnResetOK DEF ClientTablesOK
<1>3. cl'.out = {}
  BY <1>1 DEF OnReset, CallTimeout, ClientTablesOK, ClientOK, ClientObject
<1>4. PacketsOK(net', own) /\ OnlySent(own)
  BY <1>1 DEF ClientTablesOK, PacketsOK, OnlySent
<1> QED BY <1>2, <1>3, <1>4, NoneAdded DEF Preserved, ClientTablesOK

LEMMA ClientReceiveStep ==
    ASSUME NEW own, ClientTablesOK(own), NEW m \in net, ClientReceive(m)
    PROVE  Preserved(own)
<1>1. HeardOK(m, own)
  BY DEF ClientTablesOK, PacketsOK
<1>2. PICK reaction \in Reactions :
         LET c1 == OnPacket(cl, m, reaction)
             old == {i \in InFlight(c1.tx) : c1.tx[i] = cl.tx[i]}
         IN  \E gone \in SUBSET Occupied(c1.discovers), due \in SUBSET old :
               LET c == FinishPoll(c1, gone, due)
               IN  cl' = [c EXCEPT !.out = {}] /\ Deliver(m, c.out)
  BY DEF ClientReceive
<1> DEFINE c1 == OnPacket(cl, m, reaction)
           old == {i \in InFlight(c1.tx) : c1.tx[i] = cl.tx[i]}
<1>3. \E gone \in SUBSET Occupied(c1.discovers), due \in SUBSET old :
         LET c == FinishPoll(c1, gone, due)
         IN  cl' = [c EXCEPT !.out = {}] /\ Deliver(m, c.out)
  BY <1>2
<1>4. PICK own2 : Grows(own2, own, cl.nextToken) /\ ClientOK(c1, own2)
  BY <1>1, OnPacketOK DEF ClientTablesOK
<1> HIDE DEF c1
<1>5. PICK gone \in SUBSET Occupied(c1.discovers) : \E due \in SUBSET old :
         LET c == FinishPoll(c1, gone, due)
         IN  cl' = [c EXCEPT !.out = {}] /\ Deliver(m, c.out)
  BY <1>3
<1>6. PICK due \in SUBSET old :
         LET c == FinishPoll(c1, gone, due)
         IN  cl' = [c EXCEPT !.out = {}] /\ Deliver(m, c.out)
  BY <1>5
<1> DEFINE c == FinishPoll(c1, gone, due)
<1>7. cl' = [c EXCEPT !.out = {}] /\ \E m2 : Deliver(m2, c.out)
  BY <1>6
<1>8. ClientOK(c, own2)
  BY <1>4, FinishPollOK
<1> HIDE DEF c
<1>9. ClientOK(cl', own2) /\ cl'.out = {} /\ PacketsOK(net', own2) /\ OnlySent(own2)
  BY <1>4, <1>7, <1>8, Departs DEF ClientTablesOK
<1> QED BY <1>4, <1>9 DEF Preserved, ClientTablesOK

(* Whatever the client does *)
LEMMA ClientStep ==
    ASSUME NEW own, ClientTablesOK(own), ClientNext
    PROVE  Preserved(own)
<1>1. CASE CallApi
  BY <1>1, CallApiStep
<1>2. CASE CallApiFails
  BY <1>2, CallApiFailsStep
<1>3. CASE \E server \in Servers, path \in Paths : CancelObserve(server, path)
  BY <1>3, CancelObserveStep
<1>4. CASE \E server \in Servers, path \in Paths : CancelObserveFails(server, path)
  BY <1>4, CancelObserveFailsStep
<1>5. CASE Discover
  BY <1>5, DiscoverStep
<1>6. CASE ClientIdlePoll
  BY <1>6, ClientIdlePollStep
<1>7. CASE \E m \in net : ClientReset(m)
  BY <1>7, ClientResetStep
<1>8. CASE \E m \in net : ClientReceive(m)
  BY <1>8, ClientReceiveStep
<1> QED BY <1>1, <1>2, <1>3, <1>4, <1>5, <1>6, <1>7, <1>8 DEF ClientNext

LEMMA ClientInitially ==
    ASSUME NEW own, NetInit, ClientInit
    PROVE  ClientTablesOK(own)
<1> DEFINE calls == [n \in 1 .. MaxCalls |-> NotCalled]
           pending == [i \in TxSlots |-> Free]
           discovers == [i \in DiscoverSlots |-> Free]
<1>1. NotCalled \in CallRecord /\ ~NotCalled.wrong
  BY DEF NotCalled, CallRecord
<1>2. CallTable(calls, own)
  BY <1>1 DEF CallTable, Right
<1>3. PendingTable(pending, own) /\ ClientPool(EmptyPool, own) /\ DiscoverTable(discovers, own)
  BY DEF PendingTable, ClientPool, EmptyPool, DiscoverTable
<1>4. 1 % TokenMod \in TokenBytes /\ 1 % MidMod \in Mids /\ 0 \in 0 .. MaxCalls
  BY NetAssumption, ClientAssumption DEF TokenBytes, Mids
<1>5. cl = [pending |-> pending, tx |-> EmptyPool, discovers |-> discovers,
            nextToken |-> 1 % TokenMod, nextMid |-> 1 % MidMod, issued |-> 0,
            calls |-> calls, out |-> {}]
  BY DEF ClientInit, ClientInitState
<1> HIDE DEF calls, pending, discovers
<1>6. ClientOK(cl, own)
  BY <1>2, <1>3, <1>4, <1>5 DEF ClientOK, ClientObject
<1> QED BY <1>5, <1>6 DEF ClientTablesOK, NetInit, PacketsOK

(* What the tables imply *)
LEMMA TablesImply ==
    ASSUME NEW own, ClientTablesOK(own)
    PROVE  ClientTypeOK /\ (OneOwner(own) => RightCallback)
<1>1. ClientTypeOK
  BY DEF ClientTypeOK, ClientTablesOK, ClientOK, PendingTable, DiscoverTable, ClientPool,
         TransactionOK, CallTable, InFlight
<1>2. OneOwner(own) => RightCallback
  BY DEF RightCallback, ClientTablesOK, ClientOK, CallTable, Right
<1> QED BY <1>1, <1>2
-----------------------------------------------------------------------------
(* The ledger of outcomes.  While a call is pending its handlers have told *)
(* it nothing that ends it: no outcome of a one-shot call, no reply to the *)
(* cancellation of a subscription.  A call holds one slot only; served is  *)
(* the call whose response handler is running, which still holds its slot. *)
OneShot(call)    == call.kind \in {"con", "non"}
Outcomes(call)   == call.responses + call.timeouts
Told(call)       == IF OneShot(call) THEN Outcomes(call) ELSE call.late
Subscribed(call) == call.kind = "observe" /\ ~call.cancelled
Untouched(call)  == Outcomes(call) = 0 /\ call.late = 0 /\ ~call.cancelled

CallLedger(c) ==
    \A n \in 1 .. MaxCalls :
       /\ n > c.issued => Untouched(c.calls[n])
       /\ Told(c.calls[n]) <= 1
       /\ c.calls[n].cancelled => c.calls[n].kind = "observe"
       /\ ~c.calls[n].cancelled => c.calls[n].late = 0

(* A slot belongs to a call that was made. *)
HolderLedger(c) ==
    \A i \in TxSlots : c.pending[i] # Free =>
       /\ c.pending[i].ctx <= c.issued
       /\ c.pending[i].observing =>
             Subscribed(c.calls[c.pending[i].ctx]) /\ c.pending[i].up = NoUpload

SlotLedger(c, served) ==
    \A i \in TxSlots : c.pending[i] # Free =>
       /\ c.pending[i].ctx # served => Told(c.calls[c.pending[i].ctx]) = 0
       /\ \A j \in TxSlots \ {i} : c.pending[j] # Free => c.pending[j].ctx # c.pending[i].ctx

DiscoverLedger(c) ==
    \A i \in DiscoverSlots : c.discovers[i] # Free =>
       /\ c.discovers[i].ctx <= c.issued
       /\ c.calls[c.discovers[i].ctx].kind = "discover"

Ledger(c, served) ==
    CallLedger(c) /\ HolderLedger(c) /\ SlotLedger(c, served) /\ DiscoverLedger(c)

(* The tables have their types, whichever tokens are in use.               *)
Typed(c) ==
    /\ ClientObject(c)
    /\ c.pending \in [TxSlots -> PendingEntry \cup {Free}]
    /\ c.discovers \in [DiscoverSlots -> DiscoverEntry \cup {Free}]
    /\ c.calls \in [1 .. MaxCalls -> CallRecord] /\ c.issued \in 0 .. MaxCalls

LEMMA TablesTyped == \A c, own : ClientOK(c, own) => Typed(c)
BY DEF Typed, ClientOK, PendingTable, DiscoverTable, CallTable

SameHolder(p, p0) ==
    /\ p # Free /\ p0 # Free /\ p.ctx = p0.ctx /\ p.observing = p0.observing
    /\ p.token = p0.token
    /\ p.observing /\ p0.up = NoUpload => p.up = NoUpload

(* From c to t slots are given back, and no call has an outcome.           *)
SameOutcomes(call, call0) ==
    /\ call.kind = call0.kind /\ call.cancelled = call0.cancelled
    /\ Outcomes(call) = Outcomes(call0) /\ call.late = call0.late

Shrinks(t, c) ==
    /\ t.issued = c.issued
    /\ \A n \in 1 .. MaxCalls : SameOutcomes(t.calls[n], c.calls[n])
    /\ \A i \in TxSlots : t.pending[i] = Free \/ SameHolder(t.pending[i], c.pending[i])
    /\ \A i \in DiscoverSlots : t.discovers[i] = Free \/ t.discovers[i] = c.discovers[i]

(* From c to t call n gets a slot. *)
HeldBy(p, n, observing) ==
    p.ctx = n /\ p.observing = observing /\ (observing => p.up = NoUpload)

Takes(t, c, n, observing) ==
    /\ t.issued = c.issued /\ t.calls = c.calls /\ t.discovers = c.discovers
    /\ \E i \in TxSlots :
          /\ c.pending[i] = Free
          /\ t.pending[i] # Free => HeldBy(t.pending[i], n, observing)
          /\ \A j \in TxSlots \ {i} : t.pending[j] = c.pending[j]

(* From c to t a live subscription keeps its slot and its token, or it is   *)
(* cancelled.                                                              *)
Live(p)          == p # Free /\ p.observing
StillHeld(p, p0) == Live(p) /\ p.ctx = p0.ctx /\ p.token = p0.token

Follows(t, c) ==
    /\ \A n \in 1 .. MaxCalls : c.calls[n].cancelled => t.calls[n].cancelled
    /\ \A i \in TxSlots : Live(c.pending[i]) =>
          t.calls[c.pending[i].ctx].cancelled \/ StillHeld(t.pending[i], c.pending[i])

(* No slot belongs to call n. *)
NoSlotOf(c, n) == \A i \in TxSlots : c.pending[i] # Free => c.pending[i].ctx # n

LEMMA SameOutcomesTold ==
    \A call, call0 : SameOutcomes(call, call0) =>
       /\ Told(call) = Told(call0) /\ (Subscribed(call) <=> Subscribed(call0))
       /\ (Untouched(call) <=> Untouched(call0))
BY DEF SameOutcomes, Told, Subscribed, Untouched, OneShot

LEMMA ShrinksLedger ==
    ASSUME NEW c, Typed(c), NEW t, Shrinks(t, c), NEW served, Ledger(c, served)
    PROVE  Ledger(t, served)
<1>1. /\ \A i \in TxSlots : c.pending[i] # Free => c.pending[i].ctx \in 1 .. MaxCalls
      /\ \A i \in DiscoverSlots : c.discovers[i] # Free => c.discovers[i].ctx \in 1 .. MaxCalls
  BY DEF Typed, PendingEntry, DiscoverEntry
<1>2. \A n \in 1 .. MaxCalls :
         /\ Told(t.calls[n]) = Told(c.calls[n])
         /\ Subscribed(t.calls[n]) <=> Subscribed(c.calls[n])
         /\ Untouched(t.calls[n]) <=> Untouched(c.calls[n])
         /\ t.calls[n].kind = c.calls[n].kind /\ t.calls[n].late = c.calls[n].late
         /\ t.calls[n].cancelled = c.calls[n].cancelled
  <2>1. \A n \in 1 .. MaxCalls : SameOutcomes(t.calls[n], c.calls[n])
    BY DEF Shrinks
  <2> QED BY <2>1, SameOutcomesTold DEF SameOutcomes
<1>3. CallLedger(t)
  BY <1>2 DEF Shrinks, Ledger, CallLedger
<1>4. HolderLedger(t)
  BY <1>1, <1>2 DEF Shrinks, SameHolder, Ledger, HolderLedger
<1>5. SlotLedger(t, served)
  BY <1>1, <1>2 DEF Shrinks, SameHolder, Ledger, SlotLedger
<1>6. DiscoverLedger(t)
  BY <1>1, <1>2 DEF Shrinks, Ledger, DiscoverLedger
<1> QED BY <1>3, <1>4, <1>5, <1>6 DEF Ledger

LEMMA FollowsTwice ==
    ASSUME NEW c, Typed(c), NEW r, Follows(r, c), NEW t, Follows(t, r)
    PROVE  Follows(t, c)
<1>1. \A i \in TxSlots : c.pending[i] # Free => c.pending[i].ctx \in 1 .. MaxCalls
  BY DEF Typed, PendingEntry
<1> QED BY <1>1 DEF Follows, StillHeld, Live

LEMMA ShrinksFollows ==
    ASSUME NEW c, NEW t, Shrinks(t, c), \A i \in TxSlots : Live(c.pending[i]) => t.pending[i] # Free
    PROVE  Follows(t, c)
BY DEF Shrinks, SameOutcomes, SameHolder, Follows, StillHeld, Live

LEMMA TakesFollows ==
    ASSUME NEW c, NEW t, NEW n, NEW observing, Takes(t, c, n, observing)
    PROVE  Follows(t, c)
BY DEF Takes, Follows, StillHeld, Live

LEMMA TakesLedger ==
    ASSUME NEW c, NEW t, NEW n, NEW observing, Takes(t, c, n, observing),
           NEW served, Ledger(c, served), n <= c.issued,
           observing => Subscribed(c.calls[n]), Told(c.calls[n]) = 0, NoSlotOf(c, n)
    PROVE  Ledger(t, served)
<1>1. CallLedger(t) /\ DiscoverLedger(t)
  BY DEF Takes, Ledger, CallLedger, DiscoverLedger
<1>2. HolderLedger(t)
  BY DEF Takes, HeldBy, Ledger, HolderLedger
<1>3. SlotLedger(t, served)
  BY DEF Takes, HeldBy, Ledger, SlotLedger, NoSlotOf
<1> QED BY <1>1, <1>2, <1>3 DEF Ledger

LEMMA SendRequestTakes ==
    ASSUME NEW c, Typed(c), NEW q, Vacant(c.pending) # {}
    PROVE  Takes(SendRequest(c, q), c, q.ctx, q.observing)
<1> DEFINE i   == Min(Vacant(c.pending))
           p   == [server |-> q.server, token |-> c.nextToken, ctx |-> q.ctx,
                   observing |-> q.observing, path |-> q.path,
                   up |-> NoUpload, recv |-> NoDownload,
                   blockServer |-> q.server]
           pending == [c.pending EXCEPT ![i] = p]
           pool    == IF q.con THEN Track(c, RequestPacket(c, q)) ELSE c.tx
           sent    == c.out \cup {RequestPacket(c, q)}
           t       == SendRequest(c, q)
<1>1. DOMAIN c.pending = TxSlots /\ ClientObject(c)
  BY DEF Typed
<1>2. i \in TxSlots /\ c.pending[i] = Free
  BY <1>1, VacantSlot, SlotNumbers DEF Vacant
<1>3. t = [c EXCEPT !.nextToken = (@ + 1) % TokenMod, !.nextMid = (@ + 1) % MidMod,
                    !.pending = pending, !.tx = pool, !.out = sent]
  BY DEF SendRequest, ConsumeIds
<1> HIDE DEF i
<1>4. /\ HeldBy(pending[i], q.ctx, q.observing)
      /\ \A j \in TxSlots \ {i} : pending[j] = c.pending[j]
  BY <1>1, <1>2 DEF HeldBy
<1> HIDE DEF t, pending, pool, sent
<1>5. t = [pending |-> pending, tx |-> pool, discovers |-> c.discovers,
           nextToken |-> (c.nextToken + 1) % TokenMod, nextMid |-> (c.nextMid + 1) % MidMod,
           issued |-> c.issued, calls |-> c.calls, out |-> sent]
  BY <1>1, <1>3 DEF ClientObject
<1>6. Takes(t, c, q.ctx, q.observing)
  BY <1>2, <1>4, <1>5 DEF Takes
<1> QED BY <1>6 DEF t

LEMMA SendBlockShrinks ==
    ASSUME NEW c, Typed(c), NEW pkt
    PROVE  /\ SendBlock(c, pkt).pending = c.pending /\ SendBlock(c, pkt).discovers = c.discovers
           /\ SendBlock(c, pkt).calls = c.calls /\ SendBlock(c, pkt).issued = c.issued
<1> DEFINE pool == Track(c, pkt)
           t == SendBlock(c, pkt)
<1>1. t = [c EXCEPT !.nextMid = (@ + 1) % MidMod, !.tx = pool, !.out = @ \cup {pkt}]
  BY DEF SendBlock
<1>2. ClientObject(c)
  BY DEF Typed
<1> HIDE DEF t, pool
<1>3. t.pending = c.pending /\ t.discovers = c.discovers /\ t.calls = c.calls /\ t.issued = c.issued
  BY <1>1, <1>2 DEF ClientObject
<1> QED BY <1>3 DEF t

LEMMA UploadTakes ==
    ASSUME NEW c, Typed(c), NEW q, q.server \in Servers, q.path \in Paths, q.size \in Nat,
           q.ctx \in 1 .. MaxCalls, c.nextToken \in TokenBytes, Vacant(c.pending) # {}
    PROVE  Takes(Upload(c, q), c, q.ctx, FALSE)
<1> DEFINE i  == Min(Vacant(c.pending))
           p  == [server |-> q.server, token |-> c.nextToken, ctx |-> q.ctx,
                  observing |-> FALSE, path |-> q.path,
                  up |-> [size |-> q.size, next |-> 0], recv |-> NoDownload,
                  blockServer |-> q.server]
           pending == [c.pending EXCEPT ![i] = p]
           c1 == [c EXCEPT !.nextToken = (@ + 1) % TokenMod, !.pending[i] = p]
<1>1. DOMAIN c.pending = TxSlots /\ ClientObject(c)
  BY DEF Typed
<1>2. i \in TxSlots /\ c.pending[i] = Free
  BY <1>1, VacantSlot, SlotNumbers DEF Vacant
<1>3. Upload(c, q) = SendBlock1(c1, i)
  BY DEF Upload
<1>4. p \in PendingEntry /\ HeldBy(p, q.ctx, FALSE)
  BY DEF PendingEntry, NoDownload, HeldBy
<1>5. c1 = [c EXCEPT !.nextToken = (@ + 1) % TokenMod, !.pending = pending]
  OBVIOUS
<1> HIDE DEF i, p, c1
<1>6. /\ pending \in [TxSlots -> PendingEntry \cup {Free}] /\ pending[i] = p
      /\ \A j \in TxSlots \ {i} : pending[j] = c.pending[j]
  BY <1>1, <1>2, <1>4 DEF Typed
<1> HIDE DEF pending
<1>7. c1 = [pending |-> pending, tx |-> c.tx, discovers |-> c.discovers,
            nextToken |-> (c.nextToken + 1) % TokenMod, nextMid |-> c.nextMid,
            issued |-> c.issued, calls |-> c.calls, out |-> c.out]
  BY <1>1, <1>5 DEF ClientObject
<1>8. Typed(c1)
  BY <1>6, <1>7 DEF Typed, ClientObject
<1>9. \E pkt : SendBlock1(c1, i) = SendBlock(c1, pkt)
  BY DEF SendBlock1
<1> DEFINE t == SendBlock1(c1, i)
<1>10. /\ t.pending = c1.pending /\ t.discovers = c1.discovers
       /\ t.calls = c1.calls /\ t.issued = c1.issued
  BY <1>8, <1>9, SendBlockShrinks
<1> HIDE DEF t
<1>11. Takes(t, c, q.ctx, FALSE)
  BY <1>2, <1>4, <1>6, <1>7, <1>10 DEF Takes
<1> QED BY <1>3, <1>11 DEF t

(* The next call gets a number and a kind, and nothing else. *)
Opens(t, c, what) ==
    /\ t.pending = c.pending /\ t.discovers = c.discovers /\ t.nextToken = c.nextToken
    /\ t.issued = c.issued + 1
    /\ \A n \in 1 .. MaxCalls :
          n # c.issued + 1 => t.calls[n] = c.calls[n]
    /\ t.calls[c.issued + 1].kind = what
    /\ Untouched(c.calls[c.issued + 1]) => Untouched(t.calls[c.issued + 1])

LEMMA OpensFollows ==
    ASSUME NEW c, Typed(c), c.issued < MaxCalls, NEW what, NEW t, Opens(t, c, what),
           NEW served, Ledger(c, served)
    PROVE  Follows(t, c)
<1>1. c.issued + 1 > c.issued
  BY DEF Typed
<1>2. \A n \in 1 .. MaxCalls : c.calls[n].cancelled => t.calls[n].cancelled
  BY <1>1 DEF Opens, Ledger, CallLedger, Untouched
<1> QED BY <1>2 DEF Opens, Follows, StillHeld, Live

LEMMA OpensLedger ==
    ASSUME NEW c, Typed(c), c.issued < MaxCalls, NEW what, NEW t, Opens(t, c, what),
           NEW served, Ledger(c, served)
    PROVE  /\ Ledger(t, served)
           /\ Untouched(t.calls[t.issued]) /\ t.calls[t.issued].kind = what
           /\ NoSlotOf(t, t.issued)
<1> DEFINE n == c.issued + 1
<1>1. n \in 1 .. MaxCalls /\ c.issued \in Nat /\ n > c.issued
  BY ClientAssumption DEF Typed
<1>2. \A i \in TxSlots : c.pending[i] # Free => c.pending[i].ctx \in 1 .. MaxCalls /\ c.pending[i].ctx # n
  BY <1>1 DEF Typed, PendingEntry, Ledger, HolderLedger
<1>3. \A i \in DiscoverSlots : c.discovers[i] # Free =>
        c.discovers[i].ctx \in 1 .. MaxCalls /\ c.discovers[i].ctx # n
  BY <1>1 DEF Typed, DiscoverEntry, Ledger, DiscoverLedger
<1>4. Untouched(t.calls[n])
  BY <1>1 DEF Opens, Ledger, CallLedger
<1>5. CallLedger(t)
  <2>1. /\ Told(t.calls[n]) <= 1 /\ ~t.calls[n].cancelled /\ t.calls[n].late = 0
    BY <1>4 DEF Untouched, Told
  <2>2. ASSUME NEW k \in 1 .. MaxCalls, k # n
        PROVE  t.calls[k] = c.calls[k] /\ (k > t.issued => k > c.issued)
    BY <1>1, <2>2 DEF Opens
  <2> QED BY <1>4, <2>1, <2>2 DEF Ledger, CallLedger
<1>6. HolderLedger(t)
  BY <1>1, <1>2 DEF Opens, Ledger, HolderLedger
<1>7. SlotLedger(t, served)
  BY <1>2 DEF Opens, Ledger, SlotLedger
<1>8. DiscoverLedger(t)
  BY <1>1, <1>3 DEF Opens, Ledger, DiscoverLedger
<1> QED BY <1>2, <1>4, <1>5, <1>6, <1>7, <1>8 DEF Opens, Ledger, NoSlotOf

LEMMA NumberOpens ==
    ASSUME NEW c, Typed(c), c.issued < MaxCalls,
           NEW what \in {"failed", "con", "non", "observe", "discover"}
    PROVE  Opens(Number(c, what), c, what) /\ Typed(Number(c, what))
<1> DEFINE n     == c.issued + 1
           call  == [c.calls[n] EXCEPT !.kind = what]
           calls == [c.calls EXCEPT ![n] = call]
           t     == Number(c, what)
<1>1. n \in 1 .. MaxCalls /\ ClientObject(c)
  BY ClientAssumption DEF Typed
<1>2. t = [c EXCEPT !.issued = n, !.calls = calls]
  BY DEF Number
<1>3. c.calls[n] \in CallRecord /\ DOMAIN c.calls = 1 .. MaxCalls
  BY <1>1 DEF Typed
<1>4. call \in CallRecord /\ call.kind = what /\ (Untouched(c.calls[n]) => Untouched(call))
  BY <1>3 DEF CallRecord, Outcomes, Untouched
<1> HIDE DEF call
<1>5. /\ calls \in [1 .. MaxCalls -> CallRecord] /\ calls[n] = call
      /\ \A k \in 1 .. MaxCalls : k # n => calls[k] = c.calls[k]
  BY <1>1, <1>3, <1>4 DEF Typed
<1> HIDE DEF calls, t
<1>6. t = [pending |-> c.pending, tx |-> c.tx, discovers |-> c.discovers,
           nextToken |-> c.nextToken, nextMid |-> c.nextMid, issued |-> n,
           calls |-> calls, out |-> c.out]
  BY <1>1, <1>2 DEF ClientObject
<1>7. Opens(t, c, what)
  BY <1>4, <1>5, <1>6 DEF Opens
<1>8. Typed(t)
  BY <1>1, <1>5, <1>6 DEF Typed, ClientObject
<1> QED BY <1>7, <1>8 DEF t

(* A call that does not observe keeps its slot, and every call its kind,   *)
(* and nothing is late.                                                    *)
Keeps(t, c) ==
    /\ \A i \in TxSlots : c.pending[i] # Free /\ ~c.pending[i].observing =>
          t.pending[i] = c.pending[i]
    /\ \A n \in 1 .. MaxCalls : n <= c.issued =>
          t.calls[n].kind = c.calls[n].kind /\ t.calls[n].late = c.calls[n].late

LEMMA IssueLedger ==
    ASSUME NEW c, Typed(c), c.nextToken \in TokenBytes, c.issued < MaxCalls,
           Vacant(c.pending) # {}, NEW server \in Servers, NEW path \in Paths,
           NEW kind \in [code : MethodCodes, con : BOOLEAN, observe : BOOLEAN, size : Nat],
           NEW served, Ledger(c, served)
    PROVE  /\ Ledger(Issue(c, server, path, kind), served)
           /\ Keeps(Issue(c, server, path, kind), c) /\ Follows(Issue(c, server, path, kind), c)
<1> DEFINE c0 == Number(c, KindOf(kind))
           n  == c.issued + 1
           call == [c0.calls[n] EXCEPT !.size = kind.size]
           calls == [c0.calls EXCEPT ![n] = call]
           c1 == [c0 EXCEPT !.calls[n].size = kind.size]
           q  == NewRequest(c, server, path, kind)
           t  == Issue(c, server, path, kind)
<1>1. KindOf(kind) \in {"con", "non", "observe"} /\ (kind.observe => KindOf(kind) = "observe")
  BY DEF KindOf
<1>2. Opens(c0, c, KindOf(kind)) /\ Typed(c0)
  BY <1>1, NumberOpens
<1>3. n \in 1 .. MaxCalls /\ c.issued \in Nat /\ n > c.issued
  BY ClientAssumption DEF Typed
<1>4. t = IF kind.size > BlockSize THEN Upload(c1, q) ELSE SendRequest(c1, q)
  BY DEF Issue
<1>5. /\ q.size = kind.size /\ q.ctx = n /\ q.size \in Nat /\ q.server = server
      /\ q.path = path /\ q.observing = kind.observe
  BY <1>3 DEF NewRequest
<1> HIDE DEF c0, q, t
<1>6. c0.calls[n] \in CallRecord
  BY <1>2, <1>3 DEF Typed
<1>7. /\ call \in CallRecord /\ call.kind = c0.calls[n].kind
      /\ Untouched(c0.calls[n]) => Untouched(call)
  BY <1>6 DEF CallRecord, Outcomes, Untouched
<1>8. c1 = [c0 EXCEPT !.calls = calls]
  OBVIOUS
<1> HIDE DEF call, c1
<1>9. /\ calls \in [1 .. MaxCalls -> CallRecord] /\ calls[n] = call
      /\ \A k \in 1 .. MaxCalls : k # n => calls[k] = c0.calls[k]
  BY <1>2, <1>3, <1>7 DEF Typed
<1> HIDE DEF calls
<1>10. /\ c1.pending = c0.pending /\ c1.discovers = c0.discovers
       /\ c1.issued = c0.issued /\ c1.calls = calls /\ c1.nextToken = c0.nextToken
       /\ ClientObject(c1)
  <2>1. ClientObject(c0)
    BY <1>2 DEF Typed
  <2>2. c1 = [pending |-> c0.pending, tx |-> c0.tx, discovers |-> c0.discovers,
              nextToken |-> c0.nextToken, nextMid |-> c0.nextMid, issued |-> c0.issued,
              calls |-> calls, out |-> c0.out]
    BY <1>8, <2>1 DEF ClientObject
  <2> QED BY <2>2 DEF ClientObject
<1>11. Typed(c1)
  BY <1>2, <1>9, <1>10 DEF Typed
<1>12. Opens(c1, c, KindOf(kind))
  BY <1>2, <1>7, <1>9, <1>10 DEF Opens
<1>13. /\ Ledger(c1, served) /\ Untouched(c1.calls[n]) /\ c1.calls[n].kind = KindOf(kind)
       /\ c1.issued = n /\ NoSlotOf(c1, n)
  <2>1. c1.issued = n
    BY <1>12 DEF Opens
  <2> HIDE DEF n
  <2> QED BY <1>12, <2>1, OpensLedger
<1>14. c1.pending = c.pending /\ c1.nextToken = c.nextToken
  BY <1>12 DEF Opens
<1>15. PICK observing \in {kind.observe, FALSE} : Takes(t, c1, n, observing)
  <2>1. CASE kind.size > BlockSize
    <3>1. Takes(Upload(c1, q), c1, q.ctx, FALSE)
      BY <1>3, <1>5, <1>11, <1>14, UploadTakes
    <3> QED BY <1>4, <1>5, <2>1, <3>1
  <2>2. CASE ~(kind.size > BlockSize)
    <3>1. Takes(SendRequest(c1, q), c1, q.ctx, q.observing)
      BY <1>11, <1>14, SendRequestTakes
    <3> QED BY <1>4, <1>5, <2>2, <3>1
  <2> QED BY <2>1, <2>2
<1> HIDE DEF n
<1>16. n <= c1.issued
  BY <1>3, <1>13
<1>17. Ledger(t, served)
  <2>1. Told(c1.calls[n]) = 0 /\ (kind.observe => Subscribed(c1.calls[n]))
    BY <1>1, <1>13 DEF Told, Untouched, Subscribed
  <2> QED BY <1>13, <1>15, <1>16, <2>1, TakesLedger
<1>18. Keeps(t, c)
  <2>1. \A i \in TxSlots : c.pending[i] # Free => t.pending[i] = c.pending[i]
    BY <1>14, <1>15 DEF Takes
  <2>2. \A k \in 1 .. MaxCalls : k <= c.issued => t.calls[k] = c.calls[k]
    <3>1. \A k \in 1 .. MaxCalls : k <= c.issued => k # c.issued + 1
      BY DEF Typed
    <3> QED BY <1>12, <1>15, <3>1 DEF Takes, Opens
  <2> QED BY <2>1, <2>2 DEF Keeps
<1>19. Follows(t, c)
  <2>1. Follows(c1, c)
    BY <1>12, OpensFollows
  <2>2. Follows(t, c1)
    BY <1>15, TakesFollows
  <2> QED BY <2>1, <2>2, FollowsTwice
<1> QED BY <1>17, <1>18, <1>19 DEF t

(* From c to t a subscription is cancelled and its slot given back. *)
Cancels(t, c, n) ==
    /\ t.issued = c.issued /\ t.discovers = c.discovers
    /\ \E i \in TxSlots :
          /\ c.pending[i] # Free /\ c.pending[i].observing /\ c.pending[i].ctx = n
          /\ t.pending[i] = Free
          /\ \A j \in TxSlots \ {i} : t.pending[j] = c.pending[j]
    /\ \A k \in 1 .. MaxCalls : k # n => t.calls[k] = c.calls[k]
    /\ t.calls[n].kind = c.calls[n].kind /\ Outcomes(t.calls[n]) = Outcomes(c.calls[n])
    /\ t.calls[n].late = c.calls[n].late /\ t.calls[n].cancelled

LEMMA CancelsFollows ==
    ASSUME NEW c, Typed(c), NEW n \in 1 .. MaxCalls, NEW t, Cancels(t, c, n)
    PROVE  Follows(t, c)
<1>1. \A k \in 1 .. MaxCalls : c.calls[k].cancelled => t.calls[k].cancelled
  BY DEF Cancels
<1>2. \A i \in TxSlots : Live(c.pending[i]) =>
         t.calls[c.pending[i].ctx].cancelled \/ StillHeld(t.pending[i], c.pending[i])
  BY DEF Cancels, StillHeld, Live
<1> QED BY <1>1, <1>2 DEF Follows

LEMMA CancelsLedger ==
    ASSUME NEW c, Typed(c), NEW n \in 1 .. MaxCalls, NEW t, Cancels(t, c, n),
           NEW served, Ledger(c, served)
    PROVE  /\ Ledger(t, served) /\ n <= t.issued
           /\ Told(t.calls[n]) = 0 /\ NoSlotOf(t, n)
<1>1. /\ \A i \in TxSlots : c.pending[i] # Free => c.pending[i].ctx \in 1 .. MaxCalls
      /\ \A i \in DiscoverSlots : c.discovers[i] # Free => c.discovers[i].ctx \in 1 .. MaxCalls
  BY DEF Typed, PendingEntry, DiscoverEntry
<1>2. Subscribed(c.calls[n]) /\ n <= c.issued /\ ~(n > c.issued)
  <2>1. Subscribed(c.calls[n]) /\ n <= c.issued
    BY DEF Cancels, Ledger, HolderLedger
  <2> QED BY <2>1 DEF Typed
<1>3. /\ t.calls[n].kind = "observe" /\ t.calls[n].late = 0 /\ Told(t.calls[n]) = 0
      /\ t.calls[n].cancelled
  BY <1>2 DEF Cancels, Ledger, CallLedger, Subscribed, Told, OneShot
<1>4. NoSlotOf(t, n)
  BY DEF Cancels, Ledger, SlotLedger, NoSlotOf
<1>5. CallLedger(t)
  BY <1>2, <1>3 DEF Cancels, Ledger, CallLedger
<1>6. \A i \in TxSlots : t.pending[i] # Free =>
         t.pending[i] = c.pending[i] /\ t.calls[t.pending[i].ctx] = c.calls[c.pending[i].ctx]
  <2>1. \A i \in TxSlots : t.pending[i] # Free => t.pending[i] = c.pending[i]
    BY DEF Cancels
  <2> QED BY <1>1, <1>4, <2>1 DEF Cancels, NoSlotOf
<1>7. HolderLedger(t)
  BY <1>6 DEF Cancels, Ledger, HolderLedger
<1>8. SlotLedger(t, served)
  BY <1>6 DEF Ledger, SlotLedger
<1>9. DiscoverLedger(t)
  BY <1>1 DEF Cancels, Ledger, DiscoverLedger
<1> QED BY <1>2, <1>3, <1>4, <1>5, <1>7, <1>8, <1>9 DEF Ledger, Cancels

LEMMA DeregisterLedger ==
    ASSUME NEW c, Typed(c), NEW server, NEW path,
           Subscriptions(c, server, path) # {}, NEW served, Ledger(c, served)
    PROVE  /\ Ledger(Deregister(c, server, path), served)
           /\ Keeps(Deregister(c, server, path), c) /\ Follows(Deregister(c, server, path), c)
<1> DEFINE i   == Min(Subscriptions(c, server, path))
           n   == c.pending[i].ctx
           pending == [c.pending EXCEPT ![i] = Free]
           call == [c.calls[n] EXCEPT !.cancelled = TRUE]
           calls == [c.calls EXCEPT ![n] = call]
           c1  == [c EXCEPT !.pending[i] = Free, !.calls[n].cancelled = TRUE]
           q   == [server |-> server, path |-> path, code |-> "Get", con |-> TRUE,
                   obs |-> "deregister", observing |-> FALSE, ctx |-> n]
           t   == Deregister(c, server, path)
<1>1. i \in Subscriptions(c, server, path)
  <2>1. DOMAIN c.pending \subseteq Nat
    BY SlotNumbers DEF Typed
  <2> QED BY <2>1, VacantSlot DEF Subscriptions
<1>2. i \in TxSlots /\ c.pending[i] # Free /\ c.pending[i].observing
  BY <1>1 DEF Subscriptions, Occupied, Typed
<1>3. n \in 1 .. MaxCalls /\ n <= c.issued /\ c.calls[n].kind = "observe"
  <2>1. c.pending[i] \in PendingEntry
    BY <1>2 DEF Typed
  <2>2. n \in 1 .. MaxCalls
    BY <2>1 DEF PendingEntry
  <2>3. n <= c.issued /\ Subscribed(c.calls[n])
    BY <1>2 DEF Ledger, HolderLedger
  <2> QED BY <2>2, <2>3 DEF Subscribed
<1>4. t = SendRequest(c1, q) /\ q.ctx = n /\ q.observing = FALSE
  BY DEF Deregister
<1> HIDE DEF i, n, q, t
<1>5. /\ pending \in [TxSlots -> PendingEntry \cup {Free}] /\ pending[i] = Free
      /\ \A j \in TxSlots \ {i} : pending[j] = c.pending[j]
  BY <1>2 DEF Typed
<1>6. c.calls[n] \in CallRecord
  BY <1>3 DEF Typed
<1>7. /\ call \in CallRecord /\ call.kind = c.calls[n].kind /\ call.cancelled
      /\ Outcomes(call) = Outcomes(c.calls[n]) /\ call.late = c.calls[n].late
  BY <1>6 DEF CallRecord, Outcomes
<1>8. c1 = [c EXCEPT !.pending = pending, !.calls = calls]
  OBVIOUS
<1> HIDE DEF call
<1>9. /\ calls \in [1 .. MaxCalls -> CallRecord] /\ calls[n] = call
      /\ \A k \in 1 .. MaxCalls : k # n => calls[k] = c.calls[k]
  BY <1>3, <1>7 DEF Typed
<1> HIDE DEF pending, calls, c1
<1>10. ClientObject(c)
  BY DEF Typed
<1>11. c1 = [pending |-> pending, tx |-> c.tx, discovers |-> c.discovers,
             nextToken |-> c.nextToken, nextMid |-> c.nextMid, issued |-> c.issued,
             calls |-> calls, out |-> c.out]
  BY <1>8, <1>10 DEF ClientObject
<1>12. Typed(c1) /\ c1.pending = pending /\ c1.calls = calls /\ c1.issued = c.issued
  BY <1>5, <1>9, <1>11 DEF Typed, ClientObject
<1>13. Cancels(c1, c, n)
  <2>1. \E k \in TxSlots :
          /\ c.pending[k] # Free /\ c.pending[k].observing /\ c.pending[k].ctx = n
          /\ c1.pending[k] = Free
          /\ \A j \in TxSlots \ {k} : c1.pending[j] = c.pending[j]
    BY <1>2, <1>5, <1>12 DEF n
  <2> QED BY <1>7, <1>9, <1>11, <1>12, <2>1 DEF Cancels
<1>14. Ledger(c1, served) /\ n <= c1.issued /\ Told(c1.calls[n]) = 0 /\ NoSlotOf(c1, n)
  BY <1>3, <1>13, CancelsLedger
<1>15. Vacant(pending) # {}
  BY <1>2, <1>5 DEF Vacant
<1>16. Takes(t, c1, n, FALSE)
  BY <1>4, <1>12, <1>15, SendRequestTakes
<1>17. Ledger(t, served)
  BY <1>14, <1>16, TakesLedger
<1>18. Keeps(t, c)
  BY <1>2, <1>5, <1>7, <1>9, <1>12, <1>16 DEF Keeps, Takes
<1>19. Follows(t, c)
  <2>1. Follows(c1, c)
    BY <1>3, <1>13, CancelsFollows
  <2>2. Follows(t, c1)
    BY <1>16, TakesFollows
  <2> QED BY <2>1, <2>2, FollowsTwice
<1> QED BY <1>17, <1>18, <1>19 DEF t

(* From c to t call n has one outcome more. *)
Settles(t, c, n) ==
    /\ t.issued = c.issued /\ t.pending = c.pending /\ t.discovers = c.discovers
    /\ \A k \in 1 .. MaxCalls : k # n => t.calls[k] = c.calls[k]
    /\ t.calls[n].kind = c.calls[n].kind /\ t.calls[n].cancelled = c.calls[n].cancelled
    /\ ~c.calls[n].cancelled => t.calls[n].late = c.calls[n].late
    /\ Told(c.calls[n]) = 0 => Told(t.calls[n]) <= 1

LEMMA SettlesLedger ==
    ASSUME NEW c, Typed(c), NEW n \in 1 .. MaxCalls, n <= c.issued, NEW t, Settles(t, c, n),
           Ledger(c, 0), Told(c.calls[n]) = 0
    PROVE  Ledger(t, n)
<1>1. /\ \A i \in TxSlots : c.pending[i] # Free => c.pending[i].ctx \in 1 .. MaxCalls
      /\ \A i \in DiscoverSlots : c.discovers[i] # Free => c.discovers[i].ctx \in 1 .. MaxCalls
  BY DEF Typed, PendingEntry, DiscoverEntry
<1>2. CallLedger(t)
  <2>1. ~(n > c.issued)
    BY DEF Typed
  <2> QED BY <2>1 DEF Settles, Ledger, CallLedger
<1>3. HolderLedger(t) /\ DiscoverLedger(t)
  <2>1. \A k \in 1 .. MaxCalls :
           Subscribed(c.calls[k]) => Subscribed(t.calls[k])
    BY DEF Settles, Subscribed
  <2>2. HolderLedger(t)
    BY <1>1, <2>1 DEF Settles, Ledger, HolderLedger
  <2>3. \A k \in 1 .. MaxCalls : t.calls[k].kind = c.calls[k].kind
    BY DEF Settles
  <2>4. DiscoverLedger(t)
    BY <1>1, <2>3 DEF Settles, Ledger, DiscoverLedger
  <2> QED BY <2>2, <2>4
<1>4. SlotLedger(t, n)
  <2>1. \A i \in TxSlots : c.pending[i] # Free => c.pending[i].ctx # 0
    BY <1>1
  <2> QED BY <1>1, <2>1 DEF Settles, Ledger, SlotLedger
<1> QED BY <1>2, <1>3, <1>4 DEF Ledger

LEMMA SettlesFollows ==
    ASSUME NEW c, NEW n, NEW t, Settles(t, c, n)
    PROVE  Follows(t, c)
BY DEF Settles, Follows, StillHeld, Live

(* The handler has returned, and the slot of its call is free unless the   *)
(* call goes on.                                                           *)
LEMMA ServedDone ==
    ASSUME NEW t, NEW n, Ledger(t, n), Told(t.calls[n]) = 0 \/ NoSlotOf(t, n)
    PROVE  Ledger(t, 0)
BY DEF Ledger, SlotLedger, NoSlotOf

LEMMA ResponseSettles ==
    ASSUME NEW c, Typed(c), NEW n \in 1 .. MaxCalls, NEW m
    PROVE  Settles(CallResponse(c, n, m), c, n)
<1> DEFINE call  == Responded(c.calls[n], n, m)
           calls == [c.calls EXCEPT ![n] = call]
           t     == CallResponse(c, n, m)
<1>1. c.calls[n] \in CallRecord /\ DOMAIN c.calls = 1 .. MaxCalls /\ ClientObject(c)
  BY DEF Typed
<1>2. /\ call.kind = c.calls[n].kind /\ call.timeouts = c.calls[n].timeouts
      /\ call.responses = Capped(c.calls[n].responses + 1)
      /\ call.cancelled = c.calls[n].cancelled
      /\ call.late = IF c.calls[n].cancelled THEN Capped(c.calls[n].late + 1) ELSE c.calls[n].late
  BY <1>1 DEF Responded, CallRecord
<1>3. Told(c.calls[n]) = 0 => Told(call) <= 1
  BY <1>1, <1>2 DEF Told, OneShot, Outcomes, Capped, CallRecord
<1>4. t = [c EXCEPT !.calls = calls]
  BY DEF CallResponse
<1> HIDE DEF call
<1>5. calls[n] = call /\ \A k \in 1 .. MaxCalls : k # n => calls[k] = c.calls[k]
  BY <1>1
<1> HIDE DEF calls, t
<1>6. /\ t.issued = c.issued /\ t.pending = c.pending /\ t.discovers = c.discovers
      /\ t.calls = calls
  BY <1>1, <1>4 DEF ClientObject
<1>7. Settles(t, c, n)
  BY <1>2, <1>3, <1>5, <1>6 DEF Settles
<1> QED BY <1>7 DEF t

LEMMA TimeoutSettles ==
    ASSUME NEW c, Typed(c), NEW n \in 1 .. MaxCalls
    PROVE  Settles(CallTimeout(c, n), c, n)
<1> DEFINE call  == Expire(c.calls[n], 1)
           calls == [c.calls EXCEPT ![n] = call]
           t     == CallTimeout(c, n)
<1>1. c.calls[n] \in CallRecord /\ DOMAIN c.calls = 1 .. MaxCalls /\ ClientObject(c)
  BY DEF Typed
<1>2. /\ call.kind = c.calls[n].kind /\ call.responses = c.calls[n].responses
      /\ call.timeouts = Capped(c.calls[n].timeouts + 1)
      /\ call.cancelled = c.calls[n].cancelled /\ call.late = c.calls[n].late
  BY <1>1 DEF Expire, CallRecord
<1>3. Told(c.calls[n]) = 0 => Told(call) <= 1
  BY <1>1, <1>2 DEF Told, OneShot, Outcomes, Capped, CallRecord
<1>4. t = [c EXCEPT !.calls = calls]
  BY DEF CallTimeout
<1> HIDE DEF call
<1>5. calls[n] = call /\ \A k \in 1 .. MaxCalls : k # n => calls[k] = c.calls[k]
  BY <1>1
<1> HIDE DEF calls, t
<1>6. /\ t.issued = c.issued /\ t.pending = c.pending /\ t.discovers = c.discovers
      /\ t.calls = calls
  BY <1>1, <1>4 DEF ClientObject
<1>7. Settles(t, c, n)
  BY <1>2, <1>3, <1>5, <1>6 DEF Settles
<1> QED BY <1>7 DEF t

(* What a pending slot says of its call *)
LEMMA HolderOf ==
    ASSUME NEW c, Typed(c), Ledger(c, 0), NEW i \in TxSlots, c.pending[i] # Free
    PROVE  /\ c.pending[i].ctx \in 1 .. MaxCalls /\ c.pending[i].ctx <= c.issued
           /\ Told(c.calls[c.pending[i].ctx]) = 0
           /\ c.pending[i].observing => Subscribed(c.calls[c.pending[i].ctx])
           /\ \A j \in TxSlots \ {i} :
                 c.pending[j] # Free => c.pending[j].ctx # c.pending[i].ctx
<1>1. c.pending[i].ctx \in 1 .. MaxCalls
  BY DEF Typed, PendingEntry
<1>2. c.pending[i].ctx # 0
  BY <1>1
<1> QED BY <1>1, <1>2 DEF Ledger, HolderLedger, SlotLedger

(* The slot of a call is given back, then its timeout handler is called.   *)
LEMMA TimeoutLedger ==
    ASSUME NEW c, Typed(c), Ledger(c, 0), NEW i \in TxSlots, c.pending[i] # Free
    PROVE  /\ Ledger(CallTimeout([c EXCEPT !.pending[i] = Free], c.pending[i].ctx), 0)
           /\ ~c.pending[i].observing =>
                 Follows(CallTimeout([c EXCEPT !.pending[i] = Free], c.pending[i].ctx), c)
<1> DEFINE n  == c.pending[i].ctx
           pending == [c.pending EXCEPT ![i] = Free]
           c1 == [c EXCEPT !.pending[i] = Free]
           t  == CallTimeout(c1, n)
<1>1. /\ n \in 1 .. MaxCalls /\ n <= c.issued /\ Told(c.calls[n]) = 0
      /\ \A j \in TxSlots \ {i} : c.pending[j] # Free => c.pending[j].ctx # n
  BY HolderOf
<1> HIDE DEF n
<1>2. /\ pending \in [TxSlots -> PendingEntry \cup {Free}] /\ pending[i] = Free
      /\ \A j \in TxSlots \ {i} : pending[j] = c.pending[j]
  BY DEF Typed
<1>3. c1 = [c EXCEPT !.pending = pending] /\ ClientObject(c)
  BY DEF Typed
<1> HIDE DEF pending, c1
<1>4. /\ c1.pending = pending /\ c1.calls = c.calls /\ c1.issued = c.issued
      /\ c1.discovers = c.discovers /\ ClientObject(c1)
  <2>1. c1 = [pending |-> pending, tx |-> c.tx, discovers |-> c.discovers,
              nextToken |-> c.nextToken, nextMid |-> c.nextMid, issued |-> c.issued,
              calls |-> c.calls, out |-> c.out]
    BY <1>3 DEF ClientObject
  <2> QED BY <2>1 DEF ClientObject
<1>5. Typed(c1)
  BY <1>2, <1>4 DEF Typed
<1>6. Shrinks(c1, c)
  BY <1>2, <1>4 DEF Shrinks, SameHolder, SameOutcomes
<1>7. Ledger(c1, 0)
  BY <1>6, ShrinksLedger
<1>8. Settles(t, c1, n)
  BY <1>1, <1>5, TimeoutSettles
<1> HIDE DEF t
<1>9. Ledger(t, n)
  BY <1>1, <1>4, <1>5, <1>7, <1>8, SettlesLedger
<1>10. NoSlotOf(t, n)
  BY <1>1, <1>2, <1>4, <1>8 DEF Settles, NoSlotOf
<1>11. Ledger(t, 0)
  BY <1>9, <1>10, ServedDone
<1>12. ~c.pending[i].observing => Follows(t, c)
  <2>1. ~c.pending[i].observing => Follows(c1, c)
    BY <1>2, <1>4, <1>6, ShrinksFollows DEF Live
  <2>2. Follows(t, c1)
    BY <1>8, SettlesFollows
  <2> QED BY <2>1, <2>2, FollowsTwice
<1> QED BY <1>11, <1>12 DEF t, c1, n

LEMMA ReactLedger ==
    ASSUME NEW own, NEW c, ClientOK(c, own), NEW i \in TxSlots, c.pending[i] # Free,
           NEW reaction, NEW served, Ledger(c, served)
    PROVE  /\ Ledger(React(c, i, reaction), served) /\ Keeps(React(c, i, reaction), c)
           /\ Follows(React(c, i, reaction), c)
<1> DEFINE p == c.pending[i]
<1>1. p.server \in Servers /\ p.path \in Paths /\ Typed(c) /\ c.nextToken \in TokenBytes
  BY TablesTyped DEF ClientOK, PendingTable, PendingEntry
<1>2. CASE reaction = "get" /\ c.issued < MaxCalls /\ Vacant(c.pending) # {}
  <2>1. OneShotGet \in [code : MethodCodes, con : BOOLEAN, observe : BOOLEAN, size : Nat]
    BY DEF OneShotGet, MethodCodes
  <2>2. React(c, i, reaction) = Issue(c, p.server, p.path, OneShotGet)
    BY <1>2 DEF React
  <2> QED BY <1>1, <1>2, <2>1, <2>2, IssueLedger
<1>3. CASE reaction = "cancel" /\ Subscriptions(c, p.server, p.path) # {}
  <2>1. React(c, i, reaction) = Deregister(c, p.server, p.path)
    BY <1>3 DEF React
  <2> QED BY <1>1, <1>3, <2>1, DeregisterLedger
<1>4. CASE /\ ~(reaction = "get" /\ c.issued < MaxCalls /\ Vacant(c.pending) # {})
           /\ ~(reaction = "cancel" /\ Subscriptions(c, p.server, p.path) # {})
  <2>1. React(c, i, reaction) = c
    BY <1>4 DEF React
  <2> QED BY <2>1 DEF Keeps, Follows, StillHeld
<1> QED BY <1>2, <1>3, <1>4

LEMMA AnsweredLedger ==
    ASSUME NEW own, NEW c, ClientOK(c, own), NEW i \in TxSlots, c.pending[i] # Free,
           NEW m, OneOwner(own) => m.about = c.pending[i].ctx, NEW reaction, Ledger(c, 0)
    PROVE  Ledger(Answered(c, i, m, reaction), 0) /\ Follows(Answered(c, i, m, reaction), c)
<1> DEFINE n  == c.pending[i].ctx
           c1 == CallResponse(c, n, m)
           r  == React(c1, i, reaction)
           t  == ReleaseOneShot(r, i)
           pending == [r.pending EXCEPT ![i] = Free]
<1>1. Typed(c) /\ Answered(c, i, m, reaction) = t
  BY TablesTyped DEF Answered
<1>2. /\ n \in 1 .. MaxCalls /\ n <= c.issued /\ Told(c.calls[n]) = 0
      /\ c.pending[i].observing => Subscribed(c.calls[n])
  BY <1>1, HolderOf
<1>3. ClientOK(c1, own)
  BY <1>2, CallResponseOK
<1>4. Settles(c1, c, n)
  BY <1>1, <1>2, ResponseSettles
<1> HIDE DEF n, c1
<1>5. Ledger(c1, n)
  BY <1>1, <1>2, <1>4, SettlesLedger
<1>6. /\ c1.pending = c.pending /\ c1.issued = c.issued /\ c1.calls[n].kind = c.calls[n].kind
      /\ ~c.calls[n].cancelled => c1.calls[n].late = c.calls[n].late
  BY <1>4 DEF Settles
<1>7. Ledger(r, n) /\ Keeps(r, c1) /\ Follows(r, c1)
  BY <1>3, <1>5, <1>6, ReactLedger
<1>8. PICK own2 : ClientOK(r, own2)
  BY <1>3, <1>6, ReactOK
<1> HIDE DEF r
<1>9. Typed(r) /\ ClientObject(r) /\ DOMAIN r.pending = TxSlots
  BY <1>8, TablesTyped DEF Typed
<1>10. /\ t.issued = r.issued /\ t.calls = r.calls /\ t.discovers = r.discovers
       /\ t.pending = IF r.pending[i] # Free /\ ~r.pending[i].observing THEN pending ELSE r.pending
  <2>1. t = IF r.pending[i] # Free /\ ~r.pending[i].observing
            THEN [r EXCEPT !.pending = pending] ELSE r
    BY DEF ReleaseOneShot
  <2> HIDE DEF t, pending
  <2> QED BY <1>9, <2>1 DEF ClientObject
<1>11. pending[i] = Free /\ \A j \in TxSlots \ {i} : pending[j] = r.pending[j]
  BY <1>9
<1> HIDE DEF t, pending
<1>12. Shrinks(t, r)
  BY <1>10, <1>11 DEF Shrinks, SameHolder, SameOutcomes
<1>13. Ledger(t, n)
  BY <1>7, <1>9, <1>12, ShrinksLedger
<1>14. Told(t.calls[n]) = 0 \/ NoSlotOf(t, n)
  <2>1. CASE c.pending[i].observing
    <3>1. r.calls[n].kind = "observe" /\ r.calls[n].late = c.calls[n].late
      BY <1>2, <1>6, <1>7, <2>1 DEF Keeps, Subscribed
    <3> QED BY <1>2, <1>10, <2>1, <3>1 DEF Told, OneShot, Subscribed
  <2>2. CASE ~c.pending[i].observing
    <3>1. r.pending[i] = c.pending[i] /\ r.pending[i] # Free /\ ~r.pending[i].observing
      BY <1>6, <1>7, <2>2 DEF Keeps
    <3>2. r.pending[i].ctx = n
      BY <3>1 DEF n
    <3>3. \A j \in TxSlots \ {i} : r.pending[j] # Free => r.pending[j].ctx # n
      BY <1>7, <3>1, <3>2 DEF Ledger, SlotLedger
    <3> QED BY <1>10, <1>11, <3>1, <3>3 DEF NoSlotOf
  <2> QED BY <2>1, <2>2
<1>15. Ledger(t, 0)
  BY <1>13, <1>14, ServedDone
<1>16. Follows(t, c)
  <2>1. Follows(c1, c)
    BY <1>4, SettlesFollows
  <2>2. Follows(t, r)
    BY <1>10, <1>11, <1>12, ShrinksFollows DEF Live
  <2> QED BY <1>1, <1>3, <1>7, <1>9, <2>1, <2>2, FollowsTwice, TablesTyped
<1> QED BY <1>1, <1>15, <1>16

(* The bookkeeping of a transfer does not concern the ledger. *)
LEMMA EntryShrinks ==
    ASSUME NEW c, Typed(c), NEW i \in TxSlots, c.pending[i] # Free,
           NEW p \in PendingEntry, SameHolder(p, c.pending[i])
    PROVE  /\ Typed(WithEntry(c, i, p)) /\ Shrinks(WithEntry(c, i, p), c)
           /\ Follows(WithEntry(c, i, p), c)
<1> DEFINE pending == [c.pending EXCEPT ![i] = p]
           t == WithEntry(c, i, p)
<1>1. /\ pending \in [TxSlots -> PendingEntry \cup {Free}] /\ pending[i] = p /\ p # Free
      /\ \A j \in TxSlots \ {i} : pending[j] = c.pending[j]
  BY FreeEntryAssumption DEF Typed
<1>2. t = [c EXCEPT !.pending = pending] /\ ClientObject(c)
  BY DEF WithEntry, Typed
<1> HIDE DEF pending, t
<1>3. t = [pending |-> pending, tx |-> c.tx, discovers |-> c.discovers,
           nextToken |-> c.nextToken, nextMid |-> c.nextMid, issued |-> c.issued,
           calls |-> c.calls, out |-> c.out]
  BY <1>2 DEF ClientObject
<1>4. Typed(t)
  BY <1>1, <1>3 DEF Typed, ClientObject
<1>5. Shrinks(t, c)
  BY <1>1, <1>3 DEF Shrinks, SameHolder, SameOutcomes
<1>6. Follows(t, c)
  BY <1>1, <1>3, <1>5, ShrinksFollows DEF Live
<1> QED BY <1>4, <1>5, <1>6 DEF t

LEMMA SendBlockLedger ==
    ASSUME NEW c, Typed(c), NEW pkt, NEW served, Ledger(c, served)
    PROVE  Ledger(SendBlock(c, pkt), served) /\ Follows(SendBlock(c, pkt), c)
<1>1. Shrinks(SendBlock(c, pkt), c)
  BY SendBlockShrinks DEF Shrinks, SameHolder, SameOutcomes
<1>2. SendBlock(c, pkt).pending = c.pending
  BY SendBlockShrinks
<1> QED BY <1>1, <1>2, ShrinksLedger, ShrinksFollows DEF Live

LEMMA OnContinueLedger ==
    ASSUME NEW c, Typed(c), NEW i \in TxSlots, c.pending[i] # Free,
           c.pending[i].up # NoUpload, Ledger(c, 0)
    PROVE  Ledger(OnContinue(c, i), 0) /\ Follows(OnContinue(c, i), c)
<1> DEFINE p  == c.pending[i]
           up == [p.up EXCEPT !.next = @ + 1]
           p1 == [p EXCEPT !.up = up]
           c1 == [c EXCEPT !.pending[i].up.next = @ + 1]
<1>1. p \in PendingEntry
  BY DEF Typed
<1>2. c1 = WithEntry(c, i, p1)
  BY DEF WithEntry
<1>3. OnContinue(c, i) = IF Offset(c1.pending[i].up.next) < c1.pending[i].up.size
                         THEN SendBlock1(c1, i)
                         ELSE CallTimeout([c1 EXCEPT !.pending[i] = Free], p.ctx)
  BY DEF OnContinue
<1> HIDE DEF p, c1
<1>4. p.up \in [size : Nat, next : Nat]
  BY <1>1 DEF PendingEntry
<1>5. up \in [size : Nat, next : Nat]
  BY <1>4
<1> HIDE DEF up
<1>6. p1 \in PendingEntry /\ SameHolder(p1, p) /\ p1.ctx = p.ctx /\ ~p1.observing
  <2>1. /\ p1 \in PendingEntry /\ p1.ctx = p.ctx /\ p1.observing = p.observing
        /\ p1.token = p.token
    BY <1>1, <1>5 DEF PendingEntry
  <2>2. ~p.observing
    BY DEF Ledger, HolderLedger, p
  <2> QED BY <1>1, <2>1, <2>2, FreeEntryAssumption DEF SameHolder, p
<1> HIDE DEF p1
<1>7. Typed(c1) /\ Shrinks(c1, c) /\ Follows(c1, c)
  BY <1>2, <1>6, EntryShrinks DEF p
<1>8. Ledger(c1, 0)
  BY <1>7, ShrinksLedger
<1>9. Ledger(SendBlock1(c1, i), 0) /\ Follows(SendBlock1(c1, i), c1)
  BY <1>7, <1>8, SendBlockLedger DEF SendBlock1
<1>10. c1.pending[i] = p1
  BY <1>2 DEF WithEntry, Typed, ClientObject
<1>11. c1.pending[i] # Free
  BY <1>6, <1>10, FreeEntryAssumption
<1>12. /\ Ledger(CallTimeout([c1 EXCEPT !.pending[i] = Free], c1.pending[i].ctx), 0)
       /\ Follows(CallTimeout([c1 EXCEPT !.pending[i] = Free], c1.pending[i].ctx), c1)
  BY <1>6, <1>7, <1>8, <1>10, <1>11, TimeoutLedger
<1> DEFINE t == OnContinue(c, i)
<1>13. Ledger(t, 0) /\ Follows(t, c1)
  BY <1>3, <1>6, <1>9, <1>10, <1>12
<1> HIDE DEF t
<1>14. Follows(t, c)
  BY <1>7, <1>13, FollowsTwice
<1> QED BY <1>13, <1>14 DEF t

LEMMA RecvLedger ==
    ASSUME NEW c, Typed(c), NEW i \in TxSlots, c.pending[i] # Free,
           NEW recv \in [active : BOOLEAN, next : Nat, data : Seq(Nat)],
           NEW served, Ledger(c, served)
    PROVE  /\ Typed(WithRecv(c, i, recv)) /\ Ledger(WithRecv(c, i, recv), served)
           /\ Follows(WithRecv(c, i, recv), c)
<1> DEFINE p == [c.pending[i] EXCEPT !.recv = recv]
<1>1. c.pending[i] \in PendingEntry
  BY DEF Typed
<1>2. p \in PendingEntry /\ SameHolder(p, c.pending[i])
  <2>1. /\ p \in PendingEntry /\ p.ctx = c.pending[i].ctx /\ p.token = c.pending[i].token
        /\ p.observing = c.pending[i].observing /\ p.up = c.pending[i].up
    BY <1>1 DEF PendingEntry
  <2> QED BY <2>1, FreeEntryAssumption DEF SameHolder
<1>3. WithRecv(c, i, recv) = WithEntry(c, i, p)
  BY DEF WithRecv, WithEntry
<1> HIDE DEF p
<1> QED BY <1>2, <1>3, EntryShrinks, ShrinksLedger

LEMMA UpLedger ==
    ASSUME NEW c, Typed(c), NEW i \in TxSlots, c.pending[i] # Free,
           NEW served, Ledger(c, served)
    PROVE  Ledger(WithUp(c, i, NoUpload), served) /\ Follows(WithUp(c, i, NoUpload), c)
<1> DEFINE p == [c.pending[i] EXCEPT !.up = NoUpload]
<1>1. c.pending[i] \in PendingEntry
  BY DEF Typed
<1>2. p \in PendingEntry /\ SameHolder(p, c.pending[i])
  <2>1. /\ p \in PendingEntry /\ p.ctx = c.pending[i].ctx /\ p.token = c.pending[i].token
        /\ p.observing = c.pending[i].observing /\ p.up = NoUpload
    BY <1>1 DEF PendingEntry, NoUpload
  <2> QED BY <2>1, FreeEntryAssumption DEF SameHolder
<1>3. WithUp(c, i, NoUpload) = WithEntry(c, i, p)
  BY DEF WithUp, WithEntry
<1> HIDE DEF p
<1> QED BY <1>2, <1>3, EntryShrinks, ShrinksLedger

LEMMA FirstBlockLedger ==
    ASSUME NEW c, Typed(c), NEW i \in TxSlots, c.pending[i] # Free,
           NEW m, m.src \in Servers, NEW served, Ledger(c, served)
    PROVE  Ledger(FirstBlock(c, i, m), served) /\ Follows(FirstBlock(c, i, m), c)
<1>1. ClientObject(c) /\ c.pending \in [TxSlots -> PendingEntry \cup {Free}]
  BY DEF Typed
<1> DEFINE p == Sourced(c, i, m)
<1>2. p \in PendingEntry /\ SameHolder(p, c.pending[i])
  BY <1>1, FirstBlockEntry, FreeEntryAssumption DEF SameHolder
<1>3. FirstBlock(c, i, m) = WithEntry(c, i, p)
  BY <1>1, FirstBlockEntry
<1> HIDE DEF p
<1> QED BY <1>2, <1>3, EntryShrinks, ShrinksLedger

(* What has been assembled is handed to call n. *)
WithBody(c, n, data) == [c EXCEPT !.calls[n].bodies = @ \cup {data}]

LEMMA WithBodyOK ==
    ASSUME NEW own, NEW c, ClientOK(c, own), NEW n \in 1 .. MaxCalls, NEW data \in Seq(Nat),
           NEW served, Ledger(c, served)
    PROVE  /\ ClientOK(WithBody(c, n, data), own) /\ Ledger(WithBody(c, n, data), served)
           /\ WithBody(c, n, data).pending = c.pending /\ Follows(WithBody(c, n, data), c)
<1> DEFINE bodies == c.calls[n].bodies \cup {data}
           call == [c.calls[n] EXCEPT !.bodies = bodies]
           calls == [c.calls EXCEPT ![n] = call]
           t == WithBody(c, n, data)
<1>1. c.calls[n] \in CallRecord /\ CallTable(c.calls, own) /\ Typed(c) /\ ClientObject(c)
  BY TablesTyped DEF ClientOK, CallTable
<1>2. bodies \in SUBSET Seq(Nat)
  BY <1>1 DEF CallRecord
<1>3. t = [c EXCEPT !.calls = calls]
  BY DEF WithBody
<1> HIDE DEF bodies
<1>4. call \in CallRecord /\ SameOutcomes(call, c.calls[n]) /\ call.wrong = c.calls[n].wrong
  BY <1>1, <1>2 DEF CallRecord, SameOutcomes, Outcomes
<1>5. Right(call, own)
  BY <1>1, <1>4 DEF CallTable, Right
<1> HIDE DEF call
<1>6. CallTable(calls, own)
  BY <1>1, <1>4, <1>5, PutCall
<1>7. \A k \in 1 .. MaxCalls : SameOutcomes(calls[k], c.calls[k])
  BY <1>1, <1>4 DEF Typed, SameOutcomes
<1> HIDE DEF calls
<1>8. ClientOK([c EXCEPT !.calls = calls], own)
  BY <1>6, CallsChange
<1> HIDE DEF t
<1>9. /\ t.pending = c.pending /\ t.discovers = c.discovers /\ t.issued = c.issued
      /\ t.calls = calls
  BY <1>1, <1>3 DEF ClientObject
<1>10. Shrinks(t, c)
  BY <1>7, <1>9 DEF Shrinks, SameHolder
<1>11. Ledger(t, served)
  BY <1>1, <1>10, ShrinksLedger
<1>12. Follows(t, c)
  BY <1>9, <1>10, ShrinksFollows DEF Live
<1> QED BY <1>3, <1>8, <1>9, <1>11, <1>12 DEF t

LEMMA OnBlock2Ledger ==
    ASSUME NEW own, NEW c, ClientOK(c, own), NEW i \in TxSlots, c.pending[i] # Free, NEW m,
           OneOwner(own) => m.about = c.pending[i].ctx,
           m.block2.num \in Nat, m.data \in Seq(Nat), NEW reaction, Ledger(c, 0)
    PROVE  Ledger(OnBlock2(c, i, m, reaction), 0) /\ Follows(OnBlock2(c, i, m, reaction), c)
<1> DEFINE recv == IF c.pending[i].recv.active THEN c.pending[i].recv ELSE NoDownload
           got  == Collected(recv, m)
           n    == c.pending[i].ctx
           c1   == WithRecv(c, i, got)
           c0   == WithRecv(c, i, NoDownload)
           c2   == WithBody(c0, n, got.data)
           t    == OnBlock2(c, i, m, reaction)
<1>1. /\ n \in 1 .. MaxCalls /\ Typed(c)
      /\ c.pending[i].recv \in [active : BOOLEAN, next : Nat, data : Seq(Nat)]
  BY TablesTyped DEF ClientOK, PendingTable, PendingEntry
<1>2. NoDownload \in [active : BOOLEAN, next : Nat, data : Seq(Nat)]
  BY DEF NoDownload
<1>3. recv \in [active : BOOLEAN, next : Nat, data : Seq(Nat)]
  BY <1>1, <1>2
<1>4. c2 = [c EXCEPT !.pending[i].recv = NoDownload, !.calls[n].bodies = @ \cup {got.data}]
  BY DEF WithBody, WithRecv, ClientOK, ClientObject
<1>5. t = IF m.block2.more THEN SendBlock2Request(c1, i) ELSE Answered(c2, i, m, reaction)
  BY <1>4 DEF OnBlock2, WithRecv
<1> HIDE DEF recv
<1>6. got \in [active : BOOLEAN, next : Nat, data : Seq(Nat)]
  BY <1>3, CollectedOK
<1> HIDE DEF got, t, n
<1>7. Typed(c1) /\ Ledger(c1, 0) /\ Follows(c1, c)
  BY <1>1, <1>6, RecvLedger
<1>8. Ledger(SendBlock2Request(c1, i), 0) /\ Follows(SendBlock2Request(c1, i), c1)
  BY <1>7, SendBlockLedger DEF SendBlock2Request
<1>9. /\ ClientOK(c0, own) /\ c0.pending[i] # Free /\ c0.pending[i].ctx = n
      /\ Ledger(c0, 0) /\ Follows(c0, c) /\ Typed(c0)
  BY <1>1, <1>2, RecvChange, RecvLedger DEF n
<1> HIDE DEF c0
<1>10. got.data \in Seq(Nat)
  BY <1>6
<1>11. ClientOK(c2, own) /\ Ledger(c2, 0) /\ c2.pending = c0.pending /\ Follows(c2, c0)
  BY <1>1, <1>9, <1>10, WithBodyOK
<1> HIDE DEF c2
<1>12. OneOwner(own) => m.about = c2.pending[i].ctx
  BY <1>9, <1>11 DEF n
<1>13. Ledger(Answered(c2, i, m, reaction), 0) /\ Follows(Answered(c2, i, m, reaction), c2)
  BY <1>9, <1>11, <1>12, AnsweredLedger
<1>14. /\ Follows(SendBlock2Request(c1, i), c)
       /\ Follows(Answered(c2, i, m, reaction), c)
  BY <1>1, <1>7, <1>8, <1>9, <1>11, <1>13, FollowsTwice
<1> QED BY <1>5, <1>8, <1>13, <1>14 DEF t

LEMMA OnMatchedLedger ==
    ASSUME NEW own, NEW c, ClientOK(c, own), NEW i \in TxSlots, c.pending[i] # Free, NEW m,
           OneOwner(own) => m.about = c.pending[i].ctx,
           HeardOK(m, own), IsResponse(m), NEW reaction, Ledger(c, 0)
    PROVE  Ledger(OnMatched(c, i, m, reaction), 0) /\ Follows(OnMatched(c, i, m, reaction), c)
<1> DEFINE c1 == WithUp(c, i, NoUpload)
           c2 == FirstBlock(c1, i, m)
<1>1. NoUpload \in [size : Nat, next : Nat] /\ Typed(c)
  BY TablesTyped DEF NoUpload
<1>2. OnMatched(c, i, m, reaction) =
        IF m.code = "Continue" /\ c.pending[i].up # NoUpload THEN OnContinue(c, i)
        ELSE IF HasOption(m, "block2") THEN OnBlock2(c2, i, m, reaction)
        ELSE Answered(c1, i, m, reaction)
  BY DEF OnMatched, WithUp
<1>3. /\ ClientOK(c1, own) /\ c1.pending[i] # Free
      /\ c1.pending[i].ctx = c.pending[i].ctx /\ Ledger(c1, 0) /\ Follows(c1, c)
  BY <1>1, UpChange, UpLedger
<1> HIDE DEF c1, c2
<1>4. CASE m.code = "Continue" /\ c.pending[i].up # NoUpload
  BY <1>1, <1>2, <1>4, OnContinueLedger
<1>5. CASE ~(m.code = "Continue" /\ c.pending[i].up # NoUpload) /\ HasOption(m, "block2")
  <2>1. m.block2.num \in Nat /\ m.data \in Seq(Nat) /\ m.src \in Servers
    BY <1>5 DEF HeardOK
  <2>2. /\ ClientOK(c2, own) /\ c2.pending[i] # Free
        /\ c2.pending[i].ctx = c.pending[i].ctx
    BY <1>3, <2>1, FirstBlockOK DEF c2
  <2>3. Typed(c1) /\ Ledger(c2, 0) /\ Follows(c2, c1)
    BY <1>3, <2>1, TablesTyped, FirstBlockLedger DEF c2
  <2>4. Follows(c2, c)
    BY <1>1, <1>3, <2>3, FollowsTwice
  <2>5. Ledger(OnBlock2(c2, i, m, reaction), 0) /\ Follows(OnBlock2(c2, i, m, reaction), c2)
    BY <2>1, <2>2, <2>3, OnBlock2Ledger
  <2>6. Follows(OnBlock2(c2, i, m, reaction), c)
    BY <1>1, <2>4, <2>5, FollowsTwice
  <2> QED BY <1>2, <1>5, <2>5, <2>6
<1>6. CASE ~(m.code = "Continue" /\ c.pending[i].up # NoUpload) /\ ~HasOption(m, "block2")
  <2>1. Ledger(Answered(c1, i, m, reaction), 0) /\ Follows(Answered(c1, i, m, reaction), c1)
    BY <1>3, AnsweredLedger
  <2>2. Follows(Answered(c1, i, m, reaction), c)
    BY <1>1, <1>3, <2>1, FollowsTwice
  <2> QED BY <1>2, <1>6, <2>1, <2>2
<1> QED BY <1>4, <1>5, <1>6

(* Neither packets sent nor the pool of transactions concern the ledger.   *)
SameRecords(t, c) ==
    /\ t.pending = c.pending /\ t.discovers = c.discovers
    /\ t.calls = c.calls /\ t.issued = c.issued

LEMMA SameRecordsLedger ==
    ASSUME NEW c, NEW t, SameRecords(t, c), NEW served, Ledger(c, served)
    PROVE  Ledger(t, served)
BY DEF SameRecords, Ledger, CallLedger, HolderLedger, SlotLedger, DiscoverLedger

LEMMA SameRecordsFollows == \A t, c : SameRecords(t, c) => Follows(t, c)
BY DEF SameRecords, Follows, StillHeld

LEMMA OnResponseLedger ==
    ASSUME NEW own, NEW c, ClientOK(c, own), NEW m, HeardOK(m, own), IsResponse(m),
           NEW reaction, Ledger(c, 0)
    PROVE  Ledger(OnResponse(c, m, reaction), 0) /\ Follows(OnResponse(c, m, reaction), c)
<1> DEFINE ack == EmptyAck(ClientEp, m.src, m.mid)
           c1  == IF m.type = "CON" THEN [c EXCEPT !.out = @ \cup {ack}] ELSE c
           d   == Min(DiscoverByToken(c1, m.token))
           i   == Min(PendingByToken(c1, m.token))
           n   == c1.discovers[d].ctx
           t   == CallResponse(c1, n, m)
<1>1. SentOK(ack, own)
  BY AckSent
<1>2. OnResponse(c, m, reaction) =
        IF DiscoverByToken(c1, m.token) # {} THEN t
        ELSE IF PendingByToken(c1, m.token) # {} THEN OnMatched(c1, i, m, reaction)
        ELSE c1
  BY DEF OnResponse
<1> HIDE DEF ack
<1>3. ClientOK(c1, own) /\ SameRecords(c1, c)
  <2>1. \A p \in {ack} : SentOK(p, own)
    BY <1>1
  <2>2. ClientOK([c EXCEPT !.out = @ \cup {ack}], own)
    BY <2>1, Sends
  <2> QED BY <2>2 DEF ClientOK, ClientObject, SameRecords
<1> HIDE DEF c1, d, i
<1>4. Ledger(c1, 0) /\ Typed(c1) /\ Follows(c1, c) /\ Typed(c)
  BY <1>3, SameRecordsLedger, SameRecordsFollows, TablesTyped
<1>5. CASE DiscoverByToken(c1, m.token) # {}
  <2>1. d \in DiscoverSlots /\ c1.discovers[d] # Free
    BY <1>3, <1>5, FirstOf DEF d
  <2>2. n \in 1 .. MaxCalls /\ n <= c1.issued /\ c1.calls[n].kind = "discover"
    BY <1>4, <2>1 DEF Typed, DiscoverEntry, Ledger, DiscoverLedger
  <2> HIDE DEF n
  <2>3. Settles(t, c1, n)
    BY <1>4, <2>2, ResponseSettles
  <2> HIDE DEF t
  <2>4. /\ ~c1.calls[n].cancelled /\ c1.calls[n].late = 0 /\ Told(c1.calls[n]) = 0
    BY <1>4, <2>2 DEF Ledger, CallLedger, Told, OneShot
  <2>5. Ledger(t, n)
    BY <1>4, <2>2, <2>3, <2>4, SettlesLedger
  <2>6. Told(t.calls[n]) = 0
    BY <2>2, <2>3, <2>4 DEF Settles, Told, OneShot
  <2>7. Ledger(t, 0)
    BY <2>5, <2>6, ServedDone
  <2>8. Follows(t, c)
    BY <1>4, <2>3, SettlesFollows, FollowsTwice
  <2> QED BY <1>2, <1>5, <2>7, <2>8
<1>6. CASE DiscoverByToken(c1, m.token) = {} /\ PendingByToken(c1, m.token) # {}
  <2>1. i \in TxSlots /\ c1.pending[i] # Free /\ c1.pending[i].token = m.token
    BY <1>3, <1>6, FirstOf DEF i
  <2>2. Owns(own, m.token, c1.pending[i].ctx)
    BY <1>3, <2>1 DEF ClientOK, PendingTable
  <2>3. OneOwner(own) => m.about = c1.pending[i].ctx
    BY <2>2 DEF HeardOK, IsResponse, OneOwner
  <2>4. Ledger(OnMatched(c1, i, m, reaction), 0) /\ Follows(OnMatched(c1, i, m, reaction), c1)
    BY <1>3, <1>4, <2>1, <2>3, OnMatchedLedger
  <2>5. Follows(OnMatched(c1, i, m, reaction), c)
    BY <1>4, <2>4, FollowsTwice
  <2> QED BY <1>2, <1>6, <2>4, <2>5
<1>7. CASE DiscoverByToken(c1, m.token) = {} /\ PendingByToken(c1, m.token) = {}
  BY <1>2, <1>4, <1>7
<1> QED BY <1>5, <1>6, <1>7

LEMMA CompleteTxTables ==
    ASSUME NEW own, NEW c, ClientOK(c, own), NEW remote, NEW mid
    PROVE  SameRecords([c EXCEPT !.tx = CompleteTx(@, remote, mid)], c)
BY DEF SameRecords, ClientOK, ClientObject

LEMMA OnPacketLedger ==
    ASSUME NEW own, NEW c, ClientOK(c, own), NEW m, HeardOK(m, own), NEW reaction, Ledger(c, 0)
    PROVE  Ledger(OnPacket(c, m, reaction), 0) /\ Follows(OnPacket(c, m, reaction), c)
<1> DEFINE c1 == IF m.type = "ACK" THEN [c EXCEPT !.tx = CompleteTx(@, m.src, m.mid)] ELSE c
<1>1. ClientOK(c1, own)
  BY CompleteTxOK
<1>2. SameRecords(c1, c)
  <2>1. SameRecords(c, c)
    BY DEF SameRecords
  <2> QED BY <2>1, CompleteTxTables
<1>3. OnPacket(c, m, reaction) = IF IsResponse(m) THEN OnResponse(c1, m, reaction) ELSE c1
  BY DEF OnPacket
<1> HIDE DEF c1
<1>4. Ledger(c1, 0) /\ Follows(c1, c) /\ Typed(c)
  BY <1>2, SameRecordsLedger, SameRecordsFollows, TablesTyped
<1> QED BY <1>1, <1>3, <1>4, OnResponseLedger, FollowsTwice

LEMMA OnResetLedger ==
    ASSUME NEW own, NEW c, ClientOK(c, own), NEW m, Ledger(c, 0)
    PROVE  Ledger(OnReset(c, m), 0)
<1> DEFINE slots == UNION {PendingByToken(c, token) : token \in GetToken(c.tx, m.src, m.mid)}
           c1 == [c EXCEPT !.tx = CompleteTx(@, m.src, m.mid)]
           i  == Min(slots)
<1>1. OnReset(c, m) = IF slots = {} THEN c1
                      ELSE CallTimeout([c1 EXCEPT !.pending[i] = Free], c1.pending[i].ctx)
  BY DEF OnReset
<1>2. ClientOK(c1, own)
  BY CompleteTxOK
<1>3. SameRecords(c1, c)
  BY CompleteTxTables
<1>4. slots # {} => i \in slots
  <2>1. slots \subseteq Occupied(c.pending) /\ DOMAIN c.pending \subseteq Nat
    BY SlotNumbers DEF PendingByToken, ClientOK, PendingTable
  <2> HIDE DEF slots
  <2> QED BY <2>1, VacantSlot
<1>5. slots # {} => i \in TxSlots /\ c.pending[i] # Free
  BY <1>4 DEF PendingByToken, Occupied, ClientOK, PendingTable
<1> HIDE DEF slots, i, c1
<1>6. Ledger(c1, 0) /\ Typed(c1) /\ c1.pending = c.pending
  BY <1>2, <1>3, SameRecordsLedger, TablesTyped DEF SameRecords
<1> QED BY <1>1, <1>5, <1>6, TimeoutLedger

LEMMA ExpireDiscoversLedger ==
    ASSUME NEW c, Typed(c), NEW gone, Ledger(c, 0)
    PROVE  Ledger(ExpireDiscovers(c, gone), 0)
<1> DEFINE table == [i \in DiscoverSlots |-> IF i \in gone THEN Free ELSE c.discovers[i]]
           t == ExpireDiscovers(c, gone)
<1>1. \A i \in DiscoverSlots : table[i] = Free \/ table[i] = c.discovers[i]
  OBVIOUS
<1>2. t = [c EXCEPT !.discovers = table] /\ ClientObject(c)
  BY DEF ExpireDiscovers, Typed
<1> HIDE DEF table, t
<1>3. t.pending = c.pending /\ t.discovers = table /\ t.calls = c.calls /\ t.issued = c.issued
  BY <1>2 DEF ClientObject
<1>4. Shrinks(t, c)
  BY <1>1, <1>3 DEF Shrinks, SameHolder, SameOutcomes
<1>5. Ledger(t, 0)
  BY <1>4, ShrinksLedger
<1> QED BY <1>5 DEF t

(* A tick ends any number of calls at once, each of them once.             *)
LEMMA TickLedger ==
    ASSUME NEW own, NEW c, ClientOK(c, own), NEW due \in SUBSET InFlight(c.tx), Ledger(c, 0)
    PROVE  Ledger(Tick(c, due), 0)
<1> DEFINE ended == TimedOut(c, due)
           pool  == TickTx(c.tx, due)
           table == [i \in TxSlots |-> IF i \in ended THEN Free ELSE c.pending[i]]
           of(n) == {i \in ended : c.pending[i].ctx = n}
           calls == [n \in 1 .. MaxCalls |-> Expire(c.calls[n], Cardinality(of(n)))]
           sent  == c.out \cup {c.tx[i].packet : i \in Resent(c.tx, due)}
           t     == Tick(c, due)
<1>1. Typed(c) /\ ClientObject(c)
  BY TablesTyped DEF ClientOK
<1>2. t = [c EXCEPT !.tx = pool, !.pending = table, !.calls = calls, !.out = sent]
  BY DEF Tick
<1>3. ended \subseteq TxSlots /\ \A i \in ended : c.pending[i] # Free
  BY <1>1 DEF TimedOut, Occupied, Typed
<1> HIDE DEF ended, pool, sent, t
<1>4. \A i \in TxSlots : \/ table[i] = Free
                         \/ table[i] = c.pending[i] /\ i \notin ended
  OBVIOUS
<1> DEFINE ExpiredCall(n) == Expire(c.calls[n], Cardinality(of(n)))
<1>5. ASSUME NEW n \in 1 .. MaxCalls
      PROVE  /\ ExpiredCall(n).kind = c.calls[n].kind
             /\ ExpiredCall(n).late = c.calls[n].late
             /\ ExpiredCall(n).cancelled = c.calls[n].cancelled
             /\ of(n) = {} => SameOutcomes(ExpiredCall(n), c.calls[n])
             /\ n > c.issued => of(n) = {}
             /\ Told(ExpiredCall(n)) <= 1
             /\ \A i \in TxSlots :
                   c.pending[i] # Free /\ c.pending[i].ctx = n /\ i \notin ended => of(n) = {}
  <2>1. c.calls[n] \in CallRecord
    BY <1>1 DEF Typed
  <2> DEFINE k == Cardinality(of(n))
             call == ExpiredCall(n)
  <2>2. /\ call.kind = c.calls[n].kind /\ call.responses = c.calls[n].responses
        /\ call.timeouts = Capped(c.calls[n].timeouts + k)
        /\ call.late = c.calls[n].late /\ call.cancelled = c.calls[n].cancelled
    BY <2>1 DEF Expire, CallRecord
  <2>3. of(n) = {} => k = 0
    BY FS_EmptySet
  <2>4. ASSUME of(n) # {}
        PROVE  Told(c.calls[n]) = 0 /\ k = 1
    <3>1. PICK i \in TxSlots : i \in ended /\ c.pending[i].ctx = n
      BY <1>3, <2>4
    <3>2. /\ Told(c.calls[n]) = 0
          /\ \A j \in TxSlots \ {i} : c.pending[j] # Free => c.pending[j].ctx # n
      BY <1>1, <1>3, <3>1, HolderOf
    <3>3. of(n) = {i}
      BY <1>3, <3>1, <3>2
    <3> HIDE DEF of
    <3> QED BY <3>2, <3>3, FS_Singleton
  <2>5. ASSUME NEW i \in TxSlots, c.pending[i] # Free, c.pending[i].ctx = n, i \notin ended
        PROVE  of(n) = {}
    <3>1. \A j \in TxSlots \ {i} : c.pending[j] # Free => c.pending[j].ctx # n
      BY <1>1, <2>5, HolderOf
    <3> QED BY <1>3, <2>5, <3>1
  <2>6. ASSUME n > c.issued PROVE of(n) = {}
    <3>1. \A i \in ended : c.pending[i].ctx <= c.issued /\ c.pending[i].ctx \in Nat /\ c.issued \in Nat
      BY <1>1, <1>3 DEF Ledger, HolderLedger, Typed, PendingEntry
    <3> QED BY <2>6, <3>1
  <2> HIDE DEF of, k, call
  <2>7. of(n) = {} => SameOutcomes(call, c.calls[n])
    BY <2>1, <2>2, <2>3 DEF SameOutcomes, Outcomes, Capped, CallRecord
  <2>8. Told(call) <= 1
    <3>1. CASE of(n) = {}
      BY <2>7, <3>1, SameOutcomesTold DEF Ledger, CallLedger
    <3>2. CASE of(n) # {}
      BY <2>1, <2>2, <2>4, <3>2 DEF Told, OneShot, Outcomes, Capped, CallRecord
    <3> QED BY <3>1, <3>2
  <2> QED BY <2>2, <2>5, <2>6, <2>7, <2>8 DEF call
<1>6. \A n \in 1 .. MaxCalls : calls[n] = ExpiredCall(n)
  OBVIOUS
<1> HIDE DEF ExpiredCall, of, table, calls
<1>7. /\ t.pending = table /\ t.calls = calls /\ t.discovers = c.discovers
      /\ t.issued = c.issued
  BY <1>1, <1>2 DEF ClientObject
<1>8. /\ \A i \in TxSlots : c.pending[i] # Free => c.pending[i].ctx \in 1 .. MaxCalls
      /\ \A i \in DiscoverSlots : c.discovers[i] # Free => c.discovers[i].ctx \in 1 .. MaxCalls
  BY <1>1 DEF Typed, PendingEntry, DiscoverEntry
<1>9. CallLedger(t)
  <2>1. \A n \in 1 .. MaxCalls : n > c.issued => SameOutcomes(t.calls[n], c.calls[n])
    BY <1>5, <1>6, <1>7
  <2>2. \A n \in 1 .. MaxCalls : n > t.issued => Untouched(t.calls[n])
    BY <1>7, <2>1, SameOutcomesTold DEF Ledger, CallLedger
  <2> QED BY <1>5, <1>6, <1>7, <2>2 DEF Ledger, CallLedger
<1>10. HolderLedger(t)
  BY <1>4, <1>5, <1>6, <1>7, <1>8 DEF Ledger, HolderLedger, Subscribed
<1>11. SlotLedger(t, 0)
  <2> SUFFICES ASSUME NEW i \in TxSlots, t.pending[i] # Free
               PROVE  /\ Told(t.calls[t.pending[i].ctx]) = 0
                      /\ \A j \in TxSlots \ {i} :
                            t.pending[j] # Free => t.pending[j].ctx # t.pending[i].ctx
    BY DEF SlotLedger
  <2> DEFINE n == t.pending[i].ctx
  <2>1. /\ t.pending[i] = c.pending[i] /\ i \notin ended /\ c.pending[i] # Free
        /\ n \in 1 .. MaxCalls /\ n = c.pending[i].ctx
    BY <1>4, <1>7, <1>8
  <2> HIDE DEF n
  <2>2. /\ Told(c.calls[n]) = 0
        /\ \A j \in TxSlots \ {i} : c.pending[j] # Free => c.pending[j].ctx # n
    BY <1>1, <2>1, HolderOf
  <2>3. SameOutcomes(t.calls[n], c.calls[n])
    BY <1>5, <1>6, <1>7, <2>1
  <2>4. Told(t.calls[n]) = 0
    BY <2>2, <2>3, SameOutcomesTold
  <2> QED BY <1>4, <1>7, <2>2, <2>4 DEF n
<1>12. DiscoverLedger(t)
  BY <1>5, <1>6, <1>7, <1>8 DEF Ledger, DiscoverLedger
<1> QED BY <1>9, <1>10, <1>11, <1>12 DEF Ledger, t

LEMMA FinishPollLedger ==
    ASSUME NEW own, NEW c, ClientOK(c, own), NEW gone, NEW due \in SUBSET InFlight(c.tx),
           Ledger(c, 0)
    PROVE  Ledger(FinishPoll(c, gone, due), 0)
<1>1. ClientOK(ExpireDiscovers(c, gone), own) /\ Ledger(ExpireDiscovers(c, gone), 0)
  BY TablesTyped, ExpireDiscoversOK, ExpireDiscoversLedger
<1>2. ExpireDiscovers(c, gone).tx = c.tx
  BY DEF ExpireDiscovers, ClientOK, ClientObject
<1> QED BY <1>1, <1>2, TickLedger DEF FinishPoll

(* What ends a live subscription.  Besides a cancellation and a Reset it   *)
(* is a transaction with the token of the subscription that has run out.   *)
TimerEnded(p, t, c, due) ==
    \E k \in due : /\ c.tx[k].token = p.token /\ c.tx[k].retries = MaxRetransmit
                   /\ t.tx[k] = Free

FollowsOrEnds(t, c, due) ==
    /\ \A n \in 1 .. MaxCalls : c.calls[n].cancelled => t.calls[n].cancelled
    /\ \A i \in TxSlots : Live(c.pending[i]) =>
          \/ t.calls[c.pending[i].ctx].cancelled \/ StillHeld(t.pending[i], c.pending[i])
          \/ TimerEnded(c.pending[i], t, c, due)

(* timeoutTrampoline() is called for a transaction of that token. *)
LEMMA TimedOutHasTimer ==
    ASSUME NEW own, NEW c, ClientOK(c, own), NEW due \in SUBSET InFlight(c.tx),
           NEW i \in TimedOut(c, due)
    PROVE  \E k \in Expired(c.tx, due) : c.tx[k].token = c.pending[i].token
<1> DEFINE token == c.pending[i].token
           same  == {j \in PendingByToken(c, token) : j <= i}
           ended == ExpiredWith(c, due, token)
<1>1. i \in Occupied(c.pending) /\ Cardinality(same) <= Cardinality(ended)
  BY DEF TimedOut
<1>2. Occupied(c.pending) \subseteq TxSlots
  BY DEF Occupied, ClientOK, PendingTable
<1>3. i \in same /\ same \subseteq TxSlots
  <2>1. i \in PendingByToken(c, token) /\ PendingByToken(c, token) \subseteq TxSlots
    BY <1>1, <1>2 DEF PendingByToken
  <2>2. i \in Nat
    BY <1>1, <1>2, SlotNumbers
  <2> HIDE DEF token
  <2> QED BY <2>1, <2>2
<1>4. IsFiniteSet(TxSlots)
  BY PoolAssumption, FS_Interval DEF TxSlots
<1> HIDE DEF same
<1>5. Cardinality(same) \in Nat /\ Cardinality(same) # 0
  <2>1. IsFiniteSet(same)
    BY <1>3, <1>4, FS_Subset
  <2> QED BY <1>3, <2>1, FS_CardinalityType, FS_EmptySet
<1>6. ended # {}
  <2>1. Cardinality({}) = 0
    BY FS_EmptySet
  <2> HIDE DEF ended
  <2> QED BY <1>1, <1>5, <2>1
<1> QED BY <1>6 DEF ExpiredWith

LEMMA TickFollows ==
    ASSUME NEW own, NEW c, ClientOK(c, own), NEW due \in SUBSET InFlight(c.tx)
    PROVE  FollowsOrEnds(Tick(c, due), c, due)
<1> DEFINE ended == TimedOut(c, due)
           pool  == TickTx(c.tx, due)
           table == [i \in TxSlots |-> IF i \in ended THEN Free ELSE c.pending[i]]
           of(n) == {i \in ended : c.pending[i].ctx = n}
           calls == [n \in 1 .. MaxCalls |-> Expire(c.calls[n], Cardinality(of(n)))]
           sent  == c.out \cup {c.tx[i].packet : i \in Resent(c.tx, due)}
           t     == Tick(c, due)
<1>1. Typed(c) /\ ClientObject(c)
  BY TablesTyped DEF ClientOK
<1>2. t = [c EXCEPT !.tx = pool, !.pending = table, !.calls = calls, !.out = sent]
  BY DEF Tick
<1>3. \A n \in 1 .. MaxCalls : c.calls[n].cancelled => calls[n].cancelled
  <2> SUFFICES ASSUME NEW n \in 1 .. MaxCalls
               PROVE  c.calls[n].cancelled => calls[n].cancelled
    OBVIOUS
  <2>1. c.calls[n] \in CallRecord /\ calls[n] = Expire(c.calls[n], Cardinality(of(n)))
    BY <1>1 DEF Typed
  <2> HIDE DEF of, calls
  <2> QED BY <2>1 DEF Expire, CallRecord
<1>4. ASSUME NEW i \in TxSlots, Live(c.pending[i])
      PROVE  \/ StillHeld(table[i], c.pending[i])
             \/ \E k \in due : /\ c.tx[k].token = c.pending[i].token
                               /\ c.tx[k].retries = MaxRetransmit /\ pool[k] = Free
  <2>1. CASE i \in ended
    <3>1. PICK k \in Expired(c.tx, due) : c.tx[k].token = c.pending[i].token
      BY <2>1, TimedOutHasTimer
    <3>2. /\ k \in due /\ k \in TxSlots /\ c.tx[k].retries >= MaxRetransmit
          /\ c.tx[k].retries \in 0 .. MaxRetransmit
      BY DEF Expired, InFlight, ClientOK, ClientPool, TransactionOK
    <3>3. c.tx[k].retries = MaxRetransmit /\ ~(c.tx[k].retries < MaxRetransmit)
      BY <3>2, PoolAssumption
    <3>4. pool[k] = Free
      BY <3>2, <3>3 DEF TickTx, Resent, Expired
    <3> QED BY <3>1, <3>2, <3>3, <3>4
  <2>2. CASE i \notin ended
    BY <1>4, <2>2 DEF StillHeld
  <2> QED BY <2>1, <2>2
<1> HIDE DEF pool, table, calls, sent, t
<1>5. t.pending = table /\ t.calls = calls /\ t.tx = pool
  BY <1>1, <1>2 DEF ClientObject
<1>6. FollowsOrEnds(t, c, due)
  BY <1>3, <1>4, <1>5 DEF FollowsOrEnds, TimerEnded
<1> QED BY <1>6 DEF t

LEMMA FinishPollFollows ==
    ASSUME NEW own, NEW c, ClientOK(c, own), NEW gone, NEW due \in SUBSET InFlight(c.tx)
    PROVE  FollowsOrEnds(FinishPoll(c, gone, due), c, due)
<1> DEFINE c1 == ExpireDiscovers(c, gone)
<1>1. ClientOK(c1, own)
  BY ExpireDiscoversOK
<1>2. c1.tx = c.tx /\ c1.pending = c.pending /\ c1.calls = c.calls
  BY DEF ExpireDiscovers, ClientOK, ClientObject
<1> HIDE DEF c1
<1>3. FollowsOrEnds(Tick(c1, due), c1, due)
  BY <1>1, <1>2, TickFollows
<1> DEFINE t == Tick(c1, due)
<1> HIDE DEF t
<1>4. FollowsOrEnds(t, c, due)
  BY <1>2, <1>3 DEF FollowsOrEnds, TimerEnded, t
<1> QED BY <1>4 DEF FinishPoll, c1, t

(* What a step may do to the subscriptions: SubscriptionHolds with the     *)
(* transactions that tick() finds due named.                               *)
SubscriptionsHold ==
    \A i \in TxSlots : Live(cl.pending[i]) =>
       \/ cl'.calls[cl.pending[i].ctx].cancelled \/ StillHeld(cl'.pending[i], cl.pending[i])
       \/ \E m \in net : ClientReset(m)
       \/ TimerEnded(cl.pending[i], cl', cl, InFlight(cl.tx))

LEMMA FollowsHolds == Follows(cl', cl) => SubscriptionsHold
BY DEF Follows, SubscriptionsHold

(* What was collected in out is gone at the end of an action. *)
LEMMA DepartsLedger ==
    ASSUME NEW own, NEW c, ClientOK(c, own), Ledger(c, 0), cl' = [c EXCEPT !.out = {}]
    PROVE  Ledger(cl', 0) /\ Follows(cl', c)
<1>1. SameRecords(cl', c)
  BY DEF SameRecords, ClientOK, ClientObject
<1> QED BY <1>1, SameRecordsLedger, SameRecordsFollows

LEMMA CallApiLedger ==
    ASSUME NEW own, ClientTablesOK(own), Ledger(cl, 0), CallApi
    PROVE  Ledger(cl', 0) /\ Follows(cl', cl)
<1>1. cl.issued < MaxCalls /\ Vacant(cl.pending) # {}
  BY DEF CallApi
<1>2. PICK server \in Servers : \E path \in Paths, kind \in RequestKinds :
         cl' = [Issue(cl, server, path, kind) EXCEPT !.out = {}]
  BY DEF CallApi
<1>3. PICK path \in Paths : \E kind \in RequestKinds :
         cl' = [Issue(cl, server, path, kind) EXCEPT !.out = {}]
  BY <1>2
<1>4. PICK kind \in RequestKinds : cl' = [Issue(cl, server, path, kind) EXCEPT !.out = {}]
  BY <1>3
<1> DEFINE c == Issue(cl, server, path, kind)
           own2 == With(own, cl.nextToken, cl.issued + 1)
<1>5. Grows(own2, own, cl.nextToken) /\ Owns(own2, cl.nextToken, cl.issued + 1)
  BY <1>1, NextCall, WithExtends DEF ClientTablesOK
<1>6. ClientOK(cl, own2)
  BY <1>5, ExtendsClientOK DEF Grows, ClientTablesOK
<1> HIDE DEF own2
<1>7. kind \in [code : MethodCodes, con : BOOLEAN, observe : BOOLEAN, size : Nat]
  BY ClientAssumption
<1>8. ClientOK(c, own2)
  BY <1>1, <1>5, <1>6, <1>7, IssueOK
<1>9. Typed(cl) /\ cl.nextToken \in TokenBytes
  BY <1>6, TablesTyped DEF ClientOK
<1>10. Ledger(c, 0) /\ Follows(c, cl)
  BY <1>1, <1>7, <1>9, IssueLedger
<1> HIDE DEF c
<1>11. cl' = [c EXCEPT !.out = {}]
  BY <1>4 DEF c
<1>12. Ledger(cl', 0) /\ Follows(cl', c)
  BY <1>8, <1>10, <1>11, DepartsLedger
<1> QED BY <1>9, <1>10, <1>12, FollowsTwice

(* The state after the token and the message ID have been taken *)
LEMMA ConsumeIdsLedger ==
    ASSUME NEW own, ClientTablesOK(own), Ledger(cl, 0)
    PROVE  /\ ClientOK(ConsumeIds(cl), own) /\ Typed(ConsumeIds(cl)) /\ Ledger(ConsumeIds(cl), 0)
           /\ Follows(ConsumeIds(cl), cl) /\ Typed(cl)
<1>1. ClientOK(ConsumeIds(cl), own) /\ SameRecords(ConsumeIds(cl), cl)
  BY ConsumeIdsOK DEF ClientTablesOK, SameRecords
<1> QED BY <1>1, SameRecordsLedger, SameRecordsFollows, TablesTyped DEF ClientTablesOK

LEMMA CallApiFailsLedger ==
    ASSUME NEW own, ClientTablesOK(own), Ledger(cl, 0), CallApiFails
    PROVE  Ledger(cl', 0) /\ Follows(cl', cl)
<1> DEFINE c == ConsumeIds(cl)
           t == Number(c, "failed")
<1>1. cl' = t /\ cl.issued < MaxCalls
  BY DEF CallApiFails
<1>2. /\ Typed(c) /\ Ledger(c, 0) /\ c.issued = cl.issued
      /\ Follows(c, cl) /\ Typed(cl)
  BY ConsumeIdsLedger, ConsumeIdsOK DEF ClientTablesOK
<1> HIDE DEF c
<1>3. Opens(t, c, "failed")
  BY <1>1, <1>2, NumberOpens
<1> HIDE DEF t
<1>4. Ledger(t, 0) /\ Follows(t, c)
  BY <1>1, <1>2, <1>3, OpensLedger, OpensFollows
<1> QED BY <1>1, <1>2, <1>4, FollowsTwice

LEMMA CancelObserveLedger ==
    ASSUME NEW own, ClientTablesOK(own), Ledger(cl, 0), NEW server \in Servers,
           NEW path \in Paths, CancelObserve(server, path)
    PROVE  Ledger(cl', 0) /\ Follows(cl', cl)
<1> DEFINE c == Deregister(cl, server, path)
           n == cl.pending[Min(Subscriptions(cl, server, path))].ctx
           own2 == With(own, cl.nextToken, n)
<1>1. Subscriptions(cl, server, path) # {} /\ cl' = [c EXCEPT !.out = {}]
  BY DEF CancelObserve
<1>2. Grows(own2, own, cl.nextToken) /\ Owns(own2, cl.nextToken, n)
  BY <1>1, SubscriptionSlot, WithExtends DEF ClientTablesOK
<1>3. ClientOK(cl, own2)
  BY <1>2, ExtendsClientOK DEF Grows, ClientTablesOK
<1> HIDE DEF own2
<1>4. ClientOK(c, own2)
  BY <1>1, <1>2, <1>3, DeregisterOK
<1>5. Ledger(c, 0) /\ Follows(c, cl)
  BY <1>1, <1>3, TablesTyped, DeregisterLedger
<1> HIDE DEF c
<1>6. Ledger(cl', 0) /\ Follows(cl', c)
  BY <1>1, <1>4, <1>5, DepartsLedger
<1> QED BY <1>3, <1>5, <1>6, FollowsTwice, TablesTyped

LEMMA CancelObserveFailsLedger ==
    ASSUME NEW own, ClientTablesOK(own), Ledger(cl, 0), NEW server \in Servers,
           NEW path \in Paths, CancelObserveFails(server, path)
    PROVE  Ledger(cl', 0) /\ Follows(cl', cl)
<1> DEFINE i  == Min(Subscriptions(cl, server, path))
           n  == cl.pending[i].ctx
           c0 == ConsumeIds(cl)
           pending == [c0.pending EXCEPT ![i] = Free]
           call == [c0.calls[n] EXCEPT !.cancelled = TRUE]
           calls == [c0.calls EXCEPT ![n] = call]
<1>1. cl' = [c0 EXCEPT !.pending = pending, !.calls = calls]
  BY DEF CancelObserveFails
<1>2. /\ Typed(c0) /\ Ledger(c0, 0) /\ c0.pending = cl.pending
      /\ Follows(c0, cl) /\ Typed(cl)
  BY ConsumeIdsLedger, ConsumeIdsOK DEF ClientTablesOK
<1>3. i \in TxSlots /\ cl.pending[i] # Free /\ cl.pending[i].observing
  <2>1. DOMAIN cl.pending = TxSlots
    <3>1. Typed(cl)
      BY <1>2
    <3> QED BY <3>1 DEF Typed
  <2>2. i \in Subscriptions(cl, server, path)
    BY <2>1, SlotNumbers, VacantSlot DEF Subscriptions, CancelObserveFails
  <2> QED BY <2>1, <2>2 DEF Subscriptions, Occupied
<1> HIDE DEF c0, i
<1>4. n \in 1 .. MaxCalls
  BY <1>2, <1>3 DEF Typed, PendingEntry
<1> HIDE DEF n
<1>5. pending[i] = Free /\ \A j \in TxSlots \ {i} : pending[j] = c0.pending[j]
  BY <1>2, <1>3 DEF Typed
<1>6. /\ call.kind = c0.calls[n].kind /\ call.cancelled
      /\ Outcomes(call) = Outcomes(c0.calls[n]) /\ call.late = c0.calls[n].late
  BY <1>2, <1>4 DEF Typed, CallRecord, Outcomes
<1> HIDE DEF call
<1>7. calls[n] = call /\ \A k \in 1 .. MaxCalls : k # n => calls[k] = c0.calls[k]
  BY <1>2, <1>4 DEF Typed
<1> HIDE DEF pending, calls
<1>8. ClientObject(c0)
  BY <1>2 DEF Typed
<1>9. /\ cl'.pending = pending /\ cl'.calls = calls /\ cl'.discovers = c0.discovers
      /\ cl'.issued = c0.issued
  BY <1>1, <1>8 DEF ClientObject
<1>10. \E k \in TxSlots :
          /\ c0.pending[k] # Free /\ c0.pending[k].observing /\ c0.pending[k].ctx = n
          /\ cl'.pending[k] = Free
          /\ \A j \in TxSlots \ {k} : cl'.pending[j] = c0.pending[j]
  BY <1>2, <1>3, <1>5, <1>9 DEF n
<1>11. Cancels(cl', c0, n)
  BY <1>6, <1>7, <1>9, <1>10 DEF Cancels
<1>12. Follows(cl', c0)
  BY <1>2, <1>4, <1>11, CancelsFollows
<1> QED BY <1>2, <1>4, <1>11, <1>12, CancelsLedger, FollowsTwice

LEMMA DiscoverLedgerStep ==
    ASSUME NEW own, ClientTablesOK(own), Ledger(cl, 0), Discover
    PROVE  Ledger(cl', 0) /\ Follows(cl', cl)
<1> DEFINE n   == cl.issued + 1
           k   == Min(Vacant(cl.discovers))
           e   == [token |-> cl.nextToken, ctx |-> n]
           c0  == ConsumeIds(cl)
           c1  == Number(c0, "discover")
           table == [c1.discovers EXCEPT ![k] = e]
<1>1. cl.issued < MaxCalls /\ cl' = [c1 EXCEPT !.discovers = table]
  BY DEF Discover
<1>2. /\ Typed(c0) /\ Ledger(c0, 0) /\ c0.issued = cl.issued
      /\ Follows(c0, cl) /\ Typed(cl)
  BY ConsumeIdsLedger, ConsumeIdsOK DEF ClientTablesOK
<1> HIDE DEF c0, k
<1>3. Opens(c1, c0, "discover") /\ Typed(c1)
  BY <1>1, <1>2, NumberOpens
<1> HIDE DEF c1
<1>4. /\ Ledger(c1, 0) /\ c1.issued = n /\ c1.calls[n].kind = "discover"
      /\ c1.issued \in Nat /\ Follows(c1, cl)
  <2>1. Ledger(c1, 0) /\ c1.calls[c1.issued].kind = "discover"
    BY <1>1, <1>2, <1>3, OpensLedger
  <2>2. c1.issued = n /\ c1.issued \in Nat
    BY <1>2, <1>3 DEF Opens, Typed
  <2>3. Follows(c1, c0)
    BY <1>1, <1>2, <1>3, OpensFollows
  <2>4. Follows(c1, cl)
    BY <1>2, <2>3, FollowsTwice
  <2> QED BY <2>1, <2>2, <2>4
<1>5. \A j \in DiscoverSlots : table[j] = c1.discovers[j] \/ table[j].ctx = n
  BY <1>3 DEF Typed
<1> HIDE DEF table, n
<1>6. ClientObject(c1)
  BY <1>3 DEF Typed
<1>7. /\ cl'.pending = c1.pending /\ cl'.discovers = table /\ cl'.calls = c1.calls
      /\ cl'.issued = c1.issued
  BY <1>1, <1>6 DEF ClientObject
<1>8. CallLedger(cl') /\ HolderLedger(cl') /\ SlotLedger(cl', 0)
  BY <1>4, <1>7 DEF Ledger, CallLedger, HolderLedger, SlotLedger
<1>9. DiscoverLedger(cl')
  BY <1>4, <1>5, <1>7 DEF Ledger, DiscoverLedger
<1>10. Follows(cl', cl)
  BY <1>4, <1>7 DEF Follows
<1> QED BY <1>8, <1>9, <1>10 DEF Ledger

LEMMA ClientReceiveLedger ==
    ASSUME NEW own, ClientTablesOK(own), Ledger(cl, 0), NEW m \in net, ClientReceive(m)
    PROVE  Ledger(cl', 0) /\ SubscriptionsHold
<1>1. HeardOK(m, own)
  BY DEF ClientTablesOK, PacketsOK
<1>2. PICK reaction \in Reactions :
         LET c1 == OnPacket(cl, m, reaction)
             old == {i \in InFlight(c1.tx) : c1.tx[i] = cl.tx[i]}
         IN  \E gone \in SUBSET Occupied(c1.discovers), due \in SUBSET old :
               cl' = [FinishPoll(c1, gone, due) EXCEPT !.out = {}]
  BY DEF ClientReceive
<1> DEFINE c1 == OnPacket(cl, m, reaction)
           old == {i \in InFlight(c1.tx) : c1.tx[i] = cl.tx[i]}
<1>3. \E gone \in SUBSET Occupied(c1.discovers), due \in SUBSET old :
         cl' = [FinishPoll(c1, gone, due) EXCEPT !.out = {}]
  BY <1>2
<1>4. PICK own2 : ClientOK(c1, own2)
  BY <1>1, OnPacketOK DEF ClientTablesOK
<1>5. Ledger(c1, 0) /\ Follows(c1, cl) /\ Typed(cl)
  BY <1>1, OnPacketLedger, TablesTyped DEF ClientTablesOK
<1> HIDE DEF c1
<1>6. PICK gone \in SUBSET Occupied(c1.discovers) : \E due \in SUBSET old :
         cl' = [FinishPoll(c1, gone, due) EXCEPT !.out = {}]
  BY <1>3
<1>7. PICK due \in SUBSET old : cl' = [FinishPoll(c1, gone, due) EXCEPT !.out = {}]
  BY <1>6
<1> DEFINE c == FinishPoll(c1, gone, due)
<1>8. ClientOK(c, own2) /\ Ledger(c, 0) /\ FollowsOrEnds(c, c1, due)
  BY <1>4, <1>5, FinishPollOK, FinishPollLedger, FinishPollFollows
<1> HIDE DEF c
<1>9. cl' = [c EXCEPT !.out = {}]
  BY <1>7 DEF c
<1>10. Ledger(cl', 0)
  BY <1>8, <1>9, DepartsLedger
<1>11. cl'.calls = c.calls /\ cl'.pending = c.pending /\ cl'.tx = c.tx
  BY <1>8, <1>9 DEF ClientOK, ClientObject
<1>12. ASSUME NEW i \in TxSlots, Live(cl.pending[i])
       PROVE  \/ cl'.calls[cl.pending[i].ctx].cancelled \/ StillHeld(cl'.pending[i], cl.pending[i])
              \/ TimerEnded(cl.pending[i], cl', cl, InFlight(cl.tx))
  <2> DEFINE n == cl.pending[i].ctx
  <2>1. n \in 1 .. MaxCalls
    BY <1>5, <1>12 DEF Typed, PendingEntry, Live
  <2>2. CASE c1.calls[n].cancelled
    BY <1>8, <1>11, <2>1, <2>2 DEF FollowsOrEnds
  <2>3. CASE StillHeld(c1.pending[i], cl.pending[i])
    <3>1. CASE c.calls[n].cancelled \/ StillHeld(c.pending[i], c1.pending[i])
      BY <1>11, <2>3, <3>1 DEF StillHeld
    <3>2. CASE TimerEnded(c1.pending[i], c, c1, due)
      <4>1. PICK k \in due : /\ c1.tx[k].token = c1.pending[i].token
                             /\ c1.tx[k].retries = MaxRetransmit /\ c.tx[k] = Free
        BY <3>2 DEF TimerEnded
      <4>2. k \in InFlight(cl.tx) /\ c1.tx[k] = cl.tx[k]
        BY DEF InFlight
      <4> QED BY <1>11, <2>3, <4>1, <4>2 DEF TimerEnded, StillHeld
    <3>3. \/ c.calls[n].cancelled \/ StillHeld(c.pending[i], c1.pending[i])
          \/ TimerEnded(c1.pending[i], c, c1, due)
      BY <1>8, <2>3 DEF FollowsOrEnds, StillHeld
    <3> QED BY <3>1, <3>2, <3>3
  <2> QED BY <1>5, <1>12, <2>2, <2>3 DEF Follows
<1> QED BY <1>10, <1>12 DEF SubscriptionsHold

(* Whatever the client does *)
LEMMA LedgerStep ==
    ASSUME NEW own, ClientTablesOK(own), Ledger(cl, 0), ClientNext
    PROVE  Ledger(cl', 0) /\ SubscriptionsHold
<1>1. CASE CallApi
  BY <1>1, CallApiLedger, FollowsHolds
<1>2. CASE CallApiFails
  BY <1>2, CallApiFailsLedger, FollowsHolds
<1>3. CASE \E server \in Servers, path \in Paths : CancelObserve(server, path)
  BY <1>3, CancelObserveLedger, FollowsHolds
<1>4. CASE \E server \in Servers, path \in Paths : CancelObserveFails(server, path)
  BY <1>4, CancelObserveFailsLedger, FollowsHolds
<1>5. CASE Discover
  BY <1>5, DiscoverLedgerStep, FollowsHolds
<1>6. CASE ClientIdlePoll
  <2>1. PICK gone \in SUBSET Occupied(cl.discovers) : \E due \in SUBSET InFlight(cl.tx) :
           cl' = [FinishPoll(cl, gone, due) EXCEPT !.out = {}]
    BY <1>6 DEF ClientIdlePoll
  <2>2. PICK due \in SUBSET InFlight(cl.tx) :
           cl' = [FinishPoll(cl, gone, due) EXCEPT !.out = {}]
    BY <2>1
  <2> DEFINE c == FinishPoll(cl, gone, due)
  <2>3. ClientOK(c, own) /\ Ledger(c, 0) /\ FollowsOrEnds(c, cl, due)
    BY FinishPollOK, FinishPollLedger, FinishPollFollows DEF ClientTablesOK
  <2> HIDE DEF c
  <2>4. cl' = [c EXCEPT !.out = {}]
    BY <2>2 DEF c
  <2>5. cl'.calls = c.calls /\ cl'.pending = c.pending /\ cl'.tx = c.tx
    BY <2>3, <2>4 DEF ClientOK, ClientObject
  <2>6. SubscriptionsHold
    BY <2>3, <2>5 DEF FollowsOrEnds, TimerEnded, SubscriptionsHold
  <2> QED BY <2>3, <2>4, <2>6, DepartsLedger
<1>7. CASE \E m \in net : ClientReset(m)
  <2>1. SubscriptionsHold
    BY <1>7 DEF SubscriptionsHold
  <2> QED BY <1>7, <2>1, OnResetLedger DEF ClientReset, ClientTablesOK
<1>8. CASE \E m \in net : ClientReceive(m)
  BY <1>8, ClientReceiveLedger
<1> QED BY <1>1, <1>2, <1>3, <1>4, <1>5, <1>6, <1>7, <1>8 DEF ClientNext

LEMMA LedgerInitially == ClientInit => Ledger(cl, 0)
<1> SUFFICES ASSUME ClientInit PROVE Ledger(cl, 0)
  OBVIOUS
<1>1. /\ \A i \in TxSlots : cl.pending[i] = Free
      /\ \A i \in DiscoverSlots : cl.discovers[i] = Free
      /\ \A n \in 1 .. MaxCalls : cl.calls[n] = NotCalled
  BY DEF ClientInit, ClientInitState
<1>2. Untouched(NotCalled) /\ Told(NotCalled) = 0
  BY DEF NotCalled, Untouched, Told, OneShot, Outcomes
<1> QED BY <1>1, <1>2 DEF Ledger, CallLedger, HolderLedger, SlotLedger, DiscoverLedger, Untouched

LEMMA LedgerImplies == Ledger(cl, 0) => OneOutcome /\ (Typed(cl) => QuietAfterCancel)
<1>1. Ledger(cl, 0) => OneOutcome
  BY DEF Ledger, CallLedger, OneOutcome, OneShot, Outcomes, Told
<1>2. ASSUME Ledger(cl, 0), Typed(cl), NEW n \in 1 .. MaxCalls
      PROVE  cl.calls[n].late <= 1
  <2>1. cl.calls[n].cancelled => Told(cl.calls[n]) = cl.calls[n].late
    BY <1>2 DEF Ledger, CallLedger, Told, OneShot
  <2> QED BY <1>2, <2>1 DEF Ledger, CallLedger
<1> QED BY <1>1, <1>2 DEF QuietAfterCancel
-----------------------------------------------------------------------------
(* Subscriptions and tokens.  The packets in the client's hands: those it  *)
(* has yet to hand to the network, and those it may resend.                *)
Sent(c) == c.out \cup {c.tx[i].packet : i \in InFlight(c.tx)}

(* Call n has subscribed with this path and token: as far as it has a slot *)
(* as a subscription, with those of the slot.                              *)
Granted(c, n, path, token) ==
    /\ n \in 1 .. c.issued /\ c.calls[n].kind = "observe"
    /\ \A i \in TxSlots : Live(c.pending[i]) /\ c.pending[i].ctx = n =>
          c.pending[i].path = path /\ c.pending[i].token = token

Honest(c) ==
    \A p \in Sent(c) : p.obs = "register" => Granted(c, p.about, p.path, p.token)

Upholds(t, c) ==
    \A n, path, token : Granted(c, n, path, token) => Granted(t, n, path, token)

(* Uploads.  Each block in the client's hands is a piece of the payload of *)
(* its call, and so are the blocks yet to come from a pending slot.        *)
Unfinished(up) == Offset(up.next) < up.size

Piece(p, n, size) ==
    /\ HasOption(p, "data")
    /\ \E k \in Nat : /\ Offset(k) < size
                      /\ p.block1 = Block(size, k) /\ p.data = Slice(Payload(n, size), k)

IsBlock(p) == p.code \in MethodCodes /\ HasOption(p, "block1")

Measures(c, n, size) == n \in 1 .. c.issued /\ c.calls[n].size = size

Genuine(p, c) ==
    IsBlock(p) => \E size : Measures(c, p.about, size) /\ Piece(p, p.about, size)

Truthful(c) ==
    /\ \A i \in TxSlots : c.pending[i] # Free /\ Unfinished(c.pending[i].up) =>
          Measures(c, c.pending[i].ctx, c.pending[i].up.size)
    /\ \A p \in Sent(c) : Genuine(p, c)

Sized(t, c) == \A n, size : Measures(c, n, size) => Measures(t, n, size)

(* Downloads.  A request for a block of call n, as long as no answer to it *)
(* is complete, is for the path of its slot, and for no block after those  *)
(* that the slot has collected or is waiting for.                          *)
BlockNo(p) == IF HasOption(p, "block2") THEN p.block2.num ELSE 0

Awaits(call) == OneShot(call) /\ call.responses = 0

AsksFor(c, n, path, k) ==
    /\ n \in 1 .. c.issued /\ k \in Nat
    /\ Awaits(c.calls[n]) => \A i \in TxSlots : c.pending[i] # Free /\ c.pending[i].ctx = n =>
          c.pending[i].path = path /\ k <= c.pending[i].recv.next

Wanted(p, c) == p.code \in MethodCodes => AsksFor(c, p.about, p.path, BlockNo(p))

(* Where the resources have representations of these sizes: a slot has     *)
(* collected the beginning of one, and a body is a whole one.              *)
Collecting(p, sizes) ==
    /\ p.recv.data = Representation(Offset(p.recv.next))
    /\ ~p.recv.active => p.recv.next = 0
    /\ p.recv.next > 0 => p.path \in DOMAIN sizes /\ Offset(p.recv.next) < sizes[p.path]

Gathered(body, sizes) == \E path \in DOMAIN sizes : body = Representation(sizes[path])

Fetching(c, sizes) ==
    /\ \A i \in TxSlots : c.pending[i] # Free /\ Awaits(c.calls[c.pending[i].ctx]) =>
          Collecting(c.pending[i], sizes)
    /\ \A n \in 1 .. MaxCalls : OneShot(c.calls[n]) \/ n > c.issued =>
          \A body \in c.calls[n].bodies : Gathered(body, sizes)
    /\ \A p \in Sent(c) : Wanted(p, c)

Expects(t, c) == \A n, path, k : AsksFor(c, n, path, k) => AsksFor(t, n, path, k)
Loyal(t, c) == Expects(t, c) /\ \A sizes : Fetching(c, sizes) => Fetching(t, sizes)

(* Each API call and each cancellation takes a token, and no token in use  *)
(* is as high as the next one.                                             *)
UsedBefore(token, c) == token \in 0 .. c.nextToken - 1

Below(c) ==
    /\ \A i \in TxSlots : c.pending[i] # Free => UsedBefore(c.pending[i].token, c)
    /\ \A i \in DiscoverSlots : c.discovers[i] # Free => UsedBefore(c.discovers[i].token, c)
    /\ \A p \in Sent(c) : p.code \in MethodCodes => UsedBefore(p.token, c)

Cancelled(c) == {n \in 1 .. MaxCalls : c.calls[n].cancelled}
Spent(c)     == c.issued + Cardinality(Cancelled(c))
Thrifty(c)   == c.nextToken <= 1 + Spent(c) /\ Below(c)

(* There are tokens enough for all of them. *)
TokensSuffice == 2 * MaxCalls + 1 < TokenMod

Thrives(t, c) == Thrifty(t) /\ \A token : UsedBefore(token, c) => UsedBefore(token, t)

(* From c to t no subscription is forgotten or forged, no payload mixed    *)
(* up, and no token used again; nor is a download mixed up.                *)
Trust(t, c) ==
    /\ Upholds(t, c) /\ Sized(t, c)
    /\ Truthful(c) => Truthful(t)
    /\ Honest(c) => Honest(t)
    /\ TokensSuffice /\ Thrifty(c) => Thrives(t, c)

Faith(t, c) == Trust(t, c) /\ Loyal(t, c)

LEMMA TrustTwice == \A c, r, t : Trust(r, c) /\ Trust(t, r) => Trust(t, c)
BY DEF Trust, Upholds, Sized, Thrives

LEMMA FaithTwice == \A c, r, t : Faith(r, c) /\ Faith(t, r) => Faith(t, c)
<1>1. \A c, r, t : Loyal(r, c) /\ Loyal(t, r) => Loyal(t, c)
  BY DEF Loyal, Expects
<1> QED BY <1>1, TrustTwice DEF Faith

LEMMA FaithOnce == \A c : Faith(c, c)
BY DEF Faith, Trust, Loyal, Expects, Upholds, Sized, Thrives

(* From c to t no request is made: slots are given back, and what is sent  *)
(* was sent before, or goes on with a pending request.                     *)
StillUp(up, up0) == Unfinished(up) => Unfinished(up0) /\ up.size = up0.size

SameSlot(p, p0) ==
    /\ p0 # Free /\ p.ctx = p0.ctx /\ p.observing = p0.observing
    /\ p.path = p0.path /\ p.token = p0.token /\ StillUp(p.up, p0.up)

NextPieceOf(p, p0) ==
    Unfinished(p0.up) /\ p.about = p0.ctx /\ Piece(p, p0.ctx, p0.up.size)

GoesOn(p, c) ==
    /\ p.obs = "none"
    /\ p.code \in MethodCodes =>
          \E i \in TxSlots : /\ c.pending[i] # Free /\ p.token = c.pending[i].token
                             /\ IsBlock(p) => NextPieceOf(p, c.pending[i])
    /\ Wanted(p, c)

Mild(t, c) ==
    /\ t.issued = c.issued /\ t.nextToken = c.nextToken
    /\ \A n \in 1 .. MaxCalls :
          /\ t.calls[n].kind = c.calls[n].kind /\ t.calls[n].cancelled = c.calls[n].cancelled
          /\ t.calls[n].size = c.calls[n].size
    /\ \A i \in TxSlots : t.pending[i] # Free => SameSlot(t.pending[i], c.pending[i])
    /\ \A i \in DiscoverSlots : t.discovers[i] # Free => t.discovers[i] = c.discovers[i]
    /\ \A p \in Sent(t) : p \in Sent(c) \/ GoesOn(p, c)

(* Nor is a block taken. *)
Tame(t, c) ==
    /\ Mild(t, c)
    /\ \A n \in 1 .. MaxCalls :
          /\ t.calls[n].bodies = c.calls[n].bodies
          /\ t.calls[n].responses = 0 => c.calls[n].responses = 0
    /\ \A i \in TxSlots : t.pending[i] # Free => t.pending[i].recv = c.pending[i].recv

LEMMA MildTrust ==
    ASSUME NEW c, c.issued \in 0 .. MaxCalls, NEW t, Mild(t, c)
    PROVE  Trust(t, c)
<1>1. Upholds(t, c)
  <2>1. \A n \in 1 .. c.issued : n \in 1 .. MaxCalls
    BY ClientAssumption
  <2> QED BY <2>1 DEF Upholds, Granted, Mild, SameSlot, Live
<1>2. Honest(c) => Honest(t)
  BY <1>1 DEF Upholds, Honest, Mild, GoesOn
<1>3. Spent(t) = Spent(c)
  <2>1. Cancelled(t) = Cancelled(c)
    BY DEF Cancelled, Mild
  <2> QED BY <2>1 DEF Spent, Mild
<1>4. \A token : UsedBefore(token, t) <=> UsedBefore(token, c)
  BY DEF UsedBefore, Mild
<1>5. Below(c) => Below(t)
  <2>1. /\ \A i \in TxSlots : t.pending[i] # Free =>
             c.pending[i] # Free /\ t.pending[i].token = c.pending[i].token
        /\ \A i \in DiscoverSlots : t.discovers[i] # Free => t.discovers[i] = c.discovers[i]
        /\ \A p \in Sent(t) : \/ p \in Sent(c)
                              \/ p.code \in MethodCodes => \E i \in TxSlots :
                                    c.pending[i] # Free /\ p.token = c.pending[i].token
    BY DEF Mild, SameSlot, GoesOn
  <2> QED BY <1>4, <2>1 DEF Below
<1>6. Thrifty(c) => Thrives(t, c)
  BY <1>3, <1>4, <1>5 DEF Thrifty, Thrives, Mild
<1>7. \A n, size : Measures(c, n, size) <=> Measures(t, n, size)
  <2>1. \A n \in 1 .. c.issued : n \in 1 .. MaxCalls
    BY ClientAssumption
  <2> QED BY <2>1 DEF Measures, Mild
<1>8. ASSUME Truthful(c)
      PROVE  Truthful(t)
  <2>1. ASSUME NEW i \in TxSlots, t.pending[i] # Free, Unfinished(t.pending[i].up)
        PROVE  Measures(t, t.pending[i].ctx, t.pending[i].up.size)
    <3>1. SameSlot(t.pending[i], c.pending[i])
      BY <2>1 DEF Mild
    <3> QED BY <1>7, <1>8, <2>1, <3>1 DEF SameSlot, StillUp, Truthful
  <2>2. ASSUME NEW p \in Sent(t), IsBlock(p)
        PROVE  \E size : Measures(t, p.about, size) /\ Piece(p, p.about, size)
    <3>1. CASE p \in Sent(c)
      BY <1>7, <1>8, <2>2, <3>1 DEF Truthful, Genuine
    <3>2. CASE GoesOn(p, c)
      <4>1. PICK i \in TxSlots : c.pending[i] # Free /\ NextPieceOf(p, c.pending[i])
        BY <2>2, <3>2 DEF GoesOn, IsBlock
      <4> QED BY <1>7, <1>8, <4>1 DEF NextPieceOf, Truthful
    <3> QED BY <2>2, <3>1, <3>2 DEF Mild
  <2> QED BY <2>1, <2>2 DEF Truthful, Genuine
<1> QED BY <1>1, <1>2, <1>6, <1>7, <1>8 DEF Trust, Sized

LEMMA TameLoyal ==
    ASSUME NEW c, Typed(c), NEW t, Tame(t, c)
    PROVE  Loyal(t, c)
<1>1. /\ t.issued = c.issued /\ \A n \in 1 .. c.issued : n \in 1 .. MaxCalls
      /\ \A n \in 1 .. MaxCalls :
            /\ Awaits(t.calls[n]) => Awaits(c.calls[n])
            /\ OneShot(t.calls[n]) => OneShot(c.calls[n])
            /\ t.calls[n].bodies = c.calls[n].bodies
      /\ \A i \in TxSlots : t.pending[i] # Free =>
            /\ c.pending[i] # Free /\ t.pending[i].ctx = c.pending[i].ctx
            /\ t.pending[i].path = c.pending[i].path /\ t.pending[i].recv = c.pending[i].recv
            /\ t.pending[i].ctx \in 1 .. MaxCalls
      /\ \A p \in Sent(t) : p \in Sent(c) \/ Wanted(p, c)
  <2>1. \A i \in TxSlots : c.pending[i] # Free => c.pending[i].ctx \in 1 .. MaxCalls
    BY DEF Typed, PendingEntry
  <2>2. \A n \in 1 .. c.issued : n \in 1 .. MaxCalls
    BY ClientAssumption DEF Typed
  <2>3. \A p \in Sent(t) : p \in Sent(c) \/ Wanted(p, c)
    BY DEF Tame, Mild, GoesOn
  <2> QED BY <2>1, <2>2, <2>3 DEF Tame, Mild, SameSlot, Awaits, OneShot
<1>2. Expects(t, c)
  BY <1>1 DEF Expects, AsksFor
<1>3. ASSUME NEW sizes, Fetching(c, sizes)
      PROVE  Fetching(t, sizes)
  <2>1. \A p \in Sent(t) : Wanted(p, c)
    BY <1>1, <1>3 DEF Fetching
  <2>2. \A p \in Sent(t) : Wanted(p, t)
    BY <1>2, <2>1 DEF Wanted, Expects
  <2>3. \A i \in TxSlots : t.pending[i] # Free /\ Awaits(t.calls[t.pending[i].ctx]) =>
           Collecting(t.pending[i], sizes)
    BY <1>1, <1>3 DEF Fetching, Collecting
  <2>4. \A n \in 1 .. MaxCalls : OneShot(t.calls[n]) \/ n > t.issued =>
           \A body \in t.calls[n].bodies : Gathered(body, sizes)
    BY <1>1, <1>3 DEF Fetching
  <2> QED BY <2>2, <2>3, <2>4 DEF Fetching
<1> QED BY <1>2, <1>3 DEF Loyal

(* start() of what is sent *)
LEMMA SentAfter ==
    ASSUME NEW own, NEW c, ClientOK(c, own), NEW pkt, NEW t,
           t.tx = c.tx \/ t.tx = Track(c, pkt), t.out = c.out \cup {pkt}
    PROVE  \A p \in Sent(t) : p \in Sent(c) \/ p = pkt
<1> DEFINE x == [remote |-> pkt.dst, mid |-> pkt.mid, token |-> pkt.token,
                 retries |-> 0, packet |-> pkt]
           T == {c.tx[i] : i \in TxSlots} \cup {Free, x}
<1>1. Free \in T /\ x \in T /\ x.packet = pkt
  OBVIOUS
<1>2. c.tx \in [TxSlots -> T]
  BY DEF ClientOK, ClientPool
<1>3. Track(c, pkt) = StartTx(c.tx, x)
  BY DEF Track
<1> HIDE DEF x, T
<1>4. \A i \in TxSlots : \/ StartTx(c.tx, x)[i] = c.tx[i]
                         \/ c.tx[i] = Free /\ StartTx(c.tx, x)[i] = x
  BY <1>1, <1>2, StartTxEffect
<1>5. ASSUME NEW i \in InFlight(t.tx)
      PROVE  (i \in InFlight(c.tx) /\ t.tx[i] = c.tx[i]) \/ t.tx[i].packet = pkt
  <2>1. i \in TxSlots /\ t.tx[i] # Free
    BY DEF InFlight
  <2>2. t.tx[i] = c.tx[i] \/ t.tx[i] = x
    BY <1>3, <1>4, <2>1
  <2> QED BY <1>1, <2>1, <2>2 DEF InFlight
<1>6. ASSUME NEW i \in InFlight(t.tx)
      PROVE  t.tx[i].packet \in Sent(c) \/ t.tx[i].packet = pkt
  <2>1. CASE i \in InFlight(c.tx) /\ t.tx[i] = c.tx[i]
    BY <2>1 DEF Sent
  <2> QED BY <1>5, <2>1
<1>7. \A p \in t.out : p \in Sent(c) \/ p = pkt
  BY DEF Sent
<1>8. \A p \in Sent(t) : p \in t.out \/ \E i \in InFlight(t.tx) : p = t.tx[i].packet
  BY DEF Sent
<1> QED BY <1>6, <1>7, <1>8

(* One field changes, in ways that are tame. *)
LEMMA CallsTame ==
    ASSUME NEW c, ClientObject(c), NEW calls,
           \A n \in 1 .. MaxCalls :
              /\ calls[n].kind = c.calls[n].kind /\ calls[n].cancelled = c.calls[n].cancelled
              /\ calls[n].size = c.calls[n].size
    PROVE  /\ Mild([c EXCEPT !.calls = calls], c)
           /\ (\A n \in 1 .. MaxCalls :
                 /\ calls[n].bodies = c.calls[n].bodies
                 /\ calls[n].responses = 0 => c.calls[n].responses = 0)
              => Tame([c EXCEPT !.calls = calls], c)
<1> DEFINE t == [c EXCEPT !.calls = calls]
<1>1. t = [pending |-> c.pending, tx |-> c.tx, discovers |-> c.discovers,
           nextToken |-> c.nextToken, nextMid |-> c.nextMid, issued |-> c.issued,
           calls |-> calls, out |-> c.out]
  BY DEF ClientObject
<1> HIDE DEF t
<1>2. Sent(t) = Sent(c)
  BY <1>1 DEF Sent
<1>3. Mild(t, c)
  BY <1>1, <1>2 DEF Mild, SameSlot, StillUp
<1>4. (\A n \in 1 .. MaxCalls :
         /\ calls[n].bodies = c.calls[n].bodies
         /\ calls[n].responses = 0 => c.calls[n].responses = 0) => Tame(t, c)
  BY <1>1, <1>3 DEF Tame
<1> QED BY <1>3, <1>4 DEF t

LEMMA PendingTame ==
    ASSUME NEW c, ClientObject(c), NEW table,
           \A i \in TxSlots : table[i] # Free => SameSlot(table[i], c.pending[i])
    PROVE  /\ Mild([c EXCEPT !.pending = table], c)
           /\ (\A i \in TxSlots : table[i] # Free => table[i].recv = c.pending[i].recv)
              => Tame([c EXCEPT !.pending = table], c)
<1> DEFINE t == [c EXCEPT !.pending = table]
<1>1. t = [pending |-> table, tx |-> c.tx, discovers |-> c.discovers,
           nextToken |-> c.nextToken, nextMid |-> c.nextMid, issued |-> c.issued,
           calls |-> c.calls, out |-> c.out]
  BY DEF ClientObject
<1> HIDE DEF t
<1>2. Sent(t) = Sent(c)
  BY <1>1 DEF Sent
<1>3. Mild(t, c)
  BY <1>1, <1>2 DEF Mild
<1>4. (\A i \in TxSlots : table[i] # Free => table[i].recv = c.pending[i].recv) => Tame(t, c)
  BY <1>1, <1>3 DEF Tame
<1> QED BY <1>3, <1>4 DEF t

LEMMA PoolTame ==
    ASSUME NEW c, ClientObject(c), NEW pool,
           \A i \in InFlight(pool) : i \in InFlight(c.tx) /\ pool[i].packet = c.tx[i].packet
    PROVE  Tame([c EXCEPT !.tx = pool], c)
<1> DEFINE t == [c EXCEPT !.tx = pool]
<1>1. t = [pending |-> c.pending, tx |-> pool, discovers |-> c.discovers,
           nextToken |-> c.nextToken, nextMid |-> c.nextMid, issued |-> c.issued,
           calls |-> c.calls, out |-> c.out]
  BY DEF ClientObject
<1> HIDE DEF t
<1>2. Sent(t) \subseteq Sent(c)
  BY <1>1 DEF Sent
<1>3. Tame(t, c)
  BY <1>1, <1>2 DEF Tame, Mild, SameSlot, StillUp
<1> QED BY <1>3 DEF t

LEMMA DiscoversTame ==
    ASSUME NEW c, ClientObject(c), NEW table,
           \A i \in DiscoverSlots : table[i] # Free => table[i] = c.discovers[i]
    PROVE  Tame([c EXCEPT !.discovers = table], c)
<1> DEFINE t == [c EXCEPT !.discovers = table]
<1>1. t = [pending |-> c.pending, tx |-> c.tx, discovers |-> table,
           nextToken |-> c.nextToken, nextMid |-> c.nextMid, issued |-> c.issued,
           calls |-> c.calls, out |-> c.out]
  BY DEF ClientObject
<1> HIDE DEF t
<1>2. Sent(t) = Sent(c)
  BY <1>1 DEF Sent
<1>3. Tame(t, c)
  BY <1>1, <1>2 DEF Tame, Mild, SameSlot, StillUp
<1> QED BY <1>3 DEF t

LEMMA OutTame ==
    ASSUME NEW c, ClientObject(c), NEW out,
           \A p \in out : p \in Sent(c) \/ GoesOn(p, c)
    PROVE  Tame([c EXCEPT !.out = out], c)
<1> DEFINE t == [c EXCEPT !.out = out]
<1>1. t = [pending |-> c.pending, tx |-> c.tx, discovers |-> c.discovers,
           nextToken |-> c.nextToken, nextMid |-> c.nextMid, issued |-> c.issued,
           calls |-> c.calls, out |-> out]
  BY DEF ClientObject
<1> HIDE DEF t
<1>2. \A p \in Sent(t) : p \in out \/ p \in Sent(c)
  BY <1>1 DEF Sent
<1>3. Tame(t, c)
  BY <1>1, <1>2 DEF Tame, Mild, SameSlot, StillUp
<1> QED BY <1>3 DEF t

LEMMA SendBlockTame ==
    ASSUME NEW own, NEW c, ClientOK(c, own), NEW pkt, GoesOn(pkt, c)
    PROVE  Tame(SendBlock(c, pkt), c)
<1> DEFINE pool == Track(c, pkt)
           sent == c.out \cup {pkt}
           t    == SendBlock(c, pkt)
<1>1. t = [c EXCEPT !.nextMid = (@ + 1) % MidMod, !.tx = pool, !.out = sent] /\ ClientObject(c)
  BY DEF SendBlock, ClientOK
<1> HIDE DEF t, pool, sent
<1>2. t = [pending |-> c.pending, tx |-> pool, discovers |-> c.discovers,
           nextToken |-> c.nextToken, nextMid |-> (c.nextMid + 1) % MidMod,
           issued |-> c.issued, calls |-> c.calls, out |-> sent]
  BY <1>1 DEF ClientObject
<1>3. t.tx = Track(c, pkt) /\ t.out = c.out \cup {pkt}
  BY <1>2 DEF pool, sent
<1>4. \A p \in Sent(t) : p \in Sent(c) \/ p = pkt
  BY <1>3, SentAfter
<1>5. Tame(t, c)
  BY <1>2, <1>4 DEF Tame, Mild, SameSlot, StillUp
<1> QED BY <1>5 DEF t

(* The slot is the only one of a call that has been made. *)
Alone(c, i) ==
    /\ c.pending[i].ctx \in 1 .. c.issued
    /\ \A j \in TxSlots \ {i} : c.pending[j] # Free => c.pending[j].ctx # c.pending[i].ctx

LEMMA HolderAlone ==
    ASSUME NEW c, Typed(c), Ledger(c, 0), NEW i \in TxSlots, c.pending[i] # Free
    PROVE  Alone(c, i)
BY HolderOf DEF Alone, Typed

LEMMA BlocksTame ==
    ASSUME NEW own, NEW c, ClientOK(c, own), NEW i \in TxSlots, c.pending[i] # Free, Alone(c, i)
    PROVE  /\ Unfinished(c.pending[i].up) => Tame(SendBlock1(c, i), c)
           /\ Tame(SendBlock2Request(c, i), c)
<1> DEFINE p    == c.pending[i]
           blk  == Block(p.up.size, p.up.next)
           dat  == Slice(Payload(p.ctx, p.up.size), p.up.next)
           pkt1 == [src |-> ClientEp, dst |-> p.server, type |-> "CON", code |-> "Put",
                    mid |-> c.nextMid, token |-> p.token, obs |-> "none",
                    path |-> p.path, about |-> p.ctx, block1 |-> blk, data |-> dat]
           pkt2 == [src |-> ClientEp, dst |-> p.blockServer, type |-> "CON", code |-> "Get",
                    mid |-> c.nextMid, token |-> p.token, obs |-> "none",
                    path |-> p.path, about |-> p.ctx,
                    block2 |-> [num |-> p.recv.next, more |-> FALSE]]
<1>1. SendBlock1(c, i) = SendBlock(c, pkt1) /\ SendBlock2Request(c, i) = SendBlock(c, pkt2)
  BY DEF SendBlock1, SendBlock2Request
<1> HIDE DEF blk, dat
<1>2. /\ pkt1.obs = "none" /\ pkt1.token = c.pending[i].token
      /\ pkt1.about = c.pending[i].ctx /\ pkt1.block1 = blk /\ pkt1.data = dat
      /\ HasOption(pkt1, "data") /\ pkt1.path = p.path /\ BlockNo(pkt1) = 0
      /\ pkt2.obs = "none" /\ pkt2.token = c.pending[i].token /\ ~HasOption(pkt2, "block1")
      /\ pkt2.about = p.ctx /\ pkt2.path = p.path /\ BlockNo(pkt2) = p.recv.next
  BY DEF HasOption, BlockNo
<1> HIDE DEF pkt1, pkt2
<1>3. Unfinished(p.up) => Piece(pkt1, p.ctx, p.up.size)
  <2>1. p.up.next \in Nat
    BY DEF ClientOK, PendingTable, PendingEntry
  <2> QED BY <1>2, <2>1 DEF Piece, Unfinished, blk, dat
<1>6. Wanted(pkt1, c) /\ Wanted(pkt2, c)
  <2>1. p.recv.next \in Nat
    BY DEF ClientOK, PendingTable, PendingEntry
  <2>3. AsksFor(c, p.ctx, p.path, 0) /\ AsksFor(c, p.ctx, p.path, p.recv.next)
    BY <2>1 DEF AsksFor, Alone
  <2> QED BY <1>2, <2>3 DEF Wanted
<1>4. Unfinished(c.pending[i].up) => GoesOn(pkt1, c)
  BY <1>2, <1>3, <1>6 DEF GoesOn, NextPieceOf
<1>5. GoesOn(pkt2, c)
  BY <1>2, <1>6 DEF GoesOn, IsBlock
<1> QED BY <1>1, <1>4, <1>5, SendBlockTame

(* The bookkeeping of a transfer, and a slot given back *)
LEMMA EntryTame ==
    ASSUME NEW c, Typed(c), NEW i \in TxSlots, NEW p, p # Free => SameSlot(p, c.pending[i])
    PROVE  /\ Mild(WithEntry(c, i, p), c)
           /\ (p # Free => p.recv = c.pending[i].recv) => Tame(WithEntry(c, i, p), c)
<1> DEFINE table == [c.pending EXCEPT ![i] = p]
<1>1. WithEntry(c, i, p) = [c EXCEPT !.pending = table] /\ ClientObject(c)
  BY DEF WithEntry, Typed
<1>2. \A j \in TxSlots : table[j] # Free => SameSlot(table[j], c.pending[j])
  BY DEF Typed, SameSlot, StillUp
<1>3. (p # Free => p.recv = c.pending[i].recv) =>
         \A j \in TxSlots : table[j] # Free => table[j].recv = c.pending[j].recv
  BY DEF Typed
<1> HIDE DEF table
<1> QED BY <1>1, <1>2, <1>3, PendingTame

LEMMA RecvMild ==
    ASSUME NEW c, Typed(c), NEW i \in TxSlots, c.pending[i] # Free, NEW recv
    PROVE  Mild(WithRecv(c, i, recv), c)
<1> DEFINE p == [c.pending[i] EXCEPT !.recv = recv]
<1>1. c.pending[i] \in PendingEntry
  BY DEF Typed
<1>2. SameSlot(p, c.pending[i])
  BY <1>1 DEF PendingEntry, SameSlot, StillUp
<1>3. WithRecv(c, i, recv) = WithEntry(c, i, p)
  BY DEF WithRecv, WithEntry
<1> HIDE DEF p
<1> QED BY <1>2, <1>3, EntryTame

LEMMA UpTame ==
    ASSUME NEW c, Typed(c), NEW i \in TxSlots, c.pending[i] # Free, NEW up,
           StillUp(up, c.pending[i].up)
    PROVE  Tame(WithUp(c, i, up), c)
<1> DEFINE p == [c.pending[i] EXCEPT !.up = up]
<1>1. c.pending[i] \in PendingEntry
  BY DEF Typed
<1>2. SameSlot(p, c.pending[i]) /\ p.recv = c.pending[i].recv
  BY <1>1 DEF PendingEntry, SameSlot
<1>3. WithUp(c, i, up) = WithEntry(c, i, p)
  BY DEF WithUp, WithEntry
<1> HIDE DEF p
<1> QED BY <1>2, <1>3, EntryTame

LEMMA FirstBlockTame ==
    ASSUME NEW c, Typed(c), NEW i \in TxSlots, c.pending[i] # Free, NEW m, m.src \in Servers
    PROVE  Tame(FirstBlock(c, i, m), c)
<1>1. ClientObject(c) /\ c.pending \in [TxSlots -> PendingEntry \cup {Free}]
  BY DEF Typed
<1> DEFINE p == Sourced(c, i, m)
<1>2. SameSlot(p, c.pending[i]) /\ p.recv = c.pending[i].recv
  BY <1>1, FirstBlockEntry DEF SameSlot, StillUp
<1>3. FirstBlock(c, i, m) = WithEntry(c, i, p)
  BY <1>1, FirstBlockEntry
<1> HIDE DEF p
<1> QED BY <1>2, <1>3, EntryTame

LEMMA CallTame ==
    ASSUME NEW c, Typed(c), NEW n \in 1 .. MaxCalls, NEW call,
           c.calls[n] \in CallRecord => 
              /\ call.kind = c.calls[n].kind /\ call.cancelled = c.calls[n].cancelled
              /\ call.size = c.calls[n].size
    PROVE  /\ Mild([c EXCEPT !.calls[n] = call], c)
           /\ (c.calls[n] \in CallRecord =>
                 /\ call.bodies = c.calls[n].bodies
                 /\ call.responses = 0 => c.calls[n].responses = 0)
              => Tame([c EXCEPT !.calls[n] = call], c)
<1> DEFINE calls == [c.calls EXCEPT ![n] = call]
<1>1. [c EXCEPT !.calls[n] = call] = [c EXCEPT !.calls = calls] /\ ClientObject(c)
  BY DEF Typed
<1>2. \A k \in 1 .. MaxCalls :
         /\ calls[k].kind = c.calls[k].kind /\ calls[k].cancelled = c.calls[k].cancelled
         /\ calls[k].size = c.calls[k].size
  BY DEF Typed
<1>3. (c.calls[n] \in CallRecord =>
         call.bodies = c.calls[n].bodies /\ (call.responses = 0 => c.calls[n].responses = 0)) =>
      \A k \in 1 .. MaxCalls :
         /\ calls[k].bodies = c.calls[k].bodies
         /\ calls[k].responses = 0 => c.calls[k].responses = 0
  BY DEF Typed
<1> HIDE DEF calls
<1> QED BY <1>1, <1>2, <1>3, CallsTame

LEMMA HandlersTame ==
    ASSUME NEW c, Typed(c), NEW n \in 1 .. MaxCalls, NEW m, NEW data
    PROVE  /\ Tame(CallTimeout(c, n), c) /\ Tame(CallResponse(c, n, m), c)
           /\ Mild(WithBody(c, n, data), c)
<1> DEFINE call1 == Expire(c.calls[n], 1)
           call2 == Responded(c.calls[n], n, m)
           call3 == [c.calls[n] EXCEPT !.bodies = @ \cup {data}]
<1>1. c.calls[n] \in CallRecord =>
        /\ call1.kind = c.calls[n].kind /\ call1.cancelled = c.calls[n].cancelled
        /\ call1.size = c.calls[n].size
        /\ call2.kind = c.calls[n].kind /\ call2.cancelled = c.calls[n].cancelled
        /\ call2.size = c.calls[n].size
        /\ call3.kind = c.calls[n].kind /\ call3.cancelled = c.calls[n].cancelled
        /\ call3.size = c.calls[n].size
        /\ call1.bodies = c.calls[n].bodies /\ call1.responses = c.calls[n].responses
        /\ call2.bodies = c.calls[n].bodies /\ call2.responses # 0
  BY DEF Expire, Responded, CallRecord, Capped
<1>2. /\ CallTimeout(c, n) = [c EXCEPT !.calls[n] = call1]
      /\ CallResponse(c, n, m) = [c EXCEPT !.calls[n] = call2]
      /\ WithBody(c, n, data) = [c EXCEPT !.calls[n] = call3]
  BY DEF CallTimeout, CallResponse, WithBody
<1> HIDE DEF call1, call2, call3
<1> QED BY <1>1, <1>2, CallTame

(* From c to t the next token is put to use, for call n: it may get a      *)
(* slot, and a packet may be sent.                                         *)
NextToken(token) == (token + 1) % TokenMod

AskedBy(p, c, n, path, obs) ==
    /\ p.token = c.nextToken /\ p.about = n /\ p.path = path
    /\ p.obs = "register" => p.obs = obs
    /\ Genuine(p, c) /\ BlockNo(p) = 0

HoldsFor(p, c, n, path, observing) ==
    /\ p.token = c.nextToken /\ p.ctx = n /\ p.path = path /\ p.observing = observing
    /\ Unfinished(p.up) => Measures(c, n, p.up.size)
    /\ p.recv = NoDownload

Asks(t, c, n, path, observing, obs) ==
    /\ t.issued = c.issued /\ t.calls = c.calls /\ t.nextToken = NextToken(c.nextToken)
    /\ \A i \in TxSlots :
          t.pending[i] = c.pending[i] \/ HoldsFor(t.pending[i], c, n, path, observing)
    /\ \A i \in DiscoverSlots :
          t.discovers[i] = c.discovers[i] \/ t.discovers[i].token = c.nextToken
    /\ \A p \in Sent(t) : p \in Sent(c) \/ AskedBy(p, c, n, path, obs)

LEMMA NothingLeft == ~Unfinished(NoUpload) /\ \A up : StillUp(NoUpload, up)
<1>1. NoUpload.size = 0 /\ NoUpload.next = 0
  BY DEF NoUpload
<1>2. ~Unfinished(NoUpload)
  BY <1>1, BlockAssumption DEF Unfinished, Offset
<1> QED BY <1>2 DEF StillUp

LEMMA SendRequestAsks ==
    ASSUME NEW own, NEW c, ClientOK(c, own), NEW q, Vacant(c.pending) # {}
    PROVE  Asks(SendRequest(c, q), c, q.ctx, q.path, q.observing, q.obs)
<1> DEFINE i   == Min(Vacant(c.pending))
           pkt == RequestPacket(c, q)
           p   == [server |-> q.server, token |-> c.nextToken, ctx |-> q.ctx,
                   observing |-> q.observing, path |-> q.path,
                   up |-> NoUpload, recv |-> NoDownload,
                   blockServer |-> q.server]
           pending == [c.pending EXCEPT ![i] = p]
           pool    == IF q.con THEN Track(c, pkt) ELSE c.tx
           sent    == c.out \cup {pkt}
           t       == SendRequest(c, q)
<1>1. DOMAIN c.pending = TxSlots /\ ClientObject(c)
  BY DEF ClientOK, PendingTable
<1>2. i \in TxSlots /\ c.pending[i] = Free
  BY <1>1, VacantSlot, SlotNumbers DEF Vacant
<1>3. t = [c EXCEPT !.nextToken = (@ + 1) % TokenMod, !.nextMid = (@ + 1) % MidMod,
                    !.pending = pending, !.tx = pool, !.out = sent]
  BY DEF SendRequest, ConsumeIds
<1>4. AskedBy(pkt, c, q.ctx, q.path, q.obs)
  <2>1. /\ pkt.token = c.nextToken /\ pkt.about = q.ctx /\ pkt.path = q.path /\ pkt.obs = q.obs
        /\ DOMAIN pkt = PacketFields
    BY DEF RequestPacket, PacketFields
  <2>2. "block1" \notin PacketFields /\ "block2" \notin PacketFields
    BY DEF PacketFields
  <2> HIDE DEF pkt
  <2> QED BY <2>1, <2>2 DEF AskedBy, Genuine, IsBlock, HasOption, BlockNo
<1>11. HoldsFor(p, c, q.ctx, q.path, q.observing)
  <2>1. /\ p.token = c.nextToken /\ p.ctx = q.ctx /\ p.path = q.path
        /\ p.observing = q.observing /\ p.up = NoUpload /\ p.recv = NoDownload
    OBVIOUS
  <2> HIDE DEF p
  <2> QED BY <2>1, NothingLeft DEF HoldsFor
<1> HIDE DEF i, pkt, p
<1>5. /\ HoldsFor(pending[i], c, q.ctx, q.path, q.observing)
      /\ \A j \in TxSlots \ {i} : pending[j] = c.pending[j]
  BY <1>1, <1>2, <1>11
<1> HIDE DEF t, pending, pool, sent
<1>6. t = [pending |-> pending, tx |-> pool, discovers |-> c.discovers,
           nextToken |-> (c.nextToken + 1) % TokenMod, nextMid |-> (c.nextMid + 1) % MidMod,
           issued |-> c.issued, calls |-> c.calls, out |-> sent]
  BY <1>1, <1>3 DEF ClientObject
<1>7. (t.tx = c.tx \/ t.tx = Track(c, pkt)) /\ t.out = c.out \cup {pkt}
  BY <1>6 DEF pool, sent
<1>8. \A x \in Sent(t) : x \in Sent(c) \/ AskedBy(x, c, q.ctx, q.path, q.obs)
  BY <1>4, <1>7, SentAfter
<1>9. t.nextToken = NextToken(c.nextToken)
  BY <1>6 DEF NextToken
<1>10. Asks(t, c, q.ctx, q.path, q.observing, q.obs)
  BY <1>2, <1>5, <1>6, <1>8, <1>9 DEF Asks
<1> QED BY <1>10 DEF t

LEMMA UploadAsks ==
    ASSUME NEW own, NEW c, ClientOK(c, own), NEW q, RequestOK(q), q.size \in Nat,
           Vacant(c.pending) # {}, Owns(own, c.nextToken, q.ctx), NEW obs,
           q.size > BlockSize, Measures(c, q.ctx, q.size)
    PROVE  Asks(Upload(c, q), c, q.ctx, q.path, FALSE, obs)
<1> DEFINE i   == Min(Vacant(c.pending))
           p   == [server |-> q.server, token |-> c.nextToken, ctx |-> q.ctx,
                   observing |-> FALSE, path |-> q.path,
                   up |-> [size |-> q.size, next |-> 0], recv |-> NoDownload,
                  blockServer |-> q.server]
           pending == [c.pending EXCEPT ![i] = p]
           c1  == [c EXCEPT !.nextToken = (@ + 1) % TokenMod, !.pending[i] = p]
           pkt == [src |-> ClientEp, dst |-> p.server, type |-> "CON", code |-> "Put",
                   mid |-> c1.nextMid, token |-> p.token, obs |-> "none",
                   path |-> p.path, about |-> p.ctx,
                   block1 |-> Block(p.up.size, p.up.next),
                   data   |-> Slice(Payload(p.ctx, p.up.size), p.up.next)]
           pool == Track(c1, pkt)
           sent == c1.out \cup {pkt}
           t    == Upload(c, q)
<1>1. DOMAIN c.pending = TxSlots /\ ClientObject(c)
  BY DEF ClientOK, PendingTable
<1>2. i \in TxSlots /\ c.pending[i] = Free
  BY <1>1, VacantSlot, SlotNumbers DEF Vacant
<1>3. c1.pending = pending /\ pending[i] = p
  BY <1>1, <1>2 DEF ClientObject
<1>4. Upload(c, q) = SendBlock(c1, pkt)
  BY <1>3 DEF Upload, SendBlock1
<1>5. p \in PendingEntry /\ Owns(own, p.token, p.ctx)
  BY DEF RequestOK, ClientOK, PendingEntry, NoDownload
<1>6. AskedBy(pkt, c, q.ctx, q.path, obs) /\ HoldsFor(p, c, q.ctx, q.path, FALSE)
  <2>1. Offset(0) < q.size
    BY BlockAssumption DEF Offset
  <2>2. Piece(pkt, q.ctx, q.size)
    BY <2>1 DEF Piece, HasOption
  <2>3. Genuine(pkt, c) /\ BlockNo(pkt) = 0
    BY <2>2 DEF Genuine, BlockNo, HasOption
  <2> QED BY <2>3 DEF AskedBy, HoldsFor
<1> HIDE DEF p, i, pkt
<1>7. PendingTable(pending, own) /\ \A j \in TxSlots \ {i} : pending[j] = c.pending[j]
  BY <1>1, <1>2, <1>5, PutPending DEF ClientOK
<1>8. c1 = [c EXCEPT !.nextToken = (@ + 1) % TokenMod, !.pending = pending]
  OBVIOUS
<1> HIDE DEF c1
<1>9. c1 = [pending |-> pending, tx |-> c.tx, discovers |-> c.discovers,
            nextToken |-> (c.nextToken + 1) % TokenMod, nextMid |-> c.nextMid,
            issued |-> c.issued, calls |-> c.calls, out |-> c.out]
  BY <1>1, <1>8 DEF ClientObject
<1> HIDE DEF pending
<1>10. ClientOK(c1, own) /\ ClientObject(c1)
  BY <1>7, <1>9, NextIds DEF ClientOK, ClientObject
<1>11. t = [c1 EXCEPT !.nextMid = (@ + 1) % MidMod, !.tx = pool, !.out = sent]
  BY <1>4 DEF SendBlock
<1> HIDE DEF t, pool, sent
<1>12. t = [pending |-> c1.pending, tx |-> pool, discovers |-> c1.discovers,
            nextToken |-> c1.nextToken, nextMid |-> (c1.nextMid + 1) % MidMod,
            issued |-> c1.issued, calls |-> c1.calls, out |-> sent]
  BY <1>10, <1>11 DEF ClientObject
<1>13. t.tx = Track(c1, pkt) /\ t.out = c1.out \cup {pkt}
  BY <1>12 DEF pool, sent
<1>14. \A x \in Sent(t) : x \in Sent(c1) \/ x = pkt
  BY <1>10, <1>13, SentAfter
<1>15. Sent(c1) = Sent(c)
  BY <1>9 DEF Sent
<1>16. t.nextToken = NextToken(c.nextToken)
  BY <1>9, <1>12 DEF NextToken
<1>17. /\ t.issued = c.issued /\ t.calls = c.calls /\ t.discovers = c.discovers
       /\ HoldsFor(t.pending[i], c, q.ctx, q.path, FALSE)
       /\ \A j \in TxSlots \ {i} : t.pending[j] = c.pending[j]
  <2>1. t.issued = c.issued /\ t.calls = c.calls /\ t.discovers = c.discovers /\ t.pending = pending
    BY <1>9, <1>12
  <2>2. t.pending[i] = p
    BY <1>3, <2>1
  <2> QED BY <1>6, <1>7, <2>1, <2>2
<1>18. Asks(t, c, q.ctx, q.path, FALSE, obs)
  BY <1>2, <1>6, <1>14, <1>15, <1>16, <1>17 DEF Asks
<1> QED BY <1>18 DEF t

LEMMA SpentBound ==
    ASSUME NEW c, Typed(c)
    PROVE  /\ Spent(c) \in Nat /\ Spent(c) <= 2 * MaxCalls
           /\ IsFiniteSet(Cancelled(c)) /\ Cardinality(Cancelled(c)) \in Nat
<1>1. IsFiniteSet(1 .. MaxCalls) /\ Cardinality(1 .. MaxCalls) = MaxCalls
  BY ClientAssumption, FS_Interval
<1>2. Cancelled(c) \in SUBSET (1 .. MaxCalls)
  BY DEF Cancelled
<1>3. /\ IsFiniteSet(Cancelled(c)) /\ Cardinality(Cancelled(c)) <= MaxCalls
      /\ Cardinality(Cancelled(c)) \in Nat
  BY <1>1, <1>2, FS_Subset, FS_CardinalityType
<1>4. c.issued \in 0 .. MaxCalls
  BY DEF Typed
<1> QED BY <1>3, <1>4, ClientAssumption DEF Spent

(* A call is numbered or a subscription cancelled: there is room for one   *)
(* token more than have been used.                                         *)
Prepares(c, c0) ==
    /\ Upholds(c, c0) /\ Sent(c) = Sent(c0) /\ Sized(c, c0) /\ Loyal(c, c0)
    /\ \A i \in TxSlots : c.pending[i] # Free => c.pending[i] = c0.pending[i]
    /\ \A token : UsedBefore(token, c0) => UsedBefore(token, c)
    /\ Thrifty(c0) => c.nextToken <= Spent(c) /\ Below(c)

LEMMA AsksThrives ==
    ASSUME NEW c, Typed(c), c.nextToken \in TokenBytes, TokensSuffice,
           c.nextToken <= Spent(c), Below(c), NEW n, NEW path, NEW observing, NEW obs,
           NEW t, Asks(t, c, n, path, observing, obs)
    PROVE  Thrives(t, c)
<1>1. c.nextToken \in Nat /\ c.nextToken <= 2 * MaxCalls
  BY SpentBound, ClientAssumption DEF TokenBytes
<1>2. NextToken(c.nextToken) = c.nextToken + 1
  BY <1>1, ClientAssumption DEF NextToken, TokensSuffice
<1>3. Spent(t) = Spent(c) /\ Spent(c) \in Nat
  BY SpentBound DEF Asks, Spent, Cancelled
<1>4. t.nextToken = c.nextToken + 1
  BY <1>2 DEF Asks
<1>5. /\ \A token : UsedBefore(token, c) => UsedBefore(token, t)
      /\ UsedBefore(c.nextToken, t)
  BY <1>1, <1>4 DEF UsedBefore
<1>6. t.nextToken <= 1 + Spent(t)
  BY <1>1, <1>3, <1>4
<1>7. /\ \A i \in TxSlots : t.pending[i] = c.pending[i] \/ t.pending[i].token = c.nextToken
      /\ \A i \in DiscoverSlots :
            t.discovers[i] = c.discovers[i] \/ t.discovers[i].token = c.nextToken
      /\ \A p \in Sent(t) : p \in Sent(c) \/ p.token = c.nextToken
  BY DEF Asks, HoldsFor, AskedBy
<1>8. Below(t)
  BY <1>5, <1>7 DEF Below
<1> QED BY <1>5, <1>6, <1>8 DEF Thrives, Thrifty

(* Either nothing is subscribed to, or a call that has just been made. *)
Subscribes(c, c0, n) ==
    /\ n \in 1 .. c.issued /\ n \notin 1 .. c0.issued
    /\ c.calls[n].kind = "observe" /\ NoSlotOf(c, n)

(* A one-shot call asks when it is made. *)
Begins(c, c0, n) ==
    /\ n \in 1 .. c.issued
    /\ OneShot(c.calls[n]) => n \notin 1 .. c0.issued /\ NoSlotOf(c, n)

LEMMA NothingCollected ==
    \A p, sizes : p.recv = NoDownload => Collecting(p, sizes)
<1>1. Representation(0) = <<>> /\ Offset(0) = 0
  BY BlockAssumption DEF Representation, Offset
<1> QED BY <1>1 DEF Collecting, NoDownload

LEMMA AsksLoyal ==
    ASSUME NEW c0, NEW c, Typed(c), Prepares(c, c0),
           NEW n, Begins(c, c0, n), NEW path, NEW observing, NEW obs,
           NEW t, Asks(t, c, n, path, observing, obs)
    PROVE  Loyal(t, c0)
<1>1. /\ t.issued = c.issued /\ t.calls = c.calls
      /\ \A i \in TxSlots : \/ t.pending[i] = c.pending[i]
                            \/ /\ t.pending[i].ctx = n /\ t.pending[i].path = path
                               /\ t.pending[i].recv = NoDownload
      /\ \A p \in Sent(t) : \/ p \in Sent(c0)
                             \/ /\ p.about = n /\ p.path = path
                                /\ BlockNo(p) = 0
  BY DEF Asks, HoldsFor, AskedBy, Prepares
<1>2. Expects(c, c0) /\ \A sizes : Fetching(c0, sizes) => Fetching(c, sizes)
  BY DEF Prepares, Loyal
<1>3. Expects(t, c0)
  <2> SUFFICES ASSUME NEW k, NEW path1, NEW b, AsksFor(c0, k, path1, b)
               PROVE  AsksFor(t, k, path1, b)
    BY DEF Expects
  <2>1. /\ AsksFor(c, k, path1, b)
        /\ k \in 1 .. c0.issued
    <3>1. AsksFor(c, k, path1, b)
      <4>1. Expects(c, c0)
        BY <1>2
      <4> QED BY <4>1, Zenon DEF Expects
    <3>2. k \in 1 .. c0.issued
      BY Zenon DEF AsksFor
    <3> QED BY <3>1, <3>2
  <2>2. Awaits(c.calls[k]) => k # n
    BY <2>1 DEF Begins, Awaits
  <2> QED BY <1>1, <2>1, <2>2 DEF AsksFor
<1>4. AsksFor(t, n, path, 0)
  <2>1. NoDownload.next = 0
    BY DEF NoDownload
  <2>2. Awaits(t.calls[n]) => NoSlotOf(c, n)
    BY <1>1 DEF Begins, Awaits
  <2> QED BY <1>1, <2>1, <2>2 DEF AsksFor, Begins, NoSlotOf
<1>5. ASSUME NEW sizes, Fetching(c0, sizes)
      PROVE  Fetching(t, sizes)
  <2>1. Fetching(c, sizes)
    BY <1>2, <1>5
  <2>2. \A i \in TxSlots : t.pending[i] # Free /\ Awaits(t.calls[t.pending[i].ctx]) =>
           Collecting(t.pending[i], sizes)
    BY <1>1, <2>1, NothingCollected DEF Fetching
  <2>3. \A p \in Sent(t) : Wanted(p, t)
    BY <1>1, <1>3, <1>4, <1>5 DEF Fetching, Wanted, Expects
  <2> QED BY <1>1, <2>1, <2>2, <2>3 DEF Fetching
<1> QED BY <1>3, <1>5 DEF Loyal

LEMMA AsksFaith ==
    ASSUME NEW c0, NEW c, Typed(c), c.nextToken \in TokenBytes, Prepares(c, c0),
           NEW n, Begins(c, c0, n), NEW path, NEW observing \in BOOLEAN, NEW obs,
           (~observing /\ obs # "register") \/ Subscribes(c, c0, n),
           NEW t, Asks(t, c, n, path, observing, obs)
    PROVE  Faith(t, c0)
<1>1. ASSUME TokensSuffice, Thrifty(c0)
      PROVE  Thrives(t, c0)
  <2>1. Thrives(t, c)
    BY <1>1, AsksThrives DEF Prepares
  <2> QED BY <2>1 DEF Thrives, Prepares
<1>2. \A i \in TxSlots : Live(t.pending[i]) =>
         t.pending[i] = c.pending[i] \/ (observing /\ HoldsFor(t.pending[i], c, n, path, observing))
  BY DEF Asks, HoldsFor, Live
<1>3. t.issued = c.issued /\ t.calls = c.calls
  BY DEF Asks
<1>4. ASSUME NEW k, NEW path1, NEW token1, Granted(c0, k, path1, token1)
      PROVE  Granted(t, k, path1, token1)
  <2>1. Granted(c, k, path1, token1) /\ k \in 1 .. c0.issued
    <3>1. Upholds(c, c0)
      BY DEF Prepares
    <3> QED BY <1>4, <3>1 DEF Upholds, Granted
  <2>2. \A i \in TxSlots : Live(t.pending[i]) /\ t.pending[i].ctx = k => t.pending[i] = c.pending[i]
    BY <1>2, <2>1 DEF HoldsFor, Subscribes
  <2> QED BY <1>3, <2>1, <2>2 DEF Granted
<1>5. ASSUME obs = "register"
      PROVE  Granted(t, n, path, c.nextToken)
  <2>1. Subscribes(c, c0, n)
    BY <1>5
  <2>2. \A i \in TxSlots : Live(t.pending[i]) /\ t.pending[i].ctx = n =>
           HoldsFor(t.pending[i], c, n, path, observing)
    BY <1>2, <2>1 DEF Subscribes, NoSlotOf, Live
  <2> QED BY <1>3, <2>1, <2>2 DEF Granted, Subscribes, HoldsFor
<1>6. ASSUME Honest(c0)
      PROVE  Honest(t)
  <2>1. ASSUME NEW p \in Sent(t), p.obs = "register"
        PROVE  Granted(t, p.about, p.path, p.token)
    <3>1. CASE p \in Sent(c)
      BY <1>4, <1>6, <2>1, <3>1 DEF Honest, Prepares
    <3>2. CASE AskedBy(p, c, n, path, obs)
      BY <1>5, <2>1, <3>2 DEF AskedBy
    <3> QED BY <3>1, <3>2 DEF Asks
  <2> QED BY <2>1 DEF Honest
<1>7. Sized(t, c0)
  BY <1>3 DEF Prepares, Sized, Measures
<1>8. ASSUME Truthful(c0)
      PROVE  Truthful(t)
  <2>1. \A k, size : Measures(c, k, size) \/ Measures(c0, k, size) => Measures(t, k, size)
    BY <1>3, <1>7 DEF Sized, Measures
  <2>2. ASSUME NEW i \in TxSlots, t.pending[i] # Free, Unfinished(t.pending[i].up)
        PROVE  Measures(t, t.pending[i].ctx, t.pending[i].up.size)
    <3>1. CASE t.pending[i] = c.pending[i]
      BY <1>8, <2>1, <2>2, <3>1 DEF Prepares, Truthful
    <3>2. CASE HoldsFor(t.pending[i], c, n, path, observing)
      BY <2>1, <2>2, <3>2 DEF HoldsFor
    <3> QED BY <3>1, <3>2 DEF Asks
  <2>3. \A p \in Sent(t) : Genuine(p, c0) \/ Genuine(p, c)
    BY <1>8 DEF Asks, AskedBy, Prepares, Truthful
  <2>4. \A p \in Sent(t) : Genuine(p, t)
    BY <2>1, <2>3 DEF Genuine
  <2> QED BY <2>2, <2>4 DEF Truthful
<1>9. Loyal(t, c0)
  BY AsksLoyal
<1> QED BY <1>1, <1>4, <1>6, <1>7, <1>8, <1>9 DEF Faith, Trust, Upholds

LEMMA OpensPrepares ==
    ASSUME NEW c0, Typed(c0), c0.issued < MaxCalls, NEW what, NEW c, Typed(c),
           Opens(c, c0, what), Sent(c) = Sent(c0), NEW served, Ledger(c0, served),
           c.calls[c0.issued + 1].bodies = c0.calls[c0.issued + 1].bodies
    PROVE  Prepares(c, c0)
<1> DEFINE n == c0.issued + 1
<1>1. /\ n \in 1 .. MaxCalls /\ c0.issued \in Nat /\ n > c0.issued
      /\ \A k \in 1 .. c0.issued : k \in 1 .. MaxCalls /\ k # n
  BY ClientAssumption DEF Typed
<1>2. Upholds(c, c0)
  <2>1. \A k \in 1 .. c0.issued : k \in 1 .. c.issued /\ c.calls[k] = c0.calls[k]
    BY <1>1 DEF Opens
  <2>2. c.pending = c0.pending
    BY DEF Opens
  <2> QED BY <2>1, <2>2 DEF Upholds, Granted
<1>8. Sized(c, c0)
  BY <1>1 DEF Sized, Measures, Opens
<1>3. Cancelled(c) = Cancelled(c0)
  <2>1. ~c0.calls[n].cancelled /\ ~c.calls[n].cancelled
    BY <1>1 DEF Opens, Ledger, CallLedger, Untouched
  <2>2. \A k \in 1 .. MaxCalls : c.calls[k].cancelled = c0.calls[k].cancelled \/ k = n
    BY DEF Opens
  <2> HIDE DEF n
  <2> QED BY <2>1, <2>2 DEF Cancelled
<1>4. Spent(c) = 1 + Spent(c0)
  <2>1. Cardinality(Cancelled(c0)) \in Nat
    BY SpentBound
  <2> QED BY <1>1, <1>3, <2>1 DEF Spent, Opens
<1>5. c.nextToken = c0.nextToken /\ c.pending = c0.pending /\ c.discovers = c0.discovers
  BY DEF Opens
<1>6. Below(c0) => Below(c)
  BY <1>5 DEF Below, UsedBefore
<1>7. \A token : UsedBefore(token, c0) => UsedBefore(token, c)
  BY <1>5 DEF UsedBefore
<1>9. Loyal(c, c0)
  <2>1. /\ c.issued = n /\ c.pending = c0.pending /\ Sent(c) = Sent(c0)
        /\ \A k \in 1 .. c0.issued : k \in 1 .. c.issued /\ c.calls[k] = c0.calls[k]
    BY <1>1 DEF Opens
  <2>2. \A i \in TxSlots : c.pending[i] # Free => c.pending[i].ctx \in 1 .. c0.issued
    BY <1>1, <2>1 DEF Ledger, HolderLedger, Typed, PendingEntry
  <2>3. Expects(c, c0)
    BY <2>1 DEF Expects, AsksFor
  <2>4. ASSUME NEW k \in 1 .. MaxCalls, OneShot(c.calls[k]) \/ k > c.issued
        PROVE  /\ c.calls[k].bodies = c0.calls[k].bodies
               /\ OneShot(c0.calls[k]) \/ k > c0.issued
    <3>1. CASE k = n
      BY <1>1, <3>1
    <3>2. CASE k # n
      BY <1>1, <2>1, <2>4, <3>2 DEF Opens
    <3> QED BY <3>1, <3>2
  <2>5. ASSUME NEW sizes, Fetching(c0, sizes)
        PROVE  Fetching(c, sizes)
    <3>1. \A p \in Sent(c) : Wanted(p, c)
      BY <2>1, <2>3, <2>5 DEF Fetching, Wanted, Expects
    <3>2. \A k \in 1 .. MaxCalls : OneShot(c.calls[k]) \/ k > c.issued =>
             \A body \in c.calls[k].bodies : Gathered(body, sizes)
      BY <2>4, <2>5 DEF Fetching
    <3> QED BY <2>1, <2>2, <2>5, <3>1, <3>2 DEF Fetching
  <2> QED BY <2>3, <2>5 DEF Loyal
<1> QED BY <1>2, <1>4, <1>5, <1>6, <1>7, <1>8, <1>9 DEF Prepares, Thrifty

LEMMA CancelsPrepares ==
    ASSUME NEW c0, Typed(c0), NEW n \in 1 .. MaxCalls, NEW c, Typed(c), Cancels(c, c0, n),
           c.nextToken = c0.nextToken, Sent(c) = Sent(c0), c.calls[n].size = c0.calls[n].size,
           NEW served, Ledger(c0, served)
    PROVE  Prepares(c, c0)
<1>1. n <= c0.issued /\ ~c0.calls[n].cancelled
  BY DEF Cancels, Ledger, HolderLedger, Subscribed
<1>2. \A i \in TxSlots : Live(c.pending[i]) => c.pending[i] = c0.pending[i]
  BY DEF Cancels, Live
<1>3. Upholds(c, c0)
  <2>1. \A k \in 1 .. c0.issued : k \in 1 .. MaxCalls
    BY ClientAssumption DEF Typed
  <2>2. \A k \in 1 .. MaxCalls : c.calls[k].kind = c0.calls[k].kind
    BY DEF Cancels
  <2> QED BY <1>2, <2>1, <2>2 DEF Upholds, Granted, Cancels
<1>4. Cancelled(c) = Cancelled(c0) \cup {n} /\ n \notin Cancelled(c0)
  BY <1>1 DEF Cancelled, Cancels
<1>5. Spent(c) = 1 + Spent(c0)
  <2>1. IsFiniteSet(Cancelled(c0)) /\ Cardinality(Cancelled(c0)) \in Nat
    BY SpentBound
  <2>2. Cardinality(Cancelled(c)) = Cardinality(Cancelled(c0)) + 1
    <3> DEFINE S == Cancelled(c0)
    <3> HIDE DEF S
    <3>1. IsFiniteSet(S) /\ n \notin S
      BY <1>4, <2>1 DEF S
    <3>2. Cardinality(S \cup {n}) = Cardinality(S) + 1
      BY <3>1, FS_AddElement
    <3> QED BY <1>4, <3>2 DEF S
  <2>3. c.issued = c0.issued /\ c0.issued \in Nat
    BY DEF Cancels, Typed
  <2> QED BY <2>1, <2>2, <2>3 DEF Spent
<1>6. \A i \in TxSlots : c.pending[i] # Free => c.pending[i] = c0.pending[i]
  BY DEF Cancels
<1>7. Below(c0) => Below(c)
  BY <1>6 DEF Below, UsedBefore, Cancels
<1>8. \A token : UsedBefore(token, c0) => UsedBefore(token, c)
  BY DEF UsedBefore
<1>9. Sized(c, c0)
  <2>1. \A k \in 1 .. c0.issued : k \in 1 .. MaxCalls
    BY ClientAssumption DEF Typed
  <2> QED BY <2>1 DEF Sized, Measures, Cancels
<1>10. Loyal(c, c0)
  <2>1. ~OneShot(c.calls[n]) /\ ~OneShot(c0.calls[n]) /\ ~(n > c.issued)
    <3>1. c0.calls[n].kind = "observe" /\ c.calls[n].kind = "observe"
      BY DEF Cancels, Ledger, HolderLedger, Subscribed
    <3> QED BY <1>1, <3>1 DEF OneShot, Cancels, Typed
  <2>2. \A k \in 1 .. c0.issued : k \in 1 .. MaxCalls
    BY ClientAssumption DEF Typed
  <2>3. \A k \in 1 .. MaxCalls : c.calls[k] = c0.calls[k] \/ k = n
    BY DEF Cancels
  <2>4. c.issued = c0.issued /\ Sent(c) = Sent(c0)
    BY DEF Cancels
  <2>5. Expects(c, c0)
    BY <1>6, <2>1, <2>2, <2>3, <2>4 DEF Expects, AsksFor, Awaits
  <2>6. ASSUME NEW sizes, Fetching(c0, sizes)
        PROVE  Fetching(c, sizes)
    <3>1. \A p \in Sent(c) : Wanted(p, c)
      BY <2>4, <2>5, <2>6 DEF Fetching, Wanted, Expects
    <3>2. \A i \in TxSlots : c.pending[i] # Free => c.pending[i].ctx \in 1 .. MaxCalls
      BY DEF Typed, PendingEntry
    <3>3. \A i \in TxSlots : c.pending[i] # Free /\ Awaits(c.calls[c.pending[i].ctx]) =>
             Collecting(c.pending[i], sizes)
      BY <1>6, <2>1, <2>3, <2>6, <3>2 DEF Fetching, Awaits
    <3> QED BY <2>1, <2>3, <2>4, <2>6, <3>1, <3>3 DEF Fetching
  <2> QED BY <2>5, <2>6 DEF Loyal
<1> QED BY <1>3, <1>5, <1>6, <1>7, <1>8, <1>9, <1>10 DEF Prepares, Thrifty

LEMMA NumberBodies ==
    ASSUME NEW c, Typed(c), NEW n \in 1 .. MaxCalls, n = c.issued + 1, NEW what
    PROVE  Number(c, what).calls[n].bodies = c.calls[n].bodies
<1>1. Number(c, what) = [c EXCEPT !.issued = @ + 1, !.calls[n].kind = what]
  BY DEF Number
<1>2. c.calls[n] \in CallRecord /\ c.calls \in [1 .. MaxCalls -> CallRecord] /\ ClientObject(c)
  BY DEF Typed
<1> QED BY <1>1, <1>2 DEF ClientObject, CallRecord

(* get(), put(), observe() *)
LEMMA IssueFaith ==
    ASSUME NEW own, NEW c, ClientOK(c, own), c.issued < MaxCalls, Vacant(c.pending) # {},
           NEW server \in Servers, NEW path \in Paths,
           NEW kind \in [code : MethodCodes, con : BOOLEAN, observe : BOOLEAN, size : Nat],
           Owns(own, c.nextToken, c.issued + 1), NEW served, Ledger(c, served)
    PROVE  Faith(Issue(c, server, path, kind), c)
<1> DEFINE c0 == Number(c, KindOf(kind))
           n  == c.issued + 1
           call == [c0.calls[n] EXCEPT !.size = kind.size]
           calls == [c0.calls EXCEPT ![n] = call]
           c1 == [c0 EXCEPT !.calls[n].size = kind.size]
           q  == NewRequest(c, server, path, kind)
           t  == Issue(c, server, path, kind)
<1>1. KindOf(kind) \in {"con", "non", "observe"} /\ (kind.observe => KindOf(kind) = "observe")
  BY DEF KindOf
<1>2. Typed(c) /\ Opens(c0, c, KindOf(kind)) /\ ClientOK(c0, own)
      /\ c0.tx = c.tx /\ c0.out = c.out /\ c0.pending = c.pending /\ c0.nextToken = c.nextToken
  BY <1>1, NumberOpens, NumberOK, TablesTyped
<1>3. n \in 1 .. MaxCalls
  BY ClientAssumption DEF ClientOK
<1>4. t = IF kind.size > BlockSize THEN Upload(c1, q) ELSE SendRequest(c1, q)
  BY DEF Issue
<1>5. /\ RequestOK(q) /\ q.size = kind.size /\ q.ctx = n /\ q.size \in Nat
      /\ q.observing = kind.observe
      /\ q.obs = IF kind.observe THEN "register" ELSE "none"
  BY <1>3 DEF NewRequest, RequestOK
<1> HIDE DEF c0, q, t
<1>6. c0.calls[n] \in CallRecord /\ Right(c0.calls[n], own)
  BY <1>2, <1>3 DEF ClientOK, CallTable
<1>7. /\ call \in CallRecord /\ Right(call, own) /\ call.kind = c0.calls[n].kind
      /\ Untouched(c0.calls[n]) => Untouched(call)
      /\ call.size = kind.size /\ call.bodies = c0.calls[n].bodies
  BY <1>6 DEF CallRecord, Outcomes, Untouched, Right
<1>8. c1 = [c0 EXCEPT !.calls = calls]
  OBVIOUS
<1> HIDE DEF call, c1
<1>9. /\ CallTable(calls, own) /\ calls[n] = call
      /\ \A k \in 1 .. MaxCalls : k # n => calls[k] = c0.calls[k]
  BY <1>2, <1>3, <1>7, PutCall DEF ClientOK, CallTable
<1> HIDE DEF calls
<1>10. ClientOK(c1, own)
  BY <1>2, <1>8, <1>9, CallsChange
<1>11. /\ c1.pending = c0.pending /\ c1.discovers = c0.discovers /\ c1.tx = c0.tx
       /\ c1.issued = c0.issued /\ c1.calls = calls /\ c1.nextToken = c0.nextToken
       /\ c1.out = c0.out
  <2>1. ClientObject(c0)
    BY <1>2 DEF ClientOK
  <2> QED BY <1>8, <2>1 DEF ClientObject
<1>12. Opens(c1, c, KindOf(kind))
  BY <1>2, <1>7, <1>9, <1>11 DEF Opens
<1>13. Typed(c1) /\ c1.nextToken \in TokenBytes
  BY <1>10, TablesTyped DEF ClientOK
<1>14. Sent(c1) = Sent(c)
  BY <1>2, <1>11 DEF Sent
<1>22. c1.calls[c.issued + 1].bodies = c.calls[c.issued + 1].bodies
  <2>1. c1.calls[n].bodies = c0.calls[n].bodies
    BY <1>7, <1>9, <1>11
  <2>2. c0.calls[n].bodies = c.calls[n].bodies
    BY <1>2, <1>3, NumberBodies DEF c0
  <2> QED BY <2>1, <2>2
<1>15. Prepares(c1, c)
  BY <1>2, <1>12, <1>13, <1>14, <1>22, OpensPrepares
<1>16. c1.issued = n /\ c1.calls[n].kind = KindOf(kind) /\ NoSlotOf(c1, n)
  <2>1. c1.issued = n
    BY <1>12 DEF Opens
  <2> HIDE DEF n
  <2> QED BY <1>2, <1>12, <2>1, OpensLedger
<1>17. kind.observe => Subscribes(c1, c, n)
  <2>1. n \notin 1 .. c.issued
    BY DEF ClientOK
  <2>2. n \in 1 .. c1.issued
    BY <1>3, <1>16
  <2> HIDE DEF n
  <2> QED BY <1>1, <1>16, <2>1, <2>2 DEF Subscribes
<1>18. Vacant(c1.pending) # {}
  BY <1>2, <1>11
<1>21. Begins(c1, c, q.ctx)
  <2>1. n \in 1 .. c1.issued /\ n \notin 1 .. c.issued
    BY <1>3, <1>16 DEF ClientOK
  <2> HIDE DEF n
  <2> QED BY <1>5, <1>16, <2>1 DEF Begins
<1> HIDE DEF n
<1>19. CASE kind.size > BlockSize
  <2>1. Owns(own, c1.nextToken, q.ctx)
    BY <1>2, <1>5, <1>11 DEF n
  <2>4. Measures(c1, q.ctx, q.size)
    <3>1. n \in 1 .. n
      BY <1>3, ClientAssumption
    <3> QED BY <1>5, <1>7, <1>9, <1>11, <1>16, <3>1 DEF Measures
  <2>2. Asks(t, c1, q.ctx, q.path, FALSE, "none")
    BY <1>4, <1>5, <1>10, <1>18, <1>19, <2>1, <2>4, UploadAsks
  <2>3. Faith(t, c)
    BY <1>13, <1>15, <1>21, <2>2, AsksFaith
  <2> QED BY <2>3 DEF t
<1>20. CASE ~(kind.size > BlockSize)
  <2>1. Asks(t, c1, q.ctx, q.path, q.observing, q.obs)
    BY <1>4, <1>10, <1>18, <1>20, SendRequestAsks
  <2>2. q.observing \in BOOLEAN /\ ((~q.observing /\ q.obs # "register") \/ Subscribes(c1, c, q.ctx))
    BY <1>5, <1>17
  <2>3. Faith(t, c)
    BY <1>13, <1>15, <1>21, <2>1, <2>2, AsksFaith
  <2> QED BY <2>3 DEF t
<1> QED BY <1>19, <1>20

LEMMA SubscribedSlot ==
    ASSUME NEW c, Typed(c), NEW served, Ledger(c, served), NEW i \in TxSlots,
           c.pending[i] # Free, c.pending[i].observing
    PROVE  /\ c.calls[c.pending[i].ctx].kind = "observe"
           /\ c.pending[i].ctx \in 1 .. c.issued
BY DEF Ledger, HolderLedger, Subscribed, Typed, PendingEntry

(* cancelObserve() *)
LEMMA DeregisterFaith ==
    ASSUME NEW own, NEW c, ClientOK(c, own), NEW server, NEW path,
           Subscriptions(c, server, path) # {}, NEW served, Ledger(c, served)
    PROVE  Faith(Deregister(c, server, path), c)
<1> DEFINE i   == Min(Subscriptions(c, server, path))
           n   == c.pending[i].ctx
           pending == [c.pending EXCEPT ![i] = Free]
           call == [c.calls[n] EXCEPT !.cancelled = TRUE]
           calls == [c.calls EXCEPT ![n] = call]
           c1  == [c EXCEPT !.pending[i] = Free, !.calls[n].cancelled = TRUE]
           q   == [server |-> server, path |-> path, code |-> "Get", con |-> TRUE,
                   obs |-> "deregister", observing |-> FALSE, ctx |-> n]
           t   == Deregister(c, server, path)
<1>1. /\ i \in TxSlots /\ c.pending[i] # Free /\ i \in Subscriptions(c, server, path)
      /\ n \in 1 .. MaxCalls
  BY SubscriptionSlot
<1>2. c.pending[i].observing /\ Typed(c)
  BY <1>1, TablesTyped DEF Subscriptions
<1>3. t = SendRequest(c1, q) /\ q.ctx = n /\ q.observing = FALSE /\ q.obs = "deregister"
  BY DEF Deregister
<1> HIDE DEF i, n, q, t
<1>4. /\ PendingTable(pending, own) /\ pending[i] = Free
      /\ \A j \in TxSlots \ {i} : pending[j] = c.pending[j]
  BY <1>1 DEF ClientOK, PendingTable
<1>5. c.calls[n] \in CallRecord /\ Right(c.calls[n], own)
  BY <1>1 DEF ClientOK, CallTable
<1>6. /\ call \in CallRecord /\ Right(call, own) /\ call.kind = c.calls[n].kind /\ call.cancelled
      /\ Outcomes(call) = Outcomes(c.calls[n]) /\ call.late = c.calls[n].late
      /\ call.size = c.calls[n].size
  BY <1>5 DEF CallRecord, Outcomes, Right
<1>7. c1 = [c EXCEPT !.pending = pending, !.calls = calls]
  OBVIOUS
<1> HIDE DEF call
<1>8. /\ CallTable(calls, own) /\ calls[n] = call
      /\ \A k \in 1 .. MaxCalls : k # n => calls[k] = c.calls[k]
  BY <1>1, <1>6, PutCall DEF ClientOK, CallTable
<1> HIDE DEF pending, calls, c1
<1>9. ClientObject(c)
  BY DEF ClientOK
<1>10. c1 = [pending |-> pending, tx |-> c.tx, discovers |-> c.discovers,
             nextToken |-> c.nextToken, nextMid |-> c.nextMid, issued |-> c.issued,
             calls |-> calls, out |-> c.out]
  BY <1>7, <1>9 DEF ClientObject
<1>11. ClientOK(c1, own)
  BY <1>4, <1>8, <1>10 DEF ClientOK, ClientObject
<1>12. Typed(c1) /\ c1.nextToken \in TokenBytes
  BY <1>11, TablesTyped DEF ClientOK
<1>13. Cancels(c1, c, n)
  <2>1. \E k \in TxSlots :
          /\ c.pending[k] # Free /\ c.pending[k].observing /\ c.pending[k].ctx = n
          /\ c1.pending[k] = Free
          /\ \A j \in TxSlots \ {k} : c1.pending[j] = c.pending[j]
    BY <1>1, <1>2, <1>4, <1>10 DEF n
  <2> QED BY <1>6, <1>8, <1>10, <2>1 DEF Cancels
<1>14. /\ Sent(c1) = Sent(c) /\ c1.nextToken = c.nextToken
       /\ c1.calls[n].size = c.calls[n].size
  BY <1>6, <1>8, <1>10 DEF Sent
<1>15. Prepares(c1, c)
  BY <1>1, <1>2, <1>12, <1>13, <1>14, CancelsPrepares
<1>16. Vacant(c1.pending) # {}
  <2>1. DOMAIN pending = TxSlots /\ c1.pending = pending
    BY <1>4, <1>10 DEF PendingTable
  <2> QED BY <1>1, <1>4, <2>1 DEF Vacant
<1>17. Asks(t, c1, q.ctx, q.path, q.observing, q.obs)
  BY <1>3, <1>11, <1>16, SendRequestAsks
<1>19. Begins(c1, c, q.ctx)
  <2>1. c.calls[n].kind = "observe" /\ n \in 1 .. c.issued
    BY <1>1, <1>2, SubscribedSlot DEF n
  <2>2. c1.issued = c.issued /\ c1.calls[n].kind = "observe"
    BY <1>13, <2>1 DEF Cancels
  <2> QED BY <1>3, <2>1, <2>2 DEF Begins, OneShot
<1>18. Faith(t, c)
  BY <1>3, <1>12, <1>15, <1>17, <1>19, AsksFaith
<1> QED BY <1>18 DEF t

LEMMA TypedMild == \A c, t : Typed(c) /\ Mild(t, c) => Trust(t, c)
<1> SUFFICES ASSUME NEW c, NEW t, Typed(c), Mild(t, c) PROVE Trust(t, c)
  OBVIOUS
<1>1. c.issued \in 0 .. MaxCalls
  BY DEF Typed
<1> QED BY <1>1, MildTrust

LEMMA TypedTame == \A c, t : Typed(c) /\ Tame(t, c) => Faith(t, c)
BY TypedMild, TameLoyal DEF Faith, Tame

LEMMA TameOnce == \A c : Tame(c, c)
BY DEF Tame, Mild, SameSlot, StillUp

LEMMA ReactFaith ==
    ASSUME NEW own, NEW c, ClientOK(c, own), NEW i \in TxSlots, c.pending[i] # Free,
           NEW reaction, NEW served, Ledger(c, served)
    PROVE  Faith(React(c, i, reaction), c)
<1> DEFINE p == c.pending[i]
<1>1. p.server \in Servers /\ p.path \in Paths
  BY DEF ClientOK, PendingTable, PendingEntry
<1>2. CASE reaction = "get" /\ c.issued < MaxCalls /\ Vacant(c.pending) # {}
  <2> DEFINE own2 == With(own, c.nextToken, c.issued + 1)
  <2>1. Grows(own2, own, c.nextToken) /\ Owns(own2, c.nextToken, c.issued + 1)
    BY <1>2, NextCall, WithExtends
  <2> HIDE DEF own2
  <2>2. ClientOK(c, own2)
    BY <2>1, ExtendsClientOK DEF Grows
  <2>3. OneShotGet \in [code : MethodCodes, con : BOOLEAN, observe : BOOLEAN, size : Nat]
    BY DEF OneShotGet, MethodCodes
  <2>4. React(c, i, reaction) = Issue(c, p.server, p.path, OneShotGet)
    BY <1>2 DEF React
  <2> QED BY <1>1, <1>2, <2>1, <2>2, <2>3, <2>4, IssueFaith
<1>3. CASE reaction = "cancel" /\ Subscriptions(c, p.server, p.path) # {}
  <2>1. React(c, i, reaction) = Deregister(c, p.server, p.path)
    BY <1>3 DEF React
  <2> QED BY <1>3, <2>1, DeregisterFaith
<1>4. CASE /\ ~(reaction = "get" /\ c.issued < MaxCalls /\ Vacant(c.pending) # {})
           /\ ~(reaction = "cancel" /\ Subscriptions(c, p.server, p.path) # {})
  <2>1. React(c, i, reaction) = c
    BY <1>4 DEF React
  <2> QED BY <2>1, FaithOnce
<1> QED BY <1>2, <1>3, <1>4

LEMMA AnsweredFaith ==
    ASSUME NEW own, NEW c, ClientOK(c, own), NEW i \in TxSlots, c.pending[i] # Free,
           NEW m, OneOwner(own) => m.about = c.pending[i].ctx, NEW reaction, Ledger(c, 0)
    PROVE  LET t == Answered(c, i, m, reaction)
           IN  Faith(t, c) /\ Faith(t, CallResponse(c, c.pending[i].ctx, m))
<1> DEFINE n  == c.pending[i].ctx
           c1 == CallResponse(c, n, m)
           r  == React(c1, i, reaction)
           t  == ReleaseOneShot(r, i)
<1>1. Typed(c) /\ Answered(c, i, m, reaction) = t
  BY TablesTyped DEF Answered
<1>2. n \in 1 .. MaxCalls /\ n <= c.issued /\ Told(c.calls[n]) = 0
  BY <1>1, HolderOf
<1>3. ClientOK(c1, own)
  BY <1>2, CallResponseOK
<1>4. Settles(c1, c, n) /\ Faith(c1, c)
  BY <1>1, <1>2, ResponseSettles, HandlersTame, TypedTame
<1> HIDE DEF n, c1
<1>5. Ledger(c1, n)
  BY <1>1, <1>2, <1>4, SettlesLedger
<1>6. c1.pending = c.pending
  BY <1>4 DEF Settles
<1>7. Faith(r, c1)
  BY <1>3, <1>5, <1>6, ReactFaith
<1>8. PICK own2 : ClientOK(r, own2)
  BY <1>3, <1>6, ReactOK
<1> HIDE DEF r
<1>9. Typed(r)
  BY <1>8, TablesTyped
<1>10. t = r \/ t = WithEntry(r, i, Free)
  BY DEF ReleaseOneShot, WithEntry
<1> HIDE DEF t
<1>11. Faith(t, r)
  BY <1>9, <1>10, EntryTame, TameOnce, TypedTame
<1>12. Faith(t, c1)
  BY <1>7, <1>11, FaithTwice
<1>13. Faith(t, c)
  BY <1>4, <1>12, FaithTwice
<1> QED BY <1>1, <1>12, <1>13 DEF c1, n

LEMMA OnContinueFaith ==
    ASSUME NEW own, NEW c, ClientOK(c, own), NEW i \in TxSlots, c.pending[i] # Free,
           Ledger(c, 0)
    PROVE  Faith(OnContinue(c, i), c)
<1> DEFINE p  == c.pending[i]
           up == [p.up EXCEPT !.next = @ + 1]
           c1 == WithUp(c, i, up)
           c2 == WithEntry(c1, i, Free)
           t  == OnContinue(c, i)
<1>1. p \in PendingEntry /\ Typed(c) /\ p.ctx \in 1 .. MaxCalls
  BY TablesTyped DEF ClientOK, PendingTable, PendingEntry
<1>2. c1 = [c EXCEPT !.pending[i].up.next = @ + 1]
  BY DEF WithUp
<1>3. \/ t = SendBlock1(c1, i) /\ Unfinished(c1.pending[i].up)
      \/ t = CallTimeout(c2, p.ctx)
  BY <1>2 DEF OnContinue, WithEntry, Unfinished
<1> HIDE DEF t
<1>4. p.up \in [size : Nat, next : Nat]
  BY <1>1 DEF PendingEntry
<1> HIDE DEF p
<1>5. up \in [size : Nat, next : Nat]
  BY <1>4
<1>13. StillUp(up, p.up)
  <2>1. up.size = p.up.size /\ up.next = p.up.next + 1 /\ p.up.next \in Nat /\ p.up.size \in Nat
    BY <1>4
  <2> HIDE DEF up
  <2>2. Offset(up.next) = Offset(p.up.next) + BlockSize
    BY <2>1, BlockAssumption DEF Offset
  <2>3. Offset(p.up.next) \in Nat
    BY <2>1, BlockAssumption DEF Offset
  <2> QED BY <2>1, <2>2, <2>3, BlockAssumption DEF StillUp, Unfinished
<1> HIDE DEF up
<1>6. ClientOK(c1, own) /\ c1.pending[i] # Free /\ Faith(c1, c)
  BY <1>1, <1>5, <1>13, UpChange, UpTame, TypedTame DEF p
<1>14. Alone(c1, i)
  <2>1. Alone(c, i)
    BY <1>1, HolderAlone
  <2>2. /\ c1.issued = c.issued /\ c1.pending[i].ctx = c.pending[i].ctx
        /\ \A j \in TxSlots \ {i} : c1.pending[j] = c.pending[j]
    BY <1>1, <1>2 DEF Typed, ClientObject, PendingEntry, p
  <2> QED BY <2>1, <2>2 DEF Alone
<1> HIDE DEF c1
<1>7. Unfinished(c1.pending[i].up) => Faith(SendBlock1(c1, i), c1)
  BY <1>6, <1>14, BlocksTame, TypedTame, TablesTyped
<1>8. ClientOK(c2, own) /\ Faith(c2, c1)
  BY <1>6, FreesPending, EntryTame, TypedTame, TablesTyped DEF WithEntry
<1> HIDE DEF c2
<1>9. Faith(CallTimeout(c2, p.ctx), c2)
  BY <1>1, <1>8, HandlersTame, TypedTame, TablesTyped
<1>10. Faith(CallTimeout(c2, p.ctx), c1)
  BY <1>8, <1>9, FaithTwice
<1>11. Faith(t, c1)
  BY <1>3, <1>7, <1>10
<1>12. Faith(t, c)
  BY <1>6, <1>11, FaithTwice
<1> QED BY <1>12 DEF t

(* The first k blocks of a payload, and the next one.                      *)
LEMMA PrefixGrows ==
    ASSUME NEW S, NEW whole \in Seq(S), NEW to \in 0 .. Len(whole), NEW from \in 0 .. to
    PROVE  /\ SubSeq(whole, 1, from) \o SubSeq(whole, from + 1, to) = SubSeq(whole, 1, to)
           /\ SubSeq(whole, 1, to) \in Seq(S) /\ Len(SubSeq(whole, 1, to)) = to
           /\ \A u \in 1 .. to : SubSeq(whole, 1, to)[u] = whole[u]
<1> DEFINE head == SubSeq(whole, 1, from)
           tail == SubSeq(whole, from + 1, to)
           both == SubSeq(whole, 1, to)
<1>1. /\ \A u \in 1 .. Len(whole) : whole[u] \in S
      /\ Len(whole) \in Nat /\ from \in Nat /\ to \in Nat /\ from <= to /\ to <= Len(whole)
  BY LenProperties
<1>2. ASSUME NEW k \in Nat, k <= to
      PROVE  /\ SubSeq(whole, 1, k) \in Seq(S) /\ Len(SubSeq(whole, 1, k)) = k
             /\ \A u \in 1 .. k : SubSeq(whole, 1, k)[u] = whole[u]
  <2>1. 1 \in Int /\ k \in Int /\ \A u \in 1 .. k : whole[u] \in S
    BY <1>1, <1>2
  <2>2. /\ SubSeq(whole, 1, k) \in Seq(S)
        /\ Len(SubSeq(whole, 1, k)) = IF 1 <= k THEN k - 1 + 1 ELSE 0
        /\ \A u \in 1 .. k - 1 + 1 : SubSeq(whole, 1, k)[u] = whole[1 + u - 1]
    BY <2>1, SubSeqProperties
  <2>3. (IF 1 <= k THEN k - 1 + 1 ELSE 0) = k /\ k - 1 + 1 = k
    BY <1>2
  <2>4. \A u \in 1 .. k : 1 + u - 1 = u
    OBVIOUS
  <2> QED BY <2>2, <2>3, <2>4
<1>3. /\ tail \in Seq(S) /\ Len(tail) = to - from
      /\ \A u \in 1 .. to - from : tail[u] = whole[u + from]
  <2>1. from + 1 \in Int /\ to \in Int /\ \A u \in from + 1 .. to : whole[u] \in S
    BY <1>1
  <2>2. /\ tail \in Seq(S)
        /\ Len(tail) = IF from + 1 <= to THEN to - (from + 1) + 1 ELSE 0
        /\ \A u \in 1 .. to - (from + 1) + 1 : tail[u] = whole[from + 1 + u - 1]
    BY <2>1, SubSeqProperties
  <2>3. /\ (IF from + 1 <= to THEN to - (from + 1) + 1 ELSE 0) = to - from
        /\ to - (from + 1) + 1 = to - from
    BY <1>1
  <2>4. \A u \in 1 .. to - from : from + 1 + u - 1 = u + from
    BY <1>1
  <2> HIDE DEF tail
  <2> QED BY <2>2, <2>3, <2>4
<1>4. /\ head \in Seq(S) /\ Len(head) = from /\ \A u \in 1 .. from : head[u] = whole[u]
      /\ both \in Seq(S) /\ Len(both) = to /\ \A u \in 1 .. to : both[u] = whole[u]
  BY <1>1, <1>2
<1> HIDE DEF head, tail, both
<1>5. /\ head \o tail \in Seq(S) /\ Len(head \o tail) = Len(head) + Len(tail)
      /\ \A u \in 1 .. Len(head) + Len(tail) :
            (head \o tail)[u] = IF u <= Len(head) THEN head[u] ELSE tail[u - Len(head)]
  <2>1. head \in Seq(S) /\ tail \in Seq(S)
    BY <1>3, <1>4
  <2> QED BY <2>1, ConcatProperties
<1> DEFINE joined == head \o tail
<1>6. joined \in Seq(S) /\ Len(joined) = Len(both)
  BY <1>1, <1>3, <1>4, <1>5
<1>7. ASSUME NEW u \in 1 .. Len(joined)
      PROVE  joined[u] = both[u]
  <2>1. u \in 1 .. to /\ Len(head) + Len(tail) = to
    BY <1>1, <1>3, <1>4, <1>6
  <2>2. joined[u] = IF u <= from THEN head[u] ELSE tail[u - from]
    BY <1>4, <1>5, <2>1
  <2> HIDE DEF joined
  <2>3. CASE u <= from
    <3>1. u \in 1 .. from
      BY <1>1, <2>1, <2>3
    <3> QED BY <1>4, <2>1, <2>2, <2>3, <3>1
  <2>4. CASE ~(u <= from)
    <3>1. u - from \in 1 .. to - from /\ u - from + from = u
      BY <1>1, <2>1, <2>4
    <3>2. tail[u - from] = whole[u]
      BY <1>3, <3>1
    <3> QED BY <1>4, <2>1, <2>2, <2>4, <3>2
  <2> QED BY <2>3, <2>4
<1> HIDE DEF joined
<1>8. joined = both
  BY <1>4, <1>6, <1>7, SeqEqual
<1> QED BY <1>4, <1>8 DEF joined, both, head, tail

LEMMA BlockFollows ==
    ASSUME NEW S, NEW whole \in Seq(S), NEW k \in Nat, Offset(k) < Len(whole)
    PROVE  LET size == Len(whole)
               data == SubSeq(whole, 1, Offset(k)) \o Slice(whole, k)
           IN  /\ Block(size, k).num = k
               /\ Block(size, k).more =>
                     Offset(k + 1) < size /\ data = SubSeq(whole, 1, Offset(k + 1))
               /\ ~Block(size, k).more => data = whole
<1> DEFINE size == Len(whole)
           from == Offset(k)
           T    == {from + BlockSize, size}
           to   == Min(T)
           data == SubSeq(whole, 1, from) \o Slice(whole, k)
<1>1. /\ from \in Nat /\ Offset(k + 1) = from + BlockSize /\ BlockSize \in Nat \ {0}
      /\ size \in Nat /\ from < size
  BY BlockAssumption DEF Offset
<1>2. Slice(whole, k) = SubSeq(whole, from + 1, to)
  BY DEF Slice
<1>3. to \in T /\ \A x \in T : to <= x
  <2>1. T \in SUBSET Nat /\ T # {}
    BY <1>1
  <2> HIDE DEF T
  <2> QED BY <2>1, MinInSet
<1>4. to \in {from + BlockSize, size} /\ to <= size /\ to <= from + BlockSize
  BY <1>3
<1> HIDE DEF from, to, size
<1>5. to = IF size - from > BlockSize THEN from + BlockSize ELSE size
  BY <1>1, <1>4
<1>6. to \in 0 .. size /\ from \in 0 .. to
  BY <1>1, <1>5
<1>7. /\ data = SubSeq(whole, 1, to)
      /\ to = size => SubSeq(whole, 1, to) = whole
  <2>1. to \in 0 .. Len(whole) /\ from \in 0 .. to
    BY <1>6 DEF size
  <2>2. /\ SubSeq(whole, 1, from) \o SubSeq(whole, from + 1, to) = SubSeq(whole, 1, to)
        /\ SubSeq(whole, 1, to) \in Seq(S) /\ Len(SubSeq(whole, 1, to)) = to
        /\ \A u \in 1 .. to : SubSeq(whole, 1, to)[u] = whole[u]
    BY <2>1, PrefixGrows
  <2>3. ASSUME to = size
        PROVE  SubSeq(whole, 1, to) = whole
    <3> DEFINE s == SubSeq(whole, 1, to)
    <3>1. s \in Seq(S) /\ Len(s) = Len(whole) /\ \A u \in 1 .. Len(s) : s[u] = whole[u]
      BY <2>2, <2>3 DEF size
    <3> HIDE DEF s
    <3>2. s = whole
      BY <3>1, SeqEqual
    <3> QED BY <3>2 DEF s
  <2> QED BY <1>2, <2>2, <2>3
<1>8. Block(size, k).num = k /\ (Block(size, k).more <=> size - from > BlockSize)
  BY DEF Block, from
<1> HIDE DEF data
<1>9. Block(size, k).more => Offset(k + 1) < size /\ data = SubSeq(whole, 1, Offset(k + 1))
  BY <1>1, <1>5, <1>7, <1>8
<1>10. ~Block(size, k).more => data = whole
  BY <1>5, <1>7, <1>8
<1> QED BY <1>8, <1>9, <1>10 DEF data, size, from

LEMMA RepresentationIsSeq ==
    ASSUME NEW size \in Nat
    PROVE  /\ Representation(size) \in Seq(Nat) /\ Len(Representation(size)) = size
           /\ \A u \in 1 .. size : Representation(size)[u] = u
BY DEF Representation

LEMMA RepresentationPrefix ==
    ASSUME NEW size \in Nat, NEW to \in 0 .. size
    PROVE  SubSeq(Representation(size), 1, to) = Representation(to)
<1> DEFINE whole == Representation(size)
           s     == SubSeq(whole, 1, to)
           r     == Representation(to)
<1>1. /\ whole \in Seq(Nat) /\ Len(whole) = size /\ \A u \in 1 .. size : whole[u] = u
      /\ r \in Seq(Nat) /\ Len(r) = to /\ \A u \in 1 .. to : r[u] = u
  <2>1. to \in Nat
    OBVIOUS
  <2> QED BY <2>1, RepresentationIsSeq
<1> HIDE DEF whole, r
<1>2. s \in Seq(Nat) /\ Len(s) = to /\ \A u \in 1 .. to : s[u] = whole[u]
  <2>1. to \in 0 .. Len(whole) /\ to \in 0 .. to
    BY <1>1
  <2> QED BY <1>1, <2>1, PrefixGrows
<1> HIDE DEF s
<1>3. s = r
  <2>1. \A u \in 1 .. to : u \in 1 .. size
    OBVIOUS
  <2>2. Len(s) = Len(r) /\ \A u \in 1 .. Len(s) : s[u] = r[u]
    BY <1>1, <1>2, <2>1
  <2> QED BY <1>1, <1>2, <2>2, SeqEqual
<1> QED BY <1>3 DEF s, r, whole

(* What fits into the client's buffer is not cut off.                      *)
LEMMA ClippedFits ==
    ASSUME NEW x \in Nat, x <= MaxBlock2Body
    PROVE  Clipped(Representation(x)) = Representation(x)
<1> DEFINE T == {x, MaxBlock2Body}
<1>1. Min(T) = x
  <2>1. T \in SUBSET Nat /\ T # {}
    BY BlockAssumption
  <2>2. Min(T) \in T /\ \A y \in T : Min(T) <= y
    <3> HIDE DEF T
    <3> QED BY <2>1, MinInSet
  <2> DEFINE mn == Min(T)
  <2>3. mn \in {x, MaxBlock2Body} /\ mn <= x
    BY <2>2
  <2> HIDE DEF mn
  <2>4. mn = x
    BY <2>3, BlockAssumption
  <2> QED BY <2>4 DEF mn
<1>2. Len(Representation(x)) = x
  BY RepresentationIsSeq
<1>3. Clipped(Representation(x)) = SubSeq(Representation(x), 1, x)
  BY <1>1, <1>2 DEF Clipped
<1> QED BY <1>3, RepresentationPrefix

(* Of the blocks up to the one that is waited for, a slot takes that one.   *)
LEMMA CollectedFits ==
    ASSUME NEW recv \in [active : BOOLEAN, next : Nat, data : Seq(Nat)],
           recv.data = Representation(Offset(recv.next)),
           NEW size \in Nat, size <= MaxBlock2Body,
           recv.next > 0 => Offset(recv.next) < size,
           NEW m, NEW k \in Nat, k <= recv.next, Offset(k) < size, m.block2 = Block(size, k),
           m.data = Slice(Representation(size), k)
    PROVE  LET got == Collected(recv, m)
           IN  /\ m.block2.more => /\ got.active /\ got.next \in Nat /\ got.next >= recv.next
                                   /\ got.data = Representation(Offset(got.next))
                                   /\ Offset(got.next) < size
               /\ ~m.block2.more => got.data = Representation(size)
<1> DEFINE whole == Representation(size)
           data  == recv.data \o m.data
           got   == Collected(recv, m)
<1>1. whole \in Seq(Nat) /\ Len(whole) = size
  BY RepresentationIsSeq
<1>2. m.block2.num = k /\ (m.block2.more <=> size - Offset(k) > BlockSize)
  <2>1. Block(size, k).num = k /\ (Block(size, k).more <=> size - Offset(k) > BlockSize)
    BY DEF Block
  <2> QED BY <2>1
<1>3. /\ Offset(k) \in Nat /\ Offset(k + 1) = Offset(k) + BlockSize /\ BlockSize \in Nat \ {0}
      /\ Offset(recv.next) \in Nat
      /\ recv.next > k => Offset(recv.next) >= Offset(k) + BlockSize
  <2>1. recv.next \in Nat /\ BlockSize \in Nat \ {0}
    BY BlockAssumption
  <2> DEFINE r == recv.next
  <2>2. r \in Nat
    BY <2>1
  <2> HIDE DEF r
  <2>3. \A x, y \in Nat : x * BlockSize \in Nat /\ (x + 1) * BlockSize = x * BlockSize + BlockSize
    BY <2>1
  <2>4. ASSUME r > k
        PROVE  r * BlockSize >= k * BlockSize + BlockSize
    <3>1. PICK j \in Nat : r = k + 1 + j
      <4>1. r - (k + 1) \in Nat /\ r = k + 1 + (r - (k + 1))
        BY <2>2, <2>4
      <4> QED BY <4>1
    <3>2. r * BlockSize = (k + 1) * BlockSize + j * BlockSize
      BY <2>1, <3>1
    <3> QED BY <2>1, <2>3, <3>2
  <2> QED BY <2>1, <2>2, <2>3, <2>4 DEF Offset, r
<1> HIDE DEF got
<1>4. CASE k = recv.next
  <2>1. /\ Block(size, k).more =>
              Offset(k + 1) < size /\ data = SubSeq(whole, 1, Offset(k + 1))
        /\ ~Block(size, k).more => data = whole
    <3>1. SubSeq(whole, 1, Offset(k)) = Representation(Offset(k))
      <4>1. Offset(k) \in 0 .. size
        BY <1>3
      <4> QED BY <4>1, RepresentationPrefix
    <3>2. Offset(k) < Len(whole)
      BY <1>1
    <3>3. data = SubSeq(whole, 1, Offset(k)) \o Slice(whole, k)
      BY <1>4, <3>1
    <3> HIDE DEF whole, data
    <3> QED BY <1>1, <3>2, <3>3, BlockFollows
  <2>2. got = [active |-> TRUE, next |-> recv.next + 1, data |-> Clipped(data)]
    BY <1>2, <1>4 DEF Collected, got
  <2>3. ASSUME m.block2.more
        PROVE  /\ got.data = Representation(Offset(k + 1)) /\ Offset(k + 1) < size
    <3>1. Offset(k + 1) < size /\ data = SubSeq(whole, 1, Offset(k + 1))
      BY <2>1, <2>3
    <3>2. Offset(k + 1) \in Nat /\ Offset(k + 1) \in 0 .. size /\ Offset(k + 1) <= MaxBlock2Body
      BY <1>3, <3>1, BlockAssumption
    <3>3. data = Representation(Offset(k + 1))
      BY <3>1, <3>2, RepresentationPrefix
    <3> HIDE DEF data
    <3> QED BY <2>2, <3>1, <3>2, <3>3, ClippedFits
  <2>4. ASSUME ~m.block2.more
        PROVE  got.data = Representation(size)
    <3>1. data = whole
      BY <2>1, <2>4
    <3> HIDE DEF data
    <3> QED BY <2>2, <3>1, ClippedFits
  <2>5. got.active /\ got.next = recv.next + 1
    BY <2>2
  <2> QED BY <1>4, <2>3, <2>4, <2>5 DEF got
<1>5. CASE k # recv.next
  <2>1. k < recv.next
    BY <1>5
  <2>2. Offset(recv.next) < size /\ Offset(recv.next) >= Offset(k) + BlockSize
    BY <1>3, <2>1
  <2>3. m.block2.more
    <3> DEFINE from == Offset(k)
               last == Offset(recv.next)
    <3>1. from \in Nat /\ last \in Nat /\ last < size /\ last >= from + BlockSize
      BY <1>3, <2>2
    <3> HIDE DEF from, last
    <3>2. size - from > BlockSize
      BY <1>3, <3>1
    <3> QED BY <1>2, <3>2 DEF from
  <2>4. got = [recv EXCEPT !.active = TRUE]
    BY <1>2, <1>5 DEF Collected, got
  <2>5. got.active /\ got.next = recv.next /\ got.data = recv.data
    BY <2>4
  <2> QED BY <2>2, <2>3, <2>5 DEF got
<1> QED BY <1>4, <1>5

(* A block of a representation: the client has asked for it, and all of it *)
(* fits into the client's buffer.  The slot it goes to is of its call.     *)
Bears(m, c, sizes) ==
    IsResponse(m) /\ HasOption(m, "block2") =>
       /\ m.path \in DOMAIN sizes /\ sizes[m.path] \in Nat /\ sizes[m.path] <= MaxBlock2Body
       /\ Offset(m.block2.num) < sizes[m.path]
       /\ m.block2 = Block(sizes[m.path], m.block2.num)
       /\ m.data = Slice(Representation(sizes[m.path]), m.block2.num)
       /\ AsksFor(c, m.about, m.path, m.block2.num)

Meant(m, c) ==
    IsResponse(m) => \A i \in TxSlots :
       c.pending[i] # Free /\ c.pending[i].token = m.token => c.pending[i].ctx = m.about

(* From c to t a packet is heard, too. *)
Heeds(t, c, m) ==
    /\ Trust(t, c)
    /\ \A sizes : Fetching(c, sizes) /\ Bears(m, c, sizes) /\ Meant(m, c) =>
          Expects(t, c) /\ Fetching(t, sizes)

LEMMA FaithHeeds == \A c, t, m : Faith(t, c) => Heeds(t, c, m)
BY DEF Faith, Loyal, Heeds

LEMMA HeedsThenFaith ==
    \A c, r, t, m : Heeds(r, c, m) /\ Faith(t, r) => Heeds(t, c, m)
<1>1. \A c, r, t : Expects(r, c) /\ Expects(t, r) => Expects(t, c)
  BY DEF Expects
<1> QED BY <1>1, TrustTwice DEF Faith, Loyal, Heeds

LEMMA TameThenHeeds ==
    ASSUME NEW c, Typed(c), NEW r, Tame(r, c), NEW m, NEW t, Heeds(t, r, m)
    PROVE  Heeds(t, c, m)
<1>1. Faith(r, c)
  BY TypedTame
<1>2. Trust(t, c)
  BY <1>1, TrustTwice DEF Faith, Heeds
<1>3. Expects(r, c) /\ (Expects(t, r) => Expects(t, c))
  BY <1>1 DEF Faith, Loyal, Expects
<1>4. \A sizes : Bears(m, c, sizes) => Bears(m, r, sizes)
  BY <1>3 DEF Bears, Expects
<1>5. Meant(m, c) => Meant(m, r)
  <2>1. \A i \in TxSlots : r.pending[i] # Free =>
           /\ c.pending[i] # Free /\ r.pending[i].token = c.pending[i].token
           /\ r.pending[i].ctx = c.pending[i].ctx
    <3>1. \A i \in TxSlots : r.pending[i] # Free => SameSlot(r.pending[i], c.pending[i])
      BY DEF Tame, Mild
    <3> QED BY <3>1 DEF SameSlot
  <2> QED BY <2>1 DEF Meant
<1> QED BY <1>1, <1>2, <1>3, <1>4, <1>5 DEF Heeds, Faith, Loyal

(* What a block makes of what has been collected, for a one-shot call.     *)
LEMMA BlockHeard ==
    ASSUME NEW own, NEW c, ClientOK(c, own), NEW i \in TxSlots, c.pending[i] # Free,
           Ledger(c, 0), NEW m, IsResponse(m), HasOption(m, "block2"),
           c.pending[i].token = m.token, OneShot(c.calls[c.pending[i].ctx]),
           NEW sizes, Fetching(c, sizes), Bears(m, c, sizes), Meant(m, c)
    PROVE  LET p    == c.pending[i]
               recv == IF p.recv.active THEN p.recv ELSE NoDownload
               got  == Collected(recv, m)
           IN  /\ p.path \in DOMAIN sizes
               /\ m.block2.more => /\ got.active /\ got.next \in Nat /\ got.next >= p.recv.next
                                   /\ got.data = Representation(Offset(got.next))
                                   /\ Offset(got.next) < sizes[p.path]
               /\ ~m.block2.more => got.data = Representation(sizes[p.path])
<1> DEFINE p    == c.pending[i]
           n    == p.ctx
           recv == IF p.recv.active THEN p.recv ELSE NoDownload
           k    == m.block2.num
           size == sizes[p.path]
<1>1. Typed(c) /\ p \in PendingEntry
  BY TablesTyped DEF ClientOK, PendingTable
<1>2. /\ n \in 1 .. MaxCalls /\ Told(c.calls[n]) = 0
  BY <1>1, HolderOf
<1>3. Awaits(c.calls[n])
  <2>1. c.calls[n] \in CallRecord
    BY <1>1, <1>2 DEF Typed
  <2>2. c.calls[n].responses \in Nat /\ c.calls[n].timeouts \in Nat
    BY <2>1 DEF CallRecord
  <2>3. c.calls[n].responses + c.calls[n].timeouts = 0
    BY <1>2 DEF Told, Outcomes
  <2> QED BY <2>2, <2>3 DEF Awaits
<1>4. Collecting(p, sizes)
  BY <1>3 DEF Fetching
<1>5. m.about = n
  BY DEF Meant
<1>6. /\ m.path \in DOMAIN sizes /\ sizes[m.path] \in Nat /\ sizes[m.path] <= MaxBlock2Body
      /\ Offset(k) < sizes[m.path]
      /\ m.block2 = Block(sizes[m.path], k)
      /\ m.data = Slice(Representation(sizes[m.path]), k)
      /\ AsksFor(c, n, m.path, k)
  BY <1>5 DEF Bears
<1>7. p.path = m.path /\ k \in Nat /\ k <= p.recv.next
  BY <1>3, <1>6 DEF AsksFor
<1>8. p.recv \in [active : BOOLEAN, next : Nat, data : Seq(Nat)]
  BY <1>1 DEF PendingEntry
<1>9. /\ recv \in [active : BOOLEAN, next : Nat, data : Seq(Nat)] /\ recv.next = p.recv.next
      /\ recv.data = Representation(Offset(recv.next))
  <2>1. CASE p.recv.active
    BY <1>4, <1>8, <2>1 DEF Collecting
  <2>2. CASE ~p.recv.active
    <3>1. p.recv.next = 0 /\ recv = NoDownload
      BY <1>4, <2>2 DEF Collecting
    <3>2. Representation(0) = <<>> /\ Offset(0) = 0
      BY BlockAssumption DEF Representation, Offset
    <3>3. NoDownload \in [active : BOOLEAN, next : Nat, data : Seq(Nat)]
          /\ NoDownload.next = 0 /\ NoDownload.data = <<>>
      BY DEF NoDownload
    <3> HIDE DEF recv, p
    <3> QED BY <3>1, <3>2, <3>3
  <2> QED BY <2>1, <2>2
<1>10. recv.next > 0 => Offset(recv.next) < size
  BY <1>4, <1>9 DEF Collecting
<1> HIDE DEF recv, p, n, k
<1>11. /\ size \in Nat /\ size <= MaxBlock2Body /\ Offset(k) < size /\ k <= recv.next
       /\ m.block2 = Block(size, k) /\ m.data = Slice(Representation(size), k)
  BY <1>6, <1>7, <1>9
<1> HIDE DEF size
<1> DEFINE got == Collected(recv, m)
<1>12. /\ m.block2.more => /\ got.active /\ got.next \in Nat /\ got.next >= recv.next
                           /\ got.data = Representation(Offset(got.next))
                           /\ Offset(got.next) < size
       /\ ~m.block2.more => got.data = Representation(size)
  BY <1>7, <1>9, <1>10, <1>11, CollectedFits
<1> QED BY <1>6, <1>7, <1>9, <1>12 DEF recv, p, size

LEMMA OnBlock2Heeds ==
    ASSUME NEW own, NEW c, ClientOK(c, own), NEW i \in TxSlots, c.pending[i] # Free, NEW m,
           OneOwner(own) => m.about = c.pending[i].ctx, IsResponse(m), HasOption(m, "block2"),
           c.pending[i].token = m.token, m.block2.num \in Nat, m.data \in Seq(Nat),
           NEW reaction, Ledger(c, 0)
    PROVE  Heeds(OnBlock2(c, i, m, reaction), c, m)
<1> DEFINE p    == c.pending[i]
           recv == IF p.recv.active THEN p.recv ELSE NoDownload
           got  == Collected(recv, m)
           n    == p.ctx
           c1   == WithRecv(c, i, got)
           c0   == WithRecv(c, i, NoDownload)
           c2   == WithBody(c0, n, got.data)
           c3   == CallResponse(c2, n, m)
           t    == OnBlock2(c, i, m, reaction)
<1>1. /\ n \in 1 .. MaxCalls /\ Typed(c) /\ p \in PendingEntry
      /\ p.recv \in [active : BOOLEAN, next : Nat, data : Seq(Nat)]
  BY TablesTyped DEF ClientOK, PendingTable, PendingEntry
<1>2. NoDownload \in [active : BOOLEAN, next : Nat, data : Seq(Nat)]
  BY DEF NoDownload
<1>3. recv \in [active : BOOLEAN, next : Nat, data : Seq(Nat)]
  BY <1>1, <1>2
<1>4. c2 = [c EXCEPT !.pending[i].recv = NoDownload, !.calls[n].bodies = @ \cup {got.data}]
  BY DEF WithBody, WithRecv, ClientOK, ClientObject
<1>5. t = IF m.block2.more THEN SendBlock2Request(c1, i) ELSE Answered(c2, i, m, reaction)
  BY <1>4 DEF OnBlock2, WithRecv
<1>6. Alone(c, i) /\ Told(c.calls[n]) = 0
  <2>1. Alone(c, i)
    BY <1>1, HolderAlone
  <2>2. Told(c.calls[n]) = 0
    BY <1>1, HolderOf
  <2> QED BY <2>1, <2>2
<1>7. ASSUME NEW sizes, Fetching(c, sizes), Bears(m, c, sizes), Meant(m, c), OneShot(c.calls[n])
      PROVE  /\ p.path \in DOMAIN sizes
             /\ m.block2.more => /\ got.active /\ got.next \in Nat /\ got.next >= p.recv.next
                                 /\ got.data = Representation(Offset(got.next))
                                 /\ Offset(got.next) < sizes[p.path]
             /\ ~m.block2.more => got.data = Representation(sizes[p.path])
  BY <1>7, BlockHeard
<1> HIDE DEF recv
<1>8. got \in [active : BOOLEAN, next : Nat, data : Seq(Nat)] /\ got.data \in Seq(Nat)
  <2>1. got \in [active : BOOLEAN, next : Nat, data : Seq(Nat)]
    BY <1>3, CollectedOK
  <2> HIDE DEF got
  <2> QED BY <2>1
<1> HIDE DEF got, t, p, n
<1>9. /\ ClientOK(c1, own) /\ c1.pending[i] # Free /\ Trust(c1, c)
      /\ ClientOK(c0, own) /\ c0.pending[i] # Free /\ Trust(c0, c) /\ Ledger(c0, 0)
  BY <1>1, <1>2, <1>8, RecvChange, RecvLedger, RecvMild, TypedMild
<1>10. ASSUME NEW r \in [active : BOOLEAN, next : Nat, data : Seq(Nat)]
       PROVE  LET u == WithRecv(c, i, r)
              IN  /\ u.issued = c.issued /\ u.calls = c.calls /\ Sent(u) = Sent(c)
                  /\ u.pending[i].ctx = n /\ u.pending[i].path = p.path /\ u.pending[i].recv = r
                  /\ \A j \in TxSlots \ {i} : u.pending[j] = c.pending[j]
  <2> DEFINE e == [p EXCEPT !.recv = r]
             table == [c.pending EXCEPT ![i] = e]
             u == WithRecv(c, i, r)
  <2>1. e.ctx = n /\ e.path = p.path /\ e.recv = r
    BY <1>1 DEF PendingEntry, n
  <2>2. u = [c EXCEPT !.pending = table] /\ ClientObject(c)
    BY <1>1 DEF WithRecv, Typed, p
  <2>3. table[i] = e /\ \A j \in TxSlots \ {i} : table[j] = c.pending[j]
    BY <1>1 DEF Typed
  <2> HIDE DEF e, table, u
  <2>4. u.issued = c.issued /\ u.calls = c.calls /\ Sent(u) = Sent(c) /\ u.pending = table
    BY <2>2 DEF ClientObject, Sent
  <2> QED BY <2>1, <2>3, <2>4 DEF u
<1>11. /\ c1.issued = c.issued /\ c1.calls = c.calls /\ Sent(c1) = Sent(c)
       /\ c1.pending[i].ctx = n /\ c1.pending[i].path = p.path /\ c1.pending[i].recv = got
       /\ \A j \in TxSlots \ {i} : c1.pending[j] = c.pending[j]
  BY <1>8, <1>10
<1>12. /\ c0.issued = c.issued /\ c0.calls = c.calls /\ Sent(c0) = Sent(c)
       /\ c0.pending[i].ctx = n
       /\ \A j \in TxSlots \ {i} : c0.pending[j] = c.pending[j]
  BY <1>2, <1>10
<1> HIDE DEF c1, c0
(* The next block is requested. *)
<1>13. ASSUME m.block2.more
       PROVE  Heeds(t, c, m)
  <2>1. Alone(c1, i)
    BY <1>6, <1>11 DEF Alone, n, p
  <2>2. Faith(SendBlock2Request(c1, i), c1)
    BY <1>9, <2>1, BlocksTame, TypedTame, TablesTyped
  <2>3. ASSUME NEW sizes, Fetching(c, sizes), Bears(m, c, sizes), Meant(m, c)
        PROVE  Expects(c1, c) /\ Fetching(c1, sizes)
    <3>1. OneShot(c.calls[n]) =>
             /\ p.path \in DOMAIN sizes /\ got.active /\ got.next \in Nat
             /\ got.next >= p.recv.next /\ got.data = Representation(Offset(got.next))
             /\ Offset(got.next) < sizes[p.path]
      BY <1>7, <1>13, <2>3
    <3>2. Expects(c1, c)
      <4> SUFFICES ASSUME NEW k, NEW path, NEW b, AsksFor(c, k, path, b)
                   PROVE  AsksFor(c1, k, path, b)
        BY DEF Expects
      <4>1. ASSUME Awaits(c.calls[k]), k = n
            PROVE  p.path = path /\ b <= got.next
        <5>1. path = p.path /\ b \in Nat /\ b <= p.recv.next /\ OneShot(c.calls[n])
          BY <4>1 DEF AsksFor, Awaits, p, n
        <5>2. got.next \in Nat /\ got.next >= p.recv.next /\ p.recv.next \in Nat
          BY <1>1, <3>1, <5>1
        <5> QED BY <5>1, <5>2
      <4> QED BY <1>11, <4>1 DEF AsksFor
    <3>3. ASSUME NEW j \in TxSlots, c1.pending[j] # Free, Awaits(c1.calls[c1.pending[j].ctx])
          PROVE  Collecting(c1.pending[j], sizes)
      <4>1. CASE j = i
        BY <1>11, <3>1, <3>3, <4>1 DEF Awaits, Collecting
      <4>2. CASE j # i
        BY <1>11, <2>3, <3>3, <4>2 DEF Fetching
      <4> QED BY <4>1, <4>2
    <3>4. \A x \in Sent(c1) : Wanted(x, c1)
      BY <1>11, <2>3, <3>2 DEF Fetching, Wanted, Expects
    <3> QED BY <1>11, <2>3, <3>2, <3>3, <3>4 DEF Fetching
  <2>4. Heeds(c1, c, m)
    BY <1>9, <2>3 DEF Heeds
  <2> QED BY <1>5, <1>13, <2>2, <2>4, HeedsThenFaith
(* All of it has been collected. *)
<1>14. /\ ClientOK(c2, own) /\ Ledger(c2, 0) /\ c2.pending = c0.pending
       /\ Trust(c2, c0) /\ Trust(c3, c2)
  <2>1. ClientOK(c2, own) /\ Ledger(c2, 0) /\ c2.pending = c0.pending
    BY <1>1, <1>8, <1>9, WithBodyOK
  <2>2. Typed(c0) /\ Typed(c2)
    BY <1>9, <2>1, TablesTyped
  <2>3. Mild(c2, c0) /\ Tame(c3, c2)
    BY <1>1, <2>2, HandlersTame
  <2> QED BY <2>1, <2>2, <2>3, TypedMild DEF Tame
<1>15. Trust(c3, c)
  BY <1>9, <1>14, TrustTwice
<1>16. /\ c3.issued = c.issued /\ Sent(c3) = Sent(c) /\ c3.pending = c0.pending
       /\ c3.calls[n].kind = c.calls[n].kind /\ c3.calls[n].responses # 0
       /\ c3.calls[n].bodies = c.calls[n].bodies \cup {got.data}
       /\ \A k \in 1 .. MaxCalls : k # n => c3.calls[k] = c.calls[k]
  <2> DEFINE call2 == [c.calls[n] EXCEPT !.bodies = @ \cup {got.data}]
             call3 == Responded(call2, n, m)
             calls2 == [c.calls EXCEPT ![n] = call2]
             calls3 == [calls2 EXCEPT ![n] = call3]
  <2>1. c.calls \in [1 .. MaxCalls -> CallRecord] /\ ClientObject(c0)
    BY <1>1, <1>9 DEF Typed, ClientOK
  <2>2. /\ calls2[n] = call2 /\ calls3[n] = call3
        /\ \A k \in 1 .. MaxCalls : k # n => calls3[k] = c.calls[k]
    <3> HIDE DEF call2, call3
    <3> QED BY <1>1, <2>1
  <2>3. /\ call2.kind = c.calls[n].kind /\ call2.bodies = c.calls[n].bodies \cup {got.data}
        /\ call3.kind = call2.kind /\ call3.bodies = call2.bodies /\ call3.responses # 0
    <3>1. c.calls[n] \in CallRecord
      BY <1>1, <2>1
    <3> QED BY <3>1 DEF CallRecord, Responded, Capped
  <2>4. c2 = [c0 EXCEPT !.calls = calls2]
    BY <1>12 DEF WithBody
  <2> HIDE DEF call2, call3, calls3, c2
  <2>5. c2 = [pending |-> c0.pending, tx |-> c0.tx, discovers |-> c0.discovers,
              nextToken |-> c0.nextToken, nextMid |-> c0.nextMid, issued |-> c0.issued,
              calls |-> calls2, out |-> c0.out]
    BY <2>1, <2>4 DEF ClientObject
  <2>6. c3 = [c2 EXCEPT !.calls = calls3]
    BY <2>2, <2>5 DEF CallResponse, call3, calls3
  <2> HIDE DEF c3, calls2
  <2>7. c3 = [pending |-> c0.pending, tx |-> c0.tx, discovers |-> c0.discovers,
              nextToken |-> c0.nextToken, nextMid |-> c0.nextMid, issued |-> c0.issued,
              calls |-> calls3, out |-> c0.out]
    BY <2>5, <2>6
  <2> QED BY <1>12, <2>2, <2>3, <2>7 DEF Sent
<1> HIDE DEF c2, c3
<1>17. ASSUME ~m.block2.more, NEW sizes, Fetching(c, sizes), Bears(m, c, sizes), Meant(m, c)
       PROVE  Expects(c3, c) /\ Fetching(c3, sizes)
  <2>1. OneShot(c.calls[n]) => p.path \in DOMAIN sizes /\ got.data = Representation(sizes[p.path])
    BY <1>7, <1>17
  <2>2. \A k \in 1 .. c.issued : k \in 1 .. MaxCalls
    BY <1>1, ClientAssumption DEF Typed
  <2>3. Expects(c3, c)
    <3> SUFFICES ASSUME NEW k, NEW path, NEW b, AsksFor(c, k, path, b)
                 PROVE  AsksFor(c3, k, path, b)
      BY DEF Expects
    <3>1. Awaits(c3.calls[k]) => k # n /\ c3.calls[k] = c.calls[k]
      BY <1>16, <2>2 DEF Awaits, AsksFor
    <3> QED BY <1>12, <1>16, <3>1 DEF AsksFor
  <2>4. ASSUME NEW j \in TxSlots, c3.pending[j] # Free, Awaits(c3.calls[c3.pending[j].ctx])
        PROVE  Collecting(c3.pending[j], sizes)
    <3>1. c3.pending[j].ctx # n
      BY <1>16, <2>4 DEF Awaits
    <3>2. j # i
      BY <1>12, <1>16, <3>1
    <3>3. c3.pending[j] = c.pending[j] /\ c.pending[j].ctx \in 1 .. MaxCalls
      BY <1>1, <1>12, <1>16, <2>4, <3>2 DEF Typed, PendingEntry
    <3>4. c3.calls[c.pending[j].ctx] = c.calls[c.pending[j].ctx]
      BY <1>16, <3>1, <3>3
    <3> QED BY <1>17, <2>4, <3>3, <3>4 DEF Fetching
  <2>5. ASSUME NEW k \in 1 .. MaxCalls, OneShot(c3.calls[k]) \/ k > c3.issued,
               NEW body \in c3.calls[k].bodies
        PROVE  Gathered(body, sizes)
    <3>1. CASE k # n
      BY <1>16, <1>17, <2>5, <3>1 DEF Fetching
    <3>2. CASE k = n
      <4>1. ~(n > c.issued)
        BY <1>1, <1>6 DEF Alone, Typed, n, p
      <4>2. OneShot(c.calls[n])
        BY <1>16, <2>5, <3>2, <4>1 DEF OneShot
      <4>3. CASE body \in c.calls[n].bodies
        BY <1>1, <1>17, <4>2, <4>3 DEF Fetching
      <4>4. CASE body = got.data
        BY <2>1, <4>2, <4>4 DEF Gathered
      <4> QED BY <1>16, <2>5, <3>2, <4>3, <4>4
    <3> QED BY <3>1, <3>2
  <2>6. \A x \in Sent(c3) : Wanted(x, c3)
    BY <1>16, <1>17, <2>3 DEF Fetching, Wanted, Expects
  <2> QED BY <2>3, <2>4, <2>5, <2>6 DEF Fetching
<1>18. ASSUME ~m.block2.more
       PROVE  Heeds(t, c, m)
  <2>1. Heeds(c3, c, m)
    BY <1>15, <1>17, <1>18 DEF Heeds
  <2>2. c2.pending[i] # Free /\ c2.pending[i].ctx = n
    BY <1>9, <1>12, <1>14
  <2>3. OneOwner(own) => m.about = c2.pending[i].ctx
    BY <2>2 DEF n, p
  <2>4. Faith(t, CallResponse(c2, c2.pending[i].ctx, m))
    BY <1>5, <1>14, <1>18, <2>2, <2>3, AnsweredFaith
  <2>5. Faith(t, c3)
    BY <2>2, <2>4 DEF c3
  <2> QED BY <2>1, <2>5, HeedsThenFaith
<1> QED BY <1>13, <1>18 DEF t

LEMMA OnMatchedHeeds ==
    ASSUME NEW own, NEW c, ClientOK(c, own), NEW i \in TxSlots, c.pending[i] # Free, NEW m,
           OneOwner(own) => m.about = c.pending[i].ctx, c.pending[i].token = m.token,
           HeardOK(m, own), IsResponse(m), NEW reaction, Ledger(c, 0)
    PROVE  Heeds(OnMatched(c, i, m, reaction), c, m)
<1> DEFINE c1 == WithUp(c, i, NoUpload)
           c2 == FirstBlock(c1, i, m)
<1>1. NoUpload \in [size : Nat, next : Nat] /\ Typed(c)
  BY TablesTyped DEF NoUpload
<1>2. OnMatched(c, i, m, reaction) =
        IF m.code = "Continue" /\ c.pending[i].up # NoUpload THEN OnContinue(c, i)
        ELSE IF HasOption(m, "block2") THEN OnBlock2(c2, i, m, reaction)
        ELSE Answered(c1, i, m, reaction)
  BY DEF OnMatched, WithUp
<1>3. /\ ClientOK(c1, own) /\ c1.pending[i] # Free
      /\ c1.pending[i].ctx = c.pending[i].ctx /\ Ledger(c1, 0) /\ Tame(c1, c)
  BY <1>1, NothingLeft, UpChange, UpLedger, UpTame
<1>4. c1.pending[i].token = m.token
  BY <1>3 DEF Tame, Mild, SameSlot
<1> HIDE DEF c1, c2
<1>5. CASE m.code = "Continue" /\ c.pending[i].up # NoUpload
  BY <1>2, <1>5, OnContinueFaith, FaithHeeds
<1>6. CASE ~(m.code = "Continue" /\ c.pending[i].up # NoUpload) /\ HasOption(m, "block2")
  <2>1. m.block2.num \in Nat /\ m.data \in Seq(Nat) /\ m.src \in Servers
    BY <1>6 DEF HeardOK
  <2>2. Typed(c1)
    BY <1>3, TablesTyped
  <2>3. /\ ClientOK(c2, own) /\ c2.pending[i] # Free
        /\ c2.pending[i].ctx = c.pending[i].ctx /\ c2.pending[i].token = m.token
    BY <1>3, <1>4, <2>1, FirstBlockOK DEF c2
  <2>4. Ledger(c2, 0) /\ Tame(c2, c1)
    BY <1>3, <2>1, <2>2, FirstBlockLedger, FirstBlockTame DEF c2
  <2>5. Heeds(OnBlock2(c2, i, m, reaction), c2, m)
    BY <1>6, <2>1, <2>3, <2>4, OnBlock2Heeds
  <2>6. Heeds(OnBlock2(c2, i, m, reaction), c1, m)
    BY <2>2, <2>4, <2>5, TameThenHeeds
  <2> QED BY <1>1, <1>2, <1>3, <1>6, <2>6, TameThenHeeds
<1>7. CASE ~(m.code = "Continue" /\ c.pending[i].up # NoUpload) /\ ~HasOption(m, "block2")
  <2>1. Faith(Answered(c1, i, m, reaction), c1)
    BY <1>3, AnsweredFaith
  <2> QED BY <1>1, <1>2, <1>3, <1>7, <2>1, FaithHeeds, TameThenHeeds
<1> QED BY <1>5, <1>6, <1>7

LEMMA OnResponseHeeds ==
    ASSUME NEW own, NEW c, ClientOK(c, own), NEW m, HeardOK(m, own), IsResponse(m),
           NEW reaction, Ledger(c, 0)
    PROVE  Heeds(OnResponse(c, m, reaction), c, m)
<1> DEFINE ack == EmptyAck(ClientEp, m.src, m.mid)
           out == c.out \cup {ack}
           c1  == IF m.type = "CON" THEN [c EXCEPT !.out = out] ELSE c
           d   == Min(DiscoverByToken(c1, m.token))
           i   == Min(PendingByToken(c1, m.token))
           n   == c1.discovers[d].ctx
<1>1. SentOK(ack, own) /\ GoesOn(ack, c)
  <2>1. ack.obs = "none" /\ ack.code \notin MethodCodes
    BY NoCodeTwice DEF EmptyAck
  <2> QED BY <2>1, AckSent DEF GoesOn, Wanted
<1>2. OnResponse(c, m, reaction) =
        IF DiscoverByToken(c1, m.token) # {} THEN CallResponse(c1, n, m)
        ELSE IF PendingByToken(c1, m.token) # {} THEN OnMatched(c1, i, m, reaction)
        ELSE c1
  BY DEF OnResponse
<1> HIDE DEF ack
<1>3. ClientOK(c1, own) /\ SameRecords(c1, c)
  <2>1. \A p \in {ack} : SentOK(p, own)
    BY <1>1
  <2>2. ClientOK([c EXCEPT !.out = @ \cup {ack}], own)
    BY <2>1, Sends
  <2> QED BY <2>2 DEF ClientOK, ClientObject, SameRecords
<1>4. Tame(c1, c) /\ Typed(c)
  <2>1. \A p \in out : p \in Sent(c) \/ GoesOn(p, c)
    BY <1>1 DEF Sent
  <2>2. ClientObject(c) /\ Typed(c)
    BY TablesTyped DEF ClientOK
  <2> HIDE DEF out
  <2>3. Tame([c EXCEPT !.out = out], c)
    BY <2>1, <2>2, OutTame
  <2> QED BY <2>2, <2>3, TameOnce
<1> HIDE DEF c1, d, i
<1>5. Ledger(c1, 0) /\ Typed(c1)
  BY <1>3, SameRecordsLedger, TablesTyped
<1>6. CASE DiscoverByToken(c1, m.token) # {}
  <2>1. d \in DiscoverSlots /\ c1.discovers[d] # Free
    BY <1>3, <1>6, FirstOf DEF d
  <2>2. n \in 1 .. MaxCalls
    BY <1>5, <2>1 DEF Typed, DiscoverEntry
  <2> HIDE DEF n
  <2>3. Faith(CallResponse(c1, n, m), c1)
    BY <1>5, <2>2, HandlersTame, TypedTame
  <2> QED BY <1>2, <1>4, <1>6, <2>3, FaithHeeds, TameThenHeeds
<1>7. CASE DiscoverByToken(c1, m.token) = {} /\ PendingByToken(c1, m.token) # {}
  <2>1. i \in TxSlots /\ c1.pending[i] # Free /\ c1.pending[i].token = m.token
    BY <1>3, <1>7, FirstOf DEF i
  <2>2. Owns(own, m.token, c1.pending[i].ctx)
    BY <1>3, <2>1 DEF ClientOK, PendingTable
  <2>3. OneOwner(own) => m.about = c1.pending[i].ctx
    BY <2>2 DEF HeardOK, IsResponse, OneOwner
  <2>4. Heeds(OnMatched(c1, i, m, reaction), c1, m)
    BY <1>3, <1>5, <2>1, <2>3, OnMatchedHeeds
  <2> QED BY <1>2, <1>4, <1>7, <2>4, TameThenHeeds
<1>8. CASE DiscoverByToken(c1, m.token) = {} /\ PendingByToken(c1, m.token) = {}
  BY <1>2, <1>4, <1>8, TypedTame, FaithHeeds
<1> QED BY <1>6, <1>7, <1>8

LEMMA CompleteTxTame ==
    ASSUME NEW own, NEW c, ClientOK(c, own), NEW remote, NEW mid
    PROVE  Tame([c EXCEPT !.tx = CompleteTx(@, remote, mid)], c)
<1> DEFINE matches == SlotsByMid(c.tx, remote, mid)
           T    == {c.tx[i] : i \in TxSlots} \cup {Free}
           pool == CompleteTx(c.tx, remote, mid)
<1>1. pool = FreeFirst(c.tx, matches) /\ matches \in SUBSET TxSlots
  BY DEF CompleteTx, SlotsByMid, InFlight
<1>2. Free \in T /\ c.tx \in [TxSlots -> T]
  BY DEF ClientOK, ClientPool
<1> HIDE DEF T, matches, pool
<1>3. \A i \in TxSlots : pool[i] = c.tx[i] \/ pool[i] = Free
  BY <1>1, <1>2, FreeFirstEffect
<1>4. \A i \in InFlight(pool) : i \in InFlight(c.tx) /\ pool[i].packet = c.tx[i].packet
  BY <1>3 DEF InFlight
<1>5. ClientObject(c) /\ Typed(c)
  BY TablesTyped DEF ClientOK
<1>6. Tame([c EXCEPT !.tx = pool], c)
  BY <1>4, <1>5, PoolTame
<1> QED BY <1>6 DEF pool

LEMMA OnPacketHeeds ==
    ASSUME NEW own, NEW c, ClientOK(c, own), NEW m, HeardOK(m, own), NEW reaction, Ledger(c, 0)
    PROVE  Heeds(OnPacket(c, m, reaction), c, m)
<1> DEFINE c1 == IF m.type = "ACK" THEN [c EXCEPT !.tx = CompleteTx(@, m.src, m.mid)] ELSE c
<1>1. ClientOK(c1, own)
  BY CompleteTxOK
<1>2. SameRecords(c1, c)
  <2>1. SameRecords(c, c)
    BY DEF SameRecords
  <2> QED BY <2>1, CompleteTxTables
<1>3. OnPacket(c, m, reaction) = IF IsResponse(m) THEN OnResponse(c1, m, reaction) ELSE c1
  BY DEF OnPacket
<1>4. Tame(c1, c) /\ Typed(c)
  BY CompleteTxTame, TameOnce, TablesTyped
<1> HIDE DEF c1
<1>5. Ledger(c1, 0)
  BY <1>2, SameRecordsLedger
<1>6. CASE IsResponse(m)
  BY <1>1, <1>3, <1>4, <1>5, <1>6, OnResponseHeeds, TameThenHeeds
<1>7. CASE ~IsResponse(m)
  BY <1>3, <1>4, <1>7, TypedTame, FaithHeeds
<1> QED BY <1>6, <1>7

LEMMA OnResetFaith ==
    ASSUME NEW own, NEW c, ClientOK(c, own), NEW m
    PROVE  Faith(OnReset(c, m), c)
<1> DEFINE slots == UNION {PendingByToken(c, token) : token \in GetToken(c.tx, m.src, m.mid)}
           c1 == [c EXCEPT !.tx = CompleteTx(@, m.src, m.mid)]
           i  == Min(slots)
           n  == c1.pending[i].ctx
           c2 == WithEntry(c1, i, Free)
<1>1. OnReset(c, m) = IF slots = {} THEN c1 ELSE CallTimeout(c2, n)
  BY DEF OnReset, WithEntry
<1>2. ClientOK(c1, own) /\ Faith(c1, c)
  BY CompleteTxOK, CompleteTxTame, TypedTame, TablesTyped
<1>3. slots # {} => i \in slots
  <2>1. slots \subseteq Occupied(c.pending) /\ DOMAIN c.pending \subseteq Nat
    BY SlotNumbers DEF PendingByToken, ClientOK, PendingTable
  <2> HIDE DEF slots
  <2> QED BY <2>1, VacantSlot
<1>4. slots # {} => i \in TxSlots /\ c.pending[i] # Free
  BY <1>3 DEF PendingByToken, Occupied, ClientOK, PendingTable
<1>5. c1.pending = c.pending
  BY DEF ClientOK, ClientObject
<1> HIDE DEF slots, i, c1
<1>6. CASE slots # {}
  <2>1. n \in 1 .. MaxCalls
    BY <1>4, <1>5, <1>6 DEF ClientOK, PendingTable, PendingEntry
  <2>2. Typed(c1) /\ ClientOK(c2, own)
    BY <1>2, <1>4, <1>6, FreesPending, TablesTyped DEF WithEntry
  <2>3. Faith(c2, c1)
    BY <1>4, <1>6, <2>2, EntryTame, TypedTame
  <2> HIDE DEF n, c2
  <2>4. Faith(CallTimeout(c2, n), c2)
    BY <2>1, <2>2, HandlersTame, TypedTame, TablesTyped
  <2>5. Faith(CallTimeout(c2, n), c1)
    BY <2>3, <2>4, FaithTwice
  <2> QED BY <1>1, <1>2, <1>6, <2>5, FaithTwice
<1> QED BY <1>1, <1>2, <1>6

LEMMA ExpireDiscoversTame ==
    ASSUME NEW c, Typed(c), NEW gone
    PROVE  Tame(ExpireDiscovers(c, gone), c)
<1> DEFINE table == [i \in DiscoverSlots |-> IF i \in gone THEN Free ELSE c.discovers[i]]
<1>1. ExpireDiscovers(c, gone) = [c EXCEPT !.discovers = table] /\ ClientObject(c)
  BY DEF ExpireDiscovers, Typed
<1>2. \A i \in DiscoverSlots : table[i] # Free => table[i] = c.discovers[i]
  OBVIOUS
<1> HIDE DEF table
<1> QED BY <1>1, <1>2, DiscoversTame

LEMMA TickTame ==
    ASSUME NEW own, NEW c, ClientOK(c, own), NEW due \in SUBSET InFlight(c.tx)
    PROVE  Tame(Tick(c, due), c)
<1> DEFINE ended == TimedOut(c, due)
           pool  == TickTx(c.tx, due)
           table == [i \in TxSlots |-> IF i \in ended THEN Free ELSE c.pending[i]]
           times(n) == Cardinality({i \in ended : c.pending[i].ctx = n})
           calls == [n \in 1 .. MaxCalls |-> Expire(c.calls[n], times(n))]
           sent  == c.out \cup {c.tx[i].packet : i \in Resent(c.tx, due)}
           t     == Tick(c, due)
<1>1. t = [c EXCEPT !.tx = pool, !.pending = table, !.calls = calls, !.out = sent]
  BY DEF Tick
<1>2. ASSUME NEW i \in InFlight(pool)
      PROVE  i \in InFlight(c.tx) /\ pool[i].packet = c.tx[i].packet
  <2>1. i \in TxSlots /\ pool[i] # Free
    BY DEF InFlight
  <2>2. CASE i \in Resent(c.tx, due)
    <3>1. i \in InFlight(c.tx) /\ TransactionRecord(c.tx[i])
      BY <2>2 DEF Resent, InFlight, ClientOK, ClientPool, TransactionOK
    <3>2. pool[i] = RetryCounted(c.tx[i])
      <4>1. ~(i \in Expired(c.tx, due))
        <5>1. c.tx[i].retries \in Nat
          BY <3>1 DEF InFlight, ClientOK, ClientPool, TransactionOK
        <5> QED BY <2>2, <5>1, PoolAssumption DEF Resent, Expired
      <4> QED BY <2>1, <2>2, <4>1 DEF TickTx
    <3> DEFINE x == c.tx[i]
    <3>3. TransactionRecord(x)
      BY <3>1
    <3> HIDE DEF x
    <3>4. RetryCounted(x).packet = x.packet
      BY <3>3 DEF RetryCounted, TransactionRecord
    <3> QED BY <3>1, <3>2, <3>4 DEF x
  <2>3. CASE i \notin Resent(c.tx, due)
    <3>1. pool[i] = c.tx[i]
      BY <2>1, <2>3 DEF TickTx
    <3> QED BY <2>1, <3>1 DEF InFlight
  <2> QED BY <2>2, <2>3
<1>3. \A p \in sent : p \in Sent(c)
  BY DEF Sent, Resent
<1>4. \A i \in TxSlots : table[i] # Free => table[i] = c.pending[i]
  OBVIOUS
<1>5. \A n \in 1 .. MaxCalls :
         /\ calls[n].kind = c.calls[n].kind /\ calls[n].cancelled = c.calls[n].cancelled
         /\ calls[n].size = c.calls[n].size /\ calls[n].bodies = c.calls[n].bodies
         /\ calls[n].responses = c.calls[n].responses
  BY DEF Expire, ClientOK, CallTable, CallRecord
<1> HIDE DEF ended, pool, table, times, calls, sent, t
<1>6. t = [pending |-> table, tx |-> pool, discovers |-> c.discovers,
           nextToken |-> c.nextToken, nextMid |-> c.nextMid, issued |-> c.issued,
           calls |-> calls, out |-> sent]
  BY <1>1 DEF ClientOK, ClientObject
<1>7. Sent(t) \subseteq Sent(c)
  <2>1. \A p \in Sent(t) : p \in sent \/ \E i \in InFlight(pool) : p = pool[i].packet
    BY <1>6 DEF Sent
  <2>2. \A i \in InFlight(pool) : pool[i].packet \in Sent(c)
    BY <1>2 DEF Sent
  <2> QED BY <1>3, <2>1, <2>2
<1>8. Tame(t, c)
  BY <1>4, <1>5, <1>6, <1>7 DEF Tame, Mild, SameSlot, StillUp
<1> QED BY <1>8 DEF t

LEMMA FinishPollFaith ==
    ASSUME NEW own, NEW c, ClientOK(c, own), NEW gone, NEW due \in SUBSET InFlight(c.tx)
    PROVE  Faith(FinishPoll(c, gone, due), c)
<1> DEFINE c1 == ExpireDiscovers(c, gone)
<1>1. ClientOK(c1, own) /\ Faith(c1, c)
  BY ExpireDiscoversOK, ExpireDiscoversTame, TypedTame, TablesTyped
<1>2. c1.tx = c.tx
  BY DEF ExpireDiscovers, ClientOK, ClientObject
<1> HIDE DEF c1
<1>3. Faith(Tick(c1, due), c1)
  BY <1>1, <1>2, TickTame, TypedTame, TablesTyped
<1>4. Faith(Tick(c1, due), c)
  BY <1>1, <1>3, FaithTwice
<1> QED BY <1>4 DEF FinishPoll, c1

(* What a step hands to the network has its subscription behind it, a      *)
(* token that is in use, and asks for a block that is awaited.             *)
Pledged(p, c) == p.obs = "register" => Granted(c, p.about, p.path, p.token)
Older(p, c)   == p.code \in MethodCodes => UsedBefore(p.token, c)

Answerable(sizes) == Fetching(cl, sizes) /\ \A m \in net : Bears(m, cl, sizes) /\ Meant(m, cl)

Fair(c) ==
    /\ Trust(c, cl)
    /\ \A sizes : Answerable(sizes) =>
          Expects(c, cl) /\ Fetching(c, sizes) /\ \A p \in net' : p \in net \/ Wanted(p, c)
    /\ \A p \in net' :
          \/ p \in net
          \/ /\ Honest(cl) => Pledged(p, c)
             /\ Truthful(cl) => Genuine(p, c)
             /\ TokensSuffice /\ Thrifty(cl) => Older(p, c)

LEMMA DepartsFaith ==
    ASSUME NEW c, Typed(c), Trust(c, cl), cl' = [c EXCEPT !.out = {}],
           \A sizes : Answerable(sizes) => Expects(c, cl) /\ Fetching(c, sizes),
           \/ Transmit(c.out)
           \/ \E m : Deliver(m, c.out)
    PROVE  Fair(cl')
<1>1. ClientObject(c)
  BY DEF Typed
<1>2. Tame([c EXCEPT !.out = {}], c)
  BY <1>1, OutTame
<1>3. Faith(cl', c)
  BY <1>1, <1>2, TypedTame
<1>4. Trust(cl', c) /\ Trust(cl', cl)
  BY <1>3, TrustTwice DEF Faith
<1>5. \A p \in net' : p \in net \/ p \in c.out
  BY DEF Transmit, Deliver, Carry
<1>6. ASSUME NEW p \in c.out
      PROVE  /\ Honest(cl) => Pledged(p, cl')
             /\ Truthful(cl) => Genuine(p, cl')
             /\ TokensSuffice /\ Thrifty(cl) => Older(p, cl')
  <2>1. p \in Sent(c)
    BY DEF Sent
  <2>2. Honest(cl) => Pledged(p, cl')
    BY <1>4, <2>1 DEF Trust, Honest, Upholds, Pledged
  <2>3. ASSUME TokensSuffice, Thrifty(cl)
        PROVE  Older(p, cl')
    <3>1. Thrives(c, cl)
      BY <2>3 DEF Trust
    <3>2. Thrifty(c)
      BY <3>1 DEF Thrives
    <3>3. Thrives(cl', c)
      BY <1>4, <2>3, <3>2 DEF Trust
    <3>4. Older(p, c)
      BY <2>1, <3>2 DEF Thrifty, Below, Older
    <3> QED BY <3>3, <3>4 DEF Older, Thrives
  <2>4. Truthful(cl) => Genuine(p, cl')
    BY <1>4, <2>1 DEF Trust, Truthful, Sized, Genuine
  <2> QED BY <2>2, <2>3, <2>4
<1>7. ASSUME NEW sizes, Answerable(sizes)
      PROVE  /\ Expects(cl', cl) /\ Fetching(cl', sizes)
             /\ \A p \in net' : p \in net \/ Wanted(p, cl')
  <2>1. Expects(c, cl) /\ Fetching(c, sizes)
    BY <1>7
  <2>2. Expects(cl', c) /\ Fetching(cl', sizes)
    BY <1>3, <2>1 DEF Faith, Loyal
  <2>3. Expects(cl', cl)
    BY <2>1, <2>2 DEF Expects
  <2>4. \A p \in c.out : Wanted(p, c)
    BY <2>1 DEF Fetching, Sent
  <2>5. \A p \in c.out : Wanted(p, cl')
    BY <2>2, <2>4 DEF Wanted, Expects
  <2> QED BY <1>5, <2>2, <2>3, <2>5
<1> QED BY <1>4, <1>5, <1>6, <1>7 DEF Fair

(* Without a packet to hear *)
LEMMA LeavesFaith ==
    ASSUME NEW c, Typed(c), Faith(c, cl), cl' = [c EXCEPT !.out = {}], Transmit(c.out)
    PROVE  Fair(cl')
BY DepartsFaith DEF Faith, Loyal, Answerable

LEMMA SilentFaith ==
    ASSUME Faith(cl', cl), net' \subseteq net
    PROVE  Fair(cl')
BY DEF Fair, Faith, Loyal, Answerable

LEMMA CallApiFaith ==
    ASSUME NEW own, ClientTablesOK(own), Ledger(cl, 0), CallApi
    PROVE  Fair(cl')
<1>1. cl.issued < MaxCalls /\ Vacant(cl.pending) # {}
  BY DEF CallApi
<1>2. PICK server \in Servers : \E path \in Paths, kind \in RequestKinds :
         LET c == Issue(cl, server, path, kind)
         IN  cl' = [c EXCEPT !.out = {}] /\ Transmit(c.out)
  BY DEF CallApi
<1>3. PICK path \in Paths : \E kind \in RequestKinds :
         LET c == Issue(cl, server, path, kind)
         IN  cl' = [c EXCEPT !.out = {}] /\ Transmit(c.out)
  BY <1>2
<1>4. PICK kind \in RequestKinds :
         LET c == Issue(cl, server, path, kind)
         IN  cl' = [c EXCEPT !.out = {}] /\ Transmit(c.out)
  BY <1>3
<1> DEFINE c == Issue(cl, server, path, kind)
           own2 == With(own, cl.nextToken, cl.issued + 1)
<1>5. cl' = [c EXCEPT !.out = {}] /\ Transmit(c.out)
  BY <1>4
<1>6. Grows(own2, own, cl.nextToken) /\ Owns(own2, cl.nextToken, cl.issued + 1)
  BY <1>1, NextCall, WithExtends DEF ClientTablesOK
<1>7. ClientOK(cl, own2)
  BY <1>6, ExtendsClientOK DEF Grows, ClientTablesOK
<1> HIDE DEF own2
<1>8. kind \in [code : MethodCodes, con : BOOLEAN, observe : BOOLEAN, size : Nat]
  BY ClientAssumption
<1>9. Typed(c) /\ Faith(c, cl)
  BY <1>1, <1>6, <1>7, <1>8, IssueOK, TablesTyped, IssueFaith
<1> HIDE DEF c
<1> QED BY <1>5, <1>9, LeavesFaith

LEMMA CancelObserveFaith ==
    ASSUME NEW own, ClientTablesOK(own), Ledger(cl, 0), NEW server \in Servers,
           NEW path \in Paths, CancelObserve(server, path)
    PROVE  Fair(cl')
<1> DEFINE c == Deregister(cl, server, path)
           n == cl.pending[Min(Subscriptions(cl, server, path))].ctx
           own2 == With(own, cl.nextToken, n)
<1>1. /\ Subscriptions(cl, server, path) # {}
      /\ cl' = [c EXCEPT !.out = {}] /\ Transmit(c.out)
  BY DEF CancelObserve
<1>2. Grows(own2, own, cl.nextToken) /\ Owns(own2, cl.nextToken, n)
  BY <1>1, SubscriptionSlot, WithExtends DEF ClientTablesOK
<1>3. ClientOK(cl, own2)
  BY <1>2, ExtendsClientOK DEF Grows, ClientTablesOK
<1> HIDE DEF own2
<1>4. Typed(c) /\ Faith(c, cl)
  BY <1>1, <1>2, <1>3, DeregisterOK, TablesTyped, DeregisterFaith
<1> HIDE DEF c
<1> QED BY <1>1, <1>4, LeavesFaith

(* Nothing is sent when the transport fails, but the token is taken.       *)
LEMMA CallApiFailsFaith ==
    ASSUME NEW own, ClientTablesOK(own), Ledger(cl, 0), CallApiFails
    PROVE  Fair(cl')
<1> DEFINE c  == Number(cl, "failed")
           c0 == ConsumeIds(cl)
           t  == Number(c0, "failed")
           n  == cl.issued + 1
           calls == [cl.calls EXCEPT ![n].kind = "failed"]
<1>1. cl.issued < MaxCalls /\ cl' = t /\ net' = net
  BY DEF CallApiFails, netVars
<1>2. Typed(cl) /\ ClientOK(cl, own)
  BY TablesTyped DEF ClientTablesOK
<1>3. /\ Opens(c, cl, "failed") /\ ClientOK(c, own) /\ Typed(c)
      /\ c.tx = cl.tx /\ c.out = cl.out
  BY <1>1, <1>2, NumberOpens, NumberOK
<1>4. Sent(c) = Sent(cl)
  BY <1>3 DEF Sent
<1>6. c = [cl EXCEPT !.issued = n, !.calls = calls]
  BY DEF Number
<1>5. Prepares(c, cl) /\ n \in 1 .. c.issued /\ ~OneShot(c.calls[n])
  <2>1. n \in 1 .. MaxCalls
    BY <1>1, <1>2, ClientAssumption DEF Typed
  <2>2. c.calls[n].bodies = cl.calls[n].bodies
    BY <1>2, <2>1, NumberBodies
  <2>3. c.issued = n /\ c.calls[n].kind = "failed"
    BY <1>3 DEF Opens
  <2>4. n \in 1 .. n
    BY <2>1, ClientAssumption
  <2>5. Prepares(c, cl)
    BY <1>1, <1>2, <1>3, <1>4, <2>2, OpensPrepares
  <2> QED BY <2>3, <2>4, <2>5 DEF OneShot
<1>7. c0 = [cl EXCEPT !.nextToken = (@ + 1) % TokenMod, !.nextMid = (@ + 1) % MidMod]
  BY DEF ConsumeIds
<1> HIDE DEF c0
<1>8. c0 = [pending |-> cl.pending, tx |-> cl.tx, discovers |-> cl.discovers,
            nextToken |-> (cl.nextToken + 1) % TokenMod, nextMid |-> (cl.nextMid + 1) % MidMod,
            issued |-> cl.issued, calls |-> cl.calls, out |-> cl.out]
  BY <1>2, <1>7 DEF ClientOK, ClientObject
<1>9. t = [c0 EXCEPT !.issued = n, !.calls = calls]
  BY <1>8 DEF Number
<1> HIDE DEF t, c, n, calls
<1>10. /\ t.pending = cl.pending /\ t.tx = cl.tx /\ t.discovers = cl.discovers
       /\ t.nextToken = (cl.nextToken + 1) % TokenMod
       /\ t.issued = n /\ t.calls = calls /\ t.out = cl.out
  BY <1>8, <1>9
<1>11. /\ c.pending = cl.pending /\ c.tx = cl.tx /\ c.discovers = cl.discovers
       /\ c.nextToken = cl.nextToken
       /\ c.issued = n /\ c.calls = calls /\ c.out = cl.out
  BY <1>2, <1>6 DEF ClientOK, ClientObject
<1>12. t.nextToken = NextToken(c.nextToken)
  BY <1>10, <1>11 DEF NextToken
<1>13. Sent(t) = Sent(c)
  BY <1>10, <1>11 DEF Sent
<1>14. Asks(t, c, n, "none", FALSE, "none")
  BY <1>10, <1>11, <1>12, <1>13 DEF Asks
<1>15. c.nextToken \in TokenBytes
  BY <1>3 DEF ClientOK
<1>17. Begins(c, cl, n)
  BY <1>5 DEF Begins
<1>16. Faith(t, cl)
  BY <1>3, <1>5, <1>14, <1>15, <1>17, AsksFaith
<1> QED BY <1>1, <1>16, SilentFaith

LEMMA CancelObserveFailsFaith ==
    ASSUME NEW own, ClientTablesOK(own), Ledger(cl, 0), NEW server \in Servers,
           NEW path \in Paths, CancelObserveFails(server, path)
    PROVE  Fair(cl')
<1> DEFINE i  == Min(Subscriptions(cl, server, path))
           n  == cl.pending[i].ctx
           pending == [cl.pending EXCEPT ![i] = Free]
           call == [cl.calls[n] EXCEPT !.cancelled = TRUE]
           calls == [cl.calls EXCEPT ![n] = call]
           c  == [cl EXCEPT !.pending = pending, !.calls = calls]
           c0 == ConsumeIds(cl)
           t  == [c0 EXCEPT !.pending = pending, !.calls = calls]
<1>1. net' = net /\ Subscriptions(cl, server, path) # {}
  BY DEF CancelObserveFails, netVars
<1>2. Typed(cl) /\ ClientOK(cl, own) /\ ClientObject(cl)
  BY TablesTyped DEF ClientTablesOK, ClientOK
<1>3. /\ i \in TxSlots /\ cl.pending[i] # Free /\ i \in Subscriptions(cl, server, path)
      /\ n \in 1 .. MaxCalls
  BY <1>1, <1>2, SubscriptionSlot
<1>4. cl.pending[i].observing
  BY <1>3 DEF Subscriptions
<1>5. c0 = [cl EXCEPT !.nextToken = (@ + 1) % TokenMod, !.nextMid = (@ + 1) % MidMod]
  BY DEF ConsumeIds
<1> HIDE DEF c0
<1>6. c0 = [pending |-> cl.pending, tx |-> cl.tx, discovers |-> cl.discovers,
            nextToken |-> (cl.nextToken + 1) % TokenMod, nextMid |-> (cl.nextMid + 1) % MidMod,
            issued |-> cl.issued, calls |-> cl.calls, out |-> cl.out]
  BY <1>2, <1>5 DEF ClientObject
<1>7. cl' = t
  <2>1. cl' = [c0 EXCEPT !.pending[i] = Free, !.calls[n].cancelled = TRUE]
    BY DEF CancelObserveFails, c0
  <2> QED BY <1>6, <2>1
<1> HIDE DEF i, n
<1>8. /\ pending \in [TxSlots -> PendingEntry \cup {Free}] /\ pending[i] = Free
      /\ \A j \in TxSlots \ {i} : pending[j] = cl.pending[j]
  BY <1>2, <1>3 DEF Typed
<1>9. cl.calls[n] \in CallRecord
  BY <1>2, <1>3 DEF Typed
<1>10. /\ call \in CallRecord /\ call.kind = cl.calls[n].kind /\ call.cancelled
       /\ Outcomes(call) = Outcomes(cl.calls[n]) /\ call.late = cl.calls[n].late
       /\ call.size = cl.calls[n].size
  BY <1>9 DEF CallRecord, Outcomes
<1> HIDE DEF call
<1>11. /\ calls \in [1 .. MaxCalls -> CallRecord] /\ calls[n] = call
       /\ \A k \in 1 .. MaxCalls : k # n => calls[k] = cl.calls[k]
  BY <1>2, <1>3, <1>10 DEF Typed
<1> HIDE DEF pending, calls, t
<1>12. c = [pending |-> pending, tx |-> cl.tx, discovers |-> cl.discovers,
            nextToken |-> cl.nextToken, nextMid |-> cl.nextMid, issued |-> cl.issued,
            calls |-> calls, out |-> cl.out]
  <2>1. c = [cl EXCEPT !.pending = pending, !.calls = calls]
    OBVIOUS
  <2> HIDE DEF c
  <2> QED BY <1>2, <2>1 DEF ClientObject
<1> HIDE DEF c
<1>13. /\ t.pending = pending /\ t.tx = cl.tx /\ t.discovers = cl.discovers
       /\ t.nextToken = (cl.nextToken + 1) % TokenMod
       /\ t.issued = cl.issued /\ t.calls = calls /\ t.out = cl.out
  BY <1>6 DEF t
<1>14. Typed(c) /\ c.nextToken \in TokenBytes
  BY <1>2, <1>8, <1>11, <1>12 DEF Typed, ClientObject, ClientOK
<1>15. Cancels(c, cl, n)
  <2>1. \E k \in TxSlots :
          /\ cl.pending[k] # Free /\ cl.pending[k].observing /\ cl.pending[k].ctx = n
          /\ c.pending[k] = Free
          /\ \A j \in TxSlots \ {k} : c.pending[j] = cl.pending[j]
    BY <1>3, <1>4, <1>8, <1>12 DEF n
  <2> QED BY <1>10, <1>11, <1>12, <2>1 DEF Cancels
<1>16. /\ Sent(c) = Sent(cl) /\ c.nextToken = cl.nextToken
       /\ c.calls[n].size = cl.calls[n].size
  BY <1>10, <1>11, <1>12 DEF Sent
<1>17. Prepares(c, cl)
  BY <1>2, <1>3, <1>14, <1>15, <1>16, CancelsPrepares
<1>18. t.nextToken = NextToken(c.nextToken) /\ Sent(t) = Sent(c)
  BY <1>12, <1>13 DEF NextToken, Sent
<1>19. Asks(t, c, n, "none", FALSE, "none")
  BY <1>12, <1>13, <1>18 DEF Asks
<1>21. Begins(c, cl, n)
  <2>1. cl.calls[n].kind = "observe" /\ n \in 1 .. cl.issued
    BY <1>2, <1>3, <1>4, SubscribedSlot DEF n
  <2>2. c.issued = cl.issued /\ c.calls[n].kind = "observe"
    BY <1>15, <2>1 DEF Cancels
  <2> QED BY <2>1, <2>2 DEF Begins, OneShot
<1>20. Faith(t, cl)
  BY <1>14, <1>17, <1>19, <1>21, AsksFaith
<1> QED BY <1>1, <1>7, <1>20, SilentFaith

LEMMA DiscoverFaith ==
    ASSUME NEW own, ClientTablesOK(own), Ledger(cl, 0), Discover
    PROVE  Fair(cl')
<1> DEFINE n   == cl.issued + 1
           q   == [server |-> AllNodes, path |-> "wellknown", code |-> "Get",
                   con |-> FALSE, obs |-> "none", ctx |-> n]
           pkt == RequestPacket(cl, q)
           k   == Min(Vacant(cl.discovers))
           e   == [token |-> cl.nextToken, ctx |-> n]
           c0  == ConsumeIds(cl)
           calls == [cl.calls EXCEPT ![n].kind = "discover"]
           table == [cl.discovers EXCEPT ![k] = e]
           c   == Number(cl, "discover")
           t   == [pending |-> cl.pending, tx |-> cl.tx, discovers |-> table,
                   nextToken |-> NextToken(cl.nextToken), nextMid |-> (cl.nextMid + 1) % MidMod,
                   issued |-> n, calls |-> calls, out |-> {pkt}]
<1>1. /\ cl.issued < MaxCalls /\ Vacant(cl.discovers) # {}
      /\ cl' = [Number(c0, "discover") EXCEPT !.discovers[k] = e] /\ Transmit({pkt})
  BY DEF Discover
<1>2. Typed(cl) /\ ClientOK(cl, own) /\ ClientObject(cl) /\ cl.out = {}
  BY TablesTyped DEF ClientTablesOK, ClientOK
<1>3. Opens(c, cl, "discover") /\ Typed(c) /\ c.tx = cl.tx /\ c.out = cl.out
  BY <1>1, <1>2, NumberOpens, NumberOK
<1>4. Sent(c) = Sent(cl)
  BY <1>3 DEF Sent
<1>5. Prepares(c, cl) /\ Begins(c, cl, n)
  <2>1. n \in 1 .. MaxCalls
    BY <1>1, <1>2, ClientAssumption DEF Typed
  <2>2. c.calls[n].bodies = cl.calls[n].bodies
    BY <1>2, <2>1, NumberBodies
  <2>3. c.issued = n /\ c.calls[n].kind = "discover"
    BY <1>3 DEF Opens
  <2>4. n \in 1 .. n
    BY <2>1, ClientAssumption
  <2>5. Prepares(c, cl)
    BY <1>1, <1>2, <1>3, <1>4, <2>2, OpensPrepares
  <2> QED BY <2>3, <2>4, <2>5 DEF Begins, OneShot
<1>6. c = [cl EXCEPT !.issued = n, !.calls = calls]
  BY DEF Number
<1>7. c0 = [cl EXCEPT !.nextToken = (@ + 1) % TokenMod, !.nextMid = (@ + 1) % MidMod]
  BY DEF ConsumeIds
<1> HIDE DEF c0
<1>8. c0 = [pending |-> cl.pending, tx |-> cl.tx, discovers |-> cl.discovers,
            nextToken |-> NextToken(cl.nextToken), nextMid |-> (cl.nextMid + 1) % MidMod,
            issued |-> cl.issued, calls |-> cl.calls, out |-> cl.out]
  BY <1>2, <1>7 DEF ClientObject, NextToken
<1>9. cl' = [c0 EXCEPT !.issued = n, !.calls = calls, !.discovers = table]
  <2>1. Number(c0, "discover") = [c0 EXCEPT !.issued = n, !.calls = calls]
    BY <1>8 DEF Number
  <2> DEFINE d == [c0 EXCEPT !.issued = n, !.calls = calls]
  <2>2. cl' = [d EXCEPT !.discovers[k] = e] /\ d.discovers = cl.discovers
    BY <1>1, <1>8, <2>1
  <2> HIDE DEF d
  <2>3. cl' = [d EXCEPT !.discovers = table]
    BY <2>2
  <2> QED BY <2>3 DEF d
<1>10. AskedBy(pkt, cl, n, "wellknown", "none") /\ ~IsBlock(pkt)
  BY DEF RequestPacket, AskedBy, Genuine, IsBlock, HasOption, BlockNo
<1>11. k \in DiscoverSlots
  <2>1. DOMAIN cl.discovers = DiscoverSlots
    BY <1>2 DEF Typed
  <2> QED BY <1>1, <2>1, SlotNumbers, VacantSlot DEF Vacant
<1>12. e \in DiscoverEntry /\ e.token = cl.nextToken
  <2>1. n \in 1 .. MaxCalls
    BY <1>1, <1>2, ClientAssumption DEF Typed
  <2> QED BY <1>2, <2>1 DEF ClientOK, DiscoverEntry
<1> HIDE DEF pkt, k, e
<1>13. /\ table \in [DiscoverSlots -> DiscoverEntry \cup {Free}]
       /\ \A i \in DiscoverSlots : table[i] = cl.discovers[i] \/ table[i].token = cl.nextToken
  BY <1>2, <1>11, <1>12 DEF Typed
<1> HIDE DEF n, calls, table, c
<1>14. c = [pending |-> cl.pending, tx |-> cl.tx, discovers |-> cl.discovers,
            nextToken |-> cl.nextToken, nextMid |-> cl.nextMid, issued |-> n,
            calls |-> calls, out |-> cl.out]
  BY <1>2, <1>6 DEF ClientObject
<1>15. cl' = [t EXCEPT !.out = {}]
  <2>1. cl' = [pending |-> cl.pending, tx |-> cl.tx, discovers |-> table,
               nextToken |-> NextToken(cl.nextToken), nextMid |-> (cl.nextMid + 1) % MidMod,
               issued |-> n, calls |-> calls, out |-> {}]
    BY <1>2, <1>8, <1>9
  <2>2. [t EXCEPT !.out = {}] =
              [pending |-> cl.pending, tx |-> cl.tx, discovers |-> table,
               nextToken |-> NextToken(cl.nextToken), nextMid |-> (cl.nextMid + 1) % MidMod,
               issued |-> n, calls |-> calls, out |-> {}]
    <3>1. t = [pending |-> cl.pending, tx |-> cl.tx, discovers |-> table,
               nextToken |-> NextToken(cl.nextToken), nextMid |-> (cl.nextMid + 1) % MidMod,
               issued |-> n, calls |-> calls, out |-> {pkt}]
      OBVIOUS
    <3> HIDE DEF t
    <3> QED BY <3>1
  <2> QED BY <2>1, <2>2
<1>16. Typed(t) /\ t.out = {pkt}
  BY <1>3, <1>13, <1>14 DEF Typed, ClientObject
<1>17. Asks(t, c, n, "wellknown", FALSE, "none")
  <2>1. \A p \in Sent(t) : p \in Sent(c) \/ p = pkt
    BY <1>14 DEF Sent
  <2>2. \A p \in Sent(t) : p \in Sent(c) \/ AskedBy(p, c, n, "wellknown", "none")
    BY <1>10, <1>14, <2>1 DEF AskedBy, Genuine
  <2> HIDE DEF pkt
  <2> QED BY <1>13, <1>14, <2>2 DEF Asks
<1> HIDE DEF t
<1>18. c.nextToken \in TokenBytes
  BY <1>2, <1>14 DEF ClientOK
<1>19. Faith(t, cl)
  BY <1>3, <1>5, <1>17, <1>18, AsksFaith
<1> QED BY <1>1, <1>15, <1>16, <1>19, LeavesFaith

LEMMA ClientIdlePollFaith ==
    ASSUME NEW own, ClientTablesOK(own), ClientIdlePoll
    PROVE  Fair(cl')
<1>1. PICK gone \in SUBSET Occupied(cl.discovers) : \E due \in SUBSET InFlight(cl.tx) :
         LET c == FinishPoll(cl, gone, due)
         IN  cl' = [c EXCEPT !.out = {}] /\ Transmit(c.out)
  BY DEF ClientIdlePoll
<1>2. PICK due \in SUBSET InFlight(cl.tx) :
         LET c == FinishPoll(cl, gone, due)
         IN  cl' = [c EXCEPT !.out = {}] /\ Transmit(c.out)
  BY <1>1
<1> DEFINE c == FinishPoll(cl, gone, due)
<1>3. cl' = [c EXCEPT !.out = {}] /\ Transmit(c.out)
  BY <1>2
<1>4. Typed(c) /\ Faith(c, cl)
  BY FinishPollOK, TablesTyped, FinishPollFaith DEF ClientTablesOK
<1> HIDE DEF c
<1> QED BY <1>3, <1>4, LeavesFaith

LEMMA ClientResetFaith ==
    ASSUME NEW own, ClientTablesOK(own), NEW m \in net, ClientReset(m)
    PROVE  Fair(cl')
<1>1. cl' = OnReset(cl, m) /\ net' \subseteq net
  BY DEF ClientReset, Deliver, Carry
<1>2. Faith(cl', cl)
  BY <1>1, OnResetFaith DEF ClientTablesOK
<1> QED BY <1>1, <1>2, SilentFaith

LEMMA ClientReceiveFaith ==
    ASSUME NEW own, ClientTablesOK(own), Ledger(cl, 0), NEW m \in net, ClientReceive(m)
    PROVE  Fair(cl')
<1>1. HeardOK(m, own)
  BY DEF ClientTablesOK, PacketsOK
<1>2. PICK reaction \in Reactions :
         LET c1 == OnPacket(cl, m, reaction)
             old == {i \in InFlight(c1.tx) : c1.tx[i] = cl.tx[i]}
         IN  \E gone \in SUBSET Occupied(c1.discovers), due \in SUBSET old :
               LET c == FinishPoll(c1, gone, due)
               IN  cl' = [c EXCEPT !.out = {}] /\ Deliver(m, c.out)
  BY DEF ClientReceive
<1> DEFINE c1 == OnPacket(cl, m, reaction)
           old == {i \in InFlight(c1.tx) : c1.tx[i] = cl.tx[i]}
<1>3. \E gone \in SUBSET Occupied(c1.discovers), due \in SUBSET old :
         LET c == FinishPoll(c1, gone, due)
         IN  cl' = [c EXCEPT !.out = {}] /\ Deliver(m, c.out)
  BY <1>2
<1>4. PICK own2 : ClientOK(c1, own2)
  BY <1>1, OnPacketOK DEF ClientTablesOK
<1>5. Heeds(c1, cl, m)
  BY <1>1, OnPacketHeeds DEF ClientTablesOK
<1> HIDE DEF c1
<1>6. PICK gone \in SUBSET Occupied(c1.discovers) : \E due \in SUBSET old :
         LET c == FinishPoll(c1, gone, due)
         IN  cl' = [c EXCEPT !.out = {}] /\ Deliver(m, c.out)
  BY <1>3
<1>7. PICK due \in SUBSET old :
         LET c == FinishPoll(c1, gone, due)
         IN  cl' = [c EXCEPT !.out = {}] /\ Deliver(m, c.out)
  BY <1>6
<1> DEFINE c == FinishPoll(c1, gone, due)
<1>8. cl' = [c EXCEPT !.out = {}] /\ \E m2 : Deliver(m2, c.out)
  BY <1>7
<1>9. Typed(c) /\ Faith(c, c1)
  BY <1>4, FinishPollOK, TablesTyped, FinishPollFaith
<1> HIDE DEF c
<1>10. Heeds(c, cl, m)
  BY <1>5, <1>9, HeedsThenFaith
<1>11. /\ Trust(c, cl)
       /\ \A sizes : Answerable(sizes) => Expects(c, cl) /\ Fetching(c, sizes)
  BY <1>10 DEF Heeds, Answerable
<1> QED BY <1>8, <1>9, <1>11, DepartsFaith

(* Whatever the client does *)
LEMMA FairStep ==
    ASSUME NEW own, ClientTablesOK(own), Ledger(cl, 0), ClientNext
    PROVE  Fair(cl')
<1>1. CASE CallApi
  BY <1>1, CallApiFaith
<1>2. CASE CallApiFails
  BY <1>2, CallApiFailsFaith
<1>3. CASE \E server \in Servers, path \in Paths : CancelObserve(server, path)
  BY <1>3, CancelObserveFaith
<1>4. CASE \E server \in Servers, path \in Paths : CancelObserveFails(server, path)
  BY <1>4, CancelObserveFailsFaith
<1>5. CASE Discover
  BY <1>5, DiscoverFaith
<1>6. CASE ClientIdlePoll
  BY <1>6, ClientIdlePollFaith
<1>7. CASE \E m \in net : ClientReset(m)
  BY <1>7, ClientResetFaith
<1>8. CASE \E m \in net : ClientReceive(m)
  BY <1>8, ClientReceiveFaith
<1> QED BY <1>1, <1>2, <1>3, <1>4, <1>5, <1>6, <1>7, <1>8 DEF ClientNext

LEMMA FairInitially ==
    ClientInit =>
       /\ Honest(cl) /\ Truthful(cl) /\ (TokensSuffice => Thrifty(cl))
       /\ \A sizes : Fetching(cl, sizes)
<1> SUFFICES ASSUME ClientInit
             PROVE  /\ Honest(cl) /\ Truthful(cl) /\ (TokensSuffice => Thrifty(cl))
                    /\ \A sizes : Fetching(cl, sizes)
  OBVIOUS
<1>1. /\ \A i \in TxSlots : cl.pending[i] = Free
      /\ \A i \in DiscoverSlots : cl.discovers[i] = Free
      /\ \A n \in 1 .. MaxCalls : cl.calls[n] = NotCalled
      /\ cl.tx = EmptyPool /\ cl.out = {} /\ cl.issued = 0 /\ cl.nextToken = 1 % TokenMod
  BY DEF ClientInit, ClientInitState
<1>2. Sent(cl) = {}
  BY <1>1 DEF Sent, InFlight, EmptyPool
<1>3. Honest(cl) /\ Truthful(cl) /\ Below(cl)
  BY <1>1, <1>2 DEF Honest, Truthful, Below
<1>4. Cancelled(cl) = {}
  BY <1>1 DEF Cancelled, NotCalled
<1>5. Spent(cl) = 0
  BY <1>1, <1>4, FS_EmptySet DEF Spent
<1>6. TokensSuffice => cl.nextToken = 1
  BY <1>1, ClientAssumption DEF TokensSuffice
<1>7. \A sizes : Fetching(cl, sizes)
  BY <1>1, <1>2 DEF Fetching, NotCalled
<1> QED BY <1>3, <1>5, <1>6, <1>7 DEF Thrifty
=============================================================================
