---------------------------- MODULE System_proofs ---------------------------
(***************************************************************************)
(* One Client and one Server: what each of them keeps to among arbitrary   *)
(* peers it keeps to with the other, the server's observers are the        *)
(* client's subscriptions, and what the server reassembles block by block  *)
(* is what the client sent, as long as no token has been used twice.       *)
(***************************************************************************)
EXTENDS Transfers, Client_proofs, Server_proofs

(* Which call a token belongs to does not matter here. *)
Anyone == Tokens \X Nat

LEMMA AnyoneOwns == \A token, ctx : Owns(Anyone, token, ctx) <=> token \in Tokens /\ ctx \in Nat
BY DEF Owns, Anyone

(* A packet is one of the client, or one of the server for a client. *)
Known(m) == SentOK(m, Anyone) \/ ToClient(m)

(* The server's observers are subscriptions of the client, and what is in  *)
(* the network asks for no others.                                         *)
AllSubscribed ==
    /\ Honest(cl)
    /\ \A m \in net : Pledged(m, cl)
    /\ \A i \in ObserverSlots : sv.observers[i] # Free =>
          Granted(cl, sv.observers[i].about, sv.observers[i].res, sv.observers[i].token)

(* The inductive invariant. *)
SystemInv ==
    /\ ClientOK(cl, Anyone) /\ cl.out = {} /\ Ledger(cl, 0)
    /\ ServerInv
    /\ \A m \in net : Known(m)
    /\ AllSubscribed

LEMMA KnownIsHeard ==
    ASSUME NEW m, Known(m)
    PROVE  /\ HeardOK(m, Anyone)
           /\ m.dst \in {ServerEp, AllNodes} => SentOK(m, Anyone)
           /\ m.dst = ServerEp => FromClient(m)
<1>1. CASE SentOK(m, Anyone)
  <2>1. HeardOK(m, Anyone)
    BY <1>1, NoCodeTwice DEF SentOK, HeardOK, IsResponse
  <2>2. FromClient(m)
    BY <1>1, AnyoneOwns, SystemAssumption DEF SentOK, FromClient
  <2> QED BY <1>1, <2>1, <2>2
<1>2. CASE ToClient(m)
  <2>1. HeardOK(m, Anyone)
    <3>1. m.mid \in Mids /\ (HasOption(m, "block2") => m.src \in Servers)
      BY <1>2, SystemAssumption DEF ToClient
    <3> QED BY <1>2, <3>1, AnyoneOwns, NoCodeTwice DEF ToClient, HeardOK
  <2>2. m.dst \notin {ServerEp, AllNodes}
    BY <1>2, SystemAssumption DEF ToClient
  <2> QED BY <2>1, <2>2
<1> QED BY <1>1, <1>2 DEF Known

LEMMA BothSides ==
    ASSUME SystemInv
    PROVE  /\ ClientTablesOK(Anyone) /\ Ledger(cl, 0)
           /\ ServerInv /\ \A m \in net : m.dst = ServerEp => FromClient(m)
<1>1. PacketsOK(net, Anyone)
  BY KnownIsHeard DEF SystemInv, PacketsOK
<1> QED BY <1>1, KnownIsHeard DEF SystemInv, ClientTablesOK

LEMMA SystemClientStep ==
    ASSUME SystemInv, ClientNext, UNCHANGED serverVars
    PROVE  SystemInv'
<1>1. ClientTablesOK(Anyone) /\ Ledger(cl, 0)
  BY BothSides
<1>2. PICK own : Grows(own, Anyone, cl.nextToken) /\ ClientTablesOK(own)' /\ OnlySent(own)
  BY <1>1, ClientStep DEF Preserved
<1>3. cl.nextToken \in Tokens
  BY SystemAssumption DEF SystemInv, ClientOK, TokenBytes
<1>4. Extends(Anyone, own)
  BY <1>2, <1>3, AnyoneOwns, ClientAssumption DEF Grows, Extends
<1>5. ClientOK(cl', Anyone) /\ cl'.out = {}
  BY <1>2, <1>4, ExtendsClientOK DEF ClientTablesOK
<1>6. Ledger(cl', 0) /\ Fair(cl')
  BY <1>1, LedgerStep, FairStep
<1>7. ServerInv'
  BY DEF SystemInv, serverVars, ServerInv
<1>8. \A m \in net' : Known(m)
  BY <1>2, <1>4 DEF SystemInv, Known, OnlySent, SentOK, Extends
<1>9. Upholds(cl', cl) /\ Honest(cl')
  BY <1>6 DEF Fair, Trust, SystemInv, AllSubscribed
<1>10. \A m \in net' : Pledged(m, cl')
  BY <1>6, <1>9 DEF Fair, Pledged, Upholds, SystemInv, AllSubscribed
<1>11. AllSubscribed'
  BY <1>9, <1>10 DEF AllSubscribed, SystemInv, Upholds, serverVars
<1> QED BY <1>5, <1>6, <1>7, <1>8, <1>11 DEF SystemInv

LEMMA SystemServerStep ==
    ASSUME SystemInv, ServerNext, UNCHANGED cl
    PROVE  SystemInv'
<1>1. ServerInv' /\ OnlyToClients /\ ObserversExplained
  BY BothSides, ServerStep, ServerExplained
<1>2. \A m \in net' : Known(m) /\ Pledged(m, cl)
  BY <1>1 DEF OnlyToClients, Known, SystemInv, AllSubscribed, ToClient, Pledged
<1>3. ASSUME NEW i \in ObserverSlots, sv'.observers[i] # Free
      PROVE  Granted(cl, sv'.observers[i].about, sv'.observers[i].res, sv'.observers[i].token)
  BY <1>1, <1>3 DEF ObserversExplained, SameSubscription, AskedForBy, SystemInv, AllSubscribed,
     Pledged
<1>4. AllSubscribed'
  BY <1>2, <1>3 DEF SystemInv, AllSubscribed
<1> QED BY <1>1, <1>2, <1>4 DEF SystemInv

LEMMA MulticastStep ==
    ASSUME SystemInv, NEW m, Multicast(m)
    PROVE  SystemInv'
<1> DEFINE p == [m EXCEPT !.dst = ServerEp]
<1>1. m \in net /\ SentOK(m, Anyone) /\ Pledged(m, cl)
  BY KnownIsHeard DEF Multicast, SystemInv, AllSubscribed
<1>2. SentOK(p, Anyone) /\ Pledged(p, cl)
  <2>1. /\ DOMAIN p = DOMAIN m /\ PacketFields \subseteq DOMAIN m
        /\ \A f \in DOMAIN m \ {"dst"} : p[f] = m[f]
    BY <1>1 DEF SentOK
  <2>2. /\ p.src = m.src /\ p.mid = m.mid /\ p.code = m.code /\ p.token = m.token
        /\ p.about = m.about /\ p.obs = m.obs /\ p.path = m.path
        /\ "block2" \in DOMAIN m => p.block2 = m.block2
    BY <2>1 DEF PacketFields
  <2> HIDE DEF p
  <2> QED BY <1>1, <2>1, <2>2 DEF SentOK, HasOption, Pledged
<1> HIDE DEF p
<1>3. \A x \in net' : x \in net \/ x = p
  BY DEF Multicast, Deliver, Carry, p
<1>4. cl' = cl /\ sv' = sv /\ held' = held
  BY DEF Multicast, serverVars
<1>5. ServerInv' /\ AllSubscribed'
  BY <1>2, <1>3, <1>4 DEF SystemInv, ServerInv, AllSubscribed
<1> QED BY <1>2, <1>3, <1>4, <1>5 DEF SystemInv, Known

LEMMA SystemInitially == Init => SystemInv
<1> SUFFICES ASSUME Init
             PROVE  SystemInv
  OBVIOUS
<1>1. net = {}
  BY DEF Init, NetInit
<1>2. ClientTablesOK(Anyone) /\ Ledger(cl, 0) /\ Honest(cl)
  BY ClientInitially, LedgerInitially, FairInitially DEF Init
<1>3. ServerInv /\ \A i \in ObserverSlots : sv.observers[i] = Free
  BY ServerInitially DEF Init, ServerInit, ServerInitState
<1> QED BY <1>1, <1>2, <1>3 DEF SystemInv, ClientTablesOK, AllSubscribed

LEMMA SystemInvariance == Spec => []SystemInv
<1>1. SystemInv /\ [Next]_vars => SystemInv'
  <2> SUFFICES ASSUME SystemInv, [Next]_vars
               PROVE  SystemInv'
    OBVIOUS
  <2>1. ASSUME net' \subseteq net, UNCHANGED <<cl, serverVars>>
        PROVE  SystemInv'
    BY <2>1 DEF SystemInv, ServerInv, AllSubscribed, serverVars
  <2>2. ASSUME NEW m \in net, Lose(m)
        PROVE  net' \subseteq net
    BY <2>2 DEF Lose
  <2>3. CASE UNCHANGED vars
    BY <2>1, <2>3 DEF vars, serverVars
  <2> QED
    BY <2>1, <2>2, <2>3, SystemClientStep, SystemServerStep, MulticastStep DEF Next
<1> QED BY <1>1, SystemInitially, PTL DEF Spec

-----------------------------------------------------------------------------
(* For any number of calls and any tables: the server never remembers a    *)
(* subscription under another call, path or token than the client made it  *)
(* with, whatever is lost, late or duplicated between them, tokens being   *)
(* used again included.  A register packet in the network, or still to be  *)
(* resent, names the call, path and token of a subscription; and as long   *)
(* as that call has a slot, path and token of the slot stay the same.      *)
THEOREM ObserversKnown == Spec => []ObserversAreSubscriptions
<1>1. SystemInv => ObserversAreSubscriptions
  BY DEF SystemInv, AllSubscribed, Granted, ObserversAreSubscriptions, Occupied, Live,
     ServerInv, TablesOK, ObserverTable, ClientOK, PendingTable
<1> QED BY <1>1, SystemInvariance, PTL

(* After cancelObserve() the handler runs once more at most, also with a   *)
(* server that goes on notifying because it has kept the subscription.     *)
THEOREM SystemQuietAfterCancel == Spec => []QuietAfterCancel
<1>1. SystemInv => QuietAfterCancel
  BY LedgerImplies, TablesTyped DEF SystemInv
<1> QED BY <1>1, SystemInvariance, PTL

(* The two classes keep to their own invariants with each other as peer: a *)
(* one-shot call has one outcome, a subscription one slot, a deferred      *)
(* request one handle; and the tables of both keep their types.            *)
THEOREM SystemSafe ==
    Spec => [](/\ OneOutcome /\ UniqueObservers /\ HandlesMatchSlots
               /\ ClientTypeOK /\ ServerTypeOK)
<1>1. SystemInv => OneOutcome
  BY LedgerImplies DEF SystemInv
<1>2. SystemInv => ClientTypeOK
  BY BothSides, TablesImply
<1>3. SystemInv => ServerTypeOK /\ UniqueObservers /\ HandlesMatchSlots
  BY ServerInvImplies DEF SystemInv
<1> QED BY <1>1, <1>2, <1>3, SystemInvariance, PTL

-----------------------------------------------------------------------------
(* Transfers.  The blocks of a payload, one after the other, are the       *)
(* payload.                                                                *)
LEMMA PayloadIsSeq ==
    ASSUME NEW n, NEW size \in Nat
    PROVE  /\ Payload(n, size) \in Seq({n} \X Nat) /\ Len(Payload(n, size)) = size
           /\ \A u \in 1 .. size : Payload(n, size)[u] = <<n, u>>
BY DEF Payload

LEMMA PayloadPrefix ==
    ASSUME NEW n, NEW size \in Nat, NEW to \in 0 .. size
    PROVE  SubSeq(Payload(n, size), 1, to) = Payload(n, to)
<1> DEFINE S     == {n} \X Nat
           whole == Payload(n, size)
           s     == SubSeq(whole, 1, to)
           r     == Payload(n, to)
<1>1. /\ whole \in Seq(S) /\ Len(whole) = size /\ \A u \in 1 .. size : whole[u] = <<n, u>>
      /\ r \in Seq(S) /\ Len(r) = to /\ \A u \in 1 .. to : r[u] = <<n, u>>
  <2>1. to \in Nat
    OBVIOUS
  <2> QED BY <2>1, PayloadIsSeq
<1> HIDE DEF S, whole, r
<1>2. s \in Seq(S) /\ Len(s) = to /\ \A u \in 1 .. to : s[u] = whole[u]
  <2>1. to \in 0 .. Len(whole) /\ to \in 0 .. to
    BY <1>1
  <2> QED BY <1>1, <2>1, PrefixGrows
<1> HIDE DEF s
<1>3. s = r
  <2>1. \A u \in 1 .. to : u \in 1 .. size
    OBVIOUS
  <2>2. Len(s) = Len(r) /\ \A u \in 1 .. Len(s) : s[u] = r[u]
    BY <1>1, <1>2, <2>1
  <2> QED BY <1>1, <1>2, <2>2, SeqEqual
<1> QED BY <1>3 DEF s, r, whole

(* The first k blocks and the next one. *)
LEMMA BlockAdded ==
    ASSUME NEW n, NEW size \in Nat, NEW k \in Nat, Offset(k) < size
    PROVE  LET data == Payload(n, Offset(k)) \o Slice(Payload(n, size), k)
           IN  /\ Block(size, k).num = k
               /\ Block(size, k).more => Offset(k + 1) < size /\ data = Payload(n, Offset(k + 1))
               /\ ~Block(size, k).more => data = Payload(n, size)
<1> DEFINE S     == {n} \X Nat
           whole == Payload(n, size)
<1>1. whole \in Seq(S) /\ Len(whole) = size
  BY PayloadIsSeq
<1>2. Offset(k) \in Nat /\ Offset(k + 1) \in Nat
  BY BlockAssumption DEF Offset
<1>3. \A to \in 0 .. size : SubSeq(whole, 1, to) = Payload(n, to)
  BY PayloadPrefix
<1> HIDE DEF S, whole
<1>4. LET data == SubSeq(whole, 1, Offset(k)) \o Slice(whole, k)
      IN  /\ Block(size, k).num = k
          /\ Block(size, k).more =>
                Offset(k + 1) < size /\ data = SubSeq(whole, 1, Offset(k + 1))
          /\ ~Block(size, k).more => data = whole
  <2>1. Offset(k) < Len(whole)
    BY <1>1
  <2> QED BY <1>1, <2>1, BlockFollows
<1>5. /\ SubSeq(whole, 1, Offset(k)) = Payload(n, Offset(k))
      /\ Offset(k + 1) < size => SubSeq(whole, 1, Offset(k + 1)) = Payload(n, Offset(k + 1))
  <2>1. Offset(k) \in 0 .. size /\ (Offset(k + 1) < size => Offset(k + 1) \in 0 .. size)
    BY <1>2
  <2> QED BY <1>3, <2>1
<1> QED BY <1>4, <1>5 DEF whole

(* A session holds the first blocks of the upload its token was used for.  *)
FirstBlocks(x, n, size) ==
    /\ x.next \in Nat \ {0} /\ Offset(x.next) < size
    /\ x.data = Payload(n, Offset(x.next))

HoldsUpload(x, own, c) ==
    \E n, size : Measures(c, n, size) /\ Owns(own, x.token, n) /\ FirstBlocks(x, n, size)

(* A body is the whole payload of a call. *)
Whole(body, c) == \E n, size : Measures(c, n, size) /\ body = Payload(n, size)

(* Each token in use belongs to one call, whose packets and uploads have   *)
(* it on both sides.                                                       *)
Identified(own) ==
    /\ OneOwner(own) /\ \A token, n : Owns(own, token, n) => UsedBefore(token, cl)
    /\ ClientTablesOK(own)
    /\ Traced(sv, own)
    /\ \A i \in SessionSlots : sv.sessions[i] # Free => HoldsUpload(sv.sessions[i], own, cl)

(* The inductive invariant, while there are tokens enough. *)
TransferInv ==
    /\ SystemInv
    /\ Thrifty(cl) /\ Truthful(cl)
    /\ \A m \in net : Genuine(m, cl)
    /\ SessionTable(sv.sessions)
    /\ \A body \in sv.bodies : Whole(body, cl)
    /\ \E own : Identified(own)

(* Pairs whose token is not in use are forgotten. *)
Used(own, c) == {pair \in own : UsedBefore(pair[1], c)}

LEMMA UsedOwns ==
    \A own, c, token, n : Owns(Used(own, c), token, n) <=> Owns(own, token, n) /\ UsedBefore(token, c)
BY DEF Owns, Used

LEMMA UsedTablesOK ==
    ASSUME NEW own, OneOwner(own), NEW c, ClientOK(c, own), Below(c),
           NEW packets, PacketsOK(packets, own),
           \A m \in packets : m.code # "Empty" => UsedBefore(m.token, c)
    PROVE  /\ OneOwner(Used(own, c)) /\ ClientOK(c, Used(own, c))
           /\ PacketsOK(packets, Used(own, c))
<1> DEFINE own0 == Used(own, c)
<1>1. \A token, n : Owns(own0, token, n) <=> Owns(own, token, n) /\ UsedBefore(token, c)
  BY UsedOwns
<1> HIDE DEF own0
<1>2. OneOwner(own0)
  BY <1>1 DEF OneOwner
<1>3. PendingTable(c.pending, own0) /\ DiscoverTable(c.discovers, own0)
  BY <1>1 DEF ClientOK, PendingTable, DiscoverTable, Below
<1>4. \A p : SentOK(p, own) /\ (p.code \in MethodCodes => UsedBefore(p.token, c)) => SentOK(p, own0)
  BY <1>1 DEF SentOK
<1>5. ClientPool(c.tx, own0) /\ \A p \in c.out : SentOK(p, own0)
  BY <1>4 DEF ClientOK, ClientPool, TransactionOK, Below, Sent, InFlight
<1>6. CallTable(c.calls, own0)
  BY DEF ClientOK, CallTable, Right
<1>7. ClientOK(c, own0)
  BY <1>3, <1>5, <1>6 DEF ClientOK
<1>8. PacketsOK(packets, own0)
  BY <1>1, NoCodeTwice DEF PacketsOK, HeardOK
<1> QED BY <1>2, <1>7, <1>8 DEF own0

LEMMA ExtendsKnown ==
    ASSUME NEW own, NEW own2, Extends(own2, own), Traced(sv, own)
    PROVE  /\ Traced(sv, own2)
           /\ \A x, c, c2 : HoldsUpload(x, own, c) /\ Sized(c2, c) => HoldsUpload(x, own2, c2)
<1>1. \A x : Belongs(x, own) => Belongs(x, own2)
  BY DEF Extends, Owns, Belongs
<1>2. Traced(sv, own2)
  BY <1>1 DEF Traced
<1> QED BY <1>2 DEF Extends, HoldsUpload, Sized

LEMMA TransferClientStep ==
    ASSUME TokensSuffice, TransferInv, ClientNext, UNCHANGED serverVars
    PROVE  TransferInv'
<1>1. PICK own : Identified(own)
  BY DEF TransferInv
<1>2. SystemInv /\ Ledger(cl, 0) /\ ClientTablesOK(own) /\ OneOwner(own) /\ Traced(sv, own)
  BY <1>1 DEF TransferInv, SystemInv, Identified
<1>3. SystemInv'
  BY <1>2, SystemClientStep
<1>4. Fair(cl')
  BY <1>2, FairStep
<1>5. Thrives(cl', cl) /\ Truthful(cl') /\ Sized(cl', cl)
  BY <1>4 DEF Fair, Trust, TransferInv
<1>6. Thrifty(cl') /\ Below(cl')
  BY <1>5 DEF Thrives, Thrifty
<1>7. PICK own1 : Grows(own1, own, cl.nextToken) /\ ClientTablesOK(own1)' /\ OnlySent(own1)
  BY <1>2, ClientStep DEF Preserved
<1>8. Fresh(own, cl.nextToken)
  <2>1. ~UsedBefore(cl.nextToken, cl)
    BY <1>2 DEF ClientTablesOK, ClientOK, TokenBytes, UsedBefore
  <2> QED BY <1>1, <2>1 DEF Identified, Fresh
<1>9. OneOwner(own1) /\ Extends(own1, own)
  BY <1>2, <1>7, <1>8 DEF Grows
<1>10. ASSUME NEW m \in net'
       PROVE  /\ Genuine(m, cl') /\ (m.code # "Empty" => UsedBefore(m.token, cl'))
  <2>1. CASE m \in net
    <3>1. Genuine(m, cl')
      BY <1>5, <2>1 DEF TransferInv, Genuine, Sized
    <3>2. m.code # "Empty" => Owns(own, m.token, m.about)
      <4>1. HeardOK(m, own) /\ Known(m)
        BY <1>2, <2>1 DEF ClientTablesOK, PacketsOK, SystemInv
      <4> QED BY <4>1 DEF HeardOK, Known, SentOK, ToClient
    <3>3. m.code # "Empty" => UsedBefore(m.token, cl)
      BY <1>1, <3>2 DEF Identified
    <3> QED BY <1>5, <3>1, <3>3 DEF Thrives
  <2>2. CASE m \notin net
    <3>1. SentOK(m, own1)
      BY <1>7, <2>2 DEF OnlySent
    <3>2. Genuine(m, cl') /\ Older(m, cl')
      BY <1>4, <2>2 DEF Fair, TransferInv
    <3> QED BY <3>1, <3>2 DEF SentOK, Older
  <2> QED BY <2>1, <2>2
<1>11. OneOwner(Used(own1, cl')) /\ ClientOK(cl', Used(own1, cl')) /\ PacketsOK(net', Used(own1, cl'))
  BY <1>6, <1>7, <1>9, <1>10, UsedTablesOK DEF ClientTablesOK
<1>12. PICK own2 :
         /\ OneOwner(own2) /\ ClientOK(cl', own2) /\ PacketsOK(net', own2)
         /\ \A token, n : Owns(own2, token, n) <=> Owns(own1, token, n) /\ UsedBefore(token, cl')
  BY <1>11, UsedOwns
<1>13. Extends(own2, own)
  BY <1>1, <1>5, <1>9, <1>12 DEF Identified, Extends, Thrives
<1>14. sv' = sv
  BY DEF serverVars
<1>15. Traced(sv, own2) /\ \A x : HoldsUpload(x, own, cl) => HoldsUpload(x, own2, cl')
  <2>1. Traced(sv, own2) /\ \A x, c, c2 : HoldsUpload(x, own, c) /\ Sized(c2, c) => HoldsUpload(x, own2, c2)
    BY <1>2, <1>13, ExtendsKnown
  <2> QED BY <1>5, <2>1
<1>16. ClientTablesOK(own2)'
  BY <1>7, <1>12 DEF ClientTablesOK
<1>17. Identified(own2)'
  <2>1. \A i \in SessionSlots : sv'.sessions[i] # Free => HoldsUpload(sv'.sessions[i], own2, cl')
    BY <1>1, <1>14, <1>15 DEF Identified
  <2>2. Traced(sv', own2)
    BY <1>14, <1>15
  <2>3. \A token, n : Owns(own2, token, n) => UsedBefore(token, cl')
    BY <1>12
  <2> QED BY <1>12, <1>16, <2>1, <2>2, <2>3 DEF Identified
<1>18. \A body \in sv'.bodies : Whole(body, cl')
  <2>1. \A body \in sv.bodies : Whole(body, cl)
    BY DEF TransferInv
  <2>2. \A body : Whole(body, cl) => Whole(body, cl')
    BY <1>5 DEF Whole, Sized
  <2> QED BY <1>14, <2>1, <2>2
<1> QED BY <1>3, <1>5, <1>6, <1>10, <1>14, <1>17, <1>18 DEF TransferInv

(* The next block makes one block more of the same payload, or all of it.  *)
LEMMA BlockContinues ==
    ASSUME NEW own, Identified(own), NEW m, HeardOK(m, own), Genuine(m, cl),
           NEW old, NextBlock(old, sv.sessions, m)
    PROVE  /\ m.block1.more => HoldsUpload(Appended(old, m), own, cl)
           /\ ~m.block1.more => Whole(Appended(old, m).data, cl)
<1>1. m.code \in MethodCodes /\ IsBlock(m)
  BY DEF NextBlock, IsBlock, MethodCodes
<1>2. Owns(own, m.token, m.about) /\ m.block1.num = old.next
  BY <1>1 DEF HeardOK, NextBlock
<1>3. PICK size, k \in Nat :
        /\ Measures(cl, m.about, size) /\ Offset(k) < size
        /\ m.block1 = Block(size, k) /\ m.data = Slice(Payload(m.about, size), k)
  <2>1. PICK size : Measures(cl, m.about, size) /\ Piece(m, m.about, size)
    BY <1>1 DEF Genuine
  <2>2. size \in Nat
    <3>1. cl.issued \in 0 .. MaxCalls /\ cl.calls \in [1 .. MaxCalls -> CallRecord]
      BY DEF Identified, ClientTablesOK, ClientOK, CallTable
    <3>2. m.about \in 1 .. MaxCalls /\ cl.calls[m.about].size = size
      BY <2>1, <3>1, ClientAssumption DEF Measures
    <3>3. cl.calls[m.about] \in CallRecord
      BY <3>1, <3>2
    <3> QED BY <3>2, <3>3 DEF CallRecord
  <2> QED BY <2>1, <2>2 DEF Piece
<1> DEFINE data == Payload(m.about, Offset(k)) \o Slice(Payload(m.about, size), k)
<1>4. /\ Block(size, k).num = k
      /\ Block(size, k).more => Offset(k + 1) < size /\ data = Payload(m.about, Offset(k + 1))
      /\ ~Block(size, k).more => data = Payload(m.about, size)
  BY <1>3, BlockAdded
<1>5. old.next = k
  BY <1>2, <1>3, <1>4
<1>6. old.token = m.token /\ old.data = Payload(m.about, Offset(k))
  <2>1. CASE old = [remote |-> m.src, token |-> m.token, next |-> 0, data |-> <<>>]
    <3>1. k = 0 /\ old.data = <<>> /\ old.token = m.token
      BY <1>5, <2>1
    <3>2. Offset(k) = 0
      BY <3>1, BlockAssumption DEF Offset
    <3>3. Payload(m.about, 0) = <<>>
      <4>1. Payload(m.about, 0) \in Seq({m.about} \X Nat) /\ Len(Payload(m.about, 0)) = 0
        BY PayloadIsSeq
      <4> QED BY <4>1, EmptySeq
    <3> QED BY <3>1, <3>2, <3>3
  <2>2. CASE /\ \E i \in SessionSlots : sv.sessions[i] # Free /\ old = sv.sessions[i]
             /\ old.remote = m.src /\ old.token = m.token
    <3>1. HoldsUpload(old, own, cl)
      BY <2>2 DEF Identified
    <3>2. PICK n, size0 : Measures(cl, n, size0) /\ Owns(own, old.token, n) /\ FirstBlocks(old, n, size0)
      BY <3>1 DEF HoldsUpload
    <3>3. n = m.about
      BY <1>2, <2>2, <3>2 DEF Identified, OneOwner
    <3> QED BY <1>5, <2>2, <3>2, <3>3 DEF FirstBlocks
  <2> QED BY <2>1, <2>2 DEF NextBlock, Before
<1> DEFINE x == Appended(old, m)
<1>7. x.token = m.token /\ x.next = k + 1 /\ x.data = data
  BY <1>3, <1>5, <1>6 DEF Appended
<1> HIDE DEF x, data
<1>8. ASSUME m.block1.more
      PROVE  HoldsUpload(x, own, cl)
  <2>1. FirstBlocks(x, m.about, size)
    <3>1. Block(size, k).more
      BY <1>3, <1>8
    <3>2. x.next \in Nat \ {0}
      BY <1>7
    <3> QED BY <1>4, <1>7, <3>1, <3>2 DEF FirstBlocks
  <2>2. Owns(own, x.token, m.about)
    BY <1>2, <1>7
  <2> QED BY <1>3, <2>1, <2>2 DEF HoldsUpload
<1>9. ASSUME ~m.block1.more
       PROVE  Whole(x.data, cl)
  <2>1. x.data = Payload(m.about, size)
    BY <1>3, <1>4, <1>7, <1>9
  <2> QED BY <1>3, <2>1 DEF Whole
<1> QED BY <1>8, <1>9 DEF x

LEMMA TransferServerStep ==
    ASSUME TransferInv, ServerNext, UNCHANGED cl
    PROVE  TransferInv'
<1>1. PICK own : Identified(own)
  BY DEF TransferInv
<1>2. SystemInv /\ ServerInv /\ \A m \in net : m.dst = ServerEp => FromClient(m)
  BY BothSides DEF TransferInv
<1>3. SystemInv' /\ OnlyToClients
  BY <1>2, SystemServerStep, ServerStep
<1>4. \A m \in net : HeardOK(m, own) /\ Genuine(m, cl)
  BY <1>1 DEF Identified, ClientTablesOK, PacketsOK, TransferInv
<1>5. \A m \in net : m.dst = ServerEp => AskedOf(m, own)
  BY <1>2, <1>4 DEF AskedOf, HeardOK, Owns, Belongs
<1>6. Traced(sv', own) /\ AnswersTheirs(own)
  BY <1>1, <1>2, <1>5, ServerTraced DEF Identified
<1>7. ASSUME NEW m \in net'
      PROVE  HeardOK(m, own) /\ Genuine(m, cl)
  <2>1. CASE m \in net
    BY <1>4, <2>1
  <2>2. CASE m \notin net
    <3>1. ToClient(m) /\ (m.code \in ResponseCodes => Belongs(m, own))
      BY <1>3, <1>6, <2>2 DEF OnlyToClients, AnswersTheirs
    <3>2. HasOption(m, "block2") => m.src \in Servers
      BY <3>1, SystemAssumption DEF ToClient
    <3> QED BY <3>1, <3>2, NoCodeTwice DEF ToClient, HeardOK, Owns, Belongs, Genuine, IsBlock
  <2> QED BY <2>1, <2>2
<1>8. ClientTablesOK(own)'
  BY <1>1, <1>7 DEF Identified, ClientTablesOK, PacketsOK
<1>9. SessionTable(sv.sessions) /\ \A i \in SessionSlots : sv.sessions[i] # Free => HoldsUpload(sv.sessions[i], own, cl)
  BY <1>1 DEF TransferInv, Identified
<1>10. \A body \in sv.bodies : Whole(body, cl)
  BY DEF TransferInv
<1>11. /\ SessionTable(sv'.sessions)
       /\ \A i \in SessionSlots : sv'.sessions[i] # Free => HoldsUpload(sv'.sessions[i], own, cl)
       /\ \A body \in sv'.bodies : Whole(body, cl)
  <2>1. CASE SameUploads(sv', sv)
    BY <1>9, <1>10, <2>1 DEF SameUploads
  <2>2. ASSUME NEW m \in net, UploadsBy(sv', sv, m)
        PROVE  /\ SessionTable(sv'.sessions)
               /\ \A i \in SessionSlots : sv'.sessions[i] # Free => HoldsUpload(sv'.sessions[i], own, cl)
               /\ \A body \in sv'.bodies : Whole(body, cl)
    <3>1. HeardOK(m, own) /\ Genuine(m, cl)
      BY <1>4
    <3>2. \A old : NextBlock(old, sv.sessions, m) =>
            /\ m.block1.more => HoldsUpload(Appended(old, m), own, cl)
            /\ ~m.block1.more => Whole(Appended(old, m).data, cl)
      BY <1>1, <3>1, BlockContinues
    <3>3. ASSUME NEW i \in SessionSlots, sv'.sessions[i] # Free
          PROVE  HoldsUpload(sv'.sessions[i], own, cl)
      BY <1>9, <2>2, <3>2, <3>3 DEF UploadsBy
    <3>4. ASSUME NEW body \in sv'.bodies
          PROVE  Whole(body, cl)
      BY <1>10, <2>2, <3>2 DEF UploadsBy
    <3> QED BY <2>2, <3>3, <3>4 DEF UploadsBy
  <2>3. \/ SameUploads(sv', sv)
        \/ \E m \in net : UploadsBy(sv', sv, m)
    BY <1>2, <1>9, ServerUploads
  <2> QED BY <2>1, <2>2, <2>3
<1>12. Identified(own)'
  BY <1>1, <1>6, <1>8, <1>11 DEF Identified
<1> QED BY <1>3, <1>7, <1>11, <1>12 DEF TransferInv

LEMMA TransferMulticast ==
    ASSUME TransferInv, NEW m, Multicast(m)
    PROVE  TransferInv'
<1> DEFINE p == [m EXCEPT !.dst = ServerEp]
<1>1. SystemInv /\ SystemInv'
  BY MulticastStep DEF TransferInv
<1>2. PICK own : Identified(own)
  BY DEF TransferInv
<1>3. m \in net /\ SentOK(m, Anyone) /\ HeardOK(m, own) /\ Genuine(m, cl)
  BY <1>1, <1>2, KnownIsHeard DEF Multicast, SystemInv, Identified, ClientTablesOK, PacketsOK,
     TransferInv
<1>4. HeardOK(p, own) /\ Genuine(p, cl)
  <2>1. /\ DOMAIN p = DOMAIN m /\ PacketFields \subseteq DOMAIN m
        /\ \A f \in DOMAIN m \ {"dst"} : p[f] = m[f]
    BY <1>3 DEF SentOK
  <2>2. /\ p.mid = m.mid /\ p.code = m.code /\ p.token = m.token /\ p.about = m.about
        /\ "block1" \in DOMAIN m => p.block1 = m.block1
        /\ "data" \in DOMAIN m => p.data = m.data
    BY <2>1 DEF PacketFields
  <2>3. p.code \in MethodCodes \cup {"Empty"}
    BY <1>3, <2>2 DEF SentOK
  <2> HIDE DEF p
  <2>4. HeardOK(p, own)
    BY <1>3, <2>2, <2>3, NoCodeTwice DEF HeardOK, IsResponse
  <2>5. Genuine(p, cl)
    <3> SUFFICES ASSUME IsBlock(p)
                 PROVE  \E size : Measures(cl, p.about, size) /\ Piece(p, p.about, size)
      BY DEF Genuine
    <3>1. IsBlock(m) /\ p.block1 = m.block1
      BY <2>1, <2>2 DEF IsBlock, HasOption
    <3>2. PICK size : Measures(cl, m.about, size) /\ Piece(m, m.about, size)
      BY <1>3, <3>1 DEF Genuine
    <3>3. HasOption(p, "data") /\ p.data = m.data
      BY <2>1, <2>2, <3>2 DEF Piece, HasOption
    <3> QED BY <2>2, <3>1, <3>2, <3>3 DEF Piece
  <2> QED BY <2>4, <2>5
<1> HIDE DEF p
<1>5. \A x \in net' : x \in net \/ x = p
  BY DEF Multicast, Deliver, Carry, p
<1>6. cl' = cl /\ sv' = sv
  BY DEF Multicast, serverVars
<1>7. Identified(own)'
  BY <1>2, <1>4, <1>5, <1>6 DEF Identified, ClientTablesOK, PacketsOK
<1> QED BY <1>1, <1>4, <1>5, <1>6, <1>7 DEF TransferInv

LEMMA TransferInitially ==
    ASSUME TokensSuffice, Init
    PROVE  TransferInv
<1>1. SystemInv
  BY SystemInitially
<1>2. Thrifty(cl) /\ Truthful(cl)
  BY FairInitially DEF Init
<1>3. /\ sv.sessions = [i \in SessionSlots |-> Free] /\ sv.bodies = {} /\ sv.out = {}
      /\ \A i \in ObserverSlots : sv.observers[i] = Free
      /\ \A i \in DeferSlots : sv.deferred[i] = Free
      /\ \A k \in TxSlots : sv.tx[k] = Free
  BY DEF Init, ServerInit, ServerInitState, EmptyPool
<1>4. \A token, n : ~Owns({}, token, n)
  BY DEF Owns
<1>5. OneOwner({}) /\ Traced(sv, {})
  BY <1>3, <1>4 DEF OneOwner, Traced
<1>6. ClientTablesOK({})
  BY ClientInitially DEF Init
<1>7. Identified({})
  BY <1>3, <1>4, <1>5, <1>6 DEF Identified
<1>8. SessionTable(sv.sessions)
  BY <1>3 DEF SessionTable
<1>9. net = {}
  BY DEF Init, NetInit
<1> QED BY <1>1, <1>2, <1>3, <1>7, <1>8, <1>9 DEF TransferInv

LEMMA TransferInvariance ==
    ASSUME TokensSuffice
    PROVE  Spec => []TransferInv
<1>1. TransferInv /\ [Next]_vars => TransferInv'
  <2> SUFFICES ASSUME TransferInv, [Next]_vars
               PROVE  TransferInv'
    OBVIOUS
  <2>1. ASSUME net' \subseteq net, UNCHANGED <<cl, serverVars>>
        PROVE  TransferInv'
    <3>1. PICK own : Identified(own)
      BY DEF TransferInv
    <3>2. cl' = cl /\ sv' = sv /\ held' = held
      BY <2>1 DEF serverVars
    <3>3. Identified(own)'
      BY <2>1, <3>1, <3>2 DEF Identified, ClientTablesOK, PacketsOK
    <3>4. SystemInv'
      BY <2>1, <3>2 DEF TransferInv, SystemInv, ServerInv, AllSubscribed
    <3> QED BY <2>1, <3>2, <3>3, <3>4 DEF TransferInv
  <2>2. ASSUME NEW m \in net, Lose(m)
        PROVE  net' \subseteq net
    BY <2>2 DEF Lose
  <2>3. CASE UNCHANGED vars
    BY <2>1, <2>3 DEF vars, serverVars
  <2> QED
    BY <2>1, <2>2, <2>3, TransferClientStep, TransferServerStep, TransferMulticast DEF Next
<1>2. Init => TransferInv
  BY TransferInitially
<1> QED BY <1>1, <1>2, PTL DEF Spec

(* What a session holds is the beginning of one upload, as many blocks as  *)
(* it has counted, for any sizes of blocks and payloads and any number of  *)
(* sessions: whatever blocks are lost, late or duplicated, none is left    *)
(* out, taken twice, or taken into another upload, as long as no token of  *)
(* the client has come round.                                              *)
THEOREM SessionsArePrefixes ==
    ASSUME TokensSuffice
    PROVE  Spec => []SessionIsPrefix
<1>1. TransferInv => SessionIsPrefix
  <2> SUFFICES ASSUME TransferInv, NEW i \in Occupied(sv.sessions)
               PROVE  LET x == sv.sessions[i]
                      IN  /\ x.next > 0
                          /\ \E n \in 1 .. cl.issued :
                               /\ x.data = Payload(n, Offset(x.next))
                               /\ Offset(x.next) < cl.calls[n].size
    BY DEF SessionIsPrefix
  <2>1. PICK own : Identified(own)
    BY DEF TransferInv
  <2>2. i \in SessionSlots /\ sv.sessions[i] # Free
    BY DEF TransferInv, SessionTable, Occupied
  <2>3. HoldsUpload(sv.sessions[i], own, cl)
    BY <2>1, <2>2 DEF Identified
  <2> QED BY <2>3 DEF HoldsUpload, Measures, FirstBlocks
<1> QED BY <1>1, TransferInvariance, PTL

(* So the body a handler gets with the last block is the whole payload of  *)
(* one put().                                                              *)
THEOREM UploadsWhole ==
    ASSUME TokensSuffice
    PROVE  Spec => []UploadIntegrity
<1>1. TransferInv => UploadIntegrity
  BY DEF TransferInv, UploadIntegrity, Whole, Measures
<1> QED BY <1>1, TransferInvariance, PTL

(* With the library's own server as peer, too, the next token is in use    *)
(* nowhere, and every handler gets the answers to its own call: piggy-     *)
(* backed, separate or block by block, and notifications.                  *)
THEOREM SystemAnswered ==
    ASSUME TokensSuffice
    PROVE  Spec => [](NextTokenUnused /\ RightCallback)
<1>1. TransferInv => NextTokenUnused /\ RightCallback
  <2> SUFFICES ASSUME TransferInv
               PROVE  NextTokenUnused /\ RightCallback
    OBVIOUS
  <2>1. PICK own : Identified(own)
    BY DEF TransferInv
  <2>2. RightCallback
    BY <2>1, TablesImply DEF Identified
  <2>3. ClientOK(cl, own) /\ ~Owns(own, cl.nextToken, 0) /\ \A n : ~Owns(own, cl.nextToken, n)
    BY <2>1 DEF Identified, ClientTablesOK, ClientOK, TokenBytes, UsedBefore
  <2>4. /\ \A i \in Occupied(cl.pending) : Owns(own, cl.pending[i].token, cl.pending[i].ctx)
        /\ \A i \in Occupied(cl.discovers) : Owns(own, cl.discovers[i].token, cl.discovers[i].ctx)
    BY <2>3 DEF ClientOK, PendingTable, DiscoverTable, Occupied
  <2>5. \A i \in InFlight(cl.tx) : Owns(own, cl.tx[i].packet.token, cl.tx[i].packet.about)
    BY <2>3 DEF ClientOK, ClientPool, TransactionOK, SentOK, InFlight
  <2>6. ASSUME NEW m \in net, m.code # "Empty"
        PROVE  Owns(own, m.token, m.about)
    <3>1. HeardOK(m, own) /\ Known(m)
      BY <2>1 DEF Identified, ClientTablesOK, PacketsOK, TransferInv, SystemInv
    <3> QED BY <2>6, <3>1 DEF HeardOK, Known, SentOK, ToClient
  <2> QED BY <2>2, <2>3, <2>4, <2>5, <2>6 DEF NextTokenUnused
<1> QED BY <1>1, TransferInvariance, PTL

-----------------------------------------------------------------------------
(* Every representation fits into the client's buffer; what does not is    *)
(* cut off there.                                                          *)
RepliesFit == \A r \in Resources : ReplySize[r] <= MaxBlock2Body

(* The inductive invariant of downloads: what the slots have collected is  *)
(* the beginning of a representation, requests ask for no block beyond     *)
(* that, and a block in the network is one that was asked for.             *)
DownloadInv ==
    /\ TransferInv /\ sv.out = {}
    /\ Fetching(cl, ReplySize)
    /\ \A m \in net : Wanted(m, cl) /\ Bears(m, cl, ReplySize)

LEMMA ExpectsAll ==
    ASSUME NEW c, NEW t, Expects(t, c), NEW m
    PROVE  /\ Wanted(m, c) => Wanted(m, t)
           /\ \A sizes : Bears(m, c, sizes) => Bears(m, t, sizes)
BY DEF Expects, Wanted, Bears

(* A token leads to the slot of the call it was sent for. *)
LEMMA AllMeant ==
    ASSUME TransferInv, NEW m \in net
    PROVE  Meant(m, cl)
<1>1. PICK own : Identified(own)
  BY DEF TransferInv
<1>2. OneOwner(own) /\ HeardOK(m, own) /\ PendingTable(cl.pending, own)
  BY <1>1 DEF Identified, ClientTablesOK, ClientOK, PacketsOK
<1> QED BY <1>2 DEF Meant, IsResponse, HeardOK, PendingTable, OneOwner

LEMMA DownloadClientStep ==
    ASSUME TokensSuffice, DownloadInv, ClientNext, UNCHANGED serverVars
    PROVE  DownloadInv'
<1>1. TransferInv' /\ sv'.out = {}
  BY TransferClientStep DEF DownloadInv, serverVars
<1>2. PICK own : Identified(own)
  BY DEF DownloadInv, TransferInv
<1>3. ClientTablesOK(own) /\ Ledger(cl, 0)
  BY <1>2 DEF DownloadInv, TransferInv, SystemInv, Identified
<1>4. Fair(cl')
  BY <1>3, FairStep
<1>5. Answerable(ReplySize)
  BY AllMeant DEF Answerable, DownloadInv
<1>6. /\ Expects(cl', cl) /\ Fetching(cl', ReplySize)
      /\ \A p \in net' : p \in net \/ Wanted(p, cl')
  BY <1>4, <1>5 DEF Fair
<1>7. PICK own2 : OnlySent(own2)
  BY <1>3, ClientStep DEF Preserved
<1>8. ASSUME NEW m \in net'
      PROVE  Wanted(m, cl') /\ Bears(m, cl', ReplySize)
  <2>1. CASE m \in net
    BY <1>6, <2>1, ExpectsAll DEF DownloadInv
  <2>2. CASE m \notin net
    <3>1. SentOK(m, own2)
      BY <1>7, <2>2 DEF OnlySent
    <3> QED BY <1>6, <2>2, <3>1, NoCodeTwice DEF SentOK, Bears, IsResponse
  <2> QED BY <2>1, <2>2
<1> QED BY <1>1, <1>6, <1>8 DEF DownloadInv

(* The server answers with the block that was asked for. *)
LEMMA PortionBears ==
    ASSUME RepliesFit, NEW m, Wanted(m, cl), NEW p, Portion(p, m)
    PROVE  Bears(p, cl, ReplySize)
<1> SUFFICES ASSUME HasOption(p, "block2")
             PROVE  Bears(p, cl, ReplySize)
  BY DEF Bears
<1> DEFINE size == ReplySize[m.path]
           num  == BlockNo(m)
<1>1. /\ m.code \in MethodCodes /\ m.path \in Resources
      /\ p.path = m.path /\ p.about = m.about
      /\ Offset(num) < size /\ p.block2 = Block(size, num)
      /\ p.data = Slice(Representation(size), num)
  BY DEF Portion, BlockNo
<1>2. m.path \in DOMAIN ReplySize /\ size \in Nat /\ size <= MaxBlock2Body
  BY <1>1, ServerAssumption DEF RepliesFit
<1>3. AsksFor(cl, m.about, m.path, num)
  BY <1>1 DEF Wanted
<1>4. p.block2.num = num
  BY <1>1 DEF Block
<1> HIDE DEF num
<1> QED BY <1>1, <1>2, <1>3, <1>4 DEF Bears

LEMMA DownloadServerStep ==
    ASSUME RepliesFit, DownloadInv, ServerNext, UNCHANGED cl
    PROVE  DownloadInv'
<1>1. TransferInv'
  BY TransferServerStep DEF DownloadInv
<1>2. ServerInv /\ \A m \in net : m.dst = ServerEp => FromClient(m)
  BY BothSides DEF DownloadInv, TransferInv
<1>3. OnlyToClients
  BY <1>2, ServerStep
<1>4. sv'.out = {} /\ AnswersWithPortions
  BY <1>2, ServerPortions DEF DownloadInv
<1>5. ASSUME NEW p \in net'
      PROVE  Wanted(p, cl) /\ Bears(p, cl, ReplySize)
  <2>1. CASE p \in net
    BY <2>1 DEF DownloadInv
  <2>2. CASE p \notin net
    <3>1. Wanted(p, cl)
      BY <1>3, <2>2, NoCodeTwice DEF OnlyToClients, ToClient, Wanted
    <3>2. CASE HasOption(p, "block2")
      <4>1. PICK m \in net : Portion(p, m)
        BY <1>4, <2>2, <3>2 DEF AnswersWithPortions
      <4>2. Wanted(m, cl)
        BY DEF DownloadInv
      <4> QED BY <3>1, <4>1, <4>2, PortionBears
    <3>3. CASE ~HasOption(p, "block2")
      BY <3>1, <3>3 DEF Bears
    <3> QED BY <3>2, <3>3
  <2> QED BY <2>1, <2>2
<1> QED BY <1>1, <1>4, <1>5 DEF DownloadInv

LEMMA DownloadMulticast ==
    ASSUME DownloadInv, NEW m, Multicast(m)
    PROVE  DownloadInv'
<1> DEFINE p == [m EXCEPT !.dst = ServerEp]
<1>1. TransferInv'
  BY TransferMulticast DEF DownloadInv
<1>2. m \in net /\ SentOK(m, Anyone) /\ Wanted(m, cl)
  BY KnownIsHeard DEF Multicast, DownloadInv, TransferInv, SystemInv
<1>3. Wanted(p, cl) /\ Bears(p, cl, ReplySize)
  <2>1. /\ DOMAIN p = DOMAIN m /\ PacketFields \subseteq DOMAIN m
        /\ \A f \in DOMAIN m \ {"dst"} : p[f] = m[f]
    BY <1>2 DEF SentOK
  <2>2. /\ p.code = m.code /\ p.about = m.about /\ p.path = m.path
        /\ "block2" \in DOMAIN m => p.block2 = m.block2
    BY <2>1 DEF PacketFields
  <2> HIDE DEF p
  <2>3. BlockNo(p) = BlockNo(m)
    BY <2>1, <2>2 DEF BlockNo, HasOption
  <2>4. Wanted(p, cl)
    BY <1>2, <2>2, <2>3 DEF Wanted
  <2> QED BY <1>2, <2>2, <2>4, NoCodeTwice DEF SentOK, Bears, IsResponse
<1> HIDE DEF p
<1>4. \A x \in net' : x \in net \/ x = p
  BY DEF Multicast, Deliver, Carry, p
<1>5. cl' = cl /\ sv' = sv
  BY DEF Multicast, serverVars
<1> QED BY <1>1, <1>3, <1>4, <1>5 DEF DownloadInv

LEMMA DownloadInvariance ==
    ASSUME TokensSuffice, RepliesFit
    PROVE  Spec => []DownloadInv
<1>1. DownloadInv /\ TransferInv' /\ [Next]_vars => DownloadInv'
  <2> SUFFICES ASSUME DownloadInv, TransferInv', [Next]_vars
               PROVE  DownloadInv'
    OBVIOUS
  <2>1. ASSUME net' \subseteq net, UNCHANGED <<cl, serverVars>>
        PROVE  DownloadInv'
    BY <2>1 DEF DownloadInv, serverVars
  <2>2. ASSUME NEW m \in net, Lose(m)
        PROVE  net' \subseteq net
    BY <2>2 DEF Lose
  <2>3. CASE UNCHANGED vars
    BY <2>1, <2>3 DEF vars, serverVars
  <2> QED
    BY <2>1, <2>2, <2>3, DownloadClientStep, DownloadServerStep, DownloadMulticast DEF Next
<1>2. Init => DownloadInv
  <2> SUFFICES ASSUME Init
               PROVE  DownloadInv
    OBVIOUS
  <2>1. TransferInv
    BY TransferInitially
  <2>2. Fetching(cl, ReplySize)
    BY FairInitially DEF Init
  <2>3. net = {} /\ sv.out = {}
    BY DEF Init, NetInit, ServerInit, ServerInitState
  <2> QED BY <2>1, <2>2, <2>3 DEF DownloadInv
<1> QED BY <1>1, <1>2, TransferInvariance, PTL DEF Spec

(* A one-shot call whose response comes in blocks gets the whole           *)
(* representation of a resource, each block once and in order, for any     *)
(* sizes of blocks and resources and any number of calls: a block that is  *)
(* late, repeated, or asked for twice is not taken again, and none goes to *)
(* another call, as long as no token of the client has come round and the  *)
(* client has room for the representation.                                 *)
THEOREM DownloadsWhole ==
    ASSUME TokensSuffice, RepliesFit
    PROVE  Spec => []DownloadIntegrity
<1>1. DownloadInv => DownloadIntegrity
  <2> SUFFICES ASSUME DownloadInv, NEW n \in 1 .. MaxCalls, cl.calls[n].kind \in {"con", "non"},
                      NEW body \in cl.calls[n].bodies
               PROVE  \E r \in Resources : body = Representation(ReplySize[r])
    BY DEF DownloadIntegrity
  <2>1. Gathered(body, ReplySize)
    BY DEF DownloadInv, Fetching, OneShot
  <2> QED BY <2>1, ServerAssumption DEF Gathered
<1> QED BY <1>1, DownloadInvariance, PTL
=============================================================================
