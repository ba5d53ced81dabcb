-------------------------- MODULE ClientPeers_proofs ------------------------
(***************************************************************************)
(* A Client among arbitrary servers: its tables keep their types whatever  *)
(* arrives, and each answer reaches the call it belongs to.                *)
(***************************************************************************)
EXTENDS ClientPeers, Client_proofs

(* A server answers with the token of the request. *)
LEMMA AnswerOK ==
    ASSUME NEW own, NEW m, HeardOK(m, own), m.code \in MethodCodes, NEW answer \in Answers(m)
    PROVE  PacketsOK(answer, own)
<1>1. m.mid \in Mids /\ 0 \in Mids /\ Owns(own, m.token, m.about)
  BY NetAssumption DEF HeardOK, Mids
<1>2. \A s, type : HeardOK(Reply(m, s, type), own)
  BY <1>1 DEF HeardOK, Reply, HasOption
<1>3. HeardOK(EmptyAck(m.dst, m.src, m.mid), own) /\ HeardOK(Reset(m), own)
  BY <1>1 DEF HeardOK, Reset, EmptyAck, IsResponse, MethodCodes, ResponseCodes
<1> QED BY <1>2, <1>3 DEF PacketsOK, Answers

(* One step of the client, of a server or of the network *)
Kept(own) == \E own2 : Grows(own2, own, cl.nextToken) /\ ClientTablesOK(own2)'

LEMMA StepPreserves ==
    ASSUME NEW own, ClientTablesOK(own), [Next]_vars
    PROVE  Kept(own)
<1>1. CASE ClientNext
  BY <1>1, ClientStep DEF Preserved, Kept
<1>2. ASSUME NEW m \in net, PeerAnswer(m)
      PROVE  Kept(own)
  <2>1. HeardOK(m, own) /\ m.code \in MethodCodes /\ cl' = cl
    BY <1>2 DEF PeerAnswer, ClientTablesOK, PacketsOK
  <2>2. PICK answer \in Answers(m) : Deliver(m, answer)
    BY <1>2 DEF PeerAnswer
  <2>3. PacketsOK(answer, own)
    BY <2>1, AnswerOK
  <2>4. PacketsOK(net', own)
    BY <2>2, <2>3 DEF Deliver, Carry, ClientTablesOK, PacketsOK
  <2> QED BY <2>1, <2>4, NoneAdded DEF Kept, ClientTablesOK
<1>3. ASSUME net' \subseteq net, cl' = cl
      PROVE  Kept(own)
  BY <1>3, NoneAdded DEF Kept, ClientTablesOK, PacketsOK
<1>4. ASSUME NEW m \in net, PeerTakesAck(m)
      PROVE  net' \subseteq net /\ cl' = cl
  BY <1>4 DEF PeerTakesAck, Deliver, Carry
<1>5. ASSUME NEW m \in net, Lose(m) /\ UNCHANGED cl
      PROVE  net' \subseteq net /\ cl' = cl
  BY <1>5 DEF Lose
<1>6. CASE UNCHANGED vars
  BY <1>6, <1>3 DEF vars
<1> QED BY <1>1, <1>2, <1>3, <1>4, <1>5, <1>6 DEF Next

(* The tables of pending requests, discoveries and transactions and the    *)
(* records of the calls keep their types, for every number of calls and    *)
(* servers, whatever the servers answer and the network does, also when    *)
(* tokens are used again while they are in use.                            *)
TypesHold == \E own : ClientTablesOK(own)

THEOREM ClientTypeCorrect == Spec => []ClientTypeOK
<1>1. Init => TypesHold
  BY ClientInitially DEF Init, TypesHold
<1>2. TypesHold /\ [Next]_vars => TypesHold'
  <2> SUFFICES ASSUME NEW own, ClientTablesOK(own), [Next]_vars
               PROVE  TypesHold'
    BY DEF TypesHold
  <2>1. Kept(own)
    BY StepPreserves
  <2> QED BY <2>1 DEF Kept, TypesHold
<1>3. TypesHold => ClientTypeOK
  BY TablesImply DEF TypesHold
<1> QED BY <1>1, <1>2, <1>3, PTL DEF Spec

(* Every answer a handler gets is the answer to its own call, whatever is  *)
(* lost, duplicated, late or overtaken, and whichever call holds the slot  *)
(* then, as long as nextTokenByte_ has not come round to a token that is   *)
(* still in use: of the pairs of a token in use and its call, no two have  *)
(* the same token.                                                         *)
OwnersHold == \E own : OneOwner(own) /\ ClientTablesOK(own)

(* Pairs with the next token are out of use. *)
LEMMA ForgetToken ==
    ASSUME NEW own, OneOwner(own), ClientTablesOK(own), NextTokenUnused
    PROVE  \E own0 : OneOwner(own0) /\ Fresh(own0, cl.nextToken) /\ ClientTablesOK(own0)
<1> DEFINE own0 == {pair \in own : pair[1] # cl.nextToken}
<1>1. \A token, ctx : Owns(own0, token, ctx) <=> Owns(own, token, ctx) /\ token # cl.nextToken
  BY DEF Owns
<1> HIDE DEF own0
<1>2. OneOwner(own0) /\ Fresh(own0, cl.nextToken)
  BY <1>1 DEF OneOwner, Fresh
<1>3. PendingTable(cl.pending, own0) /\ DiscoverTable(cl.discovers, own0)
  BY <1>1 DEF ClientTablesOK, ClientOK, PendingTable, DiscoverTable, NextTokenUnused, Occupied
<1>4. \A p : SentOK(p, own) /\ p.token # cl.nextToken => SentOK(p, own0)
  BY <1>1 DEF SentOK
<1>5. ClientPool(cl.tx, own0)
  BY <1>4 DEF ClientTablesOK, ClientOK, ClientPool, TransactionOK, NextTokenUnused, InFlight
<1>6. CallTable(cl.calls, own0)
  BY DEF ClientTablesOK, ClientOK, CallTable, Right
<1>7. ClientOK(cl, own0)
  BY <1>3, <1>5, <1>6 DEF ClientTablesOK, ClientOK
<1>8. PacketsOK(net, own0)
  BY <1>1, NoCodeTwice DEF ClientTablesOK, PacketsOK, HeardOK, NextTokenUnused
<1> QED BY <1>2, <1>7, <1>8 DEF ClientTablesOK

THEOREM AnswersReachTheirCall == Spec /\ []NextTokenUnused => []RightCallback
<1>1. Init => OwnersHold
  <2>1. OneOwner({})
    BY DEF OneOwner, Owns
  <2> QED BY <2>1, ClientInitially DEF Init, OwnersHold
<1>2. OwnersHold /\ NextTokenUnused /\ [Next]_vars => OwnersHold'
  <2> SUFFICES ASSUME NEW own, OneOwner(own), ClientTablesOK(own), NextTokenUnused, [Next]_vars
               PROVE  OwnersHold'
    BY DEF OwnersHold
  <2>1. PICK own0 : OneOwner(own0) /\ Fresh(own0, cl.nextToken) /\ ClientTablesOK(own0)
    BY ForgetToken
  <2>2. Kept(own0)
    BY <2>1, StepPreserves
  <2> QED BY <2>1, <2>2 DEF Kept, OwnersHold, Grows
<1>3. OwnersHold => RightCallback
  BY TablesImply DEF OwnersHold
<1> QED BY <1>1, <1>2, <1>3, PTL DEF Spec

(* The ledger of outcomes holds whatever arrives, also when tokens are     *)
(* used again.                                                             *)
LedgerHolds == TypesHold /\ Ledger(cl, 0)

LEMMA LedgerKept == LedgerHolds /\ [Next]_vars => LedgerHolds'
<1> SUFFICES ASSUME NEW own, ClientTablesOK(own), Ledger(cl, 0), [Next]_vars
             PROVE  LedgerHolds'
  BY DEF LedgerHolds, TypesHold
<1>1. TypesHold'
  BY StepPreserves DEF Kept, TypesHold
<1>2. CASE ClientNext
  BY <1>1, <1>2, LedgerStep DEF LedgerHolds
<1>3. CASE cl' = cl
  BY <1>1, <1>3 DEF LedgerHolds
<1>4. ClientNext \/ cl' = cl
  BY DEF Next, vars, PeerAnswer, PeerTakesAck
<1> QED BY <1>2, <1>3, <1>4

LEMMA LedgerInvariant == Spec => []LedgerHolds
<1>1. Init => LedgerHolds
  BY ClientInitially, LedgerInitially DEF Init, LedgerHolds, TypesHold
<1> QED BY <1>1, LedgerKept, PTL DEF Spec

LEMMA LedgerShows == LedgerHolds => OneOutcome /\ QuietAfterCancel
BY LedgerImplies, TablesTyped DEF LedgerHolds, TypesHold, ClientTablesOK

(* A one-shot call has one outcome, a response or a timeout, and never a   *)
(* second one, whatever is duplicated, late or still retransmitted, and    *)
(* whatever handlers do, for every number of calls and also when tokens    *)
(* are used again: while the call is pending it has had no outcome and     *)
(* holds one slot, and what ends it takes that slot away.                  *)
THEOREM OutcomesCounted == Spec => []OneOutcome
BY LedgerInvariant, LedgerShows, PTL

(* After cancelObserve() the handler of the subscription runs at most once *)
(* more, whatever notifications arrive, from whichever server: no slot of  *)
(* the subscription is left but that of the deregistering GET, and its     *)
(* reply takes that slot away.                                             *)
THEOREM CancelledIsQuiet == Spec => []QuietAfterCancel
BY LedgerInvariant, LedgerShows, PTL

(* A subscription keeps its slot until it is cancelled, a Reset arrives,   *)
(* or a transaction with its token runs out, whatever else the servers     *)
(* send, handlers do, or other calls come to.                              *)
THEOREM SubscriptionsKept == Spec => SubscriptionHolds
<1>1. LedgerHolds /\ [Next]_vars => SubscriptionsHold \/ UNCHANGED <<cl, netVars>>
  <2> SUFFICES ASSUME NEW own, ClientTablesOK(own), Ledger(cl, 0), [Next]_vars
               PROVE  SubscriptionsHold \/ UNCHANGED <<cl, netVars>>
    BY DEF LedgerHolds, TypesHold
  <2>1. CASE ClientNext
    BY <2>1, LedgerStep
  <2>2. CASE cl' = cl
    BY <2>2, FollowsHolds DEF Follows, StillHeld
  <2>3. ClientNext \/ cl' = cl
    BY DEF Next, vars, PeerAnswer, PeerTakesAck
  <2> QED BY <2>1, <2>2, <2>3
<1> DEFINE Lost(i) == /\ cl.pending[i].observing
                      /\ cl'.pending[i] = Free \/ cl'.pending[i].ctx # cl.pending[i].ctx
           Excused(i) == \/ cl'.calls[cl.pending[i].ctx].cancelled
                         \/ \E m \in net : ClientReset(m)
                         \/ \E t \in InFlight(cl.tx) :
                               /\ cl.tx[t].token = cl.pending[i].token
                               /\ cl.tx[t].retries = MaxRetransmit
                               /\ cl'.tx[t] # cl.tx[t]
<1>2. ASSUME SubscriptionsHold, NEW i \in Occupied(cl.pending), LedgerHolds, Lost(i)
      PROVE  Excused(i)
  <2>1. i \in TxSlots /\ Live(cl.pending[i])
    BY <1>2, TablesTyped DEF LedgerHolds, TypesHold, ClientTablesOK, Typed, Occupied, Live
  <2>2. ~StillHeld(cl'.pending[i], cl.pending[i])
    BY <1>2 DEF StillHeld, Live
  <2>3. TimerEnded(cl.pending[i], cl', cl, InFlight(cl.tx)) => Excused(i)
    BY DEF TimerEnded, InFlight
  <2> QED BY <1>2, <2>1, <2>2, <2>3 DEF SubscriptionsHold
<1>3. LedgerHolds /\ [Next]_vars =>
        [\A i \in Occupied(cl.pending) : Lost(i) => Excused(i)]_<<cl, netVars>>
  BY <1>1, <1>2
<1>4. Spec => [][\A i \in Occupied(cl.pending) : Lost(i) => Excused(i)]_<<cl, netVars>>
  BY <1>3, LedgerInvariant, PTL DEF Spec
<1> QED BY <1>4 DEF SubscriptionHolds

(* What has been used as a token lies below the token to be used next.     *)
TokensHold ==
    /\ LedgerHolds /\ Thrifty(cl)
    /\ \A m \in net : m.code # "Empty" => UsedBefore(m.token, cl)

LEMMA TokensStep ==
    ASSUME TokensSuffice, TokensHold, [Next]_vars
    PROVE  TokensHold'
<1>1. LedgerHolds /\ LedgerHolds'
  BY LedgerKept DEF TokensHold
<1>2. PICK own : ClientTablesOK(own)
  BY <1>1 DEF LedgerHolds, TypesHold
<1>3. CASE ClientNext
  <2>1. Fair(cl')
    BY <1>1, <1>2, <1>3, FairStep DEF LedgerHolds
  <2>2. Thrives(cl', cl)
    BY <2>1 DEF Fair, Trust, TokensHold
  <2>3. PICK own2 : OnlySent(own2)
    BY <1>2, <1>3, ClientStep DEF Preserved
  <2>4. ASSUME NEW m \in net', m.code # "Empty"
        PROVE  UsedBefore(m.token, cl')
    <3>1. CASE m \in net
      BY <2>2, <2>4, <3>1 DEF TokensHold, Thrives
    <3>2. CASE m \notin net
      <4>1. m.code \in MethodCodes
        BY <2>3, <2>4, <3>2 DEF OnlySent, SentOK
      <4>2. Older(m, cl')
        BY <2>1, <3>2 DEF Fair, TokensHold
      <4> QED BY <4>1, <4>2 DEF Older
    <3> QED BY <3>1, <3>2
  <2> QED BY <1>1, <2>2, <2>4 DEF TokensHold, Thrives
<1>4. ASSUME cl' = cl,
             \A m \in net' \ net : m.code # "Empty" =>
                \E x \in net : x.code # "Empty" /\ m.token = x.token
      PROVE  TokensHold'
  BY <1>1, <1>4 DEF TokensHold
<1>5. ASSUME NEW x \in net, PeerAnswer(x)
      PROVE  TokensHold'
  <2>1. PICK answer \in Answers(x) : Deliver(x, answer)
    BY <1>5 DEF PeerAnswer
  <2>2. \A m \in answer : m.code = "Empty" \/ m.token = x.token
    BY DEF Answers, Reply, Reset, EmptyAck
  <2>3. \A m \in net' \ net : m \in answer
    BY <2>1 DEF Deliver, Carry
  <2>4. x.code # "Empty" /\ cl' = cl
    BY <1>5, NoCodeTwice DEF PeerAnswer
  <2> QED BY <1>4, <2>2, <2>3, <2>4
<1>6. ASSUME net' \subseteq net, cl' = cl
      PROVE  TokensHold'
  BY <1>4, <1>6
<1>7. ASSUME NEW m \in net, PeerTakesAck(m)
      PROVE  net' \subseteq net /\ cl' = cl
  BY <1>7 DEF PeerTakesAck, Deliver, Carry
<1>8. ASSUME NEW m \in net, Lose(m) /\ UNCHANGED cl
      PROVE  net' \subseteq net /\ cl' = cl
  BY <1>8 DEF Lose
<1>9. CASE UNCHANGED vars
  BY <1>9, <1>6 DEF vars
<1> QED BY <1>3, <1>5, <1>6, <1>7, <1>8, <1>9 DEF Next

LEMMA TokensShow == TokensHold => NextTokenUnused
<1> SUFFICES ASSUME TokensHold
             PROVE  NextTokenUnused
  OBVIOUS
<1>1. PICK own : ClientOK(cl, own)
  BY DEF TokensHold, LedgerHolds, TypesHold, ClientTablesOK
<1>2. \A token : UsedBefore(token, cl) => token # cl.nextToken
  BY <1>1 DEF UsedBefore, ClientOK, TokenBytes
<1>3. /\ \A i \in Occupied(cl.pending) : UsedBefore(cl.pending[i].token, cl)
      /\ \A i \in Occupied(cl.discovers) : UsedBefore(cl.discovers[i].token, cl)
  BY <1>1 DEF TokensHold, Thrifty, Below, Occupied, ClientOK, PendingTable, DiscoverTable
<1>4. \A i \in InFlight(cl.tx) : UsedBefore(cl.tx[i].packet.token, cl)
  <2>1. \A i \in InFlight(cl.tx) : cl.tx[i].packet.code \in MethodCodes /\ cl.tx[i].packet \in Sent(cl)
    BY <1>1 DEF InFlight, ClientOK, ClientPool, TransactionOK, Sent
  <2> QED BY <2>1 DEF TokensHold, Thrifty, Below
<1> QED BY <1>2, <1>3, <1>4 DEF NextTokenUnused, TokensHold

(* No token is used again: as long as the calls made, and as many          *)
(* cancellations, fit into the values of nextTokenByte_, the token to be   *)
(* used next is held by no pending request, no discovery, no transaction   *)
(* and no packet on its way, whatever the servers answer and the network   *)
(* does.                                                                   *)
THEOREM TokensNotReused ==
    ASSUME TokensSuffice
    PROVE  Spec => []NextTokenUnused
<1>1. Init => TokensHold
  <2> SUFFICES ASSUME Init
               PROVE  TokensHold
    OBVIOUS
  <2>1. LedgerHolds
    BY ClientInitially, LedgerInitially DEF Init, LedgerHolds, TypesHold
  <2>2. Thrifty(cl)
    BY FairInitially DEF Init
  <2> QED BY <2>1, <2>2 DEF TokensHold, Init, NetInit
<1>2. TokensHold /\ [Next]_vars => TokensHold'
  BY TokensStep
<1>3. TokensHold => NextTokenUnused
  BY TokensShow
<1> QED BY <1>1, <1>2, <1>3, PTL DEF Spec

(* Then each handler gets the answers to its own call and no other.        *)
THEOREM FewCallsAnswered ==
    ASSUME TokensSuffice
    PROVE  Spec => []RightCallback
BY TokensNotReused, AnswersReachTheirCall, PTL
=============================================================================
