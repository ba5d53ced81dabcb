-------------------------- MODULE Transports_proofs -------------------------
(***************************************************************************)
(* Proofs about two transports.  The session table of DtlsTransport: for   *)
(* any number of peers, sessions and datagrams, a peer has one session, a  *)
(* datagram goes to its own peer, once, and never after a later one, and a *)
(* handshake is not disturbed by other peers and lasts no longer than the  *)
(* timeout and the time to the next receive().  The receive ring of        *)
(* LwIpUdpTransport is a bounded FIFO, for any number of slots, any width  *)
(* of its counters that the number of slots divides, and any number of     *)
(* datagrams: the refinement that RingIsFifo states.                       *)
(***************************************************************************)
EXTENDS DtlsSessions, LwipRing, SequenceTheorems, WellFoundedInduction, TLAPS

(* A slot is idle exactly when it has no peer, and only a handshake that   *)
(* goes on or has failed keeps a datagram.                                 *)
Session ==
    {s \in [state : {"idle", "handshaking", "established", "failed"},
            peer : Peers \cup {Nobody}, tx : SUBSET Nat, heard : BOOLEAN,
           age : Nat, turn : {0, 1}, waited : Nat] :
        /\ s.state = "idle" <=> s.peer = Nobody
        /\ s.state \in {"idle", "established"} => s.tx = {}}

Entry == [to : Peers, result : BOOLEAN, on : Seq(Peers)]

Unique(table) ==
    \A i, j \in SessionSlots :
       table[i].state # "idle" /\ table[j].state # "idle"
         /\ table[i].peer = table[j].peer => i = j

(* Datagram n is the last one for its peer. *)
IsLatest(n, log) == \A k \in DOMAIN log : k > n => log[k].to # log[n].to

(* Datagram n may wait in session s: it is for the peer of s, it has not   *)
(* gone out, and no later datagram is for this peer.                       *)
MayWait(n, s, log) ==
    /\ s.state # "idle"
    /\ n \in DOMAIN log /\ log[n].to = s.peer /\ log[n].on = <<>>
    /\ IsLatest(n, log)

Once(log) ==
    \A n \in DOMAIN log :
       /\ log[n].on \in {<<>>, <<log[n].to>>}
       /\ log[n].result => log[n].on # <<>>

(* The inductive invariant, of any table and log: what waits in a session  *)
(* is the last datagram for its peer and has not gone out yet.             *)
Sound(table, log) ==
    /\ table \in [SessionSlots -> Session]
    /\ log \in Seq(Entry)
    /\ Unique(table)
    /\ \A i \in SessionSlots : \A n \in table[i].tx : MayWait(n, table[i], log)
    /\ Once(log)

(* Slots are reset without harm (resetSession() in tickTimeouts()). *)
LEMMA TickSound ==
    ASSUME NEW table, NEW log, Sound(table, log)
    PROVE  Sound(TickTimeouts(table), log)
<1> DEFINE new == TickTimeouts(table)
<1>1. \A i \in SessionSlots : table[i] \in Session
  BY DEF Sound
<1>2. \A i \in SessionSlots :
         /\ new[i] \in Session
         /\ \/ new[i] = table[i]
            \/ new[i].state = "idle" /\ new[i].tx = {}
  BY <1>1, DtlsAssumption DEF TickTimeouts, ResetSession, Unused, Session
<1>3. new \in [SessionSlots -> Session]
  BY <1>2 DEF TickTimeouts
<1>4. Unique(new)
  BY <1>2 DEF Sound, Unique
<1>5. \A i \in SessionSlots : \A n \in new[i].tx : MayWait(n, new[i], log)
  BY <1>2 DEF Sound
<1> QED BY <1>3, <1>4, <1>5 DEF Sound

(* One slot changes: its new session has a peer no other slot has, and     *)
(* what waits in it may wait there.                                        *)
LEMMA PutSound ==
    ASSUME NEW table, NEW log, Sound(table, log),
           NEW i, NEW s \in Session,
           s.state # "idle" =>
             \A j \in SessionSlots \ {i} : table[j].state = "idle" \/ table[j].peer # s.peer,
           \A n \in s.tx : MayWait(n, s, log)
    PROVE  Sound([table EXCEPT ![i] = s], log)
<1> DEFINE new == [table EXCEPT ![i] = s]
<1>1. table \in [SessionSlots -> Session]
  BY DEF Sound
<1>2. \A j \in SessionSlots : new[j] = IF j = i THEN s ELSE table[j]
  BY <1>1
<1>3. new \in [SessionSlots -> Session]
  BY <1>1
<1>4. Unique(new)
  BY <1>2 DEF Sound, Unique
<1>5. \A j \in SessionSlots : \A n \in new[j].tx : MayWait(n, new[j], log)
  BY <1>2 DEF Sound
<1> QED BY <1>3, <1>4, <1>5 DEF Sound

(* A call of send() that has not (yet) sent anything is added, when no     *)
(* older datagram for its peer is waiting.                                 *)
LEMMA CallSound ==
    ASSUME NEW table, NEW log, Sound(table, log), NEW peer \in Peers,
           \A i \in SessionSlots : table[i].peer = peer => table[i].tx = {}
    PROVE  LET e   == [to |-> peer, result |-> FALSE, on |-> <<>>]
               new == Append(log, e)
           IN  /\ Sound(table, new)
               /\ DOMAIN new = 1 .. Len(log) + 1
               /\ new[Len(log) + 1] = e
<1> DEFINE e   == [to |-> peer, result |-> FALSE, on |-> <<>>]
           new == Append(log, e)
<1>1. log \in Seq(Entry)
  BY DEF Sound
<1>2. e \in Entry
  BY DEF Entry
<1>3. /\ new \in Seq(Entry) /\ Len(new) = Len(log) + 1
      /\ DOMAIN new = 1 .. Len(log) + 1 /\ DOMAIN log = 1 .. Len(log)
      /\ new[Len(log) + 1] = e
      /\ \A n \in DOMAIN log : new[n] = log[n]
  BY <1>1, <1>2
<1>4. Len(log) \in Nat
  BY <1>1
<1>5. \A n \in DOMAIN new : n \in DOMAIN log \/ n = Len(log) + 1
  BY <1>3, <1>4
<1>6. DOMAIN log \subseteq DOMAIN new
  BY <1>3, <1>4
<1>7. Once(new)
  BY <1>3, <1>5 DEF Sound, Once
<1>8. \A i \in SessionSlots : \A n \in table[i].tx : MayWait(n, table[i], new)
  <2> SUFFICES ASSUME NEW i \in SessionSlots, NEW n \in table[i].tx
               PROVE  MayWait(n, table[i], new)
    OBVIOUS
  <2>1. MayWait(n, table[i], log) /\ table[i].peer # peer
    BY DEF Sound
  <2>2. n \in DOMAIN log /\ log[n].to = table[i].peer
    BY <2>1 DEF MayWait
  <2>3. ASSUME NEW k \in DOMAIN new, k > n
        PROVE  new[k].to # new[n].to
    BY <1>3, <1>5, <2>1, <2>2, <2>3 DEF MayWait, IsLatest
  <2> QED BY <1>3, <1>6, <2>1, <2>2, <2>3 DEF MayWait, IsLatest
<1> QED BY <1>3, <1>7, <1>8 DEF Sound

(* Datagrams that no session holds any more are written on a session of    *)
(* their peer.                                                             *)
LEMMA WriteSound ==
    ASSUME NEW table, NEW log, Sound(table, log), NEW peer \in Peers, NEW ns, NEW ok \in BOOLEAN,
           \A n \in ns : n \in DOMAIN log /\ log[n].to = peer /\ log[n].on = <<>>,
           \A i \in SessionSlots : table[i].tx \cap ns = {}
    PROVE  Sound(table, Written(log, ns, peer, ok))
<1> DEFINE new == Written(log, ns, peer, ok)
<1>1. /\ log \in Seq(Entry) /\ Once(log)
      /\ \A i \in SessionSlots : \A n \in table[i].tx : MayWait(n, table[i], log)
  BY DEF Sound
<1>2. DOMAIN new = DOMAIN log
  BY DEF Written
<1>3. DOMAIN log = 1 .. Len(log) /\ Len(log) \in Nat
  BY <1>1
<1>4. ASSUME NEW n \in DOMAIN log
      PROVE  /\ log[n] \in Entry /\ new[n] \in Entry
             /\ new[n].to = log[n].to /\ new[n].result = log[n].result
             /\ n \notin ns => new[n] = log[n]
             /\ new[n].on \in {log[n].on, <<log[n].to>>}
  <2>1. log[n] \in Entry
    BY <1>1
  <2>2. CASE n \in ns /\ ok
    <3>1. log[n].on = <<>> /\ log[n].to = peer
      BY <2>2
    <3>2. new[n] = [log[n] EXCEPT !.on = <<peer>>]
      BY <2>2, <3>1 DEF Written
    <3>3. <<peer>> \in Seq(Peers)
      OBVIOUS
    <3> QED BY <2>1, <2>2, <3>1, <3>2, <3>3 DEF Entry
  <2>3. CASE ~(n \in ns /\ ok)
    BY <2>1, <2>3 DEF Written
  <2> QED BY <2>2, <2>3
<1>5. new \in Seq(Entry)
  <2>1. new \in [1 .. Len(log) -> Entry]
    BY <1>3, <1>4 DEF Written
  <2> QED BY <2>1, <1>3, SeqDef
<1>6. Once(new)
  <2> SUFFICES ASSUME NEW n \in DOMAIN log
               PROVE  /\ new[n].on \in {<<>>, <<new[n].to>>}
                      /\ new[n].result => new[n].on # <<>>
    BY <1>2 DEF Once
  <2> QED BY <1>1, <1>4 DEF Once
<1>7. \A i \in SessionSlots : \A n \in table[i].tx : MayWait(n, table[i], new)
  BY <1>1, <1>2, <1>4 DEF MayWait, IsLatest
<1> QED BY <1>5, <1>6, <1>7 DEF Sound

(* What send() returns is recorded: true only for what has gone out. *)
LEMMA ResultSound ==
    ASSUME NEW table, NEW log, Sound(table, log),
           NEW k \in DOMAIN log, NEW r \in BOOLEAN, r => log[k].on # <<>>
    PROVE  Sound(table, [log EXCEPT ![k].result = r])
<1> DEFINE new == [log EXCEPT ![k].result = r]
<1>1. /\ log \in Seq(Entry) /\ Once(log)
      /\ \A i \in SessionSlots : \A n \in table[i].tx : MayWait(n, table[i], log)
  BY DEF Sound
<1>2. DOMAIN new = DOMAIN log
  OBVIOUS
<1>3. ASSUME NEW n \in DOMAIN log
      PROVE  /\ log[n] \in Entry /\ new[n] \in Entry
             /\ new[n].to = log[n].to /\ new[n].on = log[n].on
             /\ new[n].result = IF n = k THEN r ELSE log[n].result
  <2>1. log[n] \in Entry
    BY <1>1
  <2>2. new[n] = IF n = k THEN [log[n] EXCEPT !.result = r] ELSE log[n]
    OBVIOUS
  <2> QED BY <2>1, <2>2 DEF Entry
<1>4. new \in Seq(Entry)
  <2>1. DOMAIN log = 1 .. Len(log) /\ Len(log) \in Nat
    BY <1>1
  <2>2. new = [n \in DOMAIN log |-> new[n]]
    OBVIOUS
  <2>3. new \in [1 .. Len(log) -> Entry]
    <3>1. \A n \in 1 .. Len(log) : new[n] \in Entry
      BY <1>3, <2>1
    <3> HIDE DEF new
    <3> QED BY <2>1, <2>2, <3>1
  <2> HIDE DEF new
  <2>4. [1 .. Len(log) -> Entry] \subseteq Seq(Entry)
    BY <2>1, SeqDef
  <2> QED BY <2>3, <2>4
<1>5. Once(new)
  BY <1>1, <1>2, <1>3 DEF Once
<1>6. \A i \in SessionSlots : \A n \in table[i].tx : MayWait(n, table[i], new)
  BY <1>1, <1>2, <1>3 DEF MayWait, IsLatest
<1> QED BY <1>4, <1>5, <1>6 DEF Sound

(* A call of send() whose own datagram is written at once, or not at all. *)
LEMMA SendSound ==
    ASSUME NEW table, NEW log, NEW peer \in Peers, NEW ns, NEW ok \in BOOLEAN,
           NEW r \in BOOLEAN, r => ok /\ ns # {}, log \in Seq(Entry),
           Sound(table, Append(log, [to |-> peer, result |-> FALSE, on |-> <<>>])),
           ns \in {{}, {Len(log) + 1}},
           \A i \in SessionSlots : table[i].tx \cap ns = {}
    PROVE  Sound(table, Written(Append(log, [to |-> peer, result |-> r, on |-> <<>>]),
                                ns, peer, ok))
<1> DEFINE k    == Len(log) + 1
           e    == [to |-> peer, result |-> FALSE, on |-> <<>>]
           f    == [to |-> peer, result |-> r, on |-> <<>>]
           old  == Append(log, e)
           base == Written(old, ns, peer, ok)
           new  == Written(Append(log, f), ns, peer, ok)
<1>1. Len(log) \in Nat
  OBVIOUS
<1>2. /\ DOMAIN old = 1 .. k /\ old[k] = e
      /\ DOMAIN Append(log, f) = 1 .. k /\ Append(log, f)[k] = f
      /\ \A n \in 1 .. k : n # k => old[n] = Append(log, f)[n]
  BY <1>1
<1>3. k \in DOMAIN old
  BY <1>1, <1>2
<1>4. Sound(table, base)
  <2>1. \A n \in ns : n \in DOMAIN old /\ old[n].to = peer /\ old[n].on = <<>>
    BY <1>2, <1>3
  <2>2. Sound(table, old)
    OBVIOUS
  <2> HIDE DEF old
  <2> QED BY <2>1, <2>2, WriteSound
<1>5. DOMAIN base = 1 .. k /\ DOMAIN new = 1 .. k
  BY <1>2 DEF Written
<1> DEFINE on == IF k \in ns /\ ok THEN <<peer>> ELSE <<>>
<1>6. base[k] = [to |-> peer, result |-> FALSE, on |-> on]
  <2>1. base[k] = IF k \in ns /\ ok THEN [e EXCEPT !.on = Append(@, peer)] ELSE e
    BY <1>2, <1>3 DEF Written
  <2>2. CASE k \in ns /\ ok
    <3>1. ASSUME NEW q \in BOOLEAN
          PROVE  [[to |-> peer, result |-> q, on |-> <<>>] EXCEPT !.on = Append(@, peer)]
                   = [to |-> peer, result |-> q, on |-> <<peer>>]
      OBVIOUS
    <3>2. [e EXCEPT !.on = Append(@, peer)] = [to |-> peer, result |-> FALSE, on |-> <<peer>>]
      BY <3>1
    <3> HIDE DEF base
    <3> QED BY <2>1, <2>2, <3>2
  <2>3. CASE ~(k \in ns /\ ok)
    <3> HIDE DEF base
    <3> QED BY <2>1, <2>3
  <2> QED BY <2>2, <2>3
<1>7. new[k] = [to |-> peer, result |-> r, on |-> on]
  <2>1. new[k] = IF k \in ns /\ ok THEN [f EXCEPT !.on = Append(@, peer)] ELSE f
    BY <1>2, <1>3 DEF Written
  <2> QED BY <2>1
<1>8. \A n \in 1 .. k : n # k => new[n] = base[n]
  BY <1>2 DEF Written
<1>9. new[k] = [base[k] EXCEPT !.result = r]
  <2> HIDE DEF on, base, new
  <2> QED BY <1>6, <1>7
<1>10. new = [base EXCEPT ![k].result = r]
  <2>1. new = [n \in 1 .. k |-> new[n]]
    BY <1>2 DEF Written
  <2>2. [base EXCEPT ![k].result = r] = [n \in 1 .. k |-> new[n]]
    BY <1>5, <1>8, <1>9
  <2> QED BY <2>1, <2>2
<1>11. r => base[k].on # <<>>
  <2> SUFFICES ASSUME r PROVE base[k].on # <<>>
    OBVIOUS
  <2>1. k \in ns /\ ok
    OBVIOUS
  <2>2. on = <<peer>> /\ <<peer>> # <<>>
    BY <2>1
  <2> HIDE DEF on, base
  <2> QED BY <1>6, <2>2
<1>12. k \in DOMAIN base /\ r \in BOOLEAN
  BY <1>2, <1>3, <1>5
<1>13. Sound(table, [base EXCEPT ![k].result = r])
  BY <1>4, <1>11, <1>12, ResultSound
<1> QED BY <1>10, <1>13

(* allocSession() and findSession() return the first slot of a set. *)
LEMMA MinInSet ==
    ASSUME NEW S \in SUBSET SessionSlots, S # {}
    PROVE  Min(S) \in S
<1> DEFINE below == OpToRel(<, Nat)
<1>1. S \subseteq Nat
  BY DtlsAssumption DEF SessionSlots
<1>2. IsWellFoundedOn(below, Nat)
  BY NatLessThanWellFounded
<1> HIDE DEF below
<1>3. PICK x \in S : \A y \in S : <<y, x>> \notin below
  BY <1>1, <1>2, WFMin
<1>4. \A a, b \in Nat : a < b => <<a, b>> \in below
  BY DEF below, OpToRel
<1>5. \A y \in S : x =< y
  <2> TAKE y \in S
  <2>1. ~(y < x)
    BY <1>1, <1>3, <1>4
  <2> QED BY <1>1, <2>1
<1> QED BY <1>5 DEF Min

(* A handshake goes on, and only its state and its buffer change. *)
LEMMA FlushedDriven ==
    ASSUME NEW s \in Session, s.state = "handshaking", NEW outcome \in {"want", "fail", "done"}
    PROVE  LET t == Drive(s, outcome)
           IN  /\ Flushed(t) \in Session /\ Flushed(t).state # "idle"
               /\ t.peer = s.peer /\ Flushed(t).peer = s.peer
               /\ Flushed(t).tx = s.tx \ ToFlush(t) /\ ToFlush(t) \in {{}, s.tx}
BY DEF Drive, Flushed, ToFlush, Session

(* A record for session s, which slot i holds or is opened to hold. *)
LEMMA HearSound ==
    ASSUME NEW table, Sound(table, sends), NEW i \in SessionSlots, NEW s \in Session,
           s.state # "idle", s.peer \in Peers,
           \A j \in SessionSlots \ {i} : table[j].state = "idle" \/ table[j].peer # s.peer,
           \A n \in s.tx : MayWait(n, s, sends),
           Hear(table, i, s)
    PROVE  Sound(sessions', sends')
<1>1. CASE s.state # "handshaking"
  BY <1>1 DEF Hear
<1>2. CASE s.state = "handshaking"
  <2> DEFINE h == [s EXCEPT !.heard = TRUE]
  <2>1. PICK outcome \in {"want", "fail", "done"}, ok \in BOOLEAN :
          LET t == Drive(h, outcome)
          IN  /\ sessions' = [table EXCEPT ![i] = Flushed(t)]
              /\ sends' = Written(sends, ToFlush(t), t.peer, ok)
    BY <1>2 DEF Hear
  <2> DEFINE t == Drive(h, outcome)
  <2>2. h \in Session /\ h.state = "handshaking" /\ h.tx = s.tx /\ h.peer = s.peer
    BY <1>2 DEF Session
  <2> HIDE DEF h
  <2>3. /\ Flushed(t) \in Session /\ Flushed(t).state # "idle"
        /\ t.peer = s.peer /\ Flushed(t).peer = s.peer
        /\ Flushed(t).tx = s.tx \ ToFlush(t) /\ ToFlush(t) \subseteq s.tx
    BY <2>2, FlushedDriven
  <2> HIDE DEF t
  <2>4. \A n \in Flushed(t).tx : MayWait(n, Flushed(t), sends)
    BY <2>3 DEF MayWait
  <2>5. Sound(sessions', sends)
    <3>1. \A j \in SessionSlots \ {i} : table[j].state = "idle" \/ table[j].peer # Flushed(t).peer
      BY <2>3
    <3>2. sessions' = [table EXCEPT ![i] = Flushed(t)]
      BY <2>1 DEF t
    <3> QED BY <2>3, <2>4, <3>1, <3>2, PutSound
  <2>6. \A n \in ToFlush(t) : n \in DOMAIN sends /\ sends[n].to = s.peer /\ sends[n].on = <<>>
    BY <2>3 DEF MayWait
  <2>7. \A j \in SessionSlots : sessions'[j] = IF j = i THEN Flushed(t) ELSE table[j]
    BY <2>1 DEF Sound, t
  <2>8. \A j \in SessionSlots : sessions'[j].tx \cap ToFlush(t) = {}
    BY <2>3, <2>6, <2>7 DEF Sound, MayWait
  <2> QED BY <2>1, <2>3, <2>5, <2>6, <2>8, WriteSound DEF t
<1> QED BY <1>1, <1>2

(* The inductive invariant. *)
DtlsInv == isServer \in BOOLEAN /\ Sound(sessions, sends)

(* initSession() makes a session of the slot's own turn. *)
LEMMA OpenTyped ==
    ASSUME NEW s \in Session, NEW peer \in Peers
    PROVE  Open(s, peer) \in Session
<1>1. s.turn \in {0, 1}
  BY DEF Session
<1>2. 1 - s.turn \in {0, 1}
  BY <1>1
<1> QED BY <1>2, DtlsAssumption DEF Open, Unused, Session

(* send(): the datagram waits in the session of its peer, or is written at *)
(* once, or is lost with a session that failed.                            *)
LEMMA SendPreserves ==
    ASSUME DtlsInv, NEW peer \in Peers, DtlsSend(peer)
    PROVE  DtlsInv'
<1> DEFINE k   == Len(sends) + 1
           e   == [to |-> peer, result |-> FALSE, on |-> <<>>]
           log == Append(sends, e)
<1>1. /\ Sound(sessions, sends) /\ isServer' \in BOOLEAN
      /\ sessions \in [SessionSlots -> Session] /\ sends \in Seq(Entry)
      /\ Unique(sessions)
  BY DEF DtlsInv, DtlsSend, Sound
<1>2. /\ DOMAIN log = 1 .. k /\ log[k] = e
      /\ Len(log) = k
  BY <1>1
<1>3. k \in 1 .. k /\ k \in Nat
  BY <1>1
<1>4. log = Called(peer, FALSE)
  BY DEF Called
<1>5. ASSUME NEW s, s.peer = peer, s.state # "idle", NEW n \in {k}
      PROVE  MayWait(n, s, log)
  BY <1>2, <1>3, <1>5 DEF MayWait, IsLatest
<1>6. ASSUME NEW i \in SessionSlots
      PROVE  /\ ResetSession(sessions[i]) \in Session
             /\ ResetSession(sessions[i]).state = "idle" /\ ResetSession(sessions[i]).tx = {}
  BY <1>1, DtlsAssumption DEF ResetSession, Unused, Session
<1> DEFINE Without(i) == [sessions EXCEPT ![i] = ResetSession(sessions[i])]
<1>7. ASSUME NEW i \in SessionSlots,
             \A j \in SessionSlots \ {i} : sessions[j].state = "idle" \/ sessions[j].peer # peer
      PROVE  Sound(Without(i), log)
  <2> DEFINE s == ResetSession(sessions[i])
             table == [sessions EXCEPT ![i] = s]
  <2>1. s \in Session /\ s.state = "idle" /\ s.tx = {}
    BY <1>6
  <2> HIDE DEF s
  <2>2. Sound(table, sends)
    BY <1>1, <2>1, PutSound
  <2>3. \A j \in SessionSlots : table[j].peer = peer => table[j].tx = {}
    BY <1>1, <1>7, <2>1 DEF Session
  <2> HIDE DEF table
  <2>4. Sound(table, log)
    BY <2>2, <2>3, CallSound
  <2> QED BY <2>4 DEF s, table
<1> HIDE DEF log
<1>8. CASE SendFirst(peer)
  <2>1. sends' = log
    BY <1>4, <1>8 DEF SendFirst
  <2>2. CASE Claimable(sessions) = {}
    <3>1. \A j \in SessionSlots : sessions[j].peer = peer => sessions[j].tx = {}
      BY <1>1, <1>8 DEF SendFirst, FindSession, Session
    <3>2. Sound(sessions, log)
      BY <1>1, <3>1, CallSound DEF log
    <3> QED BY <1>1, <1>8, <2>1, <2>2, <3>2 DEF SendFirst, DtlsInv
  <2>3. CASE Claimable(sessions) # {}
    <3> DEFINE i == Min(Claimable(sessions))
               s == Buffer(Open(sessions[i], peer), k)
    <3>1. i \in SessionSlots
      BY <2>3, MinInSet DEF Claimable, SessionsIn
    <3>2. \A j \in SessionSlots : sessions[j].state = "idle" \/ sessions[j].peer # peer
      BY <1>8 DEF SendFirst, FindSession
    <3>3. s \in Session /\ s.state = "handshaking" /\ s.peer = peer /\ s.tx = {k} /\ ~s.heard
      <4>1. Open(sessions[i], peer) \in Session
        BY <1>1, <3>1, OpenTyped
      <4> QED BY <1>3, <4>1 DEF Buffer, Open, Unused, Session
    <3>4. \/ \E outcome \in {"want", "fail"} :
                sessions' = [sessions EXCEPT ![i] = Drive(s, outcome)]
          \/ sessions' = [sessions EXCEPT ![i] = ResetSession(sessions[i])]
      BY <1>8, <2>3, <3>3 DEF SendFirst, Outcomes
    <3> HIDE DEF i, s
    <3>5. ASSUME NEW outcome \in {"want", "fail"}
          PROVE  Sound([sessions EXCEPT ![i] = Drive(s, outcome)], log)
      <4> DEFINE t == Drive(s, outcome)
      <4>1. t \in Session /\ t.state # "idle" /\ t.peer = peer /\ t.tx = {k}
        BY <3>3 DEF Drive, Session
      <4> HIDE DEF t
      <4>2. \A n \in t.tx : MayWait(n, t, log)
        BY <1>5, <4>1
      <4>3. \A j \in SessionSlots \ {i} : sessions[j].state = "idle" \/ sessions[j].peer # t.peer
        BY <3>2, <4>1
      <4>4. Sound(Without(i), log)
        BY <1>7, <3>1, <3>2
      <4>5. \A j \in SessionSlots \ {i} : Without(i)[j].state = "idle" \/ Without(i)[j].peer # t.peer
        BY <4>3
      <4>6. [Without(i) EXCEPT ![i] = t] = [sessions EXCEPT ![i] = t]
        OBVIOUS
      <4> HIDE DEF Without
      <4>7. Sound([Without(i) EXCEPT ![i] = t], log)
        BY <4>1, <4>2, <4>4, <4>5, PutSound
      <4> QED BY <4>6, <4>7 DEF t
    <3>6. Sound(sessions', log)
      BY <1>7, <3>1, <3>2, <3>4, <3>5
    <3> QED BY <1>1, <2>1, <3>6 DEF DtlsInv
  <2> QED BY <2>2, <2>3
<1>9. ASSUME NEW i \in FindSession(sessions, peer), SendHandshaking(i)
      PROVE  Sound(sessions', sends')
  <2> DEFINE s == Buffer(sessions[i], k)
  <2>1. /\ i \in SessionSlots /\ sessions[i].peer = peer
        /\ sessions[i].state = "handshaking" /\ sessions[i] \in Session
    BY <1>1, <1>9 DEF FindSession, SendHandshaking
  <2>2. s \in Session /\ s.state = "handshaking" /\ s.peer = peer /\ s.tx = {k}
    BY <1>3, <2>1 DEF Buffer, Session
  <2>3. PICK outcome \in {"want", "fail", "done"}, ok \in BOOLEAN :
          LET t == Drive(s, outcome)
          IN  /\ sessions' = [sessions EXCEPT ![i] = Flushed(t)]
              /\ sends' = Written(Called(t.peer, ok /\ ToFlush(t) # {}), ToFlush(t), t.peer, ok)
    BY <1>9 DEF SendHandshaking, Outcomes
  <2> DEFINE t == Drive(s, outcome)
  <2> HIDE DEF s
  <2>4. /\ Flushed(t) \in Session /\ Flushed(t).state # "idle"
        /\ t.peer = peer /\ Flushed(t).peer = peer
        /\ Flushed(t).tx = {k} \ ToFlush(t) /\ ToFlush(t) \in {{}, {k}}
    BY <2>2, FlushedDriven
  <2> HIDE DEF t
  <2>5. \A n \in Flushed(t).tx : MayWait(n, Flushed(t), log)
    BY <1>5, <2>4
  <2>6. \A j \in SessionSlots \ {i} : sessions[j].state = "idle" \/ sessions[j].peer # peer
    BY <1>1, <2>1 DEF Unique
  <2>7. Sound(sessions', log)
    <3>1. \A j \in SessionSlots \ {i} : sessions[j].state = "idle" \/ sessions[j].peer # Flushed(t).peer
      BY <2>4, <2>6
    <3>2. Sound(Without(i), log)
      BY <1>7, <2>1, <2>6
    <3>3. \A j \in SessionSlots \ {i} : Without(i)[j].state = "idle"
                                      \/ Without(i)[j].peer # Flushed(t).peer
      BY <3>1
    <3>4. sessions' = [Without(i) EXCEPT ![i] = Flushed(t)]
      BY <2>3 DEF t
    <3> HIDE DEF Without
    <3> QED BY <2>4, <2>5, <3>2, <3>3, <3>4, PutSound, ZenonT(60)
  <2>8. \A j \in SessionSlots : sessions'[j] = IF j = i THEN Flushed(t) ELSE sessions[j]
    BY <1>1, <2>3 DEF t
  <2>9. \A j \in SessionSlots : sessions'[j].tx \cap ToFlush(t) = {}
    <3>1. \A j \in SessionSlots : k \notin sessions[j].tx
      BY <1>1, <1>3 DEF Sound, MayWait
    <3> QED BY <2>4, <2>8, <3>1
  <2>10. (ok /\ ToFlush(t) # {}) \in BOOLEAN
    OBVIOUS
  <2> QED BY <1>1, <2>3, <2>4, <2>7, <2>9, <2>10, SendSound DEF t, log, Called
<1>10. ASSUME NEW i \in FindSession(sessions, peer), SendEstablished(i)
       PROVE  Sound(sessions', sends')
  <2>1. sessions[i].peer = peer
    BY DEF FindSession
  <2>2. PICK ok \in BOOLEAN : sends' = Written(Called(peer, ok), {k}, peer, ok)
    BY <1>10, <2>1 DEF SendEstablished
  <2>3. \A j \in SessionSlots : sessions[j].tx \cap {k} = {}
    BY <1>1, <1>3 DEF Sound, MayWait
  <2>4. sessions' = sessions
    BY <1>10 DEF SendEstablished
  <2>5. \A j \in SessionSlots : sessions[j].peer = peer => sessions[j].tx = {}
    BY <1>1, <1>10, <2>1 DEF FindSession, SendEstablished, Session, Unique
  <2>6. Sound(sessions, log)
    BY <1>1, <2>5, CallSound DEF log
  <2> QED BY <1>1, <2>2, <2>3, <2>4, <2>6, SendSound DEF log, Called
<1>11. ASSUME NEW i \in FindSession(sessions, peer), SendFailed(i)
       PROVE  Sound(sessions', sends')
  <2>1. \A j \in SessionSlots \ {i} : sessions[j].state = "idle" \/ sessions[j].peer # peer
    BY <1>1 DEF Unique, FindSession
  <2> QED BY <1>4, <1>7, <1>11, <2>1 DEF SendFailed, FindSession
<1> QED BY <1>1, <1>8, <1>9, <1>10, <1>11 DEF DtlsSend, DtlsInv

(* receive(): old handshakes are reset, and a record is heard by the       *)
(* session of its peer, or by a new one on a server.                       *)
LEMMA ReceivePreserves ==
    ASSUME DtlsInv, DtlsReceive
    PROVE  DtlsInv'
<1> DEFINE table == TickTimeouts(sessions)
<1>1. /\ Sound(table, sends) /\ isServer \in BOOLEAN
      /\ table \in [SessionSlots -> Session] /\ Unique(table)
      /\ isServer' = isServer
  BY TickSound DEF DtlsInv, Sound, DtlsReceive
<1>2. CASE ReceiveNothing
  BY <1>1, <1>2 DEF ReceiveNothing, DtlsInv
<1>3. ASSUME NEW peer \in Peers, ReceiveFrom(peer)
      PROVE  DtlsInv'
  <2>2. CASE FindSession(table, peer) # {}
    <3> DEFINE i == Min(FindSession(table, peer))
    <3>1. i \in SessionSlots /\ table[i].state # "idle" /\ table[i].peer = peer
      BY <2>2, MinInSet DEF FindSession
    <3>2. Hear(table, i, table[i])
      BY <1>3, <2>2 DEF ReceiveFrom
    <3> HIDE DEF i, table
    <3>3. \A j \in SessionSlots \ {i} : table[j].state = "idle" \/ table[j].peer # peer
      BY <1>1, <3>1 DEF Unique
    <3>4. \A n \in table[i].tx : MayWait(n, table[i], sends)
      BY <1>1, <3>1 DEF Sound
    <3>5. Sound(sessions', sends')
      BY <1>1, <3>1, <3>2, <3>3, <3>4, HearSound
    <3> QED BY <1>1, <3>5 DEF DtlsInv
  <2>3. CASE FindSession(table, peer) = {}
    <3>1. HearNew(table, peer)
      BY <1>3, <2>3 DEF ReceiveFrom
    <3>2. \A j \in SessionSlots : table[j].state = "idle" \/ table[j].peer # peer
      BY <2>3 DEF FindSession
    <3> HIDE DEF table
    <3>3. CASE ~isServer \/ Claimable(table) = {}
      BY <1>1, <3>1, <3>3 DEF HearNew, DtlsInv
    <3>4. CASE isServer /\ Claimable(table) # {}
      <4>1. PICK i \in SessionSlots :
              \/ Hear(table, i, Open(table[i], peer))
              \/ sessions' = [table EXCEPT ![i] = ResetSession(table[i])] /\ sends' = sends
        <5>1. Min(Claimable(table)) \in SessionSlots
          BY <3>4, MinInSet DEF Claimable, SessionsIn
        <5> QED BY <3>1, <3>4, <5>1 DEF HearNew
      <4>2. CASE Hear(table, i, Open(table[i], peer))
        <5> DEFINE s == Open(table[i], peer)
        <5>1. s \in Session
          BY <1>1, OpenTyped
        <5>2. s.state = "handshaking" /\ s.peer = peer /\ s.tx = {}
          BY DEF Open, Unused
        <5>3. Hear(table, i, s)
          BY <4>2
        <5> HIDE DEF s
        <5>4. Sound(sessions', sends')
          BY <1>1, <3>2, <5>1, <5>2, <5>3, HearSound
        <5> QED BY <1>1, <5>4 DEF DtlsInv
      <4>3. CASE sessions' = [table EXCEPT ![i] = ResetSession(table[i])] /\ sends' = sends
        <5> DEFINE s == ResetSession(table[i])
        <5>1. s \in Session /\ s.state = "idle" /\ s.tx = {}
          BY <1>1 DEF ResetSession, Unused, Session
        <5>2. sessions' = [table EXCEPT ![i] = s] /\ sends' = sends
          BY <4>3
        <5> HIDE DEF s
        <5>3. Sound([table EXCEPT ![i] = s], sends)
          BY <1>1, <5>1, PutSound
        <5> QED BY <1>1, <5>2, <5>3 DEF DtlsInv
      <4> QED BY <4>1, <4>2, <4>3
    <3> QED BY <3>3, <3>4
  <2> QED BY <2>2, <2>3
<1> QED BY <1>2, <1>3 DEF DtlsReceive

(* Handshakes get older, and nothing else changes. *)
LEMMA TimePreserves ==
    ASSUME DtlsInv, TimePasses
    PROVE  DtlsInv'
<1>1. sessions \in [SessionSlots -> Session]
  BY DEF DtlsInv, Sound
<1>2. ASSUME NEW i \in SessionSlots
      PROVE  /\ sessions'[i] \in Session /\ sessions'[i].state = sessions[i].state
             /\ sessions'[i].peer = sessions[i].peer /\ sessions'[i].tx = sessions[i].tx
  <2>1. sessions[i] \in Session
    BY <1>1
  <2>2. \/ sessions'[i] = [sessions[i] EXCEPT !.age = @ + 1, !.waited = @ + 1]
        \/ sessions'[i] = sessions[i]
    BY DEF TimePasses
  <2>3. CASE sessions'[i] = [sessions[i] EXCEPT !.age = @ + 1, !.waited = @ + 1]
    <3> DEFINE s == sessions[i]
               a == s.age + 1
               w == s.waited + 1
               t == [[s EXCEPT !.age = a] EXCEPT !.waited = w]
    <3>1. s \in Session /\ sessions'[i] = t /\ a \in Nat /\ w \in Nat
      BY <2>1, <2>3 DEF Session
    <3> HIDE DEF s, a, w
    <3>2. t \in Session /\ t.state = s.state /\ t.peer = s.peer /\ t.tx = s.tx
      BY <3>1 DEF Session
    <3> HIDE DEF t
    <3> QED BY <3>1, <3>2 DEF s
  <2> QED BY <2>1, <2>2, <2>3
<1>3. /\ sessions' \in [SessionSlots -> Session]
      /\ sends' = sends /\ isServer' = isServer
  BY <1>2 DEF TimePasses
<1>4. Unique(sessions')
  BY <1>2 DEF DtlsInv, Sound, Unique
<1>5. \A i \in SessionSlots : \A n \in sessions'[i].tx : MayWait(n, sessions'[i], sends)
  BY <1>2 DEF DtlsInv, Sound, MayWait
<1> QED BY <1>3, <1>4, <1>5 DEF DtlsInv, Sound

(* DtlsInv holds throughout: initially nothing waits anywhere, and both    *)
(* operations of the transport, and time, preserve it.                     *)
LEMMA Invariance == DtlsSpec => []DtlsInv
<1>1. DtlsInit => DtlsInv
  <2> SUFFICES ASSUME DtlsInit PROVE Sound(sessions, sends)
    BY DEF DtlsInit, DtlsInv
  <2>1. Unused \in Session
    BY DEF Unused, Session
  <2>2. sessions \in [SessionSlots -> Session] /\ \A i \in SessionSlots : sessions[i] = Unused
    BY <2>1 DEF DtlsInit
  <2>3. sends \in Seq(Entry) /\ DOMAIN sends = {}
    BY DEF DtlsInit
  <2> QED BY <2>2, <2>3 DEF Unused, Sound, Unique, Once
<1>2. DtlsInv /\ [DtlsNext]_dtlsVars => DtlsInv'
  <2> SUFFICES ASSUME DtlsInv, [DtlsNext]_dtlsVars PROVE DtlsInv'
    OBVIOUS
  <2>1. CASE UNCHANGED dtlsVars
    BY <2>1 DEF dtlsVars, DtlsInv
  <2>2. CASE DtlsNext
    BY <2>2, SendPreserves, ReceivePreserves, TimePreserves DEF DtlsNext
  <2> QED BY <2>1, <2>2
<1> QED BY <1>1, <1>2, PTL DEF DtlsSpec

(* For any number of peers and slots, and however handshakes fail, time    *)
(* out and evict one another, findSession() has one session to find.       *)
THEOREM OneSession == DtlsSpec => []OneSessionPerPeer
<1>1. DtlsInv => OneSessionPerPeer
  BY DEF DtlsInv, Sound, Unique, OneSessionPerPeer
<1> QED BY <1>1, Invariance, PTL

(* For any number of peers, slots and datagrams: bufferTx(), flushTx() and *)
(* sslWrite() send a datagram to the peer it was given for, at most once,  *)
(* and send() returns true only for a datagram that has gone out.          *)
THEOREM OwnSession == DtlsSpec => []OwnSessionOnce
<1>1. DtlsInv => OwnSessionOnce
  BY DEF DtlsInv, Sound, Once, OwnSessionOnce
<1> QED BY <1>1, Invariance, PTL

(* The session table is well-formed throughout: a slot is idle exactly     *)
(* when it has no peer, and datagrams wait only in a session whose         *)
(* handshake goes on or has failed (txPending, reset by flushTx()).        *)
THEOREM DtlsTypeCorrect == DtlsSpec => []DtlsTypeOK
<1>1. DtlsInv => DtlsTypeOK
  <2> SUFFICES ASSUME DtlsInv PROVE DtlsTypeOK
    OBVIOUS
  <2>1. /\ isServer \in BOOLEAN /\ sessions \in [SessionSlots -> Session]
        /\ sends \in Seq(Entry)
        /\ \A i \in SessionSlots : \A n \in sessions[i].tx : n \in DOMAIN sends
    BY DEF DtlsInv, Sound, MayWait
  <2>2. DOMAIN sends = 1 .. Len(sends)
    BY <2>1
  <2> DEFINE Row == [state : {"idle", "handshaking", "established", "failed"},
                     peer : Peers \cup {Nobody}, tx : SUBSET (1 .. Len(sends)),
                     heard : BOOLEAN, age : Nat, turn : {0, 1}, waited : Nat]
  <2>3. \A i \in SessionSlots :
          /\ sessions[i] \in Row
          /\ sessions[i].state = "idle" <=> sessions[i].peer = Nobody
          /\ sessions[i].state \in {"idle", "established"} => sessions[i].tx = {}
    <3> SUFFICES ASSUME NEW i \in SessionSlots
                 PROVE  /\ sessions[i] \in Row
                        /\ sessions[i].state = "idle" <=> sessions[i].peer = Nobody
                        /\ sessions[i].state \in {"idle", "established"} => sessions[i].tx = {}
      OBVIOUS
    <3>1. sessions[i] \in Session /\ sessions[i].tx \subseteq 1 .. Len(sends)
      BY <2>1, <2>2
    <3> QED BY <3>1 DEF Session
  <2>4. sessions \in [SessionSlots -> Row]
    <3> HIDE DEF Row
    <3> QED BY <2>1, <2>3
  <2> QED BY <2>1, <2>3, <2>4 DEF DtlsTypeOK, Entry
<1> QED BY <1>1, Invariance, PTL

(* allocSession() never takes the slot of a handshake under way. *)
LEMMA ClaimedIsFree ==
    ASSUME NEW table, Claimable(table) # {}
    PROVE  /\ Min(Claimable(table)) \in SessionSlots
           /\ table[Min(Claimable(table))].state # "handshaking"
<1>1. Claimable(table) \subseteq {i \in SessionSlots : table[i].state # "handshaking"}
  BY DEF Claimable, SessionsIn
<1>2. Min(Claimable(table)) \in Claimable(table)
  BY <1>1, MinInSet
<1> QED BY <1>1, <1>2

(* Slot i goes on with the handshake it has, if it has one. *)
GoesOn(table, new, i) ==
    table[i].state = "handshaking" => new[i].state # "idle" /\ new[i].turn = table[i].turn

LEMMA DriveGoesOn ==
    ASSUME NEW s \in Session, s.state = "handshaking", NEW outcome \in {"want", "fail", "done"}
    PROVE  Flushed(Drive(s, outcome)).state # "idle" /\ Flushed(Drive(s, outcome)).turn = s.turn
BY DEF Drive, Flushed, ToFlush, Session

(* send() evicts no handshake, and resets none. *)
LEMMA SendGoesOn ==
    ASSUME DtlsInv, NEW peer \in Peers, DtlsSend(peer), NEW i \in SessionSlots
    PROVE  GoesOn(sessions, sessions', i)
<1>1. sessions \in [SessionSlots -> Session]
  BY DEF DtlsInv, Sound
<1>2. ASSUME NEW j \in SessionSlots, NEW s, sessions' = [sessions EXCEPT ![j] = s],
             sessions[j].state # "handshaking"
      PROVE  GoesOn(sessions, sessions', i)
  <2>1. i # j => sessions'[i] = sessions[i]
    BY <1>1, <1>2
  <2> QED BY <1>2, <2>1 DEF GoesOn
<1>3. CASE sessions' = sessions
  BY <1>3 DEF GoesOn
<1>4. CASE SendFirst(peer)
  <2>1. CASE Claimable(sessions) = {}
    BY <1>3, <1>4, <2>1 DEF SendFirst
  <2>2. CASE Claimable(sessions) # {}
    <3>1. \E s : sessions' = [sessions EXCEPT ![Min(Claimable(sessions))] = s]
      BY <1>4, <2>2 DEF SendFirst
    <3> QED BY <1>2, <2>2, <3>1, ClaimedIsFree
  <2> QED BY <2>1, <2>2
<1>5. ASSUME NEW j \in SessionSlots, SendHandshaking(j)
      PROVE  GoesOn(sessions, sessions', i)
  <2> DEFINE s == Buffer(sessions[j], Len(sends) + 1)
  <2>1. sessions[j] \in Session /\ sessions[j].state = "handshaking" /\ sends \in Seq(Entry)
    BY <1>1, <1>5 DEF SendHandshaking, DtlsInv, Sound
  <2>2. s \in Session /\ s.state = "handshaking" /\ s.turn = sessions[j].turn
    BY <2>1 DEF Buffer, Session
  <2>3. PICK outcome \in {"want", "fail", "done"} :
          sessions' = [sessions EXCEPT ![j] = Flushed(Drive(s, outcome))]
    BY <1>5 DEF SendHandshaking, Outcomes
  <2> HIDE DEF s
  <2> DEFINE t == Flushed(Drive(s, outcome))
  <2>4. t.state # "idle" /\ t.turn = s.turn
    BY <2>2, DriveGoesOn
  <2>5. sessions' = [sessions EXCEPT ![j] = t]
    BY <2>3
  <2> HIDE DEF t
  <2>6. sessions'[i] = IF i = j THEN t ELSE sessions[i]
    BY <1>1, <2>5
  <2> QED BY <2>2, <2>4, <2>6 DEF GoesOn
<1>6. ASSUME NEW j \in SessionSlots, SendFailed(j)
      PROVE  GoesOn(sessions, sessions', i)
  BY <1>2, <1>6 DEF SendFailed
<1> QED BY <1>3, <1>4, <1>5, <1>6 DEF DtlsSend, FindSession, SendEstablished

(* A record disturbs no handshake but goes on with one. *)
LEMMA HearGoesOn ==
    ASSUME NEW table \in [SessionSlots -> Session], NEW j \in SessionSlots, NEW s \in Session,
           table[j].state # "handshaking" \/ table[j] = s, Hear(table, j, s),
           NEW i \in SessionSlots
    PROVE  GoesOn(table, sessions', i)
<1>1. CASE s.state # "handshaking"
  BY <1>1 DEF Hear, GoesOn
<1>2. CASE s.state = "handshaking"
  <2> DEFINE h == [s EXCEPT !.heard = TRUE]
  <2>1. PICK outcome \in {"want", "fail", "done"} :
          sessions' = [table EXCEPT ![j] = Flushed(Drive(h, outcome))]
    BY <1>2 DEF Hear
  <2>2. h \in Session /\ h.state = "handshaking" /\ h.turn = s.turn
    BY <1>2 DEF Session
  <2> HIDE DEF h
  <2> DEFINE t == Flushed(Drive(h, outcome))
  <2>3. t.state # "idle" /\ t.turn = h.turn
    BY <2>2, DriveGoesOn
  <2>4. sessions' = [table EXCEPT ![j] = t]
    BY <2>1
  <2> HIDE DEF t
  <2>5. sessions'[i] = IF i = j THEN t ELSE table[i]
    BY <2>4
  <2> QED BY <2>2, <2>3, <2>5 DEF GoesOn
<1> QED BY <1>1, <1>2

(* However short of slots the table is, allocSession() and resetSession()  *)
(* leave a handshake under way alone: only its own timeout ends it early.  *)
THEOREM NotDisturbed == DtlsSpec => HandshakeUndisturbed
<1> DEFINE Disturbed(i) == /\ sessions[i].state = "handshaking"
                           /\ sessions'[i].state = "idle" \/ sessions'[i].turn # sessions[i].turn
<1>1. ASSUME DtlsInv, [DtlsNext]_dtlsVars, NEW i \in SessionSlots, Disturbed(i)
      PROVE  i \in TooOld(sessions) /\ DtlsReceive
  <2>1. ~GoesOn(sessions, sessions', i)
    BY <1>1 DEF GoesOn
  <2>2. DtlsReceive
    <3>1. CASE TimePasses
      <4>1. sessions[i] \in Session
        BY <1>1 DEF DtlsInv, Sound
      <4>2. sessions'[i].state = sessions[i].state /\ sessions'[i].turn = sessions[i].turn
        BY <3>1, <4>1 DEF TimePasses, Session
      <4> QED BY <2>1, <4>2 DEF GoesOn
    <3> QED BY <1>1, <2>1, <3>1, SendGoesOn DEF DtlsNext, dtlsVars, GoesOn
  <2>3. ASSUME i \notin TooOld(sessions)
        PROVE  FALSE
    <3> DEFINE table == TickTimeouts(sessions)
    <3>1. Sound(table, sends)
      BY <1>1, TickSound DEF DtlsInv
    <3>2. table \in [SessionSlots -> Session] /\ table[i] = sessions[i]
      BY <2>3, <3>1 DEF Sound, TickTimeouts
    <3> HIDE DEF table
    <3>3. CASE sessions' = table
      BY <2>1, <3>2, <3>3 DEF GoesOn
    <3>4. ASSUME NEW peer \in Peers, ReceiveFrom(peer)
          PROVE  GoesOn(table, sessions', i)
      <4>1. CASE FindSession(table, peer) # {}
        <5> DEFINE j == Min(FindSession(table, peer))
        <5>1. j \in SessionSlots
          BY <4>1, MinInSet DEF FindSession
        <5>2. Hear(table, j, table[j])
          BY <3>4, <4>1 DEF ReceiveFrom, table
        <5> QED BY <3>2, <5>1, <5>2, HearGoesOn
      <4>2. CASE FindSession(table, peer) = {}
        <5> DEFINE j == Min(Claimable(table))
        <5>1. HearNew(table, peer)
          BY <3>4, <4>2 DEF ReceiveFrom, table
        <5>2. CASE ~isServer \/ Claimable(table) = {}
          BY <5>1, <5>2 DEF HearNew, GoesOn
        <5>3. CASE isServer /\ Claimable(table) # {}
          <6>1. j \in SessionSlots /\ table[j].state # "handshaking"
            BY <5>3, ClaimedIsFree
          <6>2. \/ Hear(table, j, Open(table[j], peer))
                \/ sessions' = [table EXCEPT ![j] = ResetSession(table[j])]
            BY <5>1, <5>3 DEF HearNew
          <6> HIDE DEF j
          <6>3. Open(table[j], peer) \in Session
            BY <3>2, <6>1, OpenTyped
          <6>4. CASE Hear(table, j, Open(table[j], peer))
            BY <3>2, <6>1, <6>3, <6>4, HearGoesOn
          <6>5. CASE sessions' = [table EXCEPT ![j] = ResetSession(table[j])]
            <7>1. i # j => sessions'[i] = table[i]
              BY <3>2, <6>5
            <7> QED BY <6>1, <7>1 DEF GoesOn
          <6> QED BY <6>2, <6>4, <6>5
        <5> QED BY <5>2, <5>3
      <4> QED BY <4>1, <4>2
    <3>5. \/ sessions' = table
          \/ \E peer \in Peers : ReceiveFrom(peer)
      BY <2>2 DEF DtlsReceive, ReceiveNothing, table
    <3> QED BY <2>1, <3>2, <3>3, <3>4, <3>5 DEF GoesOn
  <2> QED BY <2>2, <2>3
<1>2. DtlsInv /\ [DtlsNext]_dtlsVars
        => [\A i \in SessionSlots : Disturbed(i) => i \in TooOld(sessions) /\ DtlsReceive]_dtlsVars
  BY <1>1
<1> QED BY <1>2, Invariance, PTL DEF DtlsSpec, HandshakeUndisturbed

(* From log to new, a datagram goes out only if no later one is for the    *)
(* same peer.                                                              *)
OnlyLatestGo(log, new) ==
    \A n \in DOMAIN log :
       new[n].on # log[n].on => \A k \in DOMAIN new : k > n => new[k].to # log[n].to

(* What flushTx() releases has not been overtaken. *)
LEMMA WrittenAreLatest ==
    ASSUME NEW log, NEW s, NEW ns, NEW peer, NEW ok \in BOOLEAN,
           \A n \in ns : MayWait(n, s, log)
    PROVE  OnlyLatestGo(log, Written(log, ns, peer, ok))
<1> DEFINE new == Written(log, ns, peer, ok)
<1>1. DOMAIN new = DOMAIN log /\ \A n \in DOMAIN log : new[n].to = log[n].to
  BY DEF Written
<1>2. \A n \in DOMAIN log : n \notin ns => new[n] = log[n]
  BY DEF Written
<1> QED BY <1>1, <1>2 DEF OnlyLatestGo, MayWait, IsLatest

(* A call of send() releases its own datagram only, the latest of all. *)
LEMMA SendIsLatest ==
    ASSUME DtlsInv, NEW peer \in Peers, DtlsSend(peer)
    PROVE  OnlyLatestGo(sends, sends')
<1> DEFINE k == Len(sends) + 1
<1>1. sends \in Seq(Entry) /\ Len(sends) \in Nat
  BY DEF DtlsInv, Sound
<1>2. ASSUME NEW to, NEW r
      PROVE  /\ DOMAIN sends \subseteq DOMAIN Called(to, r) /\ k \notin DOMAIN sends
             /\ \A n \in DOMAIN sends : Called(to, r)[n] = sends[n]
  BY <1>1 DEF Called
<1>3. ASSUME NEW to, NEW r, NEW ns \in SUBSET {k}, NEW ok,
             sends' = Written(Called(to, r), ns, to, ok)
      PROVE  OnlyLatestGo(sends, sends')
  <2>1. \A n \in DOMAIN sends : sends'[n] = sends[n]
    BY <1>2, <1>3 DEF Written
  <2> QED BY <2>1 DEF OnlyLatestGo
<1>4. ASSUME NEW to, NEW r, sends' = Called(to, r)
      PROVE  OnlyLatestGo(sends, sends')
  BY <1>2, <1>4 DEF OnlyLatestGo
<1>5. ASSUME NEW i \in SessionSlots, SendHandshaking(i)
      PROVE  OnlyLatestGo(sends, sends')
  <2> DEFINE t(outcome) == Drive(Buffer(sessions[i], k), outcome)
  <2>1. PICK outcome \in Outcomes(sessions[i]), ok \in BOOLEAN :
          sends' = Written(Called(t(outcome).peer, ok /\ ToFlush(t(outcome)) # {}),
                           ToFlush(t(outcome)), t(outcome).peer, ok)
    BY <1>5 DEF SendHandshaking
  <2>2. sessions[i] \in Session
    BY DEF DtlsInv, Sound
  <2>3. t(outcome).tx = {k}
    BY <2>2 DEF Buffer, Drive, Outcomes, Session
  <2> HIDE DEF t
  <2>4. ToFlush(t(outcome)) \in SUBSET {k}
    BY <2>3 DEF ToFlush
  <2> QED BY <1>3, <2>1, <2>4
<1>6. ASSUME NEW i \in SessionSlots, SendEstablished(i)
      PROVE  OnlyLatestGo(sends, sends')
  BY <1>3, <1>6 DEF SendEstablished
<1> QED BY <1>4, <1>5, <1>6 DEF DtlsSend, SendFirst, SendFailed, FindSession

(* The end of a handshake releases what its session has kept. *)
LEMMA HearIsLatest ==
    ASSUME NEW table, NEW i, NEW s \in Session, Hear(table, i, s),
           \A n \in s.tx : MayWait(n, s, sends)
    PROVE  OnlyLatestGo(sends, sends')
<1>1. CASE s.state # "handshaking"
  BY <1>1 DEF Hear, OnlyLatestGo
<1>2. CASE s.state = "handshaking"
  <2> DEFINE t(outcome) == Drive([s EXCEPT !.heard = TRUE], outcome)
  <2>1. PICK outcome \in {"want", "fail", "done"}, ok \in BOOLEAN :
          sends' = Written(sends, ToFlush(t(outcome)), t(outcome).peer, ok)
    BY <1>2 DEF Hear
  <2>2. t(outcome).tx = s.tx
    BY DEF Drive, Session
  <2> HIDE DEF t
  <2>3. \A n \in ToFlush(t(outcome)) : MayWait(n, s, sends)
    BY <2>2 DEF ToFlush
  <2> QED BY <2>1, <2>3, WrittenAreLatest
<1> QED BY <1>1, <1>2

(* The same of a call of receive(). *)
LEMMA ReceiveIsLatest ==
    ASSUME DtlsInv, DtlsReceive
    PROVE  OnlyLatestGo(sends, sends')
<1> DEFINE table == TickTimeouts(sessions)
<1>1. /\ table \in [SessionSlots -> Session]
      /\ \A i \in SessionSlots : \A n \in table[i].tx : MayWait(n, table[i], sends)
  BY TickSound DEF DtlsInv, Sound
<1>2. CASE sends' = sends
  BY <1>2 DEF OnlyLatestGo
<1>3. ASSUME NEW peer \in Peers, ReceiveFrom(peer), sends' # sends
      PROVE  \E i \in SessionSlots :
                Hear(table, i, table[i]) \/ Hear(table, i, Open(table[i], peer))
  <2>1. CASE FindSession(table, peer) # {}
    <3>1. Min(FindSession(table, peer)) \in SessionSlots
      BY <2>1, MinInSet DEF FindSession
    <3> QED BY <1>3, <2>1, <3>1 DEF ReceiveFrom
  <2>2. CASE FindSession(table, peer) = {}
    <3>1. HearNew(table, peer)
      BY <1>3, <2>2 DEF ReceiveFrom
    <3> HIDE DEF table
    <3>2. isServer /\ Claimable(table) # {}
      BY <1>3, <3>1 DEF HearNew
    <3> QED BY <1>3, <3>1, <3>2, ClaimedIsFree DEF HearNew
  <2> QED BY <2>1, <2>2
<1>4. ASSUME NEW peer \in Peers, NEW i \in SessionSlots, Hear(table, i, Open(table[i], peer))
      PROVE  OnlyLatestGo(sends, sends')
  <2> DEFINE s == Open(table[i], peer)
  <2>1. s \in Session
    BY <1>1, OpenTyped
  <2>2. s.tx = {} /\ Hear(table, i, s)
    BY <1>4 DEF Open, Unused
  <2> HIDE DEF s, table
  <2> QED BY <2>1, <2>2, HearIsLatest
<1>5. ASSUME NEW i \in SessionSlots, Hear(table, i, table[i])
      PROVE  OnlyLatestGo(sends, sends')
  <2> HIDE DEF table
  <2> QED BY <1>1, <1>5, HearIsLatest
<1> HIDE DEF table
<1> QED BY <1>2, <1>3, <1>4, <1>5 DEF DtlsReceive, ReceiveNothing

(* "Keep the most-recent packet buffered": a datagram never goes out after *)
(* a later one has been given to send() for the same peer.                 *)
THEOREM LatestOnly == DtlsSpec => LatestGoesOut
<1> DEFINE Right == \A n \in DOMAIN sends :
                       sends'[n].on # sends[n].on
                         => \A k \in n + 1 .. Len(sends') : sends'[k].to # sends[n].to
<1>1. ASSUME DtlsInv, DtlsInv', [DtlsNext]_dtlsVars
      PROVE  Right
  <2>1. OnlyLatestGo(sends, sends')
    <3>1. CASE sends' = sends
      BY <3>1 DEF OnlyLatestGo
    <3> QED BY <1>1, <3>1, SendIsLatest, ReceiveIsLatest DEF DtlsNext, dtlsVars, TimePasses
  <2>2. sends \in Seq(Entry) /\ sends' \in Seq(Entry)
    BY <1>1 DEF DtlsInv, Sound
  <2>3. DOMAIN sends' = 1 .. Len(sends') /\ DOMAIN sends \subseteq Nat \ {0}
    BY <2>2
  <2>4. \A n \in DOMAIN sends : \A k \in n + 1 .. Len(sends') : k \in DOMAIN sends' /\ k > n
    BY <2>2, <2>3
  <2> QED BY <2>1, <2>4 DEF OnlyLatestGo
<1>2. DtlsInv /\ DtlsInv' /\ [DtlsNext]_dtlsVars => [Right]_dtlsVars
  BY <1>1
<1> QED BY <1>2, Invariance, PTL DEF DtlsSpec, LatestGoesOut

(* The handshake of session s, if one is under way, has lasted as long as  *)
(* its clock says, and no longer than limit.                               *)
AgeKept(s, limit) == s.state = "handshaking" => s.waited = s.age /\ s.age =< limit

(* Handshakes that get older than the timeout wait for the next receive(). *)
AgeLimit == IF polled THEN HandshakeTimeout ELSE HandshakeTimeout + 1

AgesKept ==
    /\ polled \in BOOLEAN
    /\ \A i \in SessionSlots : AgeKept(sessions[i], AgeLimit)

LEMMA LimitIsNat == AgesKept => AgeLimit \in Nat
BY DtlsAssumption DEF AgesKept, AgeLimit

(* Neither a datagram nor a record starts the clock of a handshake again. *)
LEMMA OperationsKeepAge ==
    ASSUME NEW s \in Session, NEW limit \in Nat, AgeKept(s, limit), NEW n \in Nat,
           NEW outcome \in {"want", "fail", "done"}
    PROVE  /\ AgeKept(Drive(Buffer(s, n), outcome), limit)
           /\ AgeKept(Flushed(Drive(Buffer(s, n), outcome)), limit)
           /\ AgeKept(Flushed(Drive([s EXCEPT !.heard = TRUE], outcome)), limit)
BY DEF AgeKept, Drive, Flushed, ToFlush, Buffer, Session

(* A slot that is opened holds a new handshake, one that is reset none. *)
LEMMA NewAges ==
    ASSUME NEW s, NEW peer, NEW limit \in Nat
    PROVE  AgeKept(Open(s, peer), limit) /\ AgeKept(ResetSession(s), limit)
BY DEF AgeKept, Open, ResetSession, Unused

(* One slot changes. *)
LEMMA PutKeepsAges ==
    ASSUME NEW table \in [SessionSlots -> Session], NEW i \in SessionSlots, NEW s, NEW limit,
           \A j \in SessionSlots : AgeKept(table[j], limit), AgeKept(s, limit),
           sessions' = [table EXCEPT ![i] = s]
    PROVE  \A j \in SessionSlots : AgeKept(sessions'[j], limit)
<1>1. \A j \in SessionSlots : sessions'[j] = IF j = i THEN s ELSE table[j]
  OBVIOUS
<1> QED BY <1>1

LEMMA SendKeepsAges ==
    ASSUME DtlsInv, AgesKept, NEW peer \in Peers, DtlsSend(peer)
    PROVE  AgesKept'
<1> DEFINE k == Len(sends) + 1
<1>1. /\ sessions \in [SessionSlots -> Session] /\ k \in Nat /\ AgeLimit \in Nat
      /\ \A j \in SessionSlots : AgeKept(sessions[j], AgeLimit)
  BY LimitIsNat DEF DtlsInv, Sound, AgesKept
<1>2. polled' = polled /\ AgeLimit' = AgeLimit /\ polled' \in BOOLEAN
  BY DEF DtlsSend, AgeLimit, AgesKept
<1> HIDE DEF k
<1>3. ASSUME sessions' = sessions
      PROVE  AgesKept'
  BY <1>1, <1>2, <1>3 DEF AgesKept
<1>4. ASSUME NEW i \in SessionSlots, NEW s, AgeKept(s, AgeLimit),
             sessions' = [sessions EXCEPT ![i] = s]
      PROVE  AgesKept'
  BY <1>1, <1>2, <1>4, PutKeepsAges DEF AgesKept
<1>5. CASE SendFirst(peer)
  <2> DEFINE i == Min(Claimable(sessions))
             o == Open(sessions[i], peer)
  <2>1. CASE Claimable(sessions) = {}
    BY <1>3, <1>5, <2>1 DEF SendFirst
  <2>2. CASE Claimable(sessions) # {}
    <3>1. i \in SessionSlots
      BY <2>2, ClaimedIsFree
    <3>2. \/ \E outcome \in {"want", "fail", "done"} :
               sessions' = [sessions EXCEPT ![i] = Drive(Buffer(o, k), outcome)]
          \/ sessions' = [sessions EXCEPT ![i] = ResetSession(sessions[i])]
      BY <1>5, <2>2 DEF SendFirst, Outcomes, k
    <3>3. o \in Session /\ AgeKept(o, AgeLimit)
      BY <1>1, <3>1, OpenTyped, NewAges
    <3> HIDE DEF i, o
    <3>4. ASSUME NEW outcome \in {"want", "fail", "done"}
          PROVE  AgeKept(Drive(Buffer(o, k), outcome), AgeLimit)
      BY <1>1, <3>3, OperationsKeepAge
    <3> QED BY <1>1, <1>4, <3>1, <3>2, <3>4, NewAges
  <2> QED BY <2>1, <2>2
<1>6. ASSUME NEW i \in SessionSlots, SendHandshaking(i)
      PROVE  AgesKept'
  <2>1. PICK outcome \in {"want", "fail", "done"} :
          sessions' = [sessions EXCEPT ![i] = Flushed(Drive(Buffer(sessions[i], k), outcome))]
    BY <1>6 DEF SendHandshaking, Outcomes, k
  <2>2. AgeKept(Flushed(Drive(Buffer(sessions[i], k), outcome)), AgeLimit)
    BY <1>1, OperationsKeepAge
  <2> QED BY <1>4, <2>1, <2>2
<1>7. ASSUME NEW i \in SessionSlots, SendFailed(i)
      PROVE  AgesKept'
  BY <1>1, <1>4, <1>7, NewAges DEF SendFailed
<1> QED BY <1>3, <1>5, <1>6, <1>7 DEF DtlsSend, FindSession, SendEstablished

LEMMA HearKeepsAges ==
    ASSUME NEW table \in [SessionSlots -> Session], NEW i \in SessionSlots, NEW s \in Session,
           NEW limit \in Nat, \A j \in SessionSlots : AgeKept(table[j], limit),
           AgeKept(s, limit), Hear(table, i, s)
    PROVE  \A j \in SessionSlots : AgeKept(sessions'[j], limit)
<1>1. CASE s.state # "handshaking"
  BY <1>1 DEF Hear
<1>2. CASE s.state = "handshaking"
  <2>1. PICK outcome \in {"want", "fail", "done"} :
          sessions' = [table EXCEPT ![i] = Flushed(Drive([s EXCEPT !.heard = TRUE], outcome))]
    BY <1>2 DEF Hear
  <2>2. AgeKept(Flushed(Drive([s EXCEPT !.heard = TRUE], outcome)), limit)
    BY OperationsKeepAge
  <2> QED BY <2>1, <2>2, PutKeepsAges
<1> QED BY <1>1, <1>2

(* receive() first resets every handshake that has become too old. *)
LEMMA ReceiveKeepsAges ==
    ASSUME DtlsInv, AgesKept, DtlsReceive
    PROVE  AgesKept'
<1> DEFINE table == TickTimeouts(sessions)
           T == HandshakeTimeout
<1>1. table \in [SessionSlots -> Session]
  BY TickSound DEF DtlsInv, Sound
<1>2. T \in Nat
  BY DtlsAssumption
<1>3. ASSUME NEW i \in SessionSlots
      PROVE  AgeKept(table[i], T)
  <2>1. CASE i \in TooOld(sessions)
    BY <1>2, <2>1, NewAges DEF TickTimeouts
  <2>2. CASE i \notin TooOld(sessions)
    <3>1. table[i] = sessions[i] /\ sessions[i] \in Session
      BY <2>2 DEF TickTimeouts, DtlsInv, Sound
    <3>2. sessions[i].state = "handshaking" => ~(sessions[i].age > T)
      BY <2>2 DEF TooOld, SessionsIn
    <3> QED BY <1>2, <3>1, <3>2 DEF AgeKept, AgesKept, Session
  <2> QED BY <2>1, <2>2
<1>4. polled' = TRUE /\ AgeLimit' = T
  BY <1>2 DEF DtlsReceive, AgeLimit
<1> HIDE DEF table, T
<1>5. ASSUME \A i \in SessionSlots : AgeKept(sessions'[i], T)
      PROVE  AgesKept'
  BY <1>4, <1>5 DEF AgesKept
<1>6. CASE sessions' = table
  BY <1>3, <1>5, <1>6
<1>7. ASSUME NEW peer \in Peers, ReceiveFrom(peer)
      PROVE  AgesKept'
  <2>1. CASE FindSession(table, peer) # {}
    <3> DEFINE j == Min(FindSession(table, peer))
    <3>1. j \in SessionSlots
      BY <2>1, MinInSet DEF FindSession
    <3>2. Hear(table, j, table[j])
      BY <1>7, <2>1 DEF ReceiveFrom, table
    <3> HIDE DEF j
    <3> QED BY <1>1, <1>2, <1>3, <1>5, <3>1, <3>2, HearKeepsAges
  <2>2. CASE FindSession(table, peer) = {}
    <3> DEFINE j == Min(Claimable(table))
    <3>1. HearNew(table, peer)
      BY <1>7, <2>2 DEF ReceiveFrom, table
    <3>2. CASE ~isServer \/ Claimable(table) = {}
      BY <1>6, <3>1, <3>2 DEF HearNew
    <3>3. CASE isServer /\ Claimable(table) # {}
      <4>1. j \in SessionSlots
        BY <3>3, ClaimedIsFree
      <4>2. \/ Hear(table, j, Open(table[j], peer))
            \/ sessions' = [table EXCEPT ![j] = ResetSession(table[j])]
        BY <3>1, <3>3 DEF HearNew
      <4> HIDE DEF j
      <4>3. Open(table[j], peer) \in Session
        BY <1>1, <4>1, OpenTyped
      <4>4. AgeKept(Open(table[j], peer), T) /\ AgeKept(ResetSession(table[j]), T)
        BY <1>2, NewAges
      <4>5. CASE Hear(table, j, Open(table[j], peer))
        BY <1>1, <1>2, <1>3, <1>5, <4>1, <4>3, <4>4, <4>5, HearKeepsAges
      <4>6. CASE sessions' = [table EXCEPT ![j] = ResetSession(table[j])]
        BY <1>1, <1>3, <1>5, <4>1, <4>4, <4>6, PutKeepsAges
      <4> QED BY <4>2, <4>5, <4>6
    <3> QED BY <3>2, <3>3
  <2> QED BY <2>1, <2>2
<1> QED BY <1>6, <1>7 DEF DtlsReceive, ReceiveNothing, table

LEMMA TimeKeepsAges ==
    ASSUME DtlsInv, AgesKept, TimePasses
    PROVE  AgesKept'
<1>1. polled' = FALSE /\ AgeLimit = HandshakeTimeout /\ AgeLimit' = HandshakeTimeout + 1
  <2>1. polled /\ ~polled' /\ polled' = FALSE
    BY DEF TimePasses
  <2> QED BY <2>1 DEF AgeLimit
<1>2. ASSUME NEW i \in SessionSlots
      PROVE  AgeKept(sessions'[i], HandshakeTimeout + 1)
  <2>1. sessions[i] \in Session /\ AgeKept(sessions[i], HandshakeTimeout)
    BY <1>1 DEF DtlsInv, Sound, AgesKept
  <2>2. sessions'[i] = IF sessions[i].state = "handshaking"
                       THEN [sessions[i] EXCEPT !.age = @ + 1, !.waited = @ + 1]
                       ELSE sessions[i]
    BY DEF TimePasses
  <2> QED BY <2>1, <2>2, DtlsAssumption DEF AgeKept, Session
<1> QED BY <1>1, <1>2 DEF AgesKept

(* Whatever is sent to its peer and heard from it, a handshake lasts no    *)
(* longer than HANDSHAKE_TIMEOUT_MS and the time to the next receive(),    *)
(* for any timeout and any number of peers, slots and datagrams.           *)
THEOREM HandshakesBounded == DtlsSpec => []HandshakeBounded
<1>1. DtlsInit => AgesKept
  <2> SUFFICES ASSUME DtlsInit PROVE AgesKept
    OBVIOUS
  <2>1. \A i \in SessionSlots : sessions[i].state = "idle"
    BY DEF DtlsInit, Unused
  <2>2. polled \in BOOLEAN
    BY DEF DtlsInit
  <2> QED BY <2>1, <2>2 DEF AgesKept, AgeKept
<1>2. DtlsInv /\ AgesKept /\ [DtlsNext]_dtlsVars => AgesKept'
  <2> SUFFICES ASSUME DtlsInv, AgesKept, [DtlsNext]_dtlsVars PROVE AgesKept'
    OBVIOUS
  <2>1. CASE UNCHANGED dtlsVars
    BY <2>1 DEF dtlsVars, AgesKept, AgeLimit
  <2> QED BY <2>1, SendKeepsAges, ReceiveKeepsAges, TimeKeepsAges DEF DtlsNext
<1>3. DtlsInv /\ AgesKept => HandshakeBounded
  <2> SUFFICES ASSUME DtlsInv, AgesKept, NEW i \in SessionSlots,
                      sessions[i].state = "handshaking"
               PROVE  sessions[i].waited <= HandshakeTimeout + 1
    BY DEF HandshakeBounded
  <2>1. sessions[i] \in Session /\ AgeKept(sessions[i], AgeLimit)
    BY DEF DtlsInv, Sound, AgesKept
  <2>2. AgeLimit \in {HandshakeTimeout, HandshakeTimeout + 1}
    BY DtlsAssumption DEF AgeLimit
  <2> QED BY <2>1, <2>2, DtlsAssumption DEF AgeKept, Session
<1> QED BY <1>1, <1>2, <1>3, Invariance, PTL DEF DtlsSpec

-----------------------------------------------------------------------------
(* The ring of LwipRing.  First, arithmetic modulo b. *)

LEMMA QuotientAndRest ==
    ASSUME NEW a \in Int, NEW b \in Int, b > 0
    PROVE  a \div b \in Int /\ a % b \in 0 .. b - 1 /\ a = b * (a \div b) + (a % b)
<1>1. a \div b \in Int
  OBVIOUS
<1>2. a % b \in 0 .. b - 1
  OBVIOUS
<1>3. a = b * (a \div b) + (a % b)
  OBVIOUS
<1> QED BY <1>1, <1>2, <1>3

LEMMA RestOf ==
    ASSUME NEW b \in Int, b > 0, NEW q \in Int, NEW r \in 0 .. b - 1
    PROVE  (b * q + r) % b = r
OBVIOUS

(* What is two words long at most wraps around once. *)
LEMMA RestOfSmall ==
    ASSUME NEW b \in Int, b > 0
    PROVE  /\ \A a \in 0 .. b - 1 : a % b = a
           /\ \A a \in b .. b + b - 1 : a % b = a - b
           /\ \A a \in -b .. -1 : a % b = a + b
<1>1. ASSUME NEW a \in 0 .. b - 1 PROVE a % b = a
  OBVIOUS
<1>2. ASSUME NEW a \in b .. b + b - 1 PROVE a % b = a - b
  OBVIOUS
<1>3. ASSUME NEW a \in -b .. -1 PROVE a % b = a + b
  OBVIOUS
<1> QED BY <1>1, <1>2, <1>3

LEMMA RestPeriodic ==
    ASSUME NEW b \in Int, b > 0, NEW x \in Int, NEW q \in Int
    PROVE  (x + b * q) % b = x % b
<1> DEFINE d == x \div b
           r == x % b
<1>1. d \in Int /\ r \in 0 .. b - 1 /\ x = b * d + r
  BY QuotientAndRest
<1> HIDE DEF d, r
<1>2. x + b * q = b * (d + q) + r
  BY <1>1
<1>3. (b * (d + q) + r) % b = r
  BY <1>1, RestOf
<1> QED BY <1>2, <1>3 DEF r

LEMMA RestsDiffer ==
    ASSUME NEW b \in Int, b > 0, NEW x \in Int, NEW y \in Int, x < y, y - x < b
    PROVE  x % b # y % b
<1> SUFFICES ASSUME x % b = y % b PROVE FALSE
  OBVIOUS
<1> DEFINE d == x \div b
           e == y \div b
           r == x % b
<1>1. d \in Int /\ e \in Int /\ r \in Int /\ x = b * d + r /\ y = b * e + r
  BY QuotientAndRest
<1> HIDE DEF d, e, r
<1>2. y - x = b * (e - d)
  BY <1>1
<1>3. e - d \in Int
  BY <1>1
<1> QED BY <1>2, <1>3

-----------------------------------------------------------------------------
(* The counters, and the slots they index. *)

Counters == 0 .. CounterMod - 1

(* The place in slots_ of the datagram that is k places behind the oldest. *)
Place(h, k) == ((h + k) % CounterMod) % Slots

(* Since the size of the ring divides the number of counter values, the    *)
(* place is that of the sum itself: an overflow is not noticed.            *)
LEMMA OverflowUnnoticed ==
    ASSUME NEW x \in 0 .. CounterMod + CounterMod - 1
    PROVE  (x % CounterMod) % Slots = x % Slots
<1>1. Slots \in Int /\ Slots > 0 /\ CounterMod \in Int /\ CounterMod > 0 /\ x \in Int
  BY RingAssumption
<1>2. CASE x < CounterMod
  BY <1>1, <1>2, RestOfSmall
<1>3. CASE x >= CounterMod
  <2> DEFINE q == CounterMod \div Slots
  <2>1. q \in Int /\ CounterMod = Slots * q
    BY <1>1, QuotientAndRest, SizeAssumption
  <2> HIDE DEF q
  <2>2. x % CounterMod = x - CounterMod
    BY <1>1, <1>3, RestOfSmall
  <2>3. x - CounterMod \in Int /\ x = (x - CounterMod) + Slots * q
    BY <1>1, <2>1
  <2>4. ((x - CounterMod) + Slots * q) % Slots = (x - CounterMod) % Slots
    BY <1>1, <2>1, <2>3, RestPeriodic
  <2> QED BY <2>2, <2>3, <2>4
<1> QED BY <1>1, <1>2, <1>3

(* The next datagram goes to the place behind the youngest; that place is  *)
(* none of those in use while fewer than Slots are.                        *)
LEMMA Places ==
    ASSUME NEW h \in Counters, NEW n \in 0 .. Slots
    PROVE  /\ \A k \in 0 .. n : Place(h, k) = (h + k) % Slots /\ Place(h, k) \in 0 .. Slots - 1
           /\ n < Slots => \A k \in 0 .. n - 1 : Place(h, k) # Place(h, n)
<1>1. /\ Slots \in Int /\ Slots > 0 /\ CounterMod \in Int /\ CounterMod > Slots
      /\ h \in Int /\ n \in Int
  BY RingAssumption DEF Counters
<1>2. ASSUME NEW k \in 0 .. n
      PROVE  Place(h, k) = (h + k) % Slots /\ Place(h, k) \in 0 .. Slots - 1
  <2>1. h + k \in 0 .. CounterMod + CounterMod - 1
    BY <1>1 DEF Counters
  <2>2. Place(h, k) = (h + k) % Slots
    BY <2>1, OverflowUnnoticed DEF Place
  <2>3. h + k \in Int
    BY <1>1
  <2> QED BY <1>1, <2>2, <2>3, QuotientAndRest
<1>3. ASSUME n < Slots, NEW k \in 0 .. n - 1
      PROVE  Place(h, k) # Place(h, n)
  <2>1. h + k \in Int /\ h + n \in Int /\ h + k < h + n /\ (h + n) - (h + k) < Slots
    BY <1>1, <1>3
  <2>2. (h + k) % Slots # (h + n) % Slots
    BY <1>1, <2>1, RestsDiffer
  <2>3. k \in 0 .. n /\ n \in 0 .. n
    BY <1>1
  <2> QED BY <1>2, <2>2, <2>3
<1> QED BY <1>2, <1>3

(* What lies between two counters, in the arithmetic of their width. *)
Between(h, t) == (t - h) % CounterMod

LEMMA CounterMoves ==
    ASSUME NEW h \in Counters, NEW t \in Counters
    PROVE  /\ Between(h, t) \in Counters
           /\ Between(h, t) = 0 <=> h = t
           /\ (h + Between(h, t)) % CounterMod = t
           /\ (t + 1) % CounterMod \in Counters /\ (h + 1) % CounterMod \in Counters
           /\ Between(h, t) < CounterMod - 1 => Between(h, (t + 1) % CounterMod) = Between(h, t) + 1
           /\ h # t => Between((h + 1) % CounterMod, t) = Between(h, t) - 1
<1>1. CounterMod \in Int /\ CounterMod > 1 /\ h \in 0 .. CounterMod - 1 /\ t \in 0 .. CounterMod - 1
  BY RingAssumption DEF Counters
<1>2. \A a \in 0 .. CounterMod - 1 : a % CounterMod = a
  BY <1>1, RestOfSmall
<1>3. \A a \in CounterMod .. CounterMod + CounterMod - 1 : a % CounterMod = a - CounterMod
  BY <1>1, RestOfSmall
<1>4. \A a \in -CounterMod .. -1 : a % CounterMod = a + CounterMod
  BY <1>1, RestOfSmall
<1> DEFINE Dist(a, b) == IF b >= a THEN b - a ELSE (b - a) + CounterMod
           Succ(a) == IF a = CounterMod - 1 THEN 0 ELSE a + 1
<1>5. ASSUME NEW a \in Counters, NEW b \in Counters
      PROVE  Between(a, b) = Dist(a, b)
  <2>1. CASE b >= a
    <3>1. b - a \in 0 .. CounterMod - 1
      BY <1>1, <2>1 DEF Counters
    <3> QED BY <1>2, <2>1, <3>1 DEF Between
  <2>2. CASE ~(b >= a)
    <3>1. b - a \in -CounterMod .. -1
      BY <1>1, <2>2 DEF Counters
    <3> QED BY <1>4, <2>2, <3>1 DEF Between
  <2> QED BY <2>1, <2>2
<1>6. ASSUME NEW a \in Counters
      PROVE  (a + 1) % CounterMod = Succ(a) /\ Succ(a) \in Counters
  <2>1. CASE a = CounterMod - 1
    <3>1. a + 1 \in CounterMod .. CounterMod + CounterMod - 1 /\ (a + 1) - CounterMod = 0
      BY <1>1, <2>1
    <3>2. (a + 1) % CounterMod = 0
      BY <1>3, <3>1
    <3> QED BY <1>1, <2>1, <3>2 DEF Counters
  <2>2. CASE a # CounterMod - 1
    <3>1. a + 1 \in 0 .. CounterMod - 1
      BY <1>1, <2>2 DEF Counters
    <3> QED BY <1>2, <2>2, <3>1 DEF Counters
  <2> QED BY <2>1, <2>2
<1>7. Dist(h, t) \in Counters /\ (Dist(h, t) = 0 <=> h = t)
  BY <1>1 DEF Counters
<1>8. (h + Dist(h, t)) % CounterMod = t
  <2>1. CASE t >= h
    <3>1. h + Dist(h, t) = t
      BY <1>1, <2>1
    <3> QED BY <1>1, <1>2, <3>1
  <2>2. CASE ~(t >= h)
    <3>1. h + Dist(h, t) = t + CounterMod /\ t + CounterMod \in CounterMod .. CounterMod + CounterMod - 1
      BY <1>1, <2>2
    <3>2. (t + CounterMod) % CounterMod = (t + CounterMod) - CounterMod
      BY <1>3, <3>1
    <3> QED BY <1>1, <3>1, <3>2
  <2> QED BY <2>1, <2>2
<1>9. Dist(h, t) < CounterMod - 1 => Dist(h, Succ(t)) = Dist(h, t) + 1
  BY <1>1
<1>10. h # t => Dist(Succ(h), t) = Dist(h, t) - 1
  BY <1>1
<1> HIDE DEF Dist, Succ
<1> QED BY <1>5, <1>6, <1>7, <1>8, <1>9, <1>10 DEF Counters

-----------------------------------------------------------------------------
(* Sequences that differ by one element at an end. *)

LEMMA IsAppended ==
    ASSUME NEW S, NEW q \in Seq(S), NEW p \in Seq(S), NEW d \in S,
           Len(p) = Len(q) + 1, p[Len(p)] = d,
           \A k \in 1 .. Len(q) : p[k] = q[k]
    PROVE  p = Append(q, d)
<1> DEFINE r == Append(q, d)
<1>1. r \in Seq(S) /\ Len(r) = Len(q) + 1 /\ Len(q) \in Nat
  OBVIOUS
<1>2. \A k \in 1 .. Len(q) + 1 : k \in 1 .. Len(q) \/ k = Len(q) + 1
  BY <1>1
<1>3. \A k \in 1 .. Len(r) : p[k] = r[k]
  BY <1>1, <1>2
<1> HIDE DEF r
<1>4. p = r
  BY <1>1, <1>3, SeqEqual
<1> QED BY <1>4 DEF r

LEMMA IsTail ==
    ASSUME NEW S, NEW q \in Seq(S), NEW p \in Seq(S), q # <<>>,
           Len(p) = Len(q) - 1, \A k \in 1 .. Len(p) : p[k] = q[k + 1]
    PROVE  p = Tail(q)
<1> DEFINE r == Tail(q)
<1>1. r \in Seq(S) /\ Len(r) = Len(q) - 1
  OBVIOUS
<1>2. \A k \in 1 .. Len(r) : p[k] = r[k]
  BY <1>1
<1> HIDE DEF r
<1>3. p = r
  BY <1>1, <1>2, SeqEqual
<1> QED BY <1>3 DEF r

-----------------------------------------------------------------------------
(* The inductive invariant: the counters are never further apart than the  *)
(* ring is long, and a slot keeps no more than a message's length.         *)

Slot == [id : Nat, len : 0 .. MaxMsg]

RingInv ==
    /\ slots \in [0 .. Slots - 1 -> Slot]
    /\ head \in Counters /\ tail \in Counters
    /\ Used \in 0 .. Slots
    /\ arrived \in 0 .. MaxArrivals

(* The waiting datagrams are a sequence of Used elements, and the next one *)
(* goes behind them.                                                       *)
WaitingInPlace ==
    /\ Waiting \in Seq(Slot) /\ Len(Waiting) = Used /\ Used \in Nat
    /\ \A k \in 1 .. Used : Waiting[k] = slots[Place(head, k - 1)]
    /\ tail % Slots = Place(head, Used)

LEMMA WaitingIs == RingInv => WaitingInPlace
<1> SUFFICES ASSUME RingInv PROVE WaitingInPlace
  OBVIOUS
<1>1. Used \in 0 .. Slots /\ Used \in Nat /\ Slots \in Nat /\ head \in Nat /\ head \in Counters
  BY RingAssumption DEF RingInv, Counters
<1>2. \A k \in 1 .. Used : k - 1 \in 0 .. Used /\ head + k - 1 = head + (k - 1)
  BY <1>1
<1>3. \A k \in 1 .. Used : Waiting[k] = slots[Place(head, k - 1)]
  BY <1>2 DEF Waiting, Place
<1>4. \A k \in 1 .. Used : Place(head, k - 1) \in 0 .. Slots - 1
  BY <1>1, <1>2, Places
<1>5. \A k \in 1 .. Used : Waiting[k] \in Slot
  BY <1>3, <1>4 DEF RingInv
<1>6. Waiting \in [1 .. Used -> Slot]
  BY <1>5 DEF Waiting
<1>7. Waiting \in Seq(Slot) /\ DOMAIN Waiting = 1 .. Used
  <2> HIDE DEF Waiting, Used
  <2> QED BY <1>1, <1>6, SeqDef
<1>8. Len(Waiting) = Used
  <2> HIDE DEF Waiting, Used
  <2> QED BY <1>1, <1>7
<1>9. tail % Slots = Place(head, Used)
  <2>1. (head + Used) % CounterMod = tail
    BY CounterMoves DEF RingInv, Between, Used
  <2> QED BY <2>1 DEF Place
<1> QED BY <1>1, <1>3, <1>7, <1>8, <1>9 DEF WaitingInPlace

(* What a slot keeps of a datagram is a message's length at most. *)
LEMMA ClampedIsSlot ==
    ASSUME NEW id \in Nat, NEW len \in Lengths
    PROVE  Clamped(id, len) \in Slot
BY RingAssumption DEF Clamped, Shorter, Slot

(* recvCallback() with room in the ring. *)
LEMMA ArriveStored ==
    ASSUME RingInv, NEW len \in Lengths, Arrive(len), Used < Slots
    PROVE  RingInv' /\ Waiting' = Append(Waiting, Clamped(arrived + 1, len))
<1> DEFINE d == Clamped(arrived + 1, len)
           q == Waiting
           n == Used
<1>1. /\ slots' = [slots EXCEPT ![tail % Slots] = d]
      /\ tail' = (tail + 1) % CounterMod /\ head' = head /\ arrived' = arrived + 1
      /\ arrived < MaxArrivals
  BY DEF Arrive
<1>2. d \in Slot /\ arrived' \in 0 .. MaxArrivals
  <2>1. arrived + 1 \in Nat /\ arrived + 1 \in 0 .. MaxArrivals
    BY <1>1, RingAssumption DEF RingInv
  <2> QED BY <1>1, <2>1, ClampedIsSlot
<1>3. /\ q \in Seq(Slot) /\ Len(q) = n /\ n \in 0 .. Slots /\ n \in Nat
      /\ \A k \in 1 .. n : q[k] = slots[Place(head, k - 1)]
      /\ tail % Slots = Place(head, n)
  BY WaitingIs DEF WaitingInPlace, RingInv
<1>4. Slots \in Nat /\ CounterMod \in Nat /\ n < CounterMod - 1
  BY <1>3, RingAssumption
<1>5. Used' = n + 1 /\ head' \in Counters /\ tail' \in Counters
  <2>1. Between(head, (tail + 1) % CounterMod) = Between(head, tail) + 1
    BY <1>4, CounterMoves DEF RingInv, Used, Between
  <2>2. (tail + 1) % CounterMod \in Counters
    BY CounterMoves DEF RingInv
  <2> QED BY <1>1, <2>1, <2>2 DEF Used, Between, RingInv
<1>6. /\ slots' \in [0 .. Slots - 1 -> Slot]
      /\ slots'[Place(head, n)] = d
      /\ \A k \in 0 .. n - 1 : slots'[Place(head, k)] = slots[Place(head, k)]
  <2> HIDE DEF d, n
  <2>1. Place(head, n) \in 0 .. Slots - 1
    BY <1>3, Places DEF RingInv
  <2>2. \A k \in 0 .. n - 1 : Place(head, k) # Place(head, n)
    BY <1>3, Places DEF RingInv, n
  <2>3. \A k \in 0 .. n - 1 : Place(head, k) \in 0 .. Slots - 1
    BY <1>3, Places DEF RingInv
  <2> QED BY <1>1, <1>2, <1>3, <2>1, <2>2, <2>3 DEF RingInv
<1>7. RingInv'
  <2>1. Used' \in 0 .. Slots
    BY <1>3, <1>4, <1>5
  <2> HIDE DEF d, n
  <2> QED BY <1>2, <1>5, <1>6, <2>1 DEF RingInv
<1> DEFINE p == Waiting'
<1>8. /\ p \in Seq(Slot) /\ Len(p) = n + 1
      /\ \A k \in 1 .. n + 1 : p[k] = slots'[Place(head, k - 1)]
  <2>1. /\ Waiting' \in Seq(Slot) /\ Len(Waiting') = Used'
        /\ \A k \in 1 .. Used' : Waiting'[k] = slots'[Place(head', k - 1)]
    <3>1. RingInv' => WaitingInPlace'
      BY WaitingIs, PTL
    <3> QED BY <1>7, <3>1 DEF WaitingInPlace
  <2> QED BY <1>1, <1>5, <2>1
<1> HIDE DEF d, p, q, n
<1>9. p[Len(p)] = d
  BY <1>3, <1>6, <1>8
<1>10. \A k \in 1 .. Len(q) : p[k] = q[k]
  <2> TAKE k \in 1 .. Len(q)
  <2>1. k \in 1 .. n /\ k \in 1 .. n + 1 /\ k - 1 \in 0 .. n - 1
    BY <1>3
  <2> QED BY <1>3, <1>6, <1>8, <2>1
<1>11. p = Append(q, d)
  BY <1>2, <1>3, <1>8, <1>9, <1>10, IsAppended
<1> QED BY <1>7, <1>11 DEF d, p, q

(* receive() of the oldest datagram. *)
LEMMA ReceiveTaken ==
    ASSUME RingInv, Receive
    PROVE  RingInv' /\ Waiting # <<>> /\ taken' = Head(Waiting) /\ Waiting' = Tail(Waiting)
<1> DEFINE q == Waiting
           n == Used
<1>1. /\ head # tail /\ head' = (head + 1) % CounterMod
      /\ tail' = tail /\ slots' = slots /\ arrived' = arrived
      /\ taken' = [slots[head % Slots] EXCEPT !.len = Shorter(@, MaxMsg)]
  BY DEF Receive
<1>2. /\ q \in Seq(Slot) /\ Len(q) = n /\ n \in 0 .. Slots /\ n \in Nat
      /\ \A k \in 1 .. n : q[k] = slots[Place(head, k - 1)]
  BY WaitingIs DEF WaitingInPlace, RingInv
<1>3. n # 0 /\ Used' = n - 1 /\ head' \in Counters
  <2>1. /\ Between(head, tail) # 0
        /\ Between((head + 1) % CounterMod, tail) = Between(head, tail) - 1
        /\ (head + 1) % CounterMod \in Counters
    BY <1>1, CounterMoves DEF RingInv
  <2> QED BY <1>1, <2>1 DEF Used, Between
<1>4. RingInv'
  <2>1. Used' \in 0 .. Slots
    <3> HIDE DEF n
    <3> QED BY <1>2, <1>3, RingAssumption
  <2> QED BY <1>1, <1>3, <2>1 DEF RingInv
<1> DEFINE p == Waiting'
<1>5. /\ p \in Seq(Slot) /\ Len(p) = n - 1
      /\ \A k \in 1 .. n - 1 : p[k] = slots[Place(head', k - 1)]
  <2>1. /\ Waiting' \in Seq(Slot) /\ Len(Waiting') = Used'
        /\ \A k \in 1 .. Used' : Waiting'[k] = slots'[Place(head', k - 1)]
    <3>1. RingInv' => WaitingInPlace'
      BY WaitingIs, PTL
    <3> QED BY <1>4, <3>1 DEF WaitingInPlace
  <2>2. n - 1 = Used'
    BY <1>3
  <2> HIDE DEF n, p
  <2> QED BY <1>1, <2>1, <2>2 DEF p
<1>6. head \in Counters /\ head \in Nat /\ CounterMod \in Nat /\ CounterMod > 0 /\ Slots \in Nat /\ Slots > 0 /\ Slots < CounterMod
  BY RingAssumption DEF RingInv, Counters
<1> HIDE DEF n, q, p
<1>7. q # <<>>
  BY <1>2, <1>3
<1>8. ASSUME NEW k \in 1 .. n - 1
      PROVE  Place(head', k - 1) = Place(head, k)
  <2>1. k \in 0 .. n /\ k - 1 \in 0 .. n /\ k \in 0 .. Slots /\ k \in Int
    BY <1>2, <1>6
  <2>2. Place(head, k) = (head + k) % Slots /\ Place(head', k - 1) = (head' + (k - 1)) % Slots
    BY <1>2, <1>3, <1>6, <2>1, Places
  <2>3. (head' + (k - 1)) % Slots = (head + k) % Slots
    <3>1. CASE head < CounterMod - 1
      <4>1. head + 1 \in 0 .. CounterMod - 1
        BY <1>6, <3>1
      <4>2. head' = head + 1
        BY <1>1, <1>6, <4>1, RestOfSmall
      <4>3. head' + (k - 1) = head + k
        BY <1>6, <2>1, <4>2
      <4> QED BY <4>3
    <3>2. CASE head = CounterMod - 1
      <4>1. head + 1 \in CounterMod .. CounterMod + CounterMod - 1 /\ (head + 1) - CounterMod = 0
        BY <1>6, <3>2
      <4>2. head' = 0
        BY <1>1, <1>6, <4>1, RestOfSmall
      <4>3. head + k \in CounterMod .. CounterMod + CounterMod - 1 /\ (head + k) - CounterMod = k - 1
        BY <1>6, <2>1, <3>2
      <4>4. (head + k) % CounterMod = k - 1
        BY <1>6, <4>3, RestOfSmall
      <4>5. ((head + k) % CounterMod) % Slots = (head + k) % Slots
        <5>1. head + k \in 0 .. CounterMod + CounterMod - 1
          BY <1>6, <4>3
        <5> QED BY <5>1, OverflowUnnoticed
      <4>6. head' + (k - 1) = k - 1
        BY <2>1, <4>2
      <4> QED BY <4>4, <4>5, <4>6
    <3> QED BY <1>6, <3>1, <3>2 DEF Counters
  <2> QED BY <2>2, <2>3
<1>9. \A k \in 1 .. Len(p) : p[k] = q[k + 1]
  <2> TAKE k \in 1 .. Len(p)
  <2>1. k \in 1 .. n - 1 /\ k + 1 \in 1 .. n /\ (k + 1) - 1 = k
    BY <1>2, <1>5
  <2> QED BY <1>2, <1>5, <1>8, <2>1
<1>10. p = Tail(q)
  BY <1>2, <1>5, <1>7, <1>9, IsTail
<1>11. taken' = Head(q)
  <2>1. 1 \in 1 .. n /\ 0 \in 0 .. n
    BY <1>2, <1>3
  <2>2. q[1] = slots[Place(head, 0)] /\ q[1] \in Slot
    BY <1>2, <2>1
  <2>3. Place(head, 0) = head % Slots
    <3>1. Place(head, 0) = (head + 0) % Slots
      BY <1>2, <1>6, <2>1, Places
    <3> QED BY <1>6, <3>1
  <2>4. taken' = [q[1] EXCEPT !.len = Shorter(@, MaxMsg)]
    BY <1>1, <2>2, <2>3
  <2>5. [q[1] EXCEPT !.len = Shorter(@, MaxMsg)] = q[1]
    BY <2>2, RingAssumption DEF Slot, Shorter
  <2>6. Head(q) = q[1]
    BY <1>2, <1>7
  <2> QED BY <2>4, <2>5, <2>6
<1> QED BY <1>4, <1>7, <1>10, <1>11 DEF p, q

LEMMA RingInitially == RingInit => RingInv
<1> SUFFICES ASSUME RingInit PROVE RingInv
  OBVIOUS
<1>1. Slots \in Nat /\ CounterMod \in Nat /\ CounterMod > 0 /\ MaxMsg \in Nat /\ MaxArrivals \in Nat
  BY RingAssumption
<1>2. head = 0 /\ tail = 0 /\ arrived = 0 /\ 0 \in Counters
  BY <1>1 DEF RingInit, Counters
<1>3. Used = 0
  BY <1>2, CounterMoves DEF Used, Between
<1>4. Empty \in Slot
  BY <1>1 DEF Empty, Slot
<1>5. slots \in [0 .. Slots - 1 -> Slot]
  BY <1>4 DEF RingInit
<1> QED BY <1>1, <1>2, <1>3, <1>5 DEF RingInv

LEMMA RingStep == RingInv /\ [RingNext]_ringVars => RingInv'
<1> SUFFICES ASSUME RingInv, [RingNext]_ringVars PROVE RingInv'
  OBVIOUS
<1>1. CASE UNCHANGED <<slots, head, tail, arrived>>
  BY <1>1 DEF RingInv, Used
<1>2. ASSUME NEW len \in Lengths, Arrive(len)
      PROVE  RingInv'
  <2>1. CASE Used < Slots
    BY <1>2, <2>1, ArriveStored
  <2>2. CASE ~(Used < Slots)
    <3>1. /\ slots' = slots /\ head' = head /\ tail' = tail
          /\ arrived' = arrived + 1 /\ arrived < MaxArrivals
      BY <1>2, <2>2 DEF Arrive
    <3>2. arrived' \in 0 .. MaxArrivals
      BY <3>1, RingAssumption DEF RingInv
    <3> QED BY <3>1, <3>2 DEF RingInv, Used
  <2> QED BY <2>1, <2>2
<1> QED BY <1>1, <1>2, ReceiveTaken DEF RingNext, Begin, ringVars

(* The ring of recvCallback() and receive() is a bounded FIFO: nothing is  *)
(* overwritten, repeated or reordered, also after head_ and tail_ have     *)
(* wrapped around.                                                         *)
THEOREM RingRefinesFifo == RingSpec => RingIsFifo
<1>1. RingInit => Fifo!Init
  <2> SUFFICES ASSUME RingInit PROVE Waiting = <<>> /\ taken = Empty
    BY DEF Fifo!Init
  <2>1. Used = 0
    BY RingInitially, CounterMoves DEF RingInv, Used, Between, RingInit
  <2>2. Len(Waiting) = 0 /\ Waiting \in Seq(Slot)
    BY <2>1, RingInitially, WaitingIs DEF WaitingInPlace
  <2> HIDE DEF Waiting
  <2> QED BY <2>2 DEF RingInit
<1>2. RingInv /\ [RingNext]_ringVars => [Fifo!Next]_<<Waiting, taken>>
  <2> SUFFICES ASSUME RingInv, [RingNext]_ringVars
               PROVE  Fifo!Next \/ UNCHANGED <<Waiting, taken>>
    OBVIOUS
  <2>1. CASE UNCHANGED <<slots, head, tail, taken>>
    BY <2>1 DEF Waiting, Used
  <2>2. ASSUME NEW len \in Lengths, Arrive(len)
        PROVE  Fifo!Next
    <3> DEFINE d == Clamped(arrived + 1, len)
               D == {Clamped(id, l) : id \in 1 .. MaxArrivals, l \in Lengths}
    <3>1. arrived + 1 \in 1 .. MaxArrivals /\ taken' = taken
      BY <2>2, RingAssumption DEF Arrive, RingInv
    <3>2. d \in D
      BY <3>1
    <3>3. Len(Waiting) = Used
      BY WaitingIs DEF WaitingInPlace
    <3>4. Waiting' = IF Len(Waiting) < Slots THEN Append(Waiting, d) ELSE Waiting
      <4>1. CASE Used < Slots
        BY <2>2, <3>3, <4>1, ArriveStored
      <4>2. CASE ~(Used < Slots)
        <5>1. slots' = slots /\ head' = head /\ tail' = tail
          BY <2>2, <4>2 DEF Arrive
        <5>2. Waiting' = Waiting
          BY <5>1 DEF Waiting, Used
        <5> QED BY <3>3, <4>2, <5>2
      <4> QED BY <4>1, <4>2
    <3> HIDE DEF d
    <3>5. Fifo!Put(d)
      BY <3>1, <3>4 DEF Fifo!Put
    <3> QED BY <3>2, <3>5 DEF Fifo!Next
  <2>3. CASE Receive
    <3>1. Fifo!Get
      BY <2>3, ReceiveTaken DEF Fifo!Get
    <3> QED BY <3>1 DEF Fifo!Next
  <2> QED BY <2>1, <2>2, <2>3 DEF RingNext, Begin, ringVars
<1> QED BY <1>1, <1>2, RingInitially, RingStep, PTL DEF RingSpec, RingIsFifo, Fifo!Spec
=============================================================================
