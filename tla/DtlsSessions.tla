---------------------------- MODULE DtlsSessions ----------------------------
(***************************************************************************)
(* DtlsTransport (PulseCoAPTransportDTLS.h): the table of DTLS sessions    *)
(* under send() and receive(), the handshakes both of them drive, and the  *)
(* one datagram a session keeps until its handshake is complete.           *)
(*                                                                         *)
(* mbedTLS is external: what a call of it returns is a choice of the step, *)
(* except that a handshake cannot be complete before a record of the peer  *)
(* has been heard.  Time passes in units, and at least one receive() is    *)
(* called in each: poll() begins with one.                                 *)
(***************************************************************************)
EXTENDS Naturals, Sequences, FiniteSetsExt

CONSTANTS
    Peers,         \* endpoints spoken to
    Nobody,        \* the endpoint of a zeroed session
    MaxSessions,   \* PULSECOAP_DTLS_MAX_SESSIONS
    MaxSends,      \* bound: calls of send()
    HandshakeTimeout  \* PULSECOAP_DTLS_HANDSHAKE_TIMEOUT_MS, in units of time

ASSUME DtlsAssumption ==
    /\ Nobody \notin Peers /\ MaxSessions \in Nat \ {0} /\ MaxSends \in Nat
    /\ HandshakeTimeout \in Nat

VARIABLES
    isServer,      \* isServer_
    sessions,      \* sessions_
    sends,         \* history: of each send(), its peer, its result, and the
                   \* peers its datagram was encrypted and sent to
    polled         \* receive() has been called in this unit of time

dtlsVars == <<isServer, sessions, sends, polled>>

SessionSlots == 1 .. MaxSessions

(* A session holds in tx the numbers of the sends it has buffered, at most *)
(* one; heard says that its handshake has been given a record (rxPtr); age *)
(* is the time since handshakeStartMs.  History: turn tells a handshake    *)
(* from the previous one of the same slot, waited is how long it has been  *)
(* under way.                                                              *)
Unused == [state |-> "idle", peer |-> Nobody, tx |-> {}, heard |-> FALSE, age |-> 0,
           turn |-> 0, waited |-> 0]

SessionsIn(table, state) == {i \in SessionSlots : table[i].state = state}

(* Mutant: a failed session is not found. *)
FindLiveSession(table, peer) ==
    {i \in SessionSlots : /\ table[i].state \in {"handshaking", "established"}
                          /\ table[i].peer = peer}

FindSession(table, peer) ==
    {i \in SessionSlots : table[i].state # "idle" /\ table[i].peer = peer}

(* Mutant: any session may be evicted. *)
ClaimableAny(table) ==
    IF SessionsIn(table, "idle") # {} THEN SessionsIn(table, "idle") ELSE SessionSlots

(* allocSession(): an empty slot, else a failed session, else an           *)
(* established one, else none; the first of its kind.                      *)
Claimable(table) ==
    IF SessionsIn(table, "idle") # {} THEN SessionsIn(table, "idle")
    ELSE IF SessionsIn(table, "failed") # {} THEN SessionsIn(table, "failed")
    ELSE SessionsIn(table, "established")

ResetSession(s) == [Unused EXCEPT !.turn = s.turn]

(* Mutant: the buffer of the slot's previous session is still pending. *)
OpenDirty(s, peer) ==
    [s EXCEPT !.state = "handshaking", !.peer = peer, !.heard = FALSE, !.age = 0,
              !.turn = 1 - @, !.waited = 0]

(* initSession() of a slot that has been reset. *)
Open(s, peer) ==
    [Unused EXCEPT !.state = "handshaking", !.peer = peer, !.turn = 1 - s.turn]

(* Mutant: a datagram already waiting is kept. *)
BufferFirst(s, n) == [s EXCEPT !.tx = IF @ = {} THEN {n} ELSE @]

(* Mutant: the clock of the handshake starts again. *)
BufferRefreshes(s, n) == [s EXCEPT !.tx = {n}, !.age = 0]

(* bufferTx(): the most recent datagram is kept. *)
Buffer(s, n) == [s EXCEPT !.tx = {n}]

Outcomes(s) == {"want", "fail"} \cup IF s.heard THEN {"done"} ELSE {}

(* driveHandshake().  (handshakeStartMs is not read after the handshake.)  *)
Drive(s, outcome) ==
    CASE outcome = "done" -> [s EXCEPT !.state = "established", !.age = 0, !.waited = 0]
      [] outcome = "fail" -> [s EXCEPT !.state = "failed", !.age = 0, !.waited = 0]
      [] outcome = "want" -> s

(* What waits in a session whose handshake has just been completed; it is  *)
(* written, and then gone, whether the writing succeeds or not.            *)
ToFlush(s) == IF s.state = "established" THEN s.tx ELSE {}

(* Mutant: txPending is not reset. *)
FlushedNot(s) == s

Flushed(s) == [s EXCEPT !.tx = @ \ ToFlush(s)]

(* The sends of ns are written on a session with peer, if sslWrite() is ok. *)
Written(log, ns, peer, ok) ==
    [n \in DOMAIN log |->
        IF n \in ns /\ ok THEN [log[n] EXCEPT !.on = Append(@, peer)] ELSE log[n]]

-----------------------------------------------------------------------------
(* send() *)

(* One more call of send(), and what it returns. *)
Called(peer, result) == Append(sends, [to |-> peer, result |-> result, on |-> <<>>])

(* First contact: a session is opened, the datagram buffered, and the      *)
(* handshake started; send() returns false in any case.                    *)
SendFirst(peer) ==
    /\ FindSession(sessions, peer) = {}
    /\ sends' = Called(peer, FALSE)
    /\ IF Claimable(sessions) = {} THEN UNCHANGED sessions
       ELSE LET i == Min(Claimable(sessions))
                s == Buffer(Open(sessions[i], peer), Len(sends) + 1)
            IN  \/ \E outcome \in Outcomes(s) :
                     sessions' = [sessions EXCEPT ![i] = Drive(s, outcome)]
                \/ sessions' = [sessions EXCEPT ![i] = ResetSession(sessions[i])]

SendHandshaking(i) ==
    /\ sessions[i].state = "handshaking"
    /\ \E outcome \in Outcomes(sessions[i]), ok \in BOOLEAN :
         LET s == Drive(Buffer(sessions[i], Len(sends) + 1), outcome)
         IN  /\ sessions' = [sessions EXCEPT ![i] = Flushed(s)]
             /\ sends' = Written(Called(s.peer, ok /\ ToFlush(s) # {}),
                                 ToFlush(s), s.peer, ok)

SendEstablished(i) ==
    /\ sessions[i].state = "established"
    /\ \E ok \in BOOLEAN :
         sends' = Written(Called(sessions[i].peer, ok), {Len(sends) + 1},
                          sessions[i].peer, ok)
    /\ UNCHANGED sessions

SendFailed(i) ==
    /\ sessions[i].state = "failed"
    /\ sessions' = [sessions EXCEPT ![i] = ResetSession(sessions[i])]
    /\ sends' = Called(sessions[i].peer, FALSE)

DtlsSend(peer) ==
    /\ Len(sends) < MaxSends
    /\ \/ SendFirst(peer)
       \/ \E i \in FindSession(sessions, peer) :
             SendHandshaking(i) \/ SendEstablished(i) \/ SendFailed(i)
    /\ UNCHANGED <<isServer, polled>>

-----------------------------------------------------------------------------
(* receive() *)

TooOld(table) ==
    {i \in SessionsIn(table, "handshaking") : table[i].age > HandshakeTimeout}

TickTimeouts(table) ==
    [i \in SessionSlots |-> IF i \in TooOld(table) THEN ResetSession(table[i]) ELSE table[i]]

(* A record for session s in slot i: a handshake goes on, and its end      *)
(* releases what was buffered; application data is read and changes        *)
(* nothing; a failed session ignores it.                                   *)
Hear(table, i, s) ==
    IF s.state # "handshaking"
    THEN sessions' = table /\ UNCHANGED sends
    ELSE \E outcome \in {"want", "fail", "done"}, ok \in BOOLEAN :
           LET t == Drive([s EXCEPT !.heard = TRUE], outcome)
           IN  /\ sessions' = [table EXCEPT ![i] = Flushed(t)]
               /\ sends' = Written(sends, ToFlush(t), t.peer, ok)

(* A record of a peer without a session: a server opens one. *)
HearNew(table, peer) ==
    IF ~isServer \/ Claimable(table) = {}
    THEN sessions' = table /\ UNCHANGED sends
    ELSE LET i == Min(Claimable(table))
         IN  \/ Hear(table, i, Open(table[i], peer))
             \/ sessions' = [table EXCEPT ![i] = ResetSession(table[i])] /\ UNCHANGED sends

(* No record has arrived. *)
ReceiveNothing ==
    /\ sessions' = TickTimeouts(sessions)
    /\ UNCHANGED sends

ReceiveFrom(peer) ==
    LET table == TickTimeouts(sessions)
    IN  IF FindSession(table, peer) = {} THEN HearNew(table, peer)
        ELSE LET i == Min(FindSession(table, peer)) IN Hear(table, i, table[i])

DtlsReceive ==
    /\ ReceiveNothing \/ \E peer \in Peers : ReceiveFrom(peer)
    /\ polled' = TRUE
    /\ UNCHANGED isServer

(* A unit of time, after a receive(): every handshake gets older.          *)
TimePasses ==
    /\ polled /\ polled' = FALSE
    /\ sessions' = [i \in SessionSlots |->
          IF sessions[i].state = "handshaking"
          THEN [sessions[i] EXCEPT !.age = @ + 1, !.waited = @ + 1]
          ELSE sessions[i]]
    /\ UNCHANGED <<isServer, sends>>

-----------------------------------------------------------------------------
DtlsInit ==
    /\ isServer \in BOOLEAN
    /\ sessions = [i \in SessionSlots |-> Unused]
    /\ sends = <<>> /\ polled = FALSE

DtlsNext ==
    \/ \E peer \in Peers : DtlsSend(peer)
    \/ DtlsReceive
    \/ TimePasses

DtlsSpec == DtlsInit /\ [][DtlsNext]_dtlsVars

-----------------------------------------------------------------------------
(* Type invariant of the session table; a datagram waits only for a        *)
(* handshake, or in a session whose handshake has failed.                  *)
DtlsTypeOK ==
    /\ isServer \in BOOLEAN
    /\ sessions \in [SessionSlots ->
          [state : {"idle", "handshaking", "established", "failed"},
           peer : Peers \cup {Nobody}, tx : SUBSET (1 .. Len(sends)),
           heard : BOOLEAN, age : Nat, turn : {0, 1}, waited : Nat]]
    /\ \A i \in SessionSlots :
          /\ sessions[i].state = "idle" <=> sessions[i].peer = Nobody
          /\ sessions[i].state \in {"idle", "established"} => sessions[i].tx = {}
    /\ sends \in Seq([to : Peers, result : BOOLEAN, on : Seq(Peers)])

(* However handshakes fail, time out and evict one another, a peer has one *)
(* session: receive() feeds its records to the first that findSession()    *)
(* returns, and a second one would never hear anything.                    *)
OneSessionPerPeer ==
    \A i, j \in SessionSlots :
       sessions[i].state # "idle" /\ sessions[j].state # "idle"
         /\ sessions[i].peer = sessions[j].peer => i = j

(* A datagram goes to the peer it was given for and to no other, at most   *)
(* once, although slots are reset, evicted and opened for other peers      *)
(* while datagrams wait in them; and send() returns true only for a        *)
(* datagram that has gone out.                                             *)
OwnSessionOnce ==
    \A n \in DOMAIN sends :
       /\ sends[n].on \in {<<>>, <<sends[n].to>>}
       /\ sends[n].result => sends[n].on # <<>>

(* "Keep the most-recent packet buffered" (PulseCoAPTransportDTLS.h:205):  *)
(* what goes out is never older than another datagram for the same peer.   *)
LatestGoesOut ==
    [][\A n \in DOMAIN sends :
         sends'[n].on # sends[n].on
           => \A k \in n + 1 .. Len(sends') : sends'[k].to # sends[n].to]_dtlsVars

(* A handshake under way is not disturbed by other peers: its session goes *)
(* on with the same peer until it succeeds, fails or is too old, however   *)
(* short of slots the table is.                                            *)
HandshakeUndisturbed ==
    [][\A i \in SessionSlots :
         /\ sessions[i].state = "handshaking"
         /\ sessions'[i].state = "idle" \/ sessions'[i].turn # sessions[i].turn
         => i \in TooOld(sessions) /\ DtlsReceive]_dtlsVars

(* A handshake that has not ended within the timeout gives its slot back   *)
(* at the next receive() (API.md:610), although datagrams for its peer     *)
(* keep being sent and the peer keeps being heard: none is under way for   *)
(* longer than the timeout and one unit of time.                           *)
HandshakeBounded ==
    \A i \in SessionSlots :
       sessions[i].state = "handshaking" => sessions[i].waited <= HandshakeTimeout + 1
=============================================================================
