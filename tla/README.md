# A TLA+ development of PulseCoAP

PulseCoAP is a CoAP (RFC 7252) library for small devices: a client role, a
server role with Observe (RFC 7641), deferred responses and block-wise transfer
(RFC 7959), a retransmission engine that both roles use, and transports for
several UDP stacks and for DTLS. All tables are fixed arrays, nothing blocks,
and everything happens in `poll()` or in an API call. This directory models the
protocol machinery, the formats and the session tables, model-checks them with
TLC, and proves with TLAPS the timing of the retransmission engine, the safety
of the client among arbitrary servers, of the server among arbitrary clients, of
the two with each other, and of the DTLS session table, and that the lwIP ring
is a bounded FIFO.

Paths in this file are relative to the repository.

## The system

| Part | State | Operations | Interaction |
|---|---|---|---|
| `TransactionPool` (`src/PulseCoAPTransaction.*`) | `slots_[]`: remote, message ID, token, retries, timeout, deadline | `start`, `complete`, `completeByToken`, `getToken`, `tick`, `activeCount`, `reset` | calls back `resend` and `onTimeout` of its owner |
| `Client` (`src/PulseCoAPClient.*`) | `pending_[]`, `discovers_[]`, `block1up_[]`, `block2recv_[]`, a pool, `nextTokenByte_`, `nextMessageId_`, `lastNowMs_` | `get`, `put`, `post`, `del`, `observe`, `cancelObserve`, `discover`, `poll` | response and timeout handlers of the application, which may call the API again |
| `Server` (`src/PulseCoAPServer.*`) | `resources_[]`, `observers_[]`, `deferred_[]`, `block1sessions_[]`, a pool, `nextMessageId_` | `addResource`, `notify`, `respond`, `poll` | resource handlers of the application, which may keep a defer handle |
| Blockwise (`src/PulseCoAPBlockwise.h`, parts of Client and Server) | upload and reassembly per pending slot, sessions per server | Block1 and Block2 steps in `poll` | one more request per block on the same token |
| Message codec (`src/PulseCoAPMessage.*`) | none | `addOption`, `encode`, `decode` | pure functions, called for each datagram |
| Paths and resources (`src/PulseCoAPUri.h`, parts of Server) | `resources_[]` | `addUriPathOptions`, `joinUriPath`, `findResource`, `buildLinkFormat` | pure functions, called for each request |
| lwIP transport | ring of received datagrams | `begin`, `recvCallback`, `receive`, `send` | the lwIP input path fills the ring, `poll` empties it |
| DTLS transport (`src/PulseCoAPTransportDTLS.h`) | `sessions_[]`: state, peer, one buffered datagram, start of the handshake | `send`, `receive`, `begin`, `addPsk` | mbedTLS; `send` of Client and Server opens sessions, `receive` drives handshakes |
| POSIX, Arduino transports | a socket | `begin`, `send`, `receive` | the UDP stack |

What is hard here: packets are lost, delayed, reordered and duplicated while
the same packets are being retransmitted; callbacks run in the middle of
`poll()` and change the tables it is working on; tables are small and what
happens when one is full is often silent; message IDs, tokens and clocks are
machine words that wrap; slots are identified by index or token and reused; a
transfer of several blocks is several exchanges that share one token; formats
have limits at which a length takes another byte.

What makes the parts correct:

- the pool: a deadline is served when it has passed, never before and never
  forgotten, and every transaction ends;
- the client: a response reaches the handler of the call it answers, a one-shot
  call has one outcome, a cancelled subscription is quiet, a live one stays;
- the server: one slot per subscription, removed only for a reason that
  concerns it, dead observers removed, defer handles and deferred slots one to
  one;
- both together: calls end, the server's observers are the client's
  subscriptions, and a payload arrives whole or not at all, in both directions;
- formats: what was built is what is decoded, a request reaches the resource its
  path names, an answer comes from the endpoint that was asked;
- the ring: a bounded FIFO;
- DTLS: one session per peer, a datagram on its peer's session and once,
  handshakes that end in time.

## Modules

| Module | Models |
|---|---|
| `TransactionOps` | the operations of `TransactionPool` on a table of slots; used by everything that owns a pool |
| `TransactionPool` | the pool with its clock: jittered first timeout, doubling, the signed comparison of words, and an owner that arms transactions from the time of its last poll |
| `CoapNet` | packets, and the network between the roles |
| `Blockwise` | block numbers, slices of a payload, and what a block option says |
| `Client` | class `Client` |
| `ClientPeers` | a client among arbitrary CoAP servers |
| `Server` | class `Server` |
| `ServerPeers` | a server among arbitrary CoAP clients |
| `System` | one `Client` and one `Server` on one network |
| `Transfers` | `System` with payloads of several blocks, and a client that may restart |
| `Codec` | class `Message`: building, encoding, decoding |
| `Resources` | Uri-Path options, templates and lookup of resources, the link format |
| `PosixAddress` | endpoints and socket addresses of `PosixTransport` |
| `Wire` | the way of one message through `Codec`, `Resources` and `PosixAddress` |
| `DtlsSessions` | `DtlsTransport`: its session table under `send()` and `receive()` |
| `DtlsClient` | a `Client` over a `DtlsTransport` |
| `BoundedFifo`, `LwipRing` | the promise of a buffered transport, and the lwIP ring that implements it |
| `TransactionOps_proofs`, `TransactionPool_proofs` | lemmas on the table of a pool; theorems on the timed pool |
| `Client_proofs`, `ClientPeers_proofs` | what each operation of `Client` does to its tables; theorems on a client among arbitrary servers |
| `Server_proofs`, `ServerPeers_proofs` | the same for `Server` |
| `System_proofs` | theorems on the two with each other, and on their uploads (`Transfers`) |
| `Transports_proofs` | theorems on the DTLS session table and on the ring |
| `MC*` | instances for TLC |

### How the model corresponds to the code

**Objects and methods.** A `Client` object is the record `cl`, a `Server`
object the record `sv`; a method is an operator from one record to the next.
That form follows the code: `poll()` calls the application, which calls
`get()` or `cancelObserve()`, which change the table `poll()` then goes on to
look at. `React` is such a callback and `ReleaseOneShot` the look at the table
after it. Each action is one API call or one `poll()`, with everything they
call. Packets sent in a step are collected in `out` and enter the network with
the step.

**Polls.** `Client::poll()` receives, dispatches, expires discoveries and then
ticks; a Reset returns before the last two. `Server::poll()` ticks first and
then handles one packet. `ClientReceive`, `ClientReset`, `ClientIdlePoll`,
`ServerReceive` and `ServerIdlePoll` keep these orders, and `PollReset` of
`TransactionPool` is a poll of a client that returns before the tick.

**Time.** `Client` and `Server` leave the clock out: which transactions are due
at a poll is any subset of those in flight. That allows every timing, also ones
a particular clock would exclude. `TransactionPool` has the clock, and justifies
the choice: by its theorems a transaction becomes due only when its time has
come, and by its liveness run each one does.

**Blocks.** A payload is a sequence of units and `BlockSize` a number of units;
the units of an upload carry the number of their call, so that a body put
together from two payloads can be told from either. The block options and the
data are fields that only packets with a block option have. The library is
compiled without block-wise transfer by default
(`PULSECOAP_ENABLE_BLOCKWISE`); in `client_requests`, `server` and `system` all payloads
fit one block, and the model does there what the default build does. The state
of a transfer is kept in the pending slot, while the code has arrays beside
`pending_[]`: no slot is taken without resetting its entry in both. Further blocks
of a download are asked of the endpoint the first one came from (`blockServer`),
as the code does, whichever that is.

**Formats.** `Codec`, `Resources` and `PosixAddress` are operators that take and
return sequences of bytes, in the order the code produces them; they have no
state. `Wire` gives them one: an operation of the library builds a message,
encodes and sends it, the peer receives, decodes and looks it up. Its properties
compare the end of that way with its beginning, or with a definition that is not
a loop (`Serves`, `Listing`).

**DTLS.** A session keeps in `tx` the numbers of the `send()` calls it has
buffered, so that a datagram that goes out can be traced to its call, and in
`age` the time since `handshakeStartMs`. Time passes in units (`TimePasses`),
and in each at least one `receive()` is called, as `poll()` does. What
`mbedtls_ssl_handshake()` and `mbedtls_ssl_write()` return is a choice, but a
handshake is not complete before the peer has said something. An established
session is never closed by the code, whatever `mbedtls_ssl_read()` returns, so
reading changes nothing in the model either. `DtlsClient` joins the table to
`Client`: the result of `send()` decides whether a call is accepted.

**Data.** A packet keeps type, code, message ID, token, Observe option, block
options and path, which is what the two roles branch on. `post` and `del` are `put` and `get` with
another code. Tokens are a counter, as in the code. The server's own responses
and notifications differ in fields nobody reads.

**History.** `about` in a packet is the number of the call (or request) it
answers; `cl.calls` counts what a call's handlers have seen and keeps the bodies
they got; `sv.bodies` keeps the bodies of completed uploads; `sends` and `packets` log the
calls of DTLS's `send()`; `hist` and `unticked` measure true waiting times, and
`waited` that of a handshake. The code's decisions do not depend on them; only
bounds on the number of calls and on time do. `userContext` is the number of the
call that passed it.

**External code.** The network, the peers of `ClientPeers` and `ServerPeers`,
mbedTLS, and the application's callbacks are not part of the library. The network holds
a set of packets, delivers any of them or none, and may keep a copy of a
delivered one. The peers do what RFC 7252 allows: they acknowledge, reset,
answer with or after an empty acknowledgement, or say nothing.

## Runs

Passing runs:

| Run | Properties | Shows |
|---|---|---|
| `pool` | `TypeOK`, `DueIffElapsed`, `NeverOverdue`, `ResendSpacing`, `PatientTimeout`, `EveryTransactionEnds` | deadlines around the wrap of the clock, polls cut short by a Reset; no slot of the pool is lost |
| `client_requests` | `ClientTypeOK`, `RightCallback`, `OneOutcome`, `QuietAfterCancel`, `SubscriptionHolds` | two calls (a NON request, a subscription, a cancellation) to arbitrary servers, callbacks that send CON requests, answers and notifications that overtake each other, losses and retransmissions |
| `server` | `ServerTypeOK`, `UniqueObservers`, `HandlesMatchSlots`, `RemovedForCause`, `DeadPeerRemoved` | observers and deferred requests of two clients, one of which never acknowledges |
| `system` | `ObserversAreSubscriptions`, `QuietAfterCancel`, `TrackedCallEnds` | both roles: two calls, subscriptions, a notification, discovery, cancellation between polls and in callbacks |
| `transfers` | `UploadIntegrity`, `SessionIsPrefix`, `DownloadIntegrity`, `OneOutcome`, `TransferEnds` | two calls that are uploads of three blocks or downloads of two, one Block1 session, losses and retransmissions of every block |
| `transports`, `part = "wire"` | `MessageSurvives`, `CutIsHarmless`, `ArgumentsArrive`, `RightResource`, `ParametersAreSegments`, `ListingIsSound`, `AnswerComesFromPeer` | messages, paths, listings and addresses at the limits of their formats |
| `transports`, `part = "dtls"` | `DtlsTypeOK`, `OneSessionPerPeer`, `OwnSessionOnce`, `LatestGoesOut`, `HandshakeUndisturbed`, `HandshakeBounded` | three peers, two sessions, client and server mode; handshakes succeed, fail, get too old, and are evicted once established |
| `transports`, `part = "ring"` | `RingIsFifo` | the ring refines the bounded FIFO across the overflow of its counters |

`transports` is one run of three modules that share nothing: a behaviour is one
of the module `part` names, and the others stay as they begin.

Runs that refute a statement of the repository's documentation or comments
(details in the findings of `PROJECT.json`):

| Run | Statement | What the code does |
|---|---|---|
| `transfers_restart` | the handler of an upload gets the reassembled full payload (`API.md:748`) | after a restart of the client, whose tokens begin again, the abandoned session is continued with blocks of another payload |
| `system_cancel` | `cancelObserve()` removes the subscription (`docs/use-cases/observe.md:216`) | the server does not recognise the new token |
| `system_hang` | one-shot calls end by response or timeout (`API.md:1061`) | a deferred call whose separate response is lost never ends |
| `server_separate` | no observer carries the token of a separate response (`PulseCoAPServer.cpp:306-308`) | a deferred GET that registers does: the timeout of its response removes the observer |
| `lwip_oldest` | a full ring drops the oldest datagram (`PulseCoAPTransportLwIP.h:30-31`, `API.md:416`) | it drops the one that arrives |
| `dtls_client` | a CON request that is buffered during a handshake is resent (`PulseCoAPTransportDTLS.h:184`) | the call returns false and starts no transaction, yet its datagram goes out |

`TrackedCallEnds`, `TransferEnds` and `EveryCallEnds` belong together: a
Confirmable call ends if it has a transaction and the server answers at once.
Without the first condition it may hang because the pool was full, without the
second because the empty acknowledgement ends the only timer (`system_hang`).
In a transfer each block has a transaction of its own, and its acknowledgement
ends it in the same poll that starts the next one; `TransferEnds` shows that no
loss, repetition or skipped block leaves the call between two transactions.

Weaknesses that show up as conditions under which the checks hold, or as cases a
property allows, are listed as hazards. The documentation is wrong about some of
them as well:

- the timeout of a registration's own transaction ends the subscription, also
  one that has been served meanwhile; `API.md:1062` names only a cancellation and a Reset.
  `SubscriptionHolds` allows exactly that one further cause;
- a full transaction pool does not make a call return false
  (`docs/guide/faq.md:77`): the message is sent untracked;
- `decode()` leaves the type set when it rejects a token length, although
  `PulseCoAPMessage.h:97-98` says the message is left reset;
- a message sent before the first `poll()` on a clock that does not start near 0
  may be held back (`BootClocks`);
- a defer handle used twice answers whoever has claimed the slot since, where
  `PulseCoAPServer.h:138` and `API.md:894` promise false for a handle "already
  consumed". The application of the model uses each handle once, so no property
  is about this: `HandlesMatchSlots` says that a handle not yet used stands for
  its request;
- the listing at `/.well-known/core` leaves that resource itself out
  (`PulseCoAPServer.cpp:158`), though the body shown at `API.md:931` begins with
  it, and stops where the buffer ends, though `API.md:926` promises all
  user-registered paths. `ListingIsSound` states what the code does: the first
  resources, whole, and all of them if there is room;
- `nextTokenByte_` comes round after 256 requests and takes a token that a
  subscription may still have: then `RightCallback` is false. No run gets there;
- a poll that is given a Reset does not tick, so Resets put off resends and
  timeouts, and a Reset for every poll would stop them;
- a Reset leaves the rejected message in the server's pool;
- a ring whose size does not divide 2^32 loses its order (`SizeAssumption`);
- a Block1 session that is not continued keeps its slot for ever.

`CHECK_DEADLOCK FALSE` appears where the bounds on calls, requests, arrivals or
duplicates let the model come to rest, and in `transports`, where a message has
arrived; a client with nothing pending does not send.

### Bounds

- **Tables** have one to three entries. One more claimant than slots is enough for
  every "table full" branch, and two entries for every "first match" rule. In
  `transports` three peers compete for two sessions, so that one is always evicted or
  refused while another handshake is under way.
- **MaxRetransmit = 1**: the original, one resend, one expiry; each branch of
  `tick()` is taken and a second resend repeats the first. In `pool` the
  doubling is still visible, and the theorems cover every number of retries.
- **Word = 24** with timeouts of up to 8: close to the smallest word that satisfies
  the assumption on timeouts, so the clock wraps within a transaction's life.
- **PollGap = 2, TickGap = 3**: polls are at most 2 apart and ticks 3, so that a
  Reset may cut a poll short between two ticks, when a deadline has passed and
  when it has not. No code bounds the time between ticks; the clock would have to
  be kept from them for half of its range to be misread.
- **MaxCalls, MaxRequests, MaxNotify, MaxArrivals** bound what the applications
  do. Each is enough for an old call's packets to meet a newer call.
- **BlockSize = 2, payloads of five and three units**: uploads of three blocks
  and downloads of two, the last one incomplete: a first, a middle and a final
  block on the longer way. `MaxBlock1Body` just holds the payload.
  `MaxDiscovers = 0` because discovery and transfers share nothing but tokens,
  which do not collide. Each of the two calls may be either, so an upload
  competes with another for the one session, or ends while its blocks are still
  in the network. Two calls make the properties about the first of them
  (`TransferEnds`) as strong as those about both, and halve the search.
- **MaxSends = 2** of DTLS: one datagram may replace another in a buffer, or
  two wait for two peers. **HandshakeTimeout = 1**: a handshake is heard and sent
  to before, at and after its timeout. The theorems cover every number.
- **Inputs of `Wire`**: option numbers and lengths on both sides of 13 and 269,
  and the largest number; tokens of no and of eight bytes; every path of up to
  five bytes of `/`, `a` and `b` (repeated and trailing slashes included) and paths that
  are too long or have too many segments, against two literals, three templates
  and the root; block numbers up to 2^20 - 1; every buffer size from 1 to 40 for
  a listing of up to two resources; receivers whose buffers cut the datagram at
  any of its first bytes.
- **Horizon = 16** keeps the waiting times in `hist` finite. A transaction of this
  instance ends after 11 at the latest, so the bound is never met (11, 16 and 24 give the same
  states); it only matters to a pool that loses a slot.
- **MaxNet** bounds the packets in flight; what exceeds it is lost, which the
  network may do anyway. With two, any two packets can overtake each other. In
  `system` it is one, because of the number of its states: there packets overtake
  each other only through retransmission and the callbacks, while
  `client_requests` has two, also of a subscription's answer and a notification
  that overtakes it. The theorems (`SystemQuietAfterCancel`, `ObserversKnown`)
  cover every number.
- **MaxNotify = 1** in `system`: one notification, before or after the
  cancellation, under way when it is made, or resent.
- **MaxDups = 0** in these runs: what reaches a peer twice comes from
  retransmission, which repeats every Confirmable packet after it was
  delivered.
- **MidMod, TokenMod** exceed what the bounded runs consume, so message IDs and
  tokens do not wrap in them.

### Fairness

- `pool`: the main loop keeps calling `poll()`, not every poll finds a Reset, and
  time passes.
- `server`: for each slot in flight, a poll that finds it due happens
  eventually. That is what `EveryTransactionEnds` shows of the pool, seen from
  the owner.
- `system`, `transfers`: the same for the client. Nothing is assumed of the
  server or the network, which may lose everything.
- `system_hang`: the same for both roles, a packet that stays in the network is
  received or lost, and the application answers what it deferred.

`NeverOverdue` and `EveryTransactionEnds` are about polls that tick. The first
bounds how long a transaction is overdue by the time since the last one. The
second assumes by `WF(Poll)` that they keep coming: not every poll of a client is
given a Reset.

Nothing is assumed of DTLS: `HandshakeBounded` is a safety property, of the time
that passes between two calls of `receive()`.

## Proofs

Every theorem is a statement about all values of the constants, under the
assumptions that the modules state by name. The runs check the same properties
on small instances.

| Theorem | Property | Module |
|---|---|---|
| `TypeCorrect`, `WrapAroundSafe`, `PromptlyServed` | `TypeOK`, `DueIffElapsed`, `NeverOverdue` | `TransactionPool_proofs` |
| `NeverEarly`, `GivesUpLast` | `ResendSpacing`, `PatientTimeout` | `TransactionPool_proofs` |
| `ClientTypeCorrect` | `ClientTypeOK` | `ClientPeers_proofs` |
| `AnswersReachTheirCall` | `RightCallback`, while `NextTokenUnused` holds | `ClientPeers_proofs` |
| `FewCallsAnswered` | `RightCallback`, when `TokensSuffice` (with `TokensNotReused`: the hypothesis `NextTokenUnused` then holds) | `ClientPeers_proofs` |
| `OutcomesCounted`, `CancelledIsQuiet` | `OneOutcome`, `QuietAfterCancel` | `ClientPeers_proofs` |
| `SubscriptionsKept` | `SubscriptionHolds` | `ClientPeers_proofs` |
| `ServerTypeCorrect`, `ObserversUnique` | `ServerTypeOK`, `UniqueObservers` | `ServerPeers_proofs` |
| `HandlesMatch` | `HandlesMatchSlots` | `ServerPeers_proofs` |
| `RemovalHasCause` | `RemovedForCause` | `ServerPeers_proofs` |
| `ObserversKnown` | `ObserversAreSubscriptions` | `System_proofs` |
| `SystemQuietAfterCancel` | `QuietAfterCancel` | `System_proofs` |
| `SystemSafe` | `OneOutcome`, `UniqueObservers`, `HandlesMatchSlots`, the types | `System_proofs` |
| `SessionsArePrefixes`, `UploadsWhole` | `SessionIsPrefix`, `UploadIntegrity`, when `TokensSuffice` | `System_proofs` |
| `DownloadsWhole` | `DownloadIntegrity`, when `TokensSuffice` and `RepliesFit` | `System_proofs` |
| `SystemAnswered` | `RightCallback`, when `TokensSuffice` | `System_proofs` |
| `DtlsTypeCorrect`, `OneSession`, `OwnSession` | `DtlsTypeOK`, `OneSessionPerPeer`, `OwnSessionOnce` | `Transports_proofs` |
| `HandshakesBounded` | `HandshakeBounded` | `Transports_proofs` |
| `NotDisturbed`, `LatestOnly` | `HandshakeUndisturbed`, `LatestGoesOut` | `Transports_proofs` |
| `RingRefinesFifo` | `RingIsFifo` | `Transports_proofs` |

### The timed pool

The theorems hold for every number of slots, retries, word size, timeout table
and polling gap. They assume `TimingAssumption`; `BackoffAssumption`, that the
longest timeout plus the longest time between two ticks stays below half of the
word (`2^31` ms, against 48 s with the default configuration); and that the clock starts within
one polling gap of 0, which is where `lastNowMs_` starts (`BootClocks
\subseteq 0 .. PollGap`). The last one is necessary: armed at 0 when the clock
reads more than half of the word, a deadline looks as if it lay in the future.

The properties are not inductive. A deadline is a word, so whether it has
passed cannot be read off it alone. The inductive invariant `IInv` says what
the word means: the stored clock is at most a polling gap behind, and for each
slot in flight the deadline is the clock plus what is left of the timeout,
modulo the word, where the time waited, the lag when it was armed and the
timeout are related through the retry count (`SlotInv`). `WrapSafe` turns that
into the meaning of the signed comparison, `BackoffFits` bounds each timeout
by `MaxTimeout[retries]`, and one lemma per action shows that it keeps `IInv`.
`TransactionOps_proofs` holds the facts about the table: the slot `start()`
takes was free, only that slot changes, and `complete()` frees at most one.

### The client

`Client_proofs` follows the code operation by operation: one lemma for each
operator of `Client` (`SendRequestOK`, `OnBlock2OK`, `ReactOK`, `TickTxOK`,
...), one for each action, and `ClientPeers_proofs` adds the servers and the
network. There are three invariants.

**Whose token is it?** `onPacket()` matches by token, so `RightCallback`
depends on every table that holds a token, and on every packet in flight. The
types alone do not say to whom a token belongs. `ClientTablesOK(own)` says it
with a relation `own` between tokens and calls: each pending slot,
transaction, discovery and packet carries a token that `own` gives to its
call. A step extends `own` by at most the next token (`Grows`), so `own` stays
a function as long as that token is not in use, which is what
`NextTokenUnused` says; then no handler gets a wrong answer (`Right`). The
code does not look whether the next token is in use
(`PulseCoAPClient.cpp:32`), so `NextTokenUnused` is a hypothesis of
`AnswersReachTheirCall`, no consequence of the code: 256 calls while a
subscription lives reuse its token. The theorem says that nothing else can go
wrong, also after the counter has wrapped: pairs of tokens that have gone out
of use are forgotten (`ForgetToken`). `ClientTypeCorrect` needs no such
hypothesis.

**Do the tokens suffice?** When they do, the hypothesis is a theorem. Each API
call takes one token and so does each cancellation, a call is cancelled at most
once, and nothing else takes one: the blocks of a transfer keep theirs. `Spent`
counts the calls and the cancelled ones among them, and `Thrifty` says that the
next token is at most one more than that and that whatever holds a token, a
slot, a transaction or a packet, holds a lower one (`UsedBefore`, `Below`).
Under `TokensSuffice == 2 * MaxCalls + 1 < TokenMod` the counter does not come
round, and every operation keeps that (`Thrives`): so `TokensNotReused`, and
from it `FewCallsAnswered`. With the 256 values of `nextTokenByte_` that is
127 calls, all of which may be cancelled subscriptions; the servers may be any.

**What has a call been told?** `OneOutcome` is not inductive: a call with one
outcome could get another one if a slot still had its number. `Ledger` relates
the counters of a call to its slots: a number not issued has no slot and no
outcome, a one-shot call that is pending has had none, a call has at most one
slot, a live subscription has not been cancelled, and a cancelled one has had
one more response at most, and only when no slot is left. While a handler runs
its call is settled although the slot is still there; `Ledger(c, n)` therefore
excepts the call `n` whose handler is running, and `poll()` ends with `n = 0`.
The operations are grouped by what they do to the ledger: a step `Shrinks`,
`Takes` or `Opens` an entry, `Cancels` or `Settles` a call. From it follow
`OutcomesCounted` and `CancelledIsQuiet`, without a hypothesis about tokens: a
wrong answer is still only one.

The same groups give `SubscriptionsKept`. `Follows` says that each live
subscription keeps its slot with its token, or has been cancelled; `tick()`
may take it as well, but only when a transaction with its token had used up
its retries (`TimerEnded`). The second callback of the same `poll()` may
already see a table that the first has changed, so this is stated of any two
tables and composed (`FollowsTwice`).

### The server

`ServerInv` joins types, `Unique` (a client and token have one observer slot)
and `Matching` (the application's handles and the claimed slots are a
bijection, with the same request). `UniqueObservers` and `HandlesMatchSlots` are parts of
it. What makes
`HandlesMatchSlots` inductive is that a slot is claimed and its handle given
out in the same `poll()`, and that `respond()` takes a handle away.

`RemovedForCause` follows from these and one pass over the branches of `poll()`,
`notify()` and `respond()`: only a Reset, a deregistration and a transaction
that has used up its retries lead to `removeObserver()`, and each names the
client and token, or the client and message ID, of the observer that goes
(`OnlyForCause`). It needs no assumption about tokens, because a transaction is
a cause whether it is a notification or a separate response. That the latter is
one, against the comment at `PulseCoAPServer.cpp:306-308`, is what the run
`server_separate` shows. PulseCoAP's own client gets there with `observe()` on a
resource whose handler defers: the registering GET has the token of both.

### Client and server together

`SystemInv` joins the invariants of the two roles. Neither needs the other's:
what the server sends is an answer some peer could give (`ToClient`), and what
the client sends is a request some client could make (`FromClient`), so the
lemmas of the two modules are used as they are. The relation between tokens and
calls is left open (`Anyone`): these theorems also hold when tokens are used
again.

`ObserversAreSubscriptions` is about three places at once: the slot of the
client, the observer of the server, and a register packet between them, which
may arrive late, twice, or after the subscription is gone. `Granted(c, n, path,
token)` says of call `n` that it is a subscription, and that the slot it still
has is one for that path and token. The invariant is that every observer is
granted, that every register packet in the network is (`Pledged`), and that
each transaction of the client that will send one again is (`Honest`). No step
of the client takes a grant back (`Upholds`), because a slot keeps path and
token as long as it has its call, and a call gets one slot only. The operations
either make no register packet (`Tame`) or make one for the call they open
(`Asks`); `Faith` carries this through the callbacks inside `poll()`. The
server adds nothing: an observer after a step was one before, or the received
packet asked for it (`ObserversExplained`).

### Uploads

A session of the server is found by client and token and holds nothing that
says which `put()` its bytes are from, so `SessionIsPrefix` is a statement about
tokens. `TransferInv` therefore adds to `SystemInv` a relation `own` between
tokens and calls, as in the proofs of the client, and says that both sides go by
it (`Identified`):

- each token belongs to one call, and only to one that the client has used
  before; with `TokensSuffice` the next token is then nobody's, and the pair a
  new call adds keeps `own` a function;
- whatever the server keeps of a request, an observer, a claimed slot, a
  transaction or a session, has the token of a call (`Traced`). This is what
  makes `SystemAnswered` more than `FewCallsAnswered` with another peer: the
  answers are those this server gives, some of them long after their request;
- every packet with a Block1 option carries the block its number names, of the
  payload of the call it is about (`Genuine`), and so does each transaction of
  the client that will send one again, while a slot knows the size and the next
  block of its upload (`Truthful`);
- a session holds as many blocks as it has counted of an upload that owns its
  token (`HoldsUpload`), and each body given to a handler is whole (`Whole`).

A block is appended only when its number is the one expected. It is then the
block that follows of the same call, because packet and session have the token
in common and `own` gives it to one call: `BlockAdded` is the arithmetic,
`BlockContinues` the argument about tokens. `SessionsArePrefixes` includes that
a session counts one block at least, so `nextExpectedNum - 1` does not wrap.

The hypothesis is needed. A restarted client begins with the first token again:
`transfers_restart` shows a body merged of two payloads, and 256 calls without
a restart may bring the same about.

### Downloads

A slot of the client that collects blocks is the counterpart of a session, but
what it may be sent depends on what it has asked for, and a block repeated by
either side makes it ask twice. So the argument goes once round. `DownloadInv`
adds to `TransferInv`:

- a slot whose call still waits for its answer has collected the beginning of
  the representation of its own path, as many blocks as it has counted
  (`Collecting`, part of `Fetching`);
- a request in the network, or one that will be sent again, is for the path of
  that slot and for no block beyond the next one (`Wanted`, `AsksFor`). A slot
  only counts upwards, and keeps its path, so a request stays one of those
  however late it is (`Expects`); once the call has its answer nothing is said;
- a response with a Block2 option carries the block its number names, of the
  representation of the path it was requested for, and somebody has asked for
  it (`Bears`).

The server's part is that it answers with the block that is asked for
(`Portion`, `ServerPortions`), notifications and separate responses having no
blocks; from `Wanted` of the request follows `Bears` of its answer. The client's
part is `Heeds`: a response is for the call of the slot with its token (`Meant`,
which is `Identified` again), so a block with the expected number continues the
representation (`BlockFollows`, `CollectedFits`) and one with another number
adds nothing. A final block that is not the expected one does not arrive: no
later one has been asked for, and an earlier one is not final as long as the
slot lacks a part.

`RepliesFit` says that the client's buffer holds every representation. It is
necessary: what does not fit into `PULSECOAP_BLOCK2_MAX_BODY` is left out without
notice while the remaining blocks are still requested (`PulseCoAPClient.cpp:481`),
and with `MaxBlock2Body = 2` in `MCTransfers.cfg` TLC finds a handler that gets
two of three units with the code of success. The run `transfers` satisfies both
hypotheses.

### The DTLS session table

The theorems hold for every set of peers, number of sessions and number of
sends, and for every outcome of the external calls. The only assumption is
`DtlsAssumption`: the endpoint of a zeroed session is no peer.
`OneSessionPerPeer` rests on `findSession()` being asked before
`allocSession()`, also after `tickTimeouts()` has reset slots.
`OwnSessionOnce` speaks of datagrams that have gone out and says nothing of
those that still wait, so it is not inductive: a slot that keeps its buffer
when it is given to another peer violates it only later. The inductive
invariant `DtlsInv` adds that whatever waits in a session was given for the
peer of that session, is the latest one for it and has not gone out
(`MayWait`), and the types. It is stated of any table and log (`Sound`),
because `receive()` works on a table whose timed-out sessions have been reset
and which is not a state: `TickSound`, `PutSound` (one slot changes),
`WriteSound` and `SendSound` (the log) are its lemmas, and `SendPreserves` and
`ReceivePreserves` combine them, one step per branch of the two handlers. The
two action properties follow from the invariant and one pass over the same
branches: `GoesOn` for a handshake that keeps its slot, `OnlyLatestGo` for the
datagrams that a step sends.

`HandshakeBounded` compares the time a handshake has really lasted with the
timeout, while the code compares what its clock says. `AgesKept` says that the
two agree, because nothing that goes on with a handshake starts its clock again
(`OperationsKeepAge`), and that one older than the timeout is found only between
a unit of time and the next `receive()`, which resets it first.

### The lwIP ring

`RingRefinesFifo` proves the refinement itself: under the mapping `queue <-
Waiting` of `LwipRing`, the initial state is the empty FIFO, `Arrive` and
`Receive` are an arrival and a removal or a stutter. The counters are words
that overflow independently, and the sequence of waiting datagrams is read off
the slots between them. `RingInv` bounds their distance modulo the word;
`OverflowUnnoticed` is where `SizeAssumption` is used: the slot of a counter
is its value modulo the number of slots also after the overflow only when that
number divides the word. The default of 4 slots and 2^32 does.

### Only model-checked

- `BufferedIsRetried`, `SeparateTimeoutHarmless`, `OldestIsDropped` and the other
  statements the code refutes;
- the properties of `Wire`: what the recursive operators of `Codec` and
  `Resources` compute for every input needs induction over data, which is
  outside the prover's reach;
- all liveness properties (`EveryTransactionEnds`, `DeadPeerRemoved`,
  `TrackedCallEnds`, `TransferEnds`): the prover does not
  handle fairness.

## Not modelled

- Failures of `send()` and `encode()` inside `poll()`, `notify()` and
  `respond()`; those of API calls are (`CallApiFails`, `CancelObserveFails`,
  and the refusals of `Wire`). A response that does not fit the buffer is then
  not sent at all.
- `notify()` on a template resource and the Observe sequence number: the
  server of the model has literal paths. Codes 5.01 and 4.02 are left out of
  `Server`.
- Different block sizes on the two sides; what a server does that is not
  PulseCoAP with blocks; Block2 of notifications.
- Tokens and message IDs wrap in the model, but no run consumes that many: the
  proofs cover it, with `NextTokenUnused` as a hypothesis where it matters;
  beyond `TokensSuffice` the code does not guarantee that one.
- Of DTLS: `begin()`, the PSK store, the bio and timer callbacks, which are
  mbedTLS configuration and plumbing; the slice of `rawBuf_` a session keeps
  between calls; the closing of a session by its peer.
- `begin()` and multicast membership of the POSIX transport, the Arduino
  transport and `send()` of lwIP: calls of the operating system or the stack.
- `PulseCoAPConfig.h`: its limits are the CONSTANTS of the modules.

## Plan

1. A client with wrapped tokens, and one whose `send()` fails inside `poll()`.
2. `notify()` on a template resource, and the provenance of
   `lastSentMessageId`.
3. The closing of DTLS sessions by a peer, and the failure of the cookie exchange
   (`HELLO_VERIFY_REQUIRED`).
