-------------------------------- MODULE Wire --------------------------------
(***************************************************************************)
(* The way of one message through both stacks: an operation of Client,     *)
(* Server or the application builds a Message and encodes it, the POSIX    *)
(* transport sends it, the peer receives and decodes it, and a server      *)
(* looks the resource up, or lists its resources.                          *)
(***************************************************************************)
EXTENDS Resources, PosixAddress

CONSTANTS
    Asked,        \* what is to be sent: the arguments of an operation
    Endpoints,    \* where it may be sent to
    MaxMsgSize,   \* PULSECOAP_MAX_MSG_SIZE of the sender
    RxSizes       \* ... of the receivers

VARIABLES
    stage,        \* how far the operation has got: "asked", "refused", "built",
                  \* "sent", "received", "found" or "listed"
    asked,        \* the operation and its arguments
    to,           \* the endpoint given to send()
    dualStack,    \* of the socket
    msg,          \* the Message
    datagram,     \* its encoding, or the body of a listing
    from,         \* the endpoint receive() reports for the peer at "to"
    cut,          \* whether the datagram was longer than the receiver's buffer
    got,          \* what decode() returned, and the message
    found         \* the resource that findResource() returned

wireVars == <<stage, asked, to, dualStack, msg, datagram, from, cut, got, found>>

Observe       == 6
ContentFormat == 12
Block2        == 23
Block1        == 27

(* The Observe value of an operation is a set of at most one number.       *)
WithObserve(m, a) ==
    IF a.observe = {} THEN m ELSE AddOptionUint(m, Observe, Min(a.observe))

WithBlock(m, number, a) ==
    AddOptionUint(m, number, ToBlockValue(a.block.num, a.block.more, a.block.szx))

Start(a) == [EmptyMessage EXCEPT !.type = a.type, !.code = a.code, !.mid = a.mid,
                                 !.token = a.token]

WithPayload(m, a) ==
    IF a.payload = <<>> THEN m
    ELSE [AddOptionUint(m, ContentFormat, a.format) EXCEPT !.payload = a.payload]

(* sendRequest(): empty if the path has too many segments. *)
BuildRequest(a) ==
    {WithPayload(m, a) : m \in AddUriPathOptions(WithObserve(Start(a), a), a.path)}

(* Mutant: Block1 is added in front of Content-Format. *)
BuildBlock1Early(a) ==
    {WithPayload(WithBlock(m, Block1, a), a) : m \in AddUriPathOptions(Start(a), a.path)}

(* sendBlock1() *)
BuildBlock1(a) ==
    {WithBlock(WithPayload(m, a), Block1, a) : m \in AddUriPathOptions(Start(a), a.path)}

(* sendBlock2Request() *)
BuildBlock2Request(a) ==
    {WithBlock(m, Block2, a) : m \in AddUriPathOptions(Start(a), a.path)}

(* sendPiggybackedResponse(), respond(), notify() *)
BuildResponse(a) == {WithPayload(WithObserve(Start(a), a), a)}

(* sendBlock2Response() *)
BuildBlock2Response(a) ==
    {WithBlock(WithPayload(WithObserve(Start(a), a), a), Block2, a)}

(* An application that uses Message itself, with the options of its choice. *)
BuildOptions(a) ==
    LET added[k \in 0 .. Len(a.options)] ==
          IF k = 0 THEN Start(a)
          ELSE AddOption(added[k - 1], a.options[k].number, a.options[k].value)
    IN  {[added[Len(a.options)] EXCEPT !.payload = a.payload]}

Build(a) ==
    CASE a.kind = "request"  -> BuildRequest(a)
      [] a.kind = "block1"   -> BuildBlock1(a)
      [] a.kind = "get2"     -> BuildBlock2Request(a)
      [] a.kind = "response" -> BuildResponse(a)
      [] a.kind = "block2"   -> BuildBlock2Response(a)
      [] a.kind = "options"  -> BuildOptions(a)

BuildMessage ==
    /\ stage = "asked" /\ asked.kind # "list"
    /\ IF Build(asked) = {} THEN stage' = "refused" /\ UNCHANGED msg
       ELSE stage' = "built" /\ msg' \in Build(asked)
    /\ UNCHANGED <<asked, to, dualStack, datagram, from, cut, got, found>>

(* encode() and Transport::send(); a message that does not fit is not sent. *)
SendDatagram ==
    /\ stage = "built"
    /\ datagram' = Encode(msg, MaxMsgSize)
    /\ stage' = IF datagram' = <<>> THEN "refused" ELSE "sent"
    /\ UNCHANGED <<asked, to, dualStack, msg, from, cut, got, found>>

(* Transport::receive() into a buffer of size bytes, and decode(); an       *)
(* answer of the peer comes back from the address the datagram went to.    *)
ReceiveDatagram(size) ==
    /\ stage = "sent"
    /\ cut' = (size < Len(datagram))
    /\ got' = Decode(SubSeq(datagram, 1, Min({size, Len(datagram)})))
    /\ from' = FillEndpoint(SocketAddress(to, dualStack))
    /\ stage' = "received"
    /\ UNCHANGED <<asked, to, dualStack, msg, datagram, found>>

(* The lookup at the beginning of handleRequest(), for any message. *)
FindPath ==
    /\ stage = "received" /\ got.error = "None"
    /\ found' = [path |-> JoinUriPath(got.message),
                 hit  |-> {FindResource(path) : path \in JoinUriPath(got.message)}]
    /\ stage' = "found"
    /\ UNCHANGED <<asked, to, dualStack, msg, datagram, from, cut, got>>

(* wellKnownCoreHandler(): the body of the answer, into a buffer of cap     *)
(* bytes.                                                                  *)
ListResources ==
    /\ stage = "asked" /\ asked.kind = "list"
    /\ datagram' = LinkFormat(asked.table, asked.cap)
    /\ stage' = "listed"
    /\ UNCHANGED <<asked, to, dualStack, msg, from, cut, got, found>>

Nothing == [error |-> "None", message |-> EmptyMessage]

WireInit ==
    /\ stage = "asked"
    /\ asked \in Asked /\ to \in Endpoints /\ dualStack \in BOOLEAN
    /\ to.isV6 => dualStack
    /\ msg = EmptyMessage /\ datagram = <<>> /\ from = to /\ cut = FALSE
    /\ got = Nothing /\ found = [path |-> {}, hit |-> {}]

WireNext ==
    \/ BuildMessage \/ SendDatagram \/ FindPath \/ ListResources
    \/ \E size \in RxSizes : ReceiveDatagram(size)

WireSpec == WireInit /\ [][WireNext]_wireVars

-----------------------------------------------------------------------------
Received == stage \in {"received", "found"}

(* What was built is what is decoded, for every token, for deltas and      *)
(* lengths on both sides of each limit of the option format, and with or   *)
(* without a payload.                                                      *)
MessageSurvives ==
    Received /\ ~cut => got = [error |-> "None", message |-> msg]

IsPrefixOf(s, t) == Len(s) <= Len(t) /\ SubSeq(t, 1, Len(s)) = s

(* A receiver whose buffer is too small for a datagram rejects it or takes *)
(* a true beginning of the message, never another option or another value. *)
CutIsHarmless ==
    Received /\ got.error = "None" =>
       /\ got.message.token = msg.token /\ got.message.mid = msg.mid
       /\ IsPrefixOf(got.message.options, msg.options)
       /\ IsPrefixOf(got.message.payload, msg.payload)

(* What the options with a number say to the receiver. *)
Texts(m, number)  == {m.options[k].value : k \in OptionsNumbered(m, number)}
Uints(m, number)  == {OptionAsUint(text) : text \in Texts(m, number)}
Blocks(m, number) == {FromBlockValue(text) : text \in Texts(m, number)}

(* The number of non-empty segments of a path. *)
Segments(path) ==
    Cardinality({k \in DOMAIN path : path[k] # Slash /\ (k = 1 \/ path[k - 1] = Slash)})

(* The receiver reads the Observe value, the content format and the block  *)
(* number that the sender meant, whenever the path leaves room for them in *)
(* the option table: none is dropped for being added out of order, none    *)
(* changes its value for having zero bytes.                                *)
ArgumentsArrive ==
    Received /\ ~cut /\ asked.kind # "options" /\ Segments(asked.path) + 3 <= MaxOptions =>
       /\ Uints(got.message, Observe) = asked.observe
       /\ Uints(got.message, ContentFormat) = IF asked.payload = <<>> THEN {} ELSE {asked.format}
       /\ Blocks(got.message, Block1) = IF asked.kind = "block1" THEN {asked.block} ELSE {}
       /\ Blocks(got.message, Block2) = IF asked.kind \in {"get2", "block2"} THEN {asked.block} ELSE {}

(* Slashes that joinUriPath() never writes: before another one, or at the  *)
(* end of anything but the root path.                                      *)
Superfluous(path) ==
    {k \in DOMAIN path : path[k] = Slash /\ IF k = Len(path) THEN k > 1 ELSE path[k + 1] = Slash}

SegmentOf(path, n) ==
    LET starts == {k \in DOMAIN path : path[k] # Slash /\ (k = 1 \/ path[k - 1] = Slash)}
        start  == CHOOSE k \in starts : Cardinality({j \in starts : j <= k}) = n
    IN  SubSeq(path, start, ToSlash(path, start) - 1)

(* The resource with this path, or a template with as many segments whose  *)
(* literal ones are those of the path.                                     *)
Serves(resource, path) ==
    /\ Superfluous(resource) = {} /\ Segments(resource) = Segments(path)
    /\ \A n \in 1 .. Segments(path) :
          \/ SegmentOf(resource, n)[1] = Colon
          \/ SegmentOf(resource, n) = SegmentOf(path, n)

(* A request reaches the resource its path names, however slashes were     *)
(* written, and a literal resource goes before a template: splitting the   *)
(* path, joining it and matching it segment by segment agree with one      *)
(* another.  (Resource paths of the run begin with a slash.)               *)
RightResource ==
    stage = "found" /\ ~cut /\ asked.kind = "request" =>
       \A hit \in found.hit :
          LET serving == {r \in DOMAIN ResourcePaths : Serves(ResourcePaths[r], asked.path)}
              literal == {r \in serving : ~IsTemplate(ResourcePaths[r])}
          IN  hit.index = IF literal # {} THEN Min(literal)
                          ELSE IF serving # {} THEN Min(serving) ELSE 0

(* The parameters a handler reads are segments of the path that was asked  *)
(* for, those at the places of their names.                                *)
ParametersAreSegments ==
    stage = "found" /\ ~cut /\ asked.kind = "request" =>
       \A hit \in found.hit : \A k \in DOMAIN hit.params :
          \E n \in 1 .. Min({Segments(asked.path), Segments(ResourcePaths[hit.index])}) :
             /\ SegmentOf(ResourcePaths[hit.index], n)[1] = Colon
             /\ Captured(Tail(SegmentOf(ResourcePaths[hit.index], n))) = hit.params[k].name
             /\ Captured(SegmentOf(asked.path, n)) = hit.params[k].value

(* The links of the resources, joined by commas, with the attributes that  *)
(* attrs selects for each.                                                 *)
Listing(table, n, attrs) ==
    LET upTo[k \in 0 .. n] ==
          IF k = 0 THEN <<>>
          ELSE upTo[k - 1] \o (IF k = 1 THEN <<>> ELSE Comma) \o Link(table[k])
                 \o (IF "rt" \in attrs[k] THEN TypeAttr(table[k]) ELSE <<>>)
                 \o (IF "obs" \in attrs[k] THEN ObsAttr(table[k]) ELSE <<>>)
    IN  upTo[n]

Both == {"rt", "obs"}

(* However short the buffer, the body served at /.well-known/core leaves   *)
(* room for its NUL and lists the first resources with whole attributes;   *)
(* it is complete if the buffer is large enough, and ends with a comma at  *)
(* most where a resource is missing.  This is less than the documentation  *)
(* says: API.md:926 promises "all user-registered resource paths", with no *)
(* word of a limit, and the body shown at API.md:931 begins with           *)
(* </.well-known/core>, which the code skips (PulseCoAPServer.cpp:158).    *)
ListingIsSound ==
    stage = "listed" =>
       LET table == SelectSeq(asked.table, LAMBDA r : r.path # WellKnown)
           full  == Listing(table, Len(table), [k \in DOMAIN table |-> Both])
       IN  /\ Len(datagram) < asked.cap
           /\ Len(full) < asked.cap => datagram = full
           /\ \E n \in 0 .. Len(table) : \E attrs \in [1 .. n -> SUBSET Both] :
                 \/ datagram = Listing(table, n, attrs)
                 \/ n < Len(table) /\ datagram = Listing(table, n, attrs) \o Comma

(* An answer is reported to come from the endpoint that was asked, as      *)
(* complete() and the server's tables compare it, on dual-stack and on     *)
(* IPv4-only sockets, for an endpoint in its usual form.                   *)
AnswerComesFromPeer == Received => from = to
=============================================================================
