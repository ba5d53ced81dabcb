---------------------------- MODULE MCTransports ----------------------------
(***************************************************************************)
(* The way of one message (Wire), with the arguments that are at the       *)
(* limits of the formats, the DTLS session table and the lwIP ring, side   *)
(* by side: a behaviour is one of one of the three, while the others stay  *)
(* in their initial states.                                                *)
(***************************************************************************)
EXTENDS Wire, DtlsSessions, LwipRing

VARIABLE part   \* which of the three this behaviour is about

Letters(n, c) == [k \in 1 .. n |-> c]
Bytes(n) == [k \in 1 .. n |-> (7 * k + n) % 256]

(* "/a", "/:b/a", "/a/:b", "/b/:a/a" and the root. *)
MCResourcePaths == << <<47, 97>>, <<47, 58, 98, 47, 97>>, <<47, 97, 47, 58, 98>>,
                      <<47, 98, 47, 58, 97, 47, 97>>, <<47>> >>

MCPaths == UNION {[1 .. n -> {47, 97, 98}] : n \in 0 .. 5}
             \cup {<<47, 98, 47, 97, 97, 97, 47, 97>>, <<47>> \o Letters(13, 97),
                   <<47, 97, 47, 98, 47, 97, 47, 98, 47, 97>>}

Args(kind, path, observe, format, block, payload) ==
    [kind |-> kind, type |-> 0, code |-> 3, mid |-> 257, token |-> <<9>>, path |-> path,
     observe |-> observe, format |-> format, block |-> block, payload |-> payload]

MCBlocks == [num : {0, 1, 15, 16, 4096, 1048575}, more : BOOLEAN, szx : {0, 6}]
NoBlock == [num |-> 0, more |-> FALSE, szx |-> 0]

MCRequests ==
    {Args("request", path, {}, 0, NoBlock, <<>>) : path \in MCPaths}
    \cup {Args("request", path, observe, 50, NoBlock, payload) :
             path \in {<<>>, <<97>>, <<47, 97, 47, 98, 47, 97, 47, 98>>},
             observe \in {{}, {0}, {1}}, payload \in {<<>>, <<255, 0>>}}

MCBlockwise ==
    {Args(kind, <<97>>, {}, 11542, block, <<1, 2>>) :
        kind \in {"block1", "block2"}, block \in MCBlocks}
    \cup {Args("get2", <<97>>, {}, 0, block, <<>>) : block \in MCBlocks}

MCResponses ==
    {Args("response", <<>>, observe, 40, NoBlock, <<7>>) :
        observe \in {{}, {0}, {255}, {256}, {65536}, {16777215}}}

(* Options whose deltas and lengths are next to 13 and 269. *)
MCOption == {[number |-> number, value |-> Bytes(length)] :
               number \in {0, 12, 13, 268, 269, 65535}, length \in {0, 13, 269}}
MCLast   == {[number |-> number, value |-> Bytes(length)] :
               number \in {13, 281, 537, 538}, length \in {0, 12, 268}}

MCOptions ==
    {[kind |-> "options", type |-> 1, code |-> 69, mid |-> 65535, token |-> token,
      options |-> options, payload |-> payload] :
        token \in {<<>>, <<1, 2, 3, 4, 5, 6, 7, 8>>}, payload \in {<<>>, <<255>>},
        options \in {<<o>> : o \in MCOption} \cup {<<o, p>> : o \in MCOption, p \in MCLast}}

MCResource == [path : {<<47, 97>>, <<47, 98, 98>>}, rt : {<<>>, <<116>>}, obs : BOOLEAN]
MCWellKnown == [path |-> WellKnown, rt |-> <<>>, obs |-> FALSE]

MCListings ==
    {[kind |-> "list", cap |-> cap, table |-> <<MCWellKnown>> \o table] :
        cap \in 1 .. 40, table \in UNION {[1 .. n -> MCResource] : n \in 0 .. 2}}

MCAsked == MCListings \cup MCRequests \cup MCBlockwise \cup MCResponses \cup MCOptions

MCEndpoints == {Endpoint(FALSE, <<192, 0, 2, 1>>, 5683),
                Endpoint(TRUE, <<32, 1, 13, 184, 0, 0, 0, 0, 0, 0, 0, 0, 192, 0, 2, 1>>, 5683)}

(* Where a Wire that does nothing stands. *)
NoRequest  == Args("response", <<>>, {}, 40, NoBlock, <<7>>)
NoEndpoint == Endpoint(FALSE, <<192, 0, 2, 1>>, 5683)

MCRxSizes == 4 .. 16 \cup {280, 300}

-----------------------------------------------------------------------------
Init ==
    /\ part \in {"wire", "dtls", "ring"}
    /\ WireInit /\ DtlsInit /\ RingInit
    /\ part # "wire" => asked = NoRequest /\ to = NoEndpoint /\ dualStack
    /\ part # "dtls" => isServer

Next ==
    \/ part = "wire" /\ WireNext /\ UNCHANGED <<part, dtlsVars, ringVars>>
    \/ part = "dtls" /\ DtlsNext /\ UNCHANGED <<part, wireVars, ringVars>>
    \/ part = "ring" /\ RingNext /\ UNCHANGED <<part, wireVars, dtlsVars>>

Spec == Init /\ [][Next]_<<part, wireVars, dtlsVars, ringVars>>
=============================================================================
