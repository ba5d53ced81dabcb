---------------------------- MODULE PosixAddress ----------------------------
(***************************************************************************)
(* How PosixTransport (PulseCoAPTransportPosix.h) turns an Endpoint into   *)
(* the socket address of a datagram and back.  An address is a sequence of *)
(* 4 or of 16 bytes; two endpoints are equal if operator== says so.        *)
(***************************************************************************)
EXTENDS Naturals, Sequences

Endpoint(isV6, addr, port) == [isV6 |-> isV6, addr |-> addr, port |-> port]

MappedPrefix == <<0, 0, 0, 0, 0, 0, 0, 0, 0, 0, 255, 255>>

(* send(): the address the datagram goes to.  An IPv4-only socket reads    *)
(* ip[], which is zero in an IPv6 endpoint.                                *)
SocketAddress(to, dualStack) ==
    IF dualStack
    THEN [family |-> "inet6", port |-> to.port,
          addr |-> IF to.isV6 THEN to.addr ELSE MappedPrefix \o to.addr]
    ELSE [family |-> "inet", port |-> to.port,
          addr |-> IF to.isV6 THEN <<0, 0, 0, 0>> ELSE to.addr]

(* Mutant: IPv4-mapped addresses are not recognised. *)
FillEndpointPlain(source) ==
    Endpoint(source.family = "inet6", source.addr, source.port)

(* fillEndpoint(): the endpoint a datagram came from. *)
FillEndpoint(source) ==
    IF source.family = "inet" THEN Endpoint(FALSE, source.addr, source.port)
    ELSE IF SubSeq(source.addr, 1, 12) = MappedPrefix
    THEN Endpoint(FALSE, SubSeq(source.addr, 13, 16), source.port)
    ELSE Endpoint(TRUE, source.addr, source.port)
=============================================================================
