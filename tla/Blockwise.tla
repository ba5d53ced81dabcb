------------------------------ MODULE Blockwise -----------------------------
(***************************************************************************)
(* Block-wise transfer (PulseCoAPBlockwise.h, RFC 7959): how Client and    *)
(* Server cut a payload into blocks and what a block option says.          *)
(*                                                                         *)
(* A payload is a sequence of units and BlockSize is a number of units;    *)
(* both sides use PULSECOAP_BLOCK_SZX, so SZX is left out.  A packet with  *)
(* a block option has the field block1 or block2 and the field data; other *)
(* packets have neither.  The library is built without block-wise transfer *)
(* by default: a payload of at most one block is then all there is.        *)
(***************************************************************************)
EXTENDS Integers, Sequences, FiniteSetsExt

CONSTANTS
    BlockSize,        \* 2^(PULSECOAP_BLOCK_SZX + 4)
    MaxBlock1Body,    \* PULSECOAP_BLOCK1_MAX_BODY
    MaxBlock2Body     \* PULSECOAP_BLOCK2_MAX_BODY

ASSUME BlockAssumption ==
    BlockSize \in Nat \ {0} /\ MaxBlock1Body \in Nat /\ MaxBlock2Body \in Nat

(* byteOffset() *)
Offset(num) == num * BlockSize

(* NUM and M of block num of a payload of size units. *)
Block(size, num) == [num |-> num, more |-> size - Offset(num) > BlockSize]

Slice(payload, num) ==
    SubSeq(payload, Offset(num) + 1, Min({Offset(num) + BlockSize, Len(payload)}))

(* fromOption(): the packet carries the option. *)
HasOption(m, option) == option \in DOMAIN m

(* The packet with the option's fields added. *)
WithOption(m, option) ==
    [f \in DOMAIN m \cup DOMAIN option |-> IF f \in DOMAIN m THEN m[f] ELSE option[f]]

(* The payload of API call n: units that no other payload has. *)
Payload(n, size) == [u \in 1 .. size |-> <<n, u>>]

(* The representation of a resource. *)
Representation(size) == [u \in 1 .. size |-> u]
=============================================================================
