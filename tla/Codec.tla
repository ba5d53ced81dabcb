-------------------------------- MODULE Codec -------------------------------
(***************************************************************************)
(* Class Message (PulseCoAPMessage.h/.cpp): how a CoAP message is built,   *)
(* encoded into a datagram and decoded from one, byte by byte, and the     *)
(* integers that options carry (also PulseCoAPBlockwise.h).                *)
(*                                                                         *)
(* A datagram, a token, an option value and a payload are sequences of     *)
(* bytes; a payload that was never set is the empty one.                   *)
(***************************************************************************)
EXTENDS Integers, Sequences

CONSTANTS
    MaxOptions,    \* PULSECOAP_MAX_OPTIONS
    MaxToken       \* PULSECOAP_MAX_TOKEN_LEN

Word == 65536      \* uint16_t wraps here

(* reset() *)
EmptyMessage == [type |-> 0, code |-> 0, mid |-> 0, token |-> <<>>,
                 options |-> <<>>, payload |-> <<>>]

(* The table has room, and the numbers do not descend. *)
OptionFits(msg, number) ==
    /\ Len(msg.options) < MaxOptions
    /\ \A k \in DOMAIN msg.options : msg.options[k].number <= number

(* addOption(); one that does not fit leaves the message as it is. *)
AddOption(msg, number, value) ==
    IF OptionFits(msg, number)
    THEN [msg EXCEPT !.options = Append(@, [number |-> number, value |-> value])]
    ELSE msg

(* addOptionUint(): big-endian without leading zeros, 0 has no bytes. *)
UintBytes(value) ==
    LET digits[v \in Nat] == IF v = 0 THEN <<>> ELSE Append(digits[v \div 256], v % 256)
    IN  digits[value]

AddOptionUint(msg, number, value) == AddOption(msg, number, UintBytes(value))

(* optionAsUint(): at most four bytes are read. *)
OptionAsUint(value) ==
    LET number[k \in Nat] == IF k = 0 THEN 0 ELSE number[k - 1] * 256 + value[k]
    IN  number[IF Len(value) > 4 THEN 4 ELSE Len(value)]

(* findOption(): the positions of the options with a number. *)
OptionsNumbered(msg, number) == {k \in DOMAIN msg.options : msg.options[k].number = number}

(* BlockOption::toOptionValue(), fromOption() *)
ToBlockValue(num, more, szx) == num * 16 + (IF more THEN 8 ELSE 0) + (szx % 8)
FromBlockValue(value) ==
    LET v == OptionAsUint(value)
    IN  [num |-> v \div 16, more |-> (v \div 8) % 2 = 1, szx |-> v % 8]

-----------------------------------------------------------------------------
(* encode() *)

(* Mutant: the two-byte form starts one value late. *)
OptionFieldLate(value) ==
    IF value < 13 THEN [nibble |-> value, extra |-> <<>>]
    ELSE IF value < 270 THEN [nibble |-> 13, extra |-> <<(value - 13) % 256>>]
    ELSE [nibble |-> 14, extra |-> <<(value - 269) \div 256, (value - 269) % 256>>]

(* encodeOptionField(): the nibble of a delta or length, and what follows. *)
OptionField(value) ==
    IF value < 13 THEN [nibble |-> value, extra |-> <<>>]
    ELSE IF value < 269 THEN [nibble |-> 13, extra |-> <<value - 13>>]
    ELSE [nibble |-> 14, extra |-> <<(value - 269) \div 256, (value - 269) % 256>>]

(* One option after an option with number last. *)
EncodeOption(option, last) ==
    LET delta  == OptionField((option.number - last) % Word)
        length == OptionField(Len(option.value))
    IN  <<delta.nibble * 16 + length.nibble>> \o delta.extra \o length.extra \o option.value

EncodeOptions(options) ==
    LET upTo[k \in 0 .. Len(options)] ==
          IF k = 0 THEN <<>>
          ELSE upTo[k - 1] \o EncodeOption(options[k],
                                IF k = 1 THEN 0 ELSE options[k - 1].number)
    IN  upTo[Len(options)]

Header(msg) ==
    <<64 + msg.type * 16 + Len(msg.token), msg.code, msg.mid \div 256, msg.mid % 256>>

(* The datagram of a message, empty if it has more than capacity bytes. *)
Encode(msg, capacity) ==
    LET bytes == Header(msg) \o msg.token \o EncodeOptions(msg.options)
                   \o (IF msg.payload = <<>> THEN <<>> ELSE <<255>> \o msg.payload)
    IN  IF Len(bytes) > capacity THEN <<>> ELSE bytes

-----------------------------------------------------------------------------
(* decode() *)

(* Every rejection but one leaves the message reset. *)
Rejected(error) == [error |-> error, message |-> EmptyMessage]

(* The delta or length with this nibble whose extra bytes start at pos;    *)
(* next is the position after them.                                        *)
Field(in, pos, nibble) ==
    CASE nibble < 13 -> [value |-> nibble, next |-> pos]
      [] nibble = 13 -> [value |-> 13 + in[pos], next |-> pos + 1]
      [] nibble = 14 -> [value |-> (269 + in[pos] * 256 + in[pos + 1]) % Word,
                         next |-> pos + 2]

(* How many extra bytes a nibble announces. *)
Extra(nibble) == CASE nibble < 13 -> 0 [] nibble = 13 -> 1 [] nibble = 14 -> 2

(* Mutant: the end of the datagram is not looked at after the value's length. *)
OptionAtUnbounded(in, pos, last) ==
    LET delta  == Field(in, pos + 1, in[pos] \div 16)
        length == Field(in, delta.next, in[pos] % 16)
    IN  IF in[pos] \div 16 = 15 \/ in[pos] % 16 = 15 THEN [error |-> "BadOption"]
        ELSE IF pos + Extra(in[pos] \div 16) + Extra(in[pos] % 16) > Len(in)
        THEN [error |-> "TooShort"]
        ELSE [error |-> "None", next |-> length.next + length.value,
              option |-> [number |-> (last + delta.value) % Word,
                          value  |-> SubSeq(in, length.next,
                                       IF length.next + length.value - 1 > Len(in) THEN Len(in)
                                       ELSE length.next + length.value - 1)]]

(* The option that starts at pos, and where the next one starts. *)
OptionAt(in, pos, last) ==
    LET delta  == Field(in, pos + 1, in[pos] \div 16)
        length == Field(in, delta.next, in[pos] % 16)
    IN  IF in[pos] \div 16 = 15 \/ in[pos] % 16 = 15 THEN [error |-> "BadOption"]
        ELSE IF pos + Extra(in[pos] \div 16) + Extra(in[pos] % 16) > Len(in)
        THEN [error |-> "TooShort"]
        ELSE IF length.next + length.value - 1 > Len(in) THEN [error |-> "TooShort"]
        ELSE [error |-> "None", next |-> length.next + length.value,
              option |-> [number |-> (last + delta.value) % Word,
                          value  |-> SubSeq(in, length.next, length.next + length.value - 1)]]

LastNumber(msg) ==
    IF msg.options = <<>> THEN 0 ELSE msg.options[Len(msg.options)].number

(* The options and the payload from position pos on, added to msg. *)
RECURSIVE DecodeFrom(_, _, _)
DecodeFrom(in, pos, msg) ==
    IF pos > Len(in) THEN [error |-> "None", message |-> msg]
    ELSE IF in[pos] = 255
    THEN IF pos = Len(in) THEN Rejected("EmptyPayloadMarker")
         ELSE [error |-> "None",
               message |-> [msg EXCEPT !.payload = SubSeq(in, pos + 1, Len(in))]]
    ELSE LET at == OptionAt(in, pos, LastNumber(msg))
         IN  IF at.error # "None" THEN Rejected(at.error)
             ELSE IF Len(msg.options) >= MaxOptions THEN Rejected("TooManyOptions")
             ELSE DecodeFrom(in, at.next, [msg EXCEPT !.options = Append(@, at.option)])

(* A token length out of range is reported with the type already set. *)
Decode(in) ==
    LET type  == (in[1] \div 16) % 4
        token == in[1] % 16
    IN  IF Len(in) < 4 THEN Rejected("TooShort")
        ELSE IF in[1] \div 64 # 1 THEN Rejected("BadVersion")
        ELSE IF token > MaxToken
        THEN [error |-> "BadTokenLength", message |-> [EmptyMessage EXCEPT !.type = type]]
        ELSE IF 4 + token > Len(in) THEN Rejected("TooShort")
        ELSE DecodeFrom(in, 5 + token,
               [EmptyMessage EXCEPT !.type = type, !.code = in[2],
                                    !.mid = in[3] * 256 + in[4],
                                    !.token = SubSeq(in, 5, 4 + token)])
=============================================================================
