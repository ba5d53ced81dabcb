------------------------------ MODULE Resources -----------------------------
(***************************************************************************)
(* Paths and resources: Uri-Path options (PulseCoAPUri.h) and the lookup   *)
(* of the server's resource table (addResource(), matchTemplate() and      *)
(* findResource() of PulseCoAPServer.cpp).  A path is a sequence of bytes. *)
(***************************************************************************)
EXTENDS Codec, FiniteSetsExt

CONSTANTS
    ResourcePaths,   \* the paths given to addResource(), in their order
    MaxPathLen,      \* PULSECOAP_MAX_URI_PATH_LEN, with the final NUL
    MaxParams,       \* PULSECOAP_MAX_PATH_PARAMS
    MaxParamLen      \* PULSECOAP_MAX_PATH_PARAM_LEN, with the final NUL

Slash   == 47
Colon   == 58
UriPath == 11

(* The first position from i on that holds a slash, or that does not. *)
ToSlash(path, i)   == Min({k \in i .. Len(path) : path[k] = Slash} \cup {Len(path) + 1})
PastSlash(path, i) == Min({k \in i .. Len(path) : path[k] # Slash} \cup {Len(path) + 1})

(* addUriPathOptions() from position i on: one option for each segment     *)
(* that is not empty; the result is empty if one finds no room.            *)
RECURSIVE UriPathFrom(_, _, _)
UriPathFrom(msg, path, i) ==
    LET start == PastSlash(path, i)
        end   == ToSlash(path, start)
    IN  IF start > Len(path) THEN {msg}
        ELSE IF ~OptionFits(msg, UriPath) THEN {}
        ELSE UriPathFrom(AddOption(msg, UriPath, SubSeq(path, start, end - 1)), path, end)

AddUriPathOptions(msg, path) == UriPathFrom(msg, path, 1)

(* joinUriPath(): the path of a decoded message, empty if it is too long.  *)
JoinUriPath(msg) ==
    LET joined[k \in 0 .. Len(msg.options)] ==
          IF k = 0 THEN <<>>
          ELSE IF msg.options[k].number # UriPath THEN joined[k - 1]
          ELSE joined[k - 1] \o <<Slash>> \o msg.options[k].value
        path == joined[Len(msg.options)]
    IN  IF Len(path) >= MaxPathLen THEN {}
        ELSE {IF path = <<>> THEN <<Slash>> ELSE path}

-----------------------------------------------------------------------------
(* Captured texts are cut to the size of their buffers. *)
Captured(text) == SubSeq(text, 1, Min({Len(text), MaxParamLen - 1}))

(* Mutant: a parameter takes the rest of the path. *)
GreedyEnd(path, p) == Len(path) + 1

(* Where the value of a parameter that starts at p ends. *)
ValueEnd(path, p) == ToSlash(path, p)

(* matchTemplate() from position t of the template and p of the path on,   *)
(* with the parameters captured so far; the result is empty if they do not *)
(* match.                                                                  *)
RECURSIVE MatchFrom(_, _, _, _, _)
MatchFrom(tmpl, path, t, p, params) ==
    LET atEnd  == t > Len(tmpl)
        pathAt == IF p > Len(path) THEN 0 ELSE path[p]
        tEnd   == ToSlash(tmpl, t)
        pEnd   == ToSlash(path, p)
        value  == SubSeq(path, p, ValueEnd(path, p) - 1)
    IN  IF atEnd \/ pathAt = 0
        THEN IF atEnd /\ pathAt = 0 THEN {params} ELSE {}
        ELSE IF tmpl[t] = Slash
        THEN IF pathAt = Slash THEN MatchFrom(tmpl, path, t + 1, p + 1, params) ELSE {}
        ELSE IF tmpl[t] = Colon
        THEN IF value = <<>> THEN {}
             ELSE MatchFrom(tmpl, path, tEnd, p + Len(value),
                    Append(params, [name  |-> Captured(SubSeq(tmpl, t + 1, tEnd - 1)),
                                    value |-> Captured(value)]))
        ELSE IF SubSeq(tmpl, t, tEnd - 1) = SubSeq(path, p, pEnd - 1)
        THEN MatchFrom(tmpl, path, tEnd, pEnd, params)
        ELSE {}

MatchTemplate(tmpl, path) == MatchFrom(tmpl, path, 1, 1, <<>>)

(* addResource(): a path with "/:" is a template. *)
IsTemplate(path) ==
    \E k \in 1 .. Len(path) - 1 : path[k] = Slash /\ path[k + 1] = Colon

(* findResource(): the first resource with exactly this path, else the     *)
(* first template that matches; 0 if there is none.                        *)
FindResource(path) ==
    LET exact == {r \in DOMAIN ResourcePaths :
                    ~IsTemplate(ResourcePaths[r]) /\ ResourcePaths[r] = path}
        match == {r \in DOMAIN ResourcePaths :
                    /\ IsTemplate(ResourcePaths[r])
                    /\ MatchTemplate(ResourcePaths[r], path) # {}}
    IN  IF exact # {} THEN [index |-> Min(exact), params |-> <<>>]
        ELSE IF match = {} THEN [index |-> 0, params |-> <<>>]
        ELSE [index  |-> Min(match),
              params |-> CHOOSE params \in MatchTemplate(ResourcePaths[Min(match)], path) : TRUE]

(* The arrays for parameters have MaxParams entries: findResource() copies *)
(* as many as the template has.                                            *)
ASSUME ResourceAssumption ==
    /\ MaxPathLen >= 2 /\ MaxParamLen \in Nat \ {0}
    /\ \A r \in DOMAIN ResourcePaths :
          Cardinality({k \in DOMAIN ResourcePaths[r] : ResourcePaths[r][k] = Colon}) <= MaxParams

-----------------------------------------------------------------------------
(* /.well-known/core.  A table is a sequence of resources [path, rt, obs], *)
(* where rt is the resource type, <<>> if it was not set.                  *)

WellKnown == <<47, 46>>   \* stands for "/.well-known/core"

Comma == <<44>>
Link(resource) == <<60>> \o resource.path \o <<62>>                             \* <path>
TypeAttr(resource) ==
    IF resource.rt = <<>> THEN <<>>
    ELSE <<59, 114, 116, 61, 34>> \o resource.rt \o <<34>>                      \* ;rt="..."
ObsAttr(resource) == IF resource.obs THEN <<59, 111, 98, 115>> ELSE <<>>        \* ;obs

(* Mutant: no room is kept for the final NUL. *)
HasRoomExact(text, more, cap) == Len(text) + Len(more) <= cap

(* What is appended leaves room for the final NUL. *)
HasRoom(text, more, cap) == Len(text) + Len(more) < cap

(* An attribute without room is left out. *)
WithAttr(text, attr, cap) == IF HasRoom(text, attr, cap) THEN text \o attr ELSE text

(* buildLinkFormat() from resource k on; a link without room ends the list, *)
(* after its comma.                                                        *)
RECURSIVE LinkFormatFrom(_, _, _, _)
LinkFormatFrom(table, k, text, cap) ==
    LET sep  == IF text = <<>> THEN <<>> ELSE Comma
        next == text \o sep \o Link(table[k])
    IN  IF k > Len(table) THEN text
        ELSE IF table[k].path = WellKnown THEN LinkFormatFrom(table, k + 1, text, cap)
        ELSE IF ~HasRoom(text, sep, cap) THEN text
        ELSE IF ~HasRoom(text \o sep, Link(table[k]), cap) THEN text \o sep
        ELSE LinkFormatFrom(table, k + 1,
               WithAttr(WithAttr(next, TypeAttr(table[k]), cap), ObsAttr(table[k]), cap), cap)

LinkFormat(table, cap) == LinkFormatFrom(table, 1, <<>>, cap)
=============================================================================
