---------------------------- MODULE MCDtlsClient ----------------------------
(* DtlsClient with one server and two one-shot GETs. *)
EXTENDS DtlsClient
MCGets == {[code |-> "Get", con |-> TRUE, observe |-> FALSE, size |-> 0]}
=============================================================================
