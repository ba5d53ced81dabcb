----------------------------- MODULE Transfers ------------------------------
(***************************************************************************)
(* System with payloads of several blocks, and a client device that may    *)
(* restart in the middle of a transfer.                                    *)
(***************************************************************************)
EXTENDS System

(* The device restarts: the Client object is constructed anew, and with it *)
(* the counters of tokens and message IDs.  The numbering of calls goes on. *)
Restart ==
    /\ cl' = [ClientInitState EXCEPT !.issued = cl.issued, !.calls = cl.calls]
    /\ UNCHANGED <<serverVars, netVars>>

RestartSpec == Init /\ [][Next \/ Restart]_vars

-----------------------------------------------------------------------------
(* The body a handler gets with the last block of an upload is the whole   *)
(* payload of one put() (API.md:748-749), whatever blocks were lost,       *)
(* repeated, overtaken or refused, and whoever else was uploading.         *)
UploadIntegrity ==
    \A body \in sv.bodies :
       \E n \in 1 .. cl.issued : body = Payload(n, cl.calls[n].size)

(* A Block1 session holds the first blocks of one upload, as many as it    *)
(* has counted, and at least one: nextExpectedNum - 1, which the reply to  *)
(* an unexpected block names, does not wrap.                               *)
SessionIsPrefix ==
    \A i \in Occupied(sv.sessions) :
       LET s == sv.sessions[i]
       IN  /\ s.next > 0
           /\ \E n \in 1 .. cl.issued :
                /\ s.data = Payload(n, Offset(s.next))
                /\ Offset(s.next) < cl.calls[n].size

(* A one-shot call whose response comes in blocks gets the whole           *)
(* representation, each block once and in order.                           *)
DownloadIntegrity ==
    \A n \in 1 .. MaxCalls :
       cl.calls[n].kind \in {"con", "non"} =>
          \A body \in cl.calls[n].bodies :
             \E r \in Resources : body = Representation(ReplySize[r])

(* As long as handlers answer at once, the first of two Confirmable        *)
(* one-shot calls ends if it has a transaction, by its response or the     *)
(* timeout handler: no block is waited for without a timer, though each    *)
(* block's ACK stops the timer of the block before, and a block repeated   *)
(* by either side makes the transfer go on twice.                          *)
TransferEnds ==
    cl.calls[1].kind = "con" /\ (\E i \in InFlight(cl.tx) : cl.tx[i].packet.about = 1)
      ~> Ended(1)
=============================================================================
