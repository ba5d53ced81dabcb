---------------------------- MODULE MCTransfers -----------------------------
(* Uploads and downloads of two or three blocks. *)
EXTENDS Transfers
MCTokens == 0 .. TokenMod - 1
MCMethods   == [r \in Resources |-> {"Get", "Put"}]
MCInline    == [r \in Resources |-> {"inline"}]
MCReplySize == [r \in Resources |-> 3]
MCPut(size) == [code |-> "Put", con |-> TRUE, observe |-> FALSE, size |-> size]
MCTransfers == {MCPut(5), OneShotGet}
MCUploads   == {MCPut(3)}
=============================================================================
