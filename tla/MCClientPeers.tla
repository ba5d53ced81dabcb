--------------------------- MODULE MCClientPeers ----------------------------
(* ClientPeers with small tables and few API calls. *)
EXTENDS ClientPeers
MCPut   == [code |-> "Put", con |-> FALSE, observe |-> FALSE, size |-> 1]
MCWatch == [code |-> "Get", con |-> TRUE, observe |-> TRUE, size |-> 0]
MCMixed == {MCPut, MCWatch}
=============================================================================
