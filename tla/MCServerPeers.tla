--------------------------- MODULE MCServerPeers ----------------------------
(* ServerPeers with an observable resource whose handler answers at once   *)
(* and one whose handler takes its time.  The silent peer subscribes, and  *)
(* puts without confirmation; the other one does everything else, some of  *)
(* it with the token of its subscription.                                  *)
EXTENDS ServerPeers
MCMethods == [r \in Resources |-> IF r = "slow" THEN {"Get", "Put"} ELSE {"Get"}]
MCAnswers == [r \in Resources |-> IF r = "slow" THEN {"defer"} ELSE {"inline"}]
MCReplySize == [r \in Resources |-> 1]
Ask(type, code, obs, path, token) ==
    [type |-> type, code |-> code, obs |-> obs, path |-> path, token |-> token]
MCPeerRequests == [p \in Peers |->
    {Ask("CON", "Get", "register", "temp", "t1")} \cup
    IF p \in SilentPeers THEN {Ask("NON", "Put", "none", "slow", "t2")}
    ELSE {Ask("NON", "Get", "deregister", "temp", "t1"),
          Ask("CON", "Get", "none", "slow", "t1")}]
(* A subscription to a resource whose handler takes its time. *)
MCSubscriptions == [p \in Peers |-> {Ask("CON", "Get", "register", "slow", "t1")}]
=============================================================================
