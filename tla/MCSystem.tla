------------------------------ MODULE MCSystem ------------------------------
(* System with small tables, few API calls and three resources. *)
EXTENDS System
MCTokens == 0 .. TokenMod - 1
MCMethods == [r \in Resources |-> {"Get"}]
MCInline == [r \in Resources |-> {"inline"}]
MCDefers == [r \in Resources |-> {"defer"}]
MCReplySize == [r \in Resources |-> 1]
MCRequests == {[code |-> "Get", con |-> TRUE, observe |-> FALSE, size |-> 0],
               [code |-> "Get", con |-> TRUE, observe |-> TRUE, size |-> 0]}
MCOneShot == {[code |-> "Get", con |-> TRUE, observe |-> FALSE, size |-> 0]}
=============================================================================
