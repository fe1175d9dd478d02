------------------------------ MODULE MCAgent ------------------------------
(* An instance of Agent: two tools of one name, which has white space,     *)
(* tools the agents cannot execute, and a registry for one tool.           *)
EXTENDS Agent, TLC

MCName == [t1 |-> "n ", t2 |-> "m", t3 |-> "l", t4 |-> "n "]

MCTrim == ("n " :> "n") @@ ("m" :> "m") @@ ("l" :> "l")

MCType == [t1 |-> "nonstreaming", t2 |-> "mcp", t3 |-> "streaming", t4 |-> "nonstreaming"]
=============================================================================
