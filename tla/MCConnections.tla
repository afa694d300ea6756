--------------------------- MODULE MCConnections ---------------------------
(***************************************************************************)
(* What stands between the platform and its clients: the limit on their    *)
(* requests, the channels they listen to and the peers they stream to.     *)
(* These share no state; part, chosen at the start, says which one moves.  *)
(*                                                                         *)
(* Requests: a strict endpoint with the narrow window and a generous one   *)
(* with the wide window; the generous limit is more than three times the   *)
(* strict one, so that blocks happen.  Half seconds.                       *)
(***************************************************************************)
EXTENDS RateLimiter, RedisPubSub, StreamingAgents

CONSTANTS strict, generous, ch1, ch2, ch3

MCEndpoints == {strict, generous}
MCMaxRequests == [e \in MCEndpoints |-> IF e = strict THEN 1 ELSE 4]
MCWindowSeconds == [e \in MCEndpoints |-> IF e = strict THEN 1 ELSE 2]
MCBlockSeconds == [e \in MCEndpoints |-> IF e = strict THEN 2 ELSE 1]

----------------------------------------------------------------------------
VARIABLE part

StillBut(moving) ==
  /\ moving = part /\ UNCHANGED part
  /\ moving # "requests" => UNCHANGED rateVars
  /\ moving # "channels" => UNCHANGED vars
  /\ moving # "peers" => UNCHANGED agentVars

ConnectionsInit ==
  /\ part \in {"requests", "channels", "peers"}
  /\ RateInit /\ Init /\ AgentInit

ConnectionsNext ==
  \/ StillBut("requests") /\ RateNext
  \/ StillBut("channels") /\ Next
  \/ StillBut("peers") /\ AgentNext

connectionsVars == <<part, rateVars, vars, agentVars>>

ConnectionsSpec ==
  /\ ConnectionsInit /\ [][ConnectionsNext]_connectionsVars
  /\ PubSubFairness /\ AgentFairness
=============================================================================
