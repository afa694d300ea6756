-------------------------- MODULE StreamingAgents --------------------------
(***************************************************************************)
(* WebRTC streaming of pods: StreamingManager, StreamingAgent and its SFU  *)
(* (src/streaming/streaming_agent.py) over the ports and endpoints of      *)
(* NetworkManager (src/networking/network_manager.py).                     *)
(*                                                                         *)
(* Creating an agent or a session does not suspend.  Closing a connection  *)
(* does, and with it close_session, the stop of an agent, which closes its *)
(* sessions one after the other, and the removal of the agent: those are   *)
(* Calls in flight here, between whose awaits anything else runs.  A       *)
(* session is known by the second it was created in.                       *)
(***************************************************************************)
EXTENDS PlatformIds, Integers, Sequences, FiniteSets

CONSTANTS
  AgentPods,      \* the pods that get an agent
  Ports,          \* range(streaming_port_range_start, streaming_port_range_end)
  MaxAgents,      \* bound on the agents ever created
  MaxConnections, \* bound on the peer connections ever created
  MaxSecond       \* bound on the clock

ASSUME StreamingConstants ==
  /\ MaxAgents \in Nat /\ MaxConnections \in Nat /\ MaxSecond \in Nat
  /\ None \notin Ports \cup Nat

VARIABLES
  available,    \* NetworkManager.available_ports
  assigned,     \* NetworkManager.assigned_ports
  endpoint,     \* NetworkManager.streaming_sessions, the port of each pod's
  registered,   \* StreamingManager.streaming_agents
  agents,       \* every StreamingAgent ever made: its pod
  sessions,     \* per agent, the connection of the session of each second
  connections,  \* every RTCPeerConnection: its agent, its second, its state and,
                \* a history, whether a close of it raised
  peers,        \* the peer_connections of the agents' SFUs
  call,         \* per call: what it closes, and the seconds it has yet to close
  second,       \* int(datetime.now().timestamp())
  raced         \* history: agents where a call that had closed a session's connection
                \* found another session or none under the id

network == <<available, assigned, endpoint>>
agentVars == <<network, registered, agents, sessions, connections, peers, call, second, raced>>

----------------------------------------------------------------------------
Seconds == 0..MaxSecond

Idle == [does |-> "idle", agent |-> 0, second |-> 0, connection |-> 0, rest |-> {}]

Earliest(S) == CHOOSE s \in S : \A t \in S : s <= t

Present(a) == {s \in Seconds : sessions[a][s] # None}

AgentInit ==
  /\ available = Ports
  /\ assigned = {}
  /\ endpoint = [p \in AgentPods |-> None]
  /\ registered = [p \in AgentPods |-> None]
  /\ agents = <<>>
  /\ sessions = <<>>
  /\ connections = <<>>
  /\ peers = {}
  /\ call = [k \in Calls |-> Idle]
  /\ second = 0
  /\ raced = {}

\* allocate_port and setup_streaming_endpoint; set.pop takes any port.  The port of
\* an endpoint that is replaced is not released: it stays assigned.
SetupEndpoint(p) ==
  \E port \in available :
    /\ available' = available \ {port}
    /\ assigned' = assigned \cup {port}
    /\ endpoint' = [endpoint EXCEPT ![p] = port]

\* release_port and cleanup_streaming_endpoint.
CleanupEndpoint(p) ==
  /\ endpoint[p] # None
  /\ IF endpoint[p] \in assigned
     THEN /\ assigned' = assigned \ {endpoint[p]}
          /\ available' = available \cup {endpoint[p]}
     ELSE UNCHANGED <<available, assigned>>
  /\ endpoint' = [endpoint EXCEPT ![p] = None]
  /\ UNCHANGED <<registered, agents, sessions, connections, peers, call, second, raced>>

\* create_streaming_agent.  When the pod has an agent that one is returned, and
\* when no port is free the new one is forgotten again: nothing changes.
CreateAgent(p) ==
  /\ registered[p] = None
  /\ Len(agents) < MaxAgents
  /\ SetupEndpoint(p)
  /\ agents' = Append(agents, p)
  /\ sessions' = Append(sessions, [s \in Seconds |-> None])
  /\ registered' = [registered EXCEPT ![p] = Len(agents) + 1]
  /\ UNCHANGED <<connections, peers, call, second, raced>>

\* create_session, by whoever has the agent, registered or not.  A session of
\* the same second is overwritten.
CreateSession(a) ==
  /\ Len(connections) < MaxConnections
  /\ connections' = Append(connections, [agent |-> a, second |-> second, state |-> "open", raised |-> FALSE])
  /\ sessions' = [sessions EXCEPT ![a][second] = Len(connections) + 1]
  /\ peers' = peers \cup {Len(connections) + 1}
  /\ UNCHANGED <<network, registered, agents, call, second, raced>>

\* The call goes on to the first session on its list that is still there.
Continue(k, does, a, list, ofAgent) ==
  LET left == {s \in list : ofAgent[s] # None} IN
  IF left # {}
  THEN /\ call' = [call EXCEPT ![k] =
             [does |-> does, agent |-> a, second |-> Earliest(left),
              connection |-> ofAgent[Earliest(left)],
              rest |-> {s \in list : s > Earliest(left)}]]
       /\ UNCHANGED registered
  ELSE /\ call' = [call EXCEPT ![k] = Idle]
       /\ registered' = IF does = "remove" THEN [registered EXCEPT ![agents[a]] = None]
                        ELSE registered

\* close_session, up to the await of the connection's close.
StartClose(k, a, s) ==
  /\ call[k] = Idle
  /\ sessions[a][s] # None
  /\ Continue(k, "close", a, {s}, sessions[a])
  /\ UNCHANGED <<network, agents, sessions, connections, peers, second, raced>>

\* remove_streaming_agent and stop_streaming_server, up to the first such await.
StartRemove(k, p) ==
  /\ call[k] = Idle
  /\ registered[p] # None
  /\ Continue(k, "remove", registered[p], Present(registered[p]), sessions[registered[p]])
  /\ UNCHANGED <<network, agents, sessions, connections, peers, second, raced>>

\* on_iceconnectionstatechange: the session closed is the one with the id this
\* connection was created under.
IceFails(k, c) ==
  LET a == connections[c].agent
      s == connections[c].second IN
  /\ call[k] = Idle
  /\ connections[c].state = "open"
  /\ connections' = [connections EXCEPT ![c].state = "failed"]
  /\ peers' = peers \ {c}
  /\ Continue(k, "close", a, {s}, sessions[a])
  /\ UNCHANGED <<network, agents, sessions, second, raced>>

\* A variant that skips the rest of the list whoever deletes the entry.
CloseReturnsAndGivesUp(k) ==
  LET a == call[k].agent IN
  /\ call[k].does # "idle"
  /\ connections' = [connections EXCEPT ![call[k].connection].state = "closed"]
  /\ sessions' = [sessions EXCEPT ![a][call[k].second] = None]
  /\ Continue(k, call[k].does, a, {}, sessions[a])
  /\ UNCHANGED <<network, agents, peers, second, raced>>

\* The close of connection c returns, or raises, which close_session swallows.
ConnectionCloses(c) ==
  \/ connections' = [connections EXCEPT ![c].state = "closed"]
  \/ connections' = [connections EXCEPT ![c].raised = TRUE]

\* After it the entry is deleted either way, and a removal closes the next session.
\* When the entry is gone the KeyError ends a close; stop_streaming_server
\* swallows it with the rest of its list, and the removal goes on.
CloseReturns(k) ==
  LET a == call[k].agent
      s == call[k].second IN
  /\ call[k].does # "idle"
  /\ ConnectionCloses(call[k].connection)
  /\ sessions' = [sessions EXCEPT ![a][s] = None]
  /\ Continue(k, call[k].does, a,
              IF sessions[a][s] # None THEN call[k].rest ELSE {}, sessions'[a])
  /\ raced' = IF sessions[a][s] = call[k].connection THEN raced ELSE raced \cup {a}
  /\ UNCHANGED <<network, agents, peers, second>>

\* on_connectionstatechange
PeerLeaves(c) ==
  /\ c \in peers
  /\ connections[c].state = "closed"
  /\ peers' = peers \ {c}
  /\ UNCHANGED <<network, registered, agents, sessions, connections, call, second, raced>>

SecondPasses ==
  /\ second < MaxSecond
  /\ second' = second + 1
  /\ UNCHANGED <<network, registered, agents, sessions, connections, peers, call, raced>>

AgentNext ==
  \/ \E p \in AgentPods : CreateAgent(p) \/ CleanupEndpoint(p)
  \/ \E a \in DOMAIN agents : CreateSession(a)
  \/ \E k \in Calls :
       \/ \E p \in AgentPods : StartRemove(k, p)
       \/ \E a \in DOMAIN agents, s \in Seconds : StartClose(k, a, s)
       \/ \E c \in DOMAIN connections : IceFails(k, c)
       \/ CloseReturns(k)
  \/ \E c \in DOMAIN connections : PeerLeaves(c)
  \/ SecondPasses

\* Connections that are closed get closed, and the loop runs their handlers.
AgentFairness ==
  /\ \A k \in Calls : WF_agentVars(CloseReturns(k))
  /\ \A c \in 1..MaxConnections : WF_agentVars(PeerLeaves(c))

----------------------------------------------------------------------------
HasTwin(c) ==
  c \in DOMAIN connections /\ \E d \in DOMAIN connections \ {c} :
     connections[d].agent = connections[c].agent /\ connections[d].second = connections[c].second

Closed(c) == c \in DOMAIN connections /\ connections[c].state = "closed"

CloseRaised(c) == c \in DOMAIN connections /\ connections[c].raised

\* No agent has it as a session.
NoSession(c) ==
  c \in DOMAIN connections /\ sessions[connections[c].agent][connections[c].second] # c

\* A removal of its agent is closing the session of connection c, or is yet to.
ToBeClosed(c) ==
  c \in DOMAIN connections /\ \E k \in Calls :
    /\ call[k].does = "remove" /\ call[k].agent = connections[c].agent
    /\ c = call[k].connection \/ \E s \in call[k].rest : sessions[call[k].agent][s] = c

InRacedAgent(c) == c \in DOMAIN connections /\ connections[c].agent \in raced

\* Every session an agent has when its removal begins is forgotten, and its
\* connection is closed and leaves the SFU, or could not be closed: a close that
\* raises does not keep the others from being closed.  But another call that was
\* closing one of the agent's sessions may make the stop give up, and a session
\* overwritten meanwhile is lost.
RemovalsCloseSessions ==
  \A c \in 1..MaxConnections :
     ToBeClosed(c) ~> \/ NoSession(c) /\ ((Closed(c) /\ c \notin peers) \/ CloseRaised(c))
                     \/ HasTwin(c) \/ InRacedAgent(c)
=============================================================================
