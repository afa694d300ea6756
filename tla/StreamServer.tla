---------------------------- MODULE StreamServer ----------------------------
(***************************************************************************)
(* GUI streams (src/streaming/streaming_server.py): StreamServer with its  *)
(* encoders and input queues, the StreamingManager that keeps one session  *)
(* per pod, the websocket handlers and the metrics tasks.                  *)
(*                                                                         *)
(* Starting and stopping a session do not suspend, so "initializing" and   *)
(* "stopping" are never seen by others.  Handlers wait for messages, and   *)
(* the metrics tasks sleep between turns.  The thread handle_client_input  *)
(* starts calls a coroutine function and so does nothing: what is queued   *)
(* stays queued.  No code decodes or restarts an encoding.                 *)
(***************************************************************************)
EXTENDS PlatformIds, Integers, Sequences

CONSTANTS
  Sockets,        \* websocket connections
  MaxStreams,     \* bound on the sessions ever started
  QueueSize,      \* maxsize of an input queue, 100 in the code
  MetricsKept     \* metrics kept per session, 100 in the code

ASSUME StreamConstants ==
  MaxStreams \in Nat /\ QueueSize \in Nat /\ MetricsKept \in Nat /\ None \notin Nat

VARIABLES
  streams,      \* StreamServer.sessions: of each its pod, its status
                \* and whether it has a started_at
  encoding,     \* StreamEncoder.encoding_processes
  inputs,       \* InputHandler.input_queues: how many events are queued
  streaming,    \* StreamingManager.streaming_sessions
  collecting,   \* sessions whose _collect_metrics task runs
  metrics,      \* metrics_history: how many are kept
  socket,       \* the session each websocket handler serves
  client        \* client_connection

streamVars == <<streams, encoding, inputs, streaming, collecting, metrics, socket, client>>

----------------------------------------------------------------------------
StreamIds == DOMAIN streams

Status(i) == streams[i].status

StreamInit ==
  /\ streams = <<>>
  /\ encoding = {}
  /\ inputs = [i \in 1..MaxStreams |-> None]
  /\ streaming = [p \in Pods |-> None]
  /\ collecting = {}
  /\ metrics = [i \in 1..MaxStreams |-> 0]
  /\ socket = [w \in Sockets |-> None]
  /\ client = [i \in 1..MaxStreams |-> None]

\* start_stream_session, which ends with status "active" or, when ffmpeg does not
\* start, with "error".
StartStreamSession(p, status) ==
  LET i == Len(streams) + 1 IN
  /\ i <= MaxStreams
  /\ streams' = Append(streams, [pod |-> p, started |-> status = "active", status |-> status])
  /\ inputs' = [inputs EXCEPT ![i] = 0]
  /\ UNCHANGED <<metrics, socket, client>>

\* start_pod_streaming.  The session the pod had, if any, is overwritten and goes on.
StartPodStreaming(p) ==
  LET i == Len(streams) + 1 IN
  /\ StartStreamSession(p, "active")
  /\ encoding' = encoding \cup {i}
  /\ collecting' = collecting \cup {i}
  /\ streaming' = [streaming EXCEPT ![p] = i]

\* The exception passes through start_pod_streaming.
EncodingFails(p) ==
  /\ StartStreamSession(p, "error")
  /\ UNCHANGED <<encoding, streaming, collecting>>

\* stop_stream_session, but for the status.
Stopped(S) ==
  /\ encoding' = encoding \ S
  /\ inputs' = [i \in DOMAIN inputs |-> IF i \in S THEN None ELSE inputs[i]]

StopStreamSession(i) ==
  /\ Status(i) # "removed"
  /\ streams' = [streams EXCEPT ![i].status = "stopped"]
  /\ Stopped({i})
  /\ UNCHANGED <<streaming, collecting, metrics, socket, client>>

\* A variant in which only the session's owner forgets it.
ForgetPodStreaming(p) ==
  /\ streaming[p] # None
  /\ streaming' = [streaming EXCEPT ![p] = None]
  /\ UNCHANGED <<streams, encoding, inputs, collecting, metrics, socket, client>>

\* The session may have been stopped by its id before.
StopPodStreaming(p) ==
  /\ streaming[p] # None
  /\ IF Status(streaming[p]) = "removed"
     THEN UNCHANGED <<streams, encoding, inputs>>
     ELSE /\ streams' = [streams EXCEPT ![streaming[p]].status = "stopped"]
          /\ Stopped({streaming[p]})
  /\ streaming' = [streaming EXCEPT ![p] = None]
  /\ UNCHANGED <<collecting, metrics, socket, client>>

\* cleanup_stale_sessions, for the sessions in error that are a minute old.
CleanupStaleSessions(stale) ==
  /\ \A i \in stale : Status(i) = "error"
  /\ streams' = [i \in StreamIds |-> IF i \in stale THEN [streams[i] EXCEPT !.status = "removed"]
                                     ELSE streams[i]]
  /\ Stopped(stale)
  /\ UNCHANGED <<streaming, collecting, metrics, socket, client>>

----------------------------------------------------------------------------
\* The handler registers itself and, unless the session is active, returns
\* without taking that back.
Connect(w, i) ==
  /\ socket[w] = None
  /\ Status(i) # "removed"
  /\ client' = [client EXCEPT ![i] = w]
  /\ socket' = IF Status(i) = "active" THEN [socket EXCEPT ![w] = i] ELSE socket
  /\ UNCHANGED <<streams, encoding, inputs, streaming, collecting, metrics>>

\* A full queue drops the event.
HasRoom(i) == inputs[i] # None /\ inputs[i] < QueueSize

HandleClientInput(i) ==
  /\ Status(i) # "removed" /\ HasRoom(i)
  /\ inputs' = [inputs EXCEPT ![i] = @ + 1]

\* A message of type input, validated.
Input(w) ==
  /\ socket[w] # None
  /\ HandleClientInput(socket[w])
  /\ UNCHANGED <<streams, encoding, streaming, collecting, metrics, socket, client>>

\* The finally clause of the handler.
Disconnect(w) ==
  /\ socket[w] # None
  /\ client' = IF Status(socket[w]) # "removed" THEN [client EXCEPT ![socket[w]] = None] ELSE client
  /\ socket' = [socket EXCEPT ![w] = None]
  /\ UNCHANGED <<streams, encoding, inputs, streaming, collecting, metrics>>

\* A variant that goes on for as long as the session is known.
CollectWhileKnown(i) ==
  /\ i \in collecting
  /\ IF Status(i) # "removed"
     THEN metrics' = [metrics EXCEPT ![i] = IF @ < MetricsKept THEN @ + 1 ELSE @] /\ UNCHANGED collecting
     ELSE collecting' = collecting \ {i} /\ UNCHANGED metrics
  /\ UNCHANGED <<streams, encoding, inputs, streaming, socket, client>>

\* One turn of _collect_metrics.
CollectMetrics(i) ==
  /\ i \in collecting
  /\ IF Status(i) = "active"
     THEN metrics' = [metrics EXCEPT ![i] = IF @ < MetricsKept THEN @ + 1 ELSE @] /\ UNCHANGED collecting
     ELSE collecting' = collecting \ {i} /\ UNCHANGED metrics
  /\ UNCHANGED <<streams, encoding, inputs, streaming, socket, client>>

StreamNext ==
  \/ \E p \in Pods : StartPodStreaming(p) \/ EncodingFails(p) \/ StopPodStreaming(p)
  \/ \E i \in StreamIds : StopStreamSession(i) \/ CollectMetrics(i)
  \/ \E stale \in SUBSET StreamIds : CleanupStaleSessions(stale)
  \/ \E w \in Sockets : (\E i \in StreamIds : Connect(w, i)) \/ Input(w) \/ Disconnect(w)

StreamSpec == StreamInit /\ [][StreamNext]_streamVars

\* asyncio wakes a task whose sleep is over.
StreamFairness == \A i \in 1..MaxStreams : WF_streamVars(i \in StreamIds /\ CollectMetrics(i))

----------------------------------------------------------------------------
\* What streams can be stopped, and nothing is left of what was stopped.  A
\* session that is active has an encoder and its pod knows it, unless the pod was
\* started again while it streamed; one that failed to start has only its queue;
\* one that was stopped or cleaned up, whichever way, has neither.
StreamsCanBeStopped ==
  /\ \A i \in 1..MaxStreams :
       /\ i \in encoding <=> i \in StreamIds /\ Status(i) = "active"
       /\ inputs[i] # None <=> i \in StreamIds /\ Status(i) \in {"active", "error"}
  /\ \A i \in encoding :
       \/ streaming[streams[i].pod] = i
       \/ \E j \in StreamIds : j > i /\ streams[j].pod = streams[i].pod /\ streams[j].started

\* The metrics task of a stream that was stopped ends, and that of one that is
\* left alone does not.
MetricsFollowStreams ==
  /\ \A i \in 1..MaxStreams : (i \in StreamIds /\ Status(i) # "active") ~> i \notin collecting
  /\ []\A i \in encoding : i \in collecting
=============================================================================
