---------------------------- MODULE StreamProofs ----------------------------
(***************************************************************************)
(* Proofs about what a client reaches of a pod: its streams, its           *)
(* terminals, the files that route to it and the credentials it is given,  *)
(* for any pods, sockets, sessions, descriptors, domains, ports and ids.   *)
(*                                                                         *)
(* Streams: StreamsCanBeStopped with the types is inductive, since ending  *)
(* sessions, in whichever of the three ways, takes the encoder, the queue  *)
(* and the status together, and a pod forgets only a session that has no   *)
(* encoder any more. Terminals: a descriptor must be known to belong to    *)
(* the one terminal that runs behind it, and what is left of one that does *)
(* not run must be a reader that a failed write left. Routes: what is in a *)
(* file must belong to the subdomain the file is named after, and in the   *)
(* directory that is not written there must be nothing whose removal would *)
(* miss it. Credentials: no task that waits for a key, whichever call       *)
(* started it, may wake before the time that file has, and file and memory *)
(* must hold what is expected whatever the keys are.                       *)
(***************************************************************************)
EXTENDS StreamServer, Terminals, Ingress, Credentials, SequenceTheorems, TLAPS

-----------------------------------------------------------------------------
(***************************************************************************)
(* Streams.                                                                *)
(***************************************************************************)
Sessions == [pod : Pods, started : BOOLEAN, status : {"active", "error", "stopped", "removed"}]

StreamTypeOK ==
  /\ streams \in Seq(Sessions)
  /\ Len(streams) <= MaxStreams
  /\ encoding \subseteq StreamIds
  /\ inputs \in [1..MaxStreams -> Nat \cup {None}]
  /\ streaming \in [Pods -> StreamIds \cup {None}]
  /\ socket \in [Sockets -> StreamIds \cup {None}]
  /\ \A i \in StreamIds : Status(i) = "active" => streams[i].started

StreamInv == StreamTypeOK /\ StreamsCanBeStopped

----------------------------------------------------------------------------
\* The sessions are numbered from one.
LEMMA StreamNumbers ==
  ASSUME StreamTypeOK
  PROVE  /\ Len(streams) \in Nat /\ StreamIds = 1..Len(streams)
         /\ \A i \in StreamIds : streams[i] \in Sessions /\ i \in 1..MaxStreams
<1>1. streams \in Seq(Sessions) /\ Len(streams) <= MaxStreams
  BY DEF StreamTypeOK
<1>2. /\ Len(streams) \in Nat /\ DOMAIN streams = 1..Len(streams)
      /\ streams \in [1..Len(streams) -> Sessions]
  BY <1>1, LenProperties
<1>3. ASSUME NEW i \in 1..Len(streams) PROVE streams[i] \in Sessions /\ i \in 1..MaxStreams
  BY <1>1, <1>2, StreamConstants
<1> QED
  BY <1>2, <1>3 DEF StreamIds

\* A function on the numbers of a sequence is a sequence as long.
LEMMA SameNumbers ==
  ASSUME NEW S, NEW n \in Nat, NEW f \in [1..n -> S]
  PROVE  f \in Seq(S) /\ Len(f) = n
<1>1. f \in Seq(S)
  BY SeqDef
<1>2. DOMAIN f = 1..Len(f) /\ Len(f) \in Nat /\ DOMAIN f = 1..n
  BY <1>1, LenProperties
<1> QED
  BY <1>1, <1>2

\* No stream was started at first.
LEMMA StreamInitial == StreamInit => StreamInv
<1> SUFFICES ASSUME StreamInit PROVE StreamInv
  OBVIOUS
<1>1. streams \in Seq(Sessions) /\ Len(streams) = 0
  BY EmptySeq DEF StreamInit
<1>2. StreamIds = {}
  BY <1>1, LenProperties DEF StreamIds
<1>3. StreamTypeOK
  BY <1>1, <1>2, StreamConstants DEF StreamInit, StreamTypeOK
<1>4. StreamsCanBeStopped
  BY <1>2 DEF StreamInit, StreamsCanBeStopped
<1> QED
  BY <1>3, <1>4 DEF StreamInv

\* A new session is the last one, and has its queue.
LEMMA StartType ==
  ASSUME StreamInv, NEW p \in Pods, NEW status \in {"active", "error"},
         StartStreamSession(p, status)
  PROVE  /\ Len(streams) + 1 \in 1..MaxStreams
         /\ streams' \in Seq(Sessions) /\ Len(streams') = Len(streams) + 1
         /\ StreamIds' = StreamIds \cup {Len(streams) + 1}
         /\ \A i \in StreamIds : streams'[i] = streams[i] /\ i < Len(streams) + 1
         /\ streams'[Len(streams) + 1] = [pod |-> p, started |-> status = "active", status |-> status]
         /\ inputs' = [inputs EXCEPT ![Len(streams) + 1] = 0]
         /\ socket' = socket
<1> DEFINE new == [pod |-> p, started |-> status = "active", status |-> status]
<1>1. new \in Sessions /\ streams \in Seq(Sessions)
  BY DEF StreamInv, StreamTypeOK, Sessions
<1>2. /\ Len(streams) \in Nat /\ StreamIds = 1..Len(streams)
  BY StreamNumbers DEF StreamInv
<1>3. /\ Len(streams) + 1 <= MaxStreams /\ streams' = Append(streams, new)
      /\ inputs' = [inputs EXCEPT ![Len(streams) + 1] = 0] /\ socket' = socket
  BY DEF StartStreamSession
<1> HIDE DEF new
<1>4. /\ streams' \in Seq(Sessions) /\ Len(streams') = Len(streams) + 1
      /\ \A i \in 1..Len(streams) : streams'[i] = streams[i]
      /\ streams'[Len(streams) + 1] = new
  BY <1>1, <1>3, AppendProperties
<1>5. StreamIds' = 1..(Len(streams) + 1)
  BY <1>4, LenProperties DEF StreamIds
<1>6. StreamIds' = StreamIds \cup {Len(streams) + 1}
  BY <1>2, <1>5
<1> QED
  BY <1>2, <1>3, <1>4, <1>6, StreamConstants DEF new

\* The session that a start overwrites was started before the new one.
LEMMA StartKeeps ==
  ASSUME StreamInv, NEW p \in Pods, StartPodStreaming(p)
  PROVE  StreamInv'
<1> DEFINE n == Len(streams) + 1
<1>1. /\ n \in 1..MaxStreams /\ streams' \in Seq(Sessions) /\ Len(streams') = n
      /\ StreamIds' = StreamIds \cup {n}
      /\ \A i \in StreamIds : streams'[i] = streams[i] /\ i < n
      /\ streams'[n] = [pod |-> p, started |-> TRUE, status |-> "active"]
      /\ inputs' = [inputs EXCEPT ![n] = 0] /\ socket' = socket
  BY StartType DEF StartPodStreaming
<1>2. encoding' = encoding \cup {n} /\ streaming' = [streaming EXCEPT ![p] = n]
  BY DEF StartPodStreaming
<1>3. \A i \in StreamIds : streams[i] \in Sessions /\ i \in 1..MaxStreams /\ i # n
  BY <1>1, StreamNumbers DEF StreamInv
<1> HIDE DEF n
<1>4. StreamTypeOK'
  <2>1. Len(streams') <= MaxStreams /\ inputs' \in [1..MaxStreams -> Nat \cup {None}]
    BY <1>1, StreamConstants DEF StreamInv, StreamTypeOK
  <2>2. streaming' \in [Pods -> StreamIds' \cup {None}]
    BY <1>1, <1>2 DEF StreamInv, StreamTypeOK
  <2>3. \A i \in StreamIds' : streams'[i].status = "active" => streams'[i].started
    BY <1>1 DEF StreamInv, StreamTypeOK, Status
  <2> QED
    BY <1>1, <1>2, <2>1, <2>2, <2>3 DEF StreamInv, StreamTypeOK, Status
<1>5. ASSUME NEW i \in 1..MaxStreams
      PROVE  /\ i \in encoding' <=> i \in StreamIds' /\ Status(i)' = "active"
             /\ inputs'[i] # None <=> i \in StreamIds' /\ Status(i)' \in {"active", "error"}
  <2>1. CASE i = n
    BY <1>1, <1>2, <2>1, StreamConstants DEF StreamInv, StreamTypeOK, Status
  <2>2. CASE i # n
    <3>1. /\ i \in encoding' <=> i \in encoding
          /\ inputs'[i] = inputs[i] /\ (i \in StreamIds' <=> i \in StreamIds)
          /\ i \in StreamIds => streams'[i] = streams[i]
      BY <1>1, <1>2, <2>2 DEF StreamInv, StreamTypeOK
    <3> QED
      BY <3>1 DEF StreamInv, StreamsCanBeStopped, Status
  <2> QED
    BY <2>1, <2>2
<1>6. ASSUME NEW i \in encoding'
      PROVE  \/ streaming'[streams'[i].pod] = i
             \/ \E j \in StreamIds' : j > i /\ streams'[j].pod = streams'[i].pod /\ streams'[j].started
  <2>1. CASE i = n
    BY <1>1, <1>2, <2>1 DEF StreamInv, StreamTypeOK
  <2>2. CASE i # n
    <3>1. i \in encoding /\ i \in StreamIds /\ streams'[i] = streams[i] /\ streams[i].pod \in Pods
      BY <1>1, <1>2, <1>3, <2>2 DEF StreamInv, StreamTypeOK, Sessions
    <3>2. CASE streams[i].pod = p
      BY <1>1, <1>3, <3>1, <3>2
    <3>3. CASE streams[i].pod # p
      <4>1. streaming'[streams[i].pod] = streaming[streams[i].pod]
        BY <1>2, <3>1, <3>3 DEF StreamInv, StreamTypeOK
      <4>2. \A j \in StreamIds : j \in StreamIds' /\ streams'[j] = streams[j]
        BY <1>1
      <4> QED
        BY <3>1, <4>1, <4>2 DEF StreamInv, StreamsCanBeStopped
    <3> QED
      BY <3>2, <3>3
  <2> QED
    BY <2>1, <2>2
<1> QED
  BY <1>4, <1>5, <1>6 DEF StreamInv, StreamsCanBeStopped

\* A session that failed to start has its queue and no encoder.
LEMMA FailureKeeps ==
  ASSUME StreamInv, NEW p \in Pods, EncodingFails(p)
  PROVE  StreamInv'
<1> DEFINE n == Len(streams) + 1
<1>1. /\ n \in 1..MaxStreams /\ streams' \in Seq(Sessions) /\ Len(streams') = n
      /\ StreamIds' = StreamIds \cup {n}
      /\ \A i \in StreamIds : streams'[i] = streams[i] /\ i < n
      /\ streams'[n] = [pod |-> p, started |-> FALSE, status |-> "error"]
      /\ inputs' = [inputs EXCEPT ![n] = 0] /\ socket' = socket
  BY StartType DEF EncodingFails
<1>2. encoding' = encoding /\ streaming' = streaming
  BY DEF EncodingFails
<1>3. \A i \in StreamIds : streams[i] \in Sessions /\ i \in 1..MaxStreams /\ i # n
  BY <1>1, StreamNumbers DEF StreamInv
<1> HIDE DEF n
<1>4. StreamTypeOK'
  <2>1. Len(streams') <= MaxStreams /\ inputs' \in [1..MaxStreams -> Nat \cup {None}]
    BY <1>1, StreamConstants DEF StreamInv, StreamTypeOK
  <2>2. streaming' \in [Pods -> StreamIds' \cup {None}]
    BY <1>1, <1>2 DEF StreamInv, StreamTypeOK
  <2>3. \A i \in StreamIds' : streams'[i].status = "active" => streams'[i].started
    <3>1. \A i \in StreamIds : streams'[i].status = "active" => streams'[i].started
      BY <1>1 DEF StreamInv, StreamTypeOK, Status
    <3>2. streams'[n].status # "active"
      BY <1>1
    <3> QED
      BY <1>1, <3>1, <3>2
  <2> QED
    BY <1>1, <1>2, <2>1, <2>2, <2>3 DEF StreamInv, StreamTypeOK, Status
<1>5. ASSUME NEW i \in 1..MaxStreams
      PROVE  /\ i \in encoding' <=> i \in StreamIds' /\ Status(i)' = "active"
             /\ inputs'[i] # None <=> i \in StreamIds' /\ Status(i)' \in {"active", "error"}
  <2>1. CASE i = n
    <3>1. n \notin encoding
      BY <1>3 DEF StreamInv, StreamTypeOK
    <3> QED
      BY <1>1, <1>2, <2>1, <3>1, StreamConstants DEF StreamInv, StreamTypeOK, Status
  <2>2. CASE i # n
    <3>1. /\ inputs'[i] = inputs[i] /\ (i \in StreamIds' <=> i \in StreamIds)
          /\ i \in StreamIds => streams'[i] = streams[i]
      BY <1>1, <2>2 DEF StreamInv, StreamTypeOK
    <3> QED
      BY <1>2, <3>1 DEF StreamInv, StreamsCanBeStopped, Status
  <2> QED
    BY <2>1, <2>2
<1>6. ASSUME NEW i \in encoding'
      PROVE  \/ streaming'[streams'[i].pod] = i
             \/ \E j \in StreamIds' : j > i /\ streams'[j].pod = streams'[i].pod /\ streams'[j].started
  <2>1. i \in encoding /\ streams'[i] = streams[i]
    BY <1>1, <1>2 DEF StreamInv, StreamTypeOK
  <2>2. \A j \in StreamIds : j \in StreamIds' /\ streams'[j] = streams[j]
    BY <1>1
  <2> QED
    BY <1>2, <2>1, <2>2 DEF StreamInv, StreamsCanBeStopped
<1> QED
  BY <1>4, <1>5, <1>6 DEF StreamInv, StreamsCanBeStopped

\* Ending the sessions of S, and forgetting some that have no encoder any more.
LEMMA EndingKeeps ==
  ASSUME StreamInv, NEW S \in SUBSET StreamIds, Stopped(S),
         streams' \in [StreamIds -> Sessions],
         \A i \in StreamIds : /\ streams'[i].pod = streams[i].pod
                              /\ streams'[i].started = streams[i].started,
         \A i \in StreamIds \ S : streams'[i].status = streams[i].status,
         \A i \in S : streams'[i].status \in {"stopped", "removed"},
         streaming' \in [Pods -> StreamIds \cup {None}],
         \A p \in Pods : streaming'[p] = streaming[p] \/ streaming[p] \notin encoding',
         socket' = socket
  PROVE  StreamInv'
<1>1. Len(streams) \in Nat /\ StreamIds = 1..Len(streams)
  BY StreamNumbers DEF StreamInv
<1>2. streams' \in Seq(Sessions) /\ Len(streams') = Len(streams)
  BY <1>1, SameNumbers
<1>3. StreamIds' = StreamIds
  BY DEF StreamIds
<1>4. /\ encoding' = encoding \ S
      /\ inputs' = [i \in 1..MaxStreams |-> IF i \in S THEN None ELSE inputs[i]]
  BY DEF Stopped, StreamInv, StreamTypeOK
<1>5. StreamTypeOK'
  <2>1. inputs' \in [1..MaxStreams -> Nat \cup {None}]
    BY <1>4 DEF StreamInv, StreamTypeOK
  <2>2. \A i \in StreamIds : streams'[i].status = "active" => streams'[i].started
    BY DEF StreamInv, StreamTypeOK, Status
  <2> QED
    BY <1>2, <1>3, <1>4, <2>1, <2>2 DEF StreamInv, StreamTypeOK, Status
<1>6. ASSUME NEW i \in 1..MaxStreams
      PROVE  /\ i \in encoding' <=> i \in StreamIds' /\ Status(i)' = "active"
             /\ inputs'[i] # None <=> i \in StreamIds' /\ Status(i)' \in {"active", "error"}
  <2>1. CASE i \in S
    BY <1>3, <1>4, <2>1 DEF Status
  <2>2. CASE i \notin S
    BY <1>3, <1>4, <2>2 DEF StreamInv, StreamsCanBeStopped, Status
  <2> QED
    BY <2>1, <2>2
<1>7. ASSUME NEW i \in encoding'
      PROVE  \/ streaming'[streams'[i].pod] = i
             \/ \E j \in StreamIds' : j > i /\ streams'[j].pod = streams'[i].pod /\ streams'[j].started
  <2>1. i \in encoding /\ i \in StreamIds
    BY <1>4 DEF StreamInv, StreamTypeOK
  <2>2. streams[i].pod \in Pods /\ streams'[i].pod = streams[i].pod
    BY <2>1, StreamNumbers DEF StreamInv, Sessions
  <2>3. CASE streaming[streams[i].pod] = i
    BY <1>7, <2>2, <2>3
  <2>4. CASE \E j \in StreamIds : j > i /\ streams[j].pod = streams[i].pod /\ streams[j].started
    BY <1>3, <2>2, <2>4
  <2> QED
    BY <2>1, <2>3, <2>4 DEF StreamInv, StreamsCanBeStopped
<1> QED
  BY <1>5, <1>6, <1>7 DEF StreamInv, StreamsCanBeStopped

\* Setting the status of a session leaves its pod, its start and the others.
LEMMA StatusOfOne ==
  ASSUME StreamInv, NEW i \in StreamIds, streams' = [streams EXCEPT ![i].status = "stopped"]
  PROVE  /\ streams' \in [StreamIds -> Sessions]
         /\ \A j \in StreamIds : /\ streams'[j].pod = streams[j].pod
                                 /\ streams'[j].started = streams[j].started
         /\ \A j \in StreamIds \ {i} : streams'[j].status = streams[j].status
         /\ streams'[i].status = "stopped"
<1>1. \A j \in StreamIds : streams[j] \in Sessions
  BY StreamNumbers DEF StreamInv
<1>2. \A j \in StreamIds : streams'[j] = IF j = i THEN [streams[i] EXCEPT !.status = "stopped"] ELSE streams[j]
  BY DEF StreamIds
<1>3. [streams[i] EXCEPT !.status = "stopped"] \in Sessions
  BY <1>1 DEF Sessions
<1>4. streams' \in [StreamIds -> Sessions]
  BY <1>1, <1>3 DEF StreamIds
<1> QED
  BY <1>1, <1>2, <1>4 DEF Sessions

\* Stopping a session by its id leaves it to its pod to forget it.
LEMMA StopStreamKeeps ==
  ASSUME StreamInv, NEW i \in StreamIds, StopStreamSession(i)
  PROVE  StreamInv'
<1>1. /\ streams' = [streams EXCEPT ![i].status = "stopped"] /\ Stopped({i})
      /\ streaming' = streaming /\ socket' = socket
  BY DEF StopStreamSession
<1> QED
  BY <1>1, StatusOfOne, EndingKeeps DEF StreamInv, StreamTypeOK

\* Stopping a pod's session forgets it when its encoder is stopped.
LEMMA StopPodKeeps ==
  ASSUME StreamInv, NEW p \in Pods, StopPodStreaming(p)
  PROVE  StreamInv'
<1> DEFINE i == streaming[p]
<1>1. /\ i \in StreamIds /\ streaming' = [streaming EXCEPT ![p] = None] /\ socket' = socket
  BY DEF StopPodStreaming, StreamInv, StreamTypeOK
<1>2. /\ streaming' \in [Pods -> StreamIds \cup {None}]
      /\ \A q \in Pods : q # p => streaming'[q] = streaming[q]
  BY <1>1 DEF StreamInv, StreamTypeOK
<1>3. CASE Status(i) = "removed"
  <2>1. streams' = streams /\ encoding' = encoding /\ inputs' = inputs
    BY <1>3 DEF StopPodStreaming
  <2>2. i \notin encoding /\ i \in 1..MaxStreams
    BY <1>1, <1>3, StreamNumbers DEF StreamInv, StreamsCanBeStopped
  <2>3. streams \in [StreamIds -> Sessions]
    BY LenProperties DEF StreamInv, StreamTypeOK, StreamIds
  <2>4. Stopped({})
    BY <2>1 DEF Stopped, StreamInv, StreamTypeOK
  <2> QED
    BY <1>1, <1>2, <2>1, <2>2, <2>3, <2>4, EndingKeeps
<1>4. CASE Status(i) # "removed"
  <2>1. streams' = [streams EXCEPT ![i].status = "stopped"] /\ Stopped({i})
    BY <1>4 DEF StopPodStreaming
  <2>2. i \notin encoding'
    BY <2>1 DEF Stopped
  <2> QED
    BY <1>1, <1>2, <2>1, <2>2, StatusOfOne, EndingKeeps
<1> QED
  BY <1>3, <1>4

\* Sessions in error have no encoder.
LEMMA CleanupKeeps ==
  ASSUME StreamInv, NEW stale \in SUBSET StreamIds, CleanupStaleSessions(stale)
  PROVE  StreamInv'
<1>1. /\ streams' = [i \in StreamIds |-> IF i \in stale THEN [streams[i] EXCEPT !.status = "removed"]
                                         ELSE streams[i]]
      /\ Stopped(stale) /\ streaming' = streaming /\ socket' = socket
  BY DEF CleanupStaleSessions
<1>2. \A i \in StreamIds : streams[i] \in Sessions
  BY StreamNumbers DEF StreamInv
<1>3. \A i \in StreamIds : [streams[i] EXCEPT !.status = "removed"] \in Sessions
  BY <1>2 DEF Sessions
<1>4. streams' \in [StreamIds -> Sessions]
  BY <1>1, <1>2, <1>3
<1>5. \A i \in StreamIds : /\ streams'[i].pod = streams[i].pod
                           /\ streams'[i].started = streams[i].started
                           /\ i \in stale => streams'[i].status = "removed"
                           /\ i \notin stale => streams'[i].status = streams[i].status
  BY <1>1, <1>2 DEF Sessions
<1> QED
  BY <1>1, <1>4, <1>5, EndingKeeps DEF StreamInv, StreamTypeOK

\* Sockets, input and metrics end no session; a queue that is there stays.
LEMMA OthersKeep ==
  ASSUME StreamInv, UNCHANGED <<streams, encoding, streaming>>,
         socket' \in [Sockets -> StreamIds \cup {None}],
         inputs' \in [1..MaxStreams -> Nat \cup {None}],
         \A i \in 1..MaxStreams : inputs'[i] = None <=> inputs[i] = None
  PROVE  StreamInv'
<1>1. StreamIds' = StreamIds
  BY DEF StreamIds
<1> QED
  BY <1>1 DEF StreamInv, StreamTypeOK, StreamsCanBeStopped, Status

----------------------------------------------------------------------------
\* Every step keeps types and streams in order.
THEOREM StreamsInductive == StreamSpec => []StreamInv
<1>1. StreamInit => StreamInv
  BY StreamInitial
<1>2. StreamInv /\ [StreamNext]_streamVars => StreamInv'
  <2> SUFFICES ASSUME StreamInv, [StreamNext]_streamVars PROVE StreamInv'
    OBVIOUS
  <2>0. /\ inputs \in [1..MaxStreams -> Nat \cup {None}]
        /\ socket \in [Sockets -> StreamIds \cup {None}]
    BY DEF StreamInv, StreamTypeOK
  <2>1. ASSUME NEW p \in Pods, StartPodStreaming(p) \/ EncodingFails(p) \/ StopPodStreaming(p)
        PROVE  StreamInv'
    BY <2>1, StartKeeps, FailureKeeps, StopPodKeeps
  <2>2. ASSUME NEW i \in StreamIds, StopStreamSession(i) PROVE StreamInv'
    BY <2>2, StopStreamKeeps
  <2>3. ASSUME NEW i \in StreamIds, CollectMetrics(i) PROVE StreamInv'
    <3>1. UNCHANGED <<streams, encoding, streaming, inputs, socket>>
      BY <2>3 DEF CollectMetrics
    <3> QED
      BY <2>0, <3>1, OthersKeep
  <2>4. ASSUME NEW stale \in SUBSET StreamIds, CleanupStaleSessions(stale) PROVE StreamInv'
    BY <2>4, CleanupKeeps
  <2>5. ASSUME NEW w \in Sockets, NEW i \in StreamIds, Connect(w, i) PROVE StreamInv'
    <3>1. /\ UNCHANGED <<streams, encoding, streaming, inputs>>
          /\ socket' \in [Sockets -> StreamIds \cup {None}]
      BY <2>0, <2>5 DEF Connect
    <3> QED
      BY <2>0, <3>1, OthersKeep
  <2>6. ASSUME NEW w \in Sockets, Input(w) PROVE StreamInv'
    <3> DEFINE i == socket[w]
    <3>1. /\ UNCHANGED <<streams, encoding, streaming, socket>>
          /\ inputs[i] # None /\ inputs' = [inputs EXCEPT ![i] = @ + 1]
      BY <2>6 DEF Input, HandleClientInput, HasRoom
    <3>2. i \in 1..MaxStreams
      BY <2>0, <2>6, StreamNumbers DEF Input, StreamInv
    <3>3. inputs[i] \in Nat
      BY <2>0, <3>1, <3>2
    <3>4. inputs' \in [1..MaxStreams -> Nat \cup {None}]
      BY <2>0, <3>1, <3>2, <3>3
    <3>5. \A j \in 1..MaxStreams : inputs'[j] = None <=> inputs[j] = None
      BY <2>0, <3>1, <3>2, <3>3, StreamConstants
    <3> QED
      BY <2>0, <3>1, <3>4, <3>5, OthersKeep
  <2>7. ASSUME NEW w \in Sockets, Disconnect(w) PROVE StreamInv'
    <3>1. /\ UNCHANGED <<streams, encoding, streaming, inputs>>
          /\ socket' \in [Sockets -> StreamIds \cup {None}]
      BY <2>0, <2>7 DEF Disconnect
    <3> QED
      BY <2>0, <3>1, OthersKeep
  <2>8. CASE UNCHANGED streamVars
    <3>1. UNCHANGED <<streams, encoding, streaming, inputs, socket>>
      BY <2>8 DEF streamVars
    <3> QED
      BY <2>0, <3>1, OthersKeep
  <2> QED
    BY <2>1, <2>2, <2>3, <2>4, <2>5, <2>6, <2>7, <2>8 DEF StreamNext
<1> QED
  BY <1>1, <1>2, PTL DEF StreamSpec

\* StreamServer and StreamingManager (src/streaming/streaming_server.py): an
\* active session has its encoder and can be stopped through its pod, unless the
\* pod was started again; what was stopped has neither encoder nor queue.
THEOREM StreamsAreStoppable == StreamSpec => []StreamsCanBeStopped
BY StreamsInductive, PTL DEF StreamInv

-----------------------------------------------------------------------------
(***************************************************************************)
(* Terminals.                                                              *)
(***************************************************************************)
TerminalRecords ==
  [session : TerminalSessions, fd : Nat, state : {"running", "ended", "failed"}, shell : BOOLEAN,
   client : BOOLEAN, reads : BOOLEAN, refused : BOOLEAN]

TerminalTypeOK ==
  /\ terminals \in Seq(TerminalRecords)
  /\ taken \in Seq(Nat) /\ Len(taken) = Len(terminals)
  /\ opened \in [Descriptors -> Nat]

\* A descriptor and the terminal that runs behind it know each other.
DescriptorsAgree ==
  /\ \A f \in Descriptors :
       opened[f] # 0 => /\ opened[f] \in DOMAIN terminals
                        /\ Running(opened[f]) /\ terminals[opened[f]].fd = f
  /\ \A t \in DOMAIN terminals :
       Running(t) => terminals[t].fd \in Descriptors /\ opened[terminals[t].fd] = t

\* Of a terminal that does not run only a reader can be left, and it is one that
\* WriteRaises left; a reader that took anything of another terminal is over.
OnlyReadersAreLeft ==
  \A t \in DOMAIN terminals :
    /\ terminals[t].shell \/ terminals[t].client => Running(t)
    /\ Running(t) => terminals[t].reads /\ ~ terminals[t].refused
    /\ terminals[t].reads => terminals[t].fd \in Descriptors /\ taken[t] = 0
    /\ terminals[t].reads /\ ~ Running(t) => terminals[t].refused
    /\ taken[t] <= 1 /\ (taken[t] = 1 => terminals[t].refused)

TerminalInv == TerminalTypeOK /\ DescriptorsAgree /\ OnlyReadersAreLeft

----------------------------------------------------------------------------
\* The terminals are numbered from one, and each has its count.
LEMMA TerminalNumbers ==
  ASSUME TerminalTypeOK
  PROVE  /\ Len(terminals) \in Nat /\ DOMAIN terminals = 1..Len(terminals)
         /\ 0 \notin DOMAIN terminals
         /\ DOMAIN taken = DOMAIN terminals
         /\ \A t \in DOMAIN terminals : terminals[t] \in TerminalRecords /\ taken[t] \in Nat
<1>1. /\ terminals \in Seq(TerminalRecords)
      /\ taken \in Seq(Nat) /\ Len(taken) = Len(terminals)
  BY DEF TerminalTypeOK
<1>2. /\ Len(terminals) \in Nat /\ DOMAIN terminals = 1..Len(terminals)
      /\ terminals \in [1..Len(terminals) -> TerminalRecords]
      /\ DOMAIN taken = 1..Len(taken) /\ taken \in [1..Len(taken) -> Nat]
  BY <1>1, LenProperties
<1>3. /\ \A t \in DOMAIN terminals : terminals[t] \in TerminalRecords /\ taken[t] \in Nat
      /\ DOMAIN taken = DOMAIN terminals
  BY <1>1, <1>2
<1>4. 0 \notin DOMAIN terminals
  BY <1>2
<1> QED
  BY <1>2, <1>3, <1>4

\* No terminal was created at first.
LEMMA TerminalInitial == TerminalInit => TerminalInv
<1> SUFFICES ASSUME TerminalInit PROVE TerminalInv
  OBVIOUS
<1>1. /\ terminals \in Seq(TerminalRecords) /\ Len(terminals) = 0
      /\ taken \in Seq(Nat) /\ Len(taken) = 0
  BY EmptySeq DEF TerminalInit
<1>2. DOMAIN terminals = {}
  BY <1>1, LenProperties
<1>3. TerminalTypeOK
  BY <1>1 DEF TerminalInit, TerminalTypeOK
<1>4. DescriptorsAgree /\ OnlyReadersAreLeft
  BY <1>2 DEF TerminalInit, DescriptorsAgree, OnlyReadersAreLeft
<1> QED
  BY <1>3, <1>4 DEF TerminalInv

\* A new terminal is the last one, whose reader took nothing yet.
LEMMA TerminalIsLast ==
  ASSUME TerminalTypeOK, NEW r \in TerminalRecords,
         terminals' = Append(terminals, r), taken' = Append(taken, 0)
  PROVE  /\ terminals' \in Seq(TerminalRecords)
         /\ taken' \in Seq(Nat) /\ Len(taken') = Len(terminals')
         /\ DOMAIN terminals' = DOMAIN terminals \cup {Len(terminals) + 1}
         /\ Len(terminals) + 1 \in Nat \ {0} /\ Len(terminals) + 1 \notin DOMAIN terminals
         /\ \A t \in DOMAIN terminals : terminals'[t] = terminals[t] /\ taken'[t] = taken[t]
         /\ terminals'[Len(terminals) + 1] = r /\ taken'[Len(terminals) + 1] = 0
<1>1. /\ terminals \in Seq(TerminalRecords)
      /\ taken \in Seq(Nat) /\ Len(taken) = Len(terminals)
  BY DEF TerminalTypeOK
<1>2. /\ terminals' \in Seq(TerminalRecords) /\ Len(terminals') = Len(terminals) + 1
      /\ \A t \in 1..Len(terminals) : terminals'[t] = terminals[t]
      /\ terminals'[Len(terminals) + 1] = r
  BY <1>1, AppendProperties
<1>3. /\ taken' \in Seq(Nat) /\ Len(taken') = Len(taken) + 1
      /\ \A t \in 1..Len(taken) : taken'[t] = taken[t]
      /\ taken'[Len(taken) + 1] = 0
  BY <1>1, AppendProperties
<1>4. Len(terminals) \in Nat /\ DOMAIN terminals = 1..Len(terminals)
  BY TerminalNumbers
<1>5. DOMAIN terminals' = 1..(Len(terminals) + 1)
  BY <1>2, LenProperties
<1>6. /\ DOMAIN terminals' = DOMAIN terminals \cup {Len(terminals) + 1}
      /\ Len(terminals) + 1 \in Nat \ {0} /\ Len(terminals) + 1 \notin DOMAIN terminals
  BY <1>4, <1>5
<1> QED
  BY <1>1, <1>2, <1>3, <1>4, <1>6

\* The new terminal has a descriptor that was free.
LEMMA CreateKeeps ==
  ASSUME TerminalInv, NEW s \in TerminalSessions, CreateTerminal(s)
  PROVE  TerminalInv'
<1> DEFINE n == Len(terminals) + 1
<1>1. PICK f \in FreeDescriptors :
        /\ terminals' = Append(terminals, [session |-> s, fd |-> f, state |-> "running", shell |-> TRUE,
                                          client |-> TRUE, reads |-> TRUE, refused |-> FALSE])
        /\ opened' = [opened EXCEPT ![f] = n]
        /\ taken' = Append(taken, 0)
  BY DEF CreateTerminal
<1>2. f \in Descriptors /\ f \in Nat /\ opened[f] = 0 /\ opened \in [Descriptors -> Nat]
  BY TerminalConstants DEF FreeDescriptors, TerminalInv, TerminalTypeOK
<1> DEFINE r == [session |-> s, fd |-> f, state |-> "running", shell |-> TRUE,
                 client |-> TRUE, reads |-> TRUE, refused |-> FALSE]
<1>3. r \in TerminalRecords
  BY <1>2 DEF TerminalRecords
<1>4. /\ terminals' \in Seq(TerminalRecords)
      /\ taken' \in Seq(Nat) /\ Len(taken') = Len(terminals')
      /\ DOMAIN terminals' = DOMAIN terminals \cup {n}
      /\ n \in Nat \ {0} /\ n \notin DOMAIN terminals
      /\ \A t \in DOMAIN terminals : terminals'[t] = terminals[t] /\ taken'[t] = taken[t]
      /\ terminals'[n] = r /\ taken'[n] = 0
  BY <1>1, <1>3, TerminalIsLast DEF TerminalInv
<1>5. r.fd = f /\ r.state = "running" /\ r.shell /\ r.client /\ r.reads /\ ~ r.refused
  OBVIOUS
<1> HIDE DEF n, r
<1>6. TerminalTypeOK'
  BY <1>1, <1>2, <1>4 DEF TerminalTypeOK
<1>7. DescriptorsAgree'
  <2>1. ASSUME NEW g \in Descriptors, opened'[g] # 0
        PROVE  /\ opened'[g] \in DOMAIN terminals'
               /\ Running(opened[g])' /\ terminals'[opened'[g]].fd = g
    <3>1. CASE g = f
      BY <1>1, <1>2, <1>4, <1>5, <3>1 DEF Running
    <3>2. CASE g # f
      BY <1>1, <1>2, <1>4, <2>1, <3>2 DEF TerminalInv, DescriptorsAgree, Running
    <3> QED
      BY <3>1, <3>2
  <2>2. ASSUME NEW t \in DOMAIN terminals', Running(t)'
        PROVE  terminals'[t].fd \in Descriptors /\ opened'[terminals'[t].fd] = t
    <3>1. CASE t = n
      BY <1>1, <1>2, <1>4, <1>5, <3>1
    <3>2. CASE t # n
      <4>1. t \in DOMAIN terminals /\ t # 0 /\ Running(t) /\ terminals'[t] = terminals[t]
        BY <1>4, <2>2, <3>2, TerminalNumbers DEF Running, TerminalInv
      <4>2. terminals[t].fd \in Descriptors /\ opened[terminals[t].fd] = t
        BY <4>1 DEF TerminalInv, DescriptorsAgree
      <4> QED
        BY <1>1, <1>2, <4>1, <4>2
    <3> QED
      BY <3>1, <3>2
  <2> QED
    BY <2>1, <2>2 DEF DescriptorsAgree, Running
<1>8. OnlyReadersAreLeft'
  <2> SUFFICES ASSUME NEW t \in DOMAIN terminals'
               PROVE  /\ terminals'[t].shell \/ terminals'[t].client => Running(t)'
                      /\ Running(t)' => terminals'[t].reads /\ ~ terminals'[t].refused
                      /\ terminals'[t].reads => terminals'[t].fd \in Descriptors /\ taken'[t] = 0
                      /\ terminals'[t].reads /\ ~ Running(t)' => terminals'[t].refused
                      /\ taken'[t] <= 1 /\ (taken'[t] = 1 => terminals'[t].refused)
    BY DEF OnlyReadersAreLeft, Running
  <2>1. CASE t = n
    BY <1>2, <1>4, <1>5, <2>1 DEF Running
  <2>2. CASE t # n
    BY <1>4, <2>2 DEF TerminalInv, OnlyReadersAreLeft, Running
  <2> QED
    BY <2>1, <2>2
<1> QED
  BY <1>6, <1>7, <1>8 DEF TerminalInv

\* A terminal that was not started has no descriptor.
LEMMA ForkFailsKeeps ==
  ASSUME TerminalInv, NEW s \in TerminalSessions, ForkFails(s)
  PROVE  TerminalInv'
<1> DEFINE n == Len(terminals) + 1
           r == [session |-> s, fd |-> 0, state |-> "failed", shell |-> FALSE,
                 client |-> FALSE, reads |-> FALSE, refused |-> FALSE]
<1>1. terminals' = Append(terminals, r) /\ taken' = Append(taken, 0) /\ opened' = opened
  BY DEF ForkFails
<1>2. r \in TerminalRecords
  BY DEF TerminalRecords
<1>3. /\ terminals' \in Seq(TerminalRecords)
      /\ taken' \in Seq(Nat) /\ Len(taken') = Len(terminals')
      /\ DOMAIN terminals' = DOMAIN terminals \cup {n}
      /\ \A t \in DOMAIN terminals : terminals'[t] = terminals[t] /\ taken'[t] = taken[t]
      /\ terminals'[n] = r /\ taken'[n] = 0 /\ n \notin DOMAIN terminals
  BY <1>1, <1>2, TerminalIsLast DEF TerminalInv
<1>4. r.state = "failed" /\ ~ r.shell /\ ~ r.client /\ ~ r.reads
  OBVIOUS
<1> HIDE DEF n, r
<1>5. TerminalTypeOK'
  BY <1>1, <1>3 DEF TerminalInv, TerminalTypeOK
<1>6. DescriptorsAgree'
  BY <1>1, <1>3, <1>4 DEF TerminalInv, DescriptorsAgree, Running
<1>7. OnlyReadersAreLeft'
  BY <1>3, <1>4 DEF TerminalInv, OnlyReadersAreLeft, Running
<1> QED
  BY <1>5, <1>6, <1>7 DEF TerminalInv

\* A step that changes one terminal changes no other.
LEMMA OneTerminalChanges ==
  ASSUME TerminalTypeOK, NEW t \in DOMAIN terminals, NEW r \in TerminalRecords,
         terminals' = [terminals EXCEPT ![t] = r]
  PROVE  /\ terminals' \in Seq(TerminalRecords) /\ Len(terminals') = Len(terminals)
         /\ DOMAIN terminals' = DOMAIN terminals
         /\ terminals'[t] = r
         /\ \A u \in DOMAIN terminals \ {t} : terminals'[u] = terminals[u]
<1>1. terminals \in Seq(TerminalRecords)
  BY DEF TerminalTypeOK
<1>2. /\ terminals' \in Seq(TerminalRecords) /\ Len(terminals') = Len(terminals)
      /\ DOMAIN terminals' = DOMAIN terminals
  BY <1>1, ExceptSeq
<1> QED
  BY <1>2

\* The descriptor of a terminal that runs, and only its own, is closed with it.
LEMMA EndKeeps ==
  ASSUME TerminalInv, NEW t \in DOMAIN terminals, Running(t),
         NEW refused \in BOOLEAN, NEW reads \in BOOLEAN, reads => refused,
         EndTerminal(t, refused, reads), taken' = taken
  PROVE  TerminalInv'
<1> DEFINE r == [terminals[t] EXCEPT !.state = "ended", !.shell = FALSE, !.client = FALSE,
                                     !.refused = refused, !.reads = reads]
           f == terminals[t].fd
<1>1. terminals[t] \in TerminalRecords /\ 0 # t /\ DOMAIN taken = DOMAIN terminals
  BY TerminalNumbers DEF TerminalInv
<1>2. r \in TerminalRecords
  BY <1>1 DEF TerminalRecords
<1>3. /\ r.state = "ended" /\ ~ r.shell /\ ~ r.client
      /\ r.refused = refused /\ r.reads = reads /\ r.fd = f
  BY <1>1 DEF TerminalRecords
<1>4. /\ terminals' = [terminals EXCEPT ![t] = r]
      /\ opened' = [opened EXCEPT ![f] = 0]
  BY DEF EndTerminal
<1>5. /\ f \in Descriptors /\ opened[f] = t /\ opened \in [Descriptors -> Nat]
      /\ taken[t] = 0
  BY DEF TerminalInv, TerminalTypeOK, DescriptorsAgree, OnlyReadersAreLeft
<1> HIDE DEF r, f
<1>6. /\ terminals' \in Seq(TerminalRecords) /\ Len(terminals') = Len(terminals)
      /\ DOMAIN terminals' = DOMAIN terminals
      /\ terminals'[t] = r
      /\ \A u \in DOMAIN terminals \ {t} : terminals'[u] = terminals[u]
  BY <1>2, <1>4, OneTerminalChanges DEF TerminalInv
<1>7. TerminalTypeOK'
  BY <1>4, <1>5, <1>6 DEF TerminalInv, TerminalTypeOK
<1>8. DescriptorsAgree'
  <2>1. ASSUME NEW g \in Descriptors, opened'[g] # 0
        PROVE  /\ opened'[g] \in DOMAIN terminals'
               /\ Running(opened[g])' /\ terminals'[opened'[g]].fd = g
    <3>1. g # f /\ opened'[g] = opened[g]
      BY <1>4, <1>5, <2>1
    <3>2. /\ opened[g] \in DOMAIN terminals /\ Running(opened[g]) /\ terminals[opened[g]].fd = g
      BY <2>1, <3>1 DEF TerminalInv, DescriptorsAgree
    <3>3. opened[g] # t
      BY <3>1, <3>2 DEF f
    <3> QED
      BY <1>6, <3>1, <3>2, <3>3 DEF Running
  <2>2. ASSUME NEW u \in DOMAIN terminals', Running(u)'
        PROVE  terminals'[u].fd \in Descriptors /\ opened'[terminals'[u].fd] = u
    <3>1. u # t
      BY <1>3, <1>6, <2>2 DEF Running
    <3>2. u \in DOMAIN terminals /\ terminals'[u] = terminals[u] /\ Running(u)
      BY <1>6, <2>2, <3>1 DEF Running
    <3>3. terminals[u].fd \in Descriptors /\ opened[terminals[u].fd] = u
      BY <3>2 DEF TerminalInv, DescriptorsAgree
    <3> QED
      BY <1>4, <1>5, <3>1, <3>2, <3>3
  <2> QED
    BY <2>1, <2>2 DEF DescriptorsAgree, Running
<1>9. OnlyReadersAreLeft'
  <2> SUFFICES ASSUME NEW u \in DOMAIN terminals'
               PROVE  /\ terminals'[u].shell \/ terminals'[u].client => Running(u)'
                      /\ Running(u)' => terminals'[u].reads /\ ~ terminals'[u].refused
                      /\ terminals'[u].reads => terminals'[u].fd \in Descriptors /\ taken'[u] = 0
                      /\ terminals'[u].reads /\ ~ Running(u)' => terminals'[u].refused
                      /\ taken'[u] <= 1 /\ (taken'[u] = 1 => terminals'[u].refused)
    BY DEF OnlyReadersAreLeft, Running
  <2>1. CASE u = t
    BY <1>3, <1>5, <1>6, <2>1 DEF Running
  <2>2. CASE u # t
    BY <1>6, <2>2 DEF TerminalInv, OnlyReadersAreLeft, Running
  <2> QED
    BY <2>1, <2>2
<1> QED
  BY <1>7, <1>8, <1>9 DEF TerminalInv

\* A terminal that goes on as it was, or that its reader leaves alone, keeps its
\* descriptor.
LEMMA ChangeKeeps ==
  ASSUME TerminalInv, NEW t \in DOMAIN terminals, NEW r \in TerminalRecords,
         terminals' = [terminals EXCEPT ![t] = r],
         r.fd = terminals[t].fd, r.state = terminals[t].state, r.refused = terminals[t].refused,
         r.shell => terminals[t].shell, r.client => terminals[t].client,
         r.reads => terminals[t].reads, Running(t) => r.reads,
         opened' = opened, taken' \in Seq(Nat), Len(taken') = Len(taken),
         \A u \in DOMAIN terminals \ {t} : taken'[u] = taken[u],
         taken'[t] = taken[t] \/ (terminals[t].reads /\ ~ Running(t) /\ ~ r.reads /\ taken'[t] = 1)
  PROVE  TerminalInv'
<1>1. /\ terminals' \in Seq(TerminalRecords) /\ Len(terminals') = Len(terminals)
      /\ DOMAIN terminals' = DOMAIN terminals
      /\ terminals'[t] = r
      /\ \A u \in DOMAIN terminals \ {t} : terminals'[u] = terminals[u]
  BY OneTerminalChanges DEF TerminalInv
<1>2. \A u \in DOMAIN terminals :
        /\ terminals'[u].fd = terminals[u].fd /\ terminals'[u].state = terminals[u].state
  BY <1>1
<1>3. TerminalTypeOK'
  BY <1>1 DEF TerminalInv, TerminalTypeOK
<1>4. DescriptorsAgree'
  BY <1>1, <1>2 DEF TerminalInv, DescriptorsAgree, Running
<1>5. OnlyReadersAreLeft'
  <2> SUFFICES ASSUME NEW u \in DOMAIN terminals'
               PROVE  /\ terminals'[u].shell \/ terminals'[u].client => Running(u)'
                      /\ Running(u)' => terminals'[u].reads /\ ~ terminals'[u].refused
                      /\ terminals'[u].reads => terminals'[u].fd \in Descriptors /\ taken'[u] = 0
                      /\ terminals'[u].reads /\ ~ Running(u)' => terminals'[u].refused
                      /\ taken'[u] <= 1 /\ (taken'[u] = 1 => terminals'[u].refused)
    BY DEF OnlyReadersAreLeft, Running
  <2>1. CASE u = t
    BY <1>1, <2>1 DEF TerminalInv, OnlyReadersAreLeft, Running
  <2>2. CASE u # t
    BY <1>1, <2>2 DEF TerminalInv, OnlyReadersAreLeft, Running
  <2> QED
    BY <2>1, <2>2
<1> QED
  BY <1>3, <1>4, <1>5 DEF TerminalInv

\* What a reader takes of another terminal is counted as its own.
LEMMA TakenBy ==
  ASSUME TerminalInv, NEW t \in DOMAIN terminals, NEW u \in DOMAIN terminals, Takes(t, u)
  PROVE  /\ taken' \in Seq(Nat) /\ Len(taken') = Len(taken)
         /\ \A v \in DOMAIN terminals \ {t} : taken'[v] = taken[v]
         /\ terminals[t].reads
         /\ Running(t) => taken' = taken
         /\ taken'[t] \in {taken[t], 1}
<1>1. /\ terminals[t].reads /\ u = opened[terminals[t].fd]
      /\ taken' = IF u = t THEN taken ELSE [taken EXCEPT ![t] = taken[t] + 1]
  BY DEF Takes
<1>2. /\ taken \in Seq(Nat) /\ DOMAIN taken = DOMAIN terminals /\ taken[t] = 0
  BY <1>1, TerminalNumbers DEF TerminalInv, TerminalTypeOK, OnlyReadersAreLeft
<1>3. Running(t) => u = t
  BY <1>1 DEF TerminalInv, DescriptorsAgree
<1>4. CASE u = t
  BY <1>1, <1>2, <1>4
<1>5. CASE u # t
  <2>1. taken' = [taken EXCEPT ![t] = 1]
    BY <1>1, <1>2, <1>5
  <2>2. taken' \in Seq(Nat) /\ Len(taken') = Len(taken)
    BY <1>2, <2>1, ExceptSeq
  <2> QED
    BY <1>1, <1>2, <1>3, <1>5, <2>1, <2>2
<1> QED
  BY <1>4, <1>5

\* Sending raises only when the client is gone: that of a terminal that ended, whose
\* reader is over now, or of one that runs, and ends.
LEMMA SendRaisesKeeps ==
  ASSUME TerminalInv, NEW t \in DOMAIN terminals, NEW u \in DOMAIN terminals, SendRaises(t, u)
  PROVE  TerminalInv'
<1>1. /\ taken' \in Seq(Nat) /\ Len(taken') = Len(taken)
      /\ \A v \in DOMAIN terminals \ {t} : taken'[v] = taken[v]
      /\ terminals[t].reads
      /\ Running(t) => taken' = taken
      /\ taken'[t] \in {taken[t], 1}
  BY TakenBy DEF SendRaises
<1>2. CASE Running(t)
  <2>1. EndTerminal(t, FALSE, FALSE)
    BY <1>2 DEF SendRaises
  <2> QED
    BY <1>1, <1>2, <2>1, EndKeeps
<1>3. CASE ~ Running(t)
  <2> DEFINE r == [terminals[t] EXCEPT !.reads = FALSE]
  <2>1. terminals[t] \in TerminalRecords
    BY TerminalNumbers DEF TerminalInv
  <2>2. /\ r \in TerminalRecords
        /\ r.fd = terminals[t].fd /\ r.state = terminals[t].state /\ r.refused = terminals[t].refused
        /\ r.shell = terminals[t].shell /\ r.client = terminals[t].client /\ ~ r.reads
    BY <2>1 DEF TerminalRecords
  <2>3. terminals' = [terminals EXCEPT ![t] = r] /\ opened' = opened
    BY <1>3 DEF SendRaises
  <2> HIDE DEF r
  <2> QED
    BY <1>1, <1>3, <2>2, <2>3, ChangeKeeps
<1> QED
  BY <1>2, <1>3

\* No step gives a terminal that runs the output of another.
LEMMA TerminalStep ==
  ASSUME TerminalInv, [TerminalNext]_terminalVars
  PROVE  TerminalInv'
<1>1. ASSUME NEW t \in DOMAIN terminals
      PROVE  terminals[t] \in TerminalRecords
  BY TerminalNumbers DEF TerminalInv
<1>2. CASE \E s \in TerminalSessions : CreateTerminal(s)
  BY <1>2, CreateKeeps
<1>3. CASE \E s \in TerminalSessions : ForkFails(s)
  BY <1>3, ForkFailsKeeps
<1>4. ASSUME NEW t \in DOMAIN terminals, NEW u \in DOMAIN terminals, ReadAndSend(t, u)
      PROVE  TerminalInv'
  <2>1. Running(t) /\ taken' = taken
    BY <1>4, TakenBy DEF ReadAndSend, TerminalInv, OnlyReadersAreLeft
  <2>2. UNCHANGED <<terminals, opened>>
    BY <1>4 DEF ReadAndSend
  <2> QED
    BY <2>1, <2>2 DEF TerminalInv, TerminalTypeOK, DescriptorsAgree, OnlyReadersAreLeft, Running
<1>5. ASSUME NEW t \in DOMAIN terminals, NEW u \in DOMAIN terminals, SendRaises(t, u)
      PROVE  TerminalInv'
  BY <1>5, SendRaisesKeeps
<1>6. ASSUME NEW t \in DOMAIN terminals, WriteRaises(t)
      PROVE  TerminalInv'
  BY <1>6, EndKeeps DEF WriteRaises
<1>7. ASSUME NEW t \in DOMAIN terminals, ClientLeaves(t)
      PROVE  TerminalInv'
  <2> DEFINE r == [terminals[t] EXCEPT !.client = FALSE]
  <2>1. /\ r \in TerminalRecords
        /\ r.fd = terminals[t].fd /\ r.state = terminals[t].state /\ r.refused = terminals[t].refused
        /\ r.shell = terminals[t].shell /\ r.reads = terminals[t].reads /\ ~ r.client
    BY <1>1 DEF TerminalRecords
  <2>2. terminals' = [terminals EXCEPT ![t] = r] /\ opened' = opened /\ taken' = taken
    BY <1>7 DEF ClientLeaves
  <2>3. taken \in Seq(Nat) /\ (Running(t) => r.reads)
    BY <2>1 DEF TerminalInv, TerminalTypeOK, OnlyReadersAreLeft
  <2> HIDE DEF r
  <2> QED
    BY <2>1, <2>2, <2>3, ChangeKeeps
<1>8. ASSUME NEW t \in DOMAIN terminals, ShellPrints(t)
      PROVE  TerminalInv'
  BY <1>8 DEF ShellPrints, TerminalInv, TerminalTypeOK, DescriptorsAgree, OnlyReadersAreLeft, Running
<1>9. ASSUME NEW t \in DOMAIN terminals, ShellExits(t)
      PROVE  TerminalInv'
  <2> DEFINE r == [terminals[t] EXCEPT !.shell = FALSE]
  <2>1. /\ r \in TerminalRecords
        /\ r.fd = terminals[t].fd /\ r.state = terminals[t].state /\ r.refused = terminals[t].refused
        /\ r.client = terminals[t].client /\ r.reads = terminals[t].reads /\ ~ r.shell
    BY <1>1 DEF TerminalRecords
  <2>2. terminals' = [terminals EXCEPT ![t] = r] /\ opened' = opened /\ taken' = taken
    BY <1>9 DEF ShellExits
  <2>3. taken \in Seq(Nat) /\ (Running(t) => r.reads)
    BY <2>1 DEF TerminalInv, TerminalTypeOK, OnlyReadersAreLeft
  <2> HIDE DEF r
  <2> QED
    BY <2>1, <2>2, <2>3, ChangeKeeps
<1>10. CASE UNCHANGED terminalVars
  BY <1>10 DEF terminalVars, TerminalInv, TerminalTypeOK, DescriptorsAgree, OnlyReadersAreLeft, Running
<1> QED
  BY <1>2, <1>3, <1>4, <1>5, <1>6, <1>7, <1>8, <1>9, <1>10 DEF TerminalNext

\* Whatever is typed, printed and closed in whichever order, a reader that was left
\* behind costs others one reading, and every shell belongs to a terminal that runs.
THEOREM TerminalsSafe == TerminalSpec => []OthersLoseLittle
<1>1. TerminalInv => OthersLoseLittle
  <2> SUFFICES ASSUME TerminalInv PROVE OthersLoseLittle
    OBVIOUS
  <2>1. ASSUME NEW t \in DOMAIN terminals
        PROVE  /\ taken[t] <= 1 /\ (taken[t] = 1 => terminals[t].refused)
               /\ terminals[t].shell => Running(t)
    BY DEF TerminalInv, OnlyReadersAreLeft
  <2>2. ASSUME NEW t \in DOMAIN terminals
        PROVE  Running(t) <=> \E f \in Descriptors : opened[f] = t
    <3>1. t # 0
      BY TerminalNumbers DEF TerminalInv
    <3> QED
      BY <3>1 DEF TerminalInv, DescriptorsAgree
  <2> QED
    BY <2>1, <2>2 DEF OthersLoseLittle
<1>2. TerminalSpec => []TerminalInv
  BY TerminalInitial, TerminalStep, PTL DEF TerminalSpec
<1> QED
  BY <1>1, <1>2, PTL

-----------------------------------------------------------------------------
(***************************************************************************)
(* Routes.                                                                 *)
(***************************************************************************)
Routes == [session : Routed, domain : Domains, port : TargetPorts]

Directories == {"conf.d", "nginx_configs"}

IngressTypeOK ==
  /\ routes \in [Subdomains \X Domains -> Routes \cup {Unrouted}]
  /\ writable \in BOOLEAN
  /\ files \in [Directories -> [Subdomains -> Routes \cup {Unrouted}]]
  /\ unsaved \subseteq Subdomains

\* A route's file is the one of its subdomain.
FilesAreOwn ==
  \A d \in Directories, x \in Subdomains :
    files[d][x] # Unrouted => Subdomain[files[d][x].session] = x

\* The directory that is not written holds what was not found when it changed.
NothingElsewhere ==
  \A d \in Directories \ {Directory}, x \in Subdomains \ unsaved : files[d][x] = Unrouted

Named ==
  \A d \in Directories, x \in Subdomains \ unsaved :
    files[d][x] # Unrouted => routes[Address(files[d][x])] = files[d][x]

IngressInv == IngressTypeOK /\ FilesAreOwn /\ NothingElsewhere /\ Named

----------------------------------------------------------------------------
\* The address of a route that is in a file begins with the file's subdomain.
LEMMA AddressOfFile ==
  ASSUME IngressInv, NEW d \in Directories, NEW x \in Subdomains, files[d][x] # Unrouted
  PROVE  /\ files[d][x] \in Routes
         /\ Address(files[d][x]) = <<x, files[d][x].domain>>
         /\ Address(files[d][x]) \in Subdomains \X Domains
<1>1. files[d][x] \in Routes
  BY DEF IngressInv, IngressTypeOK
<1>2. files[d][x].domain \in Domains /\ Subdomain[files[d][x].session] = x
  BY <1>1 DEF Routes, IngressInv, FilesAreOwn
<1> QED
  BY <1>1, <1>2 DEF Address

\* A route that is made has an address.
LEMMA RouteHasAddress ==
  ASSUME NEW s \in Routed, NEW d \in Domains, NEW port \in TargetPorts
  PROVE  /\ RouteTo(s, d, port) \in Routes
         /\ Subdomain[s] \in Subdomains
         /\ RouteTo(s, d, port).session = s
         /\ Address(RouteTo(s, d, port)) = <<Subdomain[s], d>>
BY DEF RouteTo, Routes, Subdomains, Address

\* The directory that is written is one of the two.
LEMMA DirectoryExists == Directory \in Directories
BY DEF Directory, Directories

\* Nothing is named before the first route.
LEMMA IngressInitial == IngressInit => IngressInv
<1> SUFFICES ASSUME IngressInit PROVE IngressInv
  OBVIOUS
<1>1. IngressTypeOK
  BY DEF IngressInit, IngressTypeOK, Directories
<1>2. \A d \in Directories, x \in Subdomains : files[d][x] = Unrouted
  BY DEF IngressInit, Directories
<1> QED
  BY <1>1, <1>2 DEF IngressInv, FilesAreOwn, NothingElsewhere, Named

\* Registering writes the route where it is looked for, and touches no address
\* of another subdomain.
LEMMA RegisterKeeps ==
  ASSUME IngressInv, NEW s \in Routed, NEW d \in Domains, NEW port \in TargetPorts,
         RegisterRoute(RouteTo(s, d, port))
  PROVE  IngressInv'
<1> DEFINE r == RouteTo(s, d, port)
           y == Subdomain[s]
<1>1. /\ r \in Routes /\ y \in Subdomains /\ r.session = s /\ Address(r) = <<y, d>>
      /\ Directory \in Directories
  BY RouteHasAddress, DirectoryExists
<1>2. /\ routes' = [routes EXCEPT ![<<y, d>>] = r]
      /\ files' = [files EXCEPT ![Directory][y] = r]
      /\ writable' = writable /\ unsaved' = unsaved
  BY <1>1 DEF RegisterRoute
<1> HIDE DEF r
<1>3. IngressTypeOK'
  BY <1>1, <1>2 DEF IngressInv, IngressTypeOK
<1>4. ASSUME NEW e \in Directories, NEW x \in Subdomains
      PROVE  files'[e][x] = IF e = Directory /\ x = y THEN r ELSE files[e][x]
  BY <1>1, <1>2 DEF IngressInv, IngressTypeOK
<1>5. FilesAreOwn'
  BY <1>1, <1>4 DEF IngressInv, FilesAreOwn
<1>6. Directory' = Directory
  BY <1>2 DEF Directory
<1>7. NothingElsewhere'
  BY <1>2, <1>4, <1>6 DEF IngressInv, NothingElsewhere
<1>8. ASSUME NEW e \in Directories, NEW x \in Subdomains \ unsaved, files'[e][x] # Unrouted
      PROVE  routes'[Address(files'[e][x])] = files'[e][x]
  <2>1. CASE x = y
    <3>1. e = Directory
      BY <1>4, <1>8 DEF IngressInv, NothingElsewhere
    <3>2. files'[e][x] = r
      BY <1>4, <2>1, <3>1
    <3> QED
      BY <1>1, <1>2, <3>2 DEF IngressInv, IngressTypeOK
  <2>2. CASE x # y
    <3>1. files'[e][x] = files[e][x]
      BY <1>4, <2>2
    <3>2. Address(files[e][x]) # <<y, d>> /\ Address(files[e][x]) \in Subdomains \X Domains
      BY <1>8, <2>2, <3>1, AddressOfFile
    <3>3. routes[Address(files[e][x])] = files[e][x]
      BY <1>8, <3>1 DEF IngressInv, Named
    <3> QED
      BY <1>2, <3>1, <3>2, <3>3 DEF IngressInv, IngressTypeOK
  <2> QED
    BY <2>1, <2>2
<1>9. Named'
  BY <1>2, <1>8 DEF Named, Address
<1> QED
  BY <1>3, <1>5, <1>7, <1>9 DEF IngressInv

\* When saving fails the subdomain is no longer spoken of.
LEMMA SaveFailsKeeps ==
  ASSUME IngressInv, NEW s \in Routed, NEW d \in Domains, NEW port \in TargetPorts,
         SaveFails(RouteTo(s, d, port))
  PROVE  IngressInv'
<1> DEFINE r == RouteTo(s, d, port)
           y == Subdomain[s]
<1>1. /\ r \in Routes /\ y \in Subdomains /\ r.session = s /\ Address(r) = <<y, d>>
      /\ Directory \in Directories
  BY RouteHasAddress, DirectoryExists
<1>2. /\ routes' = [routes EXCEPT ![<<y, d>>] = r]
      /\ \E left \in {files[Directory][y], Unrouted} : files' = [files EXCEPT ![Directory][y] = left]
      /\ writable' = writable /\ unsaved' = unsaved \cup {y}
  BY <1>1 DEF SaveFails
<1> HIDE DEF r
<1>3. PICK left \in {files[Directory][y], Unrouted} : files' = [files EXCEPT ![Directory][y] = left]
  BY <1>2
<1>4. left \in Routes \cup {Unrouted}
  BY <1>1, <1>3 DEF IngressInv, IngressTypeOK
<1>5. IngressTypeOK'
  BY <1>1, <1>2, <1>3, <1>4 DEF IngressInv, IngressTypeOK
<1>6. ASSUME NEW e \in Directories, NEW x \in Subdomains
      PROVE  files'[e][x] = files[e][x] \/ files'[e][x] = Unrouted
  BY <1>1, <1>3 DEF IngressInv, IngressTypeOK
<1>7. ASSUME NEW e \in Directories, NEW x \in Subdomains, x # y
      PROVE  files'[e][x] = files[e][x]
  BY <1>1, <1>3, <1>7 DEF IngressInv, IngressTypeOK
<1>8. FilesAreOwn'
  BY <1>6 DEF IngressInv, FilesAreOwn
<1>9. Directory' = Directory
  BY <1>2 DEF Directory
<1>10. NothingElsewhere'
  BY <1>2, <1>6, <1>9 DEF IngressInv, NothingElsewhere
<1>11. ASSUME NEW e \in Directories, NEW x \in Subdomains \ unsaved', files'[e][x] # Unrouted
       PROVE  routes'[Address(files'[e][x])] = files'[e][x]
  <2>1. x # y /\ x \in Subdomains \ unsaved
    BY <1>2, <1>11
  <2>2. files'[e][x] = files[e][x]
    BY <1>7, <2>1
  <2>3. Address(files[e][x]) # <<y, d>> /\ Address(files[e][x]) \in Subdomains \X Domains
    BY <1>11, <2>1, <2>2, AddressOfFile
  <2>4. routes[Address(files[e][x])] = files[e][x]
    BY <1>11, <2>1, <2>2 DEF IngressInv, Named
  <2> QED
    BY <1>2, <2>2, <2>3, <2>4 DEF IngressInv, IngressTypeOK
<1>12. Named'
  BY <1>11 DEF Named, Address
<1> QED
  BY <1>5, <1>8, <1>10, <1>12 DEF IngressInv

\* A route whose file is left was not unregistered.
LEMMA UnregisterKeeps ==
  ASSUME IngressInv, NEW A \in SUBSET DOMAIN routes, UnregisterRoutes(A)
  PROVE  IngressInv'
<1> DEFINE gone == {a[1] : a \in {b \in A : routes[b] # Unrouted}}
<1>1. /\ files' = [files EXCEPT ![Directory] =
                     [x \in Subdomains |-> IF x \in gone THEN Unrouted ELSE files[Directory][x]]]
      /\ routes' = [a \in Subdomains \X Domains |-> IF a \in A THEN Unrouted ELSE routes[a]]
      /\ writable' = writable /\ unsaved' = unsaved
      /\ Directory \in Directories
  BY DirectoryExists DEF UnregisterRoutes, RemoveConfig, IngressInv, IngressTypeOK
<1>2. ASSUME NEW e \in Directories, NEW x \in Subdomains
      PROVE  files'[e][x] = IF e = Directory /\ x \in gone THEN Unrouted ELSE files[e][x]
  BY <1>1 DEF IngressInv, IngressTypeOK
<1>3. \A x \in Subdomains, a \in A : a[1] = x /\ routes[a] # Unrouted => x \in gone
  OBVIOUS
<1> HIDE DEF gone
<1>4. IngressTypeOK'
  <2>1. routes' \in [Subdomains \X Domains -> Routes \cup {Unrouted}]
    BY <1>1 DEF IngressInv, IngressTypeOK
  <2>2. files' \in [Directories -> [Subdomains -> Routes \cup {Unrouted}]]
    BY <1>1 DEF IngressInv, IngressTypeOK
  <2> QED
    BY <1>1, <2>1, <2>2 DEF IngressInv, IngressTypeOK
<1>5. FilesAreOwn'
  BY <1>2 DEF IngressInv, FilesAreOwn
<1>6. Directory' = Directory
  BY <1>1 DEF Directory
<1>7. NothingElsewhere'
  BY <1>1, <1>2, <1>6 DEF IngressInv, NothingElsewhere
<1>8. ASSUME NEW e \in Directories, NEW x \in Subdomains \ unsaved, files'[e][x] # Unrouted
      PROVE  routes'[Address(files'[e][x])] = files'[e][x]
  <2>1. files'[e][x] = files[e][x] /\ ~ (e = Directory /\ x \in gone)
    BY <1>2, <1>8
  <2>2. e = Directory
    BY <1>8, <2>1 DEF IngressInv, NothingElsewhere
  <2>3. /\ Address(files[e][x]) = <<x, files[e][x].domain>>
        /\ Address(files[e][x]) \in Subdomains \X Domains
    BY <1>8, <2>1, AddressOfFile
  <2>4. routes[Address(files[e][x])] = files[e][x]
    BY <1>8, <2>1 DEF IngressInv, Named
  <2>5. Address(files[e][x])[1] = x
    BY <2>3
  <2>6. Address(files[e][x]) \notin A
    BY <1>3, <1>8, <2>1, <2>2, <2>4, <2>5
  <2> QED
    BY <1>1, <2>1, <2>3, <2>4, <2>6
<1>9. Named'
  BY <1>1, <1>8 DEF Named, Address
<1> QED
  BY <1>4, <1>5, <1>7, <1>9 DEF IngressInv

\* What is in the directory that is given up is no longer spoken of.
LEMMA AccessKeeps ==
  ASSUME IngressInv, AccessChanges
  PROVE  IngressInv'
<1>1. IngressTypeOK'
  BY DEF IngressInv, IngressTypeOK, AccessChanges
<1>2. FilesAreOwn'
  BY DEF IngressInv, FilesAreOwn, AccessChanges
<1>3. ASSUME NEW e \in Directories \ {Directory'}, NEW x \in Subdomains \ unsaved'
      PROVE  files'[e][x] = Unrouted
  <2>1. e = Directory
    BY <1>3 DEF Directory, Directories, AccessChanges, IngressInv, IngressTypeOK
  <2>2. files' = files /\ unsaved' = unsaved \cup {z \in Subdomains : files[Directory][z] # Unrouted}
    BY DEF AccessChanges
  <2> QED
    BY <1>3, <2>1, <2>2
<1>4. NothingElsewhere'
  BY <1>3 DEF NothingElsewhere
<1>5. Named'
  BY DEF IngressInv, Named, Address, AccessChanges
<1> QED
  BY <1>1, <1>2, <1>4, <1>5 DEF IngressInv

----------------------------------------------------------------------------
\* IngressRouter (src/networking/router.py): as long as its subdomain's file was
\* written and found, a configuration file names the route its address has.
THEOREM FilesName == IngressSpec => []FilesNameRoutes
<1>1. IngressInit => IngressInv
  BY IngressInitial
<1>2. IngressInv /\ [IngressNext]_ingressVars => IngressInv'
  <2> SUFFICES ASSUME IngressInv, [IngressNext]_ingressVars PROVE IngressInv'
    OBVIOUS
  <2>1. ASSUME NEW s \in Routed, NEW d \in Domains, NEW port \in TargetPorts,
               RegisterRoute(RouteTo(s, d, port)) \/ SaveFails(RouteTo(s, d, port))
        PROVE  IngressInv'
    BY <2>1, RegisterKeeps, SaveFailsKeeps
  <2>2. CASE CleanupNetwork
    <3>1. PICK A \in SUBSET DOMAIN routes : UnregisterRoutes(A)
      BY <2>2 DEF CleanupNetwork
    <3> QED
      BY <3>1, UnregisterKeeps
  <2>3. CASE AccessChanges
    BY <2>3, AccessKeeps
  <2>4. CASE UNCHANGED ingressVars
    BY <2>4 DEF ingressVars, IngressInv, IngressTypeOK, FilesAreOwn, NothingElsewhere, Named,
                Directory, Address
  <2> QED
    BY <2>1, <2>2, <2>3, <2>4 DEF IngressNext
<1>3. IngressInv => FilesNameRoutes
  BY DEF IngressInv, IngressTypeOK, Named, FilesNameRoutes
<1> QED
  BY <1>1, <1>2, <1>3, PTL DEF IngressSpec

-----------------------------------------------------------------------------
(***************************************************************************)
(* Credentials.                                                            *)
(***************************************************************************)
LastingTypeOK ==
  /\ lasting \in [Keys -> Nat \cup {None}]
  /\ soonest \in [Keys -> Nat \cup {None}]
  /\ cleanups \subseteq [of : Keys, due : Nat, twin : Twins]
  /\ minute \in Nat

\* The tasks that wait for a key that has a file do not wake before a task may delete it.
TasksAreInTime ==
  \A c \in cleanups : lasting[c.of] # None => soonest[c.of] \in Nat /\ c.due >= soonest[c.of]

LastingInv == LastingTypeOK /\ TasksAreInTime

Encrypted == [value : Values, key : Nat]

SecuredTypeOK ==
  /\ secured \in [Files -> Encrypted \cup {None, Broken}]
  /\ cached \in [Ids -> Encrypted \cup {None}]
  /\ key \in Nat
  /\ keyFile \in Nat \cup {None}
  /\ restarts \in Nat
  /\ expected \in [Ids -> Values \cup {None, "unknown"}]

\* The file and the memory of an id have the value that is expected of it, whatever
\* the keys are.
HoldsExpected(i) ==
  expected[i] # "unknown" =>
    /\ secured[FileOf[i]] # Broken
    /\ secured[FileOf[i]] = None => expected[i] = None
    /\ secured[FileOf[i]] \in Encrypted => secured[FileOf[i]].value = expected[i]
    /\ cached[i] # None => cached[i].value = expected[i]

SecuredInv == SecuredTypeOK /\ \A i \in Ids : HoldsExpected(i)

----------------------------------------------------------------------------
\* Nothing is stored at first.
LEMMA CredentialsInitial == LastingInit /\ SecuredInit => LastingInv /\ SecuredInv
<1> SUFFICES ASSUME LastingInit, SecuredInit PROVE LastingInv /\ SecuredInv
  OBVIOUS
<1>1. LastingInv
  BY DEF LastingInit, LastingInv, LastingTypeOK, TasksAreInTime
<1>2. None # Broken /\ None \notin Encrypted
  BY CredentialConstants DEF Broken, Encrypted
<1>3. SecuredInv
  BY <1>2, CredentialConstants DEF SecuredInit, SecuredInv, SecuredTypeOK, HoldsExpected
<1> QED
  BY <1>1, <1>3

\* When the file of k awaits the tasks of some times, among them those of all the tasks
\* that wait for k in the next state, these are in time.
LEMMA AwaitsKeeps ==
  ASSUME LastingTypeOK, TasksAreInTime, NEW k \in Keys, NEW times \in SUBSET Nat, Awaits(k, times),
         cleanups' \subseteq [of : Keys, due : Nat, twin : Twins],
         \A c \in cleanups' : IF c.of = k THEN c.due \in times \/ \E t \in times : c.due >= t
                                          ELSE c \in cleanups /\ lasting'[c.of] = lasting[c.of]
  PROVE  soonest' \in [Keys -> Nat \cup {None}] /\ TasksAreInTime'
<1>1. soonest \in [Keys -> Nat \cup {None}]
  BY DEF LastingTypeOK
<1>2. CASE times = {}
  <2>1. soonest' = [soonest EXCEPT ![k] = None]
    BY <1>2 DEF Awaits
  <2>2. \A c \in cleanups' : c.of # k
    BY <1>2
  <2>3. \A c \in cleanups' : soonest'[c.of] = soonest[c.of]
    BY <1>1, <2>1, <2>2
  <2> QED
    BY <1>1, <2>1, <2>2, <2>3 DEF TasksAreInTime
<1>3. CASE times # {}
  <2>1. PICK t \in times : (\A u \in times : t <= u) /\ soonest' = [soonest EXCEPT ![k] = t]
    BY <1>3 DEF Awaits
  <2>2. ASSUME NEW c \in cleanups', c.of = k PROVE c.due \in Nat /\ c.due >= t
    <3>1. c.due \in Nat /\ t \in Nat
      OBVIOUS
    <3>2. c.due \in times \/ \E u \in times : c.due >= u
      BY <2>2
    <3>3. CASE c.due \in times
      BY <2>1, <3>1, <3>3
    <3>4. CASE \E u \in times : c.due >= u
      <4>1. PICK u \in times : c.due >= u
        BY <3>4
      <4>2. u \in Nat /\ t <= u
        BY <2>1
      <4> QED
        BY <3>1, <4>1, <4>2
    <3> QED
      BY <3>1, <3>2, <3>3, <3>4
  <2>3. \A c \in cleanups' : c.of = k => soonest'[c.of] = t
    BY <1>1, <2>1
  <2>4. \A c \in cleanups' : c.of # k => soonest'[c.of] = soonest[c.of]
    BY <1>1, <2>1
  <2>5. TasksAreInTime'
    BY <2>1, <2>2, <2>3, <2>4 DEF TasksAreInTime
  <2> QED
    BY <1>1, <2>1, <2>5
<1> QED
  BY <1>2, <1>3

\* The times that tasks wake in.
LEMMA DuesAreTimes ==
  ASSUME NEW tasks \in SUBSET [of : Keys, due : Nat, twin : Twins], NEW k \in Keys
  PROVE  /\ Dues(k, tasks) \subseteq Nat
         /\ \A c \in tasks : c.of = k => c.due \in Dues(k, tasks)
BY DEF Dues

\* A file that is stored awaits its own task and those that wait already.
LEMMA StoreForKeeps ==
  ASSUME LastingInv, NEW k \in Keys, NEW ttl \in Ttls, StoreFor(k, ttl)
  PROVE  LastingInv' /\ NotTooSoon
<1> DEFINE due == minute + ttl
           times == {due} \cup Dues(k, cleanups)
<1>1. /\ lasting' = [lasting EXCEPT ![k] = due] /\ Starts(k, due)
      /\ Awaits(k, times) /\ minute' = minute
  BY DEF StoreFor
<1>2. /\ lasting \in [Keys -> Nat \cup {None}] /\ cleanups \subseteq [of : Keys, due : Nat, twin : Twins] /\ minute \in Nat
  BY DEF LastingInv, LastingTypeOK
<1>3. due \in Nat /\ due # None
  BY <1>2, CredentialConstants
<1>4. PICK new \in [of : Keys, due : Nat, twin : Twins] :
         cleanups' = cleanups \cup {new} /\ new.of = k /\ new.due = due
  <2>1. PICK t \in Twins : cleanups' = cleanups \cup {[of |-> k, due |-> due, twin |-> t]}
    BY <1>1 DEF Starts
  <2> DEFINE task == [of |-> k, due |-> due, twin |-> t]
  <2>2. task \in [of : Keys, due : Nat, twin : Twins] /\ task.of = k /\ task.due = due
    BY <1>3
  <2>3. cleanups' = cleanups \cup {task}
    BY <2>1
  <2> HIDE DEF task
  <2> QED
    BY <2>2, <2>3
<1>5. times \in SUBSET Nat /\ due \in times /\ \A c \in cleanups : c.of = k => c.due \in times
  BY <1>2, <1>3, DuesAreTimes
<1> HIDE DEF due, times
<1>6. cleanups' \subseteq [of : Keys, due : Nat, twin : Twins]
  BY <1>1, <1>2, <1>4
<1>7. \A c \in cleanups' : IF c.of = k THEN c.due \in times \/ \E t \in times : c.due >= t
                                       ELSE c \in cleanups /\ lasting'[c.of] = lasting[c.of]
  BY <1>1, <1>2, <1>4, <1>5
<1>8. soonest' \in [Keys -> Nat \cup {None}] /\ TasksAreInTime'
  BY <1>1, <1>5, <1>6, <1>7, AwaitsKeeps DEF LastingInv
<1>9. LastingTypeOK'
  BY <1>1, <1>2, <1>3, <1>6, <1>8 DEF LastingTypeOK
<1>10. NotTooSoon
  BY <1>1, <1>2, <1>3 DEF NotTooSoon, Deletes
<1> QED
  BY <1>8, <1>9, <1>10 DEF LastingInv

\* A file whose store raised awaits the tasks of earlier calls.
LEMMA StoreRaisesKeeps ==
  ASSUME LastingInv, NEW k \in Keys, NEW ttl \in Ttls, StoreRaises(k, ttl)
  PROVE  LastingInv' /\ NotTooSoon
<1> DEFINE due == minute + ttl
           times == Dues(k, cleanups)
<1>1. /\ lasting' = [lasting EXCEPT ![k] = due] /\ cleanups' = cleanups
      /\ Awaits(k, times) /\ minute' = minute
  BY DEF StoreRaises
<1>2. /\ lasting \in [Keys -> Nat \cup {None}] /\ cleanups \subseteq [of : Keys, due : Nat, twin : Twins] /\ minute \in Nat
  BY DEF LastingInv, LastingTypeOK
<1>3. due \in Nat
  BY <1>2, CredentialConstants
<1>4. times \in SUBSET Nat /\ \A c \in cleanups : c.of = k => c.due \in times
  BY <1>2, DuesAreTimes
<1> HIDE DEF due, times
<1>5. \A c \in cleanups' : IF c.of = k THEN c.due \in times \/ \E t \in times : c.due >= t
                                       ELSE c \in cleanups /\ lasting'[c.of] = lasting[c.of]
  BY <1>1, <1>2, <1>4
<1>6. soonest' \in [Keys -> Nat \cup {None}] /\ TasksAreInTime'
  BY <1>1, <1>2, <1>4, <1>5, AwaitsKeeps DEF LastingInv
<1>7. LastingTypeOK'
  BY <1>1, <1>2, <1>3, <1>6 DEF LastingTypeOK
<1>8. NotTooSoon
  BY <1>1 DEF NotTooSoon, Deletes
<1> QED
  BY <1>6, <1>7, <1>8 DEF LastingInv

\* A task that wakes deletes what its key has, which it may by then, or leaves it to
\* the tasks that still wait.
LEMMA CleanUpKeeps ==
  ASSUME LastingInv, NEW c \in cleanups, CleanUp(c)
  PROVE  LastingInv' /\ NotTooSoon
<1>1. /\ c.due <= minute /\ cleanups' = cleanups \ {c} /\ minute' = minute
      /\ \/ Gone(c.of)
         \/ Awaits(c.of, Dues(c.of, cleanups \ {c})) /\ lasting' = lasting
  BY DEF CleanUp
<1>2. /\ lasting \in [Keys -> Nat \cup {None}] /\ cleanups \subseteq [of : Keys, due : Nat, twin : Twins] /\ minute \in Nat
      /\ soonest \in [Keys -> Nat \cup {None}] /\ c.of \in Keys /\ c.due \in Nat
  BY DEF LastingInv, LastingTypeOK
<1>3. CASE Gone(c.of)
  <2>1. /\ lasting' = [lasting EXCEPT ![c.of] = None] /\ soonest' = [soonest EXCEPT ![c.of] = None]
    BY <1>3 DEF Gone
  <2>2. LastingTypeOK'
    BY <1>1, <1>2, <2>1 DEF LastingTypeOK
  <2>3. \A j \in Keys : lasting'[j] # None => lasting'[j] = lasting[j] /\ soonest'[j] = soonest[j]
    BY <1>2, <2>1
  <2>4. TasksAreInTime'
    BY <1>1, <1>2, <2>3 DEF LastingInv, TasksAreInTime
  <2>5. NotTooSoon
    <3> SUFFICES ASSUME NEW k \in Keys, Deletes(k) PROVE minute >= soonest[k]
      BY DEF NotTooSoon
    <3>1. k = c.of /\ lasting[c.of] # None
      BY <1>2, <2>1 DEF Deletes
    <3>2. soonest[k] \in Nat /\ c.due >= soonest[k]
      BY <3>1 DEF LastingInv, TasksAreInTime
    <3> QED
      BY <1>1, <1>2, <3>2
  <2> QED
    BY <2>2, <2>4, <2>5 DEF LastingInv
<1>4. CASE Awaits(c.of, Dues(c.of, cleanups \ {c})) /\ lasting' = lasting
  <2> DEFINE times == Dues(c.of, cleanups \ {c})
  <2>1. times \in SUBSET Nat /\ \A d \in cleanups' : d.of = c.of => d.due \in times
    BY <1>1, <1>2, DuesAreTimes
  <2>2. Awaits(c.of, times)
    BY <1>4
  <2> HIDE DEF times
  <2>3. \A d \in cleanups' : IF d.of = c.of THEN d.due \in times \/ \E t \in times : d.due >= t
                                            ELSE d \in cleanups /\ lasting'[d.of] = lasting[d.of]
    BY <1>1, <1>4, <2>1
  <2>4. soonest' \in [Keys -> Nat \cup {None}] /\ TasksAreInTime'
    BY <1>1, <1>2, <2>1, <2>2, <2>3, AwaitsKeeps DEF LastingInv
  <2>5. LastingTypeOK'
    BY <1>1, <1>2, <1>4, <2>4 DEF LastingTypeOK
  <2>6. NotTooSoon
    BY <1>4 DEF NotTooSoon, Deletes
  <2> QED
    BY <2>4, <2>5, <2>6 DEF LastingInv
<1> QED
  BY <1>1, <1>3, <1>4

\* No task that was started for a key deletes it before its time.
LEMMA LastingStep ==
  ASSUME LastingInv, [LastingNext \/ SecuredNext]_<<lastingVars, securedVars>>
  PROVE  LastingInv' /\ [NotTooSoon]_<<lastingVars, securedVars>>
<1>1. UNCHANGED lastingVars => LastingInv' /\ NotTooSoon
  BY DEF lastingVars, LastingInv, LastingTypeOK, TasksAreInTime, NotTooSoon, Deletes
<1>2. CASE SecuredNext
  BY <1>1, <1>2 DEF SecuredNext, StoreSecured, RetrieveFromFile, DeleteSecured, RestartSecured
<1>3. ASSUME NEW k \in Keys, NEW ttl \in Ttls, StoreFor(k, ttl)
      PROVE  LastingInv' /\ NotTooSoon
  BY <1>3, StoreForKeeps
<1>4. ASSUME NEW c \in cleanups, CleanUp(c)
      PROVE  LastingInv' /\ NotTooSoon
  BY <1>4, CleanUpKeeps
<1>5. ASSUME NEW k \in Keys, DeleteLasting(k)
      PROVE  LastingInv' /\ NotTooSoon
  <2>1. /\ lasting' = [lasting EXCEPT ![k] = None] /\ soonest' = [soonest EXCEPT ![k] = None]
        /\ cleanups' = cleanups /\ minute' = minute
    BY <1>5 DEF DeleteLasting, Gone
  <2>2. \A j \in Keys : lasting'[j] # None => lasting'[j] = lasting[j] /\ soonest'[j] = soonest[j]
    BY <2>1 DEF LastingInv, LastingTypeOK
  <2>3. LastingTypeOK'
    BY <2>1 DEF LastingInv, LastingTypeOK
  <2>4. TasksAreInTime'
    BY <2>1, <2>2 DEF LastingInv, LastingTypeOK, TasksAreInTime
  <2> QED
    BY <2>1, <2>3, <2>4 DEF LastingInv, NotTooSoon, Deletes
<1>6. ASSUME MinutePasses
      PROVE  LastingInv' /\ NotTooSoon
  BY <1>6 DEF MinutePasses, LastingInv, LastingTypeOK, TasksAreInTime, NotTooSoon, Deletes
<1>7. ASSUME RestartLasting
      PROVE  LastingInv' /\ NotTooSoon
  BY <1>7 DEF RestartLasting, LastingInv, LastingTypeOK, TasksAreInTime, NotTooSoon, Deletes
<1>8. ASSUME NEW k \in Keys, NEW ttl \in Ttls, StoreRaises(k, ttl)
      PROVE  LastingInv' /\ NotTooSoon
  BY <1>8, StoreRaisesKeeps
<1> QED
  BY <1>1, <1>2, <1>3, <1>4, <1>5, <1>6, <1>7, <1>8 DEF LastingNext

----------------------------------------------------------------------------
\* What is expected of an id changes for the ids that have its file only.
LEMMA ExpectedOfOthers ==
  ASSUME SecuredTypeOK, NEW i \in Ids, NEW v \in Values \cup {None, "unknown"}, Expect(i, v)
  PROVE  /\ expected' \in [Ids -> Values \cup {None, "unknown"}]
         /\ expected'[i] = v
         /\ \A j \in Ids \ {i} : \/ expected'[j] = "unknown"
                                 \/ expected'[j] = expected[j] /\ FileOf[j] # FileOf[i]
BY DEF SecuredTypeOK, Expect, Sharing

\* Records, broken files and no file differ.
LEMMA FilesDiffer == None \notin Encrypted /\ Broken \notin Encrypted /\ None # Broken
<1>1. None \notin Encrypted /\ None # Broken
  BY CredentialConstants DEF Encrypted, Broken
<1>2. Broken \notin Encrypted
  <2>1. Broken.value = None
    BY DEF Broken
  <2>2. \A r \in Encrypted : r.value \in Values
    BY DEF Encrypted
  <2> QED
    BY <2>1, <2>2, CredentialConstants
<1> QED
  BY <1>1, <1>2

\* A step that rewrites the file of an id, and what is expected of it.
LEMMA FileChangeKeeps ==
  ASSUME SecuredInv, NEW i \in Ids, NEW v \in Values \cup {None, "unknown"}, Expect(i, v),
         UNCHANGED <<key, keyFile, restarts>>,
         secured' \in [Files -> Encrypted \cup {None, Broken}],
         cached' \in [Ids -> Encrypted \cup {None}],
         \A f \in Files \ {FileOf[i]} : secured'[f] = secured[f],
         \A j \in Ids \ {i} : cached'[j] = cached[j],
         HoldsExpected(i)'
  PROVE  SecuredInv'
<1>1. /\ expected' \in [Ids -> Values \cup {None, "unknown"}]
      /\ \A j \in Ids \ {i} : \/ expected'[j] = "unknown"
                              \/ expected'[j] = expected[j] /\ FileOf[j] # FileOf[i]
  BY ExpectedOfOthers DEF SecuredInv
<1>2. SecuredTypeOK'
  BY <1>1 DEF SecuredInv, SecuredTypeOK
<1>3. ASSUME NEW j \in Ids \ {i} PROVE HoldsExpected(j)'
  <2>1. CASE expected'[j] = "unknown"
    BY <2>1 DEF HoldsExpected
  <2>2. CASE expected'[j] = expected[j] /\ FileOf[j] # FileOf[i]
    <3>1. FileOf[j] \in Files \ {FileOf[i]}
      BY <2>2, CredentialConstants
    <3>2. secured'[FileOf[j]] = secured[FileOf[j]] /\ cached'[j] = cached[j]
      BY <3>1
    <3> QED
      BY <2>2, <3>2 DEF SecuredInv, HoldsExpected
  <2> QED
    BY <1>1, <2>1, <2>2
<1> QED
  BY <1>2, <1>3 DEF SecuredInv

\* Storing leaves one record in file and memory, or perhaps a broken file.
LEMMA StoreSecuredKeeps ==
  ASSUME SecuredInv, NEW i \in Ids, NEW v \in Values, StoreSecured(i, v)
  PROVE  SecuredInv'
<1> DEFINE record == [value |-> v, key |-> key]
           f == FileOf[i]
<1>1. /\ record \in Encrypted /\ record.value = v /\ f \in Files /\ v # "unknown"
      /\ secured \in [Files -> Encrypted \cup {None, Broken}] /\ cached \in [Ids -> Encrypted \cup {None}]
  BY CredentialConstants DEF SecuredInv, SecuredTypeOK, Encrypted
<1>2. /\ \/ /\ secured' = [secured EXCEPT ![f] = record] /\ cached' = [cached EXCEPT ![i] = record]
            /\ Expect(i, v)
         \/ /\ secured' = [secured EXCEPT ![f] = Broken] \/ secured' = secured
            /\ cached' = cached
            /\ Expect(i, "unknown")
      /\ UNCHANGED <<key, keyFile, restarts>>
  BY DEF StoreSecured
<1> HIDE DEF record, f
<1>3. CASE /\ secured' = [secured EXCEPT ![f] = record] /\ cached' = [cached EXCEPT ![i] = record]
           /\ Expect(i, v)
  <2>1. /\ secured' \in [Files -> Encrypted \cup {None, Broken}] /\ cached' \in [Ids -> Encrypted \cup {None}]
        /\ \A g \in Files \ {f} : secured'[g] = secured[g]
        /\ \A j \in Ids \ {i} : cached'[j] = cached[j]
        /\ secured'[f] = record /\ cached'[i] = record
    BY <1>1, <1>3
  <2>2. expected'[i] = v
    BY <1>3, ExpectedOfOthers DEF SecuredInv
  <2>3. HoldsExpected(i)'
    BY <1>1, <2>1, <2>2, FilesDiffer DEF HoldsExpected, f
  <2> QED
    BY <1>2, <1>3, <2>1, <2>3, FileChangeKeeps DEF f
<1>4. CASE /\ secured' = [secured EXCEPT ![f] = Broken] \/ secured' = secured
           /\ cached' = cached /\ Expect(i, "unknown")
  <2>1. /\ secured' \in [Files -> Encrypted \cup {None, Broken}]
        /\ \A g \in Files \ {f} : secured'[g] = secured[g]
    BY <1>1, <1>4
  <2>2. expected'[i] = "unknown"
    BY <1>4, ExpectedOfOthers DEF SecuredInv
  <2>3. HoldsExpected(i)'
    BY <2>2 DEF HoldsExpected
  <2> QED
    BY <1>1, <1>2, <1>4, <2>1, <2>3, FileChangeKeeps DEF f
<1> QED
  BY <1>2, <1>3, <1>4

\* Deleting empties memory and, unless that fails, the file.
LEMMA DeleteSecuredKeeps ==
  ASSUME SecuredInv, NEW i \in Ids, DeleteSecured(i)
  PROVE  SecuredInv'
<1> DEFINE f == FileOf[i]
<1>1. /\ f \in Files
      /\ secured \in [Files -> Encrypted \cup {None, Broken}] /\ cached \in [Ids -> Encrypted \cup {None}]
  BY CredentialConstants DEF SecuredInv, SecuredTypeOK
<1>2. /\ cached' = [cached EXCEPT ![i] = None]
      /\ \/ secured' = [secured EXCEPT ![f] = None] /\ Expect(i, None)
         \/ secured' = secured /\ Expect(i, "unknown")
      /\ UNCHANGED <<key, keyFile, restarts>>
  BY DEF DeleteSecured
<1> HIDE DEF f
<1>3. /\ secured' \in [Files -> Encrypted \cup {None, Broken}] /\ cached' \in [Ids -> Encrypted \cup {None}]
      /\ \A g \in Files \ {f} : secured'[g] = secured[g]
      /\ \A j \in Ids \ {i} : cached'[j] = cached[j]
      /\ cached'[i] = None
  BY <1>1, <1>2
<1>4. CASE secured' = [secured EXCEPT ![f] = None] /\ Expect(i, None)
  <2>1. secured'[f] = None /\ expected'[i] = None
    BY <1>1, <1>4, ExpectedOfOthers DEF SecuredInv
  <2>2. HoldsExpected(i)'
    BY <1>3, <2>1, FilesDiffer DEF HoldsExpected, f
  <2> QED
    BY <1>2, <1>3, <1>4, <2>2, FileChangeKeeps DEF f
<1>5. CASE secured' = secured /\ Expect(i, "unknown")
  <2>1. expected'[i] = "unknown"
    BY <1>5, ExpectedOfOthers DEF SecuredInv
  <2>2. HoldsExpected(i)'
    BY <2>1 DEF HoldsExpected
  <2> QED
    BY <1>2, <1>3, <1>5, <2>2, FileChangeKeeps DEF f
<1> QED
  BY <1>2, <1>4, <1>5

\* Every step keeps the invariant.
LEMMA SecuredStep ==
  ASSUME SecuredInv, [LastingNext \/ SecuredNext]_<<lastingVars, securedVars>>
  PROVE  SecuredInv'
<1>1. UNCHANGED securedVars => SecuredInv'
  BY DEF securedVars, SecuredInv, SecuredTypeOK, HoldsExpected
<1>2. CASE LastingNext
  BY <1>1, <1>2 DEF LastingNext, StoreFor, StoreRaises, DeleteLasting, CleanUp, MinutePasses, RestartLasting
<1>3. ASSUME NEW i \in Ids, NEW v \in Values, StoreSecured(i, v)
      PROVE  SecuredInv'
  BY <1>3, StoreSecuredKeeps
<1>4. ASSUME NEW i \in Ids, DeleteSecured(i)
      PROVE  SecuredInv'
  BY <1>4, DeleteSecuredKeeps
<1>5. ASSUME NEW i \in Ids, RetrieveFromFile(i)
      PROVE  SecuredInv'
  <2> DEFINE r == secured[FileOf[i]]
  <2>1. /\ r \notin {None, Broken} /\ cached' = [cached EXCEPT ![i] = r]
        /\ UNCHANGED <<secured, key, keyFile, restarts, expected>>
    BY <1>5 DEF RetrieveFromFile, Readable
  <2>2. r \in Encrypted
    BY <2>1, CredentialConstants DEF SecuredInv, SecuredTypeOK
  <2>3. SecuredTypeOK'
    BY <2>1, <2>2 DEF SecuredInv, SecuredTypeOK
  <2>4. ASSUME NEW j \in Ids PROVE HoldsExpected(j)'
    <3>1. HoldsExpected(j)
      BY DEF SecuredInv
    <3>2. CASE j = i
      <4>1. cached'[j] = r
        BY <2>1, <3>2 DEF SecuredInv, SecuredTypeOK
      <4> QED
        BY <2>1, <2>2, <3>1, <3>2, <4>1 DEF HoldsExpected
    <3>3. CASE j # i
      BY <2>1, <3>1, <3>3 DEF HoldsExpected, SecuredInv, SecuredTypeOK
    <3> QED
      BY <3>2, <3>3
  <2> QED
    BY <2>3, <2>4 DEF SecuredInv
<1>6. CASE RestartSecured
  <2>1. /\ cached' = [j \in Ids |-> None] /\ secured' = secured /\ expected' = expected
        /\ restarts' = restarts + 1
        /\ \/ keyFile # None /\ key' = keyFile /\ keyFile' = keyFile
           \/ key' = restarts + 1 /\ keyFile' \in {restarts + 1, keyFile}
    BY <1>6 DEF RestartSecured
  <2>2. SecuredTypeOK'
    BY <2>1 DEF SecuredInv, SecuredTypeOK
  <2>3. \A j \in Ids : HoldsExpected(j)'
    BY <2>1 DEF SecuredInv, HoldsExpected
  <2> QED
    BY <2>2, <2>3 DEF SecuredInv
<1>7. CASE UNCHANGED <<lastingVars, securedVars>>
  BY <1>1, <1>7
<1> QED
  BY <1>2, <1>3, <1>4, <1>5, <1>6, <1>7 DEF SecuredNext

\* However stores, stores that raise, deletions and tasks that wake follow each other, no
\* task deletes a file before the time the file was stored for or the time of a task
\* that waited for its key by then, whichever is the earliest.
THEOREM CredentialsKept == CredentialSpec => [][NotTooSoon]_<<lastingVars, securedVars>>
<1>1. CredentialSpec => LastingInv /\ [][LastingNext \/ SecuredNext]_<<lastingVars, securedVars>>
  BY CredentialsInitial DEF CredentialSpec
<1> QED
  BY <1>1, LastingStep, PTL

\* Whichever ids share files, whatever fails and however keys are lost, an id is
\* retrieved as expected or its file was encrypted with another key.
THEOREM CredentialsSafe == CredentialSpec => []RetrievedAsStored
<1>1. CredentialSpec => []SecuredInv
  BY CredentialsInitial, SecuredStep, PTL DEF CredentialSpec
<1>2. SecuredInv => RetrievedAsStored
  <2> SUFFICES ASSUME SecuredInv, NEW i \in Ids, expected[i] # "unknown"
               PROVE  \/ Retrieved(i) = expected[i]
                      \/ secured[FileOf[i]] \notin {None, Broken} /\ secured[FileOf[i]].key # key
    BY DEF RetrievedAsStored
  <2>1. HoldsExpected(i) /\ secured[FileOf[i]] \in Encrypted \cup {None, Broken}
    BY CredentialConstants DEF SecuredInv, SecuredTypeOK
  <2>2. CASE cached[i] # None
    BY <2>1, <2>2 DEF HoldsExpected, Retrieved
  <2>3. CASE cached[i] = None
    BY <2>1, <2>3 DEF HoldsExpected, Retrieved, Readable
  <2> QED
    BY <2>2, <2>3
<1> QED
  BY <1>1, <1>2, PTL

=============================================================================
