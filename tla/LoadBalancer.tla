--------------------------- MODULE LoadBalancer ---------------------------
(***************************************************************************)
(* LoadBalancer of networking_advanced/network_manager.py, for one service *)
(* whose backend ids no other service uses: the tables are keyed by the    *)
(* service, but for connection_counts, which is keyed by the backend.      *)
(*                                                                         *)
(* get_backend does not suspend.  The health loop does: for each backend   *)
(* it awaits a thread that tries the port, and writes what it found when   *)
(* it is resumed.  Meanwhile backends come and go.  add_backend appends to *)
(* the very list the loop is going through, remove_backend replaces that   *)
(* list by a new one, which the loop sees in its next round.               *)
(***************************************************************************)
EXTENDS Integers, FiniteSets, Sequences, SequenceFilter

CONSTANTS
  BackendIds,
  Algorithms,      \* values of LoadBalancerConfig.algorithm
  MaxListed,       \* bound on the entries of the service
  MaxOpen,         \* bound on connections open at a time
  Unset

ASSUME BalancerConstants ==
  /\ IsFiniteSet(BackendIds)
  /\ MaxListed \in Nat \ {0} /\ MaxOpen \in Nat \ {0}
  /\ Unset \notin Nat \cup BOOLEAN

VARIABLES
  known,        \* whether the service was ever given a backend
  backends,     \* backends[service_id]
  health,       \* health_status[service_id], "absent" where there is no entry
  counts,       \* connection_counts, Unset where there is no entry
  index,        \* current_backend_index[service_id]
  algorithm,    \* configs[service_id].algorithm
  checker,      \* the health loop: pc, the entries it has yet to check, whether
                \* these are the end of backends itself, and the thread's result
  up,           \* external: whether a backend's port answers
  open,         \* connections handed out and not yet released
  stale,        \* history: the connections that were open when a backend was added last,
                \* none once all its connections are over or it is removed
  turns         \* history: rounds of the round-robin, per healthy entry

listed == <<known, backends, health, counts, index, algorithm>>
balancerVars == <<listed, checker, up, open, stale, turns>>

----------------------------------------------------------------------------
Members == {backends[i] : i \in DOMAIN backends}

\* health_status[service_id].get(id, True)
Healthy == OnlyIn(backends, {b \in BackendIds : health[b] # "unhealthy"})

Count(b) == IF counts[b] = Unset THEN 0 ELSE counts[b]

\* _round_robin_select
RoundRobin(hs) == (index % Len(hs)) + 1

\* A variant that advances by two.
NextIndexByTwo(hs) == (index + 2) % Len(hs)

NextIndex(hs) == (index + 1) % Len(hs)

\* _least_connections_select: a stable sort, so the first of the least.
LeastConnections(hs) ==
  CHOOSE i \in DOMAIN hs :
    \A j \in DOMAIN hs : Count(hs[i]) < Count(hs[j]) \/ (Count(hs[i]) = Count(hs[j]) /\ i <= j)

\* The entries the algorithm may pick; the hash of an address can be any.
Picks(hs) ==
  CASE algorithm = "round-robin" -> {RoundRobin(hs)}
    [] algorithm = "least-connections" -> {LeastConnections(hs)}
    [] algorithm = "ip-hash" -> DOMAIN hs
    [] OTHER -> {1}

OpenInAll == {x \in BackendIds \X (1..MaxOpen) : x[2] <= open[x[1]]}

\* Rounds start anew when the healthy entries change.
RoundsKept ==
  turns' = IF Healthy' = Healthy THEN turns ELSE [i \in DOMAIN Healthy' |-> 0]

\* One more turn for entry i; a round all entries had is taken off.
Turn(i) ==
  LET t == [turns EXCEPT ![i] = @ + 1] IN
  turns' = IF \A j \in DOMAIN t : t[j] > 0 THEN [j \in DOMAIN t |-> t[j] - 1] ELSE t

----------------------------------------------------------------------------
BalancerInit ==
  /\ known = FALSE
  /\ backends = <<>>
  /\ health = [b \in BackendIds |-> "absent"]
  /\ counts = [b \in BackendIds |-> Unset]
  /\ index = 0
  /\ algorithm = "round-robin"
  /\ checker = [pc |-> "off", rest |-> <<>>, attached |-> FALSE, result |-> Unset]
  /\ up \in [BackendIds -> BOOLEAN]
  /\ open = [b \in BackendIds |-> 0]
  /\ stale = [b \in BackendIds |-> 0]
  /\ turns = <<>>

AddBackend(b) ==
  /\ Len(backends) < MaxListed
  /\ known' = TRUE
  /\ backends' = Append(backends, b)
  /\ health' = [health EXCEPT ![b] = "healthy"]
  /\ counts' = [counts EXCEPT ![b] = 0]
  /\ checker' = [checker EXCEPT !.rest = IF checker.attached THEN Append(@, b) ELSE @]
  /\ stale' = [stale EXCEPT ![b] = open[b]]
  /\ UNCHANGED <<index, algorithm, up, open>>
  /\ RoundsKept

RemoveBackend(b) ==
  /\ known
  /\ backends' = OnlyIn(backends, BackendIds \ {b})
  /\ health' = [health EXCEPT ![b] = "absent"]
  /\ counts' = [counts EXCEPT ![b] = Unset]
  /\ checker' = [checker EXCEPT !.attached = FALSE]
  /\ stale' = [stale EXCEPT ![b] = 0]
  /\ UNCHANGED <<known, index, algorithm, up, open>>
  /\ RoundsKept

SetConfig(a) ==
  /\ algorithm' = a
  /\ UNCHANGED <<known, backends, health, counts, index, checker, up, open, stale, turns>>

GetBackend ==
  LET hs == Healthy IN
  /\ hs # <<>>
  /\ Cardinality(OpenInAll) < MaxOpen
  /\ \E i \in Picks(hs) :
       /\ counts' = [counts EXCEPT ![hs[i]] = @ + 1]
       /\ open' = [open EXCEPT ![hs[i]] = @ + 1]
       /\ IF algorithm = "round-robin"
          THEN index' = NextIndex(hs) /\ Turn(i)
          ELSE UNCHANGED <<index, turns>>
  /\ UNCHANGED <<known, backends, health, algorithm, checker, up, stale>>

\* A variant that does not count down for a backend found unhealthy.
ReleaseHealthyBackend(b) ==
  /\ open[b] > 0
  /\ open' = [open EXCEPT ![b] = @ - 1]
  /\ counts' = [counts EXCEPT ![b] = IF @ = Unset \/ health[b] = "unhealthy" THEN @
                                     ELSE IF @ = 0 THEN 0 ELSE @ - 1]
  /\ stale' = [stale EXCEPT ![b] = IF open'[b] = 0 THEN 0 ELSE @]
  /\ UNCHANGED <<known, backends, health, index, algorithm, checker, up, turns>>

\* release_backend, once for each connection handed out.
ReleaseBackend(b) ==
  /\ open[b] > 0
  /\ open' = [open EXCEPT ![b] = @ - 1]
  /\ counts' = [counts EXCEPT ![b] = IF @ = Unset THEN Unset ELSE IF @ = 0 THEN 0 ELSE @ - 1]
  /\ stale' = [stale EXCEPT ![b] = IF open'[b] = 0 THEN 0 ELSE @]
  /\ UNCHANGED <<known, backends, health, index, algorithm, checker, up, turns>>

\* _perform_health_checks begins: it probes the first entry, if there is one.
Round ==
  checker' = [pc |-> IF backends = <<>> THEN "sleeping" ELSE "probing",
              rest |-> backends, attached |-> backends # <<>>, result |-> Unset]

\* The service has to be known; its tables stay when its backends go.
StartHealthChecks ==
  /\ checker.pc = "off"
  /\ known
  /\ Round
  /\ UNCHANGED <<listed, up, open, stale, turns>>

\* asyncio.CancelledError
StopHealthChecks ==
  /\ checker.pc # "off"
  /\ checker' = [pc |-> "off", rest |-> <<>>, attached |-> FALSE, result |-> Unset]
  /\ UNCHANGED <<listed, up, open, stale, turns>>

\* The thread of _check_backend_health has its answer; the loop does not yet.
PortTried ==
  /\ checker.pc = "probing"
  /\ checker.result = Unset
  /\ checker' = [checker EXCEPT !.result = up[Head(checker.rest)]]
  /\ UNCHANGED <<listed, up, open, stale, turns>>

\* A variant that ends the round at the first unhealthy backend.
ResultNotedOnce ==
  /\ checker.pc = "probing"
  /\ checker.result # Unset
  /\ health' = [health EXCEPT ![Head(checker.rest)] =
                  IF checker.result THEN "healthy" ELSE "unhealthy"]
  /\ checker' = IF Len(checker.rest) > 1 /\ checker.result
                THEN [checker EXCEPT !.rest = Tail(@), !.result = Unset]
                ELSE [pc |-> "sleeping", rest |-> <<>>, attached |-> FALSE, result |-> Unset]
  /\ UNCHANGED <<known, backends, counts, index, algorithm, up, open, stale>>
  /\ RoundsKept

\* The loop is resumed, notes the answer and goes on with the next entry.
ResultNoted ==
  /\ checker.pc = "probing"
  /\ checker.result # Unset
  /\ health' = [health EXCEPT ![Head(checker.rest)] =
                  IF checker.result THEN "healthy" ELSE "unhealthy"]
  /\ checker' = IF Len(checker.rest) > 1
                THEN [checker EXCEPT !.rest = Tail(@), !.result = Unset]
                ELSE [pc |-> "sleeping", rest |-> <<>>, attached |-> FALSE, result |-> Unset]
  /\ UNCHANGED <<known, backends, counts, index, algorithm, up, open, stale>>
  /\ RoundsKept

WakeUp ==
  /\ checker.pc = "sleeping"
  /\ Round
  /\ UNCHANGED <<listed, up, open, stale, turns>>

\* External: a backend's port opens or closes.
PortChanges(b) ==
  /\ up' = [up EXCEPT ![b] = ~ @]
  /\ UNCHANGED <<listed, checker, open, stale, turns>>

CheckerStep == PortTried \/ ResultNoted \/ WakeUp

BalancerNext ==
  \/ \E b \in BackendIds :
       AddBackend(b) \/ RemoveBackend(b) \/ ReleaseBackend(b) \/ PortChanges(b)
  \/ \E a \in Algorithms : SetConfig(a)
  \/ GetBackend
  \/ StartHealthChecks \/ StopHealthChecks
  \/ CheckerStep

BalancerSpec == BalancerInit /\ [][BalancerNext]_balancerVars

\* Threads end and a coroutine whose await is over is resumed.
FairBalancerSpec == BalancerSpec /\ WF_balancerVars(CheckerStep)

----------------------------------------------------------------------------
\* A count is never above the connections that are open, and misses at most as
\* many as were open when the backend was added last: adding starts from zero, and
\* a release counts down whichever connection it ends.  So a count may miss new
\* connections too, after those it forgot were released; it is exact again when
\* none is open.
CountsFollowConnections ==
  \A b \in BackendIds :
     counts[b] # Unset => counts[b] <= open[b] /\ open[b] <= counts[b] + stale[b]

\* While the healthy entries stay the same, no entry is picked twice in a round
\* of the round-robin, although index is left over from another number of
\* entries and other algorithms pick in between.
RoundsAreFair == \A i \in DOMAIN turns : turns[i] <= 1

\* Once a listed backend's port stays as it is while the loop runs, its status
\* becomes and stays right: results that were on their way when the backend was
\* removed and added again, and rounds over a replaced list, do no lasting harm.
HealthSettles ==
  \A b \in BackendIds, answers \in BOOLEAN :
     <>[](b \in Members /\ up[b] = answers /\ checker.pc # "off")
       => <>[](health[b] = IF answers THEN "healthy" ELSE "unhealthy")
=============================================================================
