----------------------------- MODULE Scheduler -----------------------------
(***************************************************************************)
(* The GPU-aware scheduler (src/scheduler/scheduler.py): nodes, the        *)
(* reservation ledger each node keeps, placement of pod requests and       *)
(* preemption.                                                             *)
(*                                                                         *)
(* The scheduler runs on one asyncio event loop.  Everything between two   *)
(* suspension points is one step; the only suspension point is the await   *)
(* of orchestrator.destroy_pod inside _try_preemption, so a preempting     *)
(* call is a small process that other calls interleave with.  The          *)
(* orchestrator is the parameter of the Scheduler class (given, not None): *)
(* its destroy_pod may suspend, return or raise.                           *)
(*                                                                         *)
(* A Node is an object of its own: registering an id again installs        *)
(* another object under that id, while a preempting call may still hold    *)
(* the object it replaced.                                                 *)
(***************************************************************************)
EXTENDS Integers, FiniteSets, ResourceSums

CONSTANTS
  NodeIds,     \* keys of Scheduler.nodes
  NodeObjs,    \* Node instances
  IdOf,        \* Node.id of each instance
  Pods,        \* ids of pod requests; an id is used for one request only
  Quantities,  \* the divisible resources: cpu, memory, storage, GPU VRAM
  Capacity,    \* what an instance has available when it is first registered
  Demand,      \* Demand[q][p]: how much of q the spec of p asks for
  Devices,     \* GPU devices of an instance
  GpuCount,    \* gpu_config.count of a request, 0 when no GPU is required
  Capable,     \* instances that have the required_capabilities of a request
  Priority,    \* PodRequest.priority
  None,        \* no node, no pod
  AllowChurn   \* whether nodes may be unregistered and ids registered again

PreemptionThreshold == 70   \* "request.priority >= 70"
DefaultPriority == 50       \* pod_info.get("priority", 50)

ASSUME ConstantsOK ==
  /\ IsFiniteSet(NodeObjs) /\ IsFiniteSet(Pods)
  /\ None \notin NodeObjs \cup Pods \cup NodeIds
  /\ IdOf \in [NodeObjs -> NodeIds]
  /\ Capacity \in [NodeObjs -> [Quantities -> Nat]]
  /\ Demand \in [Quantities -> [Pods -> Nat]]
  /\ \A o \in NodeObjs : IsFiniteSet(Devices[o])
  /\ GpuCount \in [Pods -> Nat]
  /\ Capable \in [Pods -> SUBSET NodeObjs]
  /\ Priority \in [Pods -> Int]
  /\ AllowChurn \in BOOLEAN

VARIABLES
  nodes,           \* Scheduler.nodes: id -> instance or None
  node,            \* the mutable fields of each instance
  scheduled_pods,  \* Scheduler.scheduled_pods: pod -> node id or None
  status,          \* PodRequest.status
  call,            \* where the schedule() call of a request stands
  metrics          \* the counters of Scheduler.metrics

vars == <<nodes, node, scheduled_pods, status, call, metrics>>

Idle == [pc |-> "idle", at |-> None, victims |-> {}, todo |-> {}]
Returned == [Idle EXCEPT !.pc = "returned"]

Init ==
  /\ nodes = [i \in NodeIds |-> None]
  /\ node = [o \in NodeObjs |->
                [active |-> TRUE, throttled |-> FALSE,
                 available |-> Capacity[o],
                 owner |-> [d \in Devices[o] |-> None],
                 assigned |-> {}]]
  /\ scheduled_pods = [p \in Pods |-> None]
  /\ status = [p \in Pods |-> "pending"]
  /\ call = [p \in Pods |-> Idle]
  /\ metrics = [scheduled |-> 0, failed |-> 0, preemptions |-> 0]

---------------------------------------------------------------------------
(***************************************************************************)
(* ResourceManager: the ledger of one node instance.                       *)
(***************************************************************************)
FreeGpus(n) == {d \in DOMAIN n.owner : n.owner[d] = None}

\* A variant that checks the GPUs only.
FitsGpusOnly(n, p) == Cardinality(FreeGpus(n)) >= GpuCount[p]

\* The availability checks reserve repeats under the lock of the node.
Fits(n, p) ==
  /\ Cardinality(FreeGpus(n)) >= GpuCount[p]
  /\ \A q \in Quantities : n.available[q] >= Demand[q][p]

\* Which devices reserve may mark ALLOCATED (it takes the first ones).
GpuChoices(n, p) == {G \in SUBSET FreeGpus(n) : Cardinality(G) = GpuCount[p]}

Reserved(n, p, G) ==
  [n EXCEPT !.available = [q \in Quantities |-> n.available[q] - Demand[q][p]],
            !.owner = [d \in DOMAIN n.owner |-> IF d \in G THEN p ELSE n.owner[d]],
            !.assigned = n.assigned \cup {p}]

\* A variant of release that forgets to give back the GPUs.
ReleasedKeepsGpus(n, p) ==
  [n EXCEPT !.available = [q \in Quantities |-> n.available[q] + Demand[q][p]],
            !.assigned = n.assigned \ {p}]

Released(n, p) ==
  [n EXCEPT !.available = [q \in Quantities |-> n.available[q] + Demand[q][p]],
            !.owner = [d \in DOMAIN n.owner |->
                          IF n.owner[d] = p THEN None ELSE n.owner[d]],
            !.assigned = n.assigned \ {p}]

---------------------------------------------------------------------------
(***************************************************************************)
(* ConstraintValidator and NodeScorer.  The score is a real number made of *)
(* loads, distances and heartbeat ages: the order it puts valid nodes in   *)
(* is arbitrary here.  It can fall under the 0.1 cut only on a node whose  *)
(* cpu and memory are largely reserved, never on one without pods.         *)
(***************************************************************************)
ActiveNodes == {o \in NodeObjs : nodes[IdOf[o]] = o /\ node[o].active}

Valid(o, p) ==
  /\ node[o].active
  /\ o \in Capable[p]
  /\ Fits(node[o], p)
  /\ ~ node[o].throttled

ValidNodes(p) == {o \in ActiveNodes : Valid(o, p)}

CanScoreLow(o) == node[o].assigned # {}

---------------------------------------------------------------------------
(***************************************************************************)
(* PreemptionManager.find_preemption_candidates: pods are taken in the     *)
(* order of the assignments until their resources cover the request, or    *)
(* until there is none left.  What the node has free is not counted.  The  *)
(* order of the assignments is left open.  Assignments carry no priority   *)
(* and no tier, so the defaults ("priority", 50) and ("user_tier", "free") *)
(* are what the two skip conditions compare.                               *)
(***************************************************************************)
Covers(S, p) ==
  /\ \A q \in Quantities : SumOver(Demand[q], S) >= Demand[q][p]
  /\ SumOver(GpuCount, S) >= GpuCount[p]

Preemptible(n, p) == IF DefaultPriority >= Priority[p] THEN {} ELSE n.assigned

Candidates(n, p) ==
  {S \in SUBSET Preemptible(n, p) :
      /\ S # {}
      /\ Covers(S, p) \/ S = Preemptible(n, p)
      /\ \E last \in S : S = {last} \/ ~ Covers(S \ {last}, p)}

\* A variant that never strikes off the node it visits.
VisitNextAgain(p, todo, ns) ==
  LET useful == {o \in todo : ns[o].active /\ Candidates(ns[o], p) # {}}
  IN  \/ /\ useful = {}
         /\ call' = [call EXCEPT ![p] = Returned]
      \/ \E o \in useful : \E S \in Candidates(ns[o], p) :
           call' = [call EXCEPT ![p] = [pc |-> "evicting", at |-> o, victims |-> S,
                                        todo |-> ActiveNodes]]

\* Where _try_preemption goes next, when the instances in todo are still to be
\* visited and ns is what the nodes are: to the first victim of an active node
\* that has candidates, or to the end of the loop.  The nodes it passes over
\* (passed) have had their turn.
VisitNext(p, todo, ns) ==
  LET useful == {o \in todo : ns[o].active /\ Candidates(ns[o], p) # {}}
  IN  \/ /\ useful = {}
         /\ call' = [call EXCEPT ![p] = Returned]
      \/ \E o \in useful, passed \in SUBSET (todo \ useful) :
           \E S \in Candidates(ns[o], p) :
             call' = [call EXCEPT ![p] =
                        [pc |-> "evicting", at |-> o, victims |-> S,
                         todo |-> todo \ (passed \cup {o})]]

---------------------------------------------------------------------------
(***************************************************************************)
(* Scheduler.schedule                                                      *)
(***************************************************************************)
Fail(p) ==
  /\ status' = [status EXCEPT ![p] = "failed"]
  /\ metrics' = [metrics EXCEPT !.failed = @ + 1]
  /\ call' = [call EXCEPT ![p] = Returned]
  /\ UNCHANGED <<nodes, node, scheduled_pods>>

\* No active node, or no valid one and a priority that may not preempt.
Reject(p) ==
  /\ call[p] = Idle
  /\ ValidNodes(p) = {}
  /\ ActiveNodes = {} \/ Priority[p] < PreemptionThreshold
  /\ Fail(p)

\* Every valid node scored under 0.1.
RejectLowScores(p) ==
  /\ call[p] = Idle
  /\ ValidNodes(p) # {}
  /\ \A o \in ValidNodes(p) : CanScoreLow(o)
  /\ Fail(p)

\* The bookkeeping after reserve succeeded on instance o.
Record(p, o) ==
  /\ status' = [status EXCEPT ![p] = "scheduled"]
  /\ call' = [call EXCEPT ![p] = Returned]

Place(p) ==
  /\ call[p] = Idle
  /\ \E o \in ValidNodes(p) : \E G \in GpuChoices(node[o], p) :
       /\ node' = [node EXCEPT ![o] = Reserved(@, p, G)]
       /\ scheduled_pods' = [scheduled_pods EXCEPT ![p] = IdOf[o]]
       /\ Record(p, o)
  /\ metrics' = [metrics EXCEPT !.scheduled = @ + 1]
  /\ UNCHANGED nodes

\* No valid node and a priority of at least 70: _try_preemption starts.
StartPreemption(p) ==
  /\ call[p] = Idle
  /\ ActiveNodes # {}
  /\ ValidNodes(p) = {}
  /\ Priority[p] >= PreemptionThreshold
  /\ VisitNext(p, ActiveNodes, node)
  /\ UNCHANGED <<nodes, node, scheduled_pods, status, metrics>>

---------------------------------------------------------------------------
(***************************************************************************)
(* Scheduler.unschedule(v): what becomes of the ledgers and of             *)
(* scheduled_pods.  An entry whose node id is gone is dropped; one whose   *)
(* node no longer knows the pod stays.                                     *)
(***************************************************************************)
Holder(v) == IF scheduled_pods[v] = None THEN None ELSE nodes[scheduled_pods[v]]

\* A variant that releases whatever is registered under the node's id.
ReleasesAnyNode(v) == Holder(v) # None

Releases(v) == Holder(v) # None /\ v \in node[Holder(v)].assigned

NodeAfterUnschedule(v) ==
  IF Releases(v) THEN [node EXCEPT ![Holder(v)] = Released(@, v)] ELSE node

\* A variant that leaves the entry behind.
ScheduledForever(v) == scheduled_pods

ScheduledAfterUnschedule(v) ==
  IF Releases(v) \/ Holder(v) = None
    THEN [scheduled_pods EXCEPT ![v] = None] ELSE scheduled_pods

\* A caller gives a pod back, at any time after it asked for it.
Unschedule(v) ==
  /\ call[v] # Idle
  /\ node' = NodeAfterUnschedule(v)
  /\ scheduled_pods' = ScheduledAfterUnschedule(v)
  /\ UNCHANGED <<nodes, status, call, metrics>>

(***************************************************************************)
(* One resumption of _try_preemption: destroy_pod of victim v returned     *)
(* (evicted) or raised.  The call goes on to the next victim, or reserves  *)
(* on the node it made room on, or moves to the next node.                 *)
(***************************************************************************)
NextVictim(p, v) ==
  /\ call[p].victims \ {v} # {}
  /\ call' = [call EXCEPT ![p].victims = @ \ {v}]
  /\ UNCHANGED <<status, metrics>>

ReserveCleared(p, ns, sp) ==
  /\ Fits(ns[call[p].at], p)
  /\ \E G \in GpuChoices(ns[call[p].at], p) :
       node' = [ns EXCEPT ![call[p].at] = Reserved(@, p, G)]
  /\ scheduled_pods' = [sp EXCEPT ![p] = IdOf[call[p].at]]
  /\ Record(p, call[p].at)
  /\ metrics' = [metrics EXCEPT !.scheduled = @ + 1, !.preemptions = @ + 1]

MoveOn(p, ns) ==
  /\ ~ Fits(ns[call[p].at], p)
  /\ VisitNext(p, call[p].todo, ns)
  /\ UNCHANGED <<status, metrics>>

Resume(p, v, evicted) ==
  LET ns == IF evicted THEN NodeAfterUnschedule(v) ELSE node
      sp == IF evicted THEN ScheduledAfterUnschedule(v) ELSE scheduled_pods
  IN  /\ call[p].pc = "evicting"
      /\ v \in call[p].victims
      /\ \/ NextVictim(p, v) /\ node' = ns /\ scheduled_pods' = sp
         \/ call[p].victims = {v} /\ ReserveCleared(p, ns, sp)
         \/ call[p].victims = {v} /\ MoveOn(p, ns) /\ node' = ns /\ scheduled_pods' = sp
      /\ UNCHANGED nodes

---------------------------------------------------------------------------
(***************************************************************************)
(* Nodes: registration, and the fields others write into a Node.           *)
(***************************************************************************)
RegisterNode(o) ==
  /\ nodes[IdOf[o]] # o
  /\ nodes[IdOf[o]] = None \/ AllowChurn
  /\ nodes' = [nodes EXCEPT ![IdOf[o]] = o]
  /\ UNCHANGED <<node, scheduled_pods, status, call, metrics>>

UnregisterNode(i) ==
  /\ AllowChurn
  /\ nodes[i] # None
  /\ nodes' = [nodes EXCEPT ![i] = None]
  /\ UNCHANGED <<node, scheduled_pods, status, call, metrics>>

\* Node.update_metrics: a temperature or load limit is crossed, or cleared.
UpdateMetrics(o) ==
  /\ node' = [node EXCEPT ![o].throttled = ~ @]
  /\ UNCHANGED <<nodes, scheduled_pods, status, call, metrics>>

\* An operator drains a node or puts it back (Node.status).
ChangeNodeStatus(o) ==
  /\ node' = [node EXCEPT ![o].active = ~ @]
  /\ UNCHANGED <<nodes, scheduled_pods, status, call, metrics>>

---------------------------------------------------------------------------
ScheduleStep(p) ==
  Reject(p) \/ RejectLowScores(p) \/ Place(p) \/ StartPreemption(p)

ResumeStep(p) == \E v \in Pods, evicted \in BOOLEAN : Resume(p, v, evicted)

Next ==
  \/ \E p \in Pods : ScheduleStep(p) \/ ResumeStep(p) \/ Unschedule(p)
  \/ \E o \in NodeObjs : RegisterNode(o) \/ UpdateMetrics(o) \/ ChangeNodeStatus(o)
  \/ \E i \in NodeIds : UnregisterNode(i)

Spec == Init /\ [][Next]_vars

\* The event loop resumes an awaiting call; nobody is obliged to ask for pods.
FairSpec == Spec /\ \A p \in Pods : WF_vars(ResumeStep(p))

---------------------------------------------------------------------------
(***************************************************************************)
(* Properties.                                                             *)
(***************************************************************************)
NodeState(o) ==
  [active : BOOLEAN, throttled : BOOLEAN,
   available : [Quantities -> Int],
   owner : [Devices[o] -> Pods \cup {None}],
   assigned : SUBSET Pods]

CallState ==
  [pc : {"idle", "evicting", "returned"}, at : NodeObjs \cup {None},
   victims : SUBSET Pods, todo : SUBSET NodeObjs]

\* The types of the fields of Scheduler, Node and PodRequest; a call that
\* awaits an eviction stands at a node.
TypeOK ==
  /\ nodes \in [NodeIds -> NodeObjs \cup {None}]
  /\ DOMAIN node = NodeObjs
  /\ \A o \in NodeObjs : node[o] \in NodeState(o)
  /\ scheduled_pods \in [Pods -> NodeIds \cup {None}]
  /\ status \in [Pods -> {"pending", "scheduled", "failed"}]
  /\ call \in [Pods -> CallState]
  /\ \A p \in Pods : call[p].pc = "evicting" => call[p].at \in NodeObjs
  /\ metrics \in [scheduled : Nat, failed : Nat, preemptions : Nat]

\* What a node has available is what it had at registration less what its
\* assigned pods reserve, and it is never negative: reserve, release and the
\* release/reserve pairs of preemption lose and invent nothing, however they
\* interleave.
LedgerBalanced ==
  \A o \in NodeObjs : \A q \in Quantities :
     /\ node[o].available[q] + SumOver(Demand[q], node[o].assigned) = Capacity[o][q]
     /\ node[o].available[q] >= 0

\* A pod holds exactly the GPUs it asked for on the node it is assigned to,
\* and a GPU marked ALLOCATED belongs to a pod that is assigned there.
GpusBelongToAssigned ==
  \A o \in NodeObjs : \A p \in Pods :
     Cardinality({d \in Devices[o] : node[o].owner[d] = p})
       = IF p \in node[o].assigned THEN GpuCount[p] ELSE 0

\* scheduled_pods and the assignments of the nodes are two records of the same
\* placement.  It needs nodes that stay registered (AllowChurn = FALSE).
PlacementsAgree ==
  \A p \in Pods, o \in NodeObjs :
     p \in node[o].assigned <=> nodes[IdOf[o]] = o /\ scheduled_pods[p] = IdOf[o]

\* A call that started to evict returns, when every destroy_pod does.
PreemptionReturns ==
  \A p \in Pods : call[p].pc = "evicting" ~> call[p].pc = "returned"

\* The scheduler is an Allocation: what nodes hold always fits, and every
\* decision grants one fresh pod on one node.
Alloc == INSTANCE Allocation WITH
           holds   <- [o \in NodeObjs |-> node[o].assigned],
           granted <- {p \in Pods : status[p] = "scheduled"}
ImplementsAllocation == Alloc!ASpec

=============================================================================
