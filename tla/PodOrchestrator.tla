-------------------------- MODULE PodOrchestrator --------------------------
(***************************************************************************)
(* The life of pods below the scheduler: AdvancedOrchestrator.create_pod   *)
(* and destroy_pod (src/orchestrator/orchestrator.py) on top of the        *)
(* container orchestrator (src/containers/orchestrator.py), the libvirt    *)
(* and the Firecracker drivers.                                            *)
(*                                                                         *)
(* Docker and disk work runs in threads that the event loop awaits, so a   *)
(* call is a process with one step per await.  A pod id is drawn by one    *)
(* create_pod call and names that call here.  Docker is present (without   *)
(* a daemon the orchestrator hands out mock ids and starts nothing).       *)
(***************************************************************************)
EXTENDS Naturals, Sequences, FiniteSets, SequencesExt

CONSTANTS
  PodIds,             \* ids create_pod draws
  Kind,               \* PodSpec.pod_type of each
  MaxConcurrentRuns,  \* permits of _run_semaphore
  Destroyers,         \* calls of destroy_pod
  Faulty,             \* pods for which docker and libvirt calls may raise
  None

PodTypes == {"container", "vm", "microvm", "hybrid"}

ASSUME OrchestratorConstants ==
  /\ IsFiniteSet(PodIds)
  /\ Kind \in [PodIds -> PodTypes]
  /\ MaxConcurrentRuns \in Nat \ {0}
  /\ Faulty \subseteq PodIds
  /\ None \notin PodIds

VARIABLES
  creation,  \* where the create_pod call of each pod stands
  waiters,   \* calls queued for a permit of _run_semaphore, first come first served
  pods,      \* AdvancedOrchestrator.pods
  backing,   \* the container or machine behind a pod: "none", "up" or "down"
  socket,    \* whether the Firecracker API socket exists
  removal    \* where each destroy_pod call stands

ovars == <<creation, waiters, pods, backing, socket, removal>>

OInit ==
  /\ creation = [p \in PodIds |-> "not called"]
  /\ waiters = <<>>
  /\ pods = {}
  /\ backing = [p \in PodIds |-> "none"]
  /\ socket = TRUE
  /\ removal = [d \in Destroyers |-> [pc |-> "not called", pod |-> None]]

---------------------------------------------------------------------------
(***************************************************************************)
(* create_container: docker runs under the semaphore.                      *)
(***************************************************************************)
Running == {p \in PodIds : Kind[p] = "container" /\ creation[p] = "running"}

MustQueue(p) == Kind[p] = "container" /\ Cardinality(Running) >= MaxConcurrentRuns

\* A variant that returns the permit and wakes nobody.
ReleasePermitSilently(p, outcome) ==
  /\ creation' = [creation EXCEPT ![p] = outcome]
  /\ UNCHANGED waiters

\* Leaving the semaphore block hands the permit to the first waiter.
ReleasePermit(p, outcome) ==
  /\ creation' = [q \in PodIds |-> IF q = p THEN outcome
                                   ELSE IF waiters # <<>> /\ q = Head(waiters) THEN "running"
                                   ELSE creation[q]]
  /\ waiters' = IF waiters = <<>> THEN waiters ELSE Tail(waiters)

\* create_pod up to its first await.  A pod of a type without a branch (HYBRID)
\* is registered as running at once.
CreatePod(p) ==
  /\ creation[p] = "not called"
  /\ \/ /\ MustQueue(p)
        /\ creation' = [creation EXCEPT ![p] = "queued"]
        /\ waiters' = Append(waiters, p)
        /\ UNCHANGED pods
     \/ /\ Kind[p] = "hybrid"
        /\ creation' = [creation EXCEPT ![p] = "created"]
        /\ pods' = pods \cup {p}
        /\ UNCHANGED waiters
     \/ /\ ~ MustQueue(p) /\ Kind[p] # "hybrid"
        /\ creation' = [creation EXCEPT ![p] = "running"]
        /\ UNCHANGED <<waiters, pods>>
  /\ UNCHANGED <<backing, socket, removal>>

\* containers.run and reload returned.
ContainerCreated(p) ==
  /\ p \in Running
  /\ ReleasePermit(p, "created")
  /\ pods' = pods \cup {p}
  /\ backing' = [backing EXCEPT ![p] = "up"]
  /\ UNCHANGED <<socket, removal>>

\* A variant that lists the pod although docker failed.
ContainerFailsListed(p) ==
  /\ p \in Faulty
  /\ p \in Running
  /\ ReleasePermit(p, "failed")
  /\ \E left \in {"none", "up"} : backing' = [backing EXCEPT ![p] = left]
  /\ pods' = pods \cup {p}
  /\ UNCHANGED <<socket, removal>>

\* containers.run raised, or it returned and reload() raised: then the
\* container is there and no one knows its id.
ContainerFails(p) ==
  /\ p \in Faulty
  /\ p \in Running
  /\ ReleasePermit(p, "failed")
  /\ \E left \in {"none", "up"} : backing' = [backing EXCEPT ![p] = left]
  /\ UNCHANGED <<pods, socket, removal>>

---------------------------------------------------------------------------
(***************************************************************************)
(* Virtual machines: the disk is made in a thread, defineXML and create    *)
(* follow at once.  MicroVMs: the request is answered, or taken for        *)
(* answered when it raises ("mock_success").                               *)
(***************************************************************************)
VmCreated(p) ==
  /\ Kind[p] = "vm" /\ creation[p] = "running"
  /\ creation' = [creation EXCEPT ![p] = "created"]
  /\ pods' = pods \cup {p}
  /\ backing' = [backing EXCEPT ![p] = "up"]
  /\ UNCHANGED <<waiters, socket, removal>>

\* A variant that lists a machine it could not start.
VmFailsListed(p) ==
  /\ p \in Faulty
  /\ Kind[p] = "vm" /\ creation[p] = "running"
  /\ creation' = [creation EXCEPT ![p] = "failed"]
  /\ \E left \in {"none", "down"} : backing' = [backing EXCEPT ![p] = left]
  /\ pods' = pods \cup {p}
  /\ UNCHANGED <<waiters, socket, removal>>

\* The disk or the definition failed, or create() did after defineXML.
VmFails(p) ==
  /\ p \in Faulty
  /\ Kind[p] = "vm" /\ creation[p] = "running"
  /\ creation' = [creation EXCEPT ![p] = "failed"]
  /\ \E left \in {"none", "down"} : backing' = [backing EXCEPT ![p] = left]
  /\ UNCHANGED <<waiters, pods, socket, removal>>

MicrovmCreated(p) ==
  /\ Kind[p] = "microvm" /\ creation[p] = "running"
  /\ creation' = [creation EXCEPT ![p] = "created"]
  /\ pods' = pods \cup {p}
  /\ \E started \in IF ~ socket THEN {"none"}
                    ELSE IF p \in Faulty THEN {"none", "up"} ELSE {"up"} :
       backing' = [backing EXCEPT ![p] = started]
  /\ UNCHANGED <<waiters, socket, removal>>

---------------------------------------------------------------------------
(***************************************************************************)
(* destroy_pod                                                             *)
(***************************************************************************)
Returns(d, p) == removal' = [removal EXCEPT ![d] = [pc |-> "returned", pod |-> p]]

\* What an attempt to bring a container or machine to state s leaves behind:
\* every driver call swallows its exceptions.
Attempt(p, s) ==
  \/ backing' = [backing EXCEPT ![p] = IF @ = "none" THEN "none" ELSE s]
  \/ p \in Faulty /\ UNCHANGED backing

DestroyUnknown(d, p) ==
  /\ removal[d].pc = "not called"
  /\ p \notin pods
  /\ Returns(d, p)
  /\ UNCHANGED <<creation, waiters, pods, backing, socket>>

\* A container pod: stop_container is awaited first.
DestroyContainerPod(d, p) ==
  /\ removal[d].pc = "not called"
  /\ p \in pods /\ Kind[p] = "container"
  /\ removal' = [removal EXCEPT ![d] = [pc |-> "stopping", pod |-> p]]
  /\ UNCHANGED <<creation, waiters, pods, backing, socket>>

\* The other kinds suspend nowhere.  destroy_microvm removes the one socket.
DestroyAtOnce(d, p) ==
  /\ removal[d].pc = "not called"
  /\ p \in pods /\ Kind[p] # "container"
  /\ IF Kind[p] = "vm"
       THEN \E left \in {"none", "down"} :
              /\ left = "none" \/ p \in Faulty
              /\ Attempt(p, left)
       ELSE UNCHANGED backing
  /\ socket' = (socket /\ Kind[p] # "microvm")
  /\ pods' = pods \ {p}
  /\ Returns(d, p)
  /\ UNCHANGED <<creation, waiters>>

StopReturns(d) ==
  /\ removal[d].pc = "stopping"
  /\ Attempt(removal[d].pod, "down")
  /\ removal' = [removal EXCEPT ![d].pc = "removing"]
  /\ UNCHANGED <<creation, waiters, pods, socket>>

\* remove_container returned; "del self.pods[pod_id]" raises KeyError when
\* another call has deleted the pod meanwhile.
RemoveReturns(d) ==
  /\ removal[d].pc = "removing"
  /\ Attempt(removal[d].pod, "none")
  /\ pods' = pods \ {removal[d].pod}
  /\ removal' = [removal EXCEPT ![d].pc =
                    IF removal[d].pod \in pods THEN "returned" ELSE "raised"]
  /\ UNCHANGED <<creation, waiters, socket>>

---------------------------------------------------------------------------
CreateStep(p) ==
  \/ ContainerCreated(p) \/ ContainerFails(p)
  \/ VmCreated(p) \/ VmFails(p)
  \/ MicrovmCreated(p)

DestroyStep(d) == StopReturns(d) \/ RemoveReturns(d)

ONext ==
  \/ \E p \in PodIds : CreatePod(p) \/ CreateStep(p)
  \/ \E d \in Destroyers : DestroyStep(d)
  \/ \E d \in Destroyers, p \in PodIds :
       creation[p] # "not called" /\ (\/ DestroyUnknown(d, p)
                                      \/ DestroyContainerPod(d, p)
                                      \/ DestroyAtOnce(d, p))

OSpec == OInit /\ [][ONext]_ovars

---------------------------------------------------------------------------
(***************************************************************************)
(* Properties.                                                             *)
(***************************************************************************)
\* The types of the calls, of the table of pods and of what is behind a pod.
OTypeOK ==
  /\ creation \in [PodIds -> {"not called", "queued", "running", "created", "failed"}]
  /\ waiters \in Seq(PodIds)
  /\ pods \subseteq PodIds
  /\ backing \in [PodIds -> {"none", "up", "down"}]
  /\ socket \in BOOLEAN
  /\ removal \in [Destroyers ->
        [pc : {"not called", "stopping", "removing", "returned", "raised"},
         pod : PodIds \cup {None}]]

Removing(p) == \E d \in Destroyers :
                  removal[d].pod = p /\ removal[d].pc \in {"stopping", "removing"}

\* A container or VM pod the orchestrator lists has its container or machine,
\* unless a destroy_pod of it is under way, whatever docker and libvirt calls
\* fail.  (MicroVM and hybrid pods are listed with nothing behind them.)
ListedPodsAreUp ==
  \A p \in pods : Kind[p] \in {"container", "vm"} /\ ~ Removing(p) => backing[p] = "up"
===========================================================================
