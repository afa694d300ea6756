------------------------ MODULE SessionManagerProofs ------------------------
(***************************************************************************)
(* Sessions, their rooms and their pods stay in step, for any number of    *)
(* sessions, nodes and permits.                                            *)
(*                                                                         *)
(* The pods come first: for any pods, permits and destroy_pod calls, and   *)
(* whatever drivers fail, a listed container or VM pod is up or being      *)
(* destroyed. A pod is listed when its creation returns, so nothing that   *)
(* is listed may be created, or fail to be, once more: a permit that is    *)
(* handed on must go to a call that was queued, which is why the queue     *)
(* holds each of those once.                                               *)
(***************************************************************************)
EXTENDS SessionManager, SequenceTheorems, TLAPS

-----------------------------------------------------------------------------
(***************************************************************************)
(* Pods and permits.                                                       *)
(***************************************************************************)
States == {"not called", "queued", "running", "created", "failed"}

\* Who waits for a permit is queued, and is so once.
QueuedOnce ==
  \A i \in 1..Len(waiters) :
    /\ creation[waiters[i]] = "queued"
    /\ \A j \in 1..Len(waiters) : waiters[i] = waiters[j] => i = j

\* What is listed was created.
ListedWereCreated == \A p \in pods : creation[p] = "created"

OInv == OTypeOK /\ QueuedOnce /\ ListedWereCreated /\ ListedPodsAreUp

----------------------------------------------------------------------------
\* Nothing waits and nothing is listed at first.
LEMMA OrchestratorInitial == OInit => OInv
<1> SUFFICES ASSUME OInit PROVE OInv
  OBVIOUS
<1>1. waiters \in Seq(PodIds) /\ Len(waiters) = 0
  BY EmptySeq DEF OInit
<1>2. OTypeOK
  BY <1>1 DEF OInit, OTypeOK
<1>3. QueuedOnce
  BY <1>1 DEF QueuedOnce
<1> QED
  BY <1>2, <1>3 DEF OInit, OInv, ListedWereCreated, ListedPodsAreUp

\* What is appended is the last element.
LEMMA QueueGrows ==
  ASSUME NEW S, NEW queue \in Seq(S), NEW e \in S
  PROVE  /\ Append(queue, e) \in Seq(S) /\ Len(Append(queue, e)) = Len(queue) + 1
         /\ \A i \in 1..Len(queue) : Append(queue, e)[i] = queue[i]
         /\ Append(queue, e)[Len(queue) + 1] = e
BY AppendProperties

\* A call that queues is new to the queue.
LEMMA CreatePodKeeps ==
  ASSUME OInv, NEW p \in PodIds, CreatePod(p)
  PROVE  OInv'
<1>1. waiters \in Seq(PodIds) /\ creation \in [PodIds -> States] /\ creation[p] = "not called"
  BY DEF OInv, OTypeOK, States, CreatePod
<1>2. p \notin pods /\ pods \subseteq PodIds
  BY <1>1 DEF OInv, OTypeOK, ListedWereCreated
<1>3. CASE MustQueue(p) /\ creation' = [creation EXCEPT ![p] = "queued"]
           /\ waiters' = Append(waiters, p) /\ UNCHANGED pods
  <2> DEFINE longer == Append(waiters, p)
  <2>0. /\ longer \in Seq(PodIds) /\ Len(longer) = Len(waiters) + 1
        /\ \A i \in 1..Len(waiters) : longer[i] = waiters[i]
        /\ longer[Len(waiters) + 1] = p
    <3>1. waiters \in Seq(PodIds) /\ p \in PodIds
      BY <1>1
    <3> QED
      BY <3>1, QueueGrows
  <2> HIDE DEF longer
  <2>1. /\ waiters' \in Seq(PodIds) /\ Len(waiters') = Len(waiters) + 1
        /\ \A i \in 1..Len(waiters) : waiters'[i] = waiters[i]
        /\ waiters'[Len(waiters) + 1] = p
    BY <1>3, <2>0 DEF longer
  <2>2. \A i \in 1..Len(waiters) : waiters[i] \in PodIds /\ waiters[i] # p
    BY <1>1, ElementOfSeq DEF OInv, QueuedOnce
  <2>3. OTypeOK'
    BY <1>3, <2>1 DEF CreatePod, OInv, OTypeOK
  <2>4. QueuedOnce'
    <3> SUFFICES ASSUME NEW i \in 1..Len(waiters'), NEW j \in 1..Len(waiters')
                 PROVE  creation'[waiters'[i]] = "queued" /\ (waiters'[i] = waiters'[j] => i = j)
      BY DEF QueuedOnce
    <3>1. Len(waiters) \in Nat
      BY <1>1, LenProperties
    <3>2. i \in 1..Len(waiters) \/ i = Len(waiters) + 1
      BY <2>1, <3>1
    <3>3. j \in 1..Len(waiters) \/ j = Len(waiters) + 1
      BY <2>1, <3>1
    <3>4. creation'[p] = "queued" /\ \A q \in PodIds : q # p => creation'[q] = creation[q]
      BY <1>1, <1>3
    <3>5. ASSUME NEW k \in 1..Len(waiters)
          PROVE  waiters'[k] = waiters[k] /\ waiters'[k] # p /\ creation'[waiters'[k]] = "queued"
      BY <2>1, <2>2, <3>4 DEF OInv, QueuedOnce
    <3>6. creation'[waiters'[i]] = "queued"
      BY <2>1, <3>2, <3>4, <3>5
    <3>7. CASE i \in 1..Len(waiters) /\ j \in 1..Len(waiters)
      BY <3>5, <3>6, <3>7 DEF OInv, QueuedOnce
    <3>8. CASE i = Len(waiters) + 1 \/ j = Len(waiters) + 1
      BY <2>1, <3>2, <3>3, <3>5, <3>6, <3>8
    <3> QED
      BY <3>2, <3>3, <3>7, <3>8
  <2>5. ListedWereCreated'
    BY <1>1, <1>2, <1>3 DEF OInv, ListedWereCreated
  <2>6. ListedPodsAreUp'
    BY <1>3 DEF CreatePod, OInv, ListedPodsAreUp, Removing
  <2> QED
    BY <2>3, <2>4, <2>5, <2>6 DEF OInv
<1>4. CASE Kind[p] = "hybrid" /\ creation' = [creation EXCEPT ![p] = "created"]
           /\ pods' = pods \cup {p} /\ UNCHANGED waiters
  <2>1. \A i \in 1..Len(waiters) : waiters[i] # p
    BY <1>1 DEF OInv, QueuedOnce
  <2>2. OTypeOK'
    BY <1>4 DEF CreatePod, OInv, OTypeOK
  <2>3. QueuedOnce'
    BY <1>1, <1>4, <2>1, ElementOfSeq DEF OInv, QueuedOnce
  <2>4. ListedWereCreated'
    BY <1>1, <1>2, <1>4 DEF OInv, ListedWereCreated
  <2>5. ListedPodsAreUp'
    BY <1>4 DEF CreatePod, OInv, ListedPodsAreUp, Removing
  <2> QED
    BY <2>2, <2>3, <2>4, <2>5 DEF OInv
<1>5. CASE creation' = [creation EXCEPT ![p] = "running"] /\ UNCHANGED <<waiters, pods>>
  <2>1. \A i \in 1..Len(waiters) : waiters[i] # p
    BY <1>1 DEF OInv, QueuedOnce
  <2>2. OTypeOK'
    BY <1>5 DEF CreatePod, OInv, OTypeOK
  <2>3. QueuedOnce'
    BY <1>1, <1>5, <2>1, ElementOfSeq DEF OInv, QueuedOnce
  <2>4. ListedWereCreated'
    BY <1>1, <1>2, <1>5 DEF OInv, ListedWereCreated
  <2>5. ListedPodsAreUp'
    BY <1>5 DEF CreatePod, OInv, ListedPodsAreUp, Removing
  <2> QED
    BY <2>2, <2>3, <2>4, <2>5 DEF OInv
<1> QED
  BY <1>3, <1>4, <1>5 DEF CreatePod

\* A permit that is given back goes to a queued call, or to none.
LEMMA ReleasePermitKeeps ==
  ASSUME OInv, NEW p \in PodIds, creation[p] = "running",
         NEW outcome \in {"created", "failed"}, ReleasePermit(p, outcome)
  PROVE  /\ creation' \in [PodIds -> States]
         /\ waiters' \in Seq(PodIds)
         /\ QueuedOnce'
         /\ creation'[p] = outcome
         /\ \A q \in pods : creation'[q] = "created"
<1>1. waiters \in Seq(PodIds) /\ creation \in [PodIds -> States]
  BY DEF OInv, OTypeOK, States
<1>2. \A i \in 1..Len(waiters) : waiters[i] \in PodIds /\ waiters[i] # p
  BY <1>1, ElementOfSeq DEF OInv, QueuedOnce
<1>3. /\ creation' = [q \in PodIds |-> IF q = p THEN outcome
                                       ELSE IF waiters # <<>> /\ q = Head(waiters) THEN "running"
                                       ELSE creation[q]]
      /\ waiters' = IF waiters = <<>> THEN waiters ELSE Tail(waiters)
  BY DEF ReleasePermit
<1>4. creation' \in [PodIds -> States] /\ creation'[p] = outcome
  BY <1>1, <1>3 DEF States
<1>5. CASE waiters = <<>>
  <2>1. \A q \in PodIds : q # p => creation'[q] = creation[q]
    BY <1>3, <1>5
  <2>2. QueuedOnce'
    BY <1>2, <1>3, <1>5, <2>1 DEF OInv, QueuedOnce
  <2>3. \A q \in pods : q \in PodIds /\ q # p
    BY DEF OInv, OTypeOK, ListedWereCreated
  <2> QED
    BY <1>1, <1>3, <1>4, <1>5, <2>1, <2>2, <2>3 DEF OInv, ListedWereCreated
<1>6. CASE waiters # <<>>
  <2>1. /\ Len(waiters) \in Nat /\ Len(waiters) >= 1 /\ Head(waiters) = waiters[1]
        /\ Tail(waiters) \in Seq(PodIds) /\ Len(Tail(waiters)) = Len(waiters) - 1
        /\ \A i \in 1..Len(Tail(waiters)) : Tail(waiters)[i] = waiters[i + 1]
    BY <1>1, <1>6, LenProperties, HeadTailProperties, EmptySeq
  <2>2. \A i \in 1..Len(waiters') : /\ i + 1 \in 1..Len(waiters)
                                   /\ waiters'[i] = waiters[i + 1] /\ waiters[i + 1] # waiters[1]
    <3> SUFFICES ASSUME NEW i \in 1..Len(waiters')
                 PROVE  /\ i + 1 \in 1..Len(waiters)
                        /\ waiters'[i] = waiters[i + 1] /\ waiters[i + 1] # waiters[1]
      OBVIOUS
    <3>1. i + 1 \in 1..Len(waiters) /\ 1 \in 1..Len(waiters) /\ i + 1 # 1
      BY <1>3, <1>6, <2>1
    <3> QED
      BY <1>3, <1>6, <2>1, <3>1 DEF OInv, QueuedOnce
  <2>3. \A q \in PodIds : q # p /\ q # waiters[1] => creation'[q] = creation[q]
    BY <1>3, <2>1
  <2>4. QueuedOnce'
    <3> SUFFICES ASSUME NEW i \in 1..Len(waiters'), NEW j \in 1..Len(waiters')
                 PROVE  creation'[waiters'[i]] = "queued" /\ (waiters'[i] = waiters'[j] => i = j)
      BY DEF QueuedOnce
    <3>1. creation'[waiters'[i]] = creation[waiters[i + 1]]
      BY <1>2, <2>2, <2>3
    <3>2. waiters'[i] = waiters'[j] => i + 1 = j + 1
      BY <2>2 DEF OInv, QueuedOnce
    <3> QED
      BY <2>2, <3>1, <3>2 DEF OInv, QueuedOnce
  <2>5. creation[waiters[1]] = "queued"
    BY <2>1 DEF OInv, QueuedOnce
  <2>6. \A q \in pods : q \in PodIds /\ q # p /\ q # waiters[1]
    BY <2>5 DEF OInv, OTypeOK, ListedWereCreated
  <2> QED
    BY <1>3, <1>4, <1>6, <2>1, <2>3, <2>4, <2>6 DEF OInv, ListedWereCreated
<1> QED
  BY <1>5, <1>6

\* A container is listed when it is up, and one that failed is not listed.
LEMMA ContainerEndsKeeps ==
  ASSUME OInv, NEW p \in PodIds, ContainerCreated(p) \/ ContainerFails(p)
  PROVE  OInv'
<1>1. creation[p] = "running" /\ p \notin pods
  BY DEF ContainerCreated, ContainerFails, Running, OInv, ListedWereCreated
<1>2. CASE ContainerCreated(p)
  <2>1. /\ creation' \in [PodIds -> States] /\ waiters' \in Seq(PodIds) /\ QueuedOnce'
        /\ creation'[p] = "created" /\ \A q \in pods : creation'[q] = "created"
    BY <1>1, <1>2, ReleasePermitKeeps DEF ContainerCreated
  <2>2. /\ pods' = pods \cup {p} /\ backing' = [backing EXCEPT ![p] = "up"]
        /\ UNCHANGED <<socket, removal>>
    BY <1>2 DEF ContainerCreated
  <2>3. OTypeOK'
    BY <2>1, <2>2 DEF OInv, OTypeOK, States
  <2>4. ListedPodsAreUp'
    <3> SUFFICES ASSUME NEW q \in pods', Kind[q] \in {"container", "vm"}, ~ Removing(q)'
                 PROVE  backing'[q] = "up"
      BY DEF ListedPodsAreUp
    <3>1. CASE q = p
      BY <2>2, <3>1 DEF OInv, OTypeOK
    <3>2. CASE q # p
      <4>1. q \in pods /\ backing'[q] = backing[q] /\ ~ Removing(q)
        BY <2>2, <3>2 DEF OInv, OTypeOK, Removing
      <4> QED
        BY <4>1 DEF OInv, ListedPodsAreUp
    <3> QED
      BY <3>1, <3>2
  <2> QED
    BY <2>1, <2>2, <2>3, <2>4 DEF OInv, ListedWereCreated
<1>3. CASE ContainerFails(p)
  <2>1. /\ creation' \in [PodIds -> States] /\ waiters' \in Seq(PodIds) /\ QueuedOnce'
        /\ creation'[p] = "failed" /\ \A q \in pods : creation'[q] = "created"
    BY <1>1, <1>3, ReleasePermitKeeps DEF ContainerFails
  <2>2. PICK left \in {"none", "up"} : backing' = [backing EXCEPT ![p] = left]
    BY <1>3 DEF ContainerFails
  <2>3. UNCHANGED <<pods, socket, removal>>
    BY <1>3 DEF ContainerFails
  <2>4. OTypeOK'
    BY <2>1, <2>2, <2>3 DEF OInv, OTypeOK, States
  <2>5. ListedPodsAreUp'
    BY <1>1, <2>2, <2>3 DEF OInv, OTypeOK, ListedPodsAreUp, Removing
  <2> QED
    BY <2>1, <2>3, <2>4, <2>5 DEF OInv, ListedWereCreated
<1> QED
  BY <1>2, <1>3

\* The call of a machine that starts, or fails to, held no permit.
LEMMA MachineEndsKeeps ==
  ASSUME OInv, NEW p \in PodIds, VmCreated(p) \/ VmFails(p) \/ MicrovmCreated(p)
  PROVE  OInv'
<1>1. /\ creation[p] = "running" /\ p \notin pods
      /\ UNCHANGED <<waiters, socket, removal>>
  BY DEF VmCreated, VmFails, MicrovmCreated, OInv, ListedWereCreated
<1>2. PICK outcome \in {"created", "failed"} : creation' = [creation EXCEPT ![p] = outcome]
  BY DEF VmCreated, VmFails, MicrovmCreated
<1>3. PICK left \in {"none", "up", "down"} : backing' = [backing EXCEPT ![p] = left]
  BY DEF VmCreated, VmFails, MicrovmCreated
<1>4. /\ pods' = pods \/ (pods' = pods \cup {p} /\ creation'[p] = "created")
      /\ p \in pods' /\ Kind[p] \in {"container", "vm"} => backing'[p] = "up"
  BY <1>1 DEF VmCreated, VmFails, MicrovmCreated, OInv, OTypeOK
<1>5. waiters \in Seq(PodIds) /\ creation \in [PodIds -> States]
  BY DEF OInv, OTypeOK, States
<1>6. \A i \in 1..Len(waiters) : waiters[i] \in PodIds /\ waiters[i] # p
  BY <1>1, <1>5, ElementOfSeq DEF OInv, QueuedOnce
<1>7. OTypeOK'
  BY <1>1, <1>2, <1>3, <1>4 DEF OInv, OTypeOK
<1>8. QueuedOnce'
  BY <1>1, <1>2, <1>5, <1>6 DEF OInv, QueuedOnce
<1>9. ListedWereCreated'
  BY <1>1, <1>2, <1>4, <1>5 DEF OInv, ListedWereCreated
<1>10. ListedPodsAreUp'
  <2> SUFFICES ASSUME NEW q \in pods', Kind[q] \in {"container", "vm"}, ~ Removing(q)'
               PROVE  backing'[q] = "up"
    BY DEF ListedPodsAreUp
  <2>1. CASE q = p
    BY <1>4, <2>1
  <2>2. CASE q # p
    <3>1. q \in pods /\ backing'[q] = backing[q] /\ ~ Removing(q)
      BY <1>1, <1>3, <1>4, <2>2 DEF OInv, OTypeOK, Removing
    <3> QED
      BY <3>1 DEF OInv, ListedPodsAreUp
  <2> QED
    BY <2>1, <2>2
<1> QED
  BY <1>7, <1>8, <1>9, <1>10 DEF OInv

\* What one attempt leaves of a pod is a state, and other pods are left alone.
LEMMA AttemptLeavesOthers ==
  ASSUME OInv, NEW p, NEW s \in {"none", "down"}, Attempt(p, s)
  PROVE  /\ backing' \in [PodIds -> {"none", "up", "down"}]
         /\ \A q \in PodIds : q # p => backing'[q] = backing[q]
BY DEF OInv, OTypeOK, Attempt

\* A call that begins takes its pod off the list or is seen to remove it.
LEMMA DestroyKeeps ==
  ASSUME OInv, NEW d \in Destroyers, NEW p \in PodIds,
         DestroyUnknown(d, p) \/ DestroyContainerPod(d, p) \/ DestroyAtOnce(d, p)
  PROVE  OInv'
<1>1. /\ removal[d].pc = "not called" /\ UNCHANGED <<creation, waiters>>
      /\ pods' \subseteq pods /\ (socket' = socket \/ socket' = FALSE \/ socket' = (socket /\ TRUE))
  BY DEF DestroyUnknown, DestroyContainerPod, DestroyAtOnce, OInv, OTypeOK
<1>2. PICK pc \in {"stopping", "returned"} : removal' = [removal EXCEPT ![d] = [pc |-> pc, pod |-> p]]
  BY DEF DestroyUnknown, DestroyContainerPod, DestroyAtOnce, Returns
<1>3. \A q \in PodIds : Removing(q) => Removing(q)'
  BY <1>1, <1>2 DEF OInv, OTypeOK, Removing
<1>4. /\ backing' \in [PodIds -> {"none", "up", "down"}]
      /\ \A q \in pods' : backing'[q] = backing[q]
  <2>1. CASE UNCHANGED backing
    BY <1>1, <2>1 DEF OInv, OTypeOK
  <2>2. CASE DestroyAtOnce(d, p) /\ Kind[p] = "vm"
    <3>1. PICK left \in {"none", "down"} : Attempt(p, left)
      BY <2>2 DEF DestroyAtOnce
    <3>2. pods' = pods \ {p}
      BY <2>2 DEF DestroyAtOnce
    <3> QED
      BY <3>1, <3>2, AttemptLeavesOthers DEF OInv, OTypeOK
  <2> QED
    BY <2>1, <2>2 DEF DestroyUnknown, DestroyContainerPod, DestroyAtOnce
<1>5. socket' \in BOOLEAN
  BY DEF DestroyUnknown, DestroyContainerPod, DestroyAtOnce, OInv, OTypeOK
<1>6. OTypeOK'
  BY <1>1, <1>2, <1>4, <1>5 DEF OInv, OTypeOK
<1>7. ListedPodsAreUp'
  BY <1>1, <1>3, <1>4 DEF OInv, OTypeOK, ListedPodsAreUp
<1> QED
  BY <1>1, <1>6, <1>7 DEF OInv, QueuedOnce, ListedWereCreated

\* Between its two awaits the call is seen to remove its pod, and afterwards the
\* pod is not listed, whoever deleted the entry.
LEMMA DestroyStepKeeps ==
  ASSUME OInv, NEW d \in Destroyers, DestroyStep(d)
  PROVE  OInv'
<1> DEFINE p == removal[d].pod
<1>1. CASE StopReturns(d)
  <2>1. /\ removal[d].pc = "stopping" /\ Attempt(p, "down")
        /\ removal' = [removal EXCEPT ![d].pc = "removing"]
        /\ UNCHANGED <<creation, waiters, pods, socket>>
    BY <1>1 DEF StopReturns
  <2>2. /\ backing' \in [PodIds -> {"none", "up", "down"}]
        /\ \A q \in PodIds : q # p => backing'[q] = backing[q]
    BY <2>1, AttemptLeavesOthers
  <2>3. Removing(p)' /\ \A q \in PodIds : Removing(q) => Removing(q)'
    BY <2>1 DEF OInv, OTypeOK, Removing
  <2>4. OTypeOK'
    BY <2>1, <2>2 DEF OInv, OTypeOK
  <2>5. ListedPodsAreUp'
    BY <2>1, <2>2, <2>3 DEF OInv, OTypeOK, ListedPodsAreUp
  <2> QED
    BY <2>1, <2>4, <2>5 DEF OInv, QueuedOnce, ListedWereCreated
<1>2. CASE RemoveReturns(d)
  <2>1. /\ Attempt(p, "none") /\ pods' = pods \ {p} /\ UNCHANGED <<creation, waiters, socket>>
    BY <1>2 DEF RemoveReturns
  <2>2. PICK pc \in {"returned", "raised"} : removal' = [removal EXCEPT ![d].pc = pc]
    BY <1>2 DEF RemoveReturns
  <2>3. /\ backing' \in [PodIds -> {"none", "up", "down"}]
        /\ \A q \in PodIds : q # p => backing'[q] = backing[q]
    BY <2>1, AttemptLeavesOthers
  <2>4. \A q \in PodIds : q # p /\ Removing(q) => Removing(q)'
    BY <2>2 DEF OInv, OTypeOK, Removing
  <2>5. OTypeOK'
    BY <2>1, <2>2, <2>3 DEF OInv, OTypeOK
  <2>6. ListedPodsAreUp'
    BY <2>1, <2>3, <2>4 DEF OInv, OTypeOK, ListedPodsAreUp
  <2> QED
    BY <2>1, <2>5, <2>6 DEF OInv, QueuedOnce, ListedWereCreated
<1> QED
  BY <1>1, <1>2 DEF DestroyStep

----------------------------------------------------------------------------
\* Every step keeps the invariant.
THEOREM OrchestratorInductive == OSpec => []OInv
<1>1. OInit => OInv
  BY OrchestratorInitial
<1>2. OInv /\ [ONext]_ovars => OInv'
  <2> SUFFICES ASSUME OInv, [ONext]_ovars PROVE OInv'
    OBVIOUS
  <2>1. ASSUME NEW p \in PodIds, CreatePod(p) PROVE OInv'
    BY <2>1, CreatePodKeeps
  <2>2. ASSUME NEW p \in PodIds, CreateStep(p) PROVE OInv'
    BY <2>2, ContainerEndsKeeps, MachineEndsKeeps DEF CreateStep
  <2>3. ASSUME NEW d \in Destroyers, DestroyStep(d) PROVE OInv'
    BY <2>3, DestroyStepKeeps
  <2>4. ASSUME NEW d \in Destroyers, NEW p \in PodIds,
               DestroyUnknown(d, p) \/ DestroyContainerPod(d, p) \/ DestroyAtOnce(d, p)
        PROVE  OInv'
    BY <2>4, DestroyKeeps
  <2>5. CASE UNCHANGED ovars
    <3>1. UNCHANGED <<pods, waiters, backing, socket, creation, removal>>
      BY <2>5 DEF ovars
    <3>2. OTypeOK'
      BY <3>1 DEF OInv, OTypeOK
    <3>3. QueuedOnce'
      BY <3>1 DEF OInv, QueuedOnce
    <3>4. ListedWereCreated'
      BY <3>1 DEF OInv, ListedWereCreated
    <3>5. ListedPodsAreUp'
      BY <3>1 DEF OInv, ListedPodsAreUp, Removing
    <3> QED
      BY <3>2, <3>3, <3>4, <3>5 DEF OInv
  <2> QED
    BY <2>1, <2>2, <2>3, <2>4, <2>5 DEF ONext
<1> QED
  BY <1>1, <1>2, PTL DEF OSpec

\* AdvancedOrchestrator (src/orchestrator/orchestrator.py) lists no container or
\* VM pod that is not up, unless it is being destroyed.
THEOREM ListedAreUp == OSpec => []ListedPodsAreUp
BY OrchestratorInductive, PTL DEF OInv

-----------------------------------------------------------------------------
(***************************************************************************)
(* Sessions and rooms.                                                     *)
(***************************************************************************)
\* The invariants that the properties rest on.
\* A session nobody asked for yet is nowhere, and has no room.
Untouched ==
  \A s \in Sessions : request[s] = "not called" =>
     /\ s \notin sessions
     /\ session[s].status = "creating"
     /\ \A o \in Nodes : s \notin holds[o]

\* Only AI environments are deployed.
Deployments == \A s \in Sessions : request[s] = "deploying" => s \in AI

\* What a creation that returned with a pod left behind.
OwnPods ==
  \A s \in Scheduled :
     /\ session[s].status = "running" => session[s].pod # None
     /\ session[s].pod # None =>
          /\ session[s].pod = PodOf[s]
          /\ request[s] = "returned"
          /\ PodOf[s] \in pods
          /\ backing[PodOf[s]] = "up"

RoomInv == Untouched /\ Deployments /\ NoReservationLeaks

PodInv == OwnPods /\ PodsHaveOwners

---------------------------------------------------------------------------
(***************************************************************************)
(* The pod orchestrator under a session.                                   *)
(***************************************************************************)
LEMMA CreatePodType ==
  ASSUME OTypeOK, NEW p \in PodIds, CreatePod(p)
  PROVE  OTypeOK'
<1>0. waiters \in Seq(PodIds)
  BY DEF OTypeOK
<1>1. Append(waiters, p) \in Seq(PodIds)
  BY <1>0, AppendProperties
<1>2. waiters' \in Seq(PodIds)
  BY <1>1 DEF CreatePod, OTypeOK
<1>3. creation' \in [PodIds -> {"not called", "queued", "running", "created", "failed"}]
  BY DEF CreatePod, OTypeOK
<1>4. pods' \subseteq PodIds /\ UNCHANGED <<backing, socket, removal>>
  BY DEF CreatePod, OTypeOK
<1> QED
  BY <1>2, <1>3, <1>4 DEF OTypeOK

\* Before its first await a container pod is neither listed nor backed.
LEMMA CreatePodListsNothing ==
  ASSUME NEW p \in PodIds, Kind[p] = "container", CreatePod(p)
  PROVE  UNCHANGED <<pods, backing>>
BY DEF CreatePod

\* Handing on a permit keeps the types of calls and of the queue.
LEMMA ReleasePermitType ==
  ASSUME OTypeOK, NEW p \in PodIds, NEW outcome \in {"created", "failed"},
         ReleasePermit(p, outcome)
  PROVE  /\ creation' \in [PodIds -> {"not called", "queued", "running", "created", "failed"}]
         /\ waiters' \in Seq(PodIds)
<1>1. CASE waiters = <<>>
  BY <1>1 DEF OTypeOK, ReleasePermit
<1>2. CASE waiters # <<>>
  <2>0. waiters \in Seq(PodIds)
    BY DEF OTypeOK
  <2>1. Tail(waiters) \in Seq(PodIds)
    BY <1>2, <2>0, HeadTailProperties
  <2>2. waiters' = Tail(waiters)
    BY <1>2 DEF ReleasePermit
  <2>3. creation' \in [PodIds -> {"not called", "queued", "running", "created", "failed"}]
    BY DEF OTypeOK, ReleasePermit
  <2> QED
    BY <2>1, <2>2, <2>3
<1> QED
  BY <1>1, <1>2

\* A created container keeps the types of the orchestrator.
LEMMA ContainerCreatedType ==
  ASSUME OTypeOK, NEW p \in PodIds, ContainerCreated(p)
  PROVE  OTypeOK'
BY ReleasePermitType DEF ContainerCreated, OTypeOK

\* A failed creation keeps the types of the orchestrator.
LEMMA ContainerFailsType ==
  ASSUME OTypeOK, NEW p \in PodIds, ContainerFails(p)
  PROVE  OTypeOK'
BY ReleasePermitType DEF ContainerFails, OTypeOK
---------------------------------------------------------------------------
(***************************************************************************)
(* Types.                                                                  *)
(***************************************************************************)
LEMMA PodNames ==
  /\ Scheduled \subseteq Sessions
  /\ \A s \in Scheduled : PodOf[s] \in PodIds /\ Kind[PodOf[s]] = "container"
  /\ \A s, t \in Scheduled : PodOf[s] = PodOf[t] => s = t
BY SessionConstants DEF Scheduled

\* Giving room back leaves scheduled sessions on nodes.
LEMMA UnscheduleType ==
  ASSUME STypeOK, NEW S, Unschedule(S)
  PROVE  holds' \in [Nodes -> SUBSET Scheduled]
BY DEF STypeOK, Unschedule

\* Writing a status keeps the type of the sessions.
LEMMA StatusType ==
  ASSUME STypeOK, NEW s \in Sessions, NEW st \in Statuses
  PROVE  [session EXCEPT ![s].status = st] \in [Sessions -> SessionStates]
BY DEF STypeOK, SessionStates, Statuses

\* Destroying sessions keeps the types of sessions and nodes.
LEMMA DestroyAllType ==
  ASSUME STypeOK, NEW S, DestroyAll(S)
  PROVE  /\ session' \in [Sessions -> SessionStates]
         /\ holds' \in [Nodes -> SUBSET Scheduled]
<1>1. session \in [Sessions -> SessionStates]
  BY DEF STypeOK, SessionStates, Statuses
<1>2. \A s \in Sessions : [session[s] EXCEPT !.status = "destroyed"] \in SessionStates
  BY <1>1 DEF SessionStates, Statuses
<1>3. session' \in [Sessions -> SessionStates]
  BY <1>1, <1>2 DEF DestroyAll
<1> QED
  BY <1>3, UnscheduleType DEF DestroyAll

\* Every step keeps the types.
LEMMA TypeStep == ASSUME STypeOK, [SNext]_allvars PROVE STypeOK'
<1> USE PodNames DEF STypeOK
<1>0. ASSUME UNCHANGED ovars PROVE OTypeOK'
  BY <1>0 DEF ovars, OTypeOK
<1>1. ASSUME NEW s \in Sessions, CreateRefused(s) PROVE STypeOK'
  <2>1. session' \in [Sessions -> SessionStates]
    BY <1>1, StatusType DEF CreateRefused, Statuses
  <2> QED
    BY <1>0, <1>1, <2>1 DEF CreateRefused
<1>2. ASSUME NEW s \in Sessions, CreateSession(s) PROVE STypeOK'
  <2>1. PICK o \in Nodes : Sched!Grant(o, s, holds)
    BY <1>2 DEF CreateSession
  <2>2. s \in Scheduled
    BY <1>2 DEF CreateSession
  <2>3. holds' \in [Nodes -> SUBSET Scheduled] /\ granted' \subseteq Scheduled
    BY <2>1, <2>2 DEF Sched!Grant
  <2>4. OTypeOK'
    BY <1>0, <1>2, <2>2, CreatePodType DEF CreateSession
  <2>5. session' \in [Sessions -> SessionStates]
    <3>1. session' = [session EXCEPT ![s].status = "error"] \/ session' = session
      BY <1>2 DEF CreateSession
    <3>2. "error" \in Statuses
      BY DEF Statuses
    <3>3. [session EXCEPT ![s].status = "error"] \in [Sessions -> SessionStates]
      BY <3>2, StatusType
    <3> QED
      BY <3>1, <3>3
  <2>6. /\ request' \in [Sessions -> {"not called", "creating pod", "deploying", "returned", "raised"}]
        /\ sessions' \subseteq Sessions
    BY <1>2 DEF CreateSession
  <2> QED
    BY <2>3, <2>4, <2>5, <2>6
<1>3. ASSUME NEW s \in Sessions, DeployAI(s) PROVE STypeOK'
  BY <1>0, <1>3 DEF DeployAI
<1>4. ASSUME NEW s \in Sessions, PodArrives(s) PROVE STypeOK'
  <2>1. s \in Scheduled /\ OTypeOK'
    BY <1>4, ContainerCreatedType DEF PodArrives
  <2> DEFINE arrived == [session[s] EXCEPT !.status = "running", !.pod = PodOf[s]]
  <2>2. session[s] \in SessionStates /\ PodOf[s] \in PodIds
    BY <2>1, PodNames DEF STypeOK
  <2>3. arrived \in SessionStates
    BY <2>2 DEF SessionStates, Statuses
  <2>4. session' = [session EXCEPT ![s] = arrived]
    BY <1>4 DEF PodArrives
  <2>5. session' \in [Sessions -> SessionStates]
    BY <2>3, <2>4
  <2> QED
    BY <1>4, <2>1, <2>5 DEF PodArrives
<1>5. ASSUME NEW s \in Sessions, PodRefused(s) PROVE STypeOK'
  <2>1. s \in Scheduled /\ OTypeOK'
    BY <1>5, ContainerFailsType DEF PodRefused
  <2>2. holds' \in [Nodes -> SUBSET Scheduled]
    BY <1>5, UnscheduleType DEF PodRefused
  <2>3. session' \in [Sessions -> SessionStates]
    BY <1>5, StatusType DEF PodRefused, Statuses
  <2> QED
    BY <1>5, <2>1, <2>2, <2>3 DEF PodRefused
<1>6. ASSUME NEW s \in Sessions, AIDeployed(s) PROVE STypeOK'
  <2>1. session' \in [Sessions -> SessionStates]
    BY <1>6, StatusType DEF AIDeployed, Statuses
  <2> QED
    BY <1>0, <1>6, <2>1 DEF AIDeployed
<1>7. ASSUME NEW s \in Sessions, DestroySession(s) PROVE STypeOK'
  BY <1>0, <1>7, DestroyAllType DEF DestroySession
<1>8. ASSUME NEW s \in Sessions, Expire(s) PROVE STypeOK'
  <2>1. session' \in [Sessions -> SessionStates]
    <3>1. session \in [Sessions -> SessionStates]
      BY DEF STypeOK
    <3> DEFINE expired == [session[s] EXCEPT !.expired = TRUE]
    <3>2. expired \in SessionStates
      BY <3>1 DEF SessionStates
    <3>3. session' = [session EXCEPT ![s] = expired]
      BY <1>8 DEF Expire
    <3> QED
      BY <3>1, <3>2, <3>3
  <2> QED
    BY <1>0, <1>8, <2>1 DEF Expire
<1>9. CASE CleanupExpiredSessions
  BY <1>0, <1>9, DestroyAllType DEF CleanupExpiredSessions
<1>10. CASE UNCHANGED allvars
  <2>1. UNCHANGED <<sessions, session, request, holds, granted>> /\ UNCHANGED ovars
    BY <1>10 DEF allvars, svars
  <2> QED
    BY <1>0, <2>1
<1> QED
  BY <1>1, <1>2, <1>3, <1>4, <1>5, <1>6, <1>7, <1>8, <1>9, <1>10
     DEF SNext, CallStep

\* The types hold at first.
LEMMA TypeInit == ASSUME SInit PROVE STypeOK
<1>1. OTypeOK
  <2>1. waiters \in Seq(PodIds)
    BY EmptySeq DEF SInit, OInit
  <2>2. removal \in [Destroyers ->
             [pc : {"not called", "stopping", "removing", "returned", "raised"},
              pod : PodIds \cup {None}]]
    BY DEF SInit, OInit
  <2> QED
    BY <2>1, <2>2 DEF SInit, OInit, OTypeOK
<1>2. holds \in [Nodes -> SUBSET Scheduled] /\ granted \subseteq Scheduled
  BY DEF SInit, Sched!AInit
<1>3. session \in [Sessions -> SessionStates]
  BY DEF SInit, SessionStates, Statuses
<1> QED
  BY <1>1, <1>2, <1>3 DEF SInit, STypeOK

\* The types of the session table, of the sessions and of the requests, and of
\* the scheduler and the orchestrator below them.
THEOREM TypeCorrect == SSpec => []STypeOK
BY TypeInit, TypeStep, PTL DEF SSpec
---------------------------------------------------------------------------
(***************************************************************************)
(* Rooms.                                                                  *)
(***************************************************************************)
\* What a step may do to the sessions that it does not concern, and what it
\* must establish for those it does.
SameRooms(t) ==
  /\ session'[t].status = session[t].status
  /\ request'[t] = request[t]
  /\ t \in sessions' <=> t \in sessions
  /\ \A o \in Nodes : t \in holds'[o] => t \in holds[o]

RoomsInOrder(t) ==
  /\ request'[t] # "not called"
  /\ request'[t] = "deploying" => t \in AI
  /\ \A o \in Nodes : t \in holds'[o] =>
        t \in sessions' /\ session'[t].status \in {"creating", "running", "error"}

\* A step preserves RoomInv when each session is one or the other.
LEMMA RoomFrame ==
  ASSUME RoomInv, \A t \in Sessions : SameRooms(t) \/ RoomsInOrder(t)
  PROVE  RoomInv'
<1> USE DEF SameRooms, RoomsInOrder, RoomInv
<1>1. Untouched'
  BY DEF Untouched
<1>2. Deployments'
  BY DEF Deployments
<1>3. NoReservationLeaks'
  BY PodNames DEF NoReservationLeaks, Reserved
<1> QED
  BY <1>1, <1>2, <1>3

\* What a step that writes a status, or nothing, does to the statuses.
LEMMA StatusSet ==
  ASSUME STypeOK, NEW s \in Sessions, NEW st,
         session' = [session EXCEPT ![s].status = st]
  PROVE  /\ session'[s].status = st /\ session'[s].pod = session[s].pod
         /\ \A t \in Sessions \ {s} : session'[t] = session[t]
BY DEF STypeOK, SessionStates

\* What destroying the sessions of S changes, and that nobody else is touched.
LEMMA DestroyAllSets ==
  ASSUME STypeOK, NEW S, DestroyAll(S)
  PROVE  /\ \A t \in Sessions \ S : session'[t] = session[t]
         /\ \A t \in Sessions \cap S : /\ session'[t].status = "destroyed"
                                       /\ session'[t].pod = session[t].pod
                                       /\ session'[t].expired = session[t].expired
         /\ \A o \in Nodes : holds'[o] = holds[o] \ S
BY DEF STypeOK, SessionStates, DestroyAll, Unschedule

\* RoomInv holds at first.
LEMMA RoomInit == ASSUME SInit PROVE RoomInv
<1>1. \A o \in Nodes : holds[o] = {}
  BY DEF SInit, Sched!AInit
<1> QED
  BY <1>1, PodNames
     DEF SInit, RoomInv, Untouched, Deployments, NoReservationLeaks, Reserved

\* Every step preserves RoomInv.
LEMMA RoomStep ==
  ASSUME STypeOK, RoomInv, [SNext]_allvars
  PROVE  RoomInv'
<1>0. SUFFICES \A t \in Sessions : SameRooms(t) \/ RoomsInOrder(t)
  BY RoomFrame
<1> USE DEF SameRooms, RoomsInOrder
<1>1. ASSUME NEW s \in Sessions, NEW t \in Sessions, CreateRefused(s)
      PROVE  SameRooms(t) \/ RoomsInOrder(t)
  <2>1. session' = [session EXCEPT ![s].status = "failed"]
    BY <1>1 DEF CreateRefused
  <2>2. \A o \in Nodes : s \notin holds[o]
    BY <1>1 DEF CreateRefused, RoomInv, Untouched
  <2> QED
    BY <1>1, <2>1, <2>2, StatusSet DEF CreateRefused, STypeOK
<1>2. ASSUME NEW s \in Sessions, NEW t \in Sessions, CreateSession(s)
      PROVE  SameRooms(t) \/ RoomsInOrder(t)
  <2>1. PICK n \in Nodes : Sched!Grant(n, s, holds)
    BY <1>2 DEF CreateSession
  <2>2. \A o \in Nodes : holds'[o] \subseteq holds[o] \cup {s}
    BY <2>1 DEF Sched!Grant, STypeOK
  <2>3. /\ request[s] = "not called" /\ sessions' = sessions \cup {s}
        /\ \A u \in Sessions \ {s} : request'[u] = request[u]
        /\ request'[s] \in {"returned", "creating pod"}
    BY <1>2 DEF CreateSession, STypeOK
  <2>4. session[s].status = "creating"
    BY <2>3 DEF RoomInv, Untouched
  <2>5. session' = [session EXCEPT ![s].status = "error"] \/ session' = session
    BY <1>2 DEF CreateSession
  <2>6. /\ \A u \in Sessions \ {s} : session'[u] = session[u]
        /\ session'[s].status \in {"creating", "error"}
    BY <2>4, <2>5, StatusSet
  <2> QED
    BY <2>2, <2>3, <2>6
<1>3. ASSUME NEW s \in Sessions, NEW t \in Sessions, DeployAI(s)
      PROVE  SameRooms(t) \/ RoomsInOrder(t)
  <2>1. session[s].status = "creating"
    BY <1>3 DEF DeployAI, RoomInv, Untouched
  <2> QED
    BY <1>3, <2>1 DEF DeployAI, STypeOK
<1>4. ASSUME NEW s \in Sessions, NEW t \in Sessions, PodArrives(s)
      PROVE  SameRooms(t) \/ RoomsInOrder(t)
  <2>1. /\ \A u \in Sessions \ {s} : session'[u] = session[u] /\ request'[u] = request[u]
        /\ request'[s] = "returned"
        /\ UNCHANGED <<sessions, holds>>
    BY <1>4 DEF PodArrives, STypeOK
  <2>2. session'[s].status = "running"
    BY <1>4 DEF PodArrives, STypeOK, SessionStates
  <2>3. \A o \in Nodes : s \in holds[o] => s \in sessions
    BY <1>4 DEF PodArrives, RoomInv, NoReservationLeaks, Reserved
  <2> QED
    BY <2>1, <2>2, <2>3
<1>5. ASSUME NEW s \in Sessions, NEW t \in Sessions, PodRefused(s)
      PROVE  SameRooms(t) \/ RoomsInOrder(t)
  <2>1. \A o \in Nodes : holds'[o] = holds[o] \ {s}
    BY <1>5 DEF PodRefused, Unschedule
  <2>2. session' = [session EXCEPT ![s].status = "failed"]
    BY <1>5 DEF PodRefused
  <2>3. \A u \in Sessions \ {s} : session'[u] = session[u] /\ request'[u] = request[u]
    BY <1>5, <2>2, StatusSet DEF PodRefused, STypeOK
  <2>4. request'[s] = "raised" /\ UNCHANGED sessions
    BY <1>5 DEF PodRefused, STypeOK
  <2> QED
    BY <2>1, <2>3, <2>4
<1>6. ASSUME NEW s \in Sessions, NEW t \in Sessions, AIDeployed(s)
      PROVE  SameRooms(t) \/ RoomsInOrder(t)
  <2>1. session' = [session EXCEPT ![s].status = "running"]
    BY <1>6 DEF AIDeployed
  <2>2. \A o \in Nodes : s \notin holds[o]
    <3>1. s \notin Scheduled
      BY <1>6 DEF AIDeployed, RoomInv, Deployments, Scheduled
    <3>2. \A o \in Nodes : holds[o] \subseteq Scheduled
      BY DEF STypeOK
    <3> QED
      BY <3>1, <3>2
  <2> QED
    BY <1>6, <2>1, <2>2, StatusSet DEF AIDeployed, STypeOK
<1>7. ASSUME NEW s \in Sessions, NEW t \in Sessions, DestroySession(s)
      PROVE  SameRooms(t) \/ RoomsInOrder(t)
  <2>1. /\ \A u \in Sessions \ {s} : session'[u] = session[u]
        /\ \A o \in Nodes : holds'[o] = holds[o] \ {s}
    BY <1>7, DestroyAllSets DEF DestroySession
  <2>2. request[s] # "not called" /\ UNCHANGED <<sessions, request>>
    BY <1>7 DEF DestroySession, RoomInv, Untouched
  <2>3. request[s] = "deploying" => s \in AI
    BY DEF RoomInv, Deployments
  <2> QED
    BY <2>1, <2>2, <2>3
<1>8. ASSUME NEW s \in Sessions, NEW t \in Sessions, Expire(s)
      PROVE  SameRooms(t) \/ RoomsInOrder(t)
  <2>1. session'[t].status = session[t].status
    BY <1>8 DEF Expire, STypeOK, SessionStates
  <2> QED
    BY <1>8, <2>1 DEF Expire
<1>9. ASSUME NEW t \in Sessions, CleanupExpiredSessions
      PROVE  SameRooms(t) \/ RoomsInOrder(t)
  <2>1. /\ \A u \in Sessions \ Expired : session'[u] = session[u]
        /\ \A o \in Nodes : holds'[o] = holds[o] \ Expired
    BY <1>9, DestroyAllSets DEF CleanupExpiredSessions
  <2>2. Expired \subseteq sessions /\ sessions' = sessions \ Expired /\ UNCHANGED request
    BY <1>9 DEF CleanupExpiredSessions, Expired
  <2>3. t \in sessions => request[t] # "not called"
    BY DEF RoomInv, Untouched
  <2>4. request[t] = "deploying" => t \in AI
    BY DEF RoomInv, Deployments
  <2> QED
    BY <2>1, <2>2, <2>3, <2>4
<1>10. ASSUME NEW t \in Sessions, UNCHANGED allvars
       PROVE  SameRooms(t) \/ RoomsInOrder(t)
  BY <1>10 DEF allvars, svars
<1> QED
  BY <1>1, <1>2, <1>3, <1>4, <1>5, <1>6, <1>7, <1>8, <1>9, <1>10
     DEF SNext, CallStep

\* No room stays reserved for a session that failed, is destroyed or is not
\* listed, in every interleaving of creations, destructions and cleanups.
THEOREM RoomsAreGivenBack == SSpec => []NoReservationLeaks
<1>1. SSpec => []RoomInv
  BY RoomInit, RoomStep, TypeCorrect, PTL DEF SSpec
<1>2. RoomInv => NoReservationLeaks
  BY DEF RoomInv
<1> QED
  BY <1>1, <1>2, PTL
---------------------------------------------------------------------------
(***************************************************************************)
(* Pods.                                                                   *)
(***************************************************************************)
\* PodInv holds at first.
LEMMA PodInit == ASSUME SInit PROVE PodInv
BY PodNames DEF SInit, OInit, PodInv, OwnPods, PodsHaveOwners

\* A step that changes no pod, and no session but for its status, and lets no
\* scheduled session run that has no pod, and leaves the returned calls alone.
LEMMA PodFrame ==
  ASSUME PodInv, UNCHANGED <<pods, backing>>,
         \A t \in Scheduled :
           /\ session'[t].pod = session[t].pod
           /\ session'[t].status = "running" => session[t].status = "running"
           /\ request[t] = "returned" => request'[t] = "returned"
  PROVE  PodInv'
<1>1. OwnPods'
  BY DEF PodInv, OwnPods
<1>2. PodsHaveOwners'
  BY DEF PodInv, PodsHaveOwners
<1> QED
  BY <1>1, <1>2 DEF PodInv

\* Every step preserves PodInv.
LEMMA PodStep ==
  ASSUME STypeOK, RoomInv, PodInv, [SNext]_allvars
  PROVE  PodInv'
<1> USE PodNames
<1>1. ASSUME NEW s \in Sessions, CreateRefused(s) PROVE PodInv'
  <2>1. session' = [session EXCEPT ![s].status = "failed"]
    BY <1>1 DEF CreateRefused
  <2>2. \A t \in Scheduled : /\ session'[t].pod = session[t].pod
                             /\ session'[t].status = "running" => session[t].status = "running"
    BY <2>1, StatusSet
  <2>3. UNCHANGED <<pods, backing>>
    BY <1>1 DEF CreateRefused, ovars
  <2>4. \A t \in Scheduled : request[t] = "returned" => request'[t] = "returned"
    BY <1>1 DEF CreateRefused, STypeOK
  <2> QED
    BY <2>2, <2>3, <2>4, PodFrame
<1>2. ASSUME NEW s \in Sessions, CreateSession(s) PROVE PodInv'
  <2>1. session' = [session EXCEPT ![s].status = "error"] \/ session' = session
    BY <1>2 DEF CreateSession
  <2>2. \A t \in Scheduled : /\ session'[t].pod = session[t].pod
                             /\ session'[t].status = "running" => session[t].status = "running"
    BY <2>1, StatusSet
  <2>3. UNCHANGED <<pods, backing>>
    BY <1>2, CreatePodListsNothing DEF CreateSession, ovars
  <2>4. \A t \in Scheduled : request[t] = "returned" => request'[t] = "returned"
    BY <1>2 DEF CreateSession, STypeOK
  <2> QED
    BY <2>2, <2>3, <2>4, PodFrame
<1>3. ASSUME NEW s \in Sessions, DeployAI(s) PROVE PodInv'
  <2>1. UNCHANGED <<pods, backing, session>>
    BY <1>3 DEF DeployAI, ovars
  <2>2. \A t \in Scheduled : request[t] = "returned" => request'[t] = "returned"
    BY <1>3 DEF DeployAI, STypeOK
  <2> QED
    BY <2>1, <2>2, PodFrame
<1>4. ASSUME NEW s \in Sessions, PodArrives(s) PROVE PodInv'
  <2>1. /\ \A t \in Sessions \ {s} : session'[t] = session[t] /\ request'[t] = request[t]
        /\ request'[s] = "returned" /\ s \in Scheduled
    BY <1>4 DEF PodArrives, STypeOK
  <2>2. session'[s].pod = PodOf[s]
    <3>1. session' = [session EXCEPT ![s] =
               [session[s] EXCEPT !.status = "running", !.pod = PodOf[s]]]
      BY <1>4 DEF PodArrives
    <3>2. session'[s] = [session[s] EXCEPT !.status = "running", !.pod = PodOf[s]]
      BY <3>1 DEF STypeOK
    <3>3. session[s] \in SessionStates
      BY DEF STypeOK
    <3> QED
      BY <3>2, <3>3 DEF SessionStates
  <2>3. /\ pods' = pods \cup {PodOf[s]} /\ backing'[PodOf[s]] = "up"
        /\ \A p \in PodIds \ {PodOf[s]} : backing'[p] = backing[p]
    <3>1. pods' = pods \cup {PodOf[s]} /\ backing' = [backing EXCEPT ![PodOf[s]] = "up"]
      BY <1>4 DEF PodArrives, ContainerCreated
    <3>2. PodOf[s] \in PodIds /\ backing \in [PodIds -> {"none", "up", "down"}]
      BY <2>1, PodNames DEF STypeOK, OTypeOK
    <3> QED
      BY <3>1, <3>2
  <2>4. PodOf[s] # None
    BY <2>1, OrchestratorConstants
  <2>5. OwnPods'
    BY <2>1, <2>2, <2>3, <2>4 DEF PodInv, OwnPods
  <2>6. PodsHaveOwners'
    <3>1. ASSUME NEW p \in pods
          PROVE  \E t \in Scheduled : session'[t].pod = p /\ request'[t] = "returned"
      <4>1. PICK t \in Scheduled : session[t].pod = p /\ request[t] = "returned"
        BY DEF PodInv, PodsHaveOwners
      <4>2. t # s
        BY <1>4, <4>1 DEF PodArrives
      <4> QED
        BY <2>1, <4>1, <4>2
    <3> QED
      BY <2>1, <2>2, <2>3, <3>1 DEF PodsHaveOwners
  <2> QED
    BY <2>5, <2>6 DEF PodInv
<1>5. ASSUME NEW s \in Sessions, PodRefused(s) PROVE PodInv'
  <2>1. session' = [session EXCEPT ![s].status = "failed"]
    BY <1>5 DEF PodRefused
  <2>2. \A t \in Scheduled : /\ session'[t].pod = session[t].pod
                             /\ session'[t].status = "running" =>
                                  session[t].status = "running" /\ t # s
    <3>1. /\ session'[s].status = "failed" /\ session'[s].pod = session[s].pod
          /\ \A t \in Sessions \ {s} : session'[t] = session[t]
      BY <2>1, StatusSet
    <3> QED
      BY <3>1
  <2>3. /\ s \in Scheduled /\ request[s] = "creating pod" /\ UNCHANGED pods
        /\ \A p \in PodIds \ {PodOf[s]} : backing'[p] = backing[p]
    <3>1. ContainerFails(PodOf[s]) /\ s \in Scheduled /\ request[s] = "creating pod"
      BY <1>5 DEF PodRefused
    <3>2. PICK left \in {"none", "up"} : backing' = [backing EXCEPT ![PodOf[s]] = left]
      BY <3>1 DEF ContainerFails
    <3>3. backing \in [PodIds -> {"none", "up", "down"}]
      BY DEF STypeOK, OTypeOK
    <3> QED
      BY <3>1, <3>2, <3>3 DEF ContainerFails
  <2>4. \A t \in Scheduled : request[t] = "returned" => request'[t] = "returned" /\ t # s
    BY <1>5, <2>3 DEF PodRefused, STypeOK
  <2>5. OwnPods'
    <3>1. ASSUME NEW t \in Scheduled, session[t].pod # None
          PROVE  /\ session[t].pod = PodOf[t] /\ request'[t] = "returned"
                 /\ PodOf[t] \in pods' /\ backing'[PodOf[t]] = "up"
      <4>1. /\ session[t].pod = PodOf[t] /\ request[t] = "returned"
            /\ PodOf[t] \in pods /\ backing[PodOf[t]] = "up"
        BY <3>1 DEF PodInv, OwnPods
      <4>2. PodOf[t] \in PodIds \ {PodOf[s]}
        BY <2>3, <2>4, <4>1
      <4> QED
        BY <2>3, <2>4, <4>1, <4>2
    <3>2. ASSUME NEW t \in Scheduled, session'[t].status = "running"
          PROVE  session'[t].pod # None
      BY <2>2, <3>2 DEF PodInv, OwnPods
    <3> QED
      BY <2>2, <3>1, <3>2 DEF OwnPods
  <2>6. PodsHaveOwners'
    <3>1. ASSUME NEW p \in pods
          PROVE  \E t \in Scheduled : session'[t].pod = p /\ request'[t] = "returned"
      <4>1. PICK t \in Scheduled : session[t].pod = p /\ request[t] = "returned"
        BY DEF PodInv, PodsHaveOwners
      <4> QED
        BY <2>2, <2>4, <4>1
    <3> QED
      BY <2>3, <3>1 DEF PodsHaveOwners
  <2> QED
    BY <2>5, <2>6 DEF PodInv
<1>6. ASSUME NEW s \in Sessions, AIDeployed(s) PROVE PodInv'
  <2>1. s \notin Scheduled /\ UNCHANGED <<pods, backing>>
    BY <1>6 DEF AIDeployed, RoomInv, Deployments, Scheduled, ovars
  <2>2. \A t \in Sessions \ {s} : session'[t] = session[t] /\ request'[t] = request[t]
    BY <1>6 DEF AIDeployed, STypeOK
  <2> QED
    BY <2>1, <2>2, PodFrame
<1>7. ASSUME NEW s \in Sessions, DestroySession(s) PROVE PodInv'
  <2>1. \A t \in Scheduled : /\ session'[t].pod = session[t].pod
                             /\ session'[t].status = "running" => session[t].status = "running"
    BY <1>7, DestroyAllSets DEF DestroySession
  <2> QED
    BY <1>7, <2>1, PodFrame DEF DestroySession, ovars
<1>8. ASSUME NEW s \in Sessions, Expire(s) PROVE PodInv'
  <2>1. \A t \in Scheduled : /\ session'[t].pod = session[t].pod
                             /\ session'[t].status = session[t].status
    BY <1>8 DEF Expire, STypeOK, SessionStates
  <2> QED
    BY <1>8, <2>1, PodFrame DEF Expire, ovars
<1>9. CASE CleanupExpiredSessions
  <2>1. \A t \in Scheduled : /\ session'[t].pod = session[t].pod
                             /\ session'[t].status = "running" => session[t].status = "running"
    BY <1>9, DestroyAllSets DEF CleanupExpiredSessions
  <2> QED
    BY <1>9, <2>1, PodFrame DEF CleanupExpiredSessions, ovars
<1>10. CASE UNCHANGED allvars
  BY <1>10, PodFrame DEF allvars, svars, ovars
<1> QED
  BY <1>1, <1>2, <1>3, <1>4, <1>5, <1>6, <1>7, <1>8, <1>9, <1>10
     DEF SNext, CallStep

\* The inductive invariant of sessions: types, rooms and pods.
THEOREM Inductive == SSpec => [](STypeOK /\ RoomInv /\ PodInv)
<1>1. SInit => STypeOK /\ RoomInv /\ PodInv
  BY TypeInit, RoomInit, PodInit
<1>2. STypeOK /\ RoomInv /\ PodInv /\ [SNext]_allvars => (STypeOK /\ RoomInv /\ PodInv)'
  BY TypeStep, RoomStep, PodStep
<1> QED
  BY <1>1, <1>2, PTL DEF SSpec

\* A session that create_session reports as running has its pod listed and its
\* container up.
THEOREM RunningHavePods == SSpec => []RunningSessionsHavePods
<1>1. PodInv => RunningSessionsHavePods
  BY DEF PodInv, OwnPods, RunningSessionsHavePods
<1> QED
  BY <1>1, Inductive, PTL

\* Every listed pod belongs to a session whose creation returned with it.
THEOREM ListedPodsAreOwned == SSpec => []PodsHaveOwners
<1>1. PodInv => PodsHaveOwners
  BY DEF PodInv
<1> QED
  BY <1>1, Inductive, PTL

\* A session leaves the table only when it has expired, destroyed, and with its
\* room given back.
THEOREM VanishedAreDestroyed == SSpec => OnlyExpiredSessionsVanish
<1> DEFINE Vanishing == \A s \in sessions \ sessions' :
             session[s].expired /\ session'[s].status = "destroyed" /\ ~ Reserved(s)'
<1>1. STypeOK /\ [SNext]_allvars => [Vanishing]_allvars
  <2> SUFFICES ASSUME STypeOK, SNext, NEW s \in sessions \ sessions'
               PROVE  /\ session[s].expired
                      /\ session'[s].status = "destroyed"
                      /\ ~ Reserved(s)'
    BY DEF allvars
  <2>1. CleanupExpiredSessions
    BY DEF SNext, CreateRefused, CreateSession, DeployAI, CallStep, PodArrives,
           PodRefused, AIDeployed, DestroySession, Expire
  <2>2. s \in Expired /\ s \in Sessions
    BY <2>1 DEF CleanupExpiredSessions, STypeOK
  <2>3. session'[s].status = "destroyed" /\ \A o \in Nodes : holds'[o] = holds[o] \ Expired
    BY <2>1, <2>2, DestroyAllSets DEF CleanupExpiredSessions
  <2>4. ~ Reserved(s)'
    BY <2>2, <2>3 DEF Reserved
  <2> QED
    BY <2>2, <2>3, <2>4 DEF Expired
<1> QED
  BY <1>1, TypeCorrect, PTL DEF SSpec, OnlyExpiredSessionsVanish

=============================================================================
