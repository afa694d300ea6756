--------------------------- MODULE SessionManager ---------------------------
(***************************************************************************)
(* Sessions (src/services/platform.py): the composition of the platform.   *)
(* A session asks the scheduler for room, the pod orchestrator for a pod,  *)
(* and is destroyed by its user or, once expired, by the cleanup loop.     *)
(*                                                                         *)
(* The scheduler is used as an Allocation, which Scheduler.tla implements: *)
(* session pods have priority 50 and are the only requests the platform    *)
(* makes, so no call preempts and schedule() does not suspend.  The pod    *)
(* orchestrator is PodOrchestrator.tla, whose create_pod is awaited: that  *)
(* await and the sleep of deploy_ai_generated_environment are where other  *)
(* calls interleave.                                                       *)
(*                                                                         *)
(* destroy_session never suspends.  It asks the orchestrator for a pod     *)
(* named after the session ("pod-" + session_id), an id create_pod does    *)
(* not draw, and for an environment, and no code records environments.     *)
(***************************************************************************)
EXTENDS PodOrchestrator

CONSTANTS
  Sessions,    \* ids create_session and deploy_ai_generated_environment draw
  AI,          \* those of deploy_ai_generated_environment
  NoRepo,      \* PREVIEW and RUN_REPO sessions asked for without a repo_url
  PodOf,       \* the pod id create_pod draws for a session
  Nodes, Slots \* scheduler nodes and the session pods each has room for

Scheduled == Sessions \ AI

ASSUME SessionConstants ==
  /\ IsFiniteSet(Sessions) /\ IsFiniteSet(Nodes)
  /\ AI \subseteq Sessions /\ NoRepo \subseteq Scheduled
  /\ PodOf \in [Scheduled -> PodIds]
  /\ \A s, t \in Scheduled : PodOf[s] = PodOf[t] => s = t
  /\ \A s \in Scheduled : Kind[PodOf[s]] = "container"
  /\ Sessions \cap PodIds = {}
  /\ Slots \in [Nodes -> Nat]

VARIABLES
  sessions,   \* keys of SessionManager.sessions
  session,    \* the Session objects
  request,    \* where the call that creates a session stands
  holds,      \* the scheduler: session pods each node holds
  granted     \* the scheduler: session pods it ever placed

svars == <<sessions, session, request, holds, granted>>
allvars == <<svars, ovars>>

Sched == INSTANCE Allocation WITH
           NodeObjs <- Nodes, Pods <- Scheduled, Quantities <- {"slots"},
           Capacity <- [o \in Nodes |-> [q \in {"slots"} |-> Slots[o]]],
           Demand <- [q \in {"slots"} |-> [s \in Scheduled |-> 1]]

SInit ==
  /\ OInit
  /\ Sched!AInit
  /\ sessions = {}
  /\ session = [s \in Sessions |->
        [status |-> "creating", pod |-> None, expired |-> FALSE]]
  /\ request = [s \in Sessions |-> "not called"]

---------------------------------------------------------------------------
(***************************************************************************)
(* create_session                                                          *)
(***************************************************************************)
Unschedule(S) == holds' = [o \in Nodes |-> holds[o] \ S]

\* schedule() finds no node, or none it wants: FAILED, and the call raises.
\* The session stays listed.
CreateRefused(s) ==
  /\ s \in Scheduled /\ request[s] = "not called"
  /\ sessions' = sessions \cup {s}
  /\ session' = [session EXCEPT ![s].status = "failed"]
  /\ request' = [request EXCEPT ![s] = "raised"]
  /\ UNCHANGED <<holds, granted, ovars>>

\* schedule() placed the request.  Without a repository the session is in
\* ERROR and the call returns; otherwise create_pod is awaited.
CreateSession(s) ==
  /\ s \in Scheduled /\ request[s] = "not called"
  /\ sessions' = sessions \cup {s}
  /\ \E o \in Nodes : Sched!Grant(o, s, holds)
  /\ \/ /\ s \in NoRepo
        /\ session' = [session EXCEPT ![s].status = "error"]
        /\ request' = [request EXCEPT ![s] = "returned"]
        /\ UNCHANGED ovars
     \/ /\ s \notin NoRepo
        /\ CreatePod(PodOf[s])
        /\ request' = [request EXCEPT ![s] = "creating pod"]
        /\ UNCHANGED session

\* A variant that does not note the pod.
PodArrivesUnnoted(s) ==
  /\ s \in Scheduled /\ request[s] = "creating pod"
  /\ ContainerCreated(PodOf[s])
  /\ session' = [session EXCEPT ![s].status = "running"]
  /\ request' = [request EXCEPT ![s] = "returned"]
  /\ UNCHANGED <<sessions, holds, granted>>

\* create_pod returned: the rest of create_session runs in the same step.
PodArrives(s) ==
  /\ s \in Scheduled /\ request[s] = "creating pod"
  /\ ContainerCreated(PodOf[s])
  /\ session' = [session EXCEPT ![s].status = "running", ![s].pod = PodOf[s]]
  /\ request' = [request EXCEPT ![s] = "returned"]
  /\ UNCHANGED <<sessions, holds, granted>>

\* A variant whose outer handler does not unschedule.
PodRefusedKeepsRoom(s) ==
  /\ s \in Scheduled /\ request[s] = "creating pod"
  /\ ContainerFails(PodOf[s])
  /\ session' = [session EXCEPT ![s].status = "failed"]
  /\ request' = [request EXCEPT ![s] = "raised"]
  /\ UNCHANGED <<sessions, holds, granted>>

\* create_pod raised: ERROR, then FAILED in the outer handler, which gives the
\* reservation back.
PodRefused(s) ==
  /\ s \in Scheduled /\ request[s] = "creating pod"
  /\ ContainerFails(PodOf[s])
  /\ session' = [session EXCEPT ![s].status = "failed"]
  /\ request' = [request EXCEPT ![s] = "raised"]
  /\ Unschedule({s})
  /\ UNCHANGED <<sessions, granted>>

(***************************************************************************)
(* deploy_ai_generated_environment: no request, no pod, one sleep.         *)
(***************************************************************************)
DeployAI(s) ==
  /\ s \in AI /\ request[s] = "not called"
  /\ sessions' = sessions \cup {s}
  /\ request' = [request EXCEPT ![s] = "deploying"]
  /\ UNCHANGED <<session, holds, granted, ovars>>

AIDeployed(s) ==
  /\ request[s] = "deploying"
  /\ session' = [session EXCEPT ![s].status = "running"]
  /\ request' = [request EXCEPT ![s] = "returned"]
  /\ UNCHANGED <<sessions, holds, granted, ovars>>

---------------------------------------------------------------------------
(***************************************************************************)
(* destroy_session and cleanup_expired_sessions.  The pod id that is asked *)
(* for is not listed, so destroy_pod returns at once.                      *)
(***************************************************************************)
DestroyAll(S) ==
  /\ \A s \in S : s \notin pods
  /\ session' = [s \in Sessions |-> IF s \in S THEN [session[s] EXCEPT !.status = "destroyed"]
                                    ELSE session[s]]
  /\ Unschedule(S)

DestroySession(s) ==
  /\ s \in sessions
  /\ DestroyAll({s})
  /\ UNCHANGED <<sessions, request, granted, ovars>>

Expired == {s \in sessions : session[s].expired}

\* The loop of main.py wakes up every 300 seconds.
CleanupExpiredSessions ==
  /\ DestroyAll(Expired)
  /\ sessions' = sessions \ Expired
  /\ UNCHANGED <<request, granted, ovars>>

\* Time passes expires_at.
Expire(s) ==
  /\ s \in sessions
  /\ ~ session[s].expired
  /\ session' = [session EXCEPT ![s].expired = TRUE]
  /\ UNCHANGED <<sessions, request, holds, granted, ovars>>

---------------------------------------------------------------------------
CallStep(s) == PodArrives(s) \/ PodRefused(s) \/ AIDeployed(s)

SNext ==
  \/ \E s \in Sessions :
       \/ CreateRefused(s) \/ CreateSession(s) \/ DeployAI(s)
       \/ CallStep(s)
       \/ DestroySession(s) \/ Expire(s)
  \/ CleanupExpiredSessions

SSpec == SInit /\ [][SNext]_allvars

\* The event loop resumes awaiting calls.
SFairSpec ==
  /\ SSpec
  /\ \A s \in Sessions : WF_allvars(CallStep(s))

---------------------------------------------------------------------------
(***************************************************************************)
(* Properties.                                                             *)
(***************************************************************************)
Statuses == {"creating", "running", "failed", "error", "destroyed"}

SessionStates ==
  [status : Statuses, pod : PodIds \cup {None}, expired : BOOLEAN]

\* The types of the session table, of the sessions and of the calls that make
\* them, and of the scheduler and the orchestrator below.
STypeOK ==
  /\ OTypeOK
  /\ sessions \subseteq Sessions
  /\ session \in [Sessions -> SessionStates]
  /\ request \in [Sessions -> {"not called", "creating pod", "deploying", "returned", "raised"}]
  /\ holds \in [Nodes -> SUBSET Scheduled]
  /\ granted \subseteq Scheduled

Reserved(s) == \E o \in Nodes : s \in holds[o]

\* No room stays reserved for a session that is gone: what the scheduler holds
\* belongs to listed sessions that are neither failed nor destroyed, also when
\* a session is destroyed, or expires, while its pod is still being created.
NoReservationLeaks ==
  \A s \in Scheduled : Reserved(s) =>
     s \in sessions /\ session[s].status \in {"creating", "running", "error"}

\* A session that create_session reports as running has its pod listed and its
\* container up.
RunningSessionsHavePods ==
  \A s \in Scheduled : session[s].status = "running" =>
     session[s].pod \in pods /\ backing[session[s].pod] = "up"

\* A listed pod belongs to the session whose creation returned with it; a
\* creation that raised leaves no listed pod.
PodsHaveOwners ==
  \A p \in pods : \E s \in Scheduled :
     session[s].pod = p /\ request[s] = "returned"

\* A session leaves the table only when it has expired, destroyed, and with
\* its room given back.
OnlyExpiredSessionsVanish ==
  [][\A s \in sessions \ sessions' :
        session[s].expired /\ session'[s].status = "destroyed" /\ ~ Reserved(s)']_allvars

\* Every creation ends, whatever else happens to the session meanwhile.
RequestsEnd ==
  \A s \in Sessions : request[s] \in {"creating pod", "deploying"}
                        ~> request[s] \in {"returned", "raised"}

---------------------------------------------------------------------------
\* "Destroy a session and its resources": no pod of a destroyed session is
\* listed or up.
DestroyFreesResources ==
  \A s \in Scheduled : session[s].status = "destroyed" /\ session[s].pod # None =>
     session[s].pod \notin pods /\ backing[session[s].pod] = "none"
===========================================================================
