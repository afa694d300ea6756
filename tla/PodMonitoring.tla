--------------------------- MODULE PodMonitoring ---------------------------
(***************************************************************************)
(* ResourceMonitor (src/monitoring/monitoring_manager.py), which has one   *)
(* task per pod, and the checks that raise alerts: HealthChecker           *)
(* (src/metrics/metrics.py) and AlertManager (src/metrics/alerting.py).    *)
(*                                                                         *)
(* Stopping a monitor awaits the end of its task and then deletes the      *)
(* pod's entry.  run_checks awaits one check after the other, and an alert *)
(* is known by the second it is raised in and four digits of the hash of   *)
(* its title.  Sending an alert does not suspend.                          *)
(***************************************************************************)
EXTENDS PlatformIds, Integers, Sequences

CONSTANTS
  MaxMonitors,    \* bound on the monitor tasks ever started
  Checks,         \* the registered checks, in the order of registration
  Hash(_, _),     \* hash(title) % 10000 of a check's title of a severity
  MaxTime         \* bound on the clock, in seconds

ASSUME MonitoringConstants ==
  MaxMonitors \in Nat /\ Checks \in Seq(STRING) /\ MaxTime \in Nat /\ None \notin Nat

VARIABLES
  monitors,     \* every task of _monitor_pod_resources: its pod and its state
  monitored,    \* monitoring_tasks
  stopping,     \* the task each call has cancelled and awaits the end of
  doubled,      \* history: pods whose monitor two calls were stopping
  checking,     \* run_checks: how many checks it has done, None if none runs
  results,      \* what the run found: a result per check done
  overall,      \* results["status"]
  alerts,       \* active_alerts: the check and the severity under each id
  now,          \* seconds
  raised        \* history: the alerts the run has raised

monitorVars == <<monitors, monitored, stopping, doubled>>
checkVars == <<checking, results, overall, alerts, now, raised>>
monitoringVars == <<monitorVars, checkVars>>

----------------------------------------------------------------------------
MonitoringInit ==
  /\ monitors = <<>>
  /\ monitored = [p \in Pods |-> None]
  /\ stopping = [k \in Calls |-> None]
  /\ doubled = {}
  /\ checking = None
  /\ results = <<>>
  /\ overall = "healthy"
  /\ alerts = {}
  /\ now = 0
  /\ raised = {}

\* start_monitoring_pod, unless the pod has an entry.
StartMonitoringPod(p) ==
  /\ monitored[p] = None
  /\ Len(monitors) < MaxMonitors
  /\ monitors' = Append(monitors, [pod |-> p, state |-> "running"])
  /\ monitored' = [monitored EXCEPT ![p] = Len(monitors) + 1]
  /\ UNCHANGED <<stopping, doubled, checkVars>>

\* A variant that deletes the entry first and awaits the task afterwards.
ForgetThenStop(k, p) ==
  /\ stopping[k] = None
  /\ monitored[p] # None
  /\ stopping' = [stopping EXCEPT ![k] = monitored[p]]
  /\ monitored' = [monitored EXCEPT ![p] = None]
  /\ UNCHANGED <<monitors, doubled, checkVars>>

\* stop_monitoring_pod, up to its await: a task that has ended can be cancelled
\* and awaited as well.
StopMonitoringPod(k, p) ==
  /\ stopping[k] = None
  /\ monitored[p] # None
  /\ stopping' = [stopping EXCEPT ![k] = monitored[p]]
  /\ monitors' = [monitors EXCEPT ![monitored[p]].state = IF @ = "running" THEN "cancelled" ELSE @]
  /\ doubled' = IF \E j \in Calls : stopping[j] = monitored[p] THEN doubled \cup {p} ELSE doubled
  /\ UNCHANGED <<monitored, checkVars>>

\* asyncio.CancelledError ends the task, in its sleep or in a handler's.
MonitorEnds(m) ==
  /\ monitors[m].state = "cancelled"
  /\ monitors' = [monitors EXCEPT ![m].state = "ended"]
  /\ UNCHANGED <<monitored, stopping, doubled, checkVars>>

\* The await is over and the entry of the pod goes, whatever it is by now; when
\* there is none the KeyError is the caller's.
MonitorStopped(k) ==
  /\ stopping[k] # None
  /\ monitors[stopping[k]].state = "ended"
  /\ monitored' = [monitored EXCEPT ![monitors[stopping[k]].pod] = None]
  /\ stopping' = [stopping EXCEPT ![k] = None]
  /\ UNCHANGED <<monitors, doubled, checkVars>>

----------------------------------------------------------------------------
RunChecks ==
  /\ checking = None
  /\ checking' = 0
  /\ results' = <<>>
  /\ overall' = "healthy"
  /\ raised' = {}
  /\ UNCHANGED <<monitorVars, alerts, now>>

Id(c, severity) == <<now, Hash(c, severity)>>

\* trigger_alert: an alert with the same id is overwritten.
Raise(c, severity) ==
  /\ alerts' = {a \in alerts : a.id # Id(c, severity)}
               \cup {[id |-> Id(c, severity), check |-> c, severity |-> severity]}
  /\ raised' = raised \cup {[check |-> c, severity |-> severity, second |-> now]}

\* A variant that forgets what was wrong before.
StatusAfterLast(result) ==
  CASE result = "healthy" -> "healthy"
    [] result = "raises" -> "unhealthy"
    [] OTHER -> "degraded"

\* The last check that is not healthy decides, if there is one: a check that is
\* merely degraded makes an unhealthy platform "degraded" again.
StatusAfter(result) ==
  CASE result = "healthy" -> overall
    [] result = "raises" -> "unhealthy"
    [] OTHER -> "degraded"

\* The check that is awaited answers or raises, and the run goes on.
CheckDone(result) ==
  /\ checking # None /\ checking < Len(Checks)
  /\ checking' = checking + 1
  /\ results' = Append(results, result)
  /\ overall' = StatusAfter(result)
  /\ CASE result = "healthy" -> UNCHANGED <<alerts, raised>>
       [] result = "raises" -> Raise(Checks[checking + 1], "critical")
       [] OTHER -> Raise(Checks[checking + 1], "warning")
  /\ UNCHANGED <<monitorVars, now>>

ChecksReturned ==
  /\ checking = Len(Checks)
  /\ checking' = None
  /\ UNCHANGED <<monitorVars, results, overall, alerts, now, raised>>

ResolveAlert(a) ==
  /\ alerts' = alerts \ {a}
  /\ raised' = {r \in raised : <<r.second, Hash(r.check, r.severity)>> # a.id}
  /\ UNCHANGED <<monitorVars, checking, results, overall, now>>

ClockTicks ==
  /\ now < MaxTime
  /\ now' = now + 1
  /\ UNCHANGED <<monitorVars, checking, results, overall, alerts, raised>>

MonitorNext ==
  \/ \E p \in Pods : StartMonitoringPod(p) \/ \E k \in Calls : StopMonitoringPod(k, p)
  \/ \E m \in DOMAIN monitors : MonitorEnds(m)
  \/ \E k \in Calls : MonitorStopped(k)

AlertNext ==
  \/ RunChecks \/ ChecksReturned \/ ClockTicks
  \/ \E result \in {"healthy", "degraded", "raises"} : CheckDone(result)
  \/ \E a \in alerts : ResolveAlert(a)

MonitoringSpec == MonitoringInit /\ [][MonitorNext \/ AlertNext]_monitoringVars

----------------------------------------------------------------------------
\* A monitor that runs on can be stopped: it is its pod's entry, although stops
\* delete the entry only after an await, by the pod's id.  The exception is a pod
\* whose monitor two calls were stopping at once: the second to return takes the
\* entry of the monitor that was started in between.
RunningMonitorsAreKnown ==
  \A m \in DOMAIN monitors :
     monitors[m].state = "running" =>
       monitored[monitors[m].pod] = m \/ monitors[m].pod \in doubled

\* A run that ends healthy had healthy checks only, and every check that was not
\* has its alert until that is resolved, or the alert that took its id: one of
\* the same second whose title has the same hash.
TroubleIsTold ==
  /\ checking # None =>
       (overall = "healthy" <=> \A i \in DOMAIN results : results[i] = "healthy")
  /\ \A r \in raised : \E a \in alerts : a.id = <<r.second, Hash(r.check, r.severity)>>
=============================================================================
