--------------------------- MODULE HealthReports ---------------------------
(***************************************************************************)
(* HealthChecker of src/services/health.py: check_all runs the dependency  *)
(* checkers at once and stores a report when all have a result.  It is     *)
(* called by the background loop and by health requests, which overlap:    *)
(* the report of one may replace the newer report of the other.            *)
(*                                                                         *)
(* The docker, storage, api and network checkers do not suspend; those of  *)
(* database and redis wait for an answer, at most timeout_seconds.  No     *)
(* code reads a checker's last_status and consecutive_failures.            *)
(***************************************************************************)
EXTENDS PlatformIds, Integers

CONSTANTS
  Checkers,
  Waiting,      \* the checkers that wait for an answer
  Loops,        \* background tasks ever started
  Requests,     \* health requests in flight
  Ways(_)       \* external: the ways a dependency may be, "hangs" if it may not answer

ASSUME HealthConstants == Waiting \subseteq Checkers /\ Loops \cap Requests = {}

VARIABLES
  dependency,   \* external: how each dependency is
  run,          \* the results of each check_all under way, None of the others
  loop,         \* the background tasks: "new", "on" or "off"
  background,   \* _background_task
  report        \* _last_report: the overall status, None before the first

healthVars == <<dependency, run, loop, background, report>>

----------------------------------------------------------------------------
Runs == Loops \cup Requests

\* check_all, the overall status of a set of results.
Overall(S) ==
  IF "unhealthy" \in S THEN "unhealthy"
  ELSE IF "degraded" \in S THEN "degraded"
  ELSE IF "unknown" \in S THEN "unknown" ELSE "healthy"

\* A checker's exceptions and time-outs count as "unhealthy".
StatusOf(c) == IF dependency[c] = "hangs" THEN "unhealthy" ELSE dependency[c]

HealthInit ==
  /\ dependency = [c \in Checkers |-> "healthy"]
  /\ run = [r \in Runs |-> None]
  /\ loop = [l \in Loops |-> "new"]
  /\ background = None
  /\ report = None

\* What the docker, storage, api and network checkers find at once.
Probed(c) == StatusOf(c)

\* check_all begins: the checkers that do not wait have their result.
BeginChecks(r) ==
  run' = [run EXCEPT ![r] = [c \in Checkers |-> IF c \in Waiting THEN "pending" ELSE Probed(c)]]

StartBackgroundChecks(l) ==
  /\ loop[l] = "new"
  /\ loop' = [loop EXCEPT ![l] = "on"]
  /\ background' = l
  /\ BeginChecks(l)
  /\ UNCHANGED <<dependency, report>>

\* The last task started is cancelled, with the checks it waits for.
StopBackgroundChecks ==
  /\ background # None
  /\ loop' = [loop EXCEPT ![background] = "off"]
  /\ run' = [run EXCEPT ![background] = None]
  /\ UNCHANGED <<dependency, background, report>>

\* The sleep of a background task is over, or a health request comes in.
Check(r) ==
  /\ run[r] = None
  /\ r \in Loops => loop[r] = "on"
  /\ BeginChecks(r)
  /\ UNCHANGED <<dependency, loop, background, report>>

Pending(r, c) == run[r] # None /\ run[r][c] = "pending"

Answer(r, c) ==
  /\ Pending(r, c)
  /\ dependency[c] # "hangs"
  /\ run' = [run EXCEPT ![r][c] = dependency[c]]
  /\ UNCHANGED <<dependency, loop, background, report>>

\* asyncio.TimeoutError
Timeout(r, c) ==
  /\ Pending(r, c)
  /\ dependency[c] = "hangs"
  /\ run' = [run EXCEPT ![r][c] = "unhealthy"]
  /\ UNCHANGED <<dependency, loop, background, report>>

\* A variant that keeps the first report.
ReportOnce(r) ==
  /\ run[r] # None /\ \A c \in Checkers : run[r][c] # "pending"
  /\ report' = IF report = None THEN Overall({run[r][c] : c \in Checkers}) ELSE report
  /\ run' = [run EXCEPT ![r] = None]
  /\ UNCHANGED <<dependency, loop, background>>

\* gather is over.
Report(r) ==
  /\ run[r] # None /\ \A c \in Checkers : run[r][c] # "pending"
  /\ report' = Overall({run[r][c] : c \in Checkers})
  /\ run' = [run EXCEPT ![r] = None]
  /\ UNCHANGED <<dependency, loop, background>>

\* External.
DependencyChanges(c) ==
  /\ \E s \in Ways(c) : dependency' = [dependency EXCEPT ![c] = s]
  /\ UNCHANGED <<run, loop, background, report>>

CheckStep(r) == (\E c \in Waiting : Answer(r, c) \/ Timeout(r, c)) \/ Report(r)

HealthNext ==
  \/ \E l \in Loops : StartBackgroundChecks(l)
  \/ StopBackgroundChecks
  \/ \E r \in Runs : Check(r) \/ CheckStep(r)
  \/ \E c \in Checkers : DependencyChanges(c)

\* Every check ends within its time-out, and the loop wakes from its sleep.
HealthFairness ==
  /\ \A r \in Runs : WF_healthVars(CheckStep(r))
  /\ \A l \in Loops : WF_healthVars(Check(l))

----------------------------------------------------------------------------
\* Once the dependencies stay as they are and the background loop stays on, the
\* report becomes and stays what they are: a slow request that overwrites a newer
\* report, a dependency that hangs and a task that was started twice do no
\* lasting harm.
ReportsSettle ==
  <>[][FALSE]_dependency /\ <>[](background # None /\ loop[background] = "on")
    => <>[](report = Overall({StatusOf(c) : c \in Checkers}))
=============================================================================
