SPECIFICATION ServicesSpec
CONSTANTS
  p1 = p1
  p2 = p2
  Pods <- MCPods
  None = None
  Sockets = {w1}
  MaxStreams = 2
  QueueSize = 1
  MetricsKept = 1
  VolumePods = {p1}
  MaxVolumes = 2
  MaxSnapshots = 1
  MaxBackups = 1
  MaxWrites = 1
  db = db
  store = store
  Checkers = {db, store}
  Waiting = {db}
  Loops = {l1, l2}
  Requests = {r1}
  Ways <- MCWays
  Calls = {k1, k2}
  MaxMonitors = 3
  Checks <- MCChecks
  Hash <- MCHash
  MaxTime = 1
  Users = {u1}
  ScaledPods = {p1}
  Kinds = {"cpu", "mem"}
  Amounts <- MCAmounts
  Limits <- MCLimits
  Policies <- MCPolicies
  Loads = {10, 45, 50, 65, 75, 90}
  MaxHeld = 3
  NoQuota = NoQuota
  ImageNames = {n1, n2}
  ImageIds = {x, y}
  MaxChanges = 2
  Environments = {e1, e2}
  Services = 3
  MaxContainers = 4
  Writers = {o1, o2}
  Readers = {q1}
  PoolSize = 3
  Emails = {a}
  MaxRows = 3
  MaxCalls = 4
  Failing = {o1}
  Keys = {k}
  Ttls = {1, 2}
  MaxMinute = 3
  Twins = {1, 2}
  Ids = {"a", "b", "c"}
  Files = {"f", "g"}
  FileOf <- MCFileOf
  Values = {v1, v2}
  MaxRestarts = 2
  x1 = x1
  c1 = c1
  hits = hits
  SessionKeys = {x1}
  Cached = {c1}
  Counter = hits
  Data = {v1}
  FlushedAs <- MCFlushedAs
  MaxCommands = 3
  Accounts = {a}
  FailuresAllowed = 2
  LockoutTime = 2
  MaxInstant = 4
  MaxWrong = 4
  TerminalSessions = {s1}
  Descriptors = {5, 6}
  MaxTerminals = 3
  Routed = {"a", "b"}
  Subdomain <- MCSubdomain
  Domains = {d1, d2}
  TargetPorts = {80, 81}
  Unrouted = Unrouted
CHECK_DEADLOCK FALSE
INVARIANTS StreamsCanBeStopped RunningMonitorsAreKnown TroubleIsTold GrantsWithinQuota PullsDeliver
  ContainersAreAccounted TrailEndsWithStatus RetrievedAsStored
  AnswersHold LoginsAreLimited OthersLoseLittle FilesNameRoutes
PROPERTIES MetricsFollowStreams QuietSnapshotsRestore BackupsSettle ReportsSettle ScalingFollowsLoad
  WritersEnd CredentialsLastTheirTime
