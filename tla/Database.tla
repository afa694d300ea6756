------------------------------ MODULE Database ------------------------------
(***************************************************************************)
(* The PostgreSQL store (src/database/db.py) with the schema of            *)
(* src/database/models.py.                                                 *)
(*                                                                         *)
(* Every operation takes a connection of the pool and executes one         *)
(* statement, which is committed at once.  Those that change a session, a  *)
(* pod or a snapshot then call log_event, which takes a connection of its  *)
(* own while the operation keeps the first.  Those that only read hold a   *)
(* connection until they have their rows.  The MockPool and the parents of *)
(* snapshots are not modelled.                                             *)
(***************************************************************************)
EXTENDS PlatformIds, Integers, Sequences, FiniteSets

CONSTANTS
  Writers,       \* operations in flight that change something
  Readers,       \* operations in flight that only read
  PoolSize,      \* max_pool_size
  Emails,
  MaxRows,       \* bound on the rows of sessions, pods and snapshots ever inserted
  MaxCalls,      \* bound on the operations on them
  Failing        \* the operations whose INSERT of an event may raise

ASSUME DatabaseConstants ==
  PoolSize \in Nat \ {0} /\ MaxRows \in Nat /\ MaxCalls \in Nat /\ Failing \subseteq Writers

VARIABLES
  users,        \* the emails in table users
  rows,         \* the rows of the other tables: the table, the row or user it
                \* refers to and the status
  inUse,        \* connections that are not in the pool
  reading,      \* the readers that have a connection
  logging,      \* per operation under way the events it has yet to log
  trail,        \* events: the last one of each row
  calls,        \* operations so far
  untold        \* history: rows whose events raised, or of two operations at once

databaseVars == <<users, rows, inUse, reading, logging, trail, calls, untold>>

----------------------------------------------------------------------------
Rows == DOMAIN rows

In(table) == {r \in Rows : rows[r].table = table /\ rows[r].status # "deleted"}

DatabaseInit ==
  /\ users = {}
  /\ rows = <<>>
  /\ inUse = 0
  /\ reading = {}
  /\ logging = [w \in Writers |-> <<>>]
  /\ trail = <<>>
  /\ calls = 0
  /\ untold = {}

\* An operation under way has an event of row r to log.
AboutToLog(r) == \E w \in Writers : \E i \in DOMAIN logging[w] : logging[w][i].row = r

\* w has a connection, its statement is done, and it has events to log.
Executed(w, log) ==
  /\ logging[w] = <<>>
  /\ inUse < PoolSize
  /\ calls < MaxCalls
  /\ calls' = calls + 1
  /\ logging' = [logging EXCEPT ![w] = log]
  /\ inUse' = inUse + 1
  /\ untold' = untold \cup {r \in Rows : AboutToLog(r) /\ \E i \in DOMAIN log : log[i].row = r}

\* create_user; an email that is there raises.
CreateUser(w, email) ==
  /\ logging[w] = <<>> /\ inUse < PoolSize
  /\ users' = users \cup {email}
  /\ UNCHANGED <<rows, inUse, reading, logging, trail, calls, untold>>

Event(r, event) == [row |-> r, event |-> event]

Insert(w, table, of, status) ==
  /\ Len(rows) < MaxRows
  /\ rows' = Append(rows, [table |-> table, of |-> of, status |-> status])
  /\ trail' = Append(trail, "none")
  /\ Executed(w, <<Event(Len(rows) + 1, status)>>)
  /\ UNCHANGED <<users, reading>>

CreateSessionRow(w, email) == email \in users /\ Insert(w, "sessions", email, "creating")

CreatePodRow(w, s) == s \in In("sessions") /\ Insert(w, "pods", s, "pending")

CreateSnapshotRow(w, p) == p \in In("pods") /\ Insert(w, "snapshots", p, "stored")

\* There need not be such a row (any more): that is logged all the same.
SetStatus(w, r, status) ==
  /\ rows' = IF rows[r].status = "deleted" THEN rows ELSE [rows EXCEPT ![r].status = status]
  /\ Executed(w, <<Event(r, status)>>)
  /\ UNCHANGED <<users, reading, trail>>

UpdateSessionStatus(w, r) == rows[r].table = "sessions" /\ SetStatus(w, r, "running")

\* update_pod_status, or destroy_pod.
UpdatePodStatus(w, r) == rows[r].table = "pods" /\ SetStatus(w, r, "destroyed")

\* ON DELETE CASCADE, from sessions to pods to snapshots.
Cascade(r) ==
  LET below(S) == {q \in Rows : rows[q].table # "sessions" /\ rows[q].of \in S} IN
  {r} \cup below({r}) \cup below(below({r}))

\* Logged whether or not there was a row.
Deleted(w, r) ==
  /\ rows' = [q \in Rows |-> IF q \in Cascade(r) THEN [rows[q] EXCEPT !.status = "deleted"] ELSE rows[q]]
  /\ Executed(w, <<Event(r, "deleted")>>)
  /\ UNCHANGED <<users, reading, trail>>

DeleteSessionRow(w, r) == rows[r].table = "sessions" /\ Deleted(w, r)

DeleteSnapshotRow(w, r) == rows[r].table = "snapshots" /\ Deleted(w, r)

\* cleanup_expired_sessions: one statement, and then an event for each.
CleanupExpiredRows(w, expired) ==
  /\ expired \subseteq {s \in In("sessions") : rows[s].status \in {"creating", "running"}}
  /\ expired # {}
  /\ rows' = [r \in Rows |-> IF r \in expired THEN [rows[r] EXCEPT !.status = "destroyed"] ELSE rows[r]]
  /\ \E log \in [1..Cardinality(expired) -> {Event(s, "destroyed") : s \in expired}] :
       /\ {log[i].row : i \in DOMAIN log} = expired
       /\ Executed(w, log)
  /\ UNCHANGED <<users, reading, trail>>

----------------------------------------------------------------------------
\* The operation is over with its last event, and gives its connection back.
Logged(w) ==
  /\ logging' = [logging EXCEPT ![w] = Tail(@)]
  /\ inUse' = IF Len(logging[w]) = 1 THEN inUse - 1 ELSE inUse

\* A variant that logs the first of several events.
LogEventOnce(w) ==
  /\ logging[w] # <<>>
  /\ inUse < PoolSize
  /\ trail' = [trail EXCEPT ![Head(logging[w]).row] = Head(logging[w]).event]
  /\ logging' = [logging EXCEPT ![w] = <<>>]
  /\ inUse' = inUse - 1
  /\ UNCHANGED <<users, rows, reading, calls, untold>>

\* log_event, which needs a second connection for as long as it takes.
LogEvent(w) ==
  /\ logging[w] # <<>>
  /\ inUse < PoolSize
  /\ trail' = [trail EXCEPT ![Head(logging[w]).row] = Head(logging[w]).event]
  /\ Logged(w)
  /\ UNCHANGED <<users, rows, reading, calls, untold>>

\* A variant in which the exception keeps the operation's connection.
LogRaisesAndKeeps(w) ==
  /\ w \in Failing
  /\ logging[w] # <<>>
  /\ inUse < PoolSize
  /\ logging' = [logging EXCEPT ![w] = <<>>]
  /\ untold' = untold \cup {logging[w][i].row : i \in DOMAIN logging[w]}
  /\ UNCHANGED <<users, rows, inUse, reading, trail, calls>>

\* The exception ends the operation, although its statement is committed, and
\* the events that were to follow are not logged.
LogRaises(w) ==
  /\ w \in Failing
  /\ logging[w] # <<>>
  /\ inUse < PoolSize
  /\ logging' = [logging EXCEPT ![w] = <<>>]
  /\ inUse' = inUse - 1
  /\ untold' = untold \cup {logging[w][i].row : i \in DOMAIN logging[w]}
  /\ UNCHANGED <<users, rows, reading, trail, calls>>

\* A reading operation, list_user_sessions say, has a connection ...
Read(q) ==
  /\ q \notin reading
  /\ inUse < PoolSize
  /\ reading' = reading \cup {q}
  /\ inUse' = inUse + 1
  /\ UNCHANGED <<users, rows, logging, trail, calls, untold>>

\* ... and has its rows, get_entity_events say.
ReadReturns(q) ==
  /\ q \in reading
  /\ reading' = reading \ {q}
  /\ inUse' = inUse - 1
  /\ UNCHANGED <<users, rows, logging, trail, calls, untold>>

DatabaseNext ==
  \/ \E w \in Writers :
       \/ LogEvent(w) \/ LogRaises(w)
       \/ \E email \in Emails : CreateUser(w, email) \/ CreateSessionRow(w, email)
       \/ \E r \in Rows :
            \/ CreatePodRow(w, r) \/ CreateSnapshotRow(w, r)
            \/ UpdateSessionStatus(w, r) \/ UpdatePodStatus(w, r)
            \/ DeleteSessionRow(w, r) \/ DeleteSnapshotRow(w, r)
       \/ \E expired \in SUBSET Rows : CleanupExpiredRows(w, expired)
  \/ \E q \in Readers : Read(q) \/ ReadReturns(q)

DatabaseSpec == DatabaseInit /\ [][DatabaseNext]_databaseVars

\* Statements return, and who waits for a connection is served in turn.
DatabaseFairness ==
  /\ \A w \in Writers : SF_databaseVars(LogEvent(w) \/ LogRaises(w))
  /\ \A q \in Readers : WF_databaseVars(ReadReturns(q))

----------------------------------------------------------------------------
\* While fewer operations that log are in flight than the pool has connections,
\* all of them end, also when events raise and when readers take what is left of
\* the pool.  (As many as the pool has connections wait for each other.)
WritersEnd == \A w \in Writers : logging[w] # <<>> ~> logging[w] = <<>>

\* The audit trail ends with a row's status once its operations are over, except
\* when its event raised or two operations on it overlapped: then the events may
\* be in the opposite order of the statements.  (Rows that are deleted by the
\* cascade have no event, and a status set afterwards follows "deleted".)
TrailEndsWithStatus ==
  \A r \in Rows : rows[r].status # "deleted" => trail[r] = rows[r].status \/ r \in untold \/ AboutToLog(r)

\* What is deleted is logged.
DeletionsAreLogged ==
  \A r \in 1..MaxRows :
    (\E w \in Writers : \E i \in DOMAIN logging[w] : logging[w][i] = Event(r, "deleted"))
      ~> r \in DOMAIN trail /\ trail[r] = "deleted"
=============================================================================
