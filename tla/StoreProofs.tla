---------------------------- MODULE StoreProofs -----------------------------
(***************************************************************************)
(* Proofs about what is stored: the rows of the database and their trail   *)
(* of events, the keys of the Redis session store, and volumes with their  *)
(* snapshots and backups, for any callers, keys, values and numbers of     *)
(* rows and volumes.                                                       *)
(*                                                                         *)
(* The trail: a row has at most one event still to be logged, and that is  *)
(* its status. The Redis store: a command that was sent may be executed    *)
(* once, twice or never, so the invariant says of every key what may still *)
(* be written to it and who is alone with it, and of the counter that      *)
(* every increment that was begun leaves room for being sent twice.        *)
(* Storage: the volume of a snapshot that nobody disturbed holds what the  *)
(* snapshot took.                                                          *)
(***************************************************************************)
EXTENDS Database, RedisStore, Storage, SequenceTheorems, FiniteSetTheorems, TLAPS

-----------------------------------------------------------------------------
(***************************************************************************)
(* The database.                                                           *)
(***************************************************************************)
Statuses == {"creating", "running", "pending", "destroyed", "stored", "deleted"}

RowRecords == [table : {"sessions", "pods", "snapshots"}, of : Emails \cup Nat, status : Statuses]

EventRecords == [row : Nat, event : Statuses]

DatabaseTypeOK ==
  /\ rows \in Seq(RowRecords)
  /\ trail \in Seq(Statuses \cup {"none"}) /\ Len(trail) = Len(rows)
  /\ logging \in [Writers -> Seq(EventRecords)]
  /\ \A w \in Writers : \A i \in DOMAIN logging[w] : logging[w][i].row \in Rows

\* A row that is not an exception has one event to be logged at most, and that is
\* the status it has.
PendingIsStatus ==
  \A w \in Writers : \A i \in DOMAIN logging[w] :
    logging[w][i].row \notin untold =>
      /\ rows[logging[w][i].row].status \in {"deleted", logging[w][i].event}
      /\ \A v \in Writers : \A j \in DOMAIN logging[v] :
           logging[v][j].row = logging[w][i].row => v = w /\ j = i

DatabaseInv == DatabaseTypeOK /\ PendingIsStatus /\ TrailEndsWithStatus

----------------------------------------------------------------------------
\* The rows are numbered from one, and each has its place in the trail.
LEMMA RowNumbers ==
  ASSUME DatabaseTypeOK
  PROVE  /\ Len(rows) \in Nat /\ Rows = 1..Len(rows) /\ DOMAIN trail = Rows
         /\ \A r \in Rows : rows[r] \in RowRecords /\ r \in Nat
<1>1. /\ rows \in Seq(RowRecords)
      /\ trail \in Seq(Statuses \cup {"none"}) /\ Len(trail) = Len(rows)
  BY DEF DatabaseTypeOK
<1>2. /\ Len(rows) \in Nat /\ DOMAIN rows = 1..Len(rows) /\ rows \in [1..Len(rows) -> RowRecords]
      /\ DOMAIN trail = 1..Len(trail)
  BY <1>1, LenProperties
<1> QED
  BY <1>1, <1>2 DEF Rows

\* A function on the numbers of a sequence is a sequence as long.
LEMMA RowsInSequence ==
  ASSUME NEW S, NEW n \in Nat, NEW f \in [1..n -> S]
  PROVE  f \in Seq(S) /\ Len(f) = n
<1>1. f \in Seq(S)
  BY SeqDef
<1>2. DOMAIN f = 1..Len(f) /\ Len(f) \in Nat /\ DOMAIN f = 1..n
  BY <1>1, LenProperties
<1> QED
  BY <1>1, <1>2

\* The tables are empty at first.
LEMMA DatabaseInitial == DatabaseInit => DatabaseInv
<1> SUFFICES ASSUME DatabaseInit PROVE DatabaseInv
  OBVIOUS
<1>1. /\ rows \in Seq(RowRecords) /\ Len(rows) = 0
      /\ trail \in Seq(Statuses \cup {"none"}) /\ Len(trail) = 0
      /\ <<>> \in Seq(EventRecords) /\ DOMAIN <<>> = {}
  BY EmptySeq DEF DatabaseInit
<1>2. Rows = {}
  BY <1>1, LenProperties DEF Rows
<1>3. logging \in [Writers -> Seq(EventRecords)] /\ \A w \in Writers : DOMAIN logging[w] = {}
  BY <1>1 DEF DatabaseInit
<1> QED
  BY <1>1, <1>2, <1>3 DEF DatabaseInv, DatabaseTypeOK, PendingIsStatus, TrailEndsWithStatus

\* An operation whose statement changes rows has an event for each of them that is
\* not deleted then; an earlier event that is still to be logged makes the row an
\* exception.
LEMMA StatementKeeps ==
  ASSUME DatabaseInv, NEW w \in Writers, NEW log \in Seq(EventRecords), Executed(w, log),
         rows' \in Seq(RowRecords), Rows \subseteq Rows',
         trail' \in Seq(Statuses \cup {"none"}), Len(trail') = Len(rows'),
         \A r \in Rows : trail'[r] = trail[r],
         \A i \in DOMAIN log : log[i].row \in Rows' /\ rows'[log[i].row].status \in {"deleted", log[i].event},
         \A i, j \in DOMAIN log : log[i].row = log[j].row => i = j,
         \A r \in Rows' : \/ \E i \in DOMAIN log : log[i].row = r
                          \/ r \in Rows /\ rows'[r].status \in {rows[r].status, "deleted"}
  PROVE  DatabaseInv'
<1>1. /\ logging[w] = <<>> /\ logging' = [logging EXCEPT ![w] = log]
      /\ untold' = untold \cup {r \in Rows : AboutToLog(r) /\ \E i \in DOMAIN log : log[i].row = r}
  BY DEF Executed
<1>2. /\ logging \in [Writers -> Seq(EventRecords)]
      /\ \A v \in Writers : \A i \in DOMAIN logging[v] : logging[v][i].row \in Rows
  BY DEF DatabaseInv, DatabaseTypeOK
<1>3. logging'[w] = log /\ \A v \in Writers \ {w} : logging'[v] = logging[v]
  BY <1>1, <1>2
<1>4. DatabaseTypeOK'
  BY <1>1, <1>2, <1>3 DEF DatabaseTypeOK
<1>5. ASSUME NEW v \in Writers \ {w}, NEW i \in DOMAIN logging[v], NEW j \in DOMAIN log,
             log[j].row = logging[v][i].row
      PROVE  log[j].row \in untold'
  BY <1>1, <1>2, <1>5 DEF AboutToLog
<1>6. ASSUME NEW v \in Writers, NEW i \in DOMAIN logging'[v], logging'[v][i].row \notin untold'
      PROVE  /\ rows'[logging'[v][i].row].status \in {"deleted", logging'[v][i].event}
             /\ \A u \in Writers : \A j \in DOMAIN logging'[u] :
                  logging'[u][j].row = logging'[v][i].row => u = v /\ j = i
  <2>1. CASE v = w
    BY <1>3, <1>5, <1>6, <2>1
  <2>2. CASE v # w
    <3> DEFINE r == logging[v][i].row
    <3>1. logging'[v] = logging[v] /\ i \in DOMAIN logging[v] /\ r \in Rows /\ r \notin untold
      BY <1>1, <1>2, <1>3, <1>6, <2>2
    <3>2. \A j \in DOMAIN log : log[j].row # r
      BY <1>3, <1>5, <1>6, <2>2
    <3>3. /\ rows[r].status \in {"deleted", logging[v][i].event}
          /\ \A u \in Writers : \A j \in DOMAIN logging[u] : logging[u][j].row = r => u = v /\ j = i
      BY <3>1 DEF DatabaseInv, PendingIsStatus
    <3>4. rows'[r].status \in {rows[r].status, "deleted"}
      BY <3>1, <3>2
    <3> HIDE DEF r
    <3>5. logging'[v][i].row = r /\ logging'[v][i].event = logging[v][i].event
      BY <3>1 DEF r
    <3>6. ASSUME NEW u \in Writers, NEW j \in DOMAIN logging'[u], logging'[u][j].row = r
          PROVE  u = v /\ j = i
      BY <1>3, <3>2, <3>3, <3>6
    <3> QED
      BY <3>3, <3>4, <3>5, <3>6
  <2> QED
    BY <2>1, <2>2
<1>7. ASSUME NEW r \in Rows', rows'[r].status # "deleted"
      PROVE  \/ trail'[r] = rows'[r].status \/ r \in untold'
             \/ \E v \in Writers : \E i \in DOMAIN logging'[v] : logging'[v][i].row = r
  <2>1. CASE \E i \in DOMAIN log : log[i].row = r
    BY <1>3, <2>1
  <2>2. CASE r \in Rows /\ rows'[r].status \in {rows[r].status, "deleted"}
    <3>1. rows[r].status # "deleted" /\ rows'[r].status = rows[r].status /\ trail'[r] = trail[r]
      BY <1>7, <2>2
    <3>2. trail[r] = rows[r].status \/ r \in untold \/ AboutToLog(r)
      BY <2>2, <3>1 DEF DatabaseInv, TrailEndsWithStatus
    <3>3. ASSUME AboutToLog(r)
          PROVE  \E v \in Writers : \E i \in DOMAIN logging'[v] : logging'[v][i].row = r
      <4>1. PICK v \in Writers : \E i \in DOMAIN logging[v] : logging[v][i].row = r
        BY <3>3 DEF AboutToLog
      <4>2. v # w
        BY <1>1, <4>1, EmptySeq
      <4> QED
        BY <1>3, <4>1, <4>2
    <3> QED
      BY <1>1, <3>1, <3>2, <3>3
  <2> QED
    BY <2>1, <2>2
<1> QED
  BY <1>4, <1>6, <1>7 DEF DatabaseInv, PendingIsStatus, TrailEndsWithStatus, AboutToLog

\* An operation with one event has it as its log.
LEMMA OneEvent ==
  ASSUME NEW r \in Nat, NEW event \in Statuses
  PROVE  /\ <<Event(r, event)>> \in Seq(EventRecords)
         /\ DOMAIN <<Event(r, event)>> = {1}
         /\ <<Event(r, event)>>[1].row = r /\ <<Event(r, event)>>[1].event = event
BY DEF Event, EventRecords

\* A row that is inserted has its event yet to be logged.
LEMMA InsertKeeps ==
  ASSUME DatabaseInv, NEW w \in Writers, NEW table \in {"sessions", "pods", "snapshots"},
         NEW of \in Emails \cup Nat, NEW status \in Statuses, Insert(w, table, of, status)
  PROVE  DatabaseInv'
<1> DEFINE n == Len(rows) + 1
           record == [table |-> table, of |-> of, status |-> status]
           log == <<Event(n, status)>>
<1>1. rows' = Append(rows, record) /\ trail' = Append(trail, "none") /\ Executed(w, log)
  BY DEF Insert
<1>2. /\ rows \in Seq(RowRecords) /\ Len(rows) \in Nat /\ Rows = 1..Len(rows)
      /\ trail \in Seq(Statuses \cup {"none"}) /\ Len(trail) = Len(rows)
  BY RowNumbers DEF DatabaseInv, DatabaseTypeOK
<1>3. record \in RowRecords /\ record.status = status
  BY DEF RowRecords
<1> HIDE DEF record
<1>4. /\ rows' \in Seq(RowRecords) /\ Len(rows') = n
      /\ \A r \in 1..Len(rows) : rows'[r] = rows[r]
      /\ rows'[n] = record
  BY <1>1, <1>2, <1>3, AppendProperties
<1>5. /\ trail' \in Seq(Statuses \cup {"none"}) /\ Len(trail') = n
      /\ \A r \in 1..Len(rows) : trail'[r] = trail[r]
  BY <1>1, <1>2, AppendProperties
<1>6. Rows' = 1..n
  BY <1>4, LenProperties DEF Rows
<1>7. n \in Nat /\ Rows' = Rows \cup {n}
  BY <1>2, <1>6
<1>8. log \in Seq(EventRecords) /\ DOMAIN log = {1} /\ log[1].row = n /\ log[1].event = status
  BY <1>7, OneEvent
<1> HIDE DEF n, log
<1>9. \A r \in Rows : rows'[r] = rows[r] /\ trail'[r] = trail[r]
  BY <1>2, <1>4, <1>5
<1>10. \A i \in DOMAIN log : log[i].row \in Rows' /\ rows'[log[i].row].status \in {"deleted", log[i].event}
  BY <1>3, <1>4, <1>7, <1>8
<1>11. \A i, j \in DOMAIN log : log[i].row = log[j].row => i = j
  BY <1>8
<1>12. \A r \in Rows' : \/ \E i \in DOMAIN log : log[i].row = r
                        \/ r \in Rows /\ rows'[r].status \in {rows[r].status, "deleted"}
  BY <1>7, <1>8, <1>9
<1>13. Executed(w, log) /\ Rows \subseteq Rows' /\ Len(trail') = Len(rows')
  BY <1>1, <1>4, <1>5, <1>7
<1>14. \A r \in Rows : trail'[r] = trail[r]
  BY <1>9
<1>15. log \in Seq(EventRecords) /\ rows' \in Seq(RowRecords) /\ trail' \in Seq(Statuses \cup {"none"})
  BY <1>4, <1>5, <1>8
<1> QED
  BY <1>10, <1>11, <1>12, <1>13, <1>14, <1>15, StatementKeeps

\* So has a row whose status is set, unless it is deleted.
LEMMA StatusKeeps ==
  ASSUME DatabaseInv, NEW w \in Writers, NEW r \in Rows, NEW status \in Statuses, SetStatus(w, r, status)
  PROVE  DatabaseInv'
<1> DEFINE log == <<Event(r, status)>>
           record == [rows[r] EXCEPT !.status = status]
<1>1. /\ rows' = IF rows[r].status = "deleted" THEN rows ELSE [rows EXCEPT ![r] = record]
      /\ Executed(w, log) /\ trail' = trail
  BY DEF SetStatus
<1>2. /\ rows \in Seq(RowRecords) /\ Rows = 1..Len(rows) /\ Rows = DOMAIN rows
      /\ trail \in Seq(Statuses \cup {"none"}) /\ Len(trail) = Len(rows)
      /\ rows[r] \in RowRecords /\ r \in Nat
  BY RowNumbers DEF DatabaseInv, DatabaseTypeOK, Rows
<1>3. record \in RowRecords /\ record.status = status
  BY <1>2 DEF RowRecords
<1> HIDE DEF record
<1>4. log \in Seq(EventRecords) /\ DOMAIN log = {1} /\ log[1].row = r /\ log[1].event = status
  BY <1>2, OneEvent
<1> HIDE DEF log
<1>5. /\ rows' \in Seq(RowRecords) /\ Len(rows') = Len(rows) /\ Rows' = Rows
      /\ \A q \in Rows \ {r} : rows'[q] = rows[q]
      /\ rows'[r].status \in {"deleted", status}
  <2>1. CASE rows[r].status = "deleted"
    BY <1>1, <1>2, <2>1 DEF Rows
  <2>2. CASE rows[r].status # "deleted"
    <3>1. rows' = [rows EXCEPT ![r] = record]
      BY <1>1, <2>2
    <3>2. /\ rows' \in Seq(RowRecords) /\ Len(rows') = Len(rows) /\ DOMAIN rows' = DOMAIN rows
      BY <1>2, <1>3, <3>1, ExceptSeq
    <3> QED
      BY <1>2, <1>3, <3>1, <3>2 DEF Rows
  <2> QED
    BY <2>1, <2>2
<1>6. \A i \in DOMAIN log : log[i].row \in Rows' /\ rows'[log[i].row].status \in {"deleted", log[i].event}
  BY <1>4, <1>5
<1>7. \A i, j \in DOMAIN log : log[i].row = log[j].row => i = j
  BY <1>4
<1>8. \A q \in Rows' : \/ \E i \in DOMAIN log : log[i].row = q
                       \/ q \in Rows /\ rows'[q].status \in {rows[q].status, "deleted"}
  BY <1>4, <1>5
<1> QED
  BY <1>1, <1>2, <1>4, <1>5, <1>6, <1>7, <1>8, StatementKeeps

\* Of some rows the status is set by one statement.
LEMMA ManyRowsChange ==
  ASSUME DatabaseTypeOK, NEW S, NEW status \in Statuses,
         rows' = [q \in Rows |-> IF q \in S THEN [rows[q] EXCEPT !.status = status] ELSE rows[q]]
  PROVE  /\ rows' \in Seq(RowRecords) /\ Len(rows') = Len(rows) /\ Rows' = Rows
         /\ \A q \in Rows : rows'[q].status = IF q \in S THEN status ELSE rows[q].status
<1>1. /\ Len(rows) \in Nat /\ Rows = 1..Len(rows)
      /\ \A r \in Rows : rows[r] \in RowRecords
  BY RowNumbers
<1>2. \A r \in Rows : /\ [rows[r] EXCEPT !.status = status] \in RowRecords
                     /\ [rows[r] EXCEPT !.status = status].status = status
  BY <1>1 DEF RowRecords
<1>3. rows' \in [1..Len(rows) -> RowRecords]
  BY <1>1, <1>2
<1>4. rows' \in Seq(RowRecords) /\ Len(rows') = Len(rows)
  BY <1>1, <1>3, RowsInSequence
<1> QED
  BY <1>1, <1>2, <1>4 DEF Rows

\* What is deleted below a row has no event, and needs none.
LEMMA DeletedKeeps ==
  ASSUME DatabaseInv, NEW w \in Writers, NEW r \in Rows, Deleted(w, r)
  PROVE  DatabaseInv'
<1> DEFINE log == <<Event(r, "deleted")>>
<1>1. /\ rows' = [q \in Rows |-> IF q \in Cascade(r) THEN [rows[q] EXCEPT !.status = "deleted"] ELSE rows[q]]
      /\ Executed(w, log) /\ trail' = trail
  BY DEF Deleted
<1>2. /\ "deleted" \in Statuses /\ r \in Nat /\ DatabaseTypeOK /\ r \in Cascade(r)
      /\ trail \in Seq(Statuses \cup {"none"}) /\ Len(trail) = Len(rows)
  BY RowNumbers DEF Statuses, DatabaseInv, DatabaseTypeOK, Cascade
<1>3. /\ rows' \in Seq(RowRecords) /\ Len(rows') = Len(rows) /\ Rows' = Rows
      /\ \A q \in Rows : rows'[q].status = IF q \in Cascade(r) THEN "deleted" ELSE rows[q].status
  BY <1>1, <1>2, ManyRowsChange
<1>4. log \in Seq(EventRecords) /\ DOMAIN log = {1} /\ log[1].row = r /\ log[1].event = "deleted"
  BY <1>2, OneEvent
<1> HIDE DEF log
<1>5. \A i \in DOMAIN log : log[i].row \in Rows' /\ rows'[log[i].row].status \in {"deleted", log[i].event}
  BY <1>2, <1>3, <1>4
<1>6. \A i, j \in DOMAIN log : log[i].row = log[j].row => i = j
  BY <1>4
<1>7. \A q \in Rows' : \/ \E i \in DOMAIN log : log[i].row = q
                       \/ q \in Rows /\ rows'[q].status \in {rows[q].status, "deleted"}
  BY <1>3
<1> QED
  BY <1>1, <1>2, <1>3, <1>4, <1>5, <1>6, <1>7, StatementKeeps

\* As many events as sessions, and one of each, is one event of each.
LEMMA EventsAreDistinct ==
  ASSUME NEW S, IsFiniteSet(S), NEW log \in [1..Cardinality(S) -> {Event(s, "destroyed") : s \in S}],
         {log[i].row : i \in DOMAIN log} = S
  PROVE  \A i, j \in DOMAIN log : log[i].row = log[j].row => i = j
<1> DEFINE n == Cardinality(S)
           f == [i \in 1..n |-> log[i].row]
<1>1. n \in Nat
  BY FS_CardinalityType
<1>2. IsFiniteSet(1..n) /\ Cardinality(1..n) = n
  BY <1>1, FS_Interval
<1>3. f \in Surjection(1..n, S)
  BY DEF Surjection
<1>4. f \in Injection(1..n, S)
  BY <1>2, <1>3, FS_SurjSameCardinalityImpliesInj
<1> QED
  BY <1>4 DEF Injection, IsInjective

\* The loop over expired rows logs one event for each that it destroys.
LEMMA CleanupKeeps ==
  ASSUME DatabaseInv, NEW w \in Writers, NEW expired \in SUBSET Rows, CleanupExpiredRows(w, expired)
  PROVE  DatabaseInv'
<1>1. PICK log \in [1..Cardinality(expired) -> {Event(s, "destroyed") : s \in expired}] :
        /\ {log[i].row : i \in DOMAIN log} = expired
        /\ Executed(w, log)
  BY DEF CleanupExpiredRows
<1>2. /\ rows' = [r \in Rows |-> IF r \in expired THEN [rows[r] EXCEPT !.status = "destroyed"] ELSE rows[r]]
      /\ trail' = trail
  BY DEF CleanupExpiredRows
<1>3. /\ "destroyed" \in Statuses /\ DatabaseTypeOK
      /\ trail \in Seq(Statuses \cup {"none"}) /\ Len(trail) = Len(rows)
      /\ Len(rows) \in Nat /\ Rows = 1..Len(rows)
  BY RowNumbers DEF Statuses, DatabaseInv, DatabaseTypeOK
<1>4. /\ rows' \in Seq(RowRecords) /\ Len(rows') = Len(rows) /\ Rows' = Rows
      /\ \A q \in Rows : rows'[q].status = IF q \in expired THEN "destroyed" ELSE rows[q].status
  BY <1>2, <1>3, ManyRowsChange
<1>5. IsFiniteSet(expired)
  <2>1. IsFiniteSet(Rows)
    BY <1>3, FS_Interval
  <2> QED
    BY <2>1, FS_Subset
<1>6. \A i, j \in DOMAIN log : log[i].row = log[j].row => i = j
  BY <1>1, <1>5, EventsAreDistinct
<1>7. \A s \in expired : /\ Event(s, "destroyed") \in EventRecords
                        /\ Event(s, "destroyed").event = "destroyed"
  BY <1>3 DEF Event, EventRecords
<1>8. \A i \in DOMAIN log : log[i] \in EventRecords /\ log[i].event = "destroyed"
  BY <1>7
<1>9. log \in Seq(EventRecords)
  <2>1. Cardinality(expired) \in Nat
    BY <1>5, FS_CardinalityType
  <2>2. log \in [1..Cardinality(expired) -> EventRecords]
    BY <1>8
  <2> QED
    BY <2>1, <2>2, RowsInSequence
<1>10. \A i \in DOMAIN log : log[i].row \in expired
  BY <1>1
<1>11. \A i \in DOMAIN log : log[i].row \in Rows' /\ rows'[log[i].row].status \in {"deleted", log[i].event}
  BY <1>4, <1>8, <1>10
<1>12. \A q \in Rows' : \/ \E i \in DOMAIN log : log[i].row = q
                        \/ q \in Rows /\ rows'[q].status \in {rows[q].status, "deleted"}
  BY <1>1, <1>4
<1>13. Executed(w, log) /\ Rows \subseteq Rows' /\ Len(trail') = Len(rows')
  BY <1>1, <1>2, <1>3, <1>4
<1>14. rows' \in Seq(RowRecords) /\ trail' \in Seq(Statuses \cup {"none"})
  BY <1>2, <1>3, <1>4
<1>15. \A r \in Rows : trail'[r] = trail[r]
  BY <1>2
<1> QED
  BY <1>6, <1>9, <1>11, <1>12, <1>13, <1>14, <1>15, StatementKeeps

\* The event that is logged is the one its row has waited for.
LEMMA LogKeeps ==
  ASSUME DatabaseInv, NEW w \in Writers, LogEvent(w)
  PROVE  DatabaseInv'
<1> DEFINE log == logging[w]
           r == Head(log).row
           event == Head(log).event
<1>1. /\ log # <<>> /\ trail' = [trail EXCEPT ![r] = event]
      /\ logging' = [logging EXCEPT ![w] = Tail(log)]
      /\ rows' = rows /\ untold' = untold
  BY DEF LogEvent, Logged
<1>2. /\ logging \in [Writers -> Seq(EventRecords)] /\ log \in Seq(EventRecords)
      /\ \A v \in Writers : \A i \in DOMAIN logging[v] : logging[v][i].row \in Rows
  BY DEF DatabaseInv, DatabaseTypeOK
<1>3. /\ Tail(log) \in Seq(EventRecords) /\ Head(log) \in EventRecords
      /\ Len(Tail(log)) = Len(log) - 1 /\ \A i \in 1..Len(Tail(log)) : Tail(log)[i] = log[i + 1]
      /\ DOMAIN log = 1..Len(log) /\ Len(log) \in Nat
  BY <1>1, <1>2, HeadTailProperties, LenProperties
<1>4. /\ DOMAIN Tail(log) = 1..(Len(log) - 1)
      /\ 1 \in DOMAIN log /\ Head(log) = log[1]
  BY <1>1, <1>2, <1>3, LenProperties, EmptySeq
<1>5. /\ \A i \in DOMAIN Tail(log) : i + 1 \in DOMAIN log /\ Tail(log)[i] = log[i + 1]
      /\ \A i \in DOMAIN log \ {1} : i - 1 \in DOMAIN Tail(log) /\ Tail(log)[i - 1] = log[i]
  BY <1>3, <1>4
<1>6. /\ r \in Rows /\ event \in Statuses /\ Rows' = Rows /\ DOMAIN trail = Rows
      /\ trail' \in Seq(Statuses \cup {"none"}) /\ Len(trail') = Len(rows')
  <2>1. /\ r \in Rows /\ event \in Statuses /\ Rows' = Rows /\ DOMAIN trail = Rows /\ Rows = 1..Len(rows)
    BY <1>1, <1>2, <1>3, <1>4, RowNumbers DEF EventRecords, Rows, DatabaseInv
  <2>2. trail \in Seq(Statuses \cup {"none"}) /\ Len(trail) = Len(rows)
    BY DEF DatabaseInv, DatabaseTypeOK
  <2> QED
    BY <1>1, <2>1, <2>2, ExceptSeq
<1>7. logging'[w] = Tail(log) /\ \A v \in Writers \ {w} : logging'[v] = logging[v]
  BY <1>1, <1>2
<1>8. /\ log[1].row = r /\ log[1].event = event
      /\ r \notin untold => /\ rows[r].status \in {"deleted", event}
  BY <1>4 DEF DatabaseInv, PendingIsStatus
<1> HIDE DEF r, event
<1>9. DatabaseTypeOK'
  <2>1. ASSUME NEW v \in Writers, NEW i \in DOMAIN logging'[v] PROVE logging'[v][i].row \in Rows'
    <3>1. CASE v = w
      BY <1>2, <1>5, <1>6, <1>7, <3>1
    <3>2. CASE v # w
      BY <1>2, <1>6, <1>7, <3>2
    <3> QED
      BY <3>1, <3>2
  <2>2. logging' \in [Writers -> Seq(EventRecords)]
    BY <1>1, <1>2, <1>3
  <2>3. rows' \in Seq(RowRecords)
    BY <1>1 DEF DatabaseInv, DatabaseTypeOK
  <2> QED
    BY <1>6, <2>1, <2>2, <2>3 DEF DatabaseTypeOK
<1>10. ASSUME NEW v \in Writers, NEW i \in DOMAIN logging'[v]
       PROVE  \E k \in DOMAIN logging[v] : /\ logging[v][k] = logging'[v][i]
                                          /\ k = IF v = w THEN i + 1 ELSE i
  BY <1>5, <1>7
<1>11. PendingIsStatus'
  <2> SUFFICES ASSUME NEW v \in Writers, NEW i \in DOMAIN logging'[v], logging'[v][i].row \notin untold
               PROVE  /\ rows[logging'[v][i].row].status \in {"deleted", logging'[v][i].event}
                      /\ \A u \in Writers : \A j \in DOMAIN logging'[u] :
                           logging'[u][j].row = logging'[v][i].row => u = v /\ j = i
    BY <1>1 DEF PendingIsStatus
  <2>1. PICK k \in DOMAIN logging[v] : logging[v][k] = logging'[v][i] /\ k = IF v = w THEN i + 1 ELSE i
    BY <1>10
  <2>2. /\ rows[logging[v][k].row].status \in {"deleted", logging[v][k].event}
        /\ \A u \in Writers : \A j \in DOMAIN logging[u] : logging[u][j].row = logging[v][k].row => u = v /\ j = k
    BY <2>1 DEF DatabaseInv, PendingIsStatus
  <2>3. ASSUME NEW u \in Writers, NEW j \in DOMAIN logging'[u], logging'[u][j].row = logging'[v][i].row
        PROVE  u = v /\ j = i
    <3>1. PICK h \in DOMAIN logging[u] : logging[u][h] = logging'[u][j] /\ h = IF u = w THEN j + 1 ELSE j
      BY <1>10
    <3>2. u = v /\ h = k
      BY <2>1, <2>2, <2>3, <3>1
    <3>3. CASE v = w
      <4>1. i \in DOMAIN Tail(log) /\ j \in DOMAIN Tail(log)
        BY <1>7, <3>2, <3>3
      <4>2. i \in Int /\ j \in Int
        BY <1>3, <1>4, <4>1
      <4> QED
        BY <2>1, <3>1, <3>2, <3>3, <4>2
    <3>4. CASE v # w
      BY <2>1, <3>1, <3>2, <3>4
    <3> QED
      BY <3>2, <3>3, <3>4
  <2> QED
    BY <2>1, <2>2, <2>3
<1>12. TrailEndsWithStatus'
  <2> SUFFICES ASSUME NEW q \in Rows, rows[q].status # "deleted", q \notin untold
               PROVE  \/ trail'[q] = rows[q].status
                      \/ \E v \in Writers : \E i \in DOMAIN logging'[v] : logging'[v][i].row = q
    BY <1>1, <1>6 DEF TrailEndsWithStatus, AboutToLog
  <2>1. CASE q = r
    BY <1>1, <1>6, <1>8, <2>1
  <2>2. CASE q # r
    <3>1. trail'[q] = trail[q]
      BY <1>1, <1>6, <2>2
    <3>2. trail[q] = rows[q].status \/ AboutToLog(q)
      BY DEF DatabaseInv, TrailEndsWithStatus
    <3>3. ASSUME NEW v \in Writers, NEW i \in DOMAIN logging[v], logging[v][i].row = q
          PROVE  \E j \in DOMAIN logging'[v] : logging'[v][j].row = q
      <4>1. CASE v = w
        <5>1. i \in DOMAIN log \ {1} /\ log[i].row = q
          BY <1>8, <2>2, <3>3, <4>1
        <5>2. i - 1 \in DOMAIN Tail(log) /\ Tail(log)[i - 1] = log[i]
          BY <1>5, <5>1
        <5> QED
          BY <1>7, <4>1, <5>1, <5>2
      <4>2. CASE v # w
        BY <1>7, <3>3, <4>2
      <4> QED
        BY <4>1, <4>2
    <3> QED
      BY <3>1, <3>2, <3>3 DEF AboutToLog
  <2> QED
    BY <2>1, <2>2
<1> QED
  BY <1>9, <1>11, <1>12 DEF DatabaseInv

\* What an operation that raises had to log makes exceptions of its rows.
LEMMA RaiseKeeps ==
  ASSUME DatabaseInv, NEW w \in Writers, LogRaises(w)
  PROVE  DatabaseInv'
<1>1. /\ logging' = [logging EXCEPT ![w] = <<>>]
      /\ untold' = untold \cup {logging[w][i].row : i \in DOMAIN logging[w]}
      /\ rows' = rows /\ trail' = trail
  BY DEF LogRaises
<1>2. /\ logging \in [Writers -> Seq(EventRecords)]
      /\ <<>> \in Seq(EventRecords) /\ DOMAIN <<>> = {}
  BY EmptySeq DEF DatabaseInv, DatabaseTypeOK
<1>3. /\ \A v \in Writers \ {w} : logging'[v] = logging[v]
      /\ DOMAIN logging'[w] = {} /\ logging' \in [Writers -> Seq(EventRecords)]
  BY <1>1, <1>2
<1>4. DatabaseTypeOK'
  BY <1>1, <1>3 DEF DatabaseInv, DatabaseTypeOK, Rows
<1>5. PendingIsStatus'
  <2> SUFFICES ASSUME NEW v \in Writers, NEW i \in DOMAIN logging'[v], logging'[v][i].row \notin untold'
               PROVE  /\ rows[logging'[v][i].row].status \in {"deleted", logging'[v][i].event}
                      /\ \A u \in Writers : \A j \in DOMAIN logging'[u] :
                           logging'[u][j].row = logging'[v][i].row => u = v /\ j = i
    BY <1>1 DEF PendingIsStatus
  <2>1. v # w /\ logging'[v] = logging[v] /\ logging[v][i].row \notin untold
    BY <1>1, <1>3
  <2>2. /\ rows[logging[v][i].row].status \in {"deleted", logging[v][i].event}
        /\ \A u \in Writers : \A j \in DOMAIN logging[u] : logging[u][j].row = logging[v][i].row => u = v /\ j = i
    BY <2>1 DEF DatabaseInv, PendingIsStatus
  <2> QED
    BY <1>3, <2>1, <2>2
<1>6. TrailEndsWithStatus'
  <2> SUFFICES ASSUME NEW r \in Rows, rows[r].status # "deleted", r \notin untold'
               PROVE  \/ trail[r] = rows[r].status
                      \/ \E v \in Writers : \E i \in DOMAIN logging'[v] : logging'[v][i].row = r
    BY <1>1 DEF TrailEndsWithStatus, AboutToLog, Rows
  <2>1. trail[r] = rows[r].status \/ AboutToLog(r)
    BY <1>1 DEF DatabaseInv, TrailEndsWithStatus
  <2>2. \A i \in DOMAIN logging[w] : logging[w][i].row # r
    BY <1>1
  <2> QED
    BY <1>3, <2>1, <2>2 DEF AboutToLog
<1> QED
  BY <1>4, <1>5, <1>6 DEF DatabaseInv

\* No operation leaves a row whose status the trail does not have or get.
LEMMA DatabaseStep ==
  ASSUME DatabaseInv, [DatabaseNext]_databaseVars
  PROVE  DatabaseInv'
<1>1. /\ \A status \in {"creating", "pending", "stored", "running", "destroyed"} : status \in Statuses
      /\ Rows \subseteq Nat
  BY RowNumbers DEF Statuses, DatabaseInv
<1>2. UNCHANGED <<rows, logging, trail, untold>> => DatabaseInv'
  BY DEF DatabaseInv, DatabaseTypeOK, PendingIsStatus, TrailEndsWithStatus, AboutToLog, Rows
<1>3. ASSUME NEW w \in Writers, LogEvent(w) \/ LogRaises(w)
      PROVE  DatabaseInv'
  BY <1>3, LogKeeps, RaiseKeeps
<1>4. ASSUME NEW w \in Writers, NEW email \in Emails, CreateUser(w, email)
      PROVE  DatabaseInv'
  BY <1>2, <1>4 DEF CreateUser
<1>5. ASSUME NEW w \in Writers, NEW email \in Emails, CreateSessionRow(w, email)
      PROVE  DatabaseInv'
  <2>1. Insert(w, "sessions", email, "creating")
    BY <1>5 DEF CreateSessionRow
  <2> QED
    BY <1>1, <2>1, InsertKeeps
<1>6. ASSUME NEW w \in Writers, NEW r \in Rows, CreatePodRow(w, r) \/ CreateSnapshotRow(w, r)
      PROVE  DatabaseInv'
  <2>1. Insert(w, "pods", r, "pending") \/ Insert(w, "snapshots", r, "stored")
    BY <1>6 DEF CreatePodRow, CreateSnapshotRow
  <2> QED
    BY <1>1, <2>1, InsertKeeps
<1>7. ASSUME NEW w \in Writers, NEW r \in Rows, UpdateSessionStatus(w, r) \/ UpdatePodStatus(w, r)
      PROVE  DatabaseInv'
  BY <1>1, <1>7, StatusKeeps DEF UpdateSessionStatus, UpdatePodStatus
<1>8. ASSUME NEW w \in Writers, NEW r \in Rows, DeleteSessionRow(w, r) \/ DeleteSnapshotRow(w, r)
      PROVE  DatabaseInv'
  BY <1>8, DeletedKeeps DEF DeleteSessionRow, DeleteSnapshotRow
<1>9. ASSUME NEW w \in Writers, NEW expired \in SUBSET Rows, CleanupExpiredRows(w, expired)
      PROVE  DatabaseInv'
  BY <1>9, CleanupKeeps
<1>10. ASSUME NEW q \in Readers, Read(q) \/ ReadReturns(q)
       PROVE  DatabaseInv'
  BY <1>2, <1>10 DEF Read, ReadReturns
<1>11. CASE UNCHANGED databaseVars
  BY <1>2, <1>11 DEF databaseVars
<1> QED
  BY <1>3, <1>4, <1>5, <1>6, <1>7, <1>8, <1>9, <1>10, <1>11 DEF DatabaseNext

\* However operations overlap and events raise, the trail of a row ends with its
\* status once its operations are over, but for the rows named.
THEOREM TrailSafe == DatabaseSpec => []TrailEndsWithStatus
<1>1. DatabaseSpec => []DatabaseInv
  BY DatabaseInitial, DatabaseStep, PTL DEF DatabaseSpec
<1>2. DatabaseInv => TrailEndsWithStatus
  BY DEF DatabaseInv
<1> QED
  BY <1>1, <1>2, PTL

-----------------------------------------------------------------------------
(***************************************************************************)
(* The Redis session store.                                                *)
(***************************************************************************)
StoreValues == Data \cup {None}

AllKeys == StoreKeys \cup {Counter} \cup {FlushedAs[x] : x \in StoreKeys \cup {Counter}}

RedisRequests ==
  [does : {"nothing", "set", "delete", "increment", "keys"}, keys : SUBSET AllKeys,
   value : StoreValues \cup SUBSET AllKeys, command : Nat, tries : Nat, alone : BOOLEAN]

RedisCommands ==
  [id : Nat \ {0}, does : {"set", "delete", "increment", "keys"}, keys : SUBSET AllKeys, value : StoreValues]

RedisTypeOK ==
  /\ stored \in [StoreKeys -> StoreValues]
  /\ permitted \in [StoreKeys -> SUBSET StoreValues]
  /\ sent \in Nat
  /\ request \in [Calls -> RedisRequests]
  /\ inRedis \subseteq RedisCommands

\* Only a write has keys, and what it writes is a value; the reply to KEYS is a set.
CallsAreSound ==
  \A k \in Calls :
    /\ request[k].command <= sent
    /\ request[k].does = "nothing" <=> request[k].command = 0
    /\ Writes(request[k]) => request[k].value \in StoreValues
    /\ ~ Writes(request[k]) => request[k].keys = {}
    /\ request[k].does = "keys" /\ Replied(k) => request[k].value \in SUBSET AllKeys

\* The command a call waits for is the call's.
CommandsAreOfRequests ==
  \A c \in inRedis :
    /\ c.id <= sent
    /\ \A k \in Calls :
         c.id = request[k].command =>
           /\ c.does = request[k].does /\ c.keys = request[k].keys
           /\ Writes(request[k]) => c.value = request[k].value

\* What a key holds, and what commands and calls may still write to it, is permitted.
WritesArePermitted ==
  \A x \in StoreKeys :
    /\ stored[x] \in permitted[x]
    /\ \A c \in inRedis : x \in c.keys => c.value \in permitted[x]
    /\ \A k \in Calls : x \in request[k].keys => request[k].value \in permitted[x]

\* A call that is alone shares its keys with no other, whatever is still to be executed
\* writes what it writes, and what it writes is there or is still to be executed.
AloneDecide ==
  \A k \in Calls :
    request[k].alone =>
      /\ \A j \in Calls : j # k => request[j].keys \cap request[k].keys = {}
      /\ \A c \in inRedis : c.keys \cap request[k].keys # {} => c.value = request[k].value
      /\ \/ \E c \in inRedis : c.id = request[k].command
         \/ \A x \in StoreKeys : x \in request[k].keys => stored[x] = request[k].value

StoreInv ==
  RedisTypeOK /\ CallsAreSound /\ CommandsAreOfRequests /\ WritesArePermitted /\ AloneDecide

\* Commands of calls under way differ.
CommandsDiffer ==
  \A k, j \in Calls : k # j /\ request[k].does # "nothing" => request[k].command # request[j].command

\* The commands of increments that were executed and are not answered, of increments
\* that were not sent again, and increments still to be executed.
Unanswered == {request[k].command : k \in {j \in Calls : request[j].does = "increment" /\ Replied(j)}}
SentOnce == {request[k].command : k \in {j \in Calls : request[j].does = "increment" /\ request[j].tries = 0}}
Increments == {c \in inRedis : c.does = "increment"}

\* The counter loses nothing unless a flush asked for its key, and every increment that
\* was begun leaves room for sending it once more.
CounterInv ==
  /\ counter \in Nat /\ counted \in [begun : Nat, answered : Nat, flushed : BOOLEAN]
  /\ IsFiniteSet(inRedis)
  /\ CommandsDiffer
  /\ \A c \in inRedis : Counter \in c.keys => counted.flushed
  /\ \A k \in Calls : Counter \in request[k].keys => counted.flushed
  /\ counted.flushed \/ counted.answered + Cardinality(Unanswered) <= counter
  /\ counter + Cardinality(Increments) + Cardinality(SentOnce) <= 2 * counted.begun

----------------------------------------------------------------------------
\* Sending a command for a call that has no keys keeps the invariant.
LEMMA AskKeeps ==
  ASSUME RedisStoreConstants, StoreInv, NEW k \in Calls,
         NEW does \in {"set", "delete", "increment", "keys"}, NEW keys \in SUBSET AllKeys,
         NEW value \in StoreValues,
         keys # {} => does \in {"set", "delete"},
         request[k].keys = {},
         Ask(k, does, keys, value), stored' = stored
  PROVE  StoreInv'
<1>1. RedisTypeOK /\ CallsAreSound /\ CommandsAreOfRequests /\ WritesArePermitted /\ AloneDecide
  BY DEF StoreInv
<1>2. PICK alone \in BOOLEAN :
        /\ request' = [j \in Calls |->
             IF j = k THEN [does |-> does, keys |-> keys, value |-> value, command |-> sent + 1,
                            tries |-> 0, alone |-> alone]
             ELSE [request[j] EXCEPT !.alone = @ /\ request[j].keys \cap keys = {}]]
        /\ alone => /\ \A c \in inRedis : c.keys \cap keys = {}
                    /\ \A j \in Calls \ {k} : request[j].keys \cap keys = {}
  BY DEF Ask
<1>3. sent' = sent + 1 /\ sent \in Nat
  BY <1>1 DEF Ask, Send, RedisTypeOK
<1> DEFINE new == [id |-> sent + 1, does |-> does, keys |-> keys, value |-> value]
<1>4. inRedis' = inRedis \cup {new} /\ new \in RedisCommands
  BY <1>3 DEF Ask, Send, RedisCommands
<1>5. permitted' = [x \in StoreKeys |-> IF x \in keys THEN permitted[x] \cup {value} ELSE permitted[x]]
  BY DEF Ask
<1>6. request'[k].does = does /\ request'[k].keys = keys /\ request'[k].value = value
      /\ request'[k].command = sent + 1 /\ request'[k].alone = alone /\ request'[k] \in RedisRequests
  BY <1>2, <1>3 DEF RedisRequests, StoreValues
<1>7. ASSUME NEW j \in Calls, j # k
      PROVE  /\ request'[j].does = request[j].does /\ request'[j].keys = request[j].keys
             /\ request'[j].value = request[j].value /\ request'[j].command = request[j].command
             /\ request'[j].alone = (request[j].alone /\ request[j].keys \cap keys = {})
             /\ request'[j] \in RedisRequests
  <2>1. request[j] \in RedisRequests
    BY <1>1 DEF RedisTypeOK
  <2>2. request'[j] = [request[j] EXCEPT !.alone = @ /\ request[j].keys \cap keys = {}]
    BY <1>2, <1>7
  <2> QED
    BY <2>1, <2>2 DEF RedisRequests
<1>8. RedisTypeOK'
  <2>1. request' \in [Calls -> RedisRequests]
    BY <1>2, <1>6, <1>7
  <2>2. permitted' \in [StoreKeys -> SUBSET StoreValues]
    BY <1>1, <1>5 DEF RedisTypeOK
  <2> QED
    BY <1>1, <1>3, <1>4, <2>1, <2>2 DEF RedisTypeOK
<1>9. \A c \in inRedis : c.id <= sent /\ c.id \in Nat /\ c \in RedisCommands
  BY <1>1 DEF RedisTypeOK, CommandsAreOfRequests, RedisCommands
<1>10. \A j \in Calls : request[j].command <= sent /\ request[j].command \in Nat
  BY <1>1 DEF RedisTypeOK, CallsAreSound, RedisRequests
<1>11. new.id = sent + 1 /\ new.does = does /\ new.keys = keys /\ new.value = value
  OBVIOUS
<1> HIDE DEF new
<1>12. CallsAreSound'
  <2> SUFFICES ASSUME NEW j \in Calls
               PROVE  /\ request'[j].command <= sent'
                      /\ request'[j].does = "nothing" <=> request'[j].command = 0
                      /\ Writes(request'[j]) => request'[j].value \in StoreValues
                      /\ ~ Writes(request'[j]) => request'[j].keys = {}
                      /\ request'[j].does = "keys" /\ Replied(j)' => request'[j].value \in SUBSET AllKeys
    BY DEF CallsAreSound
  <2>1. CASE j = k
    <3>1. ~ Replied(j)'
      BY <2>1, <1>4, <1>6, <1>11 DEF Replied
    <3> QED
      BY <2>1, <3>1, <1>3, <1>6 DEF Writes
  <2>2. CASE j # k
    <3>1. Replied(j)' => Replied(j)
      BY <2>2, <1>4, <1>7 DEF Replied
    <3> QED
      BY <2>2, <3>1, <1>1, <1>3, <1>7, <1>10 DEF Writes, CallsAreSound
  <2> QED
    BY <2>1, <2>2
<1>13. CommandsAreOfRequests'
  <2> SUFFICES ASSUME NEW c \in inRedis'
               PROVE  /\ c.id <= sent'
                      /\ \A j \in Calls : c.id = request'[j].command =>
                           /\ c.does = request'[j].does /\ c.keys = request'[j].keys
                           /\ Writes(request'[j]) => c.value = request'[j].value
    BY DEF CommandsAreOfRequests
  <2>1. CASE c = new
    <3>1. \A j \in Calls : c.id = request'[j].command => j = k
      BY <2>1, <1>3, <1>7, <1>10, <1>11
    <3> QED
      BY <2>1, <3>1, <1>3, <1>6, <1>11
  <2>2. CASE c \in inRedis
    <3>1. c.id <= sent /\ c.id \in Nat
      BY <2>2, <1>9
    <3>2. \A j \in Calls : c.id = request'[j].command => j # k
      BY <3>1, <1>3, <1>6
    <3> QED
      BY <2>2, <3>1, <3>2, <1>1, <1>3, <1>7 DEF CommandsAreOfRequests, Writes
  <2> QED
    BY <2>1, <2>2, <1>4
<1>14. WritesArePermitted'
  <2> SUFFICES ASSUME NEW x \in StoreKeys
               PROVE  /\ stored'[x] \in permitted'[x]
                      /\ \A c \in inRedis' : x \in c.keys => c.value \in permitted'[x]
                      /\ \A j \in Calls : x \in request'[j].keys => request'[j].value \in permitted'[x]
    BY DEF WritesArePermitted
  <2>1. permitted[x] \subseteq permitted'[x] /\ (x \in keys => value \in permitted'[x])
    BY <1>5
  <2>2. stored'[x] \in permitted'[x]
    BY <2>1, <1>1 DEF WritesArePermitted
  <2>3. \A c \in inRedis' : x \in c.keys => c.value \in permitted'[x]
    BY <2>1, <1>1, <1>4, <1>11 DEF WritesArePermitted
  <2>4. \A j \in Calls : x \in request'[j].keys => request'[j].value \in permitted'[x]
    BY <2>1, <1>1, <1>6, <1>7 DEF WritesArePermitted
  <2> QED
    BY <2>2, <2>3, <2>4
<1>15. AloneDecide'
  <2> SUFFICES ASSUME NEW j \in Calls, request'[j].alone
               PROVE  /\ \A i \in Calls : i # j => request'[i].keys \cap request'[j].keys = {}
                      /\ \A c \in inRedis' : c.keys \cap request'[j].keys # {} => c.value = request'[j].value
                      /\ \/ \E c \in inRedis' : c.id = request'[j].command
                         \/ \A x \in StoreKeys : x \in request'[j].keys => stored'[x] = request'[j].value
    BY DEF AloneDecide
  <2>1. CASE j = k
    <3>1. \A i \in Calls : i # j => request'[i].keys \cap request'[j].keys = {}
      BY <2>1, <1>2, <1>6, <1>7
    <3>2. \A c \in inRedis' : c.keys \cap request'[j].keys # {} => c.value = request'[j].value
      BY <2>1, <1>2, <1>4, <1>6, <1>11
    <3>3. new \in inRedis' /\ new.id = request'[j].command
      BY <2>1, <1>4, <1>6, <1>11
    <3> QED
      BY <3>1, <3>2, <3>3
  <2>2. CASE j # k
    <3>1. request[j].alone /\ request[j].keys \cap keys = {}
      BY <2>2, <1>7
    <3>2. \A i \in Calls : i # j => request'[i].keys \cap request'[j].keys = {}
      BY <2>2, <3>1, <1>1, <1>6, <1>7 DEF AloneDecide
    <3>3. \A c \in inRedis' : c.keys \cap request'[j].keys # {} => c.value = request'[j].value
      BY <2>2, <3>1, <1>1, <1>4, <1>7, <1>11 DEF AloneDecide
    <3>4. \/ \E c \in inRedis' : c.id = request'[j].command
          \/ \A x \in StoreKeys : x \in request'[j].keys => stored'[x] = request'[j].value
      BY <2>2, <3>1, <1>1, <1>4, <1>7 DEF AloneDecide
    <3> QED
      BY <3>2, <3>3, <3>4
  <2> QED
    BY <2>1, <2>2
<1> QED
  BY <1>8, <1>12, <1>13, <1>14, <1>15 DEF StoreInv

\* A call that ends, answered or not, keeps it: once a write was answered by Redis that
\* was alone, only what it wrote is permitted.
LEMMA EndKeeps ==
  ASSUME StoreInv, NEW k \in Calls, request' = [request EXCEPT ![k] = NoRequest],
         UNCHANGED <<stored, inRedis, sent>>,
         \/ permitted' = permitted
         \/ /\ Replied(k)
            /\ permitted' = [x \in StoreKeys |->
                 IF x \in request[k].keys /\ Writes(request[k]) /\ request[k].alone
                 THEN {request[k].value} ELSE permitted[x]]
  PROVE  StoreInv'
<1>1. RedisTypeOK /\ CallsAreSound /\ CommandsAreOfRequests /\ WritesArePermitted /\ AloneDecide
  BY DEF StoreInv
<1>2. /\ request'[k].does = "nothing" /\ request'[k].keys = {} /\ request'[k].value = None
      /\ request'[k].command = 0 /\ request'[k] \in RedisRequests
  BY <1>1 DEF NoRequest, RedisTypeOK, RedisRequests, StoreValues
<1>3. \A j \in Calls : j # k => request'[j] = request[j]
  BY <1>1 DEF RedisTypeOK
<1>4. stored' = stored /\ inRedis' = inRedis /\ sent' = sent /\ sent \in Nat
  BY <1>1 DEF RedisTypeOK
<1>5. \A c \in inRedis : c.id # 0
  BY <1>1 DEF RedisTypeOK, RedisCommands
<1>6. ASSUME NEW x \in StoreKeys
      PROVE  \/ permitted'[x] = permitted[x]
             \/ /\ Replied(k) /\ x \in request[k].keys /\ Writes(request[k]) /\ request[k].alone
                /\ permitted'[x] = {request[k].value}
  BY <1>1 DEF RedisTypeOK
<1>7. RedisTypeOK'
  <2>1. request' \in [Calls -> RedisRequests]
    BY <1>1, <1>2 DEF RedisTypeOK
  <2>2. permitted' \in [StoreKeys -> SUBSET StoreValues]
    <3>1. \A x \in StoreKeys : permitted'[x] \in SUBSET StoreValues
      BY <1>1, <1>6 DEF RedisTypeOK, CallsAreSound
    <3>2. permitted' = [x \in StoreKeys |-> permitted'[x]]
      BY <1>1 DEF RedisTypeOK
    <3> QED
      BY <3>1, <3>2
  <2> QED
    BY <1>1, <1>4, <2>1, <2>2 DEF RedisTypeOK
<1>8. CallsAreSound'
  BY <1>1, <1>2, <1>3, <1>4 DEF CallsAreSound, Writes, Replied
<1>9. CommandsAreOfRequests'
  <2> SUFFICES ASSUME NEW c \in inRedis, NEW j \in Calls, c.id = request'[j].command
               PROVE  /\ c.does = request'[j].does /\ c.keys = request'[j].keys
                      /\ Writes(request'[j]) => c.value = request'[j].value
    BY <1>1, <1>4 DEF CommandsAreOfRequests
  <2>1. j # k
    BY <1>2, <1>5
  <2> QED
    BY <2>1, <1>1, <1>3 DEF CommandsAreOfRequests, Writes
<1>10. WritesArePermitted'
  <2> SUFFICES ASSUME NEW x \in StoreKeys
               PROVE  /\ stored[x] \in permitted'[x]
                      /\ \A c \in inRedis : x \in c.keys => c.value \in permitted'[x]
                      /\ \A j \in Calls : x \in request'[j].keys => request'[j].value \in permitted'[x]
    BY <1>4 DEF WritesArePermitted
  <2>1. CASE permitted'[x] = permitted[x]
    BY <2>1, <1>1, <1>2, <1>3 DEF WritesArePermitted
  <2>2. CASE /\ Replied(k) /\ x \in request[k].keys /\ Writes(request[k]) /\ request[k].alone
             /\ permitted'[x] = {request[k].value}
    <3>1. stored[x] = request[k].value
      BY <2>2, <1>1 DEF AloneDecide, Replied
    <3>2. \A c \in inRedis : x \in c.keys => c.value = request[k].value
      BY <2>2, <1>1 DEF AloneDecide
    <3>3. \A j \in Calls : x \notin request'[j].keys
      BY <2>2, <1>1, <1>2, <1>3 DEF AloneDecide
    <3> QED
      BY <2>2, <3>1, <3>2, <3>3
  <2> QED
    BY <2>1, <2>2, <1>6
<1>11. AloneDecide'
  <2> SUFFICES ASSUME NEW j \in Calls, request'[j].alone
               PROVE  /\ \A i \in Calls : i # j => request'[i].keys \cap request'[j].keys = {}
                      /\ \A c \in inRedis : c.keys \cap request'[j].keys # {} => c.value = request'[j].value
                      /\ \/ \E c \in inRedis : c.id = request'[j].command
                         \/ \A x \in StoreKeys : x \in request'[j].keys => stored[x] = request'[j].value
    BY <1>4 DEF AloneDecide
  <2>1. CASE j = k
    BY <2>1, <1>2
  <2>2. CASE j # k
    BY <2>2, <1>1, <1>2, <1>3 DEF AloneDecide
  <2> QED
    BY <2>1, <2>2
<1> QED
  BY <1>7, <1>8, <1>9, <1>10, <1>11 DEF StoreInv

\* Redis executing a command keeps it.
LEMMA ExecuteKeeps ==
  ASSUME RedisStoreConstants, StoreInv, NEW c \in inRedis, Execute(c)
  PROVE  StoreInv'
<1>1. RedisTypeOK /\ CallsAreSound /\ CommandsAreOfRequests /\ WritesArePermitted /\ AloneDecide
  BY DEF StoreInv
<1>2. sent' = sent /\ permitted' = permitted /\ inRedis' = inRedis \ {c}
  BY DEF Execute
<1>3. c \in RedisCommands
  BY <1>1 DEF RedisTypeOK
<1>4. stored' = [x \in StoreKeys |-> IF x \in c.keys THEN c.value ELSE stored[x]]
  BY DEF Execute
<1>5. GetKeys \in SUBSET AllKeys
  BY DEF GetKeys, AllKeys
<1>6. ASSUME NEW k \in Calls
      PROVE  /\ request'[k] \in RedisRequests
             /\ request'[k].does = request[k].does /\ request'[k].keys = request[k].keys
             /\ request'[k].command = request[k].command /\ request'[k].alone = request[k].alone
             /\ IF c.does = "keys" /\ request[k].command = c.id
                THEN request'[k].value = GetKeys /\ request[k].does = "keys"
                ELSE request'[k].value = request[k].value
  <2>1. request[k] \in RedisRequests
    BY <1>1 DEF RedisTypeOK
  <2>2. CASE c.does = "keys" /\ request[k].command = c.id
    <3>1. request'[k] = [request[k] EXCEPT !.value = GetKeys]
      BY <2>2 DEF Execute
    <3>2. request[k].does = "keys"
      BY <2>2, <1>1 DEF CommandsAreOfRequests
    <3> QED
      BY <2>1, <2>2, <3>1, <3>2, <1>5 DEF RedisRequests
  <2>3. CASE ~ (c.does = "keys" /\ request[k].command = c.id)
    <3>1. request'[k] = request[k]
      BY <2>3, <1>1 DEF Execute, RedisTypeOK
    <3> QED
      BY <2>1, <2>3, <3>1
  <2> QED
    BY <2>2, <2>3
<1>7. \A k \in Calls : request[k].keys # {} => Writes(request[k]) /\ request'[k].value = request[k].value
  BY <1>1, <1>6 DEF CallsAreSound, Writes
<1>8. RedisTypeOK'
  <2>1. request' \in [Calls -> RedisRequests]
    <3>1. request' = [k \in Calls |-> request'[k]]
      BY <1>1 DEF RedisTypeOK, Execute
    <3> QED
      BY <3>1, <1>6
  <2>2. stored' \in [StoreKeys -> StoreValues]
    BY <1>1, <1>3, <1>4 DEF RedisTypeOK, RedisCommands
  <2> QED
    BY <1>1, <1>2, <2>1, <2>2 DEF RedisTypeOK
<1>9. CallsAreSound'
  <2> SUFFICES ASSUME NEW k \in Calls
               PROVE  /\ request'[k].command <= sent'
                      /\ request'[k].does = "nothing" <=> request'[k].command = 0
                      /\ Writes(request'[k]) => request'[k].value \in StoreValues
                      /\ ~ Writes(request'[k]) => request'[k].keys = {}
                      /\ request'[k].does = "keys" /\ Replied(k)' => request'[k].value \in SUBSET AllKeys
    BY DEF CallsAreSound
  <2>1. Writes(request'[k]) => request'[k].value = request[k].value
    BY <1>6 DEF Writes
  <2>2. ASSUME request'[k].does = "keys", Replied(k)'
        PROVE  request'[k].value \in SUBSET AllKeys
    <3>1. CASE request[k].command = c.id
      <4>1. c.does = "keys"
        BY <2>2, <3>1, <1>1, <1>6 DEF CommandsAreOfRequests
      <4> QED
        BY <3>1, <4>1, <1>5, <1>6
    <3>2. CASE request[k].command # c.id
      <4>1. Replied(k) /\ request[k].does = "keys"
        BY <2>2, <3>2, <1>2, <1>6 DEF Replied
      <4> QED
        BY <3>2, <4>1, <1>1, <1>6 DEF CallsAreSound
    <3> QED
      BY <3>1, <3>2
  <2> QED
    BY <2>1, <2>2, <1>1, <1>2, <1>6 DEF CallsAreSound, Writes
<1>10. CommandsAreOfRequests'
  <2> SUFFICES ASSUME NEW d \in inRedis, NEW k \in Calls, d.id = request'[k].command
               PROVE  /\ d.does = request'[k].does /\ d.keys = request'[k].keys
                      /\ Writes(request'[k]) => d.value = request'[k].value
    BY <1>1, <1>2 DEF CommandsAreOfRequests
  <2> QED
    BY <1>1, <1>6 DEF CommandsAreOfRequests, Writes
<1>11. WritesArePermitted'
  BY <1>1, <1>2, <1>4, <1>6, <1>7 DEF WritesArePermitted
<1>12. AloneDecide'
  <2> SUFFICES ASSUME NEW k \in Calls, request'[k].alone
               PROVE  /\ \A i \in Calls : i # k => request'[i].keys \cap request'[k].keys = {}
                      /\ \A d \in inRedis' : d.keys \cap request'[k].keys # {} => d.value = request'[k].value
                      /\ \/ \E d \in inRedis' : d.id = request'[k].command
                         \/ \A x \in StoreKeys : x \in request'[k].keys => stored'[x] = request'[k].value
    BY DEF AloneDecide
  <2>1. request[k].alone /\ request'[k].keys = request[k].keys /\ request'[k].command = request[k].command
    BY <1>6
  <2>2. \A d \in inRedis : d.keys \cap request'[k].keys # {} => d.value = request'[k].value
    BY <2>1, <1>1, <1>7 DEF AloneDecide
  <2>3. ASSUME \A d \in inRedis' : d.id # request'[k].command, NEW x \in StoreKeys, x \in request'[k].keys
        PROVE  stored'[x] = request'[k].value
    <3>1. CASE x \in c.keys
      BY <3>1, <2>2, <2>3, <1>4
    <3>2. CASE x \notin c.keys
      <4>1. c.id # request[k].command
        BY <3>2, <2>1, <2>3, <1>1 DEF CommandsAreOfRequests
      <4>2. \A d \in inRedis : d.id # request[k].command
        BY <4>1, <2>1, <2>3, <1>2
      <4> QED
        BY <4>2, <3>2, <2>1, <2>3, <1>1, <1>4, <1>7 DEF AloneDecide
    <3> QED
      BY <3>1, <3>2
  <2>4. \A i \in Calls : i # k => request'[i].keys \cap request'[k].keys = {}
    BY <2>1, <1>1, <1>6 DEF AloneDecide
  <2> QED
    BY <2>2, <2>3, <2>4, <1>2
<1> QED
  BY <1>8, <1>9, <1>10, <1>11, <1>12 DEF StoreInv

\* Sending a call's command again keeps it.
LEMMA TimesOutKeeps ==
  ASSUME RedisStoreConstants, StoreInv, NEW k \in Calls, TimesOut(k)
  PROVE  StoreInv'
<1>1. RedisTypeOK /\ CallsAreSound /\ CommandsAreOfRequests /\ WritesArePermitted /\ AloneDecide
  BY DEF StoreInv
<1>2. PICK value : value = (IF Writes(request[k]) THEN request[k].value ELSE None)
  OBVIOUS
<1> DEFINE new == [id |-> sent + 1, does |-> request[k].does, keys |-> request[k].keys, value |-> value]
<1>3. stored' = stored /\ permitted' = permitted /\ sent' = sent + 1 /\ sent \in Nat
      /\ inRedis' = inRedis \cup {new} /\ request[k].does # "nothing"
  BY <1>1, <1>2 DEF TimesOut, Send, RedisTypeOK
<1>4. request[k] \in RedisRequests
  BY <1>1 DEF RedisTypeOK
<1>5. new \in RedisCommands /\ new.id = sent + 1 /\ new.does = request[k].does
      /\ new.keys = request[k].keys /\ new.value = value
  BY <1>1, <1>2, <1>3, <1>4 DEF RedisCommands, RedisRequests, CallsAreSound, StoreValues
<1> HIDE DEF new
<1>6. /\ request'[k].does = request[k].does /\ request'[k].keys = request[k].keys
      /\ request'[k].value = request[k].value /\ request'[k].alone = request[k].alone
      /\ request'[k].command = sent + 1 /\ request'[k] \in RedisRequests
  <2>1. request'[k] = [request[k] EXCEPT !.command = sent + 1, !.tries = @ + 1]
    BY <1>1 DEF TimesOut, RedisTypeOK
  <2>2. request[k].tries + 1 \in Nat /\ sent + 1 \in Nat
    BY <1>3, <1>4 DEF RedisRequests
  <2>3. PICK tries : tries = request[k].tries + 1
    OBVIOUS
  <2>4. PICK command : command = sent + 1
    OBVIOUS
  <2>5. request'[k] = [request[k] EXCEPT !.command = command, !.tries = tries]
    BY <2>1, <2>3, <2>4
  <2> QED
    BY <2>2, <2>3, <2>4, <2>5, <1>4 DEF RedisRequests
<1>7. \A j \in Calls : j # k => request'[j] = request[j]
  BY <1>1 DEF TimesOut, RedisTypeOK
<1>8. \A j \in Calls : request[j].command <= sent /\ request[j].command \in Nat
  BY <1>1 DEF RedisTypeOK, CallsAreSound, RedisRequests
<1>9. \A c \in inRedis : c.id <= sent /\ c.id \in Nat
  BY <1>1 DEF RedisTypeOK, CommandsAreOfRequests, RedisCommands
<1>10. \A j \in Calls : /\ request'[j].does = request[j].does /\ request'[j].keys = request[j].keys
                        /\ request'[j].value = request[j].value /\ request'[j].alone = request[j].alone
  BY <1>6, <1>7
<1>11. RedisTypeOK'
  <2>1. request' \in [Calls -> RedisRequests]
    <3>1. request' = [j \in Calls |-> request'[j]]
      BY <1>1 DEF TimesOut, RedisTypeOK
    <3>2. \A j \in Calls : request'[j] \in RedisRequests
      BY <1>1, <1>6, <1>7 DEF RedisTypeOK
    <3> QED
      BY <3>1, <3>2
  <2> QED
    BY <1>1, <1>3, <1>5, <2>1 DEF RedisTypeOK
<1>12. CallsAreSound'
  <2> SUFFICES ASSUME NEW j \in Calls
               PROVE  /\ request'[j].command <= sent'
                      /\ request'[j].does = "nothing" <=> request'[j].command = 0
                      /\ Writes(request'[j]) => request'[j].value \in StoreValues
                      /\ ~ Writes(request'[j]) => request'[j].keys = {}
                      /\ request'[j].does = "keys" /\ Replied(j)' => request'[j].value \in SUBSET AllKeys
    BY DEF CallsAreSound
  <2>1. CASE j = k
    <3>1. ~ Replied(j)'
      BY <2>1, <1>3, <1>5, <1>6 DEF Replied
    <3>2. request'[j].does # "nothing" /\ request'[j].command # 0 /\ request'[j].command <= sent'
      BY <2>1, <1>3, <1>6
    <3> QED
      BY <2>1, <3>1, <3>2, <1>1, <1>6 DEF Writes, CallsAreSound
  <2>2. CASE j # k
    <3>1. Replied(j)' => Replied(j)
      BY <2>2, <1>3, <1>7 DEF Replied
    <3> QED
      BY <2>2, <3>1, <1>1, <1>3, <1>7, <1>8 DEF Writes, CallsAreSound
  <2> QED
    BY <2>1, <2>2
<1>13. CommandsAreOfRequests'
  <2> SUFFICES ASSUME NEW c \in inRedis'
               PROVE  /\ c.id <= sent'
                      /\ \A j \in Calls : c.id = request'[j].command =>
                           /\ c.does = request'[j].does /\ c.keys = request'[j].keys
                           /\ Writes(request'[j]) => c.value = request'[j].value
    BY DEF CommandsAreOfRequests
  <2>1. CASE c = new
    <3>1. \A j \in Calls : c.id = request'[j].command => j = k
      BY <2>1, <1>3, <1>5, <1>7, <1>8
    <3> QED
      BY <2>1, <3>1, <1>2, <1>3, <1>5, <1>6 DEF Writes
  <2>2. CASE c \in inRedis
    <3>1. \A j \in Calls : c.id = request'[j].command => j # k
      BY <2>2, <1>3, <1>6, <1>9
    <3>2. c.id <= sent'
      BY <2>2, <1>3, <1>9
    <3> QED
      BY <2>2, <3>1, <3>2, <1>1, <1>7 DEF CommandsAreOfRequests, Writes
  <2> QED
    BY <2>1, <2>2, <1>3
<1>14. new.keys # {} => new.value = request[k].value
  BY <1>1, <1>2, <1>5 DEF CallsAreSound
<1>15. WritesArePermitted'
  BY <1>1, <1>3, <1>5, <1>10, <1>14 DEF WritesArePermitted
<1>16. AloneDecide'
  <2> SUFFICES ASSUME NEW j \in Calls, request'[j].alone
               PROVE  /\ \A i \in Calls : i # j => request'[i].keys \cap request'[j].keys = {}
                      /\ \A c \in inRedis' : c.keys \cap request'[j].keys # {} => c.value = request'[j].value
                      /\ \/ \E c \in inRedis' : c.id = request'[j].command
                         \/ \A x \in StoreKeys : x \in request'[j].keys => stored'[x] = request'[j].value
    BY DEF AloneDecide
  <2>1. \A i \in Calls : i # j => request'[i].keys \cap request'[j].keys = {}
    BY <1>1, <1>10 DEF AloneDecide
  <2>2. \A c \in inRedis' : c.keys \cap request'[j].keys # {} => c.value = request'[j].value
    <3>1. request[j].alone /\ (j # k => request[k].keys \cap request[j].keys = {})
      BY <1>1, <1>10 DEF AloneDecide
    <3>2. new.keys \cap request'[j].keys # {} => new.value = request'[j].value
      BY <3>1, <1>5, <1>10, <1>14
    <3> QED
      BY <3>1, <3>2, <1>1, <1>3, <1>10 DEF AloneDecide
  <2>3. \/ \E c \in inRedis' : c.id = request'[j].command
        \/ \A x \in StoreKeys : x \in request'[j].keys => stored'[x] = request'[j].value
    <3>1. CASE j = k
      BY <3>1, <1>3, <1>5, <1>6
    <3>2. CASE j # k
      BY <3>2, <1>1, <1>3, <1>7 DEF AloneDecide
    <3> QED
      BY <3>1, <3>2
  <2> QED
    BY <2>1, <2>2, <2>3
<1> QED
  BY <1>11, <1>12, <1>13, <1>15, <1>16 DEF StoreInv

\* A key that expires was not to be relied on: no call is alone with it any more.
LEMMA ExpireKeeps ==
  ASSUME StoreInv, NEW x \in StoreKeys, Expire(x)
  PROVE  StoreInv'
<1>1. RedisTypeOK /\ CallsAreSound /\ CommandsAreOfRequests /\ WritesArePermitted /\ AloneDecide
  BY DEF StoreInv
<1>2. sent' = sent /\ inRedis' = inRedis
  BY DEF Expire
<1>3. ASSUME NEW k \in Calls
      PROVE  /\ request'[k] \in RedisRequests
             /\ request'[k].does = request[k].does /\ request'[k].keys = request[k].keys
             /\ request'[k].value = request[k].value /\ request'[k].command = request[k].command
             /\ request'[k].alone = (request[k].alone /\ x \notin request[k].keys)
  <2>1. request[k] \in RedisRequests
    BY <1>1 DEF RedisTypeOK
  <2>2. request'[k] = [request[k] EXCEPT !.alone = @ /\ x \notin request[k].keys]
    BY DEF Expire
  <2> QED
    BY <2>1, <2>2 DEF RedisRequests
<1>4. stored' = [stored EXCEPT ![x] = None] /\ permitted' = [permitted EXCEPT ![x] = @ \cup {None}]
  BY DEF Expire
<1>5. RedisTypeOK'
  <2>1. request' \in [Calls -> RedisRequests]
    BY <1>3 DEF Expire
  <2>2. stored' \in [StoreKeys -> StoreValues] /\ permitted' \in [StoreKeys -> SUBSET StoreValues]
    BY <1>1, <1>4 DEF RedisTypeOK, StoreValues
  <2> QED
    BY <1>1, <1>2, <2>1, <2>2 DEF RedisTypeOK
<1>6. CallsAreSound'
  BY <1>1, <1>2, <1>3 DEF CallsAreSound, Writes, Replied
<1>7. CommandsAreOfRequests'
  BY <1>1, <1>2, <1>3 DEF CommandsAreOfRequests, Writes
<1>8. WritesArePermitted'
  <2>1. \A y \in StoreKeys : permitted[y] \subseteq permitted'[y] /\ stored'[y] \in permitted'[y]
    BY <1>1, <1>4 DEF RedisTypeOK, WritesArePermitted
  <2> QED
    BY <2>1, <1>1, <1>2, <1>3 DEF WritesArePermitted
<1>9. AloneDecide'
  <2>1. \A y \in StoreKeys : y # x => stored'[y] = stored[y]
    BY <1>1, <1>4 DEF RedisTypeOK
  <2> SUFFICES ASSUME NEW k \in Calls, request'[k].alone
               PROVE  /\ \A j \in Calls : j # k => request'[j].keys \cap request'[k].keys = {}
                      /\ \A c \in inRedis : c.keys \cap request'[k].keys # {} => c.value = request'[k].value
                      /\ \/ \E c \in inRedis : c.id = request'[k].command
                         \/ \A y \in StoreKeys : y \in request'[k].keys => stored'[y] = request'[k].value
    BY <1>2 DEF AloneDecide
  <2>2. request[k].alone /\ x \notin request[k].keys
    BY <1>3
  <2>3. \A j \in Calls : j # k => request'[j].keys \cap request'[k].keys = {}
    BY <2>2, <1>1, <1>3 DEF AloneDecide
  <2>4. \A c \in inRedis : c.keys \cap request'[k].keys # {} => c.value = request'[k].value
    BY <2>2, <1>1, <1>3 DEF AloneDecide
  <2>5. \/ \E c \in inRedis : c.id = request'[k].command
        \/ \A y \in StoreKeys : y \in request'[k].keys => stored'[y] = request'[k].value
    BY <2>1, <2>2, <1>1, <1>3 DEF AloneDecide
  <2> QED
    BY <2>3, <2>4, <2>5
<1> QED
  BY <1>5, <1>6, <1>7, <1>8, <1>9 DEF StoreInv

\* The invariant about the keys holds at first and after every step.
LEMMA StoreInvInductive ==
  ASSUME RedisStoreConstants
  PROVE  /\ RedisInit => StoreInv
         /\ StoreInv /\ [RedisNext]_redisVars => StoreInv'
<1>1. ASSUME RedisInit
      PROVE  StoreInv
  <2>1. NoRequest \in RedisRequests
    BY DEF NoRequest, RedisRequests, StoreValues
  <2>2. RedisTypeOK
    BY <1>1, <2>1 DEF RedisInit, RedisTypeOK, StoreValues
  <2> QED
    BY <1>1, <2>2 DEF RedisInit, NoRequest, StoreInv, CallsAreSound, CommandsAreOfRequests,
                      WritesArePermitted, AloneDecide, Writes
<1>2. ASSUME StoreInv, [RedisNext]_redisVars
      PROVE  StoreInv'
  <2>0. RedisTypeOK /\ CallsAreSound
    BY <1>2 DEF StoreInv
  <2>1. CASE UNCHANGED redisVars \/ ConnectRedis \/ DisconnectRedis
    <3>1. UNCHANGED <<stored, inRedis, sent, request, permitted>>
      BY <2>1 DEF redisVars, ConnectRedis, DisconnectRedis
    <3> QED
      BY <1>2, <3>1 DEF StoreInv, RedisTypeOK, CallsAreSound, CommandsAreOfRequests,
                        WritesArePermitted, AloneDecide, Writes, Replied
  <2>2. ASSUME NEW k \in Calls, NEW does \in {"set", "delete", "increment", "keys"},
               NEW keys \in SUBSET AllKeys, NEW value \in StoreValues,
               keys # {} => does \in {"set", "delete"}, Begin(k, does, keys, value)
        PROVE  StoreInv'
    <3>1. request[k].keys = {}
      BY <2>0, <2>2 DEF CallsAreSound, Begin, Writes
    <3>2. Ask(k, does, keys, value) /\ stored' = stored
      BY <2>2 DEF Begin
    <3> QED
      BY <1>2, <2>2, <3>1, <3>2, AskKeeps
  <2>3. ASSUME NEW k \in Calls, NEW x \in SessionKeys,
               (\E v \in Data : SetSession(k, x, v)) \/ DeleteSession(k, x)
        PROVE  StoreInv'
    BY <2>2, <2>3 DEF SetSession, DeleteSession, AllKeys, StoreKeys, StoreValues
  <2>4. ASSUME NEW k \in Calls, NEW x \in Cached, NEW v \in Data, SetCache(k, x, v)
        PROVE  StoreInv'
    BY <2>2, <2>4 DEF SetCache, AllKeys, StoreKeys, StoreValues
  <2>5. ASSUME NEW k \in Calls, IncrementCounter(k) \/ FlushDb(k)
        PROVE  StoreInv'
    BY <2>2, <2>5 DEF IncrementCounter, FlushDb, StoreValues
  <2>6. ASSUME NEW k \in Calls, ReplyArrives(k)
        PROVE  StoreInv'
    BY <1>2, <2>6, EndKeeps DEF ReplyArrives, Answered
  <2>7. ASSUME NEW k \in Calls, KeysArrive(k)
        PROVE  StoreInv'
    <3>1. PICK keys : keys = request[k].value
      OBVIOUS
    <3>2. keys \in SUBSET AllKeys /\ request[k].keys = {} /\ None \in StoreValues
      BY <2>0, <2>7, <3>1 DEF KeysArrive, CallsAreSound, Writes, StoreValues
    <3>3. Ask(k, "delete", keys, None) /\ stored' = stored
      BY <2>7, <3>1 DEF KeysArrive
    <3> QED
      BY <1>2, <3>2, <3>3, AskKeeps
  <2>8. ASSUME NEW k \in Calls, TimesOut(k)
        PROVE  StoreInv'
    BY <1>2, <2>8, TimesOutKeeps
  <2>9. ASSUME NEW k \in Calls, Fails(k)
        PROVE  StoreInv'
    BY <1>2, <2>9, EndKeeps DEF Fails
  <2>10. ASSUME NEW c \in inRedis, Execute(c)
         PROVE  StoreInv'
    BY <1>2, <2>10, ExecuteKeeps
  <2>11. ASSUME NEW x \in StoreKeys, Expire(x)
         PROVE  StoreInv'
    BY <1>2, <2>11, ExpireKeeps
  <2> QED
    BY <1>2, <2>1, <2>3, <2>4, <2>5, <2>6, <2>7, <2>8, <2>9, <2>10, <2>11 DEF RedisNext
<1> QED
  BY <1>1, <1>2

----------------------------------------------------------------------------
\* What a set that shrinks, or gains or loses an element, counts.
LEMMA SmallerCounts ==
  ASSUME NEW S, IsFiniteSet(S)
  PROVE  /\ Cardinality(S) \in Nat
         /\ \A T \in SUBSET S : IsFiniteSet(T) /\ Cardinality(T) \in Nat /\ Cardinality(T) <= Cardinality(S)
         /\ \A x : \A T \in SUBSET (S \cup {x}) :
              IsFiniteSet(T) /\ Cardinality(T) \in Nat /\ Cardinality(T) <= Cardinality(S) + 1
         /\ \A x \in S : \A T \in SUBSET (S \ {x}) :
              Cardinality(T) \in Nat /\ Cardinality(T) <= Cardinality(S) - 1
<1>1. Cardinality(S) \in Nat
  BY FS_CardinalityType
<1>2. ASSUME NEW T \in SUBSET S
      PROVE  IsFiniteSet(T) /\ Cardinality(T) \in Nat /\ Cardinality(T) <= Cardinality(S)
  BY FS_Subset, FS_CardinalityType
<1>3. ASSUME NEW x, NEW T \in SUBSET (S \cup {x})
      PROVE  IsFiniteSet(T) /\ Cardinality(T) \in Nat /\ Cardinality(T) <= Cardinality(S) + 1
  <2>1. IsFiniteSet(S \cup {x}) /\ Cardinality(S \cup {x}) <= Cardinality(S) + 1
        /\ Cardinality(S \cup {x}) \in Nat
    BY <1>1, FS_AddElement
  <2>2. IsFiniteSet(T) /\ Cardinality(T) <= Cardinality(S \cup {x})
    BY <2>1, FS_Subset
  <2>3. Cardinality(T) \in Nat
    BY <2>2, FS_CardinalityType
  <2> QED
    BY <1>1, <2>1, <2>2, <2>3
<1>4. ASSUME NEW x \in S, NEW T \in SUBSET (S \ {x})
      PROVE  Cardinality(T) \in Nat /\ Cardinality(T) <= Cardinality(S) - 1
  <2>1. IsFiniteSet(S \ {x}) /\ Cardinality(S \ {x}) = Cardinality(S) - 1
    BY FS_RemoveElement
  <2>2. IsFiniteSet(T) /\ Cardinality(T) <= Cardinality(S \ {x})
    BY <2>1, FS_Subset
  <2>3. Cardinality(T) \in Nat
    BY <2>2, FS_CardinalityType
  <2> QED
    BY <2>1, <2>2, <2>3
<1> QED
  BY <1>1, <1>2, <1>3, <1>4

\* The increments that the counter is compared with are finitely many.
LEMMA CountedSetsAreFinite ==
  ASSUME StoreInv, IsFiniteSet(inRedis)
  PROVE  IsFiniteSet(Unanswered) /\ IsFiniteSet(SentOnce) /\ IsFiniteSet(Increments)
<1>1. sent \in Nat /\ \A k \in Calls : request[k].command \in Nat /\ request[k].command <= sent
  BY DEF StoreInv, RedisTypeOK, CallsAreSound, RedisRequests
<1>2. Unanswered \in SUBSET Nat /\ \A n \in Unanswered : n <= sent
  BY <1>1 DEF Unanswered
<1>3. SentOnce \in SUBSET Nat /\ \A n \in SentOnce : n <= sent
  BY <1>1 DEF SentOnce
<1>4. IsFiniteSet(Unanswered) /\ IsFiniteSet(SentOnce)
  BY <1>1, <1>2, <1>3, FS_BoundedSetOfNaturals
<1>5. Increments \in SUBSET inRedis
  BY DEF Increments
<1> QED
  BY <1>4, <1>5, FS_Subset

\* The counter's bounds after a step, from what the step does to the three sets.
LEMMA CounterBounds ==
  ASSUME StoreInv, CounterInv, counter' \in Nat, counted' \in [begun : Nat, answered : Nat, flushed : BOOLEAN],
         counted.flushed => counted'.flushed,
         \/ counted'.flushed
         \/ /\ counted'.answered <= counted.answered /\ counter <= counter'
            /\ Unanswered' \subseteq Unanswered
         \/ /\ counted'.answered <= counted.answered /\ counter + 1 <= counter'
            /\ \E u : Unanswered' \subseteq Unanswered \cup {u}
         \/ /\ counted'.answered <= counted.answered + 1 /\ counter <= counter'
            /\ \E u \in Unanswered : Unanswered' \subseteq Unanswered \ {u},
         \/ /\ counter' <= counter /\ counted'.begun >= counted.begun
            /\ Increments' \subseteq Increments /\ SentOnce' \subseteq SentOnce
         \/ /\ counter' <= counter /\ counted'.begun >= counted.begun + 1
            /\ \E c, u : /\ Increments' \subseteq Increments \cup {c}
                         /\ SentOnce' \subseteq SentOnce \cup {u}
         \/ /\ counter' <= counter + 1 /\ counted'.begun >= counted.begun
            /\ SentOnce' \subseteq SentOnce
            /\ \E c \in Increments : Increments' \subseteq Increments \ {c}
         \/ /\ counter' <= counter /\ counted'.begun >= counted.begun
            /\ \E c : Increments' \subseteq Increments \cup {c}
            /\ \E u \in SentOnce : SentOnce' \subseteq SentOnce \ {u}
  PROVE  /\ counted'.flushed \/ counted'.answered + Cardinality(Unanswered)' <= counter'
         /\ counter' + Cardinality(Increments)' + Cardinality(SentOnce)' <= 2 * counted'.begun
<1>1. /\ counter \in Nat /\ counted.begun \in Nat /\ counted.answered \in Nat
      /\ counted.flushed \/ counted.answered + Cardinality(Unanswered) <= counter
      /\ counter + Cardinality(Increments) + Cardinality(SentOnce) <= 2 * counted.begun
      /\ counted'.begun \in Nat /\ counted'.answered \in Nat
  BY DEF CounterInv
<1>2. IsFiniteSet(Unanswered) /\ IsFiniteSet(SentOnce) /\ IsFiniteSet(Increments)
  BY CountedSetsAreFinite DEF CounterInv
<1>3. Cardinality(Unanswered) \in Nat /\ Cardinality(SentOnce) \in Nat /\ Cardinality(Increments) \in Nat
  BY <1>2, FS_CardinalityType
<1>4. counted'.flushed \/ counted'.answered + Cardinality(Unanswered') <= counter'
  <2>1. CASE /\ counted'.answered <= counted.answered /\ counter <= counter'
             /\ Unanswered' \subseteq Unanswered
    <3>1. Cardinality(Unanswered') \in Nat /\ Cardinality(Unanswered') <= Cardinality(Unanswered)
      BY <2>1, <1>2, SmallerCounts
    <3> QED
      BY <2>1, <3>1, <1>1, <1>3
  <2>2. CASE /\ counted'.answered <= counted.answered /\ counter + 1 <= counter'
             /\ \E u : Unanswered' \subseteq Unanswered \cup {u}
    <3>1. PICK u : Unanswered' \in SUBSET (Unanswered \cup {u})
      BY <2>2
    <3>2. Cardinality(Unanswered') \in Nat /\ Cardinality(Unanswered') <= Cardinality(Unanswered) + 1
      BY <3>1, <1>2, SmallerCounts
    <3> QED
      BY <2>2, <3>2, <1>1, <1>3
  <2>3. CASE /\ counted'.answered <= counted.answered + 1 /\ counter <= counter'
             /\ \E u \in Unanswered : Unanswered' \subseteq Unanswered \ {u}
    <3>1. PICK u \in Unanswered : Unanswered' \in SUBSET (Unanswered \ {u})
      BY <2>3
    <3>2. Cardinality(Unanswered') \in Nat /\ Cardinality(Unanswered') <= Cardinality(Unanswered) - 1
      BY <3>1, <1>2, SmallerCounts
    <3> QED
      BY <2>3, <3>2, <1>1, <1>3
  <2> QED
    BY <2>1, <2>2, <2>3
<1>5. counter' + Cardinality(Increments') + Cardinality(SentOnce') <= 2 * counted'.begun
  <2>1. CASE /\ counter' <= counter /\ counted'.begun >= counted.begun
             /\ Increments' \subseteq Increments /\ SentOnce' \subseteq SentOnce
    <3>1. Cardinality(Increments') \in Nat /\ Cardinality(Increments') <= Cardinality(Increments)
          /\ Cardinality(SentOnce') \in Nat /\ Cardinality(SentOnce') <= Cardinality(SentOnce)
      BY <2>1, <1>2, SmallerCounts
    <3> QED
      BY <2>1, <3>1, <1>1, <1>3
  <2>2. CASE /\ counter' <= counter /\ counted'.begun >= counted.begun + 1
             /\ \E c, u : /\ Increments' \subseteq Increments \cup {c}
                          /\ SentOnce' \subseteq SentOnce \cup {u}
    <3>1. PICK c, u : /\ Increments' \in SUBSET (Increments \cup {c})
                      /\ SentOnce' \in SUBSET (SentOnce \cup {u})
      BY <2>2
    <3>2. Cardinality(Increments') \in Nat /\ Cardinality(Increments') <= Cardinality(Increments) + 1
      BY <3>1, <1>2, SmallerCounts
    <3>3. Cardinality(SentOnce') \in Nat /\ Cardinality(SentOnce') <= Cardinality(SentOnce) + 1
      BY <3>1, <1>2, SmallerCounts
    <3> QED
      BY <2>2, <3>2, <3>3, <1>1, <1>3
  <2>3. CASE /\ counter' <= counter + 1 /\ counted'.begun >= counted.begun
             /\ SentOnce' \subseteq SentOnce
             /\ \E c \in Increments : Increments' \subseteq Increments \ {c}
    <3>1. PICK c \in Increments : Increments' \in SUBSET (Increments \ {c})
      BY <2>3
    <3>2. Cardinality(Increments') \in Nat /\ Cardinality(Increments') <= Cardinality(Increments) - 1
      BY <3>1, <1>2, SmallerCounts
    <3>3. Cardinality(SentOnce') \in Nat /\ Cardinality(SentOnce') <= Cardinality(SentOnce)
      BY <2>3, <1>2, SmallerCounts
    <3> QED
      BY <2>3, <3>2, <3>3, <1>1, <1>3
  <2>4. CASE /\ counter' <= counter /\ counted'.begun >= counted.begun
             /\ \E c : Increments' \subseteq Increments \cup {c}
             /\ \E u \in SentOnce : SentOnce' \subseteq SentOnce \ {u}
    <3>1. PICK u \in SentOnce : SentOnce' \in SUBSET (SentOnce \ {u})
      BY <2>4
    <3>2. Cardinality(SentOnce') \in Nat /\ Cardinality(SentOnce') <= Cardinality(SentOnce) - 1
      BY <3>1, <1>2, SmallerCounts
    <3>3. PICK c : Increments' \in SUBSET (Increments \cup {c})
      BY <2>4
    <3>4. Cardinality(Increments') \in Nat /\ Cardinality(Increments') <= Cardinality(Increments) + 1
      BY <3>3, <1>2, SmallerCounts
    <3> QED
      BY <2>4, <3>2, <3>4, <1>1, <1>3
  <2> QED
    BY <2>1, <2>2, <2>3, <2>4
<1> QED
  BY <1>4, <1>5

\* Sending a command for a call that increments nothing yet.
LEMMA AskCounts ==
  ASSUME StoreInv, CounterInv, NEW k \in Calls, NEW does, NEW keys, NEW value,
         request[k].does \in {"nothing", "keys"}, Ask(k, does, keys, value), counter' = counter,
         counted' \in [begun : Nat, answered : Nat, flushed : BOOLEAN],
         Counter \in keys => counted'.flushed, counted.flushed => counted'.flushed,
         counted'.answered = counted.answered, counted'.begun >= counted.begun,
         does = "increment" => counted'.begun = counted.begun + 1
  PROVE  CounterInv'
<1>1. /\ sent \in Nat /\ counter \in Nat /\ counted.begun \in Nat /\ counted.answered \in Nat
      /\ IsFiniteSet(inRedis) /\ CommandsDiffer
      /\ \A c \in inRedis : Counter \in c.keys => counted.flushed
      /\ \A j \in Calls : Counter \in request[j].keys => counted.flushed
  BY DEF StoreInv, RedisTypeOK, CounterInv
<1>2. \A j \in Calls : request[j] \in RedisRequests /\ request[j].command \in Nat /\ request[j].command <= sent
  BY DEF StoreInv, RedisTypeOK, CallsAreSound, RedisRequests
<1> DEFINE new == [id |-> sent + 1, does |-> does, keys |-> keys, value |-> value]
<1>3. inRedis' = inRedis \cup {new} /\ new.id = sent + 1 /\ new.does = does /\ new.keys = keys
  BY DEF Ask, Send
<1> HIDE DEF new
<1>4. request'[k].does = does /\ request'[k].keys = keys /\ request'[k].command = sent + 1 /\ request'[k].tries = 0
  BY DEF Ask
<1>5. ASSUME NEW j \in Calls, j # k
      PROVE  /\ request'[j].does = request[j].does /\ request'[j].keys = request[j].keys
             /\ request'[j].command = request[j].command /\ request'[j].tries = request[j].tries
  <2>1. request'[j] = [request[j] EXCEPT !.alone = @ /\ request[j].keys \cap keys = {}]
    BY <1>5 DEF Ask
  <2> QED
    BY <2>1, <1>2 DEF RedisRequests
<1>6. IsFiniteSet(inRedis')
  BY <1>1, <1>3, FS_AddElement
<1>7. CommandsDiffer'
  <2> SUFFICES ASSUME NEW i \in Calls, NEW j \in Calls, i # j, request'[i].does # "nothing"
               PROVE  request'[i].command # request'[j].command
    BY DEF CommandsDiffer
  <2>1. CASE i = k \/ j = k
    BY <2>1, <1>1, <1>2, <1>4, <1>5
  <2>2. CASE i # k /\ j # k
    BY <2>2, <1>1, <1>5 DEF CommandsDiffer
  <2> QED
    BY <2>1, <2>2
<1>8. \A c \in inRedis' : Counter \in c.keys => counted'.flushed
  BY <1>1, <1>3
<1>9. \A j \in Calls : Counter \in request'[j].keys => counted'.flushed
  BY <1>1, <1>4, <1>5
<1>10. Unanswered' \subseteq Unanswered
  <2> SUFFICES ASSUME NEW j \in Calls, request'[j].does = "increment", Replied(j)'
               PROVE  request'[j].command \in Unanswered
    BY DEF Unanswered
  <2>1. j # k
    BY <1>3, <1>4 DEF Replied
  <2>2. Replied(j) /\ request[j].does = "increment" /\ request'[j].command = request[j].command
    BY <2>1, <1>3, <1>5 DEF Replied
  <2> QED
    BY <2>2 DEF Unanswered
<1>11. \A n \in SentOnce' : n \in SentOnce \/ (does = "increment" /\ n = sent + 1)
  <2> SUFFICES ASSUME NEW j \in Calls, request'[j].does = "increment", request'[j].tries = 0
               PROVE  \/ request'[j].command \in SentOnce
                      \/ does = "increment" /\ request'[j].command = sent + 1
    BY DEF SentOnce
  <2>1. CASE j = k
    BY <2>1, <1>4
  <2>2. CASE j # k
    BY <2>2, <1>5 DEF SentOnce
  <2> QED
    BY <2>1, <2>2
<1>12. \A c \in Increments' : c \in Increments \/ (does = "increment" /\ c = new)
  BY <1>3 DEF Increments
<1>13. \/ /\ counter' <= counter /\ counted'.begun >= counted.begun
          /\ Increments' \subseteq Increments /\ SentOnce' \subseteq SentOnce
       \/ /\ counter' <= counter /\ counted'.begun >= counted.begun + 1
          /\ \E c, u : /\ Increments' \subseteq Increments \cup {c}
                       /\ SentOnce' \subseteq SentOnce \cup {u}
  <2>1. CASE does = "increment"
    <3>1. counter' <= counter /\ counted'.begun >= counted.begun + 1
      BY <2>1, <1>1
    <3>2. Increments' \subseteq Increments \cup {new} /\ SentOnce' \subseteq SentOnce \cup {sent + 1}
      BY <1>11, <1>12
    <3> QED
      BY <3>1, <3>2
  <2>2. CASE does # "increment"
    BY <2>2, <1>1, <1>11, <1>12
  <2> QED
    BY <2>1, <2>2
<1>14. counter' \in Nat /\ counter <= counter' /\ counted'.answered <= counted.answered
  BY <1>1
<1>15. /\ counted'.flushed \/ counted'.answered + Cardinality(Unanswered)' <= counter'
       /\ counter' + Cardinality(Increments)' + Cardinality(SentOnce)' <= 2 * counted'.begun
  BY <1>10, <1>13, <1>14, CounterBounds
<1> QED
  BY <1>6, <1>7, <1>8, <1>9, <1>14, <1>15 DEF CounterInv

\* A call that ends: if it answers that it incremented, its command was executed.
LEMMA EndCounts ==
  ASSUME StoreInv, CounterInv, NEW k \in Calls, request' = [request EXCEPT ![k] = NoRequest],
         UNCHANGED <<counter, inRedis>>,
         \/ counted' = counted
         \/ /\ Replied(k) /\ request[k].does = "increment"
            /\ counted' = [counted EXCEPT !.answered = @ + 1]
  PROVE  CounterInv'
<1>1. /\ counter \in Nat /\ counted \in [begun : Nat, answered : Nat, flushed : BOOLEAN]
      /\ IsFiniteSet(inRedis) /\ CommandsDiffer
      /\ \A c \in inRedis : Counter \in c.keys => counted.flushed
      /\ \A j \in Calls : Counter \in request[j].keys => counted.flushed
  BY DEF CounterInv
<1>2. request'[k] = NoRequest /\ \A j \in Calls : j # k => request'[j] = request[j]
  BY DEF StoreInv, RedisTypeOK
<1>3. request'[k].does = "nothing" /\ request'[k].keys = {} /\ request'[k].command = 0
  BY <1>2 DEF NoRequest
<1>4. \A j \in Calls : request[j].does # "nothing" => request[j].command # 0
  BY DEF StoreInv, CallsAreSound
<1>5. CommandsDiffer'
  BY <1>1, <1>2, <1>3, <1>4 DEF CommandsDiffer
<1>6. counted' \in [begun : Nat, answered : Nat, flushed : BOOLEAN] /\ counted'.flushed = counted.flushed
      /\ counted'.begun = counted.begun
  BY <1>1
<1>7. /\ \A c \in inRedis' : Counter \in c.keys => counted'.flushed
      /\ \A j \in Calls : Counter \in request'[j].keys => counted'.flushed
  BY <1>1, <1>2, <1>3, <1>6
<1>8. ASSUME NEW n \in Unanswered'
      PROVE  n \in Unanswered /\ (request[k].does = "increment" => n # request[k].command)
  <2>1. PICK j \in Calls : request'[j].does = "increment" /\ Replied(j)' /\ n = request'[j].command
    BY <1>8 DEF Unanswered
  <2>2. j # k /\ request'[j] = request[j]
    BY <2>1, <1>2, <1>3
  <2>3. Replied(j) /\ request[j].does = "increment" /\ n = request[j].command
    BY <2>1, <2>2 DEF Replied
  <2> QED
    BY <2>2, <2>3, <1>1 DEF Unanswered, CommandsDiffer
<1>9. SentOnce' \subseteq SentOnce
  BY <1>2, <1>3 DEF SentOnce
<1>10. Increments' \subseteq Increments
  BY DEF Increments
<1>11. counted.begun \in Nat /\ counted.answered \in Nat /\ counter' = counter
  BY <1>1
<1>12. \/ /\ counted'.answered <= counted.answered /\ counter <= counter'
          /\ Unanswered' \subseteq Unanswered
       \/ /\ counted'.answered <= counted.answered + 1 /\ counter <= counter'
          /\ \E u \in Unanswered : Unanswered' \subseteq Unanswered \ {u}
  <2>1. CASE counted' = counted
    BY <2>1, <1>1, <1>8, <1>11
  <2>2. CASE /\ Replied(k) /\ request[k].does = "increment"
             /\ counted' = [counted EXCEPT !.answered = @ + 1]
    <3>1. request[k].command \in Unanswered /\ Unanswered' \subseteq Unanswered \ {request[k].command}
      BY <2>2, <1>8 DEF Unanswered
    <3>2. counted'.answered <= counted.answered + 1 /\ counter <= counter'
      BY <2>2, <1>1, <1>11
    <3> QED
      BY <3>1, <3>2
  <2> QED
    BY <2>1, <2>2
<1>13. counter' <= counter /\ counted'.begun >= counted.begun /\ counter' \in Nat
  BY <1>1, <1>6, <1>11
<1>14. /\ counted'.flushed \/ counted'.answered + Cardinality(Unanswered)' <= counter'
       /\ counter' + Cardinality(Increments)' + Cardinality(SentOnce)' <= 2 * counted'.begun
  BY <1>6, <1>9, <1>10, <1>12, <1>13, CounterBounds
<1> QED
  BY <1>1, <1>5, <1>6, <1>7, <1>13, <1>14 DEF CounterInv

\* Sending an increment a second time uses up the room it had.
LEMMA TimesOutCounts ==
  ASSUME StoreInv, CounterInv, NEW k \in Calls, TimesOut(k)
  PROVE  CounterInv'
<1>1. /\ sent \in Nat /\ counter \in Nat /\ counted \in [begun : Nat, answered : Nat, flushed : BOOLEAN]
      /\ IsFiniteSet(inRedis) /\ CommandsDiffer
      /\ \A c \in inRedis : Counter \in c.keys => counted.flushed
      /\ \A j \in Calls : Counter \in request[j].keys => counted.flushed
  BY DEF StoreInv, RedisTypeOK, CounterInv
<1>2. \A j \in Calls : request[j] \in RedisRequests /\ request[j].command \in Nat /\ request[j].command <= sent
                      /\ request[j].tries \in Nat
  BY DEF StoreInv, RedisTypeOK, CallsAreSound, RedisRequests
<1>3. counter' = counter /\ counted' = counted /\ request[k].does # "nothing" /\ request[k].tries = 0
  BY <1>2 DEF TimesOut, Retries
<1> DEFINE new == [id |-> sent + 1, does |-> request[k].does, keys |-> request[k].keys,
                   value |-> IF Writes(request[k]) THEN request[k].value ELSE None]
<1>4. inRedis' = inRedis \cup {new} /\ new.id = sent + 1 /\ new.does = request[k].does
      /\ new.keys = request[k].keys
  BY DEF TimesOut, Send
<1> HIDE DEF new
<1>5. /\ request'[k].does = request[k].does /\ request'[k].keys = request[k].keys
      /\ request'[k].command = sent + 1 /\ request'[k].tries = 1
  <2>1. request'[k] = [request[k] EXCEPT !.command = sent + 1, !.tries = @ + 1]
    BY DEF TimesOut, StoreInv, RedisTypeOK
  <2>2. request'[k].command = sent + 1
    BY <2>1, <1>2 DEF RedisRequests
  <2>3. request'[k].tries = request[k].tries + 1
    BY <2>1, <1>2 DEF RedisRequests
  <2>4. request'[k].does = request[k].does /\ request'[k].keys = request[k].keys
    BY <2>1, <1>2 DEF RedisRequests
  <2> QED
    BY <2>2, <2>3, <2>4, <1>3
<1>6. \A j \in Calls : j # k => request'[j] = request[j]
  BY DEF TimesOut, StoreInv, RedisTypeOK
<1>7. IsFiniteSet(inRedis')
  BY <1>1, <1>4, FS_AddElement
<1>8. CommandsDiffer'
  <2> SUFFICES ASSUME NEW i \in Calls, NEW j \in Calls, i # j, request'[i].does # "nothing"
               PROVE  request'[i].command # request'[j].command
    BY DEF CommandsDiffer
  <2>1. CASE i = k \/ j = k
    BY <2>1, <1>1, <1>2, <1>5, <1>6
  <2>2. CASE i # k /\ j # k
    BY <2>2, <1>1, <1>6 DEF CommandsDiffer
  <2> QED
    BY <2>1, <2>2
<1>9. /\ \A c \in inRedis' : Counter \in c.keys => counted'.flushed
      /\ \A j \in Calls : Counter \in request'[j].keys => counted'.flushed
  BY <1>1, <1>3, <1>4, <1>5, <1>6
<1>10. Unanswered' \subseteq Unanswered
  <2> SUFFICES ASSUME NEW j \in Calls, request'[j].does = "increment", Replied(j)'
               PROVE  request'[j].command \in Unanswered
    BY DEF Unanswered
  <2>1. j # k
    BY <1>4, <1>5 DEF Replied
  <2>2. Replied(j) /\ request[j].does = "increment" /\ request'[j].command = request[j].command
    BY <2>1, <1>4, <1>6 DEF Replied
  <2> QED
    BY <2>2 DEF Unanswered
<1>11. ASSUME NEW n \in SentOnce'
       PROVE  n \in SentOnce /\ n # request[k].command
  <2>1. PICK j \in Calls : request'[j].does = "increment" /\ request'[j].tries = 0 /\ n = request'[j].command
    BY <1>11 DEF SentOnce
  <2>2. j # k /\ request'[j] = request[j]
    BY <2>1, <1>5, <1>6
  <2> QED
    BY <2>1, <2>2, <1>1 DEF SentOnce, CommandsDiffer
<1>12. \A c \in Increments' : c \in Increments \/ (request[k].does = "increment" /\ c = new)
  BY <1>4 DEF Increments
<1>13. \/ /\ counter' <= counter /\ counted'.begun >= counted.begun
          /\ Increments' \subseteq Increments /\ SentOnce' \subseteq SentOnce
       \/ /\ counter' <= counter /\ counted'.begun >= counted.begun
          /\ \E c : Increments' \subseteq Increments \cup {c}
          /\ \E u \in SentOnce : SentOnce' \subseteq SentOnce \ {u}
  <2>1. CASE request[k].does = "increment"
    <3>1. request[k].command \in SentOnce
      BY <2>1, <1>3 DEF SentOnce
    <3>2. SentOnce' \subseteq SentOnce \ {request[k].command} /\ Increments' \subseteq Increments \cup {new}
      BY <1>11, <1>12
    <3> QED
      BY <3>1, <3>2, <1>1, <1>3
  <2>2. CASE request[k].does # "increment"
    BY <2>2, <1>1, <1>3, <1>11, <1>12
  <2> QED
    BY <2>1, <2>2
<1>14. counter' \in Nat /\ counted' \in [begun : Nat, answered : Nat, flushed : BOOLEAN]
       /\ (counted.flushed => counted'.flushed)
       /\ counter <= counter' /\ counted'.answered <= counted.answered
  BY <1>1, <1>3
<1>15. /\ counted'.flushed \/ counted'.answered + Cardinality(Unanswered)' <= counter'
       /\ counter' + Cardinality(Increments)' + Cardinality(SentOnce)' <= 2 * counted'.begun
  BY <1>10, <1>13, <1>14, CounterBounds
<1> QED
  BY <1>7, <1>8, <1>9, <1>14, <1>15 DEF CounterInv

\* Redis counts an increment, and forgets the counter only for a flush.
LEMMA ExecuteCounts ==
  ASSUME StoreInv, CounterInv, NEW c \in inRedis, Execute(c)
  PROVE  CounterInv'
<1>1. /\ counter \in Nat /\ counted \in [begun : Nat, answered : Nat, flushed : BOOLEAN]
      /\ IsFiniteSet(inRedis) /\ CommandsDiffer
      /\ \A d \in inRedis : Counter \in d.keys => counted.flushed
      /\ \A j \in Calls : Counter \in request[j].keys => counted.flushed
  BY DEF CounterInv
<1>2. inRedis' = inRedis \ {c} /\ counted' = counted
  BY DEF Execute
<1>3. \A j \in Calls : request[j] \in RedisRequests
  BY DEF StoreInv, RedisTypeOK
<1>4. ASSUME NEW j \in Calls
      PROVE  /\ request'[j].does = request[j].does /\ request'[j].keys = request[j].keys
             /\ request'[j].command = request[j].command /\ request'[j].tries = request[j].tries
  <2>1. request'[j] = request[j] \/ request'[j] = [request[j] EXCEPT !.value = GetKeys]
    BY DEF Execute, StoreInv, RedisTypeOK
  <2> QED
    BY <2>1, <1>3 DEF RedisRequests
<1>5. IsFiniteSet(inRedis')
  BY <1>1, <1>2, FS_RemoveElement
<1>6. CommandsDiffer'
  BY <1>1, <1>4 DEF CommandsDiffer
<1>7. /\ \A d \in inRedis' : Counter \in d.keys => counted'.flushed
      /\ \A j \in Calls : Counter \in request'[j].keys => counted'.flushed
  BY <1>1, <1>2, <1>4
<1>8. ASSUME NEW n \in Unanswered'
      PROVE  n \in Unanswered \/ (c.does = "increment" /\ n = c.id)
  <2>1. PICK j \in Calls : request'[j].does = "increment" /\ Replied(j)' /\ n = request'[j].command
    BY <1>8 DEF Unanswered
  <2>2. request[j].does = "increment" /\ n = request[j].command /\ \A d \in inRedis \ {c} : d.id # n
    BY <2>1, <1>2, <1>4 DEF Replied
  <2>3. CASE c.id = n
    BY <2>2, <2>3 DEF StoreInv, CommandsAreOfRequests
  <2>4. CASE c.id # n
    BY <2>2, <2>4 DEF Unanswered, Replied
  <2> QED
    BY <2>3, <2>4
<1>9. SentOnce' \subseteq SentOnce
  BY <1>4 DEF SentOnce
<1>10. Increments' = Increments \ {c}
  BY <1>2 DEF Increments
<1>11. counted'.begun >= counted.begun /\ counted'.answered <= counted.answered
       /\ counted' \in [begun : Nat, answered : Nat, flushed : BOOLEAN]
       /\ (counted.flushed => counted'.flushed)
  BY <1>1, <1>2
<1>12. /\ counter' \in Nat
       /\ \/ counted'.flushed
          \/ /\ counted'.answered <= counted.answered /\ counter <= counter'
             /\ Unanswered' \subseteq Unanswered
          \/ /\ counted'.answered <= counted.answered /\ counter + 1 <= counter'
             /\ \E u : Unanswered' \subseteq Unanswered \cup {u}
       /\ \/ /\ counter' <= counter /\ counted'.begun >= counted.begun
             /\ Increments' \subseteq Increments /\ SentOnce' \subseteq SentOnce
          \/ /\ counter' <= counter + 1 /\ counted'.begun >= counted.begun
             /\ SentOnce' \subseteq SentOnce
             /\ \E d \in Increments : Increments' \subseteq Increments \ {d}
  <2>1. CASE c.does = "increment"
    <3>1. counter' = counter + 1 /\ c \in Increments
      BY <2>1 DEF Execute, Increments
    <3>2. counter' \in Nat /\ counter + 1 <= counter' /\ counter' <= counter + 1
      BY <3>1, <1>1
    <3>3. Unanswered' \subseteq Unanswered \cup {c.id}
      BY <1>8
    <3> QED
      BY <3>1, <3>2, <3>3, <1>9, <1>10, <1>11
  <2>2. CASE c.does # "increment"
    <3>1. Unanswered' \subseteq Unanswered
      BY <2>2, <1>8
    <3>2. counter' = (IF Counter \in c.keys THEN 0 ELSE counter)
      BY <2>2 DEF Execute
    <3>3. counter' \in Nat /\ counter' <= counter /\ (counted'.flushed \/ counter <= counter')
      BY <3>2, <1>1, <1>2
    <3> QED
      BY <3>1, <3>3, <1>9, <1>10, <1>11
  <2> QED
    BY <2>1, <2>2
<1>13. /\ counted'.flushed \/ counted'.answered + Cardinality(Unanswered)' <= counter'
       /\ counter' + Cardinality(Increments)' + Cardinality(SentOnce)' <= 2 * counted'.begun
  BY <1>11, <1>12, CounterBounds
<1> QED
  BY <1>5, <1>6, <1>7, <1>11, <1>12, <1>13 DEF CounterInv

\* The invariant about the counter holds at first and after every step.
LEMMA CounterInvInductive ==
  ASSUME RedisStoreConstants
  PROVE  /\ RedisInit => CounterInv
         /\ StoreInv /\ CounterInv /\ [RedisNext]_redisVars => CounterInv'
<1>1. ASSUME RedisInit
      PROVE  CounterInv
  <2>1. inRedis = {} /\ counter = 0 /\ counted = [begun |-> 0, answered |-> 0, flushed |-> FALSE]
        /\ \A k \in Calls : request[k].does = "nothing" /\ request[k].keys = {}
    BY <1>1 DEF RedisInit, NoRequest
  <2>2. Unanswered = {} /\ SentOnce = {} /\ Increments = {}
    BY <2>1 DEF Unanswered, SentOnce, Increments
  <2>3. IsFiniteSet({}) /\ Cardinality({}) = 0
    BY FS_EmptySet
  <2> QED
    BY <2>1, <2>2, <2>3 DEF CounterInv, CommandsDiffer
<1>2. ASSUME StoreInv, CounterInv, [RedisNext]_redisVars
      PROVE  CounterInv'
  <2>0. counter \in Nat /\ counted \in [begun : Nat, answered : Nat, flushed : BOOLEAN]
        /\ \A k \in Calls : Counter \in request[k].keys => counted.flushed
    BY <1>2 DEF CounterInv
  <2>1. CASE UNCHANGED redisVars \/ ConnectRedis \/ DisconnectRedis
    <3>1. UNCHANGED <<counter, inRedis, request, counted>>
      BY <2>1 DEF redisVars, ConnectRedis, DisconnectRedis
    <3>2. Unanswered' = Unanswered /\ SentOnce' = SentOnce /\ Increments' = Increments
      BY <3>1 DEF Unanswered, Replied, SentOnce, Increments
    <3>3. CommandsDiffer'
      BY <1>2, <3>1 DEF CounterInv, CommandsDiffer
    <3> QED
      BY <1>2, <3>1, <3>2, <3>3 DEF CounterInv
  <2>2. ASSUME NEW k \in Calls, NEW does \in {"set", "delete", "increment", "keys"}, NEW keys, NEW value,
               Begin(k, does, keys, value), Counter \notin keys,
               \/ counted' = counted /\ does # "increment"
               \/ counted' = [counted EXCEPT !.begun = @ + 1]
        PROVE  CounterInv'
    <3>1. /\ counted' \in [begun : Nat, answered : Nat, flushed : BOOLEAN]
          /\ counted'.flushed = counted.flushed /\ counted'.answered = counted.answered
          /\ counted'.begun >= counted.begun
          /\ does = "increment" => counted'.begun = counted.begun + 1
      BY <2>0, <2>2
    <3>2. request[k].does = "nothing" /\ Ask(k, does, keys, value) /\ counter' = counter
      BY <2>2 DEF Begin
    <3> QED
      BY <1>2, <2>2, <3>1, <3>2, AskCounts
  <2>3. ASSUME NEW k \in Calls, NEW x \in SessionKeys,
               (\E v \in Data : SetSession(k, x, v)) \/ DeleteSession(k, x)
        PROVE  CounterInv'
    BY <2>2, <2>3 DEF SetSession, DeleteSession, RedisStoreConstants, StoreKeys
  <2>4. ASSUME NEW k \in Calls, NEW x \in Cached, NEW v \in Data, SetCache(k, x, v)
        PROVE  CounterInv'
    BY <2>2, <2>4 DEF SetCache, RedisStoreConstants, StoreKeys
  <2>5. ASSUME NEW k \in Calls, IncrementCounter(k) \/ FlushDb(k)
        PROVE  CounterInv'
    BY <2>2, <2>5 DEF IncrementCounter, FlushDb
  <2>6. ASSUME NEW k \in Calls, ReplyArrives(k)
        PROVE  CounterInv'
    <3>1. Replied(k) /\ request' = [request EXCEPT ![k] = NoRequest] /\ counter' = counter /\ inRedis' = inRedis
          /\ counted' = (IF request[k].does = "increment" THEN [counted EXCEPT !.answered = @ + 1] ELSE counted)
      BY <2>6 DEF ReplyArrives, Answered
    <3> QED
      BY <1>2, <3>1, EndCounts
  <2>7. ASSUME NEW k \in Calls, KeysArrive(k)
        PROVE  CounterInv'
    <3>1. PICK keys : keys = request[k].value
      OBVIOUS
    <3>2. request[k].does = "keys" /\ Ask(k, "delete", keys, None) /\ counter' = counter
          /\ counted' = [counted EXCEPT !.flushed = @ \/ Counter \in keys]
      BY <2>7, <3>1 DEF KeysArrive
    <3>3. /\ counted' \in [begun : Nat, answered : Nat, flushed : BOOLEAN]
          /\ Counter \in keys => counted'.flushed
          /\ counted.flushed => counted'.flushed
          /\ counted'.answered = counted.answered /\ counted'.begun >= counted.begun
      <4>1. PICK flushed \in BOOLEAN : flushed = (counted.flushed \/ Counter \in keys)
        BY <2>0
      <4>2. counted' = [counted EXCEPT !.flushed = flushed]
        BY <3>2, <4>1
      <4>3. counted.begun \in Nat /\ counted' \in [begun : Nat, answered : Nat, flushed : BOOLEAN]
            /\ counted'.flushed = flushed
            /\ counted'.answered = counted.answered /\ counted'.begun = counted.begun
        BY <2>0, <4>2
      <4>4. (Counter \in keys => flushed) /\ (counted.flushed => flushed)
        BY <4>1
      <4> QED
        BY <4>3, <4>4
    <3> QED
      BY <1>2, <3>2, <3>3, AskCounts
  <2>8. ASSUME NEW k \in Calls, TimesOut(k)
        PROVE  CounterInv'
    BY <1>2, <2>8, TimesOutCounts
  <2>9. ASSUME NEW k \in Calls, Fails(k)
        PROVE  CounterInv'
    BY <1>2, <2>9, EndCounts DEF Fails
  <2>10. ASSUME NEW c \in inRedis, Execute(c)
         PROVE  CounterInv'
    BY <1>2, <2>10, ExecuteCounts
  <2>11. ASSUME NEW x \in StoreKeys, Expire(x)
         PROVE  CounterInv'
    <3>1. inRedis' = inRedis /\ counter' = counter /\ counted' = counted
      BY <2>11 DEF Expire
    <3>2. ASSUME NEW k \in Calls
          PROVE  /\ request'[k].does = request[k].does /\ request'[k].keys = request[k].keys
                 /\ request'[k].command = request[k].command /\ request'[k].tries = request[k].tries
      <4>1. request[k] \in RedisRequests
        BY <1>2 DEF StoreInv, RedisTypeOK
      <4>2. request'[k] = [request[k] EXCEPT !.alone = @ /\ x \notin request[k].keys]
        BY <2>11 DEF Expire
      <4> QED
        BY <4>1, <4>2 DEF RedisRequests
    <3>3. Unanswered' = Unanswered /\ SentOnce' = SentOnce /\ Increments' = Increments
      BY <3>1, <3>2 DEF Unanswered, Replied, SentOnce, Increments
    <3>4. CommandsDiffer'
      BY <1>2, <3>2 DEF CounterInv, CommandsDiffer
    <3> QED
      BY <1>2, <3>1, <3>2, <3>3, <3>4 DEF CounterInv
  <2> QED
    BY <1>2, <2>1, <2>3, <2>4, <2>5, <2>6, <2>7, <2>8, <2>9, <2>10, <2>11 DEF RedisNext
<1> QED
  BY <1>1, <1>2

\* After a write was answered with True its key reads as written until it expires, as
\* long as no other write of the key could still have happened since it began; increments
\* that were answered are counted, and none more often than its command was sent.
THEOREM AnswersSafe == RedisSpec => []AnswersHold
<1>1. RedisInit => StoreInv /\ CounterInv
  BY RedisStoreConstants, StoreInvInductive, CounterInvInductive
<1>2. StoreInv /\ CounterInv /\ [RedisNext]_redisVars => (StoreInv /\ CounterInv)'
  BY RedisStoreConstants, StoreInvInductive, CounterInvInductive
<1>3. StoreInv /\ CounterInv => AnswersHold
  <2> SUFFICES ASSUME StoreInv, CounterInv, connected
               PROVE  /\ \A x \in SessionKeys : /\ GetSession(x) \in permitted[x]
                                             /\ SessionExists(x) => permitted[x] # {None}
                      /\ \A x \in Cached : GetCache(x) \in permitted[x]
                      /\ counted.flushed \/ counted.answered <= GetCounter
                      /\ GetCounter <= (1 + Retries) * counted.begun
    BY DEF AnswersHold
  <2>1. \A x \in StoreKeys : stored[x] \in permitted[x]
    BY DEF StoreInv, WritesArePermitted
  <2>2. \A x \in SessionKeys : /\ GetSession(x) \in permitted[x]
                              /\ SessionExists(x) => permitted[x] # {None}
    BY <2>1 DEF GetSession, SessionExists, StoreKeys
  <2>3. \A x \in Cached : GetCache(x) \in permitted[x]
    BY <2>1 DEF GetCache, StoreKeys
  <2>4. IsFiniteSet(Unanswered) /\ IsFiniteSet(SentOnce) /\ IsFiniteSet(Increments)
    BY CountedSetsAreFinite DEF CounterInv
  <2>5. Cardinality(Unanswered) \in Nat /\ Cardinality(SentOnce) \in Nat /\ Cardinality(Increments) \in Nat
    BY <2>4, FS_CardinalityType
  <2>6. /\ counter \in Nat /\ counted.begun \in Nat /\ counted.answered \in Nat
        /\ counted.flushed \/ counted.answered + Cardinality(Unanswered) <= counter
        /\ counter + Cardinality(Increments) + Cardinality(SentOnce) <= 2 * counted.begun
    BY DEF CounterInv
  <2>7. GetCounter = counter /\ 1 + Retries = 2
    BY DEF GetCounter, Retries
  <2>8. counted.flushed \/ counted.answered <= GetCounter
    BY <2>5, <2>6, <2>7
  <2>9. GetCounter <= (1 + Retries) * counted.begun
    BY <2>5, <2>6, <2>7
  <2> QED
    BY <2>2, <2>3, <2>8, <2>9
<1> QED
  BY <1>1, <1>2, <1>3, PTL DEF RedisSpec

-----------------------------------------------------------------------------
(***************************************************************************)
(* Volumes, snapshots and backups.                                         *)
(***************************************************************************)
Contents == Nat \cup {None}

VolumeRecords == [for : Pods \cup {None}, attached : Pods \cup {None}, tracked : BOOLEAN, holds : Contents]
SnapshotRecords == [volume : Nat, tracked : BOOLEAN, taken : Contents]
BackupRecords == [snapshot : Nat, volume : Nat, status : {"pending", "in-progress", "completed", "failed"}]

StorageTypeOK ==
  /\ volumes \in Seq(VolumeRecords)
  /\ restored \in Seq(Contents) /\ Len(restored) = Len(volumes)
  /\ snapshots \in Seq(SnapshotRecords)
  /\ \A s \in SnapshotIds : snapshots[s].volume \in VolumeIds
  /\ backups \in Seq(BackupRecords)
  /\ \A b \in DOMAIN backups : backups[b].snapshot \in SnapshotIds
  /\ quiet \subseteq SnapshotIds

\* The volume of a quiet snapshot still holds what it held when the snapshot was taken.
QuietVolumesHold == \A s \in quiet : snapshots[s].taken = volumes[snapshots[s].volume].holds

StorageInv == StorageTypeOK /\ QuietVolumesHold

----------------------------------------------------------------------------
\* A volume is made: the others are what they were.
LEMMA NewVolumeKeeps ==
  ASSUME StorageInv, NEW x \in VolumeRecords, NEW r \in Contents,
         volumes' = Append(volumes, x), restored' = Append(restored, r),
         UNCHANGED <<snapshots, backups, quiet>>
  PROVE  /\ StorageInv'
         /\ DOMAIN volumes' \ VolumeIds = {Len(volumes) + 1}
         /\ volumes'[Len(volumes) + 1] = x /\ restored'[Len(volumes) + 1] = r
<1>1. StorageTypeOK /\ QuietVolumesHold
  BY DEF StorageInv
<1>2. /\ volumes \in Seq(VolumeRecords) /\ Len(volumes) \in Nat /\ VolumeIds = 1..Len(volumes)
      /\ restored \in Seq(Contents) /\ Len(restored) = Len(volumes)
  BY <1>1, LenProperties DEF StorageTypeOK, VolumeIds
<1>3. /\ volumes' \in Seq(VolumeRecords) /\ Len(volumes') = Len(volumes) + 1
      /\ DOMAIN volumes' = 1..(Len(volumes) + 1)
      /\ \A v \in 1..Len(volumes) : volumes'[v] = volumes[v]
      /\ volumes'[Len(volumes) + 1] = x
  BY <1>2, AppendProperties, LenProperties
<1>4. /\ restored' \in Seq(Contents) /\ Len(restored') = Len(volumes) + 1
      /\ restored'[Len(volumes) + 1] = r
  BY <1>2, AppendProperties
<1>5. VolumeIds \subseteq VolumeIds' /\ SnapshotIds' = SnapshotIds
  BY <1>2, <1>3 DEF VolumeIds, SnapshotIds
<1>6. StorageTypeOK'
  BY <1>1, <1>3, <1>4, <1>5 DEF StorageTypeOK
<1>7. QuietVolumesHold'
  BY <1>1, <1>2, <1>3 DEF StorageTypeOK, QuietVolumesHold
<1>8. DOMAIN volumes' \ VolumeIds = {Len(volumes) + 1}
  BY <1>2, <1>3
<1> QED
  BY <1>3, <1>4, <1>6, <1>7, <1>8 DEF StorageInv

\* Volumes change: where what they hold changes, no snapshot of them stays quiet.
LEMMA VolumeChangesKeep ==
  ASSUME StorageInv, volumes' \in Seq(VolumeRecords), Len(volumes') = Len(volumes),
         UNCHANGED <<snapshots, backups, restored>>, quiet' \subseteq quiet,
         \A v \in VolumeIds : volumes'[v].holds = volumes[v].holds \/ quiet' \cap SnapshotsOf(v) = {}
  PROVE  StorageInv' /\ DOMAIN volumes' \ VolumeIds = {}
<1>1. StorageTypeOK /\ QuietVolumesHold
  BY DEF StorageInv
<1>2. DOMAIN volumes' = VolumeIds
  BY <1>1, LenProperties DEF StorageTypeOK, VolumeIds
<1>3. VolumeIds' = VolumeIds /\ SnapshotIds' = SnapshotIds
  BY <1>2 DEF VolumeIds, SnapshotIds
<1>4. StorageTypeOK'
  BY <1>1, <1>2, <1>3 DEF StorageTypeOK
<1>5. QuietVolumesHold'
  <2> SUFFICES ASSUME NEW s \in quiet'
               PROVE  snapshots[s].taken = volumes'[snapshots[s].volume].holds
    BY DEF QuietVolumesHold
  <2>1. s \in quiet /\ s \in SnapshotIds /\ snapshots[s].volume \in VolumeIds
    BY <1>1 DEF StorageTypeOK
  <2>2. s \in SnapshotsOf(snapshots[s].volume)
    BY <2>1 DEF SnapshotsOf
  <2> QED
    BY <2>1, <2>2, <1>1 DEF QuietVolumesHold
<1> QED
  BY <1>2, <1>4, <1>5 DEF StorageInv

\* One volume changes; what it holds does not, or its snapshots are not quiet any more.
LEMMA VolumeChangeKeeps ==
  ASSUME StorageInv, NEW v \in VolumeIds, NEW x \in VolumeRecords, volumes' = [volumes EXCEPT ![v] = x],
         UNCHANGED <<snapshots, backups, restored>>,
         \/ quiet' = quiet /\ x.holds = volumes[v].holds
         \/ quiet' = quiet \ SnapshotsOf(v)
  PROVE  StorageInv' /\ DOMAIN volumes' \ VolumeIds = {}
<1>1. volumes \in Seq(VolumeRecords) /\ VolumeIds = 1..Len(volumes)
  BY LenProperties DEF StorageInv, StorageTypeOK, VolumeIds
<1>2. volumes' \in Seq(VolumeRecords) /\ Len(volumes') = Len(volumes)
      /\ \A u \in VolumeIds : volumes'[u] = IF u = v THEN x ELSE volumes[u]
  BY <1>1, ExceptSeq
<1>4. quiet' \subseteq quiet
      /\ \A u \in VolumeIds : volumes'[u].holds = volumes[u].holds \/ quiet' \cap SnapshotsOf(u) = {}
  BY <1>2
<1> QED
  BY <1>2, <1>4, VolumeChangesKeep

\* A snapshot is taken, of what the volume's directory holds.
LEMMA SnapshotKeeps ==
  ASSUME StorageInv, NEW v \in VolumeIds, snapshots' = Append(snapshots, Snapshot(v)),
         quiet' = quiet \cup {Len(snapshots) + 1}, UNCHANGED <<volumes, restored>>,
         backups' \in Seq(BackupRecords),
         \A b \in DOMAIN backups' : \/ b \in DOMAIN backups /\ backups'[b] = backups[b]
                                    \/ backups'[b].snapshot = Len(snapshots) + 1
  PROVE  StorageInv' /\ DOMAIN volumes' \ VolumeIds = {}
<1>1. StorageTypeOK /\ QuietVolumesHold
  BY DEF StorageInv
<1>2. snapshots \in Seq(SnapshotRecords) /\ Len(snapshots) \in Nat /\ SnapshotIds = 1..Len(snapshots)
  BY <1>1, LenProperties DEF StorageTypeOK, SnapshotIds
<1>3. volumes[v] \in VolumeRecords /\ v \in Nat
  <2>1. volumes \in Seq(VolumeRecords) /\ v \in 1..Len(volumes) /\ Len(volumes) \in Nat
    BY <1>1, LenProperties DEF StorageTypeOK, VolumeIds
  <2> QED
    BY <2>1, ElementOfSeq
<1>4. Snapshot(v) \in SnapshotRecords /\ Snapshot(v).volume = v /\ Snapshot(v).taken = volumes[v].holds
  BY <1>3 DEF Snapshot, SnapshotRecords, VolumeRecords
<1>5. /\ snapshots' \in Seq(SnapshotRecords) /\ Len(snapshots') = Len(snapshots) + 1
      /\ \A s \in 1..Len(snapshots) : snapshots'[s] = snapshots[s]
      /\ snapshots'[Len(snapshots) + 1] = Snapshot(v)
  BY <1>2, <1>4, AppendProperties
<1>6. SnapshotIds' = 1..(Len(snapshots) + 1) /\ VolumeIds' = VolumeIds
  BY <1>5, LenProperties DEF SnapshotIds, VolumeIds
<1>7. /\ \A s \in SnapshotIds' : s \in SnapshotIds \/ s = Len(snapshots) + 1
      /\ SnapshotIds \subseteq SnapshotIds' /\ Len(snapshots) + 1 \in SnapshotIds'
  BY <1>2, <1>6
<1>8. \A s \in SnapshotIds' : snapshots'[s].volume \in VolumeIds'
  BY <1>1, <1>2, <1>4, <1>5, <1>6, <1>7 DEF StorageTypeOK
<1>9. \A b \in DOMAIN backups' : backups'[b].snapshot \in SnapshotIds'
  BY <1>1, <1>7 DEF StorageTypeOK
<1>10. quiet' \subseteq SnapshotIds'
  BY <1>1, <1>7 DEF StorageTypeOK
<1>11. StorageTypeOK'
  BY <1>1, <1>5, <1>8, <1>9, <1>10 DEF StorageTypeOK
<1>12. QuietVolumesHold'
  <2> SUFFICES ASSUME NEW s \in quiet'
               PROVE  snapshots'[s].taken = volumes[snapshots'[s].volume].holds
    BY DEF QuietVolumesHold
  <2>1. CASE s = Len(snapshots) + 1
    BY <2>1, <1>4, <1>5
  <2>2. CASE s \in quiet
    BY <2>2, <1>1, <1>2, <1>5 DEF StorageTypeOK, QuietVolumesHold
  <2> QED
    BY <2>1, <2>2
<1> QED
  BY <1>11, <1>12 DEF StorageInv, VolumeIds

\* A backup's record changes its status.
LEMMA BackupKeeps ==
  ASSUME StorageInv, NEW b \in DOMAIN backups,
         NEW st \in {"pending", "in-progress", "completed", "failed"},
         backups' = [backups EXCEPT ![b].status = st], UNCHANGED <<volumes, snapshots, restored, quiet>>
  PROVE  StorageInv' /\ DOMAIN volumes' \ VolumeIds = {}
<1>1. StorageTypeOK /\ QuietVolumesHold
  BY DEF StorageInv
<1>2. backups \in Seq(BackupRecords) /\ DOMAIN backups = 1..Len(backups)
  BY <1>1, LenProperties DEF StorageTypeOK
<1> DEFINE x == [backups[b] EXCEPT !.status = st]
<1>3. backups[b] \in BackupRecords
  BY <1>2, ElementOfSeq
<1>4. x \in BackupRecords /\ x.snapshot = backups[b].snapshot
  BY <1>3 DEF BackupRecords
<1>5. backups' = [backups EXCEPT ![b] = x]
  OBVIOUS
<1> HIDE DEF x
<1>6. backups' \in Seq(BackupRecords) /\ Len(backups') = Len(backups)
      /\ \A a \in 1..Len(backups) : backups'[a] = IF a = b THEN x ELSE backups[a]
  BY <1>2, <1>4, <1>5, ExceptSeq
<1>7. DOMAIN backups' = DOMAIN backups /\ \A a \in DOMAIN backups : backups'[a].snapshot = backups[a].snapshot
  BY <1>2, <1>4, <1>6, LenProperties
<1>8. SnapshotIds' = SnapshotIds /\ VolumeIds' = VolumeIds
  BY DEF SnapshotIds, VolumeIds
<1>9. StorageTypeOK'
  BY <1>1, <1>6, <1>7, <1>8 DEF StorageTypeOK
<1>10. QuietVolumesHold'
  BY <1>1 DEF QuietVolumesHold
<1> QED
  BY <1>9, <1>10 DEF StorageInv, VolumeIds

\* A restore that succeeds gives what the volume holds, if it holds anything.
LEMMA RestoreKeeps ==
  ASSUME StorageInv, NEW s \in SnapshotIds, Restore(s), UNCHANGED <<snapshots, backups, quiet>>
  PROVE  StorageInv' /\ RestoredAsTaken
<1>1. StorageTypeOK /\ QuietVolumesHold
  BY DEF StorageInv
<1>2. snapshots[s].volume \in VolumeIds
  BY <1>1 DEF StorageTypeOK
<1>3. volumes[snapshots[s].volume].holds \in Contents
  <2>1. volumes[snapshots[s].volume] \in VolumeRecords
    BY <1>1, <1>2, LenProperties, ElementOfSeq DEF StorageTypeOK, VolumeIds
  <2> QED
    BY <2>1 DEF VolumeRecords
<1>4. PICK holds : holds = volumes[snapshots[s].volume].holds
  OBVIOUS
<1>5. CASE /\ volumes' = Append(volumes, NewVolume(None, None, IF holds = None THEN 0 ELSE holds))
           /\ restored' = Append(restored, s)
  <2>1. NewVolume(None, None, IF holds = None THEN 0 ELSE holds) \in VolumeRecords
    BY <1>3, <1>4 DEF NewVolume, VolumeRecords, Contents
  <2>2. s \in Contents
    BY <1>1, LenProperties DEF SnapshotIds, StorageTypeOK, Contents
  <2>3. /\ StorageInv' /\ DOMAIN volumes' \ VolumeIds = {Len(volumes) + 1}
        /\ volumes'[Len(volumes) + 1] = NewVolume(None, None, IF holds = None THEN 0 ELSE holds)
        /\ restored'[Len(volumes) + 1] = s
    BY <1>5, <2>1, <2>2, NewVolumeKeeps
  <2>4. s \in quiet => snapshots[s].taken = holds
    BY <1>1, <1>4 DEF QuietVolumesHold
  <2>5. volumes'[Len(volumes) + 1].holds = (IF holds = None THEN 0 ELSE holds)
    BY <2>3 DEF NewVolume
  <2> QED
    BY <2>3, <2>4, <2>5 DEF RestoredAsTaken
<1>6. ASSUME NEW deleted \in BOOLEAN,
             volumes' = Append(volumes, [NewVolume(None, None, None) EXCEPT !.tracked = ~ deleted]),
             restored' = Append(restored, None)
      PROVE  StorageInv' /\ RestoredAsTaken
  <2> DEFINE x == [NewVolume(None, None, None) EXCEPT !.tracked = ~ deleted]
  <2>1. x \in VolumeRecords
    BY DEF NewVolume, VolumeRecords, Contents
  <2>2. None \in Contents
    BY DEF Contents
  <2> HIDE DEF x
  <2>3. StorageInv' /\ DOMAIN volumes' \ VolumeIds = {Len(volumes) + 1} /\ restored'[Len(volumes) + 1] = None
    BY <1>6, <2>1, <2>2, NewVolumeKeeps DEF x
  <2> QED
    BY <2>3 DEF RestoredAsTaken
<1> QED
  BY <1>4, <1>5, <1>6 DEF Restore

\* Every step keeps the invariant, and restores what was taken.
LEMMA StorageStep ==
  ASSUME StorageConstants, StorageInv, [StorageNext]_storageVars
  PROVE  StorageInv' /\ [RestoredAsTaken]_storageVars
<1>1. StorageTypeOK /\ QuietVolumesHold /\ volumes \in Seq(VolumeRecords) /\ VolumePods \subseteq Pods
  BY DEF StorageInv, StorageTypeOK, StorageConstants
<1>2. \A v \in VolumeIds : volumes[v] \in VolumeRecords
  BY <1>1, LenProperties, ElementOfSeq DEF VolumeIds
<1>3. DOMAIN volumes' \ VolumeIds = {} => RestoredAsTaken
  BY DEF RestoredAsTaken
<1>4. ASSUME NEW x \in VolumeRecords, volumes' = Append(volumes, x), restored' = Append(restored, None),
             UNCHANGED <<snapshots, backups, quiet>>
      PROVE  StorageInv' /\ RestoredAsTaken
  <2>1. None \in Contents
    BY DEF Contents
  <2>2. StorageInv' /\ DOMAIN volumes' \ VolumeIds = {Len(volumes) + 1} /\ restored'[Len(volumes) + 1] = None
    BY <1>4, <2>1, NewVolumeKeeps
  <2> QED
    BY <2>2 DEF RestoredAsTaken
<1>5. CASE CreatePersistentVolume
  <2>1. NewVolume(None, None, 0) \in VolumeRecords
    BY DEF NewVolume, VolumeRecords, Contents
  <2> QED
    BY <1>4, <1>5, <2>1 DEF CreatePersistentVolume
<1>6. ASSUME NEW p \in VolumePods, CreateEphemeralVolume(p)
      PROVE  StorageInv' /\ RestoredAsTaken
  <2>1. NewVolume(p, p, 0) \in VolumeRecords
    BY <1>1 DEF NewVolume, VolumeRecords, Contents
  <2> QED
    BY <1>4, <1>6, <2>1 DEF CreateEphemeralVolume
<1>7. ASSUME NEW v \in VolumeIds, NEW p \in VolumePods, AttachVolumeToPod(v, p) \/ DetachVolumeFromPod(v, p)
      PROVE  StorageInv' /\ RestoredAsTaken
  <2>1. PICK q \in Pods \cup {None} : volumes' = [volumes EXCEPT ![v].attached = q]
    BY <1>1, <1>7 DEF AttachVolumeToPod, DetachVolumeFromPod
  <2> DEFINE x == [volumes[v] EXCEPT !.attached = q]
  <2>2. x \in VolumeRecords /\ x.holds = volumes[v].holds
    BY <1>2 DEF VolumeRecords
  <2>3. volumes' = [volumes EXCEPT ![v] = x] /\ UNCHANGED <<snapshots, backups, restored, quiet>>
    BY <1>7, <2>1 DEF AttachVolumeToPod, DetachVolumeFromPod
  <2> HIDE DEF x
  <2> QED
    BY <1>3, <2>2, <2>3, VolumeChangeKeeps
<1>8. ASSUME NEW v \in VolumeIds, Write(v)
      PROVE  StorageInv' /\ RestoredAsTaken
  <2> DEFINE x == [volumes[v] EXCEPT !.holds = @ + 1]
  <2>1. volumes[v].holds \in Nat
    BY <1>2, <1>8 DEF Write, VolumeRecords, Contents
  <2>2. x \in VolumeRecords
    BY <1>2, <2>1 DEF VolumeRecords, Contents
  <2>3. volumes' = [volumes EXCEPT ![v] = x] /\ quiet' = quiet \ SnapshotsOf(v)
        /\ UNCHANGED <<snapshots, backups, restored>>
    BY <1>8 DEF Write
  <2> HIDE DEF x
  <2> QED
    BY <1>3, <2>2, <2>3, VolumeChangeKeeps
<1>9. ASSUME NEW y \in VolumeRecords, NEW x \in Deletions(y)
      PROVE  x \in VolumeRecords
  BY <1>9 DEF Deletions, VolumeRecords, Contents
<1>10. ASSUME NEW v \in VolumeIds, DeleteVolume(v)
       PROVE  StorageInv' /\ RestoredAsTaken
  <2>1. PICK x \in Deletions(volumes[v]) : volumes' = [volumes EXCEPT ![v] = x] /\ quiet' = quiet \ SnapshotsOf(v)
    BY <1>10 DEF DeleteVolume, Deletion
  <2>2. x \in VolumeRecords
    BY <1>2, <1>9
  <2>3. UNCHANGED <<snapshots, backups, restored>>
    BY <1>10 DEF DeleteVolume
  <2> QED
    BY <1>3, <2>1, <2>2, <2>3, VolumeChangeKeeps
<1>11. ASSUME NEW p \in VolumePods, CleanupPodVolumes(p)
       PROVE  StorageInv' /\ RestoredAsTaken
  <2> DEFINE own == {v \in AttachedTo(p) : volumes[v].for = p}
             Left(v) == [volumes[v] EXCEPT !.attached = None]
  <2>1. PICK after \in [own -> UNION {Deletions(Left(v)) : v \in own}] :
          /\ \A v \in own : after[v] \in Deletions(Left(v))
          /\ volumes' = [v \in VolumeIds |-> IF v \in own THEN after[v]
                                           ELSE IF v \in AttachedTo(p) THEN Left(v) ELSE volumes[v]]
    BY <1>11 DEF CleanupPodVolumes
  <2>2. quiet' = quiet \ UNION {SnapshotsOf(v) : v \in own} /\ UNCHANGED <<snapshots, backups, restored>>
    BY <1>11 DEF CleanupPodVolumes
  <2>3. own \subseteq VolumeIds
    BY DEF AttachedTo
  <2>4. \A v \in VolumeIds : Left(v) \in VolumeRecords /\ Left(v).holds = volumes[v].holds
    BY <1>2 DEF VolumeRecords
  <2>5. \A v \in own : after[v] \in VolumeRecords
    BY <1>9, <2>1, <2>3, <2>4
  <2> HIDE DEF own, Left
  <2>6. ASSUME NEW v \in VolumeIds
        PROVE  /\ volumes'[v] \in VolumeRecords
               /\ volumes'[v].holds = volumes[v].holds \/ v \in own
    <3>1. volumes'[v] = IF v \in own THEN after[v] ELSE IF v \in AttachedTo(p) THEN Left(v) ELSE volumes[v]
      BY <2>1
    <3> QED
      BY <1>2, <2>4, <2>5, <3>1
  <2>7. Len(volumes) \in Nat /\ VolumeIds = 1..Len(volumes)
    BY <1>1, LenProperties DEF VolumeIds
  <2>8. volumes' \in [1..Len(volumes) -> VolumeRecords]
    BY <2>1, <2>6, <2>7
  <2>9. volumes' \in Seq(VolumeRecords) /\ Len(volumes') = Len(volumes)
    BY <2>7, <2>8, SeqDef
  <2>10. quiet' \subseteq quiet
         /\ \A v \in VolumeIds : volumes'[v].holds = volumes[v].holds \/ quiet' \cap SnapshotsOf(v) = {}
    BY <2>2, <2>6
  <2> QED
    BY <1>3, <2>2, <2>9, <2>10, VolumeChangesKeep
<1>12. ASSUME NEW v \in VolumeIds, CreateSnapshot(v)
       PROVE  StorageInv' /\ RestoredAsTaken
  <2>1. backups' = backups /\ backups \in Seq(BackupRecords)
    BY <1>1, <1>12 DEF CreateSnapshot, StorageTypeOK
  <2> QED
    BY <1>3, <1>12, <2>1, SnapshotKeeps DEF CreateSnapshot
<1>13. ASSUME NEW v \in VolumeIds, CreateBackup(v)
       PROVE  StorageInv' /\ RestoredAsTaken
  <2> DEFINE x == [snapshot |-> Len(snapshots) + 1, volume |-> v, status |-> "pending"]
  <2>1. x \in BackupRecords /\ x.snapshot = Len(snapshots) + 1
    <3>1. Len(snapshots) \in Nat /\ v \in Nat
      BY <1>1, LenProperties DEF StorageTypeOK, VolumeIds
    <3> QED
      BY <3>1 DEF BackupRecords
  <2>2. backups' = Append(backups, x)
    BY <1>13 DEF CreateBackup
  <2> HIDE DEF x
  <2>3. backups \in Seq(BackupRecords) /\ Len(backups) \in Nat /\ DOMAIN backups = 1..Len(backups)
    BY <1>1, LenProperties DEF StorageTypeOK
  <2>4. /\ backups' \in Seq(BackupRecords) /\ Len(backups') = Len(backups) + 1
        /\ \A b \in 1..Len(backups) : backups'[b] = backups[b]
        /\ backups'[Len(backups) + 1] = x
    BY <2>1, <2>2, <2>3, AppendProperties
  <2>5. DOMAIN backups' = 1..(Len(backups) + 1)
    BY <2>4, LenProperties
  <2>6. \A b \in DOMAIN backups' : \/ b \in DOMAIN backups /\ backups'[b] = backups[b]
                                   \/ backups'[b].snapshot = Len(snapshots) + 1
    BY <2>1, <2>3, <2>4, <2>5
  <2> QED
    BY <1>3, <1>13, <2>4, <2>6, SnapshotKeeps DEF CreateBackup
<1>14. ASSUME NEW s \in SnapshotIds, DeleteSnapshot(s)
       PROVE  StorageInv' /\ RestoredAsTaken
  <2> DEFINE x == [snapshots[s] EXCEPT !.tracked = FALSE]
  <2>1. snapshots \in Seq(SnapshotRecords) /\ SnapshotIds = 1..Len(snapshots)
    BY <1>1, LenProperties DEF StorageTypeOK, SnapshotIds
  <2>2. snapshots[s] \in SnapshotRecords
    BY <2>1, ElementOfSeq
  <2>3. x \in SnapshotRecords /\ x.volume = snapshots[s].volume /\ x.taken = snapshots[s].taken
    BY <2>2 DEF SnapshotRecords
  <2>4. snapshots' = [snapshots EXCEPT ![s] = x] /\ UNCHANGED <<volumes, backups, restored, quiet>>
    BY <1>14 DEF DeleteSnapshot
  <2> HIDE DEF x
  <2>5. snapshots' \in Seq(SnapshotRecords) /\ Len(snapshots') = Len(snapshots)
        /\ \A u \in SnapshotIds : snapshots'[u] = IF u = s THEN x ELSE snapshots[u]
    BY <2>1, <2>3, <2>4, ExceptSeq
  <2>6. SnapshotIds' = SnapshotIds /\ VolumeIds' = VolumeIds
    BY <2>1, <2>4, <2>5, LenProperties DEF SnapshotIds, VolumeIds
  <2>7. \A u \in SnapshotIds : snapshots'[u].volume = snapshots[u].volume /\ snapshots'[u].taken = snapshots[u].taken
    BY <2>3, <2>5
  <2>8. StorageTypeOK'
    BY <1>1, <2>4, <2>5, <2>6, <2>7 DEF StorageTypeOK
  <2>9. QuietVolumesHold'
    BY <1>1, <2>4, <2>7 DEF StorageTypeOK, QuietVolumesHold
  <2>10. DOMAIN volumes' \ VolumeIds = {}
    BY <2>4 DEF VolumeIds
  <2> QED
    BY <1>3, <2>8, <2>9, <2>10 DEF StorageInv
<1>15. ASSUME NEW s \in SnapshotIds, RestoreSnapshot(s)
       PROVE  StorageInv' /\ RestoredAsTaken
  BY <1>15, RestoreKeeps DEF RestoreSnapshot
<1>16. ASSUME NEW b \in DOMAIN backups, BackupBegins(b) \/ BackupEnds(b)
       PROVE  StorageInv' /\ RestoredAsTaken
  <2>1. PICK st \in {"pending", "in-progress", "completed", "failed"} :
          backups' = [backups EXCEPT ![b].status = st]
    BY <1>16 DEF BackupBegins, BackupEnds
  <2>2. UNCHANGED <<volumes, snapshots, restored, quiet>>
    BY <1>16 DEF BackupBegins, BackupEnds
  <2> QED
    BY <1>3, <2>1, <2>2, BackupKeeps
<1>17. ASSUME NEW b \in DOMAIN backups, RestoreBackup(b)
       PROVE  StorageInv' /\ RestoredAsTaken
  <2>1. PICK s \in SnapshotIds : s = backups[b].snapshot
    BY <1>1 DEF StorageTypeOK
  <2> QED
    BY <1>17, <2>1, RestoreKeeps DEF RestoreBackup
<1>18. CASE UNCHANGED storageVars
  <2>1. UNCHANGED <<volumes, snapshots, backups, restored, quiet>>
    BY <1>18 DEF storageVars
  <2>2. StorageTypeOK' /\ QuietVolumesHold'
    BY <1>1, <2>1 DEF StorageTypeOK, QuietVolumesHold, VolumeIds, SnapshotIds
  <2> QED
    BY <1>18, <2>2 DEF StorageInv
<1> QED
  BY <1>5, <1>6, <1>7, <1>8, <1>10, <1>11, <1>12, <1>13, <1>14, <1>15, <1>16, <1>17, <1>18 DEF StorageNext

\* A volume restored from a snapshot whose volume was left alone starts as the snapshot
\* was taken, or is no restored volume at all.
THEOREM RestoresFaithful == StorageSpec => QuietSnapshotsRestore
<1>1. StorageInit => StorageInv
  <2> SUFFICES ASSUME StorageInit
               PROVE  StorageInv
    OBVIOUS
  <2>1. volumes = <<>> /\ snapshots = <<>> /\ backups = <<>> /\ restored = <<>> /\ quiet = {}
    BY DEF StorageInit
  <2>2. DOMAIN snapshots = {} /\ DOMAIN backups = {}
    BY <2>1
  <2>3. volumes \in Seq(VolumeRecords) /\ snapshots \in Seq(SnapshotRecords)
        /\ backups \in Seq(BackupRecords) /\ restored \in Seq(Contents) /\ Len(restored) = Len(volumes)
    BY <2>1, EmptySeq
  <2> QED
    BY <2>1, <2>2, <2>3 DEF StorageInv, StorageTypeOK, QuietVolumesHold, SnapshotIds
<1>2. StorageInv /\ [StorageNext]_storageVars => StorageInv' /\ [RestoredAsTaken]_storageVars
  BY StorageConstants, StorageStep
<1> QED
  BY <1>1, <1>2, PTL DEF StorageSpec, QuietSnapshotsRestore

=============================================================================
