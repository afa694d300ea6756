---------------------------- MODULE RateLimiter ----------------------------
(***************************************************************************)
(* The sliding windows of api/middleware/rate_limit.py, for one client     *)
(* identifier: every operation works on the entry of one identifier, and   *)
(* cleanup on each entry by itself.                                        *)
(*                                                                         *)
(* A client has ONE list of request times.  Each endpoint has its own      *)
(* limit and window, and whoever looks at the list first removes from it   *)
(* what is older than the window of the endpoint being looked at.          *)
(*                                                                         *)
(* is_allowed, the headers of an answer and cleanup do not suspend, so     *)
(* each is one step; the headers of an admitted request are made when its  *)
(* handler returns.  Time is counted in ticks, several to a second, since  *)
(* the answer rounds what a client has to wait to whole seconds.           *)
(***************************************************************************)
EXTENDS Integers, FiniteSets, Sequences, SequenceFilter

CONSTANTS
  Endpoints,            \* paths
  MaxRequests,          \* RateLimitConfig.max_requests of an endpoint
  WindowSeconds,        \* RateLimitConfig.window_seconds
  BlockSeconds,         \* RateLimitConfig.block_duration_seconds
  TicksPerSecond,
  MaxTime,              \* bound on the clock
  NoEntry

ASSUME RateConstants ==
  /\ MaxRequests \in [Endpoints -> Nat \ {0}]
  /\ WindowSeconds \in [Endpoints -> Nat \ {0}]
  /\ BlockSeconds \in [Endpoints -> Nat \ {0}]
  /\ TicksPerSecond \in Nat \ {0}
  /\ MaxTime \in Nat
  /\ IsFiniteSet(Endpoints) /\ Endpoints # {}
  /\ NoEntry \notin Nat \cup [endpoint : Endpoints, at : Nat, cause : {"window", "block"}]

VARIABLES
  now,        \* time.time(), in ticks
  requests,   \* _requests[identifier]
  blocked,    \* _blocked[identifier], NoEntry while it has no entry
  inflight,   \* endpoints with an admitted request whose handler is running
  admitted,   \* history: when requests were admitted, within the widest window
  latest,     \* history: the endpoint that admitted the last one
  promise     \* history: when the last answer told the client to come back

limits == <<requests, blocked, inflight>>
rateVars == <<now, limits, admitted, latest, promise>>

----------------------------------------------------------------------------
Window(e) == WindowSeconds[e] * TicksPerSecond
Block(e) == BlockSeconds[e] * TicksPerSecond

Widest == CHOOSE w \in {Window(e) : e \in Endpoints} : \A e \in Endpoints : Window(e) <= w

Newer(ts, age) == OnlyIn(ts, {t \in Int : t > now - age})

\* _clean_old_requests for endpoint e.
Recent(e) == Newer(requests, Window(e))

Oldest(ts) == CHOOSE t \in {ts[i] : i \in DOMAIN ts} : \A i \in DOMAIN ts : t <= ts[i]

IsBlocked == blocked # NoEntry /\ now < blocked

\* A variant that is one request late.
OverLimitLate(e) == Len(Recent(e)) > MaxRequests[e]

OverLimit(e) == Len(Recent(e)) >= MaxRequests[e]
FarOverLimit(e) == Len(Recent(e)) >= 3 * MaxRequests[e]

\* A variant that rounds down.
RetryAfterRoundedDown(e) == (Oldest(Recent(e)) + Window(e) - now) \div TicksPerSecond

\* Whole seconds until the oldest request has left the window.
RetryAfter(e) == (Oldest(Recent(e)) + Window(e) - now) \div TicksPerSecond + 1

ComeBack(e, seconds, cause) ==
  promise' = [endpoint |-> e, at |-> now + seconds * TicksPerSecond, cause |-> cause]

----------------------------------------------------------------------------
RateInit ==
  /\ now = 0 /\ requests = <<>> /\ blocked = NoEntry /\ inflight = {}
  /\ admitted = <<>> /\ latest = NoEntry /\ promise = NoEntry

\* is_allowed for a blocked client; the headers of the refusal prune the list.
RefuseBlocked(e) ==
  /\ IsBlocked
  /\ requests' = Recent(e)
  /\ ComeBack(e, (blocked - now) \div TicksPerSecond, "block")
  /\ UNCHANGED <<now, blocked, inflight, admitted, latest>>

\* An expired block was deleted before the limit was looked at.
RefuseOverLimit(e) ==
  /\ ~ IsBlocked
  /\ OverLimit(e) /\ ~ FarOverLimit(e)
  /\ requests' = Recent(e)
  /\ blocked' = NoEntry
  /\ ComeBack(e, RetryAfter(e), "window")
  /\ UNCHANGED <<now, inflight, admitted, latest>>

RefuseAndBlock(e) ==
  /\ ~ IsBlocked
  /\ OverLimit(e) /\ FarOverLimit(e)
  /\ requests' = Recent(e)
  /\ blocked' = now + Block(e)
  /\ ComeBack(e, BlockSeconds[e], "block")
  /\ UNCHANGED <<now, inflight, admitted, latest>>

Admit(e) ==
  /\ ~ IsBlocked
  /\ ~ OverLimit(e)
  /\ requests' = Append(Recent(e), now)
  /\ blocked' = NoEntry
  /\ inflight' = inflight \cup {e}
  /\ admitted' = Append(admitted, now)
  /\ latest' = e
  /\ promise' = NoEntry
  /\ UNCHANGED now

\* The handler of an admitted request returns and its answer gets headers;
\* other requests of the endpoint may still be running.
Respond(e) ==
  /\ e \in inflight
  /\ inflight' \in {inflight, inflight \ {e}}
  /\ requests' = Recent(e)
  /\ UNCHANGED <<now, blocked, admitted, latest, promise>>

\* cleanup: twice the widest window, and the blocks that are over.
Cleanup ==
  /\ requests' = Newer(requests, 2 * Widest)
  /\ blocked' = IF IsBlocked THEN blocked ELSE NoEntry
  /\ UNCHANGED <<now, inflight, admitted, latest, promise>>

Tick ==
  /\ now < MaxTime
  /\ now' = now + 1
  /\ admitted' = OnlyIn(admitted, {t \in Int : t > now' - Widest})
  /\ UNCHANGED <<limits, latest, promise>>

RateNext ==
  \/ \E e \in Endpoints :
       RefuseBlocked(e) \/ RefuseOverLimit(e) \/ RefuseAndBlock(e) \/ Admit(e) \/ Respond(e)
  \/ Cleanup
  \/ Tick

RateSpec == RateInit /\ [][RateNext]_rateVars

----------------------------------------------------------------------------
AdmittedWithin(age) == Len(Newer(admitted, age))

\* Whatever the other endpoints do to the shared list, an endpoint with the
\* narrowest window does not admit a client that has had max_requests requests
\* admitted, anywhere, within its window.  (A wider window may be undercut: the
\* list is pruned with the narrower one in between.)
WindowRespected ==
  (/\ admitted # <<>>
   /\ admitted[Len(admitted)] = now
   /\ \A e \in Endpoints : Window(latest) <= Window(e))
     => AdmittedWithin(Window(latest)) <= MaxRequests[latest]

\* A client refused for the limit by the most generous endpoint that waits, as
\* it was told, for Retry-After seconds without another admitted request is not
\* refused for the limit again, although in between any endpoint may have
\* looked at its list.
WaitingIsEnough ==
  (/\ promise # NoEntry
   /\ promise.cause = "window"
   /\ now >= promise.at
   /\ \A e \in Endpoints : MaxRequests[e] <= MaxRequests[promise.endpoint])
     => ~ OverLimit(promise.endpoint)
=============================================================================
