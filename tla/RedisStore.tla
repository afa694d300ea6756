----------------------------- MODULE RedisStore -----------------------------
(***************************************************************************)
(* The keys RedisSessionStore keeps in Redis (src/database/                *)
(* redis_integration.py): sessions, cached values and one counter.         *)
(*                                                                         *)
(* A call sends one command and awaits its reply.  The client waits no     *)
(* longer than socket_timeout; with retry_on_timeout it then sends the     *)
(* same command again, on a new connection, and the server may still       *)
(* execute the first one, in any order with the commands of other          *)
(* connections.  What else goes wrong the call answers with False.         *)
(* External: Redis and its client, which retries once.                     *)
(***************************************************************************)
EXTENDS PlatformIds, Naturals, FiniteSets

CONSTANTS
  SessionKeys,   \* keys written by set_session
  Cached,        \* keys written by set_cache
  Counter,       \* the key of increment_counter
  Data,          \* what is stored, after pickling
  FlushedAs,     \* key -> the key flush_db deletes for it
  MaxCommands    \* bound on the commands ever sent

StoreKeys == SessionKeys \cup Cached

ASSUME RedisStoreConstants ==
  /\ SessionKeys \cap Cached = {} /\ Counter \notin StoreKeys
  /\ None \notin Data
  /\ DOMAIN FlushedAs = StoreKeys \cup {Counter}
  /\ MaxCommands \in Nat

Retries == 1

VARIABLES
  connected,    \* _connected
  stored,       \* Redis: the value of each key
  counter,      \* Redis: the counter
  inRedis,      \* commands that were sent and are not executed
  sent,         \* how many commands were sent
  request,      \* the call each task is in
  permitted,    \* history: what the answers given so far allow each key to hold
  counted       \* history: increments begun and increments that were answered,
                \* and whether a flush may have deleted the counter

redisVars == <<connected, stored, counter, inRedis, sent, request, permitted, counted>>

----------------------------------------------------------------------------
NoRequest == [does |-> "nothing", keys |-> {}, value |-> None, command |-> 0, tries |-> 0, alone |-> TRUE]

RedisInit ==
  /\ connected = FALSE
  /\ stored = [x \in StoreKeys |-> None]
  /\ counter = 0
  /\ inRedis = {}
  /\ sent = 0
  /\ request = [k \in Calls |-> NoRequest]
  /\ permitted = [x \in StoreKeys |-> {None}]
  /\ counted = [begun |-> 0, answered |-> 0, flushed |-> FALSE]

\* connect whose ping is answered.
ConnectRedis ==
  /\ ~ connected
  /\ connected' = TRUE
  /\ UNCHANGED <<stored, counter, inRedis, sent, request, permitted, counted>>

\* Calls under way lose their connections.
DisconnectRedis ==
  /\ connected
  /\ connected' = FALSE
  /\ UNCHANGED <<stored, counter, inRedis, sent, request, permitted, counted>>

Send(does, keys, value) ==
  /\ sent < MaxCommands
  /\ sent' = sent + 1
  /\ inRedis' = inRedis \cup {[id |-> sent + 1, does |-> does, keys |-> keys, value |-> value]}

Writes(r) == r.does \in {"set", "delete"}

\* Call k sends a command.  A write is alone when none of the same key is under
\* way or still to be executed; those that are get company.
Ask(k, does, keys, value) ==
  LET asked == [does |-> does, keys |-> keys, value |-> value, command |-> sent + 1, tries |-> 0,
                alone |-> /\ \A c \in inRedis : c.keys \cap keys = {}
                          /\ \A j \in Calls \ {k} : request[j].keys \cap keys = {}]
  IN /\ Send(does, keys, value)
     /\ request' = [j \in Calls |-> IF j = k THEN asked
                                    ELSE [request[j] EXCEPT !.alone = @ /\ request[j].keys \cap keys = {}]]
     /\ permitted' = [x \in StoreKeys |-> IF x \in keys THEN permitted[x] \cup {value} ELSE permitted[x]]

Begin(k, does, keys, value) ==
  /\ connected
  /\ request[k].does = "nothing"
  /\ Ask(k, does, keys, value)
  /\ UNCHANGED <<connected, stored, counter>>

\* SETEX replaces the value and its remaining time.
SetSession(k, x, v) ==
  /\ x \in SessionKeys
  /\ Begin(k, "set", {x}, v)
  /\ UNCHANGED counted

SetCache(k, x, v) ==
  /\ x \in Cached
  /\ Begin(k, "set", {x}, v)
  /\ UNCHANGED counted

DeleteSession(k, x) ==
  /\ x \in SessionKeys
  /\ Begin(k, "delete", {x}, None)
  /\ UNCHANGED counted

IncrementCounter(k) ==
  /\ Begin(k, "increment", {}, None)
  /\ counted' = [counted EXCEPT !.begun = @ + 1]

\* flush_db asks for the keys first.
FlushDb(k) ==
  /\ Begin(k, "keys", {}, None)
  /\ UNCHANGED counted

----------------------------------------------------------------------------
\* get_keys takes the prefix off wherever it stands in a key and flush_db puts it
\* in front again, which need not give the key.
GetKeys == {FlushedAs[x] : x \in {y \in StoreKeys : stored[y] # None} \cup
                                 (IF counter # 0 THEN {Counter} ELSE {})}

\* The server executes a command; the reply to KEYS reaches its call if that waits.
Execute(c) ==
  /\ inRedis' = inRedis \ {c}
  /\ stored' = [x \in StoreKeys |-> IF x \in c.keys THEN c.value ELSE stored[x]]
  /\ counter' = IF c.does = "increment" THEN counter + 1
                ELSE IF Counter \in c.keys THEN 0 ELSE counter
  /\ request' = IF c.does # "keys" THEN request
                ELSE [k \in Calls |-> IF request[k].command = c.id THEN [request[k] EXCEPT !.value = GetKeys]
                                      ELSE request[k]]
  /\ UNCHANGED <<connected, sent, permitted, counted>>

Replied(k) == request[k].does # "nothing" /\ \A c \in inRedis : c.id # request[k].command

\* The call answers that it is done.
Answered(k) ==
  /\ request' = [request EXCEPT ![k] = NoRequest]
  /\ permitted' = [x \in StoreKeys |-> IF x \in request[k].keys /\ Writes(request[k]) /\ request[k].alone
                                       THEN {request[k].value} ELSE permitted[x]]
  /\ counted' = IF request[k].does = "increment" THEN [counted EXCEPT !.answered = @ + 1] ELSE counted
  /\ UNCHANGED <<connected, stored, counter, inRedis, sent>>

ReplyArrives(k) ==
  /\ connected
  /\ Replied(k)
  /\ request[k].does # "keys" \/ request[k].value = {}
  /\ Answered(k)

\* flush_db goes on with the keys it got.
KeysArrive(k) ==
  /\ connected
  /\ Replied(k)
  /\ request[k].does = "keys" /\ request[k].value # {}
  /\ Ask(k, "delete", request[k].value, None)
  /\ counted' = [counted EXCEPT !.flushed = @ \/ Counter \in request[k].value]
  /\ UNCHANGED <<connected, stored, counter>>

\* No reply within socket_timeout.
TimesOut(k) ==
  /\ connected
  /\ request[k].does # "nothing" /\ request[k].tries < Retries
  /\ Send(request[k].does, request[k].keys, IF Writes(request[k]) THEN request[k].value ELSE None)
  /\ request' = [request EXCEPT ![k].command = sent + 1, ![k].tries = @ + 1]
  /\ UNCHANGED <<connected, stored, counter, permitted, counted>>

\* A variant whose exception handlers answer as if all had gone well.
FailureAnswers(k) ==
  /\ request[k].does # "nothing"
  /\ Answered(k)

\* The connection fails, or the last reply does not come in time: False, and
\* nothing is known of what the server did or will do.
Fails(k) ==
  /\ request[k].does # "nothing"
  /\ request' = [request EXCEPT ![k] = NoRequest]
  /\ UNCHANGED <<connected, stored, counter, inRedis, sent, permitted, counted>>

\* The time a key was given is over.
Expire(x) ==
  /\ stored[x] # None
  /\ stored' = [stored EXCEPT ![x] = None]
  /\ permitted' = [permitted EXCEPT ![x] = @ \cup {None}]
  /\ request' = [k \in Calls |-> [request[k] EXCEPT !.alone = @ /\ x \notin request[k].keys]]
  /\ UNCHANGED <<connected, counter, inRedis, sent, counted>>

RedisNext ==
  \/ ConnectRedis \/ DisconnectRedis
  \/ \E k \in Calls :
       \/ \E x \in SessionKeys : (\E v \in Data : SetSession(k, x, v)) \/ DeleteSession(k, x)
       \/ \E x \in Cached, v \in Data : SetCache(k, x, v)
       \/ IncrementCounter(k) \/ FlushDb(k)
       \/ ReplyArrives(k) \/ KeysArrive(k) \/ TimesOut(k) \/ Fails(k)
  \/ \E c \in inRedis : Execute(c)
  \/ \E x \in StoreKeys : Expire(x)

RedisSpec == RedisInit /\ [][RedisNext]_redisVars

----------------------------------------------------------------------------
\* What reading calls that are not disturbed answer.
GetSession(x) == IF connected THEN stored[x] ELSE None
SessionExists(x) == connected /\ stored[x] # None
GetCache(x) == IF connected THEN stored[x] ELSE None
GetCounter == IF connected THEN counter ELSE 0

\* Answers can be relied on.  After a write was answered with True, and while no
\* other write of the key is under way, timed out or failed since it began, the
\* key reads as written until it expires; a session whose deletion was answered
\* does not exist.  An increment that was answered is counted unless the store
\* was flushed, and none is counted more often than its command was sent.
AnswersHold ==
  connected =>
    /\ \A x \in SessionKeys : /\ GetSession(x) \in permitted[x]
                           /\ SessionExists(x) => permitted[x] # {None}
    /\ \A x \in Cached : GetCache(x) \in permitted[x]
    /\ counted.flushed \/ counted.answered <= GetCounter
    /\ GetCounter <= (1 + Retries) * counted.begun
=============================================================================
