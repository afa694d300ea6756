-------------------------- MODULE DistributedLock --------------------------
(***************************************************************************)
(* DistributedLock (src/database/redis_integration.py): a lock in Redis.   *)
(* acquire is one SET NX EX; release is a GET followed by a DELETE, two    *)
(* round trips.  Redis drops the key timeout_seconds after it was set.     *)
(* Each client is a process with a DistributedLock object of its own and   *)
(* its own connection.                                                     *)
(*                                                                         *)
(* The client waits no longer than socket_timeout for an answer; with      *)
(* retry_on_timeout it sends the command once more, on a new connection.   *)
(* The server may execute a command that was given up on at any later      *)
(* time, or never.  One that it had executed when the client gave up is    *)
(* one executed right after that: the client took no step in between.      *)
(* External: Redis and its client, which retries once.                     *)
(***************************************************************************)
EXTENDS Naturals, FiniteSets

CONSTANTS
  Clients,
  MaxAcquires,      \* bound: how often the clients try to acquire
  MaxLate,          \* bound: how many commands wait to be executed late, each
                    \* copy of one command once
  Free              \* the key does not exist

\* uuid4() values, in the order in which they are drawn.
Values == 1 .. MaxAcquires

\* The commands that change the key: SET NX of a value, and the DELETE that is
\* sent by whoever found that value; and whether it was sent a second time.
Commands == {"set", "delete"} \X Values \X BOOLEAN

ASSUME LockConstants ==
  /\ MaxAcquires \in Nat /\ MaxLate \in Nat
  /\ Free \notin Values

VARIABLES
  key,         \* what Redis stores under lock_key
  late,        \* the commands that were given up on and may still be executed
  lock_value,  \* DistributedLock.lock_value
  draws,       \* how many values were drawn
  connected,   \* RedisSessionStore._connected of a client
  pc,          \* where a client stands
  resent,      \* whether the command it waits for was sent a second time
  lapsed,      \* history: values whose key, since they were set last, expired or was
               \* deleted by a release of theirs that had given up
  stolen       \* history: values whose key the DELETE of another value took

clientVars == <<lock_value, draws, connected, pc, resent>>
vars == <<key, late, lock_value, draws, connected, pc, resent, lapsed, stolen>>

Init ==
  /\ key = Free
  /\ late = {}
  /\ lock_value = [c \in Clients |-> Free]
  /\ draws = 0
  /\ connected = [c \in Clients |-> TRUE]
  /\ pc = [c \in Clients |-> "idle"]
  /\ resent = [c \in Clients |-> FALSE]
  /\ lapsed = {} /\ stolen = {}

\* A client goes on to its next command, or to the end of the call.
Goto(c, l) ==
  /\ pc' = [pc EXCEPT ![c] = l]
  /\ resent' = [resent EXCEPT ![c] = FALSE]

---------------------------------------------------------------------------
(***************************************************************************)
(* The server.                                                             *)
(***************************************************************************)
\* SET NX EX.
ExecuteSet(v) ==
  IF key = Free
    THEN key' = v /\ lapsed' = lapsed \ {v} /\ stolen' = stolen \ {v}
    ELSE UNCHANGED <<key, lapsed, stolen>>

\* DELETE removes whatever is there; the client that sent it had found v.
ExecuteDelete(v) ==
  /\ key' = Free
  /\ stolen' = IF key \in {Free, v} THEN stolen ELSE stolen \cup {key}

\* A command that was given up on is executed after all.
ExecuteLate(m) ==
  /\ late' = late \ {m}
  /\ \/ m[1] = "set" /\ ExecuteSet(m[2])
     \/ /\ m[1] = "delete" /\ ExecuteDelete(m[2])
        /\ lapsed' = IF key = m[2] THEN lapsed \cup {key} ELSE lapsed
  /\ UNCHANGED clientVars

\* EX timeout_seconds.
KeyExpires ==
  /\ key # Free
  /\ key' = Free
  /\ lapsed' = lapsed \cup {key}
  /\ UNCHANGED <<late, stolen, lock_value, draws, connected, pc, resent>>

---------------------------------------------------------------------------
(***************************************************************************)
(* acquire                                                                 *)
(***************************************************************************)
StartAcquire(c) ==
  /\ pc[c] = "idle" /\ connected[c]
  /\ draws < MaxAcquires
  /\ draws' = draws + 1
  /\ lock_value' = [lock_value EXCEPT ![c] = draws + 1]
  /\ Goto(c, "setting")
  /\ UNCHANGED <<key, late, connected, lapsed, stolen>>

\* "No Redis, allow"
AcquireWithoutRedis(c) ==
  /\ pc[c] = "idle" /\ ~ connected[c]
  /\ Goto(c, "allowed")
  /\ UNCHANGED <<key, late, lock_value, draws, connected, lapsed, stolen>>

\* A variant: SET without NX.
SetOverwrites(c) ==
  /\ pc[c] = "setting"
  /\ key' = lock_value[c] /\ Goto(c, "holding")
  /\ UNCHANGED <<late, lock_value, draws, connected, lapsed, stolen>>

\* SET NX is executed and answered: the caller has the lock if it set the key.
SetAnswered(c) ==
  /\ pc[c] = "setting"
  /\ ExecuteSet(lock_value[c])
  /\ Goto(c, IF key = Free THEN "holding" ELSE "idle")
  /\ UNCHANGED <<late, lock_value, draws, connected>>

---------------------------------------------------------------------------
(***************************************************************************)
(* release                                                                 *)
(***************************************************************************)
StartRelease(c) ==
  /\ pc[c] \in {"holding", "allowed"}
  /\ Goto(c, IF connected[c] THEN "getting" ELSE "idle")
  /\ UNCHANGED <<key, late, lock_value, draws, connected, lapsed, stolen>>

\* A variant that deletes whatever it finds.
GetAnsweredUnread(c) ==
  /\ pc[c] = "getting"
  /\ Goto(c, IF key # Free THEN "deleting" ELSE "idle")
  /\ UNCHANGED <<key, late, lock_value, draws, connected, lapsed, stolen>>

\* The GET is answered: the DELETE is sent when the value is the client's own.
GetAnswered(c) ==
  /\ pc[c] = "getting"
  /\ Goto(c, IF key # Free /\ key = lock_value[c] THEN "deleting" ELSE "idle")
  /\ UNCHANGED <<key, late, lock_value, draws, connected, lapsed, stolen>>

DeleteAnswered(c) ==
  /\ pc[c] = "deleting"
  /\ ExecuteDelete(lock_value[c])
  /\ Goto(c, "idle")
  /\ UNCHANGED <<late, lock_value, draws, connected, lapsed>>

---------------------------------------------------------------------------
(***************************************************************************)
(* A command that is not answered in time, or whose connection breaks.     *)
(***************************************************************************)
\* The command that changes the key and whose answer a client waits for.
Awaited(c) ==
  <<IF pc[c] = "setting" THEN "set" ELSE "delete", lock_value[c], resent[c]>>

GivesUp(c) ==
  /\ pc[c] \in {"setting", "deleting"}
  /\ Awaited(c) \notin late /\ Cardinality(late) < MaxLate
  /\ late' = late \cup {Awaited(c)}
  /\ UNCHANGED <<key, lock_value, draws, connected, lapsed, stolen>>

\* retry_on_timeout.
Resend(c) ==
  /\ GivesUp(c)
  /\ ~ resent[c]
  /\ resent' = [resent EXCEPT ![c] = TRUE]
  /\ UNCHANGED pc

\* acquire, or release, answers False.
CommandRaises(c) ==
  /\ GivesUp(c)
  /\ Goto(c, "idle")

\* So does release when the GET raises, which changes nothing if executed late.
GetRaises(c) ==
  /\ pc[c] = "getting"
  /\ Goto(c, "idle")
  /\ UNCHANGED <<key, late, lock_value, draws, connected, lapsed, stolen>>

---------------------------------------------------------------------------
Holds(c) == pc[c] = "holding"

\* It has the lock, or has seen in its release that the key is its own, and the
\* key has not gone since.
Entitled(c) ==
  /\ pc[c] \in {"holding", "deleting"}
  /\ lock_value[c] \notin lapsed \cup stolen

\* RedisSessionStore.disconnect, and connect.
ToggleConnection(c) ==
  /\ connected' = [connected EXCEPT ![c] = ~ @]
  /\ UNCHANGED <<key, late, lock_value, draws, pc, resent, lapsed, stolen>>

ClientStep(c) ==
  \/ StartAcquire(c) \/ AcquireWithoutRedis(c) \/ SetAnswered(c)
  \/ StartRelease(c) \/ GetAnswered(c) \/ DeleteAnswered(c)
  \/ Resend(c) \/ CommandRaises(c) \/ GetRaises(c)
  \/ ToggleConnection(c)

Next ==
  \/ \E c \in Clients : ClientStep(c)
  \/ \E m \in late : ExecuteLate(m)
  \/ KeyExpires

Spec == Init /\ [][Next]_vars

---------------------------------------------------------------------------
(***************************************************************************)
(* Properties.                                                             *)
(***************************************************************************)
\* The types of the key, of the commands, of the lock objects and of the clients.
TypeOK ==
  /\ key \in Values \cup {Free}
  /\ late \subseteq Commands
  /\ lock_value \in [Clients -> Values \cup {Free}]
  /\ draws \in 0 .. MaxAcquires
  /\ connected \in [Clients -> BOOLEAN]
  /\ pc \in [Clients -> {"idle", "setting", "holding", "allowed", "getting", "deleting"}]
  /\ resent \in [Clients -> BOOLEAN]
  /\ lapsed \subseteq Values /\ stolen \subseteq Values

\* Two clients that got the lock from Redis hold it together only when the key of
\* one of them expired under it or was taken by a release that came too late,
\* whatever commands are repeated, executed late or lost and whoever loses the
\* connection ("No Redis, allow" promises nothing).
MutualExclusion ==
  \A c, d \in Clients :
    Holds(c) /\ Holds(d) /\ c # d => {lock_value[c], lock_value[d]} \cap (lapsed \cup stolen) # {}

\* Until then Redis stores the value of whoever holds the lock, and of whoever is
\* about to delete it.  So a DELETE takes another client's key only when its own
\* key expired between GET and DELETE, or an earlier copy of it was executed.
HolderOwnsKey ==
  \A c \in Clients : Entitled(c) => key = lock_value[c]

\* "Only release if we still own the lock" (release): no release takes the key of
\* another client.
OnlyOwnReleased == stolen = {}
===========================================================================
