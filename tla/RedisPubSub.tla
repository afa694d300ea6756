---------------------------- MODULE RedisPubSub ----------------------------
(***************************************************************************)
(* Publish/subscribe of RedisSessionStore (src/database/                   *)
(* redis_integration.py): subscribe_to_channel, called by any task, and    *)
(* _listen_to_channels, the listening task with its reconnect loop.  Both  *)
(* share one PubSub object, _pubsub, which either may create; the awaits   *)
(* of SUBSCRIBE commands and the five seconds before a reconnect are where *)
(* they interleave.                                                        *)
(*                                                                         *)
(* The PubSub object of the Redis client is external: its listen() returns *)
(* at once when the object has no subscriptions, and raises when its       *)
(* connection is lost.  Objects are numbered in the order of creation.     *)
(***************************************************************************)
EXTENDS Naturals, FiniteSets

CONSTANTS
  Channels,
  MaxLosses,    \* bound: how often the connection is lost or a re-subscription raises
  NoObject      \* _pubsub is None

ASSUME PubSubConstants ==
  /\ IsFiniteSet(Channels)
  /\ MaxLosses \in Nat
  /\ NoObject \notin Nat

\* One object at first, and one after every failure of the listener.
Objects == 1 .. (1 + MaxLosses + Cardinality(Channels))

VARIABLES
  pubsub,      \* _pubsub
  created,     \* how many objects were created
  subscribed,  \* object -> the channels it is subscribed to
  channels,    \* keys of _pubsub_channels
  calls,       \* the subscribe_to_channel call for each channel
  listener,    \* where the listening task stands
  iteration,   \* the listener's loop over _pubsub_channels: what it had when
               \* the loop began, and what is still to be re-subscribed to
  losses       \* how often the listener lost its connection

vars == <<pubsub, created, subscribed, channels, calls, listener, iteration, losses>>

Init ==
  /\ pubsub = NoObject
  /\ created = 0
  /\ subscribed = [o \in Objects |-> {}]
  /\ channels = {}
  /\ calls = [ch \in Channels |-> [pc |-> "not called", on |-> NoObject]]
  /\ listener = "none"
  /\ iteration = [over |-> {}, todo |-> {}]
  /\ losses = 0

\* The event loop runs other tasks unless the listener spins without an await.
LoopTurns == listener # "spinning"

CreateObject ==
  /\ created' = created + 1
  /\ pubsub' = created + 1

---------------------------------------------------------------------------
(***************************************************************************)
(* The listening task.                                                     *)
(***************************************************************************)
\* Entering "async for message in self._pubsub.listen()" with what the object
\* is subscribed to: without subscriptions it ends and the while loop goes
\* round, with no await in it.
ListenTo(S) == listener' = IF S = {} THEN "spinning" ELSE "listening"

\* The head of the while loop.  A missing object is created and subscribed to
\* the registered channels one by one; an object that is there is taken as it is.
LoopHead ==
  IF pubsub = NoObject
    THEN /\ CreateObject
         /\ iteration' = [over |-> channels, todo |-> channels]
         /\ listener' = "resubscribing"
    ELSE /\ ListenTo(subscribed[pubsub])
         /\ UNCHANGED <<pubsub, created, iteration>>

\* The new task runs for the first time, or the five seconds are over.
ListenerRuns ==
  /\ LoopTurns
  /\ listener \in {"started", "waiting"}
  /\ LoopHead
  /\ UNCHANGED <<subscribed, channels, calls, losses>>

\* The exception handler: _pubsub is None and the task waits five seconds.
GiveUp ==
  /\ pubsub' = NoObject
  /\ listener' = "waiting"
  /\ UNCHANGED <<created, channels, calls, iteration>>

\* A variant that iterates over a copy of _pubsub_channels.
ResubscribedFromCopy ==
  /\ LoopTurns
  /\ listener = "resubscribing"
  /\ \E ch \in iteration.todo :
       /\ subscribed' = [subscribed EXCEPT ![pubsub] = @ \cup {ch}]
       /\ iteration' = [iteration EXCEPT !.todo = @ \ {ch}]
       /\ IF iteration.todo = {ch} THEN ListenTo(subscribed'[pubsub])
                                  ELSE UNCHANGED listener
  /\ UNCHANGED <<pubsub, created, channels, calls, losses>>

\* One SUBSCRIBE of the reconnect is answered.  The iteration raises when
\* _pubsub_channels has got another key since it began.
Resubscribed ==
  /\ LoopTurns
  /\ listener = "resubscribing"
  /\ \E ch \in iteration.todo :
       /\ subscribed' = [subscribed EXCEPT ![pubsub] = @ \cup {ch}]
       /\ \/ channels # iteration.over /\ GiveUp
          \/ /\ channels = iteration.over
             /\ iteration' = [iteration EXCEPT !.todo = @ \ {ch}]
             /\ IF iteration.todo = {ch} THEN ListenTo(subscribed'[pubsub])
                                        ELSE UNCHANGED listener
             /\ UNCHANGED <<pubsub, created, channels, calls>>
  /\ UNCHANGED losses

\* The connection is lost, or a SUBSCRIBE of the reconnect raises.
ListenerFails ==
  /\ LoopTurns
  /\ listener \in {"listening", "resubscribing"}
  /\ losses < MaxLosses
  /\ losses' = losses + 1
  /\ GiveUp
  /\ UNCHANGED subscribed

---------------------------------------------------------------------------
(***************************************************************************)
(* subscribe_to_channel                                                    *)
(***************************************************************************)
\* A variant that makes an object for every subscription.
SubscribeAlone(ch) ==
  /\ LoopTurns
  /\ calls[ch].pc = "not called"
  /\ CreateObject
  /\ calls' = [calls EXCEPT ![ch] = [pc |-> "subscribing", on |-> pubsub']]
  /\ UNCHANGED <<subscribed, channels, listener, iteration, losses>>

\* Up to the await of SUBSCRIBE.
Subscribe(ch) ==
  /\ LoopTurns
  /\ calls[ch].pc = "not called"
  /\ IF pubsub = NoObject THEN CreateObject ELSE UNCHANGED <<pubsub, created>>
  /\ calls' = [calls EXCEPT ![ch] = [pc |-> "subscribing", on |-> pubsub']]
  /\ UNCHANGED <<subscribed, channels, listener, iteration, losses>>

\* A variant that starts the task only for the first channel that is asked for.
SubscribeAnsweredFirst(ch) ==
  /\ LoopTurns
  /\ calls[ch].pc = "subscribing"
  /\ subscribed' = [subscribed EXCEPT ![calls[ch].on] = @ \cup {ch}]
  /\ channels' = channels \cup {ch}
  /\ calls' = [calls EXCEPT ![ch].pc = "subscribed"]
  /\ listener' = IF listener = "none" /\ \A d \in Channels \ {ch} : calls[d].pc = "not called"
                   THEN "started" ELSE listener
  /\ UNCHANGED <<pubsub, created, iteration, losses>>

\* SUBSCRIBE is answered: the callback is registered, and the task started
\* unless it runs.
SubscribeAnswered(ch) ==
  /\ LoopTurns
  /\ calls[ch].pc = "subscribing"
  /\ subscribed' = [subscribed EXCEPT ![calls[ch].on] = @ \cup {ch}]
  /\ channels' = channels \cup {ch}
  /\ calls' = [calls EXCEPT ![ch].pc = "subscribed"]
  /\ listener' = IF listener = "none" THEN "started" ELSE listener
  /\ UNCHANGED <<pubsub, created, iteration, losses>>

\* SUBSCRIBE raises: logged, nothing registered.
SubscribeRaises(ch) ==
  /\ LoopTurns
  /\ calls[ch].pc = "subscribing"
  /\ calls' = [calls EXCEPT ![ch].pc = "failed"]
  /\ UNCHANGED <<pubsub, created, subscribed, channels, listener, iteration, losses>>

---------------------------------------------------------------------------
ListenerStep == ListenerRuns \/ Resubscribed
SubscribeStep(ch) == SubscribeAnswered(ch) \/ SubscribeRaises(ch)

Next ==
  \/ ListenerStep \/ ListenerFails
  \/ \E ch \in Channels : Subscribe(ch) \/ SubscribeStep(ch)

Spec == Init /\ [][Next]_vars

\* Awaited commands end and sleeping tasks wake up.
PubSubFairness == WF_vars(ListenerStep) /\ \A ch \in Channels : WF_vars(SubscribeStep(ch))

---------------------------------------------------------------------------
(***************************************************************************)
(* Properties.                                                             *)
(***************************************************************************)
\* A reconnect the listener carries out itself is complete: when it begins to
\* listen after re-subscribing, no registered channel is left out, although
\* subscribe_to_channel may register more while it is at it.
ReconnectsAreComplete ==
  [][listener = "resubscribing" /\ listener' = "listening"
       => channels \subseteq subscribed'[pubsub]]_vars

\* As long as the connection lasts, concurrent first subscriptions share one
\* object and every registered channel is on the one that is listened to.
HeardUntilFirstLoss == losses = 0 => /\ listener # "spinning"
                                     /\ channels # {} => channels \subseteq subscribed[pubsub]

\* While nothing is lost, a registered channel gets a listener, however the
\* first subscriptions interleave and fail.
RegisteredGetsListener ==
  channels # {} /\ losses = 0 ~> listener = "listening" \/ losses > 0

---------------------------------------------------------------------------
\* "Re-subscribe to all existing channels": a listener that listens hears
\* every registered channel.
RegisteredChannelsAreHeard ==
  listener = "listening" => channels \subseteq subscribed[pubsub]
===========================================================================
