------------------------- MODULE RedisPubSubProofs -------------------------
(***************************************************************************)
(* Whatever the channels and however often the connection is lost: until   *)
(* the first loss every registered channel is heard, and a reconnect the   *)
(* listener carries out itself leaves no registered channel out.           *)
(*                                                                         *)
(* Both need to know which object a call or the listener works on.  Until  *)
(* a loss there is only one, and calls hold it (OneObject); and the        *)
(* objects that are ever made are in Objects, since the listener gives one *)
(* up for a loss or for a channel that was registered (ObjectsSuffice).    *)
(***************************************************************************)
EXTENDS RedisPubSub, FiniteSetTheorems, TLAPS

USE PubSubConstants

PubSubTypeOK ==
  /\ created \in Nat
  /\ pubsub \in Nat \cup {NoObject}
  /\ subscribed \in [Objects -> SUBSET Channels]
  /\ channels \in SUBSET Channels
  /\ calls \in [Channels -> [pc : {"not called", "subscribing", "subscribed", "failed"},
                             on : Nat \cup {NoObject}]]
  /\ listener \in {"none", "started", "waiting", "resubscribing", "listening", "spinning"}
  /\ iteration \in [over : SUBSET Channels, todo : SUBSET Channels]
  /\ losses \in Nat /\ losses <= MaxLosses

\* The registered channels the listener knew when it last began to re-subscribe.
Gathered == IF listener = "resubscribing" THEN iteration.over ELSE channels

\* Every object was made after a loss or after a channel was registered.
ObjectsSuffice ==
  /\ pubsub # NoObject => pubsub \in 1..created
  /\ \A ch \in Channels : calls[ch].on # NoObject => calls[ch].on \in 1..created
  /\ \A ch \in Channels : calls[ch].pc = "subscribing" => calls[ch].on # NoObject
  /\ iteration.over \subseteq channels
  /\ created <= losses + (IF pubsub = NoObject THEN 0 ELSE 1) + Cardinality(Gathered)

\* While the listener re-subscribes it has an object, and that has what is done.
ProgressIsKept ==
  listener = "resubscribing" =>
    /\ pubsub # NoObject
    /\ iteration.over \ iteration.todo \subseteq subscribed[pubsub]

\* Until a loss there is one object, all calls hold it, and it has what is registered.
OneObject ==
  losses = 0 =>
    /\ listener \in {"none", "started", "listening"}
    /\ \A ch \in Channels : calls[ch].pc # "not called" => pubsub # NoObject /\ calls[ch].on = pubsub
    /\ channels # {} => pubsub # NoObject /\ channels \subseteq subscribed[pubsub]
    /\ listener = "started" => channels # {}

PubSubInv == PubSubTypeOK /\ ObjectsSuffice /\ ProgressIsKept /\ OneObject

---------------------------------------------------------------------------
\* What the channels that are gathered count.
LEMMA PartCounts ==
  ASSUME NEW S \in SUBSET Channels, NEW T \in SUBSET S
  PROVE  /\ Cardinality(S) \in Nat /\ Cardinality(T) \in Nat /\ Cardinality(T) <= Cardinality(S)
         /\ T # S => Cardinality(T) + 1 <= Cardinality(S)
<1>1. IsFiniteSet(Channels) /\ IsFiniteSet(S)
  BY FS_Subset DEF PubSubConstants
<1>2. IsFiniteSet(T) /\ Cardinality(T) <= Cardinality(S) /\ (Cardinality(S) = Cardinality(T) => S = T)
  BY <1>1, FS_Subset
<1>3. Cardinality(T) \in Nat /\ Cardinality(S) \in Nat
  BY <1>1, <1>2, FS_CardinalityType
<1> QED
  BY <1>2, <1>3

\* The absent object is none of the numbered ones.
LEMMA NumbersAreObjects == \A n \in Nat : n # NoObject
BY DEF PubSubConstants

\* The objects that are made are objects that subscriptions can be on.
LEMMA ObjectsAreThere ==
  ASSUME PubSubInv
  PROVE  1..created \subseteq Objects /\ Gathered \in SUBSET Channels /\ Cardinality(Gathered) \in Nat
<1>1. Gathered \in SUBSET Channels /\ created \in Nat /\ losses \in Nat /\ losses <= MaxLosses
      /\ created <= losses + (IF pubsub = NoObject THEN 0 ELSE 1) + Cardinality(Gathered)
  BY DEF PubSubInv, PubSubTypeOK, ObjectsSuffice, Gathered
<1>2. Cardinality(Gathered) \in Nat /\ Cardinality(Gathered) <= Cardinality(Channels)
      /\ Cardinality(Channels) \in Nat /\ MaxLosses \in Nat
  <2> PICK T : T = Gathered
    OBVIOUS
  <2>1. Channels \in SUBSET Channels /\ T \in SUBSET Channels
    BY <1>1
  <2>2. Cardinality(Channels) \in Nat /\ Cardinality(T) \in Nat /\ Cardinality(T) <= Cardinality(Channels)
    BY <2>1, PartCounts
  <2> QED
    BY <2>2 DEF PubSubConstants
<1>3. created <= 1 + MaxLosses + Cardinality(Channels)
  BY <1>1, <1>2
<1> QED
  BY <1>1, <1>2, <1>3 DEF Objects

\* The listener gives its object up: for a loss, or for a channel registered meanwhile.
LEMMA GiveUpKeeps ==
  ASSUME PubSubInv, GiveUp,
         subscribed' \in [Objects -> SUBSET Channels], losses' \in Nat, losses' <= MaxLosses,
         \/ losses' = losses + 1
         \/ losses' = losses /\ losses # 0 /\ listener = "resubscribing" /\ channels # iteration.over
  PROVE  PubSubInv'
<1>1. PubSubTypeOK /\ ObjectsSuffice /\ ProgressIsKept
  BY DEF PubSubInv
<1>2. /\ pubsub' = NoObject /\ listener' = "waiting"
      /\ created' = created /\ channels' = channels /\ calls' = calls /\ iteration' = iteration
  BY DEF GiveUp
<1>3. PubSubTypeOK'
  BY <1>1, <1>2 DEF PubSubTypeOK
<1>4. ObjectsSuffice'
  <2>1. Gathered' = channels /\ channels \in SUBSET Channels /\ iteration.over \subseteq channels
    BY <1>1, <1>2 DEF Gathered, PubSubTypeOK, ObjectsSuffice
  <2>2. created <= losses + (IF pubsub = NoObject THEN 0 ELSE 1) + Cardinality(Gathered)
        /\ created \in Nat /\ losses \in Nat /\ (Gathered = iteration.over \/ Gathered = channels)
    BY <1>1 DEF ObjectsSuffice, PubSubTypeOK, Gathered
  <2>3. /\ Cardinality(channels) \in Nat /\ Cardinality(iteration.over) \in Nat
        /\ Cardinality(iteration.over) <= Cardinality(channels)
        /\ iteration.over # channels => Cardinality(iteration.over) + 1 <= Cardinality(channels)
    <3> PICK S, T : S = channels /\ T = iteration.over
      OBVIOUS
    <3>1. S \in SUBSET Channels /\ T \in SUBSET S
      BY <2>1
    <3>2. /\ Cardinality(S) \in Nat /\ Cardinality(T) \in Nat /\ Cardinality(T) <= Cardinality(S)
          /\ T # S => Cardinality(T) + 1 <= Cardinality(S)
      BY <3>1, PartCounts
    <3> QED
      BY <3>2
  <2>4. created <= losses' + Cardinality(channels)
    <3>1. CASE losses' = losses + 1
      BY <2>2, <2>3, <3>1
    <3>2. CASE losses' = losses /\ listener = "resubscribing" /\ channels # iteration.over
      <4>1. Gathered = iteration.over
        BY <3>2 DEF Gathered
      <4> QED
        BY <2>2, <2>3, <3>2, <4>1
    <3> QED
      BY <3>1, <3>2
  <2>5. created' <= losses' + (IF pubsub' = NoObject THEN 0 ELSE 1) + Cardinality(Gathered')
    <3>1. losses' + (IF pubsub' = NoObject THEN 0 ELSE 1) + Cardinality(Gathered') = losses' + Cardinality(channels)
      BY <1>2, <2>1, <2>3
    <3> QED
      BY <1>2, <2>4, <3>1
  <2> QED
    BY <1>1, <1>2, <2>1, <2>5 DEF ObjectsSuffice
<1>5. ProgressIsKept' /\ OneObject'
  <2>1. losses \in Nat
    BY <1>1 DEF PubSubTypeOK
  <2>2. losses' # 0
    BY <2>1
  <2> QED
    BY <1>2, <2>2 DEF ProgressIsKept, OneObject
<1> QED
  BY <1>3, <1>4, <1>5 DEF PubSubInv

\* How many objects there may be grows with what is gathered, and with a new one.
LEMMA CountKept ==
  ASSUME PubSubInv, Gathered \subseteq Gathered', Gathered' \in SUBSET Channels, losses' = losses,
         \/ created' = created /\ pubsub' = pubsub
         \/ created' = created + 1 /\ pubsub = NoObject /\ pubsub' # NoObject
  PROVE  created' <= losses' + (IF pubsub' = NoObject THEN 0 ELSE 1) + Cardinality(Gathered')
<1>1. created \in Nat /\ losses \in Nat
      /\ created <= losses + (IF pubsub = NoObject THEN 0 ELSE 1) + Cardinality(Gathered)
  BY DEF PubSubInv, PubSubTypeOK, ObjectsSuffice
<1> PICK S, T : S = Gathered' /\ T = Gathered
  OBVIOUS
<1>2. Cardinality(T) \in Nat /\ Cardinality(S) \in Nat /\ Cardinality(T) <= Cardinality(S)
  <2>1. S \in SUBSET Channels /\ T \in SUBSET S
    OBVIOUS
  <2> QED
    BY <2>1, PartCounts
<1>3. created <= losses + (IF pubsub = NoObject THEN 0 ELSE 1) + Cardinality(T)
  BY <1>1
<1>4. created' <= losses' + (IF pubsub' = NoObject THEN 0 ELSE 1) + Cardinality(S)
  BY <1>1, <1>2, <1>3
<1> QED
  BY <1>4

\* The head of the loop: a missing object is made only when one was lost.
LEMMA RunsKeep == ASSUME PubSubInv, ListenerRuns PROVE PubSubInv'
<1>1. PubSubTypeOK /\ ObjectsSuffice /\ ProgressIsKept /\ OneObject
  BY DEF PubSubInv
<1>2. /\ listener \in {"started", "waiting"} /\ LoopHead
      /\ subscribed' = subscribed /\ channels' = channels /\ calls' = calls /\ losses' = losses
  BY DEF ListenerRuns
<1>3. Gathered = channels /\ channels \in SUBSET Channels
  BY <1>1, <1>2 DEF Gathered, PubSubTypeOK
<1>4. CASE pubsub = NoObject
  <2>1. /\ created' = created + 1 /\ pubsub' = created + 1
        /\ iteration' = [over |-> channels, todo |-> channels] /\ listener' = "resubscribing"
    BY <1>2, <1>4 DEF LoopHead, CreateObject
  <2>2. created \in Nat /\ created' \in Nat /\ pubsub' \in Nat /\ pubsub' # NoObject
    <3>1. created \in Nat
      BY <1>1 DEF PubSubTypeOK
    <3>2. created + 1 \in Nat
      BY <3>1
    <3> QED
      BY <2>1, <3>1, <3>2, NumbersAreObjects
  <2>3. Gathered' = channels
    BY <2>1 DEF Gathered
  <2>4. PubSubTypeOK'
    BY <1>1, <1>2, <2>1, <2>2 DEF PubSubTypeOK
  <2>5. ObjectsSuffice'
    <3>1. created' <= losses' + (IF pubsub' = NoObject THEN 0 ELSE 1) + Cardinality(Gathered')
      BY <1>2, <1>3, <1>4, <2>1, <2>2, <2>3, CountKept
    <3>2. pubsub' \in 1..created' /\ 1..created \subseteq 1..created'
      BY <2>1, <2>2
    <3>3. iteration'.over \subseteq channels'
      BY <1>2, <2>1
    <3> QED
      BY <1>1, <1>2, <3>1, <3>2, <3>3 DEF ObjectsSuffice
  <2>6. ProgressIsKept'
    BY <2>1, <2>2 DEF ProgressIsKept
  <2>7. losses # 0
    BY <1>1, <1>2, <1>4 DEF OneObject
  <2>8. OneObject'
    BY <1>2, <2>7 DEF OneObject
  <2> QED
    BY <2>4, <2>5, <2>6, <2>8 DEF PubSubInv
<1>5. CASE pubsub # NoObject
  <2>1. ListenTo(subscribed[pubsub]) /\ pubsub' = pubsub /\ created' = created /\ iteration' = iteration
    BY <1>2, <1>5 DEF LoopHead
  <2>2. listener' \in {"listening", "spinning"} /\ (subscribed[pubsub] # {} => listener' = "listening")
    BY <2>1 DEF ListenTo
  <2>3. Gathered' = channels
    BY <1>2, <2>2 DEF Gathered
  <2>4. PubSubTypeOK'
    BY <1>1, <1>2, <2>1, <2>2 DEF PubSubTypeOK
  <2>5. ObjectsSuffice'
    <3>1. created' <= losses' + (IF pubsub' = NoObject THEN 0 ELSE 1) + Cardinality(Gathered')
      BY <1>2, <1>3, <2>1, <2>3, CountKept
    <3> QED
      BY <1>1, <1>2, <2>1, <3>1 DEF ObjectsSuffice
  <2>6. ProgressIsKept'
    BY <2>2 DEF ProgressIsKept
  <2>7. OneObject'
    <3>1. ASSUME losses = 0 PROVE listener' = "listening" /\ channels \subseteq subscribed[pubsub]
      <4>1. channels # {} /\ channels \subseteq subscribed[pubsub]
        BY <1>1, <1>2, <3>1 DEF OneObject
      <4> QED
        BY <2>2, <4>1
    <3> QED
      BY <1>1, <1>2, <2>1, <3>1 DEF OneObject
  <2> QED
    BY <2>4, <2>5, <2>6, <2>7 DEF PubSubInv
<1> QED
  BY <1>4, <1>5

\* A reconnect's SUBSCRIBE is answered: one channel more is done, or the
\* iteration raises for a channel registered meanwhile.
LEMMA ResubscribedKeeps == ASSUME PubSubInv, Resubscribed PROVE PubSubInv'
<1>1. PubSubTypeOK /\ ObjectsSuffice /\ ProgressIsKept /\ OneObject
  BY DEF PubSubInv
<1>2. PICK ch \in iteration.todo :
       /\ subscribed' = [subscribed EXCEPT ![pubsub] = @ \cup {ch}]
       /\ \/ channels # iteration.over /\ GiveUp
          \/ /\ channels = iteration.over
             /\ iteration' = [iteration EXCEPT !.todo = @ \ {ch}]
             /\ IF iteration.todo = {ch} THEN ListenTo(subscribed'[pubsub])
                                        ELSE UNCHANGED listener
             /\ UNCHANGED <<pubsub, created, channels, calls>>
  BY DEF Resubscribed
<1>3. listener = "resubscribing" /\ losses' = losses
  BY DEF Resubscribed
<1>4. losses # 0 /\ losses \in Nat /\ losses <= MaxLosses
  BY <1>1, <1>3 DEF OneObject, PubSubTypeOK
<1>5. ch \in Channels /\ iteration.over \in SUBSET Channels /\ iteration.todo \in SUBSET Channels
  BY <1>1 DEF PubSubTypeOK
<1>6. pubsub \in Objects
  BY <1>1, <1>3, ObjectsAreThere DEF ObjectsSuffice, ProgressIsKept
<1>7. subscribed' \in [Objects -> SUBSET Channels]
      /\ subscribed'[pubsub] = subscribed[pubsub] \cup {ch}
  BY <1>1, <1>2, <1>5, <1>6 DEF PubSubTypeOK
<1>8. CASE channels # iteration.over /\ GiveUp
  BY <1>3, <1>4, <1>7, <1>8, GiveUpKeeps
<1>9. CASE /\ channels = iteration.over
           /\ iteration' = [iteration EXCEPT !.todo = @ \ {ch}]
           /\ IF iteration.todo = {ch} THEN ListenTo(subscribed'[pubsub]) ELSE UNCHANGED listener
           /\ UNCHANGED <<pubsub, created, channels, calls>>
  <2>1. /\ iteration'.over = iteration.over /\ iteration'.todo = iteration.todo \ {ch}
        /\ iteration' \in [over : SUBSET Channels, todo : SUBSET Channels]
    BY <1>1, <1>5, <1>9 DEF PubSubTypeOK
  <2>2. listener' \in {"resubscribing", "listening", "spinning"}
    BY <1>3, <1>9 DEF ListenTo
  <2>3. PubSubTypeOK'
    BY <1>1, <1>3, <1>7, <1>9, <2>1, <2>2 DEF PubSubTypeOK
  <2>4. ObjectsSuffice'
    <3>1. Gathered = channels /\ Gathered' = channels /\ channels \in SUBSET Channels
      BY <1>3, <1>5, <1>9, <2>1, <2>2 DEF Gathered
    <3>2. created' <= losses' + (IF pubsub' = NoObject THEN 0 ELSE 1) + Cardinality(Gathered')
      BY <1>3, <1>9, <3>1, CountKept
    <3> QED
      BY <1>1, <1>9, <2>1, <3>2 DEF ObjectsSuffice
  <2>5. ProgressIsKept'
    <3>1. pubsub # NoObject /\ iteration.over \ iteration.todo \subseteq subscribed[pubsub]
      BY <1>1, <1>3 DEF ProgressIsKept
    <3> QED
      BY <1>7, <1>9, <2>1, <3>1 DEF ProgressIsKept
  <2>6. OneObject'
    BY <1>3, <1>4 DEF OneObject
  <2> QED
    BY <2>3, <2>4, <2>5, <2>6 DEF PubSubInv
<1> QED
  BY <1>2, <1>8, <1>9

\* A connection is lost.
LEMMA FailureKeeps == ASSUME PubSubInv, ListenerFails PROVE PubSubInv'
<1>1. /\ losses < MaxLosses /\ losses' = losses + 1 /\ GiveUp /\ subscribed' = subscribed
  BY DEF ListenerFails
<1>2. losses \in Nat /\ subscribed \in [Objects -> SUBSET Channels] /\ MaxLosses \in Nat
  BY DEF PubSubInv, PubSubTypeOK, PubSubConstants
<1> QED
  BY <1>1, <1>2, GiveUpKeeps

\* A call takes the object that is there, or makes the first.
LEMMA SubscribeKeeps == ASSUME PubSubInv, NEW ch \in Channels, Subscribe(ch) PROVE PubSubInv'
<1>1. PubSubTypeOK /\ ObjectsSuffice /\ ProgressIsKept /\ OneObject
  BY DEF PubSubInv
<1>2. /\ calls' = [calls EXCEPT ![ch] = [pc |-> "subscribing", on |-> pubsub']]
      /\ UNCHANGED <<subscribed, channels, listener, iteration, losses>>
      /\ \/ pubsub = NoObject /\ created' = created + 1 /\ pubsub' = created + 1
         \/ pubsub # NoObject /\ created' = created /\ pubsub' = pubsub
  BY DEF Subscribe, CreateObject
<1>3. /\ created \in Nat /\ created' \in Nat /\ pubsub' \in Nat /\ pubsub' # NoObject
      /\ pubsub' \in 1..created' /\ 1..created \subseteq 1..created'
      /\ (pubsub # NoObject => pubsub' = pubsub)
  <2>1. created \in Nat /\ (pubsub # NoObject => pubsub \in 1..created)
    BY <1>1 DEF PubSubTypeOK, ObjectsSuffice
  <2>2. created + 1 \in Nat /\ created + 1 \in 1..(created + 1) /\ 1..created \subseteq 1..(created + 1)
        /\ 1..created \subseteq Nat
    BY <2>1
  <2> QED
    BY <1>2, <2>1, <2>2, NumbersAreObjects
<1>4. /\ calls'[ch] = [pc |-> "subscribing", on |-> pubsub']
      /\ \A d \in Channels : d # ch => calls'[d] = calls[d]
      /\ calls' \in [Channels -> [pc : {"not called", "subscribing", "subscribed", "failed"},
                                  on : Nat \cup {NoObject}]]
  BY <1>1, <1>2, <1>3 DEF PubSubTypeOK
<1>5. PubSubTypeOK'
  BY <1>1, <1>2, <1>3, <1>4 DEF PubSubTypeOK
<1>6. ObjectsSuffice'
  <2>1. Gathered' = Gathered /\ Gathered \in SUBSET Channels
    BY <1>2, ObjectsAreThere DEF Gathered
  <2>2. created' <= losses' + (IF pubsub' = NoObject THEN 0 ELSE 1) + Cardinality(Gathered')
    BY <1>2, <1>3, <2>1, CountKept
  <2>3. \A d \in Channels : /\ calls'[d].on # NoObject => calls'[d].on \in 1..created'
                            /\ calls'[d].pc = "subscribing" => calls'[d].on # NoObject
    <3>1. calls'[ch].on = pubsub' /\ \A d \in Channels \ {ch} : calls'[d] = calls[d]
      <4>1. calls'[ch] = [pc |-> "subscribing", on |-> pubsub']
        BY <1>4
      <4>2. calls'[ch].on = pubsub'
        BY <4>1
      <4>3. \A d \in Channels \ {ch} : calls'[d] = calls[d]
        BY <1>4
      <4> QED
        BY <4>2, <4>3
    <3>2. \A d \in Channels : /\ calls[d].on # NoObject => calls[d].on \in 1..created
                              /\ calls[d].pc = "subscribing" => calls[d].on # NoObject
      BY <1>1 DEF ObjectsSuffice
    <3> QED
      BY <1>3, <3>1, <3>2
  <2> QED
    BY <1>1, <1>2, <1>3, <2>2, <2>3 DEF ObjectsSuffice
<1>7. ProgressIsKept'
  BY <1>1, <1>2, <1>3 DEF ProgressIsKept
<1>8. OneObject'
  BY <1>1, <1>2, <1>3, <1>4 DEF OneObject
<1> QED
  BY <1>5, <1>6, <1>7, <1>8 DEF PubSubInv

\* A call's channel is registered on the object the call holds.
LEMMA AnsweredKeeps == ASSUME PubSubInv, NEW ch \in Channels, SubscribeAnswered(ch) PROVE PubSubInv'
<1>1. PubSubTypeOK /\ ObjectsSuffice /\ ProgressIsKept /\ OneObject
  BY DEF PubSubInv
<1>2. /\ calls[ch].pc = "subscribing"
      /\ subscribed' = [subscribed EXCEPT ![calls[ch].on] = @ \cup {ch}]
      /\ channels' = channels \cup {ch}
      /\ calls' = [calls EXCEPT ![ch].pc = "subscribed"]
      /\ listener' = IF listener = "none" THEN "started" ELSE listener
      /\ UNCHANGED <<pubsub, created, iteration, losses>>
  BY DEF SubscribeAnswered
<1>3. calls[ch].on \in 1..created /\ calls[ch].on \in Objects
  BY <1>1, <1>2, ObjectsAreThere DEF ObjectsSuffice
<1>4. /\ subscribed' \in [Objects -> SUBSET Channels]
      /\ \A o \in Objects : subscribed[o] \subseteq subscribed'[o]
      /\ ch \in subscribed'[calls[ch].on]
  BY <1>1, <1>2, <1>3 DEF PubSubTypeOK
<1>5. /\ calls' \in [Channels -> [pc : {"not called", "subscribing", "subscribed", "failed"},
                                  on : Nat \cup {NoObject}]]
      /\ calls'[ch].pc = "subscribed"
      /\ \A d \in Channels : calls'[d].on = calls[d].on /\ (d # ch => calls'[d].pc = calls[d].pc)
  BY <1>1, <1>2 DEF PubSubTypeOK
<1>6. PubSubTypeOK'
  BY <1>1, <1>2, <1>4, <1>5 DEF PubSubTypeOK
<1>7. ObjectsSuffice'
  <2>1. Gathered \subseteq Gathered' /\ Gathered' \in SUBSET Channels
    BY <1>1, <1>2 DEF Gathered, PubSubTypeOK
  <2>2. created' <= losses' + (IF pubsub' = NoObject THEN 0 ELSE 1) + Cardinality(Gathered')
    BY <1>2, <2>1, CountKept
  <2>3. \A d \in Channels : /\ calls'[d].on # NoObject => calls'[d].on \in 1..created'
                            /\ calls'[d].pc = "subscribing" => calls'[d].on # NoObject
    BY <1>1, <1>2, <1>5 DEF ObjectsSuffice
  <2> QED
    BY <1>1, <1>2, <2>2, <2>3 DEF ObjectsSuffice
<1>8. ProgressIsKept'
  <2>1. ASSUME listener' = "resubscribing"
        PROVE  pubsub # NoObject /\ iteration.over \ iteration.todo \subseteq subscribed'[pubsub]
    <3>1. listener = "resubscribing"
      BY <1>2, <2>1
    <3>2. pubsub # NoObject /\ iteration.over \ iteration.todo \subseteq subscribed[pubsub]
      BY <1>1, <3>1 DEF ProgressIsKept
    <3>3. pubsub \in Objects
      BY <1>1, <3>2, ObjectsAreThere DEF ObjectsSuffice
    <3> QED
      BY <1>4, <3>2, <3>3
  <2> QED
    BY <1>2, <2>1 DEF ProgressIsKept
<1>9. OneObject'
  <2> SUFFICES ASSUME losses = 0 PROVE OneObject'
    BY <1>2 DEF OneObject
  <2>1. /\ listener \in {"none", "started", "listening"}
        /\ \A d \in Channels : calls[d].pc # "not called" => pubsub # NoObject /\ calls[d].on = pubsub
        /\ channels # {} => pubsub # NoObject /\ channels \subseteq subscribed[pubsub]
    BY <1>1 DEF OneObject
  <2>2. pubsub # NoObject /\ calls[ch].on = pubsub /\ pubsub \in Objects
    BY <1>2, <1>3, <2>1
  <2>3. channels' # {} /\ channels' \subseteq subscribed'[pubsub]
    BY <1>2, <1>4, <2>1, <2>2
  <2>4. \A d \in Channels : calls'[d].pc # "not called" => calls'[d].on = pubsub
    BY <1>2, <1>5, <2>1, <2>2
  <2> QED
    BY <1>2, <2>1, <2>2, <2>3, <2>4 DEF OneObject
<1> QED
  BY <1>6, <1>7, <1>8, <1>9 DEF PubSubInv

\* A SUBSCRIBE that raises leaves what there is.
LEMMA RaisedKeeps == ASSUME PubSubInv, NEW ch \in Channels, SubscribeRaises(ch) PROVE PubSubInv'
<1>1. PubSubTypeOK /\ ObjectsSuffice /\ ProgressIsKept /\ OneObject
  BY DEF PubSubInv
<1>2. /\ calls[ch].pc = "subscribing" /\ calls' = [calls EXCEPT ![ch].pc = "failed"]
      /\ UNCHANGED <<pubsub, created, subscribed, channels, listener, iteration, losses>>
  BY DEF SubscribeRaises
<1>3. /\ calls' \in [Channels -> [pc : {"not called", "subscribing", "subscribed", "failed"},
                                  on : Nat \cup {NoObject}]]
      /\ calls'[ch].pc = "failed"
      /\ \A d \in Channels : calls'[d].on = calls[d].on /\ (d # ch => calls'[d].pc = calls[d].pc)
  BY <1>1, <1>2 DEF PubSubTypeOK
<1>4. PubSubTypeOK'
  BY <1>1, <1>2, <1>3 DEF PubSubTypeOK
<1>5. ObjectsSuffice'
  <2>1. Gathered' = Gathered
    BY <1>2 DEF Gathered
  <2>2. \A d \in Channels : /\ calls'[d].on # NoObject => calls'[d].on \in 1..created
                            /\ calls'[d].pc = "subscribing" => calls'[d].on # NoObject
    BY <1>1, <1>3 DEF ObjectsSuffice
  <2> QED
    BY <1>1, <1>2, <2>1, <2>2 DEF ObjectsSuffice
<1>6. ProgressIsKept' /\ OneObject'
  BY <1>1, <1>2, <1>3 DEF ProgressIsKept, OneObject
<1> QED
  BY <1>4, <1>5, <1>6 DEF PubSubInv

---------------------------------------------------------------------------
\* The initial state satisfies the invariant.
LEMMA InitPubSub == ASSUME Init PROVE PubSubInv
<1>1. PubSubTypeOK
  <2>1. /\ created \in Nat /\ losses \in Nat /\ losses <= MaxLosses
        /\ pubsub \in Nat \cup {NoObject}
        /\ listener \in {"none", "started", "waiting", "resubscribing", "listening", "spinning"}
    <3>1. created = 0 /\ losses = 0 /\ pubsub = NoObject /\ listener = "none"
      BY DEF Init
    <3>2. MaxLosses \in Nat
      BY DEF PubSubConstants
    <3> QED
      BY <3>1, <3>2
  <2>2. /\ subscribed \in [Objects -> SUBSET Channels] /\ channels \in SUBSET Channels
        /\ calls \in [Channels -> [pc : {"not called", "subscribing", "subscribed", "failed"},
                                   on : Nat \cup {NoObject}]]
        /\ iteration \in [over : SUBSET Channels, todo : SUBSET Channels]
    BY DEF Init
  <2> QED
    BY <2>1, <2>2 DEF PubSubTypeOK
<1>2. Gathered = {} /\ Cardinality(Gathered) = 0
  BY FS_EmptySet DEF Init, Gathered
<1>3. ObjectsSuffice
  <2>1. created <= losses + (IF pubsub = NoObject THEN 0 ELSE 1) + Cardinality(Gathered)
    <3>1. created = 0 /\ losses = 0 /\ pubsub = NoObject
      BY DEF Init
    <3> QED
      BY <1>2, <3>1
  <2> QED
    BY <2>1 DEF Init, ObjectsSuffice
<1>4. ProgressIsKept /\ OneObject
  BY DEF Init, ProgressIsKept, OneObject
<1> QED
  BY <1>1, <1>3, <1>4 DEF PubSubInv

\* Every step keeps the invariant.
LEMMA PubSubStep == ASSUME PubSubInv, [Next]_vars PROVE PubSubInv'
<1>1. CASE Next
  <2>1. CASE ListenerRuns
    BY <2>1, RunsKeep
  <2>2. CASE Resubscribed
    BY <2>2, ResubscribedKeeps
  <2>3. CASE ListenerFails
    BY <2>3, FailureKeeps
  <2>4. ASSUME NEW ch \in Channels, Subscribe(ch) \/ SubscribeStep(ch) PROVE PubSubInv'
    BY <2>4, SubscribeKeeps, AnsweredKeeps, RaisedKeeps DEF SubscribeStep
  <2> QED
    BY <1>1, <2>1, <2>2, <2>3, <2>4 DEF Next, ListenerStep
<1>2. CASE UNCHANGED vars
  BY <1>2 DEF vars, PubSubInv, PubSubTypeOK, ObjectsSuffice, Gathered, ProgressIsKept, OneObject
<1> QED
  BY <1>1, <1>2

\* The inductive invariant behind the results about the shared pub/sub object
\* and the listener holds throughout.
THEOREM PubSubInvariant == Spec => []PubSubInv
BY InitPubSub, PubSubStep, PTL DEF Spec

\* As long as the connection lasts, concurrent first subscriptions share one
\* object and every registered channel is on the one that is listened to.
THEOREM HeardSafe == Spec => []HeardUntilFirstLoss
<1>1. ASSUME PubSubInv PROVE HeardUntilFirstLoss
  BY <1>1 DEF PubSubInv, OneObject, HeardUntilFirstLoss
<1> QED
  BY <1>1, PubSubInvariant, PTL

\* A listener that begins to listen after re-subscribing leaves no registered
\* channel out, whatever subscribe_to_channel registers meanwhile.
THEOREM ReconnectsSafe == Spec => ReconnectsAreComplete
<1>1. ASSUME PubSubInv, [Next]_vars, listener = "resubscribing", listener' = "listening"
      PROVE  channels \subseteq subscribed'[pubsub]
  <2>1. Resubscribed
    <3>1. ASSUME NEW ch \in Channels, Subscribe(ch) \/ SubscribeStep(ch) PROVE listener' = listener
      BY <1>1, <3>1 DEF Subscribe, SubscribeStep, SubscribeAnswered, SubscribeRaises
    <3> QED
      BY <1>1, <3>1 DEF Next, vars, ListenerStep, ListenerRuns, ListenerFails, GiveUp
  <2>2. PICK ch \in iteration.todo :
         /\ subscribed' = [subscribed EXCEPT ![pubsub] = @ \cup {ch}]
         /\ channels = iteration.over /\ iteration.todo = {ch}
    BY <1>1, <2>1 DEF Resubscribed, GiveUp
  <2>3. pubsub # NoObject /\ iteration.over \ iteration.todo \subseteq subscribed[pubsub]
    BY <1>1 DEF PubSubInv, ProgressIsKept
  <2>4. pubsub \in Objects /\ subscribed \in [Objects -> SUBSET Channels]
    BY <1>1, <2>3, ObjectsAreThere DEF PubSubInv, PubSubTypeOK, ObjectsSuffice
  <2>5. subscribed'[pubsub] = subscribed[pubsub] \cup {ch}
    BY <2>2, <2>4
  <2> QED
    BY <2>2, <2>3, <2>5
<1>2. PubSubInv /\ [Next]_vars
        => [listener = "resubscribing" /\ listener' = "listening" => channels \subseteq subscribed'[pubsub]]_vars
  BY <1>1
<1> QED
  BY <1>2, PubSubInvariant, PTL DEF Spec, ReconnectsAreComplete
===========================================================================
