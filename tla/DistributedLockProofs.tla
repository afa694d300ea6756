----------------------- MODULE DistributedLockProofs -----------------------
(***************************************************************************)
(* What the lock excludes, for any number of clients and attempts,         *)
(* whatever commands are repeated or executed late, whenever keys expire   *)
(* and whoever loses the connection.                                       *)
(***************************************************************************)
EXTENDS DistributedLock, TLAPS

\* Clients have different values, no value is drawn twice, and a client that waits
\* for an answer or holds the lock has one.
OwnValues ==
  /\ \A c \in Clients : lock_value[c] # Free => lock_value[c] <= draws
  /\ \A c, d \in Clients : lock_value[c] = lock_value[d] /\ lock_value[c] # Free => c = d
  /\ \A c \in Clients : pc[c] \in {"setting", "holding", "deleting"} => lock_value[c] # Free

\* The inductive invariant: a key that is there when somebody is entitled to it
\* is that client's.
LockInv == TypeOK /\ OwnValues /\ HolderOwnsKey

---------------------------------------------------------------------------
\* What a client waits for is a command.
LEMMA AwaitedIsCommand ==
  ASSUME TypeOK, OwnValues, NEW c \in Clients, pc[c] \in {"setting", "deleting"}
  PROVE  Awaited(c) \in Commands
<1>1. lock_value[c] \in Values /\ resent[c] \in BOOLEAN
  BY DEF TypeOK, OwnValues
<1> QED
  BY <1>1 DEF Awaited, Commands

\* The next value is one, is not Free, and nobody has it.
LEMMA NextIsNew ==
  ASSUME TypeOK, OwnValues, draws < MaxAcquires
  PROVE  /\ draws + 1 \in Values /\ draws + 1 # Free /\ draws + 1 \in 0 .. MaxAcquires
         /\ \A d \in Clients : lock_value[d] # draws + 1
<1>1. draws \in Nat /\ draws <= MaxAcquires /\ MaxAcquires \in Nat
  BY LockConstants DEF TypeOK
<1>2. draws + 1 \in Values /\ draws + 1 \in 0 .. MaxAcquires
  BY <1>1 DEF Values
<1>3. ASSUME NEW d \in Clients PROVE lock_value[d] # draws + 1
  <2>1. CASE lock_value[d] = Free
    BY <1>2, <2>1, LockConstants
  <2>2. CASE lock_value[d] # Free
    <3>1. lock_value[d] \in Nat /\ lock_value[d] <= draws
      BY <2>2, LockConstants DEF TypeOK, OwnValues, Values
    <3> QED
      BY <1>1, <3>1
  <2> QED
    BY <2>1, <2>2
<1> QED
  BY <1>2, <1>3, LockConstants

\* A step of a client or of the server preserves the types of the state, given
\* what is known of the values.
LEMMA TypeStep ==
  ASSUME TypeOK, OwnValues, [Next]_vars
  PROVE  TypeOK'
<1> USE LockConstants DEF TypeOK, Goto
<1>1. ASSUME NEW c \in Clients, StartAcquire(c) PROVE TypeOK'
  <2>1. draws + 1 \in Values /\ draws + 1 \in 0 .. MaxAcquires
    BY <1>1, NextIsNew DEF StartAcquire
  <2> QED
    BY <1>1, <2>1 DEF StartAcquire
<1>2. ASSUME NEW c \in Clients, AcquireWithoutRedis(c) \/ StartRelease(c) \/ GetAnswered(c) \/ GetRaises(c)
      PROVE  TypeOK'
  BY <1>2 DEF AcquireWithoutRedis, StartRelease, GetAnswered, GetRaises
<1>3. ASSUME NEW c \in Clients, SetAnswered(c) PROVE TypeOK'
  <2>1. lock_value[c] \in Values
    BY <1>3 DEF SetAnswered, OwnValues
  <2> QED
    BY <1>3, <2>1 DEF SetAnswered, ExecuteSet
<1>4. ASSUME NEW c \in Clients, DeleteAnswered(c) PROVE TypeOK'
  BY <1>4 DEF DeleteAnswered, ExecuteDelete
<1>5. ASSUME NEW c \in Clients, Resend(c) \/ CommandRaises(c) PROVE TypeOK'
  <2>1. Awaited(c) \in Commands
    BY <1>5, AwaitedIsCommand DEF Resend, CommandRaises, GivesUp
  <2> QED
    BY <1>5, <2>1 DEF Resend, CommandRaises, GivesUp
<1>6. ASSUME NEW c \in Clients, ToggleConnection(c) PROVE TypeOK'
  BY <1>6 DEF ToggleConnection
<1>7. ASSUME NEW m \in late, ExecuteLate(m) PROVE TypeOK'
  <2>1. m[2] \in Values
    BY <1>7 DEF Commands
  <2> QED
    BY <1>7, <2>1 DEF ExecuteLate, ExecuteSet, ExecuteDelete, clientVars
<1>8. CASE KeyExpires
  BY <1>8 DEF KeyExpires
<1>9. CASE UNCHANGED vars
  BY <1>9 DEF vars
<1> QED
  BY <1>1, <1>2, <1>3, <1>4, <1>5, <1>6, <1>7, <1>8, <1>9 DEF Next, ClientStep

---------------------------------------------------------------------------
\* Steps that draw no value and give none to a client that waits or holds.
LEMMA ValuesFrame ==
  ASSUME OwnValues, UNCHANGED <<lock_value, draws>>,
         \A d \in Clients : pc'[d] \in {"setting", "holding", "deleting"} => lock_value[d] # Free
  PROVE  OwnValues'
BY DEF OwnValues

\* Every step keeps the values apart.
LEMMA ValuesStep ==
  ASSUME TypeOK, OwnValues, [Next]_vars
  PROVE  OwnValues'
<1> USE DEF Goto
<1>1. ASSUME NEW c \in Clients, StartAcquire(c) PROVE OwnValues'
  <2>1. /\ draws + 1 \in Values /\ draws + 1 # Free
        /\ \A d \in Clients : lock_value[d] # draws + 1
    BY <1>1, NextIsNew DEF StartAcquire
  <2>2. /\ draws' = draws + 1 /\ lock_value' = [lock_value EXCEPT ![c] = draws + 1]
        /\ pc' = [pc EXCEPT ![c] = "setting"]
    BY <1>1 DEF StartAcquire
  <2>3. /\ \A d \in Clients : lock_value'[d] = IF d = c THEN draws + 1 ELSE lock_value[d]
        /\ \A d \in Clients : pc'[d] = IF d = c THEN "setting" ELSE pc[d]
    BY <2>2 DEF TypeOK
  <2>4. ASSUME NEW d \in Clients, lock_value'[d] # Free PROVE lock_value'[d] <= draws'
    <3>1. draws \in Nat
      BY DEF TypeOK
    <3>2. CASE d = c
      BY <2>2, <2>3, <3>1, <3>2
    <3>3. CASE d # c
      <4>1. lock_value[d] \in Nat /\ lock_value[d] <= draws
        BY <2>3, <2>4, <3>3, LockConstants DEF TypeOK, OwnValues, Values
      <4> QED
        BY <2>2, <2>3, <3>1, <3>3, <4>1
    <3> QED
      BY <3>2, <3>3
  <2>5. ASSUME NEW d \in Clients, NEW e \in Clients, lock_value'[d] = lock_value'[e], lock_value'[d] # Free
        PROVE  d = e
    BY <2>1, <2>3, <2>5 DEF OwnValues
  <2>6. \A d \in Clients : pc'[d] \in {"setting", "holding", "deleting"} => lock_value'[d] # Free
    BY <2>1, <2>3 DEF OwnValues
  <2> QED
    BY <2>4, <2>5, <2>6 DEF OwnValues
<1>2. ASSUME NEW c \in Clients, SetAnswered(c) PROVE OwnValues'
  BY <1>2, ValuesFrame DEF SetAnswered, OwnValues, TypeOK
<1>3. ASSUME NEW c \in Clients, GetAnswered(c) PROVE OwnValues'
  BY <1>3, ValuesFrame DEF GetAnswered, OwnValues, TypeOK
<1>4. ASSUME NEW c \in Clients,
             \/ AcquireWithoutRedis(c) \/ StartRelease(c) \/ DeleteAnswered(c)
             \/ Resend(c) \/ CommandRaises(c) \/ GetRaises(c) \/ ToggleConnection(c)
      PROVE  OwnValues'
  <2>1. /\ UNCHANGED <<lock_value, draws>>
        /\ \A d \in Clients : pc'[d] = pc[d] \/ pc'[d] \in {"idle", "allowed", "getting"}
    BY <1>4 DEF AcquireWithoutRedis, StartRelease, DeleteAnswered, Resend, CommandRaises, GetRaises,
                GivesUp, ToggleConnection, TypeOK
  <2> QED
    BY <2>1, ValuesFrame DEF OwnValues
<1>5. ASSUME NEW m \in late, ExecuteLate(m) PROVE OwnValues'
  BY <1>5, ValuesFrame DEF ExecuteLate, clientVars, OwnValues
<1>6. CASE KeyExpires
  BY <1>6, ValuesFrame DEF KeyExpires, OwnValues
<1>7. CASE UNCHANGED vars
  BY <1>7, ValuesFrame DEF vars, OwnValues
<1> QED
  BY <1>1, <1>2, <1>3, <1>4, <1>5, <1>6, <1>7 DEF Next, ClientStep

---------------------------------------------------------------------------
\* After a DELETE of v nobody but a client with value v is entitled to the key.
LEMMA DeleteDisentitles ==
  ASSUME LockInv, NEW v, ExecuteDelete(v), NEW d \in Clients, lock_value[d] # v,
         lock_value'[d] = lock_value[d], pc'[d] = pc[d], lapsed \subseteq lapsed'
  PROVE  ~ Entitled(d)'
<1>1. SUFFICES ASSUME Entitled(d)' PROVE FALSE
  OBVIOUS
<1>2. Entitled(d)
  BY <1>1 DEF Entitled, ExecuteDelete
<1>3. key = lock_value[d] /\ lock_value[d] # Free
  BY <1>2 DEF LockInv, HolderOwnsKey, OwnValues, Entitled
<1>4. lock_value[d] \in stolen'
  BY <1>3 DEF ExecuteDelete
<1> QED
  BY <1>1, <1>4 DEF Entitled

\* A step after which only clients are entitled that were so before, and their
\* key and values are what they were, keeps the key theirs.
LEMMA EntitledFrame ==
  ASSUME HolderOwnsKey,
         \A d \in Clients : Entitled(d)' =>
            Entitled(d) /\ key' = key /\ lock_value'[d] = lock_value[d]
  PROVE  HolderOwnsKey'
BY DEF HolderOwnsKey

\* Every step keeps the key with whoever is entitled to it.  A SET only sets a
\* free key, when nobody is entitled; what removes the key disentitles its owner.
LEMMA KeyStep ==
  ASSUME LockInv, [Next]_vars
  PROVE  HolderOwnsKey'
<1> USE DEF Goto
<1>0. TypeOK /\ OwnValues /\ HolderOwnsKey
  BY DEF LockInv
<1>1. ASSUME NEW c \in Clients,
             \/ StartAcquire(c) \/ AcquireWithoutRedis(c) \/ StartRelease(c) \/ Resend(c)
             \/ CommandRaises(c) \/ GetRaises(c) \/ ToggleConnection(c)
      PROVE  HolderOwnsKey'
  <2>1. /\ UNCHANGED <<key, lapsed, stolen>>
        /\ \A d \in Clients : \/ pc'[d] \in {"setting", "allowed", "getting", "idle"}
                              \/ pc'[d] = pc[d] /\ lock_value'[d] = lock_value[d]
    BY <1>0, <1>1 DEF StartAcquire, AcquireWithoutRedis, StartRelease, Resend, CommandRaises, GetRaises,
                      GivesUp, ToggleConnection, TypeOK
  <2> QED
    BY <1>0, <2>1, EntitledFrame DEF Entitled
<1>2. ASSUME NEW c \in Clients, SetAnswered(c) PROVE HolderOwnsKey'
  <2>1. CASE key = Free
    <3>1. /\ key' = lock_value[c] /\ lock_value' = lock_value
          /\ lapsed' = lapsed \ {lock_value[c]} /\ stolen' = stolen \ {lock_value[c]}
      BY <1>2, <2>1 DEF SetAnswered, ExecuteSet
    <3>2. ASSUME NEW d \in Clients, Entitled(d)', d # c PROVE FALSE
      <4>1. pc'[d] = pc[d]
        BY <1>0, <1>2, <3>2 DEF SetAnswered, TypeOK
      <4>2. lock_value[d] # lock_value[c]
        BY <1>0, <3>1, <3>2, <4>1 DEF OwnValues, Entitled
      <4>3. Entitled(d)
        BY <3>1, <3>2, <4>1, <4>2 DEF Entitled
      <4> QED
        BY <1>0, <2>1, <4>3 DEF HolderOwnsKey, OwnValues, Entitled
    <3> QED
      BY <3>1, <3>2 DEF HolderOwnsKey
  <2>2. CASE key # Free
    <3>1. \A d \in Clients : Entitled(d)' =>
             Entitled(d) /\ key' = key /\ lock_value'[d] = lock_value[d]
      BY <1>0, <1>2, <2>2 DEF SetAnswered, ExecuteSet, TypeOK, Entitled
    <3> QED
      BY <1>0, <3>1, EntitledFrame
  <2> QED
    BY <2>1, <2>2
<1>3. ASSUME NEW c \in Clients, GetAnswered(c) PROVE HolderOwnsKey'
  <2>1. UNCHANGED <<key, lock_value, lapsed, stolen>>
    BY <1>3 DEF GetAnswered
  <2>2. \A d \in Clients : Entitled(d)' => Entitled(d) \/ key = lock_value[d]
    BY <1>0, <1>3 DEF GetAnswered, Entitled, TypeOK
  <2> QED
    BY <1>0, <2>1, <2>2 DEF HolderOwnsKey
<1>4. ASSUME NEW c \in Clients, DeleteAnswered(c) PROVE HolderOwnsKey'
  <2>1. ASSUME NEW d \in Clients PROVE ~ Entitled(d)'
    <3>1. CASE d = c
      BY <1>0, <1>4, <3>1 DEF DeleteAnswered, Entitled, TypeOK
    <3>2. CASE d # c
      <4>1. /\ pc'[d] = pc[d] /\ UNCHANGED <<lock_value, lapsed>>
            /\ ExecuteDelete(lock_value[c]) /\ pc[c] = "deleting"
        BY <1>0, <1>4, <3>2 DEF DeleteAnswered, TypeOK
      <4>2. lock_value[d] # lock_value[c]
        BY <1>0, <3>2, <4>1 DEF OwnValues
      <4> QED
        BY <4>1, <4>2, DeleteDisentitles
    <3> QED
      BY <3>1, <3>2
  <2> QED
    BY <2>1 DEF HolderOwnsKey
<1>5. ASSUME NEW m \in late, ExecuteLate(m) PROVE HolderOwnsKey'
  <2>1. UNCHANGED <<lock_value, pc>>
    BY <1>5 DEF ExecuteLate, clientVars
  <2>2. CASE m[1] = "set" /\ key # Free
    BY <1>0, <1>5, <2>1, <2>2, EntitledFrame DEF ExecuteLate, ExecuteSet, Entitled
  <2>3. CASE m[1] = "set" /\ key = Free
    <3>1. key' = m[2] /\ lapsed' = lapsed \ {m[2]} /\ stolen' = stolen \ {m[2]}
      BY <1>5, <2>3 DEF ExecuteLate, ExecuteSet
    <3>2. ASSUME NEW d \in Clients, Entitled(d)', lock_value[d] # m[2] PROVE FALSE
      <4>1. Entitled(d)
        BY <2>1, <3>1, <3>2 DEF Entitled
      <4> QED
        BY <1>0, <2>3, <4>1 DEF HolderOwnsKey, OwnValues, Entitled
    <3> QED
      BY <2>1, <3>1, <3>2 DEF HolderOwnsKey
  <2>4. CASE m[1] = "delete"
    <3>1. ExecuteDelete(m[2]) /\ lapsed' = IF key = m[2] THEN lapsed \cup {key} ELSE lapsed
      BY <1>5, <2>4 DEF ExecuteLate
    <3>2. ASSUME NEW d \in Clients, Entitled(d)' PROVE FALSE
      <4>1. lapsed \subseteq lapsed'
        BY <3>1
      <4>2. lock_value[d] = m[2]
        BY <2>1, <3>1, <3>2, <4>1, DeleteDisentitles
      <4>3. Entitled(d)
        BY <2>1, <3>1, <3>2, <4>1 DEF Entitled, ExecuteDelete
      <4>4. key = m[2]
        BY <1>0, <4>2, <4>3 DEF HolderOwnsKey
      <4>5. lock_value[d] \in lapsed'
        BY <3>1, <4>2, <4>4
      <4> QED
        BY <2>1, <3>2, <4>5 DEF Entitled
    <3> QED
      BY <3>2 DEF HolderOwnsKey
  <2> QED
    BY <1>5, <2>2, <2>3, <2>4 DEF ExecuteLate
<1>6. CASE KeyExpires
  <2>1. ASSUME NEW d \in Clients, Entitled(d)' PROVE FALSE
    <3>1. Entitled(d)
      BY <1>6, <2>1 DEF KeyExpires, Entitled
    <3>2. key = lock_value[d]
      BY <1>0, <3>1 DEF HolderOwnsKey
    <3> QED
      BY <1>6, <2>1, <3>2 DEF KeyExpires, Entitled
  <2> QED
    BY <2>1 DEF HolderOwnsKey
<1>7. CASE UNCHANGED vars
  BY <1>0, <1>7, EntitledFrame DEF vars, Entitled
<1> QED
  BY <1>1, <1>2, <1>3, <1>4, <1>5, <1>6, <1>7 DEF Next, ClientStep

---------------------------------------------------------------------------
\* The inductive invariant of the lock.
THEOREM LockInvariant == Spec => []LockInv
<1>1. Init => LockInv
  BY LockConstants DEF Init, LockInv, TypeOK, OwnValues, HolderOwnsKey, Entitled
<1>2. LockInv /\ [Next]_vars => LockInv'
  BY TypeStep, ValuesStep, KeyStep DEF LockInv
<1> QED
  BY <1>1, <1>2, PTL DEF Spec

\* The types of the key, of the commands, of the lock objects and of the clients.
THEOREM TypeCorrect == Spec => []TypeOK
<1>1. LockInv => TypeOK
  BY DEF LockInv
<1> QED
  BY <1>1, LockInvariant, PTL

\* Until its key expires or is taken, Redis stores the value of whoever holds the
\* lock or is about to delete it (release, redis_integration.py).
THEOREM HolderKeepsKey == Spec => []HolderOwnsKey
<1>1. LockInv => HolderOwnsKey
  BY DEF LockInv
<1> QED
  BY <1>1, LockInvariant, PTL

\* Two clients hold the lock together only when the key of one of them expired or
\* was taken by a release that came too late.
THEOREM Exclusion == Spec => []MutualExclusion
<1>1. ASSUME LockInv, NEW c \in Clients, NEW d \in Clients, Holds(c), Holds(d),
             {lock_value[c], lock_value[d]} \cap (lapsed \cup stolen) = {}
      PROVE  c = d
  <2>1. Entitled(c) /\ Entitled(d)
    BY <1>1 DEF Entitled, Holds
  <2>2. lock_value[c] = lock_value[d]
    BY <1>1, <2>1 DEF LockInv, HolderOwnsKey
  <2> QED
    BY <1>1, <2>2 DEF LockInv, OwnValues, Holds
<1>2. LockInv => MutualExclusion
  BY <1>1 DEF MutualExclusion
<1> QED
  BY <1>2, LockInvariant, PTL
===========================================================================
