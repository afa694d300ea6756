-------------------------- MODULE ResourceQuotas --------------------------
(***************************************************************************)
(* Quotas and scaling (src/optimization/resource_manager.py).              *)
(*                                                                         *)
(* QuotaManager counts what its users allocate and release.  Setting a     *)
(* quota, for the first time or again, starts the count at zero whatever   *)
(* the user holds; a release is taken at its word.  AutoScaler multiplies the resources of a pod by a      *)
(* factor of 0.5 to 1.5, rounds down and clamps.  Nothing here suspends;   *)
(* what is hard is the order of the calls and the rounding.  (Quotients    *)
(* are exact here, where the code rounds floats.)                          *)
(***************************************************************************)
EXTENDS Integers

CONSTANTS
  Users,
  ScaledPods,
  Kinds,          \* CPU cores, memory, storage, GPUs
  Amounts,        \* the vectors of resources asked for and released, of any sign
  Limits,         \* the quotas that are set
  Policies,       \* min_resources, max_resources and target_utilization, in %
  Loads,          \* utilisations, in %
  MaxHeld,        \* bound on what is granted and counted, below zero too
  NoQuota

ASSUME QuotaConstants ==
  /\ Amounts \subseteq [Kinds -> Int]
  /\ Limits \subseteq [Kinds -> Nat]
  /\ NoQuota \notin [Kinds -> Nat]

ASSUME ScalingConstants ==
  /\ Loads \subseteq Nat
  /\ \A q \in Policies : /\ q.target \in Nat \ {0}
                         /\ q.min \in [Kinds -> Nat] /\ q.max \in [Kinds -> Nat]

VARIABLES
  limit,       \* quotas[user].max_*, NoQuota where there is no quota
  used,        \* quotas[user].used_*
  held,        \* history: what the user was granted, less what it said it released
  unmetered,   \* history: what the user held when its quota was set last
  policy,      \* scaling_policies, NoQuota where there is none
  resources,   \* scaling_policies[pod]['current_resources']
  recorded     \* whether the pod has the two data points a prediction needs

quotaVars == <<limit, used, held, unmetered>>
scalingVars == <<policy, resources, recorded>>

----------------------------------------------------------------------------
Zero == [k \in Kinds |-> 0]

Plus(x, y) == [k \in Kinds |-> x[k] + y[k]]

QuotaInit ==
  /\ limit = [u \in Users |-> NoQuota]
  /\ used = [u \in Users |-> Zero]
  /\ held = [u \in Users |-> Zero]
  /\ unmetered = [u \in Users |-> Zero]

SetQuota(u, max) ==
  /\ limit' = [limit EXCEPT ![u] = max]
  /\ used' = [used EXCEPT ![u] = Zero]
  /\ unmetered' = [unmetered EXCEPT ![u] = held[u]]
  /\ UNCHANGED <<held, scalingVars>>

\* _validate_resources
Valid(x) == \A k \in Kinds : x[k] >= 0

\* check_quota
Within(u, x) == \A k \in Kinds : used[u][k] + x[k] <= limit[u][k]

\* What a call gives or takes: nothing where the amount is negative.
Gain(x) == [k \in Kinds |-> IF x[k] < 0 THEN 0 ELSE x[k]]

\* The bounds of the model.
Room(u, x) == \A k \in Kinds : held[u][k] + Gain(x)[k] <= MaxHeld

CountRoom(u, x) ==
  \A k \in Kinds : used[u][k] - x[k] <= MaxHeld /\ held[u][k] - Gain(x)[k] >= 0 - MaxHeld

\* Without a quota nothing is checked and nothing is counted.
AllocateUnmetered(u, x) ==
  /\ limit[u] = NoQuota
  /\ Room(u, x)
  /\ held' = [held EXCEPT ![u] = Plus(@, Gain(x))]
  /\ UNCHANGED <<limit, used, unmetered, scalingVars>>

\* A variant that takes the request for valid.
AllocateUnchecked(u, x) ==
  /\ limit[u] # NoQuota
  /\ Within(u, x) /\ Room(u, x)
  /\ used' = [used EXCEPT ![u] = Plus(@, x)]
  /\ held' = [held EXCEPT ![u] = Plus(@, Gain(x))]
  /\ UNCHANGED <<limit, unmetered, scalingVars>>

\* allocate_resources, when it grants; otherwise nothing changes.
Allocate(u, x) ==
  /\ limit[u] # NoQuota
  /\ Valid(x)
  /\ Within(u, x) /\ Room(u, x)
  /\ used' = [used EXCEPT ![u] = Plus(@, x)]
  /\ held' = [held EXCEPT ![u] = Plus(@, x)]
  /\ UNCHANGED <<limit, unmetered, scalingVars>>

\* release_resources asks neither whether the amounts are valid nor whether the user
\* holds them; the count goes down to zero at most, and up for a negative amount.
Release(u, x) ==
  /\ CountRoom(u, x)
  /\ held' = [held EXCEPT ![u] = [k \in Kinds |-> @[k] - Gain(x)[k]]]
  /\ used' = IF limit[u] = NoQuota THEN used
             ELSE [used EXCEPT ![u] = [k \in Kinds |-> IF @[k] > x[k] THEN @[k] - x[k] ELSE 0]]
  /\ UNCHANGED <<limit, unmetered, scalingVars>>

QuotaNext ==
  \E u \in Users :
    \/ \E max \in Limits : SetQuota(u, max)
    \/ \E x \in Amounts : AllocateUnmetered(u, x) \/ Allocate(u, x) \/ Release(u, x)

----------------------------------------------------------------------------
ScalingInit ==
  /\ policy = [p \in ScaledPods |-> NoQuota]
  /\ resources = [p \in ScaledPods |-> Zero]
  /\ recorded = [p \in ScaledPods |-> FALSE]

RecordUsage(p) ==
  /\ recorded' = [recorded EXCEPT ![p] = TRUE]
  /\ UNCHANGED <<policy, resources, quotaVars>>

SetScalingPolicy(p, q) ==
  /\ policy' = [policy EXCEPT ![p] = q]
  /\ resources' = [resources EXCEPT ![p] = q.min]
  /\ UNCHANGED <<recorded, quotaVars>>

Above(load, target) == load * 10 > target * 12

Below(load, target) == load * 10 < target * 8

\* The factor load/target, within 0.5 and 1.5, of an integer, rounded down.
Scaled(n, load, target) ==
  IF load * 2 > target * 3 THEN (n * 3) \div 2
  ELSE IF load * 2 < target THEN n \div 2
  ELSE (n * load) \div target

\* _clamp_resources
Clamped(n, min, max) ==
  LET low == IF n < max THEN n ELSE max IN IF low > min THEN low ELSE min

\* A variant that scales the minimum.
ScaleFromMinimum(p, load) ==
  LET q == policy[p] IN
  /\ q # NoQuota /\ recorded[p]
  /\ Above(load, q.target) \/ Below(load, q.target)
  /\ resources' = [resources EXCEPT ![p] =
       [k \in Kinds |-> Clamped(Scaled(q.min[k], load, q.target), q.min[k], q.max[k])]]
  /\ UNCHANGED <<policy, recorded, quotaVars>>

\* evaluate_scaling; within 20% of the target nothing changes.
EvaluateScaling(p, load) ==
  LET q == policy[p] IN
  /\ q # NoQuota /\ recorded[p]
  /\ Above(load, q.target) \/ Below(load, q.target)
  /\ resources' = [resources EXCEPT ![p] =
       [k \in Kinds |-> Clamped(Scaled(@[k], load, q.target), q.min[k], q.max[k])]]
  /\ UNCHANGED <<policy, recorded, quotaVars>>

ScalingNext ==
  \E p \in ScaledPods :
    \/ RecordUsage(p)
    \/ \E q \in Policies : SetScalingPolicy(p, q)
    \/ \E load \in Loads : EvaluateScaling(p, load)

----------------------------------------------------------------------------
QuotaSpec == QuotaInit /\ ScalingInit /\ [][QuotaNext \/ ScalingNext]_<<quotaVars, scalingVars>>

----------------------------------------------------------------------------
QuotaTypeOK ==
  /\ limit \in [Users -> [Kinds -> Nat] \cup {NoQuota}]
  /\ used \in [Users -> [Kinds -> Nat]]
  /\ held \in [Users -> [Kinds -> Int]]
  /\ unmetered \in [Users -> [Kinds -> Int]]

\* However allocations, releases and changes of quota follow each other, what a
\* user was granted exceeds what it said it released by no more than the quota and
\* that excess when the quota was set: it is not counted, and releasing it makes
\* room a second time, but only once.  Invalid amounts gain nothing, and a release
\* below zero is not made up for by later ones.  (Who releases twice, or more than
\* it holds, makes room for as much: release_resources takes its word.)
GrantsWithinQuota ==
  \A u \in Users : limit[u] # NoQuota =>
    \A k \in Kinds : held[u][k] <= limit[u][k] + unmetered[u][k]

\* Scaling follows the load: above the band no resource shrinks and below it
\* none grows, and one and a half times the target makes every resource grow
\* that is below its maximum, except one of a single unit, which rounding holds.
ScalingFollowsLoad ==
  [][\A p \in ScaledPods, load \in Loads : EvaluateScaling(p, load) =>
        \A k \in Kinds : policy[p].min[k] <= policy[p].max[k] =>
          LET before == resources[p][k]
              after == resources'[p][k]
              target == policy[p].target IN
          /\ Above(load, target) => after >= before
          /\ Below(load, target) => after <= before
          /\ 2 * load >= 3 * target /\ before > 1 /\ before < policy[p].max[k] => after > before
    ]_<<quotaVars, scalingVars>>
=============================================================================
