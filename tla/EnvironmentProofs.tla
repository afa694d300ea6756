------------------------- MODULE EnvironmentProofs --------------------------
(***************************************************************************)
(* Proofs about what an environment is given and how it is watched:        *)
(* quotas, containers, monitors with their checks and alerts, and images,  *)
(* for any users, resources, limits, environments, pods, checks and        *)
(* images, whatever docker refuses.                                        *)
(*                                                                         *)
(* Quotas: the limit alone does not show GrantsWithinQuota; the count must *)
(* lag behind the net grants by no more than those there were when the     *)
(* quota was set. Scaling: resources must stay within the         *)
(* policy's bounds for clamping not to undo a step. Containers: what was   *)
(* given to the caller must be the environment's own. Monitors: a call     *)
(* that stops a monitor must be known to stop the one its pod has now.     *)
(* Checks: an alert that replaces another must have its id. Images: a file *)
(* that is being read is still there when it is parsed, since only the     *)
(* holder of the lock changes files.                                       *)
(***************************************************************************)
EXTENDS ResourceQuotas, EnvironmentContainers, PodMonitoring, ImageRegistry,
        SequenceTheorems, TLAPS

-----------------------------------------------------------------------------
(***************************************************************************)
(* Quotas.                                                                 *)
(***************************************************************************)
\* Net grants are within the limit, and the count misses only those that were there
\* before the quota.
CountIsClose ==
  \A u \in Users : limit[u] # NoQuota =>
    \A k \in Kinds : /\ held[u][k] <= limit[u][k] + unmetered[u][k]
                     /\ held[u][k] <= used[u][k] + unmetered[u][k]

QuotaInv == QuotaTypeOK /\ CountIsClose

----------------------------------------------------------------------------
\* What a request says is a vector of integers, and what it gains of naturals.
LEMMA GainIsVector ==
  ASSUME NEW x \in Amounts
  PROVE  x \in [Kinds -> Int] /\ Gain(x) \in [Kinds -> Nat]
BY QuotaConstants DEF Gain

\* A valid request is a vector of natural numbers.
LEMMA ValidIsVector ==
  ASSUME NEW x \in Amounts, Valid(x)
  PROVE  x \in [Kinds -> Nat]
BY QuotaConstants DEF Valid

\* No user has a quota at first.
LEMMA QuotaInitial == QuotaInit => QuotaInv
BY DEF QuotaInit, QuotaInv, QuotaTypeOK, CountIsClose, Zero

\* Setting a quota keeps the invariant: nothing is counted and all is unmetered.
LEMMA SetQuotaKeeps ==
  ASSUME QuotaInv, NEW u \in Users, NEW max \in Limits, SetQuota(u, max)
  PROVE  QuotaInv'
<1>1. max \in [Kinds -> Nat] /\ Zero \in [Kinds -> Nat]
  BY QuotaConstants DEF Zero
<1>2. QuotaTypeOK'
  BY <1>1 DEF QuotaInv, QuotaTypeOK, SetQuota
<1>3. ASSUME NEW v \in Users, limit'[v] # NoQuota, NEW k \in Kinds
      PROVE  /\ held'[v][k] <= limit'[v][k] + unmetered'[v][k]
             /\ held'[v][k] <= used'[v][k] + unmetered'[v][k]
  <2>1. CASE v = u
    <3>1. /\ used'[v][k] = 0 /\ limit'[v][k] \in Nat
          /\ held'[v][k] = unmetered'[v][k] /\ held'[v][k] \in Int
      BY <1>1, <2>1 DEF QuotaInv, QuotaTypeOK, SetQuota, Zero
    <3> QED
      BY <3>1
  <2>2. CASE v # u
    BY <2>2, <1>3 DEF QuotaInv, QuotaTypeOK, CountIsClose, SetQuota
  <2> QED
    BY <2>1, <2>2
<1> QED
  BY <1>2, <1>3 DEF QuotaInv, CountIsClose

\* Without a quota only the grants change, and nothing is claimed of them.
LEMMA AllocateUnmeteredKeeps ==
  ASSUME QuotaInv, NEW u \in Users, NEW x \in Amounts, AllocateUnmetered(u, x)
  PROVE  QuotaInv'
<1>1. Plus(held[u], Gain(x)) \in [Kinds -> Int]
  BY GainIsVector DEF QuotaInv, QuotaTypeOK, Plus
<1>2. QuotaTypeOK'
  BY <1>1 DEF QuotaInv, QuotaTypeOK, AllocateUnmetered
<1>3. CountIsClose'
  BY DEF QuotaInv, QuotaTypeOK, CountIsClose, AllocateUnmetered
<1> QED
  BY <1>2, <1>3 DEF QuotaInv

\* What is granted is counted, and was found to fit.
LEMMA AllocateKeeps ==
  ASSUME QuotaInv, NEW u \in Users, NEW x \in Amounts, Allocate(u, x)
  PROVE  QuotaInv'
<1>1. x \in [Kinds -> Nat]
  BY ValidIsVector DEF Allocate
<1>2. Plus(held[u], x) \in [Kinds -> Int] /\ Plus(used[u], x) \in [Kinds -> Nat]
  BY <1>1 DEF QuotaInv, QuotaTypeOK, Plus
<1>3. QuotaTypeOK'
  BY <1>2 DEF QuotaInv, QuotaTypeOK, Allocate
<1>4. ASSUME NEW v \in Users, limit'[v] # NoQuota, NEW k \in Kinds
      PROVE  /\ held'[v][k] <= limit'[v][k] + unmetered'[v][k]
             /\ held'[v][k] <= used'[v][k] + unmetered'[v][k]
  <2>1. CASE v = u
    <3>1. /\ used'[v][k] = used[u][k] + x[k] /\ held'[v][k] = held[u][k] + x[k]
          /\ limit'[v][k] = limit[u][k] /\ unmetered'[v][k] = unmetered[u][k]
      BY <2>1 DEF QuotaInv, QuotaTypeOK, Allocate, Plus
    <3>2. used[u][k] + x[k] <= limit[u][k]
      BY DEF Allocate, Within
    <3>3. held[u][k] <= used[u][k] + unmetered[u][k]
      BY DEF QuotaInv, CountIsClose, Allocate
    <3>4. /\ used[u][k] \in Nat /\ held[u][k] \in Int /\ unmetered[u][k] \in Int /\ x[k] \in Nat
          /\ limit[u][k] \in Nat
      BY <1>1 DEF QuotaInv, QuotaTypeOK, Allocate
    <3> QED
      BY <3>1, <3>2, <3>3, <3>4
  <2>2. CASE v # u
    BY <2>2, <1>4 DEF QuotaInv, QuotaTypeOK, CountIsClose, Allocate
  <2> QED
    BY <2>1, <2>2
<1> QED
  BY <1>3, <1>4 DEF QuotaInv, CountIsClose

\* A release counts down no more than it takes from the grants.
LEMMA ReleaseKeeps ==
  ASSUME QuotaInv, NEW u \in Users, NEW x \in Amounts, Release(u, x)
  PROVE  QuotaInv'
<1> DEFINE down == [k \in Kinds |-> held[u][k] - Gain(x)[k]]
           count == [k \in Kinds |-> IF used[u][k] > x[k] THEN used[u][k] - x[k] ELSE 0]
<1>1. x \in [Kinds -> Int] /\ Gain(x) \in [Kinds -> Nat]
  BY GainIsVector
<1>2. held[u] \in [Kinds -> Int] /\ used[u] \in [Kinds -> Nat] /\ unmetered[u] \in [Kinds -> Int]
  BY DEF QuotaInv, QuotaTypeOK
<1>3. down \in [Kinds -> Int] /\ count \in [Kinds -> Nat]
  BY <1>1, <1>2
<1>4. /\ held' = [held EXCEPT ![u] = down]
      /\ used' = IF limit[u] = NoQuota THEN used ELSE [used EXCEPT ![u] = count]
      /\ UNCHANGED <<limit, unmetered>>
  BY DEF Release
<1>5. \A k \in Kinds :
        /\ count[k] = IF used[u][k] > x[k] THEN used[u][k] - x[k] ELSE 0
        /\ down[k] = held[u][k] - Gain(x)[k] /\ Gain(x)[k] = IF x[k] < 0 THEN 0 ELSE x[k]
  BY DEF Gain
<1> HIDE DEF down, count
<1>6. QuotaTypeOK'
  BY <1>3, <1>4 DEF QuotaInv, QuotaTypeOK
<1>7. ASSUME NEW v \in Users, limit'[v] # NoQuota, NEW k \in Kinds
      PROVE  /\ held'[v][k] <= limit'[v][k] + unmetered'[v][k]
             /\ held'[v][k] <= used'[v][k] + unmetered'[v][k]
  <2>1. CASE v = u
    <3>1. /\ used'[v][k] = count[k] /\ held'[v][k] = down[k]
          /\ limit'[v][k] = limit[u][k] /\ unmetered'[v][k] = unmetered[u][k]
      BY <1>4, <1>7, <2>1 DEF QuotaInv, QuotaTypeOK
    <3>2. held[u][k] <= limit[u][k] + unmetered[u][k] /\ held[u][k] <= used[u][k] + unmetered[u][k]
      BY <1>4, <1>7, <2>1 DEF QuotaInv, CountIsClose
    <3>3. limit[u][k] \in Nat
      BY <1>4, <1>7, <2>1 DEF QuotaInv, QuotaTypeOK
    <3>4. used[u][k] \in Nat /\ held[u][k] \in Int /\ unmetered[u][k] \in Int /\ x[k] \in Int
      BY <1>1, <1>2
    <3> QED
      BY <1>5, <3>1, <3>2, <3>3, <3>4
  <2>2. CASE v # u
    BY <2>2, <1>4, <1>7 DEF QuotaInv, QuotaTypeOK, CountIsClose
  <2> QED
    BY <2>1, <2>2
<1> QED
  BY <1>6, <1>7 DEF QuotaInv, CountIsClose

----------------------------------------------------------------------------
\* The types and the count are kept by every step.
THEOREM CountStaysClose == QuotaSpec => []QuotaInv
<1>1. QuotaInit => QuotaInv
  BY QuotaInitial
<1>2. QuotaInv /\ [QuotaNext \/ ScalingNext]_<<quotaVars, scalingVars>> => QuotaInv'
  <2> SUFFICES ASSUME QuotaInv, [QuotaNext \/ ScalingNext]_<<quotaVars, scalingVars>>
               PROVE  QuotaInv'
    OBVIOUS
  <2>1. ASSUME NEW u \in Users, NEW max \in Limits, SetQuota(u, max)
        PROVE  QuotaInv'
    BY <2>1, SetQuotaKeeps
  <2>2. ASSUME NEW u \in Users, NEW x \in Amounts, AllocateUnmetered(u, x)
        PROVE  QuotaInv'
    BY <2>2, AllocateUnmeteredKeeps
  <2>3. ASSUME NEW u \in Users, NEW x \in Amounts, Allocate(u, x)
        PROVE  QuotaInv'
    BY <2>3, AllocateKeeps
  <2>4. ASSUME NEW u \in Users, NEW x \in Amounts, Release(u, x)
        PROVE  QuotaInv'
    BY <2>4, ReleaseKeeps
  <2>5. ASSUME UNCHANGED quotaVars
        PROVE  QuotaInv'
    BY <2>5 DEF QuotaInv, QuotaTypeOK, CountIsClose, quotaVars
  <2>6. ScalingNext => UNCHANGED quotaVars
    BY DEF ScalingNext, RecordUsage, SetScalingPolicy, EvaluateScaling
  <2>7. (UNCHANGED <<quotaVars, scalingVars>>) => UNCHANGED quotaVars
    OBVIOUS
  <2> QED
    BY <2>1, <2>2, <2>3, <2>4, <2>5, <2>6, <2>7 DEF QuotaNext
<1> QED
  BY <1>1, <1>2, PTL DEF QuotaSpec

\* QuotaManager (src/optimization/resource_manager.py) grants no user more than the
\* quota, what it said it released, and what was granted before the quota was set.
THEOREM GrantsStayWithin == QuotaSpec => []GrantsWithinQuota
<1>1. QuotaInv => GrantsWithinQuota
  BY DEF QuotaInv, CountIsClose, GrantsWithinQuota
<1> QED
  BY <1>1, CountStaysClose, PTL

-----------------------------------------------------------------------------
(***************************************************************************)
(* Scaling.                                                                *)
(***************************************************************************)
\* Resources under a policy are within its bounds, where these are in order.
ScalingInv ==
  /\ policy \in [ScaledPods -> Policies \cup {NoQuota}]
  /\ resources \in [ScaledPods -> [Kinds -> Nat]]
  /\ \A p \in ScaledPods : policy[p] # NoQuota =>
       \A k \in Kinds : policy[p].min[k] <= policy[p].max[k] =>
         policy[p].min[k] <= resources[p][k] /\ resources[p][k] <= policy[p].max[k]

\* Multiplying keeps an order.
LEMMA TimesMore ==
  ASSUME NEW n \in Nat, NEW a \in Nat, NEW b \in Nat, a <= b
  PROVE  n * a <= n * b /\ n * a \in Nat
OBVIOUS

\* How a quotient compares is how the products do.
LEMMA Quotient ==
  ASSUME NEW m \in Nat, NEW t \in Nat \ {0}, NEW n \in Nat
  PROVE  /\ m \div t \in Nat
         /\ m >= n * t => m \div t >= n
         /\ m <= n * t => m \div t <= n
<1> PICK q : q = m \div t
  OBVIOUS
<1>1. q \in Nat /\ q * t <= m /\ m < (q + 1) * t
  OBVIOUS
<1>2. ASSUME m >= n * t, q < n PROVE FALSE
  <2>1. (q + 1) * t <= n * t
    BY <1>1, <1>2
  <2>2. (q + 1) * t \in Nat /\ n * t \in Nat
    BY <1>1
  <2> QED
    BY <1>1, <1>2, <2>1, <2>2
<1>3. ASSUME m <= n * t, q > n PROVE FALSE
  <2>1. (n + 1) * t <= q * t
    BY <1>1, <1>3
  <2>2. (n + 1) * t = n * t + t /\ n * t \in Nat /\ q * t \in Nat
    BY <1>1
  <2> QED
    BY <1>1, <1>3, <2>1, <2>2
<1> QED
  BY <1>1, <1>2, <1>3

\* Half as much again, the half, or load for target.
LEMMA ScaledFollows ==
  ASSUME NEW n \in Nat, NEW load \in Nat, NEW target \in Nat \ {0}
  PROVE  /\ Scaled(n, load, target) \in Nat
         /\ Above(load, target) => Scaled(n, load, target) >= n
         /\ Below(load, target) => Scaled(n, load, target) <= n
         /\ 2 * load >= 3 * target /\ n > 1 => Scaled(n, load, target) > n
<1>1. CASE load * 2 > target * 3
  <2>1. Scaled(n, load, target) = (n * 3) \div 2
    BY <1>1 DEF Scaled
  <2>2. (n * 3) \div 2 \in Nat /\ (n * 3) \div 2 >= n /\ (n > 1 => (n * 3) \div 2 > n)
    OBVIOUS
  <2>3. ~ Below(load, target)
    BY <1>1 DEF Below
  <2> QED
    BY <2>1, <2>2, <2>3
<1>2. CASE load * 2 < target
  <2>1. Scaled(n, load, target) = n \div 2
    BY <1>2 DEF Scaled
  <2>2. n \div 2 \in Nat /\ n \div 2 <= n
    OBVIOUS
  <2>3. ~ Above(load, target) /\ ~ (2 * load >= 3 * target)
    BY <1>2 DEF Above
  <2> QED
    BY <2>1, <2>2, <2>3
<1>3. CASE ~ (load * 2 > target * 3) /\ ~ (load * 2 < target)
  <2>1. Scaled(n, load, target) = (n * load) \div target
    BY <1>3 DEF Scaled
  <2>2. n * load \in Nat /\ (n * load) \div target \in Nat
    BY TimesMore, Quotient
  <2>3. ASSUME Above(load, target) PROVE (n * load) \div target >= n
    <3>1. target <= load
      BY <2>3 DEF Above
    <3>2. n * target <= n * load
      BY <3>1, TimesMore
    <3> QED
      BY <2>2, <3>2, Quotient
  <2>4. ASSUME Below(load, target) PROVE (n * load) \div target <= n
    <3>1. load <= target
      BY <2>4 DEF Below
    <3>2. n * load <= n * target
      BY <3>1, TimesMore
    <3> QED
      BY <2>2, <3>2, Quotient
  <2>5. ASSUME 2 * load >= 3 * target, n > 1 PROVE (n * load) \div target > n
    <3>1. n * (3 * target) <= n * (2 * load)
      BY <2>5, TimesMore
    <3>2. 2 * target <= n * target
      BY <2>5
    <3>3. n * (3 * target) = 3 * (n * target) /\ n * (2 * load) = 2 * (n * load)
          /\ (n + 1) * target = n * target + target /\ n * target \in Nat
      OBVIOUS
    <3>4. (n + 1) * target <= n * load
      BY <2>2, <3>1, <3>2, <3>3
    <3>5. (n * load) \div target >= n + 1
      BY <2>2, <3>4, Quotient
    <3> QED
      BY <2>2, <3>5
  <2> QED
    BY <2>1, <2>2, <2>3, <2>4, <2>5
<1> QED
  BY <1>1, <1>2, <1>3

\* What is clamped is between bounds that are in order, and moves no further.
LEMMA ClampedIsNat ==
  ASSUME NEW n \in Nat, NEW low \in Nat, NEW high \in Nat
  PROVE  Clamped(n, low, high) \in Nat
BY DEF Clamped

\* What is clamped is between bounds that are in order.
LEMMA ClampedIsBetween ==
  ASSUME NEW n \in Nat, NEW low \in Nat, NEW high \in Nat, low <= high
  PROVE  low <= Clamped(n, low, high) /\ Clamped(n, low, high) <= high
BY DEF Clamped

\* Clamping does not undo the direction of a step from within the bounds.
LEMMA ClampedMoves ==
  ASSUME NEW n \in Nat, NEW low \in Nat, NEW high \in Nat,
         NEW m \in Nat, low <= m, m <= high
  PROVE  /\ n >= m => Clamped(n, low, high) >= m
         /\ n <= m => Clamped(n, low, high) <= m
         /\ n > m /\ m < high => Clamped(n, low, high) > m
BY DEF Clamped

\* What EvaluateScaling makes of a resource.
LEMMA ScaledOne ==
  ASSUME ScalingInv, NEW p \in ScaledPods, NEW load \in Loads, EvaluateScaling(p, load)
  PROVE  /\ policy[p] \in Policies
         /\ \A k \in Kinds :
              resources'[p][k] = Clamped(Scaled(resources[p][k], load, policy[p].target),
                                         policy[p].min[k], policy[p].max[k])
         /\ \A r \in ScaledPods \ {p} : resources'[r] = resources[r]
         /\ resources' \in [ScaledPods -> [Kinds -> Nat]]
         /\ policy' = policy
<1> PICK q, rs : q = policy[p] /\ rs = resources
  OBVIOUS
<1>1. /\ q # NoQuota /\ policy' = policy
      /\ resources' = [rs EXCEPT ![p] =
           [k \in Kinds |-> Clamped(Scaled(rs[p][k], load, q.target), q.min[k], q.max[k])]]
  BY DEF EvaluateScaling
<1>2. q \in Policies /\ rs \in [ScaledPods -> [Kinds -> Nat]]
  BY <1>1 DEF ScalingInv
<1>3. q.target \in Nat \ {0} /\ q.min \in [Kinds -> Nat] /\ q.max \in [Kinds -> Nat] /\ load \in Nat
  BY <1>2, ScalingConstants DEF ScalingConstants
<1>4. ASSUME NEW k \in Kinds
      PROVE  Clamped(Scaled(rs[p][k], load, q.target), q.min[k], q.max[k]) \in Nat
  <2>1. rs[p][k] \in Nat /\ q.min[k] \in Nat /\ q.max[k] \in Nat
    BY <1>2, <1>3
  <2>2. Scaled(rs[p][k], load, q.target) \in Nat
    BY <1>3, <2>1, ScaledFollows
  <2> QED
    BY <2>1, <2>2, ClampedIsNat
<1>5. [k \in Kinds |-> Clamped(Scaled(rs[p][k], load, q.target), q.min[k], q.max[k])] \in [Kinds -> Nat]
  BY <1>4
<1> QED
  BY <1>1, <1>2, <1>5

\* A scaled resource moves with the load, never against it.
LEMMA ScalingFollows ==
  ASSUME ScalingInv, NEW p \in ScaledPods, NEW load \in Loads, EvaluateScaling(p, load),
         NEW k \in Kinds, policy[p].min[k] <= policy[p].max[k]
  PROVE  /\ Above(load, policy[p].target) => resources'[p][k] >= resources[p][k]
         /\ Below(load, policy[p].target) => resources'[p][k] <= resources[p][k]
         /\ 2 * load >= 3 * policy[p].target /\ resources[p][k] > 1 /\ resources[p][k] < policy[p].max[k]
              => resources'[p][k] > resources[p][k]
<1> PICK n, min, max, target, s : /\ n = resources[p][k] /\ min = policy[p].min[k]
                                  /\ max = policy[p].max[k] /\ target = policy[p].target
                                  /\ s = Scaled(n, load, target)
  OBVIOUS
<1>1. policy[p] \in Policies /\ resources'[p][k] = Clamped(s, min, max)
  BY ScaledOne
<1>2. load \in Nat /\ target \in Nat \ {0} /\ min \in Nat /\ max \in Nat
  BY <1>1, ScalingConstants DEF ScalingConstants
<1>3. n \in Nat /\ min <= n /\ n <= max
  <2>1. policy[p] # NoQuota
    BY DEF EvaluateScaling
  <2> QED
    BY <2>1 DEF ScalingInv
<1>4. /\ s \in Nat
      /\ Above(load, target) => s >= n
      /\ Below(load, target) => s <= n
      /\ 2 * load >= 3 * target /\ n > 1 => s > n
  BY <1>2, <1>3, ScaledFollows
<1>5. /\ s >= n => Clamped(s, min, max) >= n
      /\ s <= n => Clamped(s, min, max) <= n
      /\ s > n /\ n < max => Clamped(s, min, max) > n
  BY <1>2, <1>3, <1>4, ClampedMoves
<1> QED
  BY <1>1, <1>4, <1>5

\* The initial state satisfies the invariant.
LEMMA ScalingStarts == ASSUME ScalingInit PROVE ScalingInv
BY DEF ScalingInit, ScalingInv, Zero

\* Every step keeps the invariant.
LEMMA ScalingSteps ==
  ASSUME ScalingInv, [QuotaNext \/ ScalingNext]_<<quotaVars, scalingVars>> PROVE ScalingInv'
<1>1. CASE UNCHANGED <<policy, resources>>
  BY <1>1 DEF ScalingInv
<1>2. ASSUME NEW p \in ScaledPods, NEW q \in Policies, SetScalingPolicy(p, q) PROVE ScalingInv'
  <2> PICK rs, ps : rs = resources /\ ps = policy
    OBVIOUS
  <2>1. policy' = [ps EXCEPT ![p] = q] /\ resources' = [rs EXCEPT ![p] = q.min]
    BY <1>2 DEF SetScalingPolicy
  <2>2. q.min \in [Kinds -> Nat] /\ q.max \in [Kinds -> Nat]
    BY ScalingConstants DEF ScalingConstants
  <2>3. ps \in [ScaledPods -> Policies \cup {NoQuota}] /\ rs \in [ScaledPods -> [Kinds -> Nat]]
    BY DEF ScalingInv
  <2>4. /\ policy' \in [ScaledPods -> Policies \cup {NoQuota}] /\ resources' \in [ScaledPods -> [Kinds -> Nat]]
        /\ policy'[p] = q /\ resources'[p] = q.min
        /\ \A r \in ScaledPods \ {p} : policy'[r] = policy[r] /\ resources'[r] = resources[r]
    BY <2>1, <2>2, <2>3
  <2>5. \A k \in Kinds : q.min[k] <= q.max[k] => q.min[k] <= q.min[k] /\ q.min[k] <= q.max[k]
    BY <2>2
  <2> QED
    BY <2>4, <2>5 DEF ScalingInv
<1>3. ASSUME NEW p \in ScaledPods, NEW load \in Loads, EvaluateScaling(p, load) PROVE ScalingInv'
  <2>1. /\ policy[p] \in Policies
        /\ \A k \in Kinds :
              resources'[p][k] = Clamped(Scaled(resources[p][k], load, policy[p].target),
                                         policy[p].min[k], policy[p].max[k])
        /\ \A r \in ScaledPods \ {p} : resources'[r] = resources[r]
        /\ resources' \in [ScaledPods -> [Kinds -> Nat]]
        /\ policy' = policy
    BY <1>3, ScaledOne
  <2>2. ASSUME NEW k \in Kinds, policy[p].min[k] <= policy[p].max[k]
        PROVE  policy[p].min[k] <= resources'[p][k] /\ resources'[p][k] <= policy[p].max[k]
    <3>1. policy[p].target \in Nat \ {0} /\ policy[p].min[k] \in Nat /\ policy[p].max[k] \in Nat /\ load \in Nat
      BY <2>1, ScalingConstants DEF ScalingConstants
    <3>2. resources[p][k] \in Nat
      BY DEF ScalingInv
    <3>3. Scaled(resources[p][k], load, policy[p].target) \in Nat
      BY <3>1, <3>2, ScaledFollows
    <3> PICK s, low, high : /\ s = Scaled(resources[p][k], load, policy[p].target)
                            /\ low = policy[p].min[k] /\ high = policy[p].max[k]
      OBVIOUS
    <3>4. low <= Clamped(s, low, high) /\ Clamped(s, low, high) <= high
      BY <2>2, <3>1, <3>3, ClampedIsBetween
    <3>5. resources'[p][k] = Clamped(s, low, high)
      BY <2>1
    <3> QED
      BY <3>4, <3>5
  <2> QED
    BY <2>1, <2>2 DEF ScalingInv
<1>4. QuotaNext => UNCHANGED <<policy, resources>>
  BY DEF QuotaNext, SetQuota, AllocateUnmetered, Allocate, Release, scalingVars
<1>5. ASSUME NEW p \in ScaledPods, RecordUsage(p) PROVE UNCHANGED <<policy, resources>>
  BY <1>5 DEF RecordUsage
<1>6. CASE UNCHANGED <<quotaVars, scalingVars>>
  BY <1>1, <1>6 DEF scalingVars
<1> QED
  BY <1>1, <1>2, <1>3, <1>4, <1>5, <1>6 DEF ScalingNext

\* ResourceManager.evaluate_scaling (src/optimization/resource_manager.py): above
\* its band no resource shrinks and below it none grows, and far above it every
\* one grows that can, for any loads, targets and bounds in order.
THEOREM ScalingSafe == QuotaSpec => ScalingFollowsLoad
<1>1. ScalingInit => ScalingInv
  BY ScalingStarts
<1>2. ScalingInv /\ [QuotaNext \/ ScalingNext]_<<quotaVars, scalingVars>> => ScalingInv'
  BY ScalingSteps
<1> DEFINE Follows == \A p \in ScaledPods, load \in Loads : EvaluateScaling(p, load) =>
        \A k \in Kinds : policy[p].min[k] <= policy[p].max[k] =>
          LET before == resources[p][k]
              after == resources'[p][k]
              target == policy[p].target IN
          /\ Above(load, target) => after >= before
          /\ Below(load, target) => after <= before
          /\ 2 * load >= 3 * target /\ before > 1 /\ before < policy[p].max[k] => after > before
<1>3. ScalingInv => Follows
  BY ScalingFollows
<1> QED
  BY <1>1, <1>2, <1>3, PTL DEF QuotaSpec, ScalingFollowsLoad

-----------------------------------------------------------------------------
(***************************************************************************)
(* Containers of environments.                                             *)
(***************************************************************************)
ContainerRecords == [of : Environments, state : {"running", "exited", "gone"}]

ContainerTypeOK ==
  /\ containers \in Seq(ContainerRecords)
  /\ containerInfo \subseteq Made
  /\ given \in [Environments -> SUBSET Made]

\* A container that was given to the caller is one of the environment's.
GivenAreOwn == \A e \in Environments : \A c \in given[e] : containers[c].of = e

\* While its environment has not ended, a container that exists was given.
Accounted(c) ==
  c \notin unnoticed =>
    /\ c \in containerInfo <=> Exists(c)
    /\ containers[c].of \in ended /\ Exists(c) => c \in kept
    /\ containers[c].of \notin ended /\ Exists(c) => c \in given[containers[c].of]

ContainerInv == ContainerTypeOK /\ GivenAreOwn /\ \A c \in Made : Accounted(c)

----------------------------------------------------------------------------
\* The containers are numbered from one.
LEMMA ContainerNumbers ==
  ASSUME ContainerTypeOK
  PROVE  /\ Len(containers) \in Nat /\ Made = 1..Len(containers)
         /\ \A c \in Made : containers[c] \in ContainerRecords
<1>1. containers \in Seq(ContainerRecords)
  BY DEF ContainerTypeOK
<1>2. /\ Len(containers) \in Nat /\ DOMAIN containers = 1..Len(containers)
      /\ containers \in [1..Len(containers) -> ContainerRecords]
  BY <1>1, LenProperties
<1> QED
  BY <1>2 DEF Made

\* A function on the numbers of a sequence is a sequence as long.
LEMMA ContainersInSequence ==
  ASSUME NEW S, NEW n \in Nat, NEW f \in [1..n -> S]
  PROVE  f \in Seq(S) /\ Len(f) = n
<1>1. f \in Seq(S)
  BY SeqDef
<1>2. DOMAIN f = 1..Len(f) /\ Len(f) \in Nat /\ DOMAIN f = 1..n
  BY <1>1, LenProperties
<1> QED
  BY <1>1, <1>2

\* New containers come after those there are, and run.
LEMMA NewComeAfter ==
  ASSUME ContainerTypeOK, NEW e \in Environments, NEW n \in Nat
  PROVE  /\ containers \o New(e, n) \in Seq(ContainerRecords)
         /\ DOMAIN (containers \o New(e, n)) = 1..(Len(containers) + n)
         /\ Len(containers \o New(e, n)) = Len(containers) + n
         /\ \A c \in Made : (containers \o New(e, n))[c] = containers[c]
         /\ \A c \in (Len(containers) + 1)..(Len(containers) + n) :
              (containers \o New(e, n))[c].of = e /\ (containers \o New(e, n))[c].state = "running"
<1> DEFINE new == New(e, n)
           r == [of |-> e, state |-> "running"]
<1>1. r \in ContainerRecords
  BY DEF ContainerRecords
<1>2. new \in [1..n -> ContainerRecords] /\ \A i \in 1..n : new[i] = r
  BY <1>1 DEF New
<1> HIDE DEF r, new
<1>3. new \in Seq(ContainerRecords) /\ Len(new) = n
  BY <1>2, ContainersInSequence
<1>4. containers \in Seq(ContainerRecords) /\ Len(containers) \in Nat /\ Made = 1..Len(containers)
  BY ContainerNumbers DEF ContainerTypeOK
<1>5. /\ containers \o new \in Seq(ContainerRecords)
      /\ Len(containers \o new) = Len(containers) + n
      /\ \A i \in 1..(Len(containers) + n) :
           (containers \o new)[i] = IF i <= Len(containers) THEN containers[i] ELSE new[i - Len(containers)]
  BY <1>3, <1>4, ConcatProperties
<1>6. DOMAIN (containers \o new) = 1..(Len(containers) + n)
  BY <1>5, LenProperties
<1>7. ASSUME NEW c \in Made PROVE (containers \o new)[c] = containers[c]
  BY <1>4, <1>5
<1>8. ASSUME NEW c \in (Len(containers) + 1)..(Len(containers) + n) PROVE (containers \o new)[c] = r
  <2>1. c \in 1..(Len(containers) + n) /\ ~ (c <= Len(containers)) /\ c - Len(containers) \in 1..n
    BY <1>4
  <2> QED
    BY <1>2, <1>5, <2>1
<1>9. r.of = e /\ r.state = "running"
  BY DEF r
<1> QED
  BY <1>5, <1>6, <1>7, <1>8, <1>9 DEF new

\* No container was made at first.
LEMMA ContainersInitial == ContainerInit => ContainerInv
<1> SUFFICES ASSUME ContainerInit PROVE ContainerInv
  OBVIOUS
<1>1. containers \in Seq(ContainerRecords) /\ Len(containers) = 0
  BY EmptySeq DEF ContainerInit
<1>2. Made = {}
  BY <1>1, LenProperties DEF Made
<1> QED
  BY <1>1, <1>2 DEF ContainerInit, ContainerInv, ContainerTypeOK, GivenAreOwn

\* What is removed is gone, and nothing else changes.
LEMMA Removed ==
  ASSUME NEW made \in Seq(ContainerRecords), NEW S, NEW refused, RemoveAll(made, S, refused)
  PROVE  /\ containers' \in Seq(ContainerRecords)
         /\ Made' = DOMAIN made
         /\ \A c \in DOMAIN made : containers'[c].of = made[c].of
         /\ \A c \in DOMAIN made \ (S \ refused) : containers'[c] = made[c]
         /\ \A c \in DOMAIN made \cap (S \ refused) : containers'[c].state = "gone"
         /\ \A c \in refused : made[c].state # "gone" => c \in kept'
         /\ kept \subseteq kept'
<1>1. /\ containers' = [c \in DOMAIN made |-> IF c \in S \ refused THEN [made[c] EXCEPT !.state = "gone"]
                                             ELSE made[c]]
      /\ kept' = kept \cup {c \in refused : made[c].state # "gone"}
  BY DEF RemoveAll
<1>2. Len(made) \in Nat /\ DOMAIN made = 1..Len(made) /\ made \in [1..Len(made) -> ContainerRecords]
  BY LenProperties
<1>3. \A r \in ContainerRecords : [r EXCEPT !.state = "gone"] \in ContainerRecords
                                 /\ [r EXCEPT !.state = "gone"].of = r.of
                                 /\ [r EXCEPT !.state = "gone"].state = "gone"
  BY DEF ContainerRecords
<1>4. containers' \in [1..Len(made) -> ContainerRecords]
  BY <1>1, <1>2, <1>3
<1>5. containers' \in Seq(ContainerRecords)
  BY <1>2, <1>4, ContainersInSequence
<1> QED
  BY <1>1, <1>2, <1>3, <1>5 DEF Made

\* The containers of an environment that is created run, have their entries and
\* are given.
LEMMA CreateKeepsAccounts ==
  ASSUME ContainerInv, NEW e \in Environments, CreateEnvironment(e)
  PROVE  ContainerInv'
<1> DEFINE ids == (Len(containers) + 1)..(Len(containers) + Services)
<1>1. /\ e \notin ended /\ given[e] = {}
      /\ containers' = containers \o New(e, Services)
      /\ containerInfo' = containerInfo \cup ids /\ given' = [given EXCEPT ![e] = ids]
      /\ UNCHANGED <<ended, kept, unnoticed>>
  BY DEF CreateEnvironment
<1>2. /\ Len(containers) \in Nat /\ Made = 1..Len(containers) /\ Services \in Nat
      /\ \A c \in Made : containers[c] \in ContainerRecords
  BY ContainerNumbers, ContainerConstants DEF ContainerInv
<1>3. /\ containers' \in Seq(ContainerRecords)
      /\ DOMAIN containers' = 1..(Len(containers) + Services)
      /\ \A c \in Made : containers'[c] = containers[c]
      /\ \A c \in ids : containers'[c].of = e /\ containers'[c].state = "running"
  <2>1. ContainerTypeOK
    BY DEF ContainerInv
  <2> DEFINE made == containers \o New(e, Services)
  <2>2. /\ made \in Seq(ContainerRecords)
        /\ DOMAIN made = 1..(Len(containers) + Services)
        /\ \A c \in Made : made[c] = containers[c]
        /\ \A c \in ids : made[c].of = e /\ made[c].state = "running"
    BY <1>2, <2>1, NewComeAfter
  <2>3. containers' = made
    BY <1>1
  <2> HIDE DEF made, ids
  <2> QED
    BY <2>2, <2>3
<1>4. Made' = Made \cup ids /\ Made \cap ids = {}
  BY <1>2, <1>3 DEF Made
<1> HIDE DEF ids
<1>5. given' \in [Environments -> SUBSET Made'] /\ containerInfo' \subseteq Made'
  BY <1>1, <1>4 DEF ContainerInv, ContainerTypeOK
<1>6. ASSUME NEW d \in Environments, NEW c \in given'[d] PROVE containers'[c].of = d
  <2>1. CASE d = e
    BY <1>1, <1>3, <1>5, <2>1 DEF ContainerInv, ContainerTypeOK
  <2>2. CASE d # e
    BY <1>1, <1>3, <2>2 DEF ContainerInv, ContainerTypeOK, GivenAreOwn
  <2> QED
    BY <2>1, <2>2
<1>7. ASSUME NEW c \in Made', c \notin unnoticed'
      PROVE  /\ c \in containerInfo' <=> containers'[c].state # "gone"
             /\ containers'[c].of \in ended' /\ containers'[c].state # "gone" => c \in kept'
             /\ containers'[c].of \notin ended' /\ containers'[c].state # "gone"
                  => c \in given'[containers'[c].of]
  <2>1. CASE c \in ids
    BY <1>1, <1>3, <1>5, <2>1 DEF ContainerInv, ContainerTypeOK
  <2>2. CASE c \in Made
    <3>1. /\ containers'[c] = containers[c] /\ containers[c].of \in Environments
          /\ c \in containerInfo' <=> c \in containerInfo
      BY <1>1, <1>2, <1>3, <1>4, <2>2 DEF ContainerRecords
    <3>2. /\ c \in containerInfo <=> containers[c].state # "gone"
          /\ containers[c].of \in ended /\ containers[c].state # "gone" => c \in kept
          /\ containers[c].of \notin ended /\ containers[c].state # "gone"
               => c \in given[containers[c].of]
      BY <1>1, <1>7, <2>2 DEF ContainerInv, Accounted, Exists
    <3>3. given[containers[c].of] \subseteq given'[containers[c].of]
      BY <1>1, <3>1 DEF ContainerInv, ContainerTypeOK
    <3> QED
      BY <1>1, <3>1, <3>2, <3>3
  <2> QED
    BY <1>4, <2>1, <2>2
<1> QED
  BY <1>3, <1>5, <1>6, <1>7 DEF ContainerInv, ContainerTypeOK, GivenAreOwn, Accounted, Exists

\* An environment whose creation fails has given nothing to its caller, so that of
\* its containers only those of this call are there.
LEMMA FailureKeepsAccounts ==
  ASSUME ContainerInv, NEW e \in Environments, given[e] = {}, e \notin ended,
         given' = given, ended' = ended \cup {e}, unnoticed \subseteq unnoticed', kept \subseteq kept',
         containers' \in Seq(ContainerRecords), Made \subseteq Made',
         containerInfo' \subseteq Made',
         \A c \in Made : containers'[c] = containers[c] /\ (c \in containerInfo' <=> c \in containerInfo),
         \A c \in (Made' \ Made) \ unnoticed' :
           /\ containers'[c].of = e
           /\ c \in containerInfo' <=> containers'[c].state # "gone"
           /\ containers'[c].state # "gone" => c \in kept'
  PROVE  ContainerInv'
<1>1. given' \in [Environments -> SUBSET Made'] /\ GivenAreOwn'
  BY DEF ContainerInv, ContainerTypeOK, GivenAreOwn
<1>2. ASSUME NEW c \in Made', c \notin unnoticed'
      PROVE  /\ c \in containerInfo' <=> containers'[c].state # "gone"
             /\ containers'[c].of \in ended' /\ containers'[c].state # "gone" => c \in kept'
             /\ containers'[c].of \notin ended' /\ containers'[c].state # "gone"
                  => c \in given'[containers'[c].of]
  <2>1. CASE c \notin Made
    BY <1>2, <2>1
  <2>2. CASE c \in Made
    BY <1>2, <2>2 DEF ContainerInv, Accounted, Exists
  <2> QED
    BY <2>1, <2>2
<1> QED
  BY <1>1, <1>2 DEF ContainerInv, ContainerTypeOK, Accounted, Exists

\* The rollback leaves only what docker refuses to remove.
LEMMA CreationFailsKeeps ==
  ASSUME ContainerInv, NEW e \in Environments, NEW done \in 0..Services, NEW runs \in 0..1, NEW refused,
         CreationFails(e, done, runs, refused)
  PROVE  ContainerInv'
<1> DEFINE made == containers \o New(e, done + runs)
           n == Len(containers)
           ids == (n + 1)..(n + done)
<1>1. /\ given[e] = {} /\ e \notin ended /\ refused \subseteq ids
      /\ RemoveAll(made, ids, refused)
      /\ containerInfo' = (containerInfo \cup ids) \ Forgotten(made, ids, refused)
      /\ unnoticed' = unnoticed \cup {c \in DOMAIN made : c > n + done}
      /\ ended' = ended \cup {e} /\ given' = given
  BY DEF CreationFails
<1>2. /\ n \in Nat /\ Made = 1..n /\ done \in Nat /\ runs \in Nat
  BY ContainerNumbers, ContainerConstants DEF ContainerInv
<1>3. /\ made \in Seq(ContainerRecords)
      /\ DOMAIN made = 1..(n + (done + runs))
      /\ \A c \in Made : made[c] = containers[c]
      /\ \A c \in (n + 1)..(n + (done + runs)) : made[c].of = e /\ made[c].state = "running"
  <2>1. done + runs \in Nat
    BY <1>2
  <2> QED
    BY <2>1, NewComeAfter DEF ContainerInv
<1>4. /\ ids \subseteq DOMAIN made /\ Made \subseteq DOMAIN made /\ Made \cap ids = {}
      /\ \A c \in ids : made[c].of = e /\ made[c].state = "running"
      /\ \A c \in DOMAIN made \ Made : c \in ids \/ c > n + done
  BY <1>2, <1>3
<1> HIDE DEF made, n, ids
<1>5. /\ containers' \in Seq(ContainerRecords)
      /\ Made' = DOMAIN made
      /\ \A c \in DOMAIN made : containers'[c].of = made[c].of
      /\ \A c \in DOMAIN made \ (ids \ refused) : containers'[c] = made[c]
      /\ \A c \in DOMAIN made \cap (ids \ refused) : containers'[c].state = "gone"
      /\ \A c \in refused : made[c].state # "gone" => c \in kept'
      /\ kept \subseteq kept'
  BY <1>1, <1>3, Removed
<1>6. containerInfo' = (containerInfo \cup ids) \ (ids \ refused)
  BY <1>1, <1>4 DEF Forgotten
<1>7. ASSUME NEW c \in (Made' \ Made) \ unnoticed'
      PROVE  /\ containers'[c].of = e
             /\ c \in containerInfo' <=> containers'[c].state # "gone"
             /\ containers'[c].state # "gone" => c \in kept'
  <2>1. c \in ids /\ c \in DOMAIN made /\ c \notin containerInfo
    BY <1>1, <1>4, <1>5 DEF ContainerInv, ContainerTypeOK
  <2> QED
    BY <1>1, <1>4, <1>5, <1>6, <2>1
<1>8. ASSUME NEW c \in Made
      PROVE  containers'[c] = containers[c] /\ (c \in containerInfo' <=> c \in containerInfo)
  BY <1>3, <1>4, <1>5, <1>6
<1>9. containerInfo' \subseteq Made' /\ Made \subseteq Made' /\ unnoticed \subseteq unnoticed'
  BY <1>1, <1>4, <1>5, <1>6 DEF ContainerInv, ContainerTypeOK
<1> QED
  BY <1>1, <1>5, <1>7, <1>8, <1>9, FailureKeepsAccounts

\* Without a rollback everything made so far is kept.
LEMMA DefinitionFailsKeeps ==
  ASSUME ContainerInv, NEW e \in Environments, NEW done \in 0..Services, DefinitionFails(e, done)
  PROVE  ContainerInv'
<1> DEFINE n == Len(containers)
           ids == (n + 1)..(n + done)
<1>1. /\ given[e] = {} /\ e \notin ended
      /\ containers' = containers \o New(e, done)
      /\ containerInfo' = containerInfo \cup ids
      /\ ended' = ended \cup {e} /\ kept' = kept \cup ids
      /\ given' = given /\ unnoticed' = unnoticed
  BY DEF DefinitionFails
<1>2. /\ n \in Nat /\ Made = 1..n /\ done \in Nat
  BY ContainerNumbers, ContainerConstants DEF ContainerInv
<1>3. /\ containers' \in Seq(ContainerRecords)
      /\ DOMAIN containers' = 1..(n + done)
      /\ \A c \in Made : containers'[c] = containers[c]
      /\ \A c \in ids : containers'[c].of = e /\ containers'[c].state = "running"
  <2> PICK k : k = done
    OBVIOUS
  <2> DEFINE new == containers \o New(e, k)
  <2>1. /\ new \in Seq(ContainerRecords)
        /\ DOMAIN new = 1..(n + k)
        /\ \A c \in Made : new[c] = containers[c]
        /\ \A c \in (n + 1)..(n + k) : new[c].of = e /\ new[c].state = "running"
    <3>1. ContainerTypeOK /\ k \in Nat
      BY <1>2 DEF ContainerInv
    <3> QED
      BY <3>1, NewComeAfter
  <2>2. containers' = new
    BY <1>1
  <2> HIDE DEF new
  <2> QED
    BY <2>1, <2>2
<1>4. Made' = Made \cup ids /\ Made \cap ids = {}
  <2>1. Made' = 1..(n + done)
    BY <1>3 DEF Made
  <2> QED
    BY <1>2, <2>1
<1> HIDE DEF n, ids
<1>5. ASSUME NEW c \in (Made' \ Made) \ unnoticed'
      PROVE  /\ containers'[c].of = e
             /\ c \in containerInfo' <=> containers'[c].state # "gone"
             /\ containers'[c].state # "gone" => c \in kept'
  BY <1>1, <1>3, <1>4
<1>6. containerInfo' \subseteq Made' /\ Made \subseteq Made'
  BY <1>1, <1>4 DEF ContainerInv, ContainerTypeOK
<1> QED
  BY <1>1, <1>3, <1>4, <1>5, <1>6, FailureKeepsAccounts

\* Destroying an environment leaves of it what docker refused to remove, and what
\* nobody knows of.
LEMMA DestroyKeepsAccounts ==
  ASSUME ContainerInv, NEW e \in Environments, NEW refused, NEW networkStays,
         DestroyEnvironment(e, refused, networkStays)
  PROVE  ContainerInv'
<1> DEFINE S == given[e]
<1>1. /\ refused \subseteq {c \in S : Exists(c)}
      /\ RemoveAll(containers, S, refused)
      /\ containerInfo' = containerInfo \ Forgotten(containers, S, refused)
      /\ given' = [given EXCEPT ![e] = {}]
      /\ ended' = ended \cup {e} /\ unnoticed' = unnoticed
  BY DEF DestroyEnvironment
<1>2. containers \in Seq(ContainerRecords) /\ S \subseteq Made /\ given \in [Environments -> SUBSET Made]
  BY DEF ContainerInv, ContainerTypeOK
<1>3. /\ containers' \in Seq(ContainerRecords)
      /\ Made' = Made
      /\ \A c \in Made : containers'[c].of = containers[c].of
      /\ \A c \in Made \ (S \ refused) : containers'[c] = containers[c]
      /\ \A c \in Made \cap (S \ refused) : containers'[c].state = "gone"
      /\ \A c \in refused : containers[c].state # "gone" => c \in kept'
      /\ kept \subseteq kept'
  BY <1>1, <1>2, Removed DEF Made
<1>4. \A c \in Made : containers[c].of \in Environments
  BY ContainerNumbers DEF ContainerInv, ContainerRecords
<1>5. /\ containerInfo' \subseteq Made' /\ given' \in [Environments -> SUBSET Made']
      /\ \A d \in Environments : given'[d] = IF d = e THEN {} ELSE given[d]
  BY <1>1, <1>2, <1>3 DEF ContainerInv, ContainerTypeOK
<1>6. GivenAreOwn'
  BY <1>2, <1>3, <1>5 DEF ContainerInv, GivenAreOwn
<1>7. ASSUME NEW c \in Made', c \notin unnoticed'
      PROVE  /\ c \in containerInfo' <=> containers'[c].state # "gone"
             /\ containers'[c].of \in ended' /\ containers'[c].state # "gone" => c \in kept'
             /\ containers'[c].of \notin ended' /\ containers'[c].state # "gone"
                  => c \in given'[containers'[c].of]
  <2>1. /\ c \in Made
        /\ c \in containerInfo <=> containers[c].state # "gone"
        /\ containers[c].of \in ended /\ containers[c].state # "gone" => c \in kept
        /\ containers[c].of \notin ended /\ containers[c].state # "gone" => c \in given[containers[c].of]
    BY <1>1, <1>3, <1>7 DEF ContainerInv, Accounted, Exists
  <2>2. CASE c \in S \ refused
    <3>1. containers'[c].state = "gone" /\ c \notin containerInfo'
      BY <1>1, <1>3, <2>1, <2>2 DEF Forgotten
    <3> QED
      BY <3>1
  <2>3. CASE c \notin S \ refused
    <3>1. containers'[c] = containers[c] /\ (c \in containerInfo' <=> c \in containerInfo)
      BY <1>1, <1>3, <2>1, <2>3 DEF Forgotten
    <3>2. CASE containers[c].of = e
      <4>1. containers[c].state # "gone" => c \in kept'
        BY <1>3, <2>1, <2>3, <3>2
      <4>2. c \in containerInfo' <=> containers'[c].state # "gone"
        BY <2>1, <3>1
      <4>3. containers'[c].of \in ended'
        BY <1>1, <3>1, <3>2
      <4> QED
        BY <3>1, <4>1, <4>2, <4>3
    <3>3. CASE containers[c].of # e
      BY <1>1, <1>3, <1>4, <1>5, <2>1, <3>1, <3>3
    <3> QED
      BY <3>2, <3>3
  <2> QED
    BY <2>2, <2>3
<1> QED
  BY <1>3, <1>5, <1>6, <1>7 DEF ContainerInv, ContainerTypeOK, GivenAreOwn, Accounted, Exists

\* A step of one container changes no other.  If the container goes its entry does,
\* unless nobody notices.
LEMMA OneContainerChanges ==
  ASSUME ContainerInv, NEW c \in Made, NEW state \in {"running", "exited", "gone"}, Exists(c),
         containers' = [containers EXCEPT ![c].state = state],
         UNCHANGED <<given, ended, kept>>, unnoticed \subseteq unnoticed',
         containerInfo' \subseteq containerInfo, containerInfo \ {c} \subseteq containerInfo',
         c \in unnoticed' \/ (c \in containerInfo' <=> c \in containerInfo /\ state # "gone")
  PROVE  ContainerInv'
<1> DEFINE r == [containers[c] EXCEPT !.state = state]
<1>1. containers \in Seq(ContainerRecords) /\ containers[c] \in ContainerRecords /\ c \in 1..Len(containers)
  BY ContainerNumbers DEF ContainerInv, ContainerTypeOK
<1>2. r \in ContainerRecords /\ r.of = containers[c].of /\ r.state = state
  BY <1>1 DEF ContainerRecords
<1>3. containers' = [containers EXCEPT ![c] = r]
  OBVIOUS
<1> HIDE DEF r
<1>4. /\ containers' \in Seq(ContainerRecords) /\ DOMAIN containers' = DOMAIN containers
      /\ containers'[c] = r
      /\ \A d \in Made : d # c => containers'[d] = containers[d]
  BY <1>1, <1>2, <1>3, ExceptSeq DEF Made
<1>5. /\ Made' = Made
      /\ \A d \in Made : containers'[d].of = containers[d].of
  BY <1>2, <1>4 DEF Made
<1>6. ContainerTypeOK' /\ GivenAreOwn'
  BY <1>4, <1>5 DEF ContainerInv, ContainerTypeOK, GivenAreOwn
<1>7. ASSUME NEW d \in Made', d \notin unnoticed'
      PROVE  /\ d \in containerInfo' <=> containers'[d].state # "gone"
             /\ containers'[d].of \in ended' /\ containers'[d].state # "gone" => d \in kept'
             /\ containers'[d].of \notin ended' /\ containers'[d].state # "gone"
                  => d \in given'[containers'[d].of]
  <2>1. /\ d \in Made
        /\ d \in containerInfo <=> containers[d].state # "gone"
        /\ containers[d].of \in ended /\ containers[d].state # "gone" => d \in kept
        /\ containers[d].of \notin ended /\ containers[d].state # "gone" => d \in given[containers[d].of]
    BY <1>5, <1>7 DEF ContainerInv, Accounted, Exists
  <2>2. CASE d = c
    <3>1. d \in containerInfo' <=> containers'[d].state # "gone"
      BY <1>2, <1>4, <1>7, <2>1, <2>2 DEF Exists
    <3> QED
      BY <1>5, <2>1, <2>2, <3>1 DEF Exists
  <2>3. CASE d # c
    <3>1. containers'[d] = containers[d] /\ (d \in containerInfo' <=> d \in containerInfo)
      BY <1>4, <2>1, <2>3
    <3>2. ended' = ended /\ kept' = kept /\ given' = given
      OBVIOUS
    <3> QED
      BY <2>1, <3>1, <3>2
  <2> QED
    BY <2>2, <2>3
<1> QED
  BY <1>6, <1>7 DEF ContainerInv, Accounted, Exists

\* No call loses track of a container.
LEMMA ContainerStep ==
  ASSUME ContainerInv, [ContainerNext]_containerVars
  PROVE  ContainerInv'
<1>1. CASE \E e \in Environments : CreateEnvironment(e)
  BY <1>1, CreateKeepsAccounts
<1>2. CASE \E e \in Environments, done \in 0..Services : DefinitionFails(e, done)
  BY <1>2, DefinitionFailsKeeps
<1>3. CASE \E e \in Environments, done \in 0..Services, runs \in 0..1, refused \in SUBSET (1..MaxContainers) :
             CreationFails(e, done, runs, refused)
  BY <1>3, CreationFailsKeeps
<1>4. CASE \E e \in Environments, refused \in SUBSET Made, networkStays \in BOOLEAN :
             DestroyEnvironment(e, refused, networkStays)
  BY <1>4, DestroyKeepsAccounts
<1>5. CASE \E c \in Made : StartContainer(c)
  BY <1>5, OneContainerChanges DEF StartContainer, Exists
<1>6. CASE \E c \in Made : StopContainer(c)
  BY <1>6, OneContainerChanges DEF StopContainer, Exists
<1>7. CASE \E c \in Made : RemoveContainer(c)
  BY <1>7, OneContainerChanges DEF RemoveContainer
<1>8. CASE \E c \in Made : ContainerVanishes(c)
  BY <1>8, OneContainerChanges DEF ContainerVanishes
<1>9. CASE UNCHANGED containerVars
  BY <1>9 DEF containerVars, ContainerInv, ContainerTypeOK, GivenAreOwn, Accounted, Exists, Made
<1> QED
  BY <1>1, <1>2, <1>3, <1>4, <1>5, <1>6, <1>7, <1>8, <1>9 DEF ContainerNext

\* Whatever docker refuses and whoever else removes containers, a container has its
\* entry while it exists, and is gone with its environment, but for those named.
THEOREM ContainersSafe == ContainerSpec => []ContainersAreAccounted
<1>1. ContainerInv => ContainersAreAccounted
  BY DEF ContainerInv, Accounted, ContainersAreAccounted
<1>2. ContainerSpec => []ContainerInv
  BY ContainersInitial, ContainerStep, PTL DEF ContainerSpec
<1> QED
  BY <1>1, <1>2, PTL

-----------------------------------------------------------------------------
(***************************************************************************)
(* Monitors, checks and alerts.                                            *)
(***************************************************************************)
MonitorRecords == [pod : Pods, state : {"running", "cancelled", "ended"}]

MonitorTypeOK ==
  /\ monitors \in Seq(MonitorRecords)
  /\ DOMAIN monitored = Pods
  /\ \A p \in Pods :
       monitored[p] # None => monitored[p] \in DOMAIN monitors /\ monitors[monitored[p]].pod = p
  /\ DOMAIN stopping = Calls
  /\ \A k \in Calls :
       stopping[k] # None => stopping[k] \in DOMAIN monitors /\ monitors[stopping[k]].state # "running"

\* A call that stops a monitor stops the one its pod has now, and is the only one,
\* unless two calls stopped a monitor of the pod.
StopsAreOfEntries ==
  \A k \in Calls :
    stopping[k] # None /\ monitors[stopping[k]].pod \notin doubled =>
      /\ monitored[monitors[stopping[k]].pod] = stopping[k]
      /\ \A j \in Calls : stopping[j] = stopping[k] => j = k

MonitorInv == MonitorTypeOK /\ StopsAreOfEntries /\ RunningMonitorsAreKnown

\* A run is told from what it found, run_checks or not.
FoundTrouble == overall = "healthy" <=> \A i \in DOMAIN results : results[i] = "healthy"

RaisedHaveAlerts == \A r \in raised : \E a \in alerts : a.id = <<r.second, Hash(r.check, r.severity)>>

CheckInv ==
  /\ results \in Seq({"healthy", "degraded", "raises"})
  /\ FoundTrouble
  /\ RaisedHaveAlerts

----------------------------------------------------------------------------
\* The monitors are numbered from one.
LEMMA MonitorNumbers ==
  ASSUME MonitorTypeOK
  PROVE  /\ Len(monitors) \in Nat /\ DOMAIN monitors = 1..Len(monitors)
         /\ \A m \in DOMAIN monitors : monitors[m] \in MonitorRecords
<1>1. monitors \in Seq(MonitorRecords)
  BY DEF MonitorTypeOK
<1>2. /\ Len(monitors) \in Nat /\ DOMAIN monitors = 1..Len(monitors)
      /\ monitors \in [1..Len(monitors) -> MonitorRecords]
  BY <1>1, LenProperties
<1> QED
  BY <1>2

\* No monitor runs at first, and no check has run.
LEMMA MonitoringInitial == MonitoringInit => MonitorInv /\ CheckInv
<1> SUFFICES ASSUME MonitoringInit PROVE MonitorInv /\ CheckInv
  OBVIOUS
<1>1. /\ monitors \in Seq(MonitorRecords) /\ Len(monitors) = 0
      /\ results \in Seq({"healthy", "degraded", "raises"}) /\ Len(results) = 0
  BY EmptySeq DEF MonitoringInit
<1>2. DOMAIN monitors = {} /\ DOMAIN results = {}
  BY <1>1, LenProperties
<1>3. MonitorInv
  BY <1>1, <1>2 DEF MonitoringInit, MonitorInv, MonitorTypeOK, StopsAreOfEntries, RunningMonitorsAreKnown
<1>4. CheckInv
  BY <1>1, <1>2 DEF MonitoringInit, CheckInv, FoundTrouble, RaisedHaveAlerts
<1> QED
  BY <1>3, <1>4

\* A step that changes the state of one monitor.
LEMMA OneMonitorChanges ==
  ASSUME MonitorTypeOK, NEW m \in DOMAIN monitors, NEW state \in {"running", "cancelled", "ended"},
         monitors' = [monitors EXCEPT ![m].state = state]
  PROVE  /\ monitors' \in Seq(MonitorRecords) /\ DOMAIN monitors' = DOMAIN monitors
         /\ monitors'[m].state = state
         /\ \A n \in DOMAIN monitors : monitors'[n].pod = monitors[n].pod /\ (n # m => monitors'[n] = monitors[n])
<1> DEFINE r == [monitors[m] EXCEPT !.state = state]
<1>1. /\ monitors \in Seq(MonitorRecords) /\ monitors[m] \in MonitorRecords /\ m \in 1..Len(monitors)
  BY MonitorNumbers DEF MonitorTypeOK
<1>2. r \in MonitorRecords /\ r.pod = monitors[m].pod /\ r.state = state
  BY <1>1 DEF MonitorRecords
<1>3. monitors' = [monitors EXCEPT ![m] = r]
  OBVIOUS
<1> HIDE DEF r
<1>4. monitors' \in Seq(MonitorRecords) /\ DOMAIN monitors' = DOMAIN monitors
  BY <1>1, <1>2, <1>3, ExceptSeq
<1> QED
  BY <1>2, <1>3, <1>4

\* A monitor is started for a pod that has no entry, of which no call waits unless
\* two did.
LEMMA StartMonitorKeeps ==
  ASSUME MonitorInv, NEW p \in Pods, StartMonitoringPod(p)
  PROVE  MonitorInv'
<1> DEFINE n == Len(monitors) + 1
           r == [pod |-> p, state |-> "running"]
<1>1. /\ monitored[p] = None
      /\ monitors' = Append(monitors, r) /\ monitored' = [monitored EXCEPT ![p] = n]
      /\ stopping' = stopping /\ doubled' = doubled
  BY DEF StartMonitoringPod
<1>2. /\ monitors \in Seq(MonitorRecords) /\ r \in MonitorRecords /\ r.pod = p
      /\ Len(monitors) \in Nat /\ DOMAIN monitors = 1..Len(monitors)
  BY MonitorNumbers DEF MonitorInv, MonitorTypeOK, MonitorRecords
<1> HIDE DEF r
<1>3. /\ monitors' \in Seq(MonitorRecords) /\ Len(monitors') = n
      /\ \A m \in 1..Len(monitors) : monitors'[m] = monitors[m]
      /\ monitors'[n] = r
  BY <1>1, <1>2, AppendProperties
<1>4. DOMAIN monitors' = 1..n
  BY <1>3, LenProperties
<1>5. /\ DOMAIN monitors' = DOMAIN monitors \cup {n} /\ n \notin DOMAIN monitors
      /\ \A m \in DOMAIN monitors : monitors'[m] = monitors[m]
  BY <1>2, <1>3, <1>4
<1> HIDE DEF n
<1>6. MonitorTypeOK'
  <2>1. ASSUME NEW q \in Pods, monitored'[q] # None
        PROVE  monitored'[q] \in DOMAIN monitors' /\ monitors'[monitored'[q]].pod = q
    BY <1>1, <1>2, <1>3, <1>5, <2>1 DEF MonitorInv, MonitorTypeOK
  <2>2. ASSUME NEW k \in Calls, stopping'[k] # None
        PROVE  stopping'[k] \in DOMAIN monitors' /\ monitors'[stopping'[k]].state # "running"
    BY <1>1, <1>5, <2>2 DEF MonitorInv, MonitorTypeOK
  <2> QED
    BY <1>1, <1>3, <2>1, <2>2 DEF MonitorInv, MonitorTypeOK
<1>7. StopsAreOfEntries'
  <2> SUFFICES ASSUME NEW k \in Calls, stopping[k] # None, monitors'[stopping[k]].pod \notin doubled
               PROVE  /\ monitored'[monitors'[stopping[k]].pod] = stopping[k]
                      /\ \A j \in Calls : stopping[j] = stopping[k] => j = k
    BY <1>1 DEF StopsAreOfEntries
  <2>1. stopping[k] \in DOMAIN monitors /\ monitors'[stopping[k]] = monitors[stopping[k]]
    BY <1>5 DEF MonitorInv, MonitorTypeOK
  <2>2. /\ monitored[monitors[stopping[k]].pod] = stopping[k]
        /\ \A j \in Calls : stopping[j] = stopping[k] => j = k
    BY <2>1 DEF MonitorInv, StopsAreOfEntries
  <2>3. monitors[stopping[k]].pod # p
    BY <1>1, <2>2
  <2> QED
    BY <1>1, <2>1, <2>2, <2>3
<1>8. RunningMonitorsAreKnown'
  <2> SUFFICES ASSUME NEW m \in DOMAIN monitors', monitors'[m].state = "running"
               PROVE  monitored'[monitors'[m].pod] = m \/ monitors'[m].pod \in doubled
    BY <1>1 DEF RunningMonitorsAreKnown
  <2>1. CASE m = n
    BY <1>1, <1>2, <1>3, <2>1 DEF MonitorInv, MonitorTypeOK
  <2>2. CASE m # n
    <3>1. m \in DOMAIN monitors /\ monitors'[m] = monitors[m] /\ m # None
      BY <1>2, <1>5, <2>2, MonitoringConstants
    <3>2. monitored[monitors[m].pod] = m \/ monitors[m].pod \in doubled
      BY <3>1 DEF MonitorInv, RunningMonitorsAreKnown
    <3>3. CASE monitors[m].pod = p
      BY <1>1, <3>1, <3>2, <3>3
    <3>4. CASE monitors[m].pod # p
      BY <1>1, <3>1, <3>2, <3>4
    <3> QED
      BY <3>1, <3>3, <3>4
  <2> QED
    BY <2>1, <2>2
<1> QED
  BY <1>6, <1>7, <1>8 DEF MonitorInv

\* A second call that stops a monitor makes the pod one of the exceptions.
LEMMA StopMonitorKeeps ==
  ASSUME MonitorInv, NEW k \in Calls, NEW p \in Pods, StopMonitoringPod(k, p)
  PROVE  MonitorInv'
<1> DEFINE x == monitored[p]
           state == IF monitors[x].state = "running" THEN "cancelled" ELSE monitors[x].state
<1>1. /\ stopping[k] = None /\ x # None
      /\ stopping' = [stopping EXCEPT ![k] = x]
      /\ monitors' = [monitors EXCEPT ![x].state = state]
      /\ doubled' = IF \E j \in Calls : stopping[j] = x THEN doubled \cup {p} ELSE doubled
      /\ monitored' = monitored
  BY DEF StopMonitoringPod
<1>2. x \in DOMAIN monitors /\ monitors[x].pod = p
  BY <1>1 DEF MonitorInv, MonitorTypeOK
<1>3. state \in {"running", "cancelled", "ended"} /\ state # "running"
  BY <1>2, MonitorNumbers DEF MonitorInv, MonitorRecords
<1> HIDE DEF state
<1>4. /\ monitors' \in Seq(MonitorRecords) /\ DOMAIN monitors' = DOMAIN monitors
      /\ monitors'[x].state = state
      /\ \A n \in DOMAIN monitors : monitors'[n].pod = monitors[n].pod /\ (n # x => monitors'[n] = monitors[n])
  BY <1>1, <1>2, <1>3, OneMonitorChanges DEF MonitorInv
<1>5. DOMAIN stopping = Calls /\ DOMAIN monitored = Pods /\ x = monitored[p]
  BY DEF MonitorInv, MonitorTypeOK
<1> HIDE DEF x
<1>6. ASSUME NEW j \in Calls, stopping'[j] # None
      PROVE  stopping'[j] \in DOMAIN monitors' /\ monitors'[stopping'[j]].state # "running"
  <2>1. CASE j = k
    BY <1>1, <1>2, <1>3, <1>4, <1>5, <2>1
  <2>2. CASE j # k
    <3>1. stopping'[j] = stopping[j] /\ stopping[j] # None
      BY <1>1, <1>5, <1>6, <2>2
    <3>2. stopping[j] \in DOMAIN monitors /\ monitors[stopping[j]].state # "running"
      BY <3>1 DEF MonitorInv, MonitorTypeOK
    <3> QED
      BY <1>3, <1>4, <3>1, <3>2
  <2> QED
    BY <2>1, <2>2
<1>7. MonitorTypeOK'
  <2>1. \A q \in Pods : monitored[q] # None => monitored[q] \in DOMAIN monitors /\ monitors[monitored[q]].pod = q
    BY DEF MonitorInv, MonitorTypeOK
  <2> QED
    BY <1>1, <1>4, <1>5, <1>6, <2>1 DEF MonitorTypeOK
<1>8. StopsAreOfEntries'
  <2> SUFFICES ASSUME NEW j \in Calls, stopping'[j] # None, monitors'[stopping'[j]].pod \notin doubled'
               PROVE  /\ monitored[monitors'[stopping'[j]].pod] = stopping'[j]
                      /\ \A i \in Calls : stopping'[i] = stopping'[j] => i = j
    BY <1>1 DEF StopsAreOfEntries
  <2>1. CASE j = k
    <3>1. stopping'[j] = x /\ monitors'[x].pod = p
      BY <1>1, <1>2, <1>4, <1>5, <2>1
    <3>2. \A i \in Calls : stopping[i] # x
      BY <1>1, <3>1
    <3> QED
      BY <1>1, <1>5, <2>1, <3>1, <3>2
  <2>2. CASE j # k
    <3>1. stopping'[j] = stopping[j] /\ stopping[j] # None /\ stopping[j] \in DOMAIN monitors
      BY <1>1, <1>5, <2>2 DEF MonitorInv, MonitorTypeOK
    <3>2. monitors'[stopping[j]].pod = monitors[stopping[j]].pod /\ doubled \subseteq doubled'
      BY <1>1, <1>4, <3>1
    <3>3. /\ monitored[monitors[stopping[j]].pod] = stopping[j]
          /\ \A i \in Calls : stopping[i] = stopping[j] => i = j
      BY <3>1, <3>2 DEF MonitorInv, StopsAreOfEntries
    <3>4. stopping[j] # x
      BY <1>1, <1>2, <3>1, <3>2
    <3> QED
      BY <1>1, <1>5, <3>1, <3>2, <3>3, <3>4
  <2> QED
    BY <2>1, <2>2
<1>9. RunningMonitorsAreKnown'
  <2> SUFFICES ASSUME NEW m \in DOMAIN monitors, monitors'[m].state = "running"
               PROVE  monitored[monitors'[m].pod] = m \/ monitors'[m].pod \in doubled'
    BY <1>1, <1>4 DEF RunningMonitorsAreKnown
  <2>1. m # x /\ monitors'[m] = monitors[m]
    BY <1>3, <1>4
  <2> QED
    BY <1>1, <2>1 DEF MonitorInv, RunningMonitorsAreKnown
<1> QED
  BY <1>7, <1>8, <1>9 DEF MonitorInv

\* A task that was cancelled ends, and no entry changes.
LEMMA EndMonitorKeeps ==
  ASSUME MonitorInv, NEW m \in DOMAIN monitors, MonitorEnds(m)
  PROVE  MonitorInv'
<1>1. /\ monitors[m].state = "cancelled" /\ monitors' = [monitors EXCEPT ![m].state = "ended"]
      /\ monitored' = monitored /\ stopping' = stopping /\ doubled' = doubled
  BY DEF MonitorEnds
<1>2. /\ monitors' \in Seq(MonitorRecords) /\ DOMAIN monitors' = DOMAIN monitors
      /\ monitors'[m].state = "ended"
      /\ \A n \in DOMAIN monitors : monitors'[n].pod = monitors[n].pod /\ (n # m => monitors'[n] = monitors[n])
  BY <1>1, OneMonitorChanges DEF MonitorInv
<1>3. \A n \in DOMAIN monitors : monitors'[n].state = "running" => monitors[n].state = "running"
  BY <1>1, <1>2
<1>4. MonitorTypeOK'
  BY <1>1, <1>2, <1>3 DEF MonitorInv, MonitorTypeOK
<1>5. StopsAreOfEntries'
  BY <1>1, <1>2 DEF MonitorInv, MonitorTypeOK, StopsAreOfEntries
<1>6. RunningMonitorsAreKnown'
  BY <1>1, <1>2, <1>3 DEF MonitorInv, RunningMonitorsAreKnown
<1> QED
  BY <1>4, <1>5, <1>6 DEF MonitorInv

\* The entry that goes is the one of the monitor that ended, unless two calls
\* stopped a monitor of the pod.
LEMMA MonitorStoppedKeeps ==
  ASSUME MonitorInv, NEW k \in Calls, MonitorStopped(k)
  PROVE  MonitorInv'
<1> DEFINE x == stopping[k]
           p == monitors[x].pod
<1>1. /\ x # None
      /\ monitored' = [monitored EXCEPT ![p] = None] /\ stopping' = [stopping EXCEPT ![k] = None]
      /\ monitors' = monitors /\ doubled' = doubled
  BY DEF MonitorStopped
<1>2. x \in DOMAIN monitors /\ monitors[x].state # "running" /\ p \in Pods
  BY <1>1, MonitorNumbers DEF MonitorInv, MonitorTypeOK, MonitorRecords
<1>3. MonitorTypeOK'
  BY <1>1, <1>2 DEF MonitorInv, MonitorTypeOK
<1>4. StopsAreOfEntries'
  <2> SUFFICES ASSUME NEW j \in Calls, stopping'[j] # None, monitors[stopping'[j]].pod \notin doubled
               PROVE  /\ monitored'[monitors[stopping'[j]].pod] = stopping'[j]
                      /\ \A i \in Calls : stopping'[i] = stopping'[j] => i = j
    BY <1>1 DEF StopsAreOfEntries
  <2>1. j # k /\ stopping'[j] = stopping[j]
    BY <1>1 DEF MonitorInv, MonitorTypeOK
  <2>2. /\ monitored[monitors[stopping[j]].pod] = stopping[j]
        /\ \A i \in Calls : stopping[i] = stopping[j] => i = j
    BY <2>1 DEF MonitorInv, StopsAreOfEntries
  <2>3. monitors[stopping[j]].pod # p
    BY <1>1, <2>1, <2>2 DEF MonitorInv, StopsAreOfEntries
  <2> QED
    BY <1>1, <2>1, <2>2, <2>3 DEF MonitorInv, MonitorTypeOK
<1>5. RunningMonitorsAreKnown'
  <2> SUFFICES ASSUME NEW m \in DOMAIN monitors, monitors[m].state = "running"
               PROVE  monitored'[monitors[m].pod] = m \/ monitors[m].pod \in doubled
    BY <1>1 DEF RunningMonitorsAreKnown
  <2>1. monitored[monitors[m].pod] = m \/ monitors[m].pod \in doubled
    BY DEF MonitorInv, RunningMonitorsAreKnown
  <2>2. CASE monitors[m].pod = p /\ p \notin doubled
    <3>1. monitored[p] = x
      BY <1>1, <2>2 DEF MonitorInv, StopsAreOfEntries
    <3> QED
      BY <1>2, <2>1, <2>2, <3>1
  <2>3. CASE monitors[m].pod # p
    BY <1>1, <2>1, <2>3
  <2> QED
    BY <2>2, <2>3
<1> QED
  BY <1>3, <1>4, <1>5 DEF MonitorInv

----------------------------------------------------------------------------
\* What a check answers is in the status as well as in the results, and an alert
\* replaces at most one of the same id.
LEMMA CheckDoneKeeps ==
  ASSUME CheckInv, NEW result \in {"healthy", "degraded", "raises"}, CheckDone(result)
  PROVE  CheckInv'
<1> DEFINE n == Len(results)
<1>1. results \in Seq({"healthy", "degraded", "raises"})
  BY DEF CheckInv
<1>2. results' = Append(results, result) /\ overall' = StatusAfter(result)
  BY DEF CheckDone
<1>3. /\ results' \in Seq({"healthy", "degraded", "raises"}) /\ Len(results') = n + 1
      /\ n \in Nat /\ \A i \in 1..n : results'[i] = results[i]
      /\ results'[n + 1] = result
      /\ DOMAIN results = 1..n
  BY <1>1, <1>2, AppendProperties, LenProperties
<1>4. DOMAIN results' = 1..(n + 1)
  BY <1>3, LenProperties
<1>5. (\A i \in DOMAIN results' : results'[i] = "healthy")
        <=> (\A i \in DOMAIN results : results[i] = "healthy") /\ result = "healthy"
  BY <1>3, <1>4
<1>6. FoundTrouble'
  <2>1. CASE result = "healthy"
    BY <1>2, <1>5, <2>1 DEF CheckInv, FoundTrouble, StatusAfter
  <2>2. CASE result # "healthy"
    BY <1>2, <1>5, <2>2 DEF FoundTrouble, StatusAfter
  <2> QED
    BY <2>1, <2>2
<1>7. RaisedHaveAlerts'
  <2>1. CASE UNCHANGED <<alerts, raised>>
    BY <2>1 DEF CheckInv, RaisedHaveAlerts
  <2>2. ASSUME NEW c, NEW severity, Raise(c, severity)
        PROVE  RaisedHaveAlerts'
    <3> DEFINE new == [id |-> Id(c, severity), check |-> c, severity |-> severity]
    <3>1. /\ alerts' = {a \in alerts : a.id # Id(c, severity)} \cup {new} /\ new.id = Id(c, severity)
          /\ raised' = raised \cup {[check |-> c, severity |-> severity, second |-> now]}
      BY <2>2 DEF Raise
    <3> SUFFICES ASSUME NEW r \in raised'
                 PROVE  \E a \in alerts' : a.id = <<r.second, Hash(r.check, r.severity)>>
      BY DEF RaisedHaveAlerts
    <3> HIDE DEF new
    <3>2. CASE r \in raised
      <4>1. PICK a \in alerts : a.id = <<r.second, Hash(r.check, r.severity)>>
        BY <3>2 DEF CheckInv, RaisedHaveAlerts
      <4>2. a \in alerts' \/ new.id = a.id
        BY <3>1
      <4> QED
        BY <3>1, <4>1, <4>2
    <3>3. CASE r = [check |-> c, severity |-> severity, second |-> now]
      BY <3>1, <3>3 DEF Id
    <3> QED
      BY <3>1, <3>2, <3>3
  <2>3. \/ UNCHANGED <<alerts, raised>>
        \/ Raise(Checks[checking + 1], "critical") \/ Raise(Checks[checking + 1], "warning")
    BY DEF CheckDone
  <2> QED
    BY <2>1, <2>2, <2>3
<1> QED
  BY <1>3, <1>6, <1>7 DEF CheckInv

\* A step of the monitors and one of the checks do not meet.
LEMMA MonitoringStep ==
  ASSUME MonitorInv, CheckInv, [MonitorNext \/ AlertNext]_monitoringVars
  PROVE  MonitorInv' /\ CheckInv'
<1>1. UNCHANGED monitorVars => MonitorInv'
  BY DEF monitorVars, MonitorInv, MonitorTypeOK, StopsAreOfEntries, RunningMonitorsAreKnown
<1>2. UNCHANGED checkVars => CheckInv'
  BY DEF checkVars, CheckInv, FoundTrouble, RaisedHaveAlerts
<1>3. CASE MonitorNext
  <2>1. UNCHANGED checkVars
    BY <1>3 DEF MonitorNext, StartMonitoringPod, StopMonitoringPod, MonitorEnds, MonitorStopped
  <2> QED
    BY <1>2, <1>3, <2>1, StartMonitorKeeps, StopMonitorKeeps, EndMonitorKeeps, MonitorStoppedKeeps
    DEF MonitorNext
<1>4. CASE AlertNext
  <2>1. UNCHANGED monitorVars
    BY <1>4 DEF AlertNext, RunChecks, ChecksReturned, ClockTicks, CheckDone, ResolveAlert
  <2>2. ASSUME RunChecks PROVE CheckInv'
    <3>1. results' = <<>> /\ overall' = "healthy" /\ raised' = {}
      BY <2>2 DEF RunChecks
    <3>2. results' \in Seq({"healthy", "degraded", "raises"}) /\ DOMAIN results' = {}
      BY <3>1, EmptySeq
    <3>3. FoundTrouble'
      BY <3>1, <3>2 DEF FoundTrouble
    <3>4. RaisedHaveAlerts'
      BY <3>1 DEF RaisedHaveAlerts
    <3> QED
      BY <3>2, <3>3, <3>4 DEF CheckInv
  <2>3. ASSUME ChecksReturned \/ ClockTicks PROVE CheckInv'
    <3>1. results' = results /\ overall' = overall /\ raised' = raised /\ alerts' = alerts
      BY <2>3 DEF ChecksReturned, ClockTicks
    <3> QED
      BY <3>1 DEF CheckInv, FoundTrouble, RaisedHaveAlerts
  <2>4. ASSUME NEW a \in alerts, ResolveAlert(a) PROVE CheckInv'
    <3>1. /\ results' = results /\ overall' = overall
          /\ alerts' = alerts \ {a}
          /\ raised' = {r \in raised : <<r.second, Hash(r.check, r.severity)>> # a.id}
      BY <2>4 DEF ResolveAlert
    <3>2. RaisedHaveAlerts'
      BY <3>1 DEF CheckInv, RaisedHaveAlerts
    <3>3. FoundTrouble'
      BY <3>1 DEF CheckInv, FoundTrouble
    <3> QED
      BY <3>1, <3>2, <3>3 DEF CheckInv
  <2> QED
    BY <1>1, <1>4, <2>1, <2>2, <2>3, <2>4, CheckDoneKeeps DEF AlertNext
<1>5. CASE UNCHANGED monitoringVars
  BY <1>1, <1>2, <1>5 DEF monitoringVars
<1> QED
  BY <1>3, <1>4, <1>5

\* However stops and starts overlap, a monitor that runs on is its pod's entry, but
\* for pods whose monitor two calls were stopping.
THEOREM MonitorsSafe == MonitoringSpec => []RunningMonitorsAreKnown
<1>1. MonitoringSpec => [](MonitorInv /\ CheckInv)
  BY MonitoringInitial, MonitoringStep, PTL DEF MonitoringSpec
<1>2. MonitorInv /\ CheckInv => RunningMonitorsAreKnown
  BY DEF MonitorInv
<1> QED
  BY <1>1, <1>2, PTL

\* Whatever the checks answer and however titles collide, a run that ends healthy
\* had healthy checks only, and what was raised has an alert until that is resolved.
THEOREM ChecksSafe == MonitoringSpec => []TroubleIsTold
<1>1. MonitoringSpec => [](MonitorInv /\ CheckInv)
  BY MonitoringInitial, MonitoringStep, PTL DEF MonitoringSpec
<1>2. MonitorInv /\ CheckInv => TroubleIsTold
  BY DEF CheckInv, FoundTrouble, RaisedHaveAlerts, TroubleIsTold
<1> QED
  BY <1>1, <1>2, PTL

-----------------------------------------------------------------------------
(***************************************************************************)
(* Images.                                                                 *)
(***************************************************************************)
\* What the holder of the lock is suspended in.
ImageTasks ==
  {Free} \cup [at : {"scan"}, name : ImageNames, id : ImageIds]
         \cup [at : {"write"}, name : ImageNames, tag : Tags]
         \cup [at : {"read"}, name : ImageNames, force : BOOLEAN]

ImageTypeOK ==
  /\ tags \in [Tags -> ImageIds \cup {None}]
  /\ remote \in [ImageNames -> ImageIds \cup {None}]
  /\ records \in [ImageNames -> ImageIds \cup {None}]
  /\ cacheFile \in [ImageNames -> Tags \cup {None, CutShort}]
  /\ task \in ImageTasks

\* The file that is being read is there: only the holder of the lock changes it.
ReadFileIsThere == task.at = "read" => cacheFile[task.name] # None

ImageInv == ImageTypeOK /\ ReadFileIsThere /\ PullsDeliver

----------------------------------------------------------------------------
\* The names' tags are tags docker can have.
LEMMA RegistryTags == \A n \in ImageNames : Registry(n) \in Tags /\ Local(n) \in Tags
BY DEF Tags

\* What a call can be suspended in.
LEMMA ImageTaskTypes ==
  /\ Free \in ImageTasks /\ Free.at = "free"
  /\ \A n \in ImageNames, id \in ImageIds :
       LET k == [at |-> "scan", name |-> n, id |-> id] IN k \in ImageTasks /\ k.at = "scan"
  /\ \A n \in ImageNames, t \in Tags :
       LET k == [at |-> "write", name |-> n, tag |-> t] IN k \in ImageTasks /\ k.at = "write"
  /\ \A n \in ImageNames, force \in BOOLEAN :
       LET k == [at |-> "read", name |-> n, force |-> force]
       IN k \in ImageTasks /\ k.at = "read" /\ k.name = n
BY DEF ImageTasks, Free

\* What the suspended call has.
LEMMA ImageTaskFields ==
  ASSUME task \in ImageTasks
  PROVE  /\ task.at = "scan" => task.name \in ImageNames /\ task.id \in ImageIds
         /\ task.at = "write" => task.name \in ImageNames /\ task.tag \in Tags
         /\ task.at = "read" => task.name \in ImageNames
BY DEF ImageTasks, Free

\* Writing the cache file starts with one of docker's tags.
LEMMA CacheImageTask ==
  ASSUME NEW n \in ImageNames, NEW docker, CacheImage(n, docker)
  PROVE  task' \in ImageTasks /\ task'.at # "read"
<1>1. task' = Free \/ \E t \in Tags : task' = [at |-> "write", name |-> n, tag |-> t]
  BY DEF CacheImage, Aliases
<1> QED
  BY <1>1, ImageTaskTypes

\* No image is there at first.
LEMMA ImagesInitial == ImageInit => ImageInv
<1> SUFFICES ASSUME ImageInit PROVE ImageInv
  OBVIOUS
<1>1. task \in ImageTasks /\ task.at = "free"
  BY ImageTaskTypes DEF ImageInit
<1> QED
  BY <1>1 DEF ImageInit, ImageInv, ImageTypeOK, ReadFileIsThere, PullsDeliver

\* A pull goes through Fetch: it answers with the name when docker has an image
\* under it, or the file says so.
LEMMA FetchDelivers ==
  ASSUME ImageTypeOK, NEW n \in ImageNames, NEW hit \in BOOLEAN, NEW force, Fetch(n, hit, force)
  PROVE  /\ tags' \in [Tags -> ImageIds \cup {None}]
         /\ records' \in [ImageNames -> ImageIds \cup {None}]
         /\ task' \in ImageTasks /\ task'.at # "read"
         /\ \/ answer' = None
            \/ answer' = n /\ (tags'[Registry(n)] # None \/ (hit /\ tags' = tags))
<1>1. Registry(n) \in Tags /\ Free \in ImageTasks /\ Free.at # "read"
  BY RegistryTags, ImageTaskTypes
<1>2. CASE ~ force /\ (hit \/ tags[Registry(n)] # None)
  <2>1. task' = Free /\ answer' = n /\ tags' = tags /\ records' = records
    BY <1>2 DEF Fetch
  <2> QED
    BY <1>1, <1>2, <2>1 DEF ImageTypeOK
<1>3. CASE ~ (~ force /\ (hit \/ tags[Registry(n)] # None))
  <2> DEFINE pulled == [tags EXCEPT ![Registry(n)] = remote[n]]
  <2>1. \/ task' = Free /\ answer' = None /\ tags' = tags /\ records' = records
        \/ /\ remote[n] # None /\ tags' = pulled
           /\ \/ task' = Free /\ answer' = None /\ records' = records
              \/ /\ records' = [records EXCEPT ![n] = remote[n]]
                 /\ answer' = n
                 /\ CacheImage(n, pulled)
    BY <1>3 DEF Fetch
  <2>2. remote[n] # None => pulled \in [Tags -> ImageIds \cup {None}] /\ pulled[Registry(n)] # None
    BY <1>1 DEF ImageTypeOK
  <2> HIDE DEF pulled
  <2>3. CASE task' = Free /\ answer' = None /\ tags' = tags /\ records' = records
    BY <1>1, <2>3 DEF ImageTypeOK
  <2>4. CASE /\ remote[n] # None /\ tags' = pulled
             /\ task' = Free /\ answer' = None /\ records' = records
    BY <1>1, <2>2, <2>4 DEF ImageTypeOK
  <2>5. CASE /\ remote[n] # None /\ tags' = pulled
             /\ records' = [records EXCEPT ![n] = remote[n]]
             /\ answer' = n
             /\ CacheImage(n, pulled)
    <3>1. task' \in ImageTasks /\ task'.at # "read"
      BY <2>5, CacheImageTask
    <3>2. records' \in [ImageNames -> ImageIds \cup {None}]
      BY <2>5 DEF ImageTypeOK
    <3> QED
      BY <2>2, <2>5, <3>1, <3>2
  <2> QED
    BY <2>1, <2>3, <2>4, <2>5
<1> QED
  BY <1>2, <1>3

\* The other operations answer nothing, and none of them starts to read a file or
\* changes one while it is read.
LEMMA PushKeeps ==
  ASSUME ImageInv, NEW n \in ImageNames, Push(n)
  PROVE  ImageInv'
<1> DEFINE id == tags[Local(n)]
<1>1. /\ id # None /\ tags' = [tags EXCEPT ![Registry(n)] = id] /\ answer' = None
      /\ records' = records /\ cacheFile' = cacheFile
      /\ \/ remote' = remote /\ task' = task
         \/ /\ remote' = [remote EXCEPT ![n] = id]
            /\ task' = Free \/ task' = [at |-> "scan", name |-> n, id |-> id]
      /\ task = Free
  BY DEF Push
<1>2. id \in ImageIds
  BY <1>1, RegistryTags DEF ImageInv, ImageTypeOK
<1> HIDE DEF id
<1>3. task' \in ImageTasks /\ task'.at # "read"
  BY <1>1, <1>2, ImageTaskTypes
<1>4. tags' \in [Tags -> ImageIds \cup {None}] /\ remote' \in [ImageNames -> ImageIds \cup {None}]
  BY <1>1, <1>2 DEF ImageInv, ImageTypeOK
<1> QED
  BY <1>1, <1>3, <1>4 DEF ImageInv, ImageTypeOK, ReadFileIsThere, PullsDeliver

\* Deleting an image, between calls, keeps the invariant.
LEMMA DeleteKeeps ==
  ASSUME ImageInv, NEW n \in ImageNames, Delete(n)
  PROVE  ImageInv'
<1>1. /\ task = Free /\ task' = task /\ answer' = None /\ remote' = remote
      /\ tags' = [t \in Tags |-> IF tags[t] = tags[Registry(n)] THEN None ELSE tags[t]]
      /\ records' = [records EXCEPT ![n] = None] /\ cacheFile' = [cacheFile EXCEPT ![n] = None]
  BY DEF Delete
<1>2. task'.at # "read"
  BY <1>1, ImageTaskTypes
<1>3. tags' \in [Tags -> ImageIds \cup {None}]
  BY <1>1 DEF ImageInv, ImageTypeOK
<1>4. records' \in [ImageNames -> ImageIds \cup {None}] /\ cacheFile' \in [ImageNames -> Tags \cup {None, CutShort}]
  BY <1>1 DEF ImageInv, ImageTypeOK
<1> QED
  BY <1>1, <1>2, <1>3, <1>4 DEF ImageInv, ImageTypeOK, ReadFileIsThere, PullsDeliver

\* A pull that finds no file looks at docker alone.
LEMMA PullKeeps ==
  ASSUME ImageInv, NEW n \in ImageNames, NEW force \in BOOLEAN, Pull(n, force)
  PROVE  ImageInv'
<1>1. remote' = remote /\ cacheFile' = cacheFile
  BY DEF Pull
<1>2. CASE cacheFile[n] = None
  <2>1. Fetch(n, FALSE, force)
    BY <1>2 DEF Pull
  <2>2. /\ tags' \in [Tags -> ImageIds \cup {None}]
        /\ records' \in [ImageNames -> ImageIds \cup {None}]
        /\ task' \in ImageTasks /\ task'.at # "read"
        /\ answer' = None \/ (answer' = n /\ tags'[Registry(n)] # None)
    BY <2>1, FetchDelivers DEF ImageInv
  <2> QED
    BY <1>1, <2>2 DEF ImageInv, ImageTypeOK, ReadFileIsThere, PullsDeliver
<1>3. CASE cacheFile[n] # None
  <2>1. /\ task' = [at |-> "read", name |-> n, force |-> force]
        /\ answer' = None /\ tags' = tags /\ records' = records
    BY <1>3 DEF Pull
  <2>2. task' \in ImageTasks /\ task'.name = n
    BY <2>1, ImageTaskTypes
  <2> QED
    BY <1>1, <1>3, <2>1, <2>2 DEF ImageInv, ImageTypeOK, ReadFileIsThere, PullsDeliver
<1> QED
  BY <1>2, <1>3

\* A file that counts names a tag docker has; when it names the image by its own
\* tag, that is the one.
LEMMA CacheReadKeeps ==
  ASSUME ImageInv, CacheRead
  PROVE  ImageInv'
<1> DEFINE n == task.name
<1>1. PICK hit \in BOOLEAN :
        /\ Fetch(n, hit, task.force)
        /\ hit => /\ cacheFile' = cacheFile /\ cacheFile[n] # CutShort
                  /\ tags[cacheFile[n]] # None
  BY DEF CacheRead
<1>2. /\ task.at = "read" /\ remote' = remote
      /\ cacheFile' = cacheFile \/ cacheFile' = [cacheFile EXCEPT ![n] = None]
  BY DEF CacheRead
<1>3. n \in ImageNames /\ cacheFile[n] # None /\ cacheFile[n] \in Tags \cup {CutShort}
  BY <1>2, ImageTaskFields DEF ImageInv, ImageTypeOK, ReadFileIsThere
<1>4. /\ tags' \in [Tags -> ImageIds \cup {None}]
      /\ records' \in [ImageNames -> ImageIds \cup {None}]
      /\ task' \in ImageTasks /\ task'.at # "read"
      /\ \/ answer' = None
         \/ answer' = n /\ (tags'[Registry(n)] # None \/ (hit /\ tags' = tags))
  BY <1>1, <1>3, FetchDelivers DEF ImageInv
<1>5. cacheFile' \in [ImageNames -> Tags \cup {None, CutShort}]
  BY <1>2, <1>3 DEF ImageInv, ImageTypeOK
<1>6. PullsDeliver'
  <2>1. CASE answer' = None \/ tags'[Registry(n)] # None
    BY <1>4, <2>1 DEF PullsDeliver
  <2>2. CASE answer' = n /\ hit /\ tags' = tags
    <3>1. cacheFile'[n] = cacheFile[n] /\ cacheFile[n] \in Tags
      BY <1>1, <1>3, <2>2
    <3>2. cacheFile[n] = Registry(n) => tags'[Registry(n)] # None
      BY <1>1, <2>2
    <3> QED
      BY <2>2, <3>1, <3>2 DEF PullsDeliver
  <2> QED
    BY <1>4, <2>1, <2>2
<1> QED
  BY <1>2, <1>4, <1>5, <1>6 DEF ImageInv, ImageTypeOK, ReadFileIsThere

\* Every step of the registry keeps the invariant.
LEMMA ImageStep ==
  ASSUME ImageInv, [ImageNext]_imageVars
  PROVE  ImageInv'
<1>1. CASE \E n \in ImageNames : Push(n)
  BY <1>1, PushKeeps
<1>2. CASE \E n \in ImageNames : DeleteImage(n)
  BY <1>2, DeleteKeeps DEF DeleteImage
<1>3. ASSUME NEW n \in ImageNames, CleanupNext(n)
      PROVE  ImageInv'
  <2>1. CASE Delete(n)
    BY <2>1, DeleteKeeps
  <2>2. CASE answer' = None /\ UNCHANGED <<tags, remote, records, cacheFile, task, changes>>
    BY <2>2 DEF ImageInv, ImageTypeOK, ReadFileIsThere, PullsDeliver
  <2> QED
    BY <1>3, <2>1, <2>2 DEF CleanupNext
<1>4. CASE \E n \in ImageNames, force \in BOOLEAN : Pull(n, force)
  BY <1>4, PullKeeps
<1>5. CASE ScanReturns
  <2>1. /\ task.at = "scan" /\ records' = [records EXCEPT ![task.name] = task.id]
        /\ CacheImage(task.name, tags) /\ answer' = None
        /\ tags' = tags /\ remote' = remote /\ cacheFile' = cacheFile
    BY <1>5 DEF ScanReturns
  <2>2. task.name \in ImageNames /\ task.id \in ImageIds
    BY <2>1, ImageTaskFields DEF ImageInv, ImageTypeOK
  <2>3. task' \in ImageTasks /\ task'.at # "read"
    BY <2>1, <2>2, CacheImageTask
  <2> QED
    BY <2>1, <2>2, <2>3 DEF ImageInv, ImageTypeOK, ReadFileIsThere, PullsDeliver
<1>6. CASE CacheWritten
  <2>1. /\ task.at = "write"
        /\ task' = Free /\ answer' = None
        /\ tags' = tags /\ remote' = remote /\ records' = records
    BY <1>6 DEF CacheWritten
  <2>2. PICK content \in {task.tag, cacheFile[task.name], CutShort} :
          cacheFile' = [cacheFile EXCEPT ![task.name] = content]
    BY <1>6 DEF CacheWritten
  <2>3. task.name \in ImageNames /\ task.tag \in Tags
    BY <2>1, ImageTaskFields DEF ImageInv, ImageTypeOK
  <2>4. content \in Tags \cup {None, CutShort}
    BY <2>2, <2>3 DEF ImageInv, ImageTypeOK
  <2>5. task' \in ImageTasks /\ task'.at # "read"
    BY <2>1, ImageTaskTypes
  <2> QED
    BY <2>1, <2>2, <2>3, <2>4, <2>5 DEF ImageInv, ImageTypeOK, ReadFileIsThere, PullsDeliver
<1>7. CASE CacheRead
  BY <1>7, CacheReadKeeps
<1>8. CASE \E old \in SUBSET ImageNames : StartCleanup(old)
  BY <1>8 DEF StartCleanup, ImageInv, ImageTypeOK, ReadFileIsThere, PullsDeliver
<1>9. CASE \E t \in Tags, id \in ImageIds \cup {None} : DockerChanges(t, id)
  BY <1>9 DEF DockerChanges, ImageInv, ImageTypeOK, ReadFileIsThere, PullsDeliver
<1>10. CASE \E n \in ImageNames, id \in ImageIds : RegistryChanges(n, id)
  BY <1>10 DEF RegistryChanges, ImageInv, ImageTypeOK, ReadFileIsThere, PullsDeliver
<1>11. CASE UNCHANGED imageVars
  BY <1>11 DEF imageVars, ImageInv, ImageTypeOK, ReadFileIsThere, PullsDeliver
<1> QED
  BY <1>1, <1>2, <1>3, <1>4, <1>5, <1>6, <1>7, <1>8, <1>9, <1>10, <1>11 DEF ImageNext

\* Whatever others do to docker and the registry between the steps of calls that
\* overlap, a pull succeeds with an image under its name, but for files that name
\* the image by another tag.
THEOREM PullsSafe == ImageSpec => []PullsDeliver
<1>1. ImageSpec => []ImageInv
  BY ImagesInitial, ImageStep, PTL DEF ImageSpec
<1>2. ImageInv => PullsDeliver
  BY DEF ImageInv
<1> QED
  BY <1>1, <1>2, PTL

=============================================================================
