-------------------------- MODULE SchedulerProofs ---------------------------
(***************************************************************************)
(* The ledgers of the scheduler are right for every set of nodes and pods, *)
(* with nodes coming and going and any number of preempting calls in       *)
(* flight; the scheduler implements Allocation; and where nodes stay       *)
(* registered, scheduled_pods and the ledgers record the same placements.  *)
(*                                                                         *)
(* The invariant that is inductive adds to the ledger the fact it depends  *)
(* on: a request whose call has not returned holds nothing anywhere, so    *)
(* that reserving for it adds a new holder to the total (Unplaced). What   *)
(* PlacementsAgree needs besides is in PlacementInv.                       *)
(***************************************************************************)
EXTENDS Scheduler, FiniteSetTheorems, WellFoundedInduction, TLAPS

-----------------------------------------------------------------------------
(***************************************************************************)
(* Sums: facts about SumOver. The induction theorems of the library take a *)
(* predicate as a parameter, which the provers cannot instantiate; the     *)
(* inductions below are therefore written as "a minimal counterexample     *)
(* does not exist", with WFMin and the strict subset ordering.             *)
(***************************************************************************)
(***************************************************************************)
(* T totals D over the subsets of U: the defining equations of a sum.      *)
(***************************************************************************)
IsTotal(T, D, U) ==
  /\ T \in [SUBSET U -> Int]
  /\ T[{}] = 0
  /\ \A S \in SUBSET U : \A x \in U \ S : T[S \cup {x}] = D[x] + T[S]

(***************************************************************************)
(* Every non-empty family of subsets of a finite set has a minimal member. *)
(***************************************************************************)
LEMMA MinimalSubset ==
  ASSUME NEW U, IsFiniteSet(U), NEW F \in SUBSET (SUBSET U), F # {}
  PROVE  \E S \in F : \A x \in S : S \ {x} \notin F
<1>1. IsWellFoundedOn(StrictSubsetOrdering(U), SUBSET U)
  BY FS_StrictSubsetOrderingWellFounded, FS_FiniteSubsetsOfFinite
<1>2. PICK S \in F : \A R \in F : <<R, S>> \notin StrictSubsetOrdering(U)
  BY <1>1, WFMin
<1>3. ASSUME NEW x \in S, S \ {x} \in F PROVE FALSE
  <2>1. <<S \ {x}, S>> \in (SUBSET U) \X (SUBSET U)
    OBVIOUS
  <2>2. S \ {x} \subseteq S /\ S \ {x} # S
    OBVIOUS
  <2>3. <<S \ {x}, S>> \in StrictSubsetOrdering(U)
    BY <2>1, <2>2 DEF StrictSubsetOrdering
  <2> QED BY <1>2, <1>3, <2>3
<1> QED BY <1>3

(***************************************************************************)
(* Integers can be totalled over the subsets of a finite set.              *)
(***************************************************************************)
LEMMA TotalExists ==
  ASSUME NEW U, IsFiniteSet(U), NEW D \in [U -> Int]
  PROVE  \E T : IsTotal(T, D, U)
<1> DEFINE Bad == {V \in SUBSET U : ~ \E T : IsTotal(T, D, V)}
<1>1. SUFFICES ASSUME Bad # {} PROVE FALSE
  BY U \in SUBSET U
<1>2. PICK V \in Bad : \A x \in V : V \ {x} \notin Bad
  <2>1. Bad \in SUBSET (SUBSET U)
    OBVIOUS
  <2> HIDE DEF Bad
  <2> QED BY <1>1, <2>1, MinimalSubset
<1>3. CASE V = {}
  <2> DEFINE T == [S \in SUBSET {} |-> 0]
  <2>1. IsTotal(T, D, V)
    BY <1>3 DEF IsTotal
  <2> QED BY <1>2, <2>1
<1>4. CASE V # {}
  <2>1. PICK v \in V : TRUE
    BY <1>4
  <2>2. V \ {v} \in SUBSET U /\ V \in SUBSET U
    BY <1>2
  <2>3. PICK T0 : IsTotal(T0, D, V \ {v})
    BY <1>2, <2>1, <2>2
  <2> DEFINE T == [S \in SUBSET V |-> T0[S \ {v}] + IF v \in S THEN D[v] ELSE 0]
  <2>4. D[v] \in Int
    BY <2>1, <2>2
  <2>5. \A S \in SUBSET V : S \ {v} \in SUBSET (V \ {v})
    OBVIOUS
  <2>6. \A S \in SUBSET (V \ {v}) : T0[S] \in Int
    BY <2>3 DEF IsTotal
  <2>7. T \in [SUBSET V -> Int]
    BY <2>4, <2>5, <2>6
  <2>8. T[{}] = 0
    <3>1. {} \ {v} = {} /\ {} \in SUBSET V
      OBVIOUS
    <3> QED BY <2>3, <3>1 DEF IsTotal
  <2>9. ASSUME NEW S \in SUBSET V, NEW x \in V \ S
        PROVE  T[S \cup {x}] = D[x] + T[S]
    <3>1. S \cup {x} \in SUBSET V /\ D[x] \in Int
      BY <2>2
    <3>2. CASE x = v
      <4>1. (S \cup {x}) \ {v} = S \ {v} /\ v \notin S /\ v \in S \cup {x}
        BY <3>2
      <4>2. T[S \cup {x}] = T0[S \ {v}] + D[v]
        BY <3>1, <4>1
      <4>3. T[S] = T0[S \ {v}] + 0
        BY <4>1
      <4> QED BY <2>4, <2>5, <2>6, <3>2, <4>2, <4>3
    <3>3. CASE x # v
      <4>1. (S \cup {x}) \ {v} = (S \ {v}) \cup {x}
        BY <3>3
      <4>2. S \ {v} \in SUBSET (V \ {v}) /\ x \in (V \ {v}) \ (S \ {v})
        BY <3>3
      <4>3. T0[(S \ {v}) \cup {x}] = D[x] + T0[S \ {v}]
        BY <2>3, <4>2 DEF IsTotal
      <4>4. v \in S \cup {x} <=> v \in S
        BY <3>3
      <4>5. T0[S \ {v}] \in Int
        BY <4>2, <2>6
      <4>6. T[S \cup {x}] = D[x] + T0[S \ {v}] + IF v \in S THEN D[v] ELSE 0
        BY <3>1, <4>1, <4>3, <4>4
      <4>7. T[S] = T0[S \ {v}] + IF v \in S THEN D[v] ELSE 0
        OBVIOUS
      <4> HIDE DEF T
      <4> QED BY <2>4, <3>1, <4>5, <4>6, <4>7
    <3> QED BY <3>2, <3>3
  <2>10. IsTotal(T, D, V)
    <3> HIDE DEF T
    <3> QED BY <2>7, <2>8, <2>9 DEF IsTotal
  <2> QED BY <1>2, <2>10
<1> QED BY <1>3, <1>4

(***************************************************************************)
(* The recursive function of ResourceSums is the total: a total satisfies  *)
(* its equation, so the function exists, and it agrees with the total.     *)
(***************************************************************************)
LEMMA SumIsTotal ==
  ASSUME NEW U, IsFiniteSet(U), NEW D \in [U -> Int]
  PROVE  IsTotal(SumFcn(D), D, U)
<1>1. PICK T : IsTotal(T, D, U)
  BY TotalExists
<1> DEFINE Body(h, S) == IF S = {} THEN 0
                         ELSE LET x == CHOOSE x \in S : TRUE
                              IN  D[x] + h[S \ {x}]
           g == SumFcn(D)
<1>2. DOMAIN D = U
  OBVIOUS
<1>3. T = [S \in SUBSET U |-> Body(T, S)]
  <2>1. ASSUME NEW S \in SUBSET U PROVE T[S] = Body(T, S)
    <3>1. CASE S = {}
      BY <1>1, <3>1 DEF IsTotal
    <3>2. CASE S # {}
      <4> DEFINE y == CHOOSE x \in S : TRUE
      <4>1. y \in S
        BY <3>2
      <4> HIDE DEF y
      <4>2. S \ {y} \in SUBSET U /\ y \in U \ (S \ {y}) /\ (S \ {y}) \cup {y} = S
        BY <4>1
      <4>3. T[S] = D[y] + T[S \ {y}]
        BY <1>1, <4>2 DEF IsTotal
      <4> QED BY <3>2, <4>3 DEF y
    <3> QED BY <3>1, <3>2
  <2>2. T = [S \in SUBSET U |-> T[S]]
    BY <1>1 DEF IsTotal
  <2> HIDE DEF Body
  <2> QED BY <2>1, <2>2
<1>4. g = [S \in SUBSET U |-> Body(g, S)]
  <2> DEFINE F(s) == [S \in SUBSET (DOMAIN D) |-> Body(s, S)]
  <2>1. g = CHOOSE s : s = F(s)
    BY Zenon DEF SumFcn
  <2>2. T = F(T)
    <3> HIDE DEF Body
    <3> QED BY <1>2, <1>3
  <2> HIDE DEF g, F
  <2>3. g = F(g)
    BY <2>1, <2>2
  <2> HIDE DEF Body
  <2> QED BY <1>2, <2>3 DEF F
<1> HIDE DEF g
<1>5. ASSUME NEW S \in SUBSET U PROVE g[S] = T[S]
  <2> DEFINE Bad == {R \in SUBSET U : g[R] # T[R]}
  <2>1. SUFFICES ASSUME Bad # {} PROVE FALSE
    OBVIOUS
  <2>2. PICK R \in Bad : \A x \in R : R \ {x} \notin Bad
    <3>1. Bad \in SUBSET (SUBSET U)
      OBVIOUS
    <3> HIDE DEF Bad
    <3> QED BY <2>1, <3>1, MinimalSubset
  <2>3. R # {}
    <3>1. Body(g, {}) = 0 /\ Body(T, {}) = 0
      OBVIOUS
    <3> HIDE DEF Body
    <3> QED BY <1>3, <1>4, <2>2, <3>1
  <2> DEFINE y == CHOOSE x \in R : TRUE
  <2>4. y \in R
    BY <2>3
  <2>5. g[R] = D[y] + g[R \ {y}] /\ T[R] = D[y] + T[R \ {y}]
    <3>1. g[R] = Body(g, R) /\ T[R] = Body(T, R)
      <4> HIDE DEF Body
      <4> QED BY <1>3, <1>4
    <3> QED BY <2>3, <3>1
  <2> HIDE DEF y
  <2>6. g[R \ {y}] = T[R \ {y}]
    BY <2>2, <2>4
  <2> QED BY <2>2, <2>5, <2>6
<1>6. g = T
  <2>1. g = [S \in SUBSET U |-> g[S]]
    <3> HIDE DEF Body
    <3> QED BY <1>4
  <2>2. T = [S \in SUBSET U |-> T[S]]
    BY <1>1 DEF IsTotal
  <2> QED BY <1>5, <2>1, <2>2
<1> QED BY <1>1, <1>6 DEF g

(***************************************************************************)
(* What the ledgers use: the empty total, the effect of one holder more    *)
(* or one holder less, and that totals of naturals are naturals.           *)
(***************************************************************************)
THEOREM SumEmpty ==
  ASSUME NEW U, IsFiniteSet(U), NEW D \in [U -> Int]
  PROVE  SumOver(D, {}) = 0
<1>1. IsTotal(SumFcn(D), D, U)
  BY SumIsTotal
<1> QED BY <1>1 DEF IsTotal, SumOver

\* The total demand of a finite set of pods is a number.
THEOREM SumType ==
  ASSUME NEW U, IsFiniteSet(U), NEW D \in [U -> Int], NEW S \in SUBSET U
  PROVE  SumOver(D, S) \in Int
<1>1. IsTotal(SumFcn(D), D, U)
  BY SumIsTotal
<1> QED BY <1>1 DEF IsTotal, SumOver

\* Reserving for one more pod adds its demand to the total.
THEOREM SumAdd ==
  ASSUME NEW U, IsFiniteSet(U), NEW D \in [U -> Int],
         NEW S \in SUBSET U, NEW x \in U, x \notin S
  PROVE  SumOver(D, S \cup {x}) = D[x] + SumOver(D, S)
<1>1. IsTotal(SumFcn(D), D, U)
  BY SumIsTotal
<1> QED BY <1>1 DEF IsTotal, SumOver

\* Releasing a pod subtracts its demand from the total.
THEOREM SumRemove ==
  ASSUME NEW U, IsFiniteSet(U), NEW D \in [U -> Int],
         NEW S \in SUBSET U, NEW x \in S
  PROVE  SumOver(D, S \ {x}) = SumOver(D, S) - D[x]
<1>1. S \ {x} \in SUBSET U /\ x \in U \ (S \ {x}) /\ (S \ {x}) \cup {x} = S
  OBVIOUS
<1>2. SumOver(D, S) = D[x] + SumOver(D, S \ {x})
  BY <1>1, SumAdd
<1>3. SumOver(D, S \ {x}) \in Int /\ D[x] \in Int
  BY <1>1, SumType
<1> QED BY <1>2, <1>3

\* A total of demands that are not negative is not negative.
THEOREM SumNat ==
  ASSUME NEW U, IsFiniteSet(U), NEW D \in [U -> Nat], NEW S \in SUBSET U
  PROVE  SumOver(D, S) \in Nat
<1>0. D \in [U -> Int]
  OBVIOUS
<1> DEFINE Bad == {R \in SUBSET U : SumOver(D, R) \notin Nat}
<1>1. SUFFICES ASSUME Bad # {} PROVE FALSE
  OBVIOUS
<1>2. PICK R \in Bad : \A x \in R : R \ {x} \notin Bad
  <2>1. Bad \in SUBSET (SUBSET U)
    OBVIOUS
  <2> HIDE DEF Bad
  <2> QED BY <1>1, <2>1, MinimalSubset
<1>3. R # {}
  BY <1>0, <1>2, SumEmpty
<1>4. PICK x \in R : TRUE
  BY <1>3
<1>5. SumOver(D, R \ {x}) \in Nat
  BY <1>2
<1>6. SumOver(D, R \ {x}) = SumOver(D, R) - D[x]
  BY <1>0, SumRemove
<1>7. SumOver(D, R) \in Int /\ D[x] \in Nat
  BY <1>0, SumType
<1> QED BY <1>2, <1>5, <1>6, <1>7

-----------------------------------------------------------------------------
(***************************************************************************)
(* The scheduler.                                                          *)
(***************************************************************************)
USE ConstantsOK

\* The typing of the nodes, for a value ns that is not yet the next state.
GoodNodes(ns) ==
  /\ DOMAIN ns = NodeObjs
  /\ \A o \in NodeObjs : ns[o] \in NodeState(o)

BalancedNodes(ns) ==
  \A o \in NodeObjs : \A q \in Quantities :
     /\ ns[o].available[q] + SumOver(Demand[q], ns[o].assigned) = Capacity[o][q]
     /\ ns[o].available[q] >= 0

Unplaced ==
  \A p \in Pods : call[p].pc # "returned" =>
     /\ status[p] = "pending"
     /\ \A o \in NodeObjs : p \notin node[o].assigned

IInv == TypeOK /\ LedgerBalanced /\ Unplaced

---------------------------------------------------------------------------
(***************************************************************************)
(* Reserving and releasing on one instance.                                *)
(***************************************************************************)
LEMMA ReserveKeepsNodes ==
  ASSUME NEW ns, GoodNodes(ns), NEW o \in NodeObjs, NEW p \in Pods,
         NEW G \in GpuChoices(ns[o], p)
  PROVE  GoodNodes([ns EXCEPT ![o] = Reserved(@, p, G)])
<1> DEFINE m == Reserved(ns[o], p, G)
<1>1. ns[o] \in NodeState(o)
  BY DEF GoodNodes
<1>2. /\ ns[o].available \in [Quantities -> Int]
      /\ ns[o].owner \in [Devices[o] -> Pods \cup {None}]
      /\ ns[o].assigned \in SUBSET Pods
  BY <1>1 DEF NodeState
<1>3. [q \in Quantities |-> ns[o].available[q] - Demand[q][p]] \in [Quantities -> Int]
  BY <1>2 DEF ConstantsOK
<1>4. [d \in DOMAIN ns[o].owner |-> IF d \in G THEN p ELSE ns[o].owner[d]]
         \in [Devices[o] -> Pods \cup {None}]
  BY <1>2
<1>5. m \in NodeState(o)
  BY <1>1, <1>2, <1>3, <1>4 DEF NodeState, Reserved
<1> HIDE DEF m
<1>6. GoodNodes([ns EXCEPT ![o] = m])
  BY <1>5 DEF GoodNodes
<1> QED BY <1>6 DEF m

\* reserve, where the request fits, keeps the ledgers balanced.
LEMMA ReserveBalances ==
  ASSUME NEW ns, GoodNodes(ns), BalancedNodes(ns),
         NEW o \in NodeObjs, NEW p \in Pods, NEW G,
         Fits(ns[o], p), p \notin ns[o].assigned
  PROVE  BalancedNodes([ns EXCEPT ![o] = Reserved(@, p, G)])
<1> DEFINE m == Reserved(ns[o], p, G)
<1>1. ns[o] \in NodeState(o)
  BY DEF GoodNodes
<1>2. ns[o].assigned \in SUBSET Pods /\ ns[o].available \in [Quantities -> Int]
  BY <1>1 DEF NodeState
<1>3. /\ m.available = [q \in Quantities |-> ns[o].available[q] - Demand[q][p]]
      /\ m.assigned = ns[o].assigned \cup {p}
  BY <1>1 DEF NodeState, Reserved
<1>4. ASSUME NEW q \in Quantities
      PROVE  /\ m.available[q] + SumOver(Demand[q], m.assigned) = Capacity[o][q]
             /\ m.available[q] >= 0
  <2>1. Demand[q] \in [Pods -> Int] /\ IsFiniteSet(Pods) /\ Demand[q][p] \in Nat
    BY DEF ConstantsOK
  <2>2. SumOver(Demand[q], m.assigned) = Demand[q][p] + SumOver(Demand[q], ns[o].assigned)
    <3>1. p \in Pods \ ns[o].assigned /\ ns[o].assigned \in SUBSET Pods
      BY <1>2
    <3>2. SumOver(Demand[q], ns[o].assigned \cup {p})
            = Demand[q][p] + SumOver(Demand[q], ns[o].assigned)
      <4> DEFINE D == Demand[q]
                 S == ns[o].assigned
      <4>1. D \in [Pods -> Int] /\ IsFiniteSet(Pods) /\ S \in SUBSET Pods /\ p \notin S
        BY <2>1, <3>1
      <4> HIDE DEF D, S, m
      <4>2. SumOver(D, S \cup {p}) = D[p] + SumOver(D, S)
        BY ONLY <4>1, p \in Pods, SumAdd
      <4> QED BY <4>2 DEF D, S
    <3> HIDE DEF m
    <3> QED BY <1>3, <3>2
  <2>3. SumOver(Demand[q], ns[o].assigned) \in Int
    BY <1>2, <2>1, SumType
  <2>4. ns[o].available[q] >= Demand[q][p]
    BY DEF Fits
  <2>5. ns[o].available[q] + SumOver(Demand[q], ns[o].assigned) = Capacity[o][q]
    BY DEF BalancedNodes
  <2>6. m.available[q] = ns[o].available[q] - Demand[q][p] /\ ns[o].available[q] \in Int
    BY <1>2, <1>3
  <2> QED BY <2>1, <2>2, <2>3, <2>4, <2>5, <2>6
<1> HIDE DEF m
<1>5. BalancedNodes([ns EXCEPT ![o] = m])
  BY <1>4 DEF BalancedNodes, GoodNodes
<1> QED BY <1>5 DEF m

\* release leaves nodes that are nodes.
LEMMA ReleaseKeepsNodes ==
  ASSUME NEW ns, GoodNodes(ns), NEW o \in NodeObjs, NEW v \in Pods
  PROVE  GoodNodes([ns EXCEPT ![o] = Released(@, v)])
<1> DEFINE m == Released(ns[o], v)
<1>1. ns[o] \in NodeState(o)
  BY DEF GoodNodes
<1>2. /\ ns[o].available \in [Quantities -> Int]
      /\ ns[o].owner \in [Devices[o] -> Pods \cup {None}]
      /\ ns[o].assigned \in SUBSET Pods
  BY <1>1 DEF NodeState
<1>3. [q \in Quantities |-> ns[o].available[q] + Demand[q][v]] \in [Quantities -> Int]
  BY <1>2 DEF ConstantsOK
<1>4. [d \in DOMAIN ns[o].owner |-> IF ns[o].owner[d] = v THEN None ELSE ns[o].owner[d]]
         \in [Devices[o] -> Pods \cup {None}]
  BY <1>2
<1>5. m \in NodeState(o)
  BY <1>1, <1>2, <1>3, <1>4 DEF NodeState, Released
<1> HIDE DEF m
<1>6. GoodNodes([ns EXCEPT ![o] = m])
  BY <1>5 DEF GoodNodes
<1> QED BY <1>6 DEF m

\* release of an assigned pod keeps the ledgers balanced.
LEMMA ReleaseBalances ==
  ASSUME NEW ns, GoodNodes(ns), BalancedNodes(ns),
         NEW o \in NodeObjs, NEW v \in Pods, v \in ns[o].assigned
  PROVE  BalancedNodes([ns EXCEPT ![o] = Released(@, v)])
<1> DEFINE m == Released(ns[o], v)
<1>1. ns[o] \in NodeState(o)
  BY DEF GoodNodes
<1>2. ns[o].assigned \in SUBSET Pods /\ ns[o].available \in [Quantities -> Int]
  BY <1>1 DEF NodeState
<1>3. /\ m.available = [q \in Quantities |-> ns[o].available[q] + Demand[q][v]]
      /\ m.assigned = ns[o].assigned \ {v}
  BY <1>1 DEF NodeState, Released
<1>4. ASSUME NEW q \in Quantities
      PROVE  /\ m.available[q] + SumOver(Demand[q], m.assigned) = Capacity[o][q]
             /\ m.available[q] >= 0
  <2>1. Demand[q] \in [Pods -> Int] /\ IsFiniteSet(Pods) /\ Demand[q][v] \in Nat
    BY DEF ConstantsOK
  <2>2. SumOver(Demand[q], m.assigned) = SumOver(Demand[q], ns[o].assigned) - Demand[q][v]
    <3>1. SumOver(Demand[q], ns[o].assigned \ {v})
            = SumOver(Demand[q], ns[o].assigned) - Demand[q][v]
      BY <1>2, <2>1, SumRemove
    <3> HIDE DEF m
    <3> QED BY <1>3, <3>1
  <2>3. SumOver(Demand[q], ns[o].assigned) \in Int
    BY <1>2, <2>1, SumType
  <2>4. /\ ns[o].available[q] + SumOver(Demand[q], ns[o].assigned) = Capacity[o][q]
        /\ ns[o].available[q] >= 0
    BY DEF BalancedNodes
  <2>5. m.available[q] = ns[o].available[q] + Demand[q][v] /\ ns[o].available[q] \in Int
    BY <1>2, <1>3
  <2> QED BY <2>1, <2>2, <2>3, <2>4, <2>5
<1> HIDE DEF m
<1>5. BalancedNodes([ns EXCEPT ![o] = m])
  BY <1>4 DEF BalancedNodes, GoodNodes
<1> QED BY <1>5 DEF m

---------------------------------------------------------------------------
(***************************************************************************)
(* unschedule, and where a preempting call stops next.                     *)
(***************************************************************************)
LEMMA UnscheduleTyped ==
  ASSUME TypeOK, NEW v \in Pods
  PROVE  /\ GoodNodes(NodeAfterUnschedule(v))
         /\ ScheduledAfterUnschedule(v) \in [Pods -> NodeIds \cup {None}]
         /\ \A o \in NodeObjs : NodeAfterUnschedule(v)[o].assigned \subseteq node[o].assigned
<1>1. GoodNodes(node)
  BY DEF TypeOK, GoodNodes
<1>2. Releases(v) => Holder(v) \in NodeObjs
  BY DEF TypeOK, Releases, Holder
<1>3. GoodNodes(NodeAfterUnschedule(v))
  BY <1>1, <1>2, ReleaseKeepsNodes DEF NodeAfterUnschedule
<1>4. ScheduledAfterUnschedule(v) \in [Pods -> NodeIds \cup {None}]
  BY DEF TypeOK, ScheduledAfterUnschedule
<1>5. ASSUME NEW o \in NodeObjs
      PROVE  NodeAfterUnschedule(v)[o].assigned \subseteq node[o].assigned
  <2>1. node[o] \in NodeState(o)
    BY <1>1 DEF GoodNodes
  <2>2. Released(node[o], v).assigned = node[o].assigned \ {v}
    BY <2>1 DEF Released, NodeState
  <2>3. NodeAfterUnschedule(v)[o] \in {node[o], Released(node[o], v)}
    BY <1>1 DEF NodeAfterUnschedule, GoodNodes
  <2> QED BY <2>2, <2>3
<1> QED BY <1>3, <1>4, <1>5

\* unschedule keeps the ledgers balanced, whatever it finds.
LEMMA UnscheduleBalances ==
  ASSUME TypeOK, LedgerBalanced, NEW v \in Pods
  PROVE  BalancedNodes(NodeAfterUnschedule(v))
<1>1. GoodNodes(node) /\ BalancedNodes(node)
  BY DEF TypeOK, GoodNodes, LedgerBalanced, BalancedNodes
<1>2. Releases(v) => Holder(v) \in NodeObjs /\ v \in node[Holder(v)].assigned
  BY DEF TypeOK, Releases, Holder
<1> QED BY <1>1, <1>2, ReleaseBalances DEF NodeAfterUnschedule

\* A preempting call goes on as an awaiting call at a node, or returns.
LEMMA VisitTyped ==
  ASSUME TypeOK, NEW p \in Pods, NEW todo \in SUBSET NodeObjs,
         NEW ns, GoodNodes(ns), VisitNext(p, todo, ns)
  PROVE  \E c \in CallState : /\ call' = [call EXCEPT ![p] = c]
                              /\ c.pc = "evicting" => c.at \in NodeObjs
                              /\ c.pc # "idle"
<1> DEFINE useful == {o \in todo : ns[o].active /\ Candidates(ns[o], p) # {}}
<1>1. CASE call' = [call EXCEPT ![p] = Returned]
  <2>1. Returned \in CallState /\ Returned.pc = "returned"
    BY DEF Returned, Idle, CallState
  <2> QED BY <1>1, <2>1
<1>2. ASSUME NEW o \in useful, NEW passed \in SUBSET (todo \ useful),
             NEW S \in Candidates(ns[o], p),
             call' = [call EXCEPT ![p] =
                        [pc |-> "evicting", at |-> o, victims |-> S,
                         todo |-> todo \ (passed \cup {o})]]
      PROVE  \E c \in CallState : /\ call' = [call EXCEPT ![p] = c]
                                  /\ c.pc = "evicting" => c.at \in NodeObjs
                                  /\ c.pc # "idle"
  <2>1. S \in SUBSET Pods
    <3>1. ns[o].assigned \in SUBSET Pods
      BY DEF GoodNodes, NodeState
    <3> QED BY <3>1 DEF Candidates, Preemptible
  <2> DEFINE c == [pc |-> "evicting", at |-> o, victims |-> S,
                   todo |-> todo \ (passed \cup {o})]
  <2>2. c \in CallState /\ c.pc = "evicting" /\ c.at = o /\ o \in NodeObjs
    BY <2>1 DEF CallState
  <2> HIDE DEF c, useful
  <2> QED BY <1>2, <2>2 DEF c
<1> QED BY <1>1, <1>2 DEF VisitNext

---------------------------------------------------------------------------
(***************************************************************************)
(* Type correctness.                                                       *)
(***************************************************************************)
LEMMA TypeInit == Init => TypeOK
<1> SUFFICES ASSUME Init PROVE TypeOK
  OBVIOUS
<1>1. \A o \in NodeObjs : node[o] \in NodeState(o)
  BY DEF Init, NodeState, ConstantsOK
<1>2. Idle \in CallState /\ Idle.pc = "idle"
  BY DEF Idle, CallState
<1> QED BY <1>1, <1>2 DEF Init, TypeOK

\* Every step keeps the types.
LEMMA TypeStep == TypeOK /\ [Next]_vars => TypeOK'
<1> SUFFICES ASSUME TypeOK, [Next]_vars PROVE TypeOK'
  OBVIOUS
<1>1. GoodNodes(node)
  BY DEF TypeOK, GoodNodes
<1>2. Returned \in CallState /\ Returned.pc = "returned"
  BY DEF Returned, Idle, CallState
<1>3. ASSUME NEW p \in Pods, Reject(p) \/ RejectLowScores(p) PROVE TypeOK'
  <2>1. Fail(p)
    BY <1>3 DEF Reject, RejectLowScores
  <2>2. metrics' \in [scheduled : Nat, failed : Nat, preemptions : Nat]
    BY <2>1 DEF Fail, TypeOK
  <2>3. call' \in [Pods -> CallState] /\ status' \in [Pods -> {"pending", "scheduled", "failed"}]
    BY <1>2, <2>1 DEF Fail, TypeOK
  <2>4. \A r \in Pods : call'[r].pc = "evicting" => call'[r].at \in NodeObjs
    BY <1>2, <2>1 DEF Fail, TypeOK
  <2> QED BY <2>1, <2>2, <2>3, <2>4 DEF Fail, TypeOK
<1>4. ASSUME NEW p \in Pods, Place(p) PROVE TypeOK'
  <2>0. PICK o \in ValidNodes(p) : \E G \in GpuChoices(node[o], p) :
           /\ node' = [node EXCEPT ![o] = Reserved(@, p, G)]
           /\ scheduled_pods' = [scheduled_pods EXCEPT ![p] = IdOf[o]]
           /\ Record(p, o)
    BY <1>4 DEF Place
  <2>1. PICK G \in GpuChoices(node[o], p) :
           /\ node' = [node EXCEPT ![o] = Reserved(@, p, G)]
           /\ scheduled_pods' = [scheduled_pods EXCEPT ![p] = IdOf[o]]
           /\ Record(p, o)
    BY <2>0
  <2>2. o \in NodeObjs /\ IdOf[o] \in NodeIds
    BY DEF ValidNodes, ActiveNodes, ConstantsOK
  <2>3. GoodNodes(node')
    BY <1>1, <2>1, <2>2, ReserveKeepsNodes
  <2> QED BY <1>2, <1>4, <2>1, <2>2, <2>3 DEF TypeOK, GoodNodes, Place, Record
<1>5. ASSUME NEW p \in Pods, StartPreemption(p) PROVE TypeOK'
  <2>1. ActiveNodes \in SUBSET NodeObjs /\ VisitNext(p, ActiveNodes, node)
    BY <1>5 DEF ActiveNodes, StartPreemption
  <2>2. PICK c \in CallState : /\ call' = [call EXCEPT ![p] = c]
                               /\ c.pc = "evicting" => c.at \in NodeObjs
    BY <1>1, <2>1, VisitTyped
  <2> QED BY <1>5, <2>2 DEF TypeOK, StartPreemption
<1>6. ASSUME NEW v \in Pods, Unschedule(v) PROVE TypeOK'
  <2>1. GoodNodes(node')
    BY <1>6, UnscheduleTyped DEF Unschedule
  <2> QED BY <1>6, <2>1, UnscheduleTyped DEF TypeOK, GoodNodes, Unschedule
<1>7. ASSUME NEW p \in Pods, NEW v \in Pods, NEW e \in BOOLEAN, Resume(p, v, e)
      PROVE  TypeOK'
  <2> DEFINE ns == IF e THEN NodeAfterUnschedule(v) ELSE node
             sp == IF e THEN ScheduledAfterUnschedule(v) ELSE scheduled_pods
  <2>1. GoodNodes(ns) /\ sp \in [Pods -> NodeIds \cup {None}]
    BY <1>1, UnscheduleTyped DEF TypeOK
  <2>2. /\ call[p].at \in NodeObjs /\ call[p] \in CallState
        /\ UNCHANGED nodes
    BY <1>7 DEF Resume, TypeOK
  <2>3. \/ NextVictim(p, v) /\ node' = ns /\ scheduled_pods' = sp
        \/ ReserveCleared(p, ns, sp)
        \/ MoveOn(p, ns) /\ node' = ns /\ scheduled_pods' = sp
    BY <1>7 DEF Resume
  <2> HIDE DEF ns, sp
  <2>4. CASE NextVictim(p, v) /\ node' = ns /\ scheduled_pods' = sp
    <3>1. call' = [call EXCEPT ![p] = [call[p] EXCEPT !.victims = call[p].victims \ {v}]]
      BY <2>4 DEF NextVictim
    <3>2. [call[p] EXCEPT !.victims = call[p].victims \ {v}] \in CallState
      BY <2>2 DEF CallState
    <3> DEFINE c == [call[p] EXCEPT !.victims = call[p].victims \ {v}]
    <3>3. c.pc = call[p].pc /\ c.at = call[p].at
      BY <2>2 DEF CallState
    <3> HIDE DEF c
    <3> QED BY <2>1, <2>2, <2>4, <3>1, <3>2, <3>3 DEF TypeOK, GoodNodes, NextVictim, c
  <2>5. CASE ReserveCleared(p, ns, sp)
    <3>1. PICK G \in GpuChoices(ns[call[p].at], p) :
             node' = [ns EXCEPT ![call[p].at] = Reserved(@, p, G)]
      BY <2>5 DEF ReserveCleared
    <3>2. GoodNodes(node')
      BY <2>1, <2>2, <3>1, ReserveKeepsNodes
    <3>3. IdOf[call[p].at] \in NodeIds
      BY <2>2 DEF ConstantsOK
    <3>4. metrics' \in [scheduled : Nat, failed : Nat, preemptions : Nat]
      <4>1. /\ metrics \in [scheduled : Nat, failed : Nat, preemptions : Nat]
            /\ metrics.scheduled + 1 \in Nat
            /\ metrics.preemptions + 1 \in Nat
        BY DEF TypeOK
      <4>2. metrics' = [metrics EXCEPT !.scheduled = metrics.scheduled + 1,
                                       !.preemptions = metrics.preemptions + 1]
        BY <2>5 DEF ReserveCleared
      <4> QED BY <4>1, <4>2
    <3>5. /\ call' \in [Pods -> CallState]
          /\ status' \in [Pods -> {"pending", "scheduled", "failed"}]
      BY <1>2, <2>5 DEF ReserveCleared, Record, TypeOK
    <3>6. \A r \in Pods : call'[r].pc = "evicting" => call'[r].at \in NodeObjs
      BY <1>2, <2>5 DEF ReserveCleared, Record, TypeOK
    <3>7. scheduled_pods' \in [Pods -> NodeIds \cup {None}]
      BY <2>1, <2>5, <3>3 DEF ReserveCleared
    <3> QED BY <2>2, <3>2, <3>4, <3>5, <3>6, <3>7 DEF TypeOK, GoodNodes
  <2>6. CASE MoveOn(p, ns) /\ node' = ns /\ scheduled_pods' = sp
    <3>1. call[p].todo \in SUBSET NodeObjs
      BY <2>2 DEF CallState
    <3>2. PICK c \in CallState : /\ call' = [call EXCEPT ![p] = c]
                                 /\ c.pc = "evicting" => c.at \in NodeObjs
      BY <2>1, <2>6, <3>1, VisitTyped DEF MoveOn
    <3> QED BY <2>1, <2>2, <2>6, <3>2 DEF TypeOK, GoodNodes, MoveOn
  <2> QED BY <2>3, <2>4, <2>5, <2>6
<1>8. ASSUME NEW o \in NodeObjs, RegisterNode(o) PROVE TypeOK'
  BY <1>8 DEF TypeOK, RegisterNode
<1>9. ASSUME NEW o \in NodeObjs, UpdateMetrics(o) \/ ChangeNodeStatus(o) PROVE TypeOK'
  <2>1. node[o] \in NodeState(o)
    BY DEF TypeOK
  <2>2. /\ [node[o] EXCEPT !.throttled = ~ node[o].throttled] \in NodeState(o)
        /\ [node[o] EXCEPT !.active = ~ node[o].active] \in NodeState(o)
    BY <2>1 DEF NodeState
  <2>3. GoodNodes(node')
    BY <1>1, <1>9, <2>2 DEF GoodNodes, UpdateMetrics, ChangeNodeStatus
  <2> QED BY <1>9, <2>3 DEF TypeOK, GoodNodes, UpdateMetrics, ChangeNodeStatus
<1>10. ASSUME NEW i \in NodeIds, UnregisterNode(i) PROVE TypeOK'
  BY <1>10 DEF TypeOK, UnregisterNode
<1>11. CASE UNCHANGED vars
  BY <1>11 DEF TypeOK, vars
<1> QED BY <1>3, <1>4, <1>5, <1>6, <1>7, <1>8, <1>9, <1>10, <1>11
        DEF Next, ScheduleStep, ResumeStep

(***************************************************************************)
(* TypeOK holds of every behaviour of the scheduler.                       *)
(***************************************************************************)
THEOREM TypeCorrect == Spec => []TypeOK
BY TypeInit, TypeStep, PTL DEF Spec

---------------------------------------------------------------------------
(***************************************************************************)
(* The ledger.                                                             *)
(***************************************************************************)
LEMMA LedgerInit == Init => LedgerBalanced /\ Unplaced
<1> SUFFICES ASSUME Init PROVE LedgerBalanced /\ Unplaced
  OBVIOUS
<1>1. ASSUME NEW o \in NodeObjs, NEW q \in Quantities
      PROVE  /\ node[o].available[q] + SumOver(Demand[q], node[o].assigned) = Capacity[o][q]
             /\ node[o].available[q] >= 0
  <2>1. node[o].available = Capacity[o] /\ node[o].assigned = {}
    BY DEF Init
  <2>2. Demand[q] \in [Pods -> Int] /\ IsFiniteSet(Pods) /\ Capacity[o][q] \in Nat
    BY DEF ConstantsOK
  <2>3. SumOver(Demand[q], {}) = 0
    BY <2>2, SumEmpty
  <2> QED BY <2>1, <2>2, <2>3
<1>2. Unplaced
  BY DEF Init, Unplaced
<1> QED BY <1>1, <1>2 DEF LedgerBalanced

\* Metrics and status changes leave the reservations alone.
LEMMA ObservationsKeepReservations ==
  ASSUME TypeOK, NEW o \in NodeObjs, UpdateMetrics(o) \/ ChangeNodeStatus(o),
         NEW u \in NodeObjs
  PROVE  node'[u].assigned = node[u].assigned /\ node'[u].available = node[u].available
<1>1. node[o] \in NodeState(o) /\ DOMAIN node = NodeObjs
  BY DEF TypeOK
<1>2. CASE UpdateMetrics(o)
  <2> DEFINE m == [node[o] EXCEPT !.throttled = ~ node[o].throttled]
  <2>1. m.assigned = node[o].assigned /\ m.available = node[o].available
    BY <1>1 DEF NodeState
  <2>2. node' = [node EXCEPT ![o] = m]
    BY <1>2 DEF UpdateMetrics
  <2> HIDE DEF m
  <2> QED BY <1>1, <2>1, <2>2
<1>3. CASE ChangeNodeStatus(o)
  <2> DEFINE m == [node[o] EXCEPT !.active = ~ node[o].active]
  <2>1. m.assigned = node[o].assigned /\ m.available = node[o].available
    BY <1>1 DEF NodeState
  <2>2. node' = [node EXCEPT ![o] = m]
    BY <1>3 DEF ChangeNodeStatus
  <2> HIDE DEF m
  <2> QED BY <1>1, <2>1, <2>2
<1> QED BY <1>2, <1>3

\* Metrics and status changes leave the devices alone.
LEMMA ObservationsKeepDevices ==
  ASSUME TypeOK, NEW o \in NodeObjs, UpdateMetrics(o) \/ ChangeNodeStatus(o),
         NEW u \in NodeObjs
  PROVE  node'[u].owner = node[u].owner
<1>1. node[o] \in NodeState(o) /\ DOMAIN node = NodeObjs
  BY DEF TypeOK
<1>2. CASE UpdateMetrics(o)
  <2>1. [node[o] EXCEPT !.throttled = ~ node[o].throttled].owner = node[o].owner
    BY <1>1 DEF NodeState
  <2> QED BY <1>1, <1>2, <2>1 DEF UpdateMetrics
<1>3. CASE ChangeNodeStatus(o)
  <2>1. [node[o] EXCEPT !.active = ~ node[o].active].owner = node[o].owner
    BY <1>1 DEF NodeState
  <2> QED BY <1>1, <1>3, <2>1 DEF ChangeNodeStatus
<1> QED BY <1>2, <1>3

\* A request that starts to hold something was unplaced before the step.
LEMMA UnplacedStep == IInv /\ [Next]_vars => Unplaced'
<1> SUFFICES ASSUME IInv, [Next]_vars PROVE Unplaced'
  OBVIOUS
<1> USE DEF IInv
<1>1. GoodNodes(node)
  BY DEF TypeOK, GoodNodes
<1>2. Returned.pc = "returned" /\ Idle.pc = "idle"
  BY DEF Returned, Idle
<1>3. ASSUME NEW p \in Pods, Reject(p) \/ RejectLowScores(p) PROVE Unplaced'
  BY <1>2, <1>3 DEF TypeOK, Unplaced, Reject, RejectLowScores, Fail
<1>4. ASSUME NEW p \in Pods, NEW ns, GoodNodes(ns), NEW o \in NodeObjs, NEW G,
             \A u \in NodeObjs : ns[u].assigned \subseteq node[u].assigned,
             node' = [ns EXCEPT ![o] = Reserved(@, p, G)],
             Record(p, o)
      PROVE  Unplaced'
  <2>1. \A u \in NodeObjs : node'[u].assigned \subseteq node[u].assigned \cup {p}
    <3>1. Reserved(ns[o], p, G).assigned = ns[o].assigned \cup {p}
      <4>1. ns[o] \in NodeState(o)
        BY <1>4 DEF GoodNodes
      <4> QED BY <4>1 DEF Reserved, NodeState
    <3> QED BY <1>4, <3>1 DEF GoodNodes
  <2>2. \A r \in Pods : call'[r].pc # "returned" =>
           r # p /\ call'[r] = call[r] /\ status'[r] = status[r]
    BY <1>2, <1>4 DEF Record, TypeOK
  <2>3. ASSUME NEW r \in Pods, call'[r].pc # "returned"
        PROVE  status'[r] = "pending" /\ \A u \in NodeObjs : r \notin node'[u].assigned
    <3>1. /\ r # p /\ status[r] = "pending" /\ status'[r] = status[r]
          /\ \A u \in NodeObjs : r \notin node[u].assigned
      BY <2>2, <2>3 DEF Unplaced
    <3> QED BY ONLY <2>1, <3>1
  <2> QED BY <2>3 DEF Unplaced
<1>5. ASSUME NEW p \in Pods, Place(p) PROVE Unplaced'
  <2>1. PICK o \in ValidNodes(p) : \E G \in GpuChoices(node[o], p) :
           /\ node' = [node EXCEPT ![o] = Reserved(@, p, G)]
           /\ Record(p, o)
    BY <1>5 DEF Place
  <2>2. o \in NodeObjs
    BY DEF ValidNodes, ActiveNodes
  <2>3. PICK G : node' = [node EXCEPT ![o] = Reserved(@, p, G)]
    BY <2>1
  <2>4. \A u \in NodeObjs : node[u].assigned \subseteq node[u].assigned
    OBVIOUS
  <2>5. Record(p, o)
    BY <2>1
  <2> QED BY <1>1, <1>4, <2>2, <2>3, <2>4, <2>5
<1>6. ASSUME NEW p \in Pods, StartPreemption(p) PROVE Unplaced'
  <2>1. ActiveNodes \in SUBSET NodeObjs /\ VisitNext(p, ActiveNodes, node)
    BY <1>6 DEF ActiveNodes, StartPreemption
  <2>2. PICK c \in CallState : call' = [call EXCEPT ![p] = c]
    BY <1>1, <2>1, VisitTyped
  <2>3. call[p].pc # "returned" /\ UNCHANGED <<node, status>>
    BY <1>2, <1>6 DEF StartPreemption
  <2> QED BY <2>2, <2>3 DEF Unplaced, TypeOK
<1>7. ASSUME NEW v \in Pods, Unschedule(v) PROVE Unplaced'
  BY <1>7, UnscheduleTyped DEF Unschedule, Unplaced
<1>8. ASSUME NEW p \in Pods, NEW v \in Pods, NEW e \in BOOLEAN, Resume(p, v, e)
      PROVE  Unplaced'
  <2> DEFINE ns == IF e THEN NodeAfterUnschedule(v) ELSE node
             sp == IF e THEN ScheduledAfterUnschedule(v) ELSE scheduled_pods
  <2>1. GoodNodes(ns) /\ \A u \in NodeObjs : ns[u].assigned \subseteq node[u].assigned
    BY <1>1, UnscheduleTyped
  <2>2. call[p].pc = "evicting" /\ call[p].at \in NodeObjs /\ call[p] \in CallState
    BY <1>8 DEF Resume, TypeOK
  <2>3. \/ NextVictim(p, v) /\ node' = ns
        \/ ReserveCleared(p, ns, sp)
        \/ MoveOn(p, ns) /\ node' = ns
    BY <1>8 DEF Resume
  <2> HIDE DEF ns, sp
  <2>4. CASE NextVictim(p, v) /\ node' = ns
    <3>1. \A r \in Pods : call'[r].pc = call[r].pc
      BY <2>2, <2>4 DEF NextVictim, TypeOK, CallState
    <3> QED BY <2>1, <2>4, <3>1 DEF NextVictim, Unplaced
  <2>5. CASE ReserveCleared(p, ns, sp)
    BY <1>4, <2>1, <2>2, <2>5 DEF ReserveCleared
  <2>6. CASE MoveOn(p, ns) /\ node' = ns
    <3>1. call[p].todo \in SUBSET NodeObjs
      BY <2>2 DEF CallState
    <3>2. PICK c \in CallState : call' = [call EXCEPT ![p] = c]
      BY <2>1, <2>6, <3>1, VisitTyped DEF MoveOn
    <3>3. \A r \in Pods : call'[r].pc # "returned" => call[r].pc # "returned"
      BY <2>2, <3>2 DEF TypeOK
    <3>4. node' = ns /\ status' = status
      BY <2>6 DEF MoveOn
    <3> QED BY <2>1, <3>3, <3>4 DEF Unplaced
  <2> QED BY <2>3, <2>4, <2>5, <2>6
<1>9. ASSUME NEW o \in NodeObjs,
             RegisterNode(o) \/ UpdateMetrics(o) \/ ChangeNodeStatus(o)
      PROVE  Unplaced'
  <2>1. /\ UNCHANGED <<call, status>>
        /\ \A u \in NodeObjs : node'[u].assigned = node[u].assigned
    BY <1>9, ObservationsKeepReservations
       DEF RegisterNode, UpdateMetrics, ChangeNodeStatus
  <2> QED BY <2>1 DEF Unplaced
<1>10. ASSUME NEW i \in NodeIds, UnregisterNode(i) PROVE Unplaced'
  BY <1>10 DEF Unplaced, UnregisterNode
<1>11. CASE UNCHANGED vars
  BY <1>11 DEF Unplaced, vars
<1> QED BY <1>3, <1>5, <1>6, <1>7, <1>8, <1>9, <1>10, <1>11
        DEF Next, ScheduleStep, ResumeStep

\* Every step keeps the ledgers balanced.
LEMMA LedgerStep == IInv /\ [Next]_vars => LedgerBalanced'
<1> SUFFICES ASSUME IInv, [Next]_vars PROVE LedgerBalanced'
  OBVIOUS
<1> USE DEF IInv
<1>1. GoodNodes(node) /\ BalancedNodes(node)
  BY DEF TypeOK, GoodNodes, LedgerBalanced, BalancedNodes
<1>2. SUFFICES BalancedNodes(node')
  BY DEF BalancedNodes, LedgerBalanced
<1>3. node' = node => BalancedNodes(node')
  BY <1>1
<1>4. ASSUME NEW p \in Pods, Place(p) PROVE BalancedNodes(node')
  <2>1. PICK o \in ValidNodes(p) : \E G \in GpuChoices(node[o], p) :
           node' = [node EXCEPT ![o] = Reserved(@, p, G)]
    BY <1>4 DEF Place
  <2>2. o \in NodeObjs /\ Fits(node[o], p)
    <3>1. o \in ActiveNodes /\ Valid(o, p)
      BY DEF ValidNodes
    <3> QED BY <3>1 DEF ActiveNodes, Valid
  <2>3. p \notin node[o].assigned
    <3>1. call[p] = Idle
      BY <1>4 DEF Place
    <3>2. call[p].pc # "returned"
      BY <3>1 DEF Idle
    <3>3. Unplaced
      OBVIOUS
    <3> QED BY <2>2, <3>2, <3>3 DEF Unplaced
  <2>4. PICK G : node' = [node EXCEPT ![o] = Reserved(@, p, G)]
    BY <2>1
  <2> QED BY <1>1, <2>2, <2>3, <2>4, ReserveBalances
<1>5. ASSUME NEW v \in Pods, Unschedule(v) PROVE BalancedNodes(node')
  BY <1>5, UnscheduleBalances DEF Unschedule
<1>6. ASSUME NEW p \in Pods, NEW v \in Pods, NEW e \in BOOLEAN, Resume(p, v, e)
      PROVE  BalancedNodes(node')
  <2> DEFINE ns == IF e THEN NodeAfterUnschedule(v) ELSE node
             sp == IF e THEN ScheduledAfterUnschedule(v) ELSE scheduled_pods
  <2>1. /\ GoodNodes(ns) /\ BalancedNodes(ns)
        /\ \A u \in NodeObjs : ns[u].assigned \subseteq node[u].assigned
    BY <1>1, UnscheduleTyped, UnscheduleBalances
  <2>2. call[p].pc = "evicting" /\ call[p].at \in NodeObjs
    BY <1>6 DEF Resume, TypeOK
  <2>3. node' = ns \/ ReserveCleared(p, ns, sp)
    BY <1>6 DEF Resume
  <2> HIDE DEF ns, sp
  <2>4. CASE ReserveCleared(p, ns, sp)
    <3>1. p \notin ns[call[p].at].assigned
      BY <2>1, <2>2 DEF Unplaced
    <3>2. PICK G : node' = [ns EXCEPT ![call[p].at] = Reserved(@, p, G)]
      BY <2>4 DEF ReserveCleared
    <3>3. Fits(ns[call[p].at], p)
      BY <2>4 DEF ReserveCleared
    <3> QED BY <2>1, <2>2, <3>1, <3>2, <3>3, ReserveBalances
  <2> QED BY <2>1, <2>3, <2>4
<1>7. ASSUME NEW o \in NodeObjs, UpdateMetrics(o) \/ ChangeNodeStatus(o)
      PROVE  BalancedNodes(node')
  <2>1. \A u \in NodeObjs : /\ node'[u].assigned = node[u].assigned
                            /\ node'[u].available = node[u].available
    BY <1>7, ObservationsKeepReservations
  <2> QED BY <1>1, <2>1 DEF BalancedNodes
<1> QED BY <1>3, <1>4, <1>5, <1>6, <1>7
        DEF Next, ScheduleStep, ResumeStep, Reject, RejectLowScores, Fail,
            StartPreemption, RegisterNode, UnregisterNode, vars

(***************************************************************************)
(* IInv is inductive, and holds of every behaviour.                        *)
(***************************************************************************)
THEOREM Inductive == Spec => []IInv
<1>1. Init => IInv
  BY TypeInit, LedgerInit DEF IInv
<1>2. IInv /\ [Next]_vars => IInv'
  BY TypeStep, UnplacedStep, LedgerStep DEF IInv
<1> QED BY <1>1, <1>2, PTL DEF Spec

(***************************************************************************)
(* No interleaving of placements, evictions and releases loses or invents  *)
(* capacity, or lets a node promise more than it has.                      *)
(***************************************************************************)
THEOREM LedgerCorrect == Spec => []LedgerBalanced
<1>1. IInv => LedgerBalanced
  BY DEF IInv
<1> QED BY <1>1, Inductive, PTL

---------------------------------------------------------------------------
(***************************************************************************)
(* GPU devices.                                                            *)
(***************************************************************************)
OwnedBy(n, p) == {d \in DOMAIN n.owner : n.owner[d] = p}

GpuLedger(ns) ==
  \A o \in NodeObjs : \A p \in Pods :
     Cardinality(OwnedBy(ns[o], p)) = IF p \in ns[o].assigned THEN GpuCount[p] ELSE 0

\* GpusBelongToAssigned in terms of one instance.
LEMMA GpuLedgerIsInvariant ==
  ASSUME TypeOK PROVE GpuLedger(node) <=> GpusBelongToAssigned
<1>1. \A o \in NodeObjs : DOMAIN node[o].owner = Devices[o]
  BY DEF TypeOK, NodeState
<1>2. \A o \in NodeObjs, p \in Pods :
         OwnedBy(node[o], p) = {d \in Devices[o] : node[o].owner[d] = p}
  BY <1>1 DEF OwnedBy
<1>3. ASSUME NEW o \in NodeObjs, NEW p \in Pods
      PROVE  Cardinality(OwnedBy(node[o], p))
               = Cardinality({d \in Devices[o] : node[o].owner[d] = p})
  BY <1>2
<1>4. GpuLedger(node) <=>
        \A o \in NodeObjs, p \in Pods :
           Cardinality(OwnedBy(node[o], p)) = IF p \in node[o].assigned THEN GpuCount[p] ELSE 0
  BY DEF GpuLedger
<1>5. GpusBelongToAssigned <=>
        \A o \in NodeObjs, p \in Pods :
           Cardinality({d \in Devices[o] : node[o].owner[d] = p})
             = IF p \in node[o].assigned THEN GpuCount[p] ELSE 0
  BY DEF GpusBelongToAssigned
<1> QED BY ONLY <1>3, <1>4, <1>5

\* reserve marks exactly the devices the request asks for.
LEMMA ReserveKeepsGpus ==
  ASSUME NEW ns, GoodNodes(ns), GpuLedger(ns), NEW o \in NodeObjs, NEW p \in Pods,
         p \notin ns[o].assigned, NEW G \in GpuChoices(ns[o], p)
  PROVE  GpuLedger([ns EXCEPT ![o] = Reserved(@, p, G)])
<1> DEFINE m == Reserved(ns[o], p, G)
<1>1. ns[o] \in NodeState(o)
  BY DEF GoodNodes
<1>2. /\ m.owner = [d \in DOMAIN ns[o].owner |-> IF d \in G THEN p ELSE ns[o].owner[d]]
      /\ m.assigned = ns[o].assigned \cup {p}
  BY <1>1 DEF NodeState, Reserved
<1>3. /\ G \subseteq DOMAIN ns[o].owner /\ Cardinality(G) = GpuCount[p]
      /\ \A d \in G : ns[o].owner[d] = None
  BY DEF GpuChoices, FreeGpus
<1>4. /\ IsFiniteSet(DOMAIN ns[o].owner) /\ None \notin Pods
      /\ \A r \in Pods : IsFiniteSet(OwnedBy(ns[o], r))
  <2>1. IsFiniteSet(DOMAIN ns[o].owner) /\ None \notin Pods
    BY <1>1 DEF NodeState, ConstantsOK
  <2>2. ASSUME NEW r \in Pods PROVE IsFiniteSet(OwnedBy(ns[o], r))
    <3>1. OwnedBy(ns[o], r) \in SUBSET (DOMAIN ns[o].owner)
      BY DEF OwnedBy
    <3> QED BY <2>1, <3>1, FS_Subset
  <2> QED BY <2>1, <2>2
<1>5. OwnedBy(ns[o], p) = {}
  <2>1. Cardinality(OwnedBy(ns[o], p)) = 0
    BY DEF GpuLedger
  <2> QED BY <1>4, <2>1, FS_EmptySet
<1>6. OwnedBy(m, p) = G
  BY <1>2, <1>3, <1>5 DEF OwnedBy
<1>7. \A r \in Pods : r # p => OwnedBy(m, r) = OwnedBy(ns[o], r)
  BY <1>2, <1>3, <1>4 DEF OwnedBy
<1> HIDE DEF m
<1>8. GpuLedger([ns EXCEPT ![o] = m])
  <2>1. ASSUME NEW r \in Pods
        PROVE  Cardinality(OwnedBy(m, r)) = IF r \in m.assigned THEN GpuCount[r] ELSE 0
    <3>1. CASE r = p
      <4>1. OwnedBy(m, r) = G /\ r \in m.assigned
        BY <1>2, <1>6, <3>1
      <4> QED BY <1>3, <3>1, <4>1
    <3>2. CASE r # p
      <4>1. OwnedBy(m, r) = OwnedBy(ns[o], r) /\ (r \in m.assigned <=> r \in ns[o].assigned)
        BY <1>2, <1>7, <3>2
      <4>2. Cardinality(OwnedBy(ns[o], r)) = IF r \in ns[o].assigned THEN GpuCount[r] ELSE 0
        BY DEF GpuLedger
      <4> QED BY <4>1, <4>2
    <3> QED BY <3>1, <3>2
  <2> QED BY <2>1 DEF GpuLedger, GoodNodes
<1> QED BY <1>8 DEF m

\* release frees exactly the devices the pod held.
LEMMA ReleaseKeepsGpus ==
  ASSUME NEW ns, GoodNodes(ns), GpuLedger(ns), NEW o \in NodeObjs, NEW v \in Pods
  PROVE  GpuLedger([ns EXCEPT ![o] = Released(@, v)])
<1> DEFINE m == Released(ns[o], v)
<1>1. ns[o] \in NodeState(o)
  BY DEF GoodNodes
<1>2. /\ m.owner = [d \in DOMAIN ns[o].owner |->
                       IF ns[o].owner[d] = v THEN None ELSE ns[o].owner[d]]
      /\ m.assigned = ns[o].assigned \ {v}
  BY <1>1 DEF NodeState, Released
<1>3. None \notin Pods
  BY DEF ConstantsOK
<1>4. OwnedBy(m, v) = {}
  BY <1>2, <1>3 DEF OwnedBy
<1>5. \A r \in Pods : r # v => OwnedBy(m, r) = OwnedBy(ns[o], r)
  BY <1>2, <1>3 DEF OwnedBy
<1> HIDE DEF m
<1>6. ASSUME NEW r \in Pods
      PROVE  Cardinality(OwnedBy(m, r)) = IF r \in m.assigned THEN GpuCount[r] ELSE 0
  <2>1. CASE r = v
    BY <1>2, <1>4, <2>1, FS_EmptySet
  <2>2. CASE r # v
    <3>1. OwnedBy(m, r) = OwnedBy(ns[o], r) /\ (r \in m.assigned <=> r \in ns[o].assigned)
      BY <1>2, <1>5, <2>2
    <3>2. Cardinality(OwnedBy(ns[o], r)) = IF r \in ns[o].assigned THEN GpuCount[r] ELSE 0
      BY DEF GpuLedger
    <3> QED BY <3>1, <3>2
  <2> QED BY <2>1, <2>2
<1>7. GpuLedger([ns EXCEPT ![o] = m])
  BY <1>6 DEF GpuLedger, GoodNodes
<1> QED BY <1>7 DEF m

\* unschedule keeps devices and assignments in step.
LEMMA UnscheduleKeepsGpus ==
  ASSUME TypeOK, GpuLedger(node), NEW v \in Pods
  PROVE  GpuLedger(NodeAfterUnschedule(v))
<1>1. GoodNodes(node)
  BY DEF TypeOK, GoodNodes
<1>2. Releases(v) => Holder(v) \in NodeObjs
  BY DEF TypeOK, Releases, Holder
<1> QED BY <1>1, <1>2, ReleaseKeepsGpus DEF NodeAfterUnschedule

\* Every step keeps devices and assignments in step.
LEMMA GpuStep == IInv /\ GpuLedger(node) /\ [Next]_vars => GpuLedger(node')
<1> SUFFICES ASSUME IInv, GpuLedger(node), [Next]_vars PROVE GpuLedger(node')
  OBVIOUS
<1> USE DEF IInv
<1>1. GoodNodes(node)
  BY DEF TypeOK, GoodNodes
<1>2. node' = node => GpuLedger(node')
  OBVIOUS
<1>3. ASSUME NEW p \in Pods, Place(p) PROVE GpuLedger(node')
  <2>1. PICK o \in ValidNodes(p) : \E G \in GpuChoices(node[o], p) :
           node' = [node EXCEPT ![o] = Reserved(@, p, G)]
    BY <1>3 DEF Place
  <2>2. o \in NodeObjs
    BY DEF ValidNodes, ActiveNodes
  <2>3. p \notin node[o].assigned
    BY <1>3, <2>2 DEF Place, Idle, Unplaced
  <2>4. PICK G \in GpuChoices(node[o], p) : node' = [node EXCEPT ![o] = Reserved(@, p, G)]
    BY <2>1
  <2>5. GpuLedger([node EXCEPT ![o] = Reserved(@, p, G)])
    BY ONLY <1>1, <2>2, <2>3, <2>4, GpuLedger(node), p \in Pods, ReserveKeepsGpus
  <2> QED BY ONLY <2>4, <2>5
<1>4. ASSUME NEW v \in Pods, Unschedule(v) PROVE GpuLedger(node')
  BY <1>4, UnscheduleKeepsGpus DEF Unschedule
<1>5. ASSUME NEW p \in Pods, NEW v \in Pods, NEW e \in BOOLEAN, Resume(p, v, e)
      PROVE  GpuLedger(node')
  <2> DEFINE ns == IF e THEN NodeAfterUnschedule(v) ELSE node
             sp == IF e THEN ScheduledAfterUnschedule(v) ELSE scheduled_pods
  <2>1. /\ GoodNodes(ns) /\ GpuLedger(ns)
        /\ \A u \in NodeObjs : ns[u].assigned \subseteq node[u].assigned
    BY <1>1, UnscheduleTyped, UnscheduleKeepsGpus
  <2>2. call[p].pc = "evicting" /\ call[p].at \in NodeObjs
    BY <1>5 DEF Resume, TypeOK
  <2>3. node' = ns \/ ReserveCleared(p, ns, sp)
    BY <1>5 DEF Resume
  <2> HIDE DEF ns, sp
  <2>4. CASE ReserveCleared(p, ns, sp)
    <3>1. p \notin ns[call[p].at].assigned
      BY <2>1, <2>2 DEF Unplaced
    <3>2. PICK G \in GpuChoices(ns[call[p].at], p) :
             node' = [ns EXCEPT ![call[p].at] = Reserved(@, p, G)]
      BY <2>4 DEF ReserveCleared
    <3> QED BY <2>1, <2>2, <3>1, <3>2, ReserveKeepsGpus
  <2> QED BY <2>1, <2>3, <2>4
<1>6. ASSUME NEW o \in NodeObjs, UpdateMetrics(o) \/ ChangeNodeStatus(o)
      PROVE  GpuLedger(node')
  <2>1. \A u \in NodeObjs : node'[u].assigned = node[u].assigned
    BY <1>6, ObservationsKeepReservations
  <2>2. \A u \in NodeObjs : node'[u].owner = node[u].owner
    BY <1>6, ObservationsKeepDevices
  <2>3. ASSUME NEW u \in NodeObjs, NEW p \in Pods
        PROVE  Cardinality(OwnedBy(node'[u], p))
                 = IF p \in node'[u].assigned THEN GpuCount[p] ELSE 0
    <3>1. OwnedBy(node'[u], p) = OwnedBy(node[u], p)
      BY <2>2 DEF OwnedBy
    <3>2. Cardinality(OwnedBy(node[u], p))
            = IF p \in node[u].assigned THEN GpuCount[p] ELSE 0
      BY DEF GpuLedger
    <3> QED BY <2>1, <3>1, <3>2
  <2> QED BY <2>3 DEF GpuLedger
<1> QED BY <1>2, <1>3, <1>4, <1>5, <1>6
        DEF Next, ScheduleStep, ResumeStep, Reject, RejectLowScores, Fail,
            StartPreemption, RegisterNode, UnregisterNode, vars

(***************************************************************************)
(* A pod owns exactly the GPUs it asked for where it is assigned, and none *)
(* elsewhere.                                                              *)
(***************************************************************************)
THEOREM GpusCorrect == Spec => []GpusBelongToAssigned
<1>1. Init => GpuLedger(node)
  <2> SUFFICES ASSUME Init, NEW o \in NodeObjs, NEW p \in Pods
               PROVE  /\ Cardinality(OwnedBy(node[o], p)) = 0
                      /\ p \notin node[o].assigned
    BY DEF GpuLedger
  <2>1. OwnedBy(node[o], p) = {} /\ node[o].assigned = {}
    BY DEF Init, OwnedBy, ConstantsOK
  <2> QED BY <2>1, FS_EmptySet
<1>2. IInv /\ GpuLedger(node) /\ [Next]_vars => GpuLedger(node)'
  BY GpuStep
<1>3. IInv /\ GpuLedger(node) => GpusBelongToAssigned
  BY GpuLedgerIsInvariant DEF IInv
<1> QED BY <1>1, <1>2, <1>3, Inductive, PTL DEF Spec
---------------------------------------------------------------------------
(***************************************************************************)
(* The scheduler implements Allocation.                                    *)
(***************************************************************************)
HeldIn(ns) == [o \in NodeObjs |-> ns[o].assigned]

GrantedNow == {p \in Pods : status[p] = "scheduled"}

\* The totals of the instance are the totals of the scheduler.
LEMMA SameTotals ==
  ASSUME NEW D, NEW S PROVE Alloc!SumOver(D, S) = SumOver(D, S)
BY DEF Alloc!SumOver, Alloc!SumFcn, SumOver, SumFcn

\* What a node with a balanced ledger holds fits it.
LEMMA BalancedFits ==
  ASSUME NEW ns, GoodNodes(ns), BalancedNodes(ns), NEW o \in NodeObjs
  PROVE  Alloc!FitsTogether(o, ns[o].assigned)
<1>1. ns[o].assigned \in SUBSET Pods /\ ns[o].available \in [Quantities -> Int]
  BY DEF GoodNodes, NodeState
<1>2. ASSUME NEW q \in Quantities
      PROVE  Alloc!SumOver(Demand[q], ns[o].assigned) <= Capacity[o][q]
  <2>1. Demand[q] \in [Pods -> Int] /\ IsFiniteSet(Pods)
    BY DEF ConstantsOK
  <2>2. SumOver(Demand[q], ns[o].assigned) \in Int /\ ns[o].available[q] \in Int
    BY <1>1, <2>1, SumType
  <2>3. /\ ns[o].available[q] + SumOver(Demand[q], ns[o].assigned) = Capacity[o][q]
        /\ ns[o].available[q] >= 0
    BY DEF BalancedNodes
  <2>4. SumOver(Demand[q], ns[o].assigned) <= Capacity[o][q]
    BY <2>2, <2>3
  <2> QED BY <2>4, SameTotals
<1> QED BY <1>2 DEF Alloc!FitsTogether

\* reserve adds the pod to what its node holds, and to nothing else.
LEMMA ReserveHolds ==
  ASSUME NEW ns, GoodNodes(ns), NEW o \in NodeObjs, NEW p \in Pods, NEW G
  PROVE  HeldIn([ns EXCEPT ![o] = Reserved(@, p, G)])
           = [HeldIn(ns) EXCEPT ![o] = @ \cup {p}]
<1>1. Reserved(ns[o], p, G).assigned = ns[o].assigned \cup {p}
  BY DEF GoodNodes, NodeState, Reserved
<1> QED BY <1>1 DEF HeldIn, GoodNodes

\* unschedule takes the pod from one node, or from none.
LEMMA UnscheduleHolds ==
  ASSUME TypeOK, NEW v \in Pods
  PROVE  \/ HeldIn(NodeAfterUnschedule(v)) = HeldIn(node)
         \/ \E u \in NodeObjs : HeldIn(NodeAfterUnschedule(v))
                                  = [HeldIn(node) EXCEPT ![u] = @ \ {v}]
<1>1. CASE Releases(v)
  <2>1. Holder(v) \in NodeObjs
    BY <1>1 DEF TypeOK, Releases, Holder
  <2> DEFINE u == Holder(v)
  <2>2. Released(node[u], v).assigned = node[u].assigned \ {v}
    BY <2>1 DEF TypeOK, NodeState, Released
  <2>3. NodeAfterUnschedule(v) = [node EXCEPT ![u] = Released(@, v)]
    BY <1>1 DEF NodeAfterUnschedule
  <2> HIDE DEF u
  <2>4. HeldIn(NodeAfterUnschedule(v)) = [HeldIn(node) EXCEPT ![u] = @ \ {v}]
    BY <2>1, <2>2, <2>3 DEF HeldIn, TypeOK, u
  <2> QED BY <2>1, <2>4 DEF u
<1>2. CASE ~ Releases(v)
  BY <1>2 DEF NodeAfterUnschedule
<1> QED BY <1>1, <1>2

\* Granting, as a step of Allocation.
LEMMA ReserveGrants ==
  ASSUME NEW ns, GoodNodes(ns), NEW o \in NodeObjs, NEW p \in Pods, NEW G,
         node' = [ns EXCEPT ![o] = Reserved(@, p, G)],
         GoodNodes(node'), BalancedNodes(node'),
         TypeOK, status[p] = "pending", status' = [status EXCEPT ![p] = "scheduled"],
         \/ HeldIn(ns) = HeldIn(node)
         \/ \E u \in NodeObjs, v \in Pods : HeldIn(ns) = Alloc!Without(u, v)
  PROVE  Alloc!ANext
<1>1. [u \in NodeObjs |-> node'[u].assigned] = [HeldIn(ns) EXCEPT ![o] = @ \cup {p}]
  <2> DEFINE m == [ns EXCEPT ![o] = Reserved(@, p, G)]
  <2>1. HeldIn(m) = [HeldIn(ns) EXCEPT ![o] = @ \cup {p}]
    BY ONLY GoodNodes(ns), o \in NodeObjs, p \in Pods, ReserveHolds
  <2>2. HeldIn(m) = [u \in NodeObjs |-> m[u].assigned] /\ node' = m
    BY DEF HeldIn
  <2> QED BY ONLY <2>1, <2>2
<1>2. HeldIn(ns)[o] \cup {p} = node'[o].assigned
  BY <1>1 DEF HeldIn
<1>3. Alloc!FitsTogether(o, HeldIn(ns)[o] \cup {p})
  <2>1. Alloc!FitsTogether(o, node'[o].assigned)
    BY ONLY GoodNodes(node'), BalancedNodes(node'), o \in NodeObjs, BalancedFits
  <2> QED BY ONLY <1>2, <2>1 DEF Alloc!FitsTogether
<1>4. p \notin GrantedNow /\ GrantedNow' = GrantedNow \cup {p}
  BY DEF GrantedNow, TypeOK
<1>5. Alloc!Grant(o, p, HeldIn(ns))
  BY <1>1, <1>3, <1>4 DEF Alloc!Grant, HeldIn, GrantedNow
<1>6. CASE HeldIn(ns) = HeldIn(node)
  BY ONLY <1>5, <1>6, o \in NodeObjs, p \in Pods DEF Alloc!ANext, Alloc!Grant, HeldIn
<1>7. CASE \E u \in NodeObjs, v \in Pods : HeldIn(ns) = Alloc!Without(u, v)
  <2>1. PICK u \in NodeObjs, v \in Pods : HeldIn(ns) = Alloc!Without(u, v)
    BY <1>7
  <2>2. Alloc!Grant(o, p, Alloc!Without(u, v))
    BY ONLY <1>5, <2>1 DEF Alloc!Grant
  <2> QED BY ONLY <2>2, o \in NodeObjs, p \in Pods, u \in NodeObjs, v \in Pods DEF Alloc!ANext
<1> QED BY <1>6, <1>7

\* A step of the scheduler is a grant, a revocation or no step of Allocation.
LEMMA AllocationStep ==
  IInv /\ IInv' /\ [Next]_vars => [Alloc!ANext]_(Alloc!avars)
<1> SUFFICES ASSUME IInv, IInv', [Next]_vars PROVE Alloc!ANext \/ UNCHANGED Alloc!avars
  OBVIOUS
<1> USE DEF IInv
<1>1. /\ GoodNodes(node) /\ GoodNodes(node') /\ BalancedNodes(node')
      /\ TypeOK
  BY DEF TypeOK, GoodNodes, LedgerBalanced, BalancedNodes
<1>2. ASSUME HeldIn(node') = HeldIn(node), GrantedNow' = GrantedNow
      PROVE  UNCHANGED Alloc!avars
  BY <1>2 DEF HeldIn, GrantedNow, Alloc!avars
<1>3. ASSUME NEW v \in Pods, node' = NodeAfterUnschedule(v), GrantedNow' = GrantedNow
      PROVE  Alloc!ANext \/ UNCHANGED Alloc!avars
  <2>1. CASE HeldIn(node') = HeldIn(node)
    BY <1>2, <1>3, <2>1
  <2>2. CASE \E u \in NodeObjs : HeldIn(node') = [HeldIn(node) EXCEPT ![u] = @ \ {v}]
    <3>1. PICK u \in NodeObjs : HeldIn(node') = [HeldIn(node) EXCEPT ![u] = @ \ {v}]
      BY <2>2
    <3>2. Alloc!Revoke(u, v)
      BY <1>3, <3>1 DEF Alloc!Revoke, Alloc!Without, HeldIn, GrantedNow
    <3> QED BY <3>2 DEF Alloc!ANext
  <2> QED BY <1>3, <2>1, <2>2, UnscheduleHolds
<1>4. ASSUME NEW p \in Pods, Reject(p) \/ RejectLowScores(p) PROVE UNCHANGED Alloc!avars
  <2>1. Fail(p) /\ call[p].pc # "returned"
    BY <1>4 DEF Reject, RejectLowScores, Idle
  <2>2. status[p] = "pending"
    BY <2>1 DEF Unplaced
  <2>3. GrantedNow' = GrantedNow
    BY <2>1, <2>2 DEF Fail, GrantedNow, TypeOK
  <2> QED BY <1>2, <2>1, <2>3 DEF Fail
<1>5. ASSUME NEW p \in Pods, Place(p) PROVE Alloc!ANext
  <2>1. PICK o \in ValidNodes(p) : \E G \in GpuChoices(node[o], p) :
           node' = [node EXCEPT ![o] = Reserved(@, p, G)] /\ Record(p, o)
    BY <1>5 DEF Place
  <2>2. PICK G : node' = [node EXCEPT ![o] = Reserved(@, p, G)] /\ Record(p, o)
    BY <2>1
  <2>3. o \in NodeObjs /\ status[p] = "pending"
    BY <1>5 DEF ValidNodes, ActiveNodes, Place, Idle, Unplaced
  <2> QED BY <1>1, <2>2, <2>3, ReserveGrants DEF Record
<1>6. ASSUME NEW v \in Pods, Unschedule(v) PROVE Alloc!ANext \/ UNCHANGED Alloc!avars
  BY <1>3, <1>6 DEF Unschedule, GrantedNow
<1>7. ASSUME NEW p \in Pods, NEW v \in Pods, NEW e \in BOOLEAN, Resume(p, v, e)
      PROVE  Alloc!ANext \/ UNCHANGED Alloc!avars
  <2> DEFINE ns == IF e THEN NodeAfterUnschedule(v) ELSE node
             sp == IF e THEN ScheduledAfterUnschedule(v) ELSE scheduled_pods
  <2>1. CASE node' = ns /\ UNCHANGED status
    <3>1. GrantedNow' = GrantedNow
      BY <2>1 DEF GrantedNow
    <3> QED BY <1>2, <1>3, <2>1, <3>1
  <2>2. CASE ReserveCleared(p, ns, sp)
    <3>1. GoodNodes(ns)
      BY <1>1, UnscheduleTyped
    <3>2. call[p].at \in NodeObjs /\ status[p] = "pending"
      BY <1>7 DEF Resume, TypeOK, Unplaced
    <3>3. \/ HeldIn(ns) = HeldIn(node)
          \/ \E u \in NodeObjs, w \in Pods : HeldIn(ns) = Alloc!Without(u, w)
      <4>1. CASE HeldIn(ns) = HeldIn(node)
        BY <4>1
      <4>2. CASE e /\ \E u \in NodeObjs : HeldIn(NodeAfterUnschedule(v))
                                            = [HeldIn(node) EXCEPT ![u] = @ \ {v}]
        BY <4>2 DEF Alloc!Without, HeldIn
      <4> QED BY <1>1, <4>1, <4>2, UnscheduleHolds
    <3> HIDE DEF ns, sp
    <3>4. PICK G : node' = [ns EXCEPT ![call[p].at] = Reserved(@, p, G)]
      BY <2>2 DEF ReserveCleared
    <3>5. status' = [status EXCEPT ![p] = "scheduled"]
      BY <2>2 DEF ReserveCleared, Record
    <3> QED BY <1>1, <3>1, <3>2, <3>3, <3>4, <3>5, ReserveGrants
  <2> QED BY <1>7, <2>1, <2>2 DEF Resume, NextVictim, MoveOn
<1>8. ASSUME NEW o \in NodeObjs, UpdateMetrics(o) \/ ChangeNodeStatus(o)
      PROVE  UNCHANGED Alloc!avars
  <2>1. HeldIn(node') = HeldIn(node)
    BY <1>8, ObservationsKeepReservations DEF HeldIn
  <2> QED BY <1>2, <1>8, <2>1 DEF UpdateMetrics, ChangeNodeStatus, GrantedNow
<1>9. ASSUME \/ \E p \in Pods : StartPreemption(p)
             \/ \E o \in NodeObjs : RegisterNode(o)
             \/ \E i \in NodeIds : UnregisterNode(i)
             \/ UNCHANGED vars
      PROVE  UNCHANGED Alloc!avars
  <2>1. UNCHANGED <<node, status>>
    BY <1>9 DEF StartPreemption, RegisterNode, UnregisterNode, vars
  <2> QED BY <1>2, <2>1 DEF GrantedNow
<1> QED BY <1>4, <1>5, <1>6, <1>7, <1>8, <1>9 DEF Next, ScheduleStep, ResumeStep

(***************************************************************************)
(* Whatever the policy decides and whoever is evicted, the scheduler only  *)
(* grants a pod room once, on one node, where it fits with the others; and *)
(* an eviction that makes room is one step with the grant it makes room    *)
(* for.                                                                    *)
(***************************************************************************)
THEOREM Refinement == Spec => ImplementsAllocation
<1>1. Init => Alloc!AInit
  <2> SUFFICES ASSUME Init PROVE Alloc!AInit
    OBVIOUS
  <2> QED BY DEF Init, Alloc!AInit
<1>2. IInv /\ IInv' /\ [Next]_vars => [Alloc!ANext]_(Alloc!avars)
  BY AllocationStep
<1> QED BY <1>1, <1>2, Inductive, PTL DEF Spec, ImplementsAllocation, Alloc!ASpec

---------------------------------------------------------------------------
(***************************************************************************)
(* Where nodes stay registered, scheduled_pods and the assignments of the  *)
(* nodes are two records of the same placement.                            *)
(***************************************************************************)
Registered(o) == nodes[IdOf[o]] = o

\* The two records, for values of the nodes and of scheduled_pods that are not yet
\* the next state; a pod is recorded only where a node is registered.
Agree(ns, sp) ==
  /\ \A p \in Pods, o \in NodeObjs : p \in ns[o].assigned <=> (Registered(o) /\ sp[p] = IdOf[o])
  /\ \A p \in Pods : sp[p] # None => nodes[sp[p]] # None

\* What the agreement depends on: an id names a node that has it, and a call that
\* evicts stands at, and goes on to, nodes that are registered.
PlacementInv ==
  /\ Agree(node, scheduled_pods)
  /\ \A i \in NodeIds : nodes[i] # None => IdOf[nodes[i]] = i
  /\ \A p \in Pods : call[p].pc = "evicting" =>
       Registered(call[p].at) /\ \A o \in call[p].todo : Registered(o)

\* unschedule takes the pod out of both records.
LEMMA UnscheduleAgrees ==
  ASSUME TypeOK, PlacementInv, NEW v \in Pods
  PROVE  Agree(NodeAfterUnschedule(v), ScheduledAfterUnschedule(v))
<1> DEFINE ns == NodeAfterUnschedule(v)
           sp == ScheduledAfterUnschedule(v)
<1>1. Agree(node, scheduled_pods) /\ \A i \in NodeIds : nodes[i] # None => IdOf[nodes[i]] = i
  BY DEF PlacementInv
<1>2. CASE scheduled_pods[v] = None
  <2>1. ns = node /\ sp = scheduled_pods
    BY <1>2 DEF Releases, Holder, NodeAfterUnschedule, ScheduledAfterUnschedule, TypeOK
  <2> QED BY <1>1, <2>1
<1>3. CASE scheduled_pods[v] # None
  <2>1. PICK i \in NodeIds : i = scheduled_pods[v]
    BY <1>3 DEF TypeOK
  <2>2. PICK h \in NodeObjs : h = nodes[i] /\ IdOf[h] = i
    BY <1>1, <1>3, <2>1 DEF TypeOK, Agree
  <2>3. Holder(v) = h /\ h # None /\ v \in node[h].assigned
    BY <1>1, <1>3, <2>1, <2>2 DEF Holder, Agree, Registered, ConstantsOK
  <2>4. ns = [node EXCEPT ![h] = Released(@, v)] /\ sp = [scheduled_pods EXCEPT ![v] = None]
    BY <2>3 DEF Releases, NodeAfterUnschedule, ScheduledAfterUnschedule
  <2> HIDE DEF ns, sp
  <2>5. Released(node[h], v).assigned = node[h].assigned \ {v}
    BY DEF Released, TypeOK, NodeState
  <2>6. ns[h].assigned = node[h].assigned \ {v}
        /\ \A o \in NodeObjs : o # h => ns[o].assigned = node[o].assigned
    BY <2>4, <2>5 DEF TypeOK
  <2>7. sp[v] = None /\ \A p \in Pods : p # v => sp[p] = scheduled_pods[p]
    BY <2>4 DEF TypeOK
  <2>8. ASSUME NEW p \in Pods, NEW o \in NodeObjs
        PROVE  p \in ns[o].assigned <=> (Registered(o) /\ sp[p] = IdOf[o])
    <3>1. p \in node[o].assigned <=> (Registered(o) /\ scheduled_pods[p] = IdOf[o])
      BY <1>1 DEF Agree
    <3>2. CASE p = v
      <4>1. o # h => v \notin node[o].assigned
        BY <1>1, <2>1, <2>2 DEF Agree, Registered
      <4>2. v \notin ns[o].assigned
        BY <2>6, <4>1
      <4>3. IdOf[o] # None
        BY DEF ConstantsOK
      <4> QED BY <2>7, <3>2, <4>2, <4>3
    <3>3. CASE p # v
      BY <2>6, <2>7, <3>1, <3>3
    <3> QED BY <3>2, <3>3
  <2>9. \A p \in Pods : sp[p] # None => nodes[sp[p]] # None
    BY <1>1, <2>7 DEF Agree
  <2> QED BY <2>8, <2>9 DEF Agree, ns, sp
<1> QED BY <1>2, <1>3

\* Reserving for a pod that is nowhere on a registered node enters it in both records.
LEMMA ReserveAgrees ==
  ASSUME NEW ns, GoodNodes(ns), NEW sp \in [Pods -> NodeIds \cup {None}], Agree(ns, sp),
         NEW o \in NodeObjs, Registered(o), NEW p \in Pods, NEW G,
         \A u \in NodeObjs : p \notin ns[u].assigned
  PROVE  Agree([ns EXCEPT ![o] = Reserved(@, p, G)], [sp EXCEPT ![p] = IdOf[o]])
<1> DEFINE m == [ns EXCEPT ![o] = Reserved(@, p, G)]
           t == [sp EXCEPT ![p] = IdOf[o]]
<1>1. Reserved(ns[o], p, G).assigned = ns[o].assigned \cup {p}
  BY DEF GoodNodes, NodeState, Reserved
<1>2. m[o].assigned = ns[o].assigned \cup {p} /\ \A u \in NodeObjs : u # o => m[u].assigned = ns[u].assigned
  BY <1>1 DEF GoodNodes
<1>3. t[p] = IdOf[o] /\ \A r \in Pods : r # p => t[r] = sp[r]
  OBVIOUS
<1>4. nodes[IdOf[o]] = o /\ o # None
  BY DEF Registered, ConstantsOK
<1> HIDE DEF m, t
<1>5. ASSUME NEW r \in Pods, NEW u \in NodeObjs
      PROVE  r \in m[u].assigned <=> (Registered(u) /\ t[r] = IdOf[u])
  <2>1. CASE r = p
    <3>1. p \in m[u].assigned <=> u = o
      BY <1>2
    <3>2. (Registered(u) /\ IdOf[o] = IdOf[u]) <=> u = o
      BY <1>4 DEF Registered
    <3> QED BY <1>3, <2>1, <3>1, <3>2
  <2>2. CASE r # p
    <3>1. r \in m[u].assigned <=> r \in ns[u].assigned
      BY <1>2, <2>2
    <3> QED BY <1>3, <2>2, <3>1 DEF Agree
  <2> QED BY <2>1, <2>2
<1>6. \A r \in Pods : t[r] # None => nodes[t[r]] # None
  BY <1>3, <1>4 DEF Agree
<1> QED BY <1>5, <1>6 DEF Agree, m, t

\* A preempting call goes on to a node it had still to visit.
LEMMA VisitRegistered ==
  ASSUME TypeOK, NEW p \in Pods, NEW todo \in SUBSET NodeObjs, NEW ns, VisitNext(p, todo, ns),
         \A o \in todo : Registered(o)
  PROVE  \A r \in Pods : call'[r].pc = "evicting" =>
            \/ call'[r] = call[r] /\ r # p
            \/ Registered(call'[r].at) /\ \A o \in call'[r].todo : Registered(o)
<1>1. CASE call' = [call EXCEPT ![p] = Returned]
  BY <1>1 DEF TypeOK, Returned, Idle
<1>2. ASSUME NEW o \in todo, NEW passed, NEW S,
             call' = [call EXCEPT ![p] = [pc |-> "evicting", at |-> o, victims |-> S,
                                          todo |-> todo \ (passed \cup {o})]]
      PROVE  \A r \in Pods : call'[r].pc = "evicting" =>
                \/ call'[r] = call[r] /\ r # p
                \/ Registered(call'[r].at) /\ \A u \in call'[r].todo : Registered(u)
  <2>1. call'[p].at = o /\ call'[p].todo \subseteq todo /\ \A r \in Pods : r # p => call'[r] = call[r]
    BY <1>2 DEF TypeOK
  <2> QED BY <2>1
<1> QED BY <1>1, <1>2 DEF VisitNext

\* Without churn every step keeps ledgers and scheduled_pods together.
LEMMA PlacementStep ==
  ASSUME ~ AllowChurn
  PROVE  IInv /\ PlacementInv /\ [Next]_vars => PlacementInv'
<1> SUFFICES ASSUME IInv, PlacementInv, [Next]_vars PROVE PlacementInv'
  OBVIOUS
<1>1. /\ TypeOK /\ GoodNodes(node) /\ Agree(node, scheduled_pods)
      /\ \A i \in NodeIds : nodes[i] # None => IdOf[nodes[i]] = i
      /\ \A p \in Pods : call[p].pc = "evicting" =>
           Registered(call[p].at) /\ \A o \in call[p].todo : Registered(o)
  BY DEF IInv, TypeOK, GoodNodes, PlacementInv
<1>2. ASSUME UNCHANGED nodes, Agree(node', scheduled_pods'),
             \A p \in Pods : call'[p].pc = "evicting" =>
               \/ call'[p] = call[p]
               \/ Registered(call'[p].at) /\ \A o \in call'[p].todo : Registered(o)
      PROVE  PlacementInv'
  <2>1. \A p \in Pods : call'[p].pc = "evicting" =>
          Registered(call'[p].at) /\ \A o \in call'[p].todo : Registered(o)
    BY <1>1, <1>2
  <2>2. \A o : Registered(o)' <=> nodes[IdOf[o]] = o
    BY <1>2 DEF Registered
  <2>3. Agree(node, scheduled_pods)'
    BY <1>2 DEF Agree, Registered
  <2>4. \A i \in NodeIds : nodes'[i] # None => IdOf[nodes'[i]] = i
    BY <1>1, <1>2
  <2> QED BY <1>2, <2>1, <2>3, <2>4 DEF PlacementInv, Registered
<1>3. ASSUME NEW p \in Pods, \A r \in Pods : r # p => call'[r] = call[r], call'[p] = Returned
      PROVE  \A r \in Pods : call'[r].pc = "evicting" => call'[r] = call[r]
  BY <1>3 DEF Returned, Idle
<1>4. ASSUME NEW p \in Pods, Reject(p) \/ RejectLowScores(p) PROVE PlacementInv'
  <2>1. Fail(p)
    BY <1>4 DEF Reject, RejectLowScores
  <2>2. UNCHANGED <<nodes, node, scheduled_pods>> /\ call' = [call EXCEPT ![p] = Returned]
    BY <2>1 DEF Fail
  <2>3. \A r \in Pods : call'[r].pc = "evicting" => call'[r] = call[r]
    BY <1>1, <1>3, <2>2 DEF TypeOK
  <2>4. Agree(node', scheduled_pods')
    BY <1>1, <2>2
  <2> QED BY <1>2, <2>2, <2>3, <2>4
<1>5. ASSUME NEW p \in Pods, Place(p) PROVE PlacementInv'
  <2>0. PICK o \in ValidNodes(p) : \E G \in GpuChoices(node[o], p) :
           /\ node' = [node EXCEPT ![o] = Reserved(@, p, G)]
           /\ scheduled_pods' = [scheduled_pods EXCEPT ![p] = IdOf[o]]
           /\ Record(p, o)
    BY <1>5 DEF Place
  <2>1. PICK G \in GpuChoices(node[o], p) :
           /\ node' = [node EXCEPT ![o] = Reserved(@, p, G)]
           /\ scheduled_pods' = [scheduled_pods EXCEPT ![p] = IdOf[o]]
           /\ call' = [call EXCEPT ![p] = Returned]
    BY <2>0 DEF Record
  <2>2. o \in NodeObjs /\ Registered(o)
    BY DEF ValidNodes, ActiveNodes, Registered
  <2>3. \A u \in NodeObjs : p \notin node[u].assigned
    BY <1>5 DEF Place, Idle, IInv, Unplaced
  <2>4. scheduled_pods \in [Pods -> NodeIds \cup {None}] /\ UNCHANGED nodes
    BY <1>1, <1>5 DEF TypeOK, Place
  <2>5. Agree([node EXCEPT ![o] = Reserved(@, p, G)], [scheduled_pods EXCEPT ![p] = IdOf[o]])
    BY <1>1, <2>2, <2>3, <2>4, ReserveAgrees
  <2>6. Agree(node', scheduled_pods')
    BY <2>1, <2>5
  <2>7. \A r \in Pods : call'[r].pc = "evicting" => call'[r] = call[r]
    BY <1>1, <1>3, <2>1 DEF TypeOK
  <2> QED BY <1>2, <2>4, <2>6, <2>7
<1>6. ASSUME NEW p \in Pods, StartPreemption(p) PROVE PlacementInv'
  <2>1. UNCHANGED <<nodes, node, scheduled_pods>> /\ VisitNext(p, ActiveNodes, node)
    BY <1>6 DEF StartPreemption
  <2>2. ActiveNodes \in SUBSET NodeObjs /\ \A o \in ActiveNodes : Registered(o)
    BY DEF ActiveNodes, Registered
  <2>3. \A r \in Pods : call'[r].pc = "evicting" =>
            \/ call'[r] = call[r] /\ r # p
            \/ Registered(call'[r].at) /\ \A o \in call'[r].todo : Registered(o)
    BY <1>1, <2>1, <2>2, VisitRegistered
  <2>4. Agree(node', scheduled_pods')
    BY <1>1, <2>1
  <2> QED BY <1>2, <2>1, <2>3, <2>4
<1>7. ASSUME NEW v \in Pods, Unschedule(v) PROVE PlacementInv'
  <2>1. Agree(node', scheduled_pods') /\ UNCHANGED <<nodes, call>>
    BY <1>1, <1>7, UnscheduleAgrees DEF Unschedule
  <2> QED BY <1>2, <2>1
<1>8. ASSUME NEW p \in Pods, NEW v \in Pods, NEW e \in BOOLEAN, Resume(p, v, e) PROVE PlacementInv'
  <2> DEFINE ns == IF e THEN NodeAfterUnschedule(v) ELSE node
             sp == IF e THEN ScheduledAfterUnschedule(v) ELSE scheduled_pods
  <2>1. /\ GoodNodes(ns) /\ Agree(ns, sp) /\ sp \in [Pods -> NodeIds \cup {None}]
        /\ \A u \in NodeObjs : ns[u].assigned \subseteq node[u].assigned
    BY <1>1, UnscheduleTyped, UnscheduleAgrees DEF TypeOK
  <2>2. call[p].pc = "evicting" /\ call[p].at \in NodeObjs /\ Registered(call[p].at)
        /\ call[p].todo \in SUBSET NodeObjs /\ (\A o \in call[p].todo : Registered(o)) /\ UNCHANGED nodes
    BY <1>1, <1>8 DEF Resume, TypeOK, CallState
  <2>3. \/ NextVictim(p, v) /\ node' = ns /\ scheduled_pods' = sp
        \/ ReserveCleared(p, ns, sp)
        \/ MoveOn(p, ns) /\ node' = ns /\ scheduled_pods' = sp
    BY <1>8 DEF Resume
  <2> HIDE DEF ns, sp
  <2>4. CASE NextVictim(p, v) /\ node' = ns /\ scheduled_pods' = sp
    <3>1. call' = [call EXCEPT ![p].victims = @ \ {v}]
      BY <2>4 DEF NextVictim
    <3>2. \A r \in Pods : call'[r].pc = call[r].pc /\ call'[r].at = call[r].at /\ call'[r].todo = call[r].todo
      BY <1>1, <3>1 DEF TypeOK, CallState
    <3>3. \A r \in Pods : call'[r].pc = "evicting" =>
            Registered(call'[r].at) /\ \A o \in call'[r].todo : Registered(o)
      BY <1>1, <3>2
    <3> QED BY <1>2, <2>1, <2>2, <2>4, <3>3
  <2>5. CASE ReserveCleared(p, ns, sp)
    <3>1. PICK G : /\ node' = [ns EXCEPT ![call[p].at] = Reserved(@, p, G)]
                   /\ scheduled_pods' = [sp EXCEPT ![p] = IdOf[call[p].at]]
                   /\ call' = [call EXCEPT ![p] = Returned]
      BY <2>5 DEF ReserveCleared, Record
    <3>2. \A u \in NodeObjs : p \notin ns[u].assigned
      BY <2>1, <2>2 DEF IInv, Unplaced
    <3>3. Agree([ns EXCEPT ![call[p].at] = Reserved(@, p, G)], [sp EXCEPT ![p] = IdOf[call[p].at]])
      BY <2>1, <2>2, <3>2, ReserveAgrees
    <3>4. \A r \in Pods : call'[r].pc = "evicting" => call'[r] = call[r]
      BY <1>1, <1>3, <3>1 DEF TypeOK
    <3>5. Agree(node', scheduled_pods')
      BY <3>1, <3>3
    <3> QED BY <1>2, <2>2, <3>4, <3>5
  <2>6. CASE MoveOn(p, ns) /\ node' = ns /\ scheduled_pods' = sp
    <3>1. VisitNext(p, call[p].todo, ns)
      BY <2>6 DEF MoveOn
    <3>2. \A r \in Pods : call'[r].pc = "evicting" =>
            \/ call'[r] = call[r] /\ r # p
            \/ Registered(call'[r].at) /\ \A o \in call'[r].todo : Registered(o)
      BY <1>1, <2>2, <3>1, VisitRegistered
    <3> QED BY <1>2, <2>1, <2>2, <2>6, <3>2
  <2> QED BY <2>3, <2>4, <2>5, <2>6
<1>9. ASSUME NEW o \in NodeObjs, UpdateMetrics(o) \/ ChangeNodeStatus(o) PROVE PlacementInv'
  <2>1. \A u \in NodeObjs : node'[u].assigned = node[u].assigned
    BY <1>1, <1>9, ObservationsKeepReservations
  <2>2. UNCHANGED <<nodes, scheduled_pods, call>>
    BY <1>9 DEF UpdateMetrics, ChangeNodeStatus
  <2>3. Agree(node', scheduled_pods')
    BY <1>1, <2>1, <2>2 DEF Agree
  <2> QED BY <1>2, <2>2, <2>3
<1>10. ASSUME NEW o \in NodeObjs, RegisterNode(o) PROVE PlacementInv'
  <2>1. /\ nodes[IdOf[o]] = None /\ nodes' = [nodes EXCEPT ![IdOf[o]] = o]
        /\ UNCHANGED <<node, scheduled_pods, call>> /\ IdOf[o] \in NodeIds /\ o # None
    BY <1>10 DEF RegisterNode, ConstantsOK
  <2>2. ASSUME NEW u \in NodeObjs, Registered(u)
        PROVE  Registered(u)'
    <3>1. IdOf[u] # IdOf[o]
      BY <2>1, <2>2 DEF Registered, ConstantsOK
    <3> QED BY <2>1, <2>2, <3>1 DEF Registered, TypeOK, ConstantsOK
  <2>3. ASSUME NEW p \in Pods, NEW u \in NodeObjs
        PROVE  p \in node'[u].assigned <=> (Registered(u)' /\ scheduled_pods'[p] = IdOf[u])
    <3>1. p \in node[u].assigned <=> (Registered(u) /\ scheduled_pods[p] = IdOf[u])
      BY <1>1 DEF Agree
    <3>2. CASE IdOf[u] = IdOf[o]
      <4>1. scheduled_pods[p] # IdOf[u]
        BY <1>1, <2>1, <3>2 DEF Agree, ConstantsOK
      <4> QED BY <2>1, <3>1, <4>1
    <3>3. CASE IdOf[u] # IdOf[o]
      <4>1. Registered(u)' <=> Registered(u)
        BY <1>1, <2>1, <3>3 DEF Registered, TypeOK, ConstantsOK
      <4> QED BY <2>1, <3>1, <4>1
    <3> QED BY <3>2, <3>3
  <2>4. \A p \in Pods : scheduled_pods'[p] # None => nodes'[scheduled_pods'[p]] # None
    BY <1>1, <2>1 DEF Agree, TypeOK
  <2>5. Agree(node, scheduled_pods)'
    BY <2>3, <2>4 DEF Agree
  <2>6. \A i \in NodeIds : nodes'[i] # None => IdOf[nodes'[i]] = i
    BY <1>1, <2>1 DEF TypeOK
  <2>7. \A p \in Pods : (call[p].pc = "evicting" =>
                            Registered(call[p].at) /\ \A u \in call[p].todo : Registered(u))'
    <3> SUFFICES ASSUME NEW p \in Pods, call[p].pc = "evicting"
                 PROVE  (Registered(call[p].at) /\ \A u \in call[p].todo : Registered(u))'
      BY <2>1
    <3>1. call[p].at \in NodeObjs /\ Registered(call[p].at) /\ call[p].todo \in SUBSET NodeObjs
          /\ \A u \in call[p].todo : Registered(u)
      BY <1>1 DEF TypeOK, CallState
    <3> QED BY <2>1, <2>2, <3>1
  <2> QED BY <2>5, <2>6, <2>7 DEF PlacementInv
<1>11. ASSUME UNCHANGED vars PROVE PlacementInv'
  BY <1>1, <1>2, <1>11 DEF vars
<1> QED BY <1>4, <1>5, <1>6, <1>7, <1>8, <1>9, <1>10, <1>11
        DEF Next, ScheduleStep, ResumeStep, UnregisterNode

(***************************************************************************)
(* Where nodes stay registered a pod is recorded at the id of a node       *)
(* exactly when that node holds its reservation: no failed eviction,       *)
(* double release or preemption under way makes the two records differ.    *)
(***************************************************************************)
THEOREM PlacementsCorrect ==
  ASSUME ~ AllowChurn
  PROVE  Spec => []PlacementsAgree
<1>1. Init => PlacementInv
  BY DEF Init, PlacementInv, Agree, Registered, Idle, ConstantsOK
<1>2. IInv /\ PlacementInv /\ [Next]_vars => PlacementInv'
  BY PlacementStep
<1>3. PlacementInv => PlacementsAgree
  BY DEF PlacementInv, Agree, Registered, PlacementsAgree
<1> QED BY <1>1, <1>2, <1>3, Inductive, PTL DEF Spec

=============================================================================
