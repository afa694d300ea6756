---------------------------- MODULE Allocation ----------------------------
(***************************************************************************)
(* What a scheduler of finite nodes promises, whatever its policy: pods    *)
(* are granted room on a node and lose it again; the pods a node holds     *)
(* always fit it; one decision grants one pod, on one node; and a pod that *)
(* lost its room does not get it back under the same id.                   *)
(***************************************************************************)
EXTENDS Integers, FiniteSets, ResourceSums

CONSTANTS NodeObjs, Pods, Quantities, Capacity, Demand

VARIABLES
  holds,    \* the pods each node holds
  granted   \* the pods that were ever granted room

avars == <<holds, granted>>

AInit ==
  /\ holds = [o \in NodeObjs |-> {}]
  /\ granted = {}

FitsTogether(o, S) ==
  \A q \in Quantities : SumOver(Demand[q], S) <= Capacity[o][q]

Without(u, v) == [holds EXCEPT ![u] = @ \ {v}]

Revoke(u, v) ==
  /\ holds' = Without(u, v)
  /\ UNCHANGED granted

\* Grant p room on o, when h is what the nodes hold otherwise.
Grant(o, p, h) ==
  /\ p \notin granted
  /\ FitsTogether(o, h[o] \cup {p})
  /\ holds' = [h EXCEPT ![o] = @ \cup {p}]
  /\ granted' = granted \cup {p}

ANext ==
  \E o \in NodeObjs, p \in Pods :
     \/ Revoke(o, p)
     \/ Grant(o, p, holds)
     \/ \E u \in NodeObjs, v \in Pods : Grant(o, p, Without(u, v))

ASpec == AInit /\ [][ANext]_avars
===========================================================================
