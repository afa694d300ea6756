---------------------------- MODULE MCScheduler ----------------------------
(***************************************************************************)
(* Two instances under two ids (or, with churn, two instances that compete *)
(* for one id), one of them with a GPU, and four requests: two ordinary    *)
(* pods, one of them with a GPU, and two requests that                     *)
(* may preempt, of different priority.                                     *)
(***************************************************************************)
EXTENDS Scheduler

CONSTANTS n1, n2, a, b, p1, p2, p3, p4, g1

MCNodeIds == {n1, n2}
MCNodeObjs == {a, b}
MCIdOf == [o \in MCNodeObjs |-> IF o = a THEN n1 ELSE n2]
MCIdOfOne == [o \in MCNodeObjs |-> n1]
MCPods == {p1, p2, p3, p4}
MCQuantities == {"cpu", "vram"}
MCCapacity == [o \in MCNodeObjs |->
                 [q \in MCQuantities |-> IF q = "cpu" THEN 2 ELSE IF o = a THEN 1 ELSE 0]]
MCDemand == [q \in MCQuantities |->
               [p \in MCPods |-> IF q = "cpu" THEN (IF p = p3 THEN 2 ELSE 1)
                                 ELSE IF p \in {p2, p4} THEN 1 ELSE 0]]
MCDevices == [o \in MCNodeObjs |-> IF o = a THEN {g1} ELSE {}]
MCGpuCount == [p \in MCPods |-> IF p \in {p2, p4} THEN 1 ELSE 0]
MCCapable == [p \in MCPods |-> IF p = p3 THEN {b} ELSE IF p = p1 THEN {a, b} ELSE {a}]
MCPriority == [p \in MCPods |-> CASE p = p1 -> 60 [] p = p2 -> 50 [] p = p3 -> 75 [] p = p4 -> 90]
=============================================================================
