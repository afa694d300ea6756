------------------------- MODULE MCPodOrchestrator -------------------------
(***************************************************************************)
(* Three container pods that compete for one permit, one of which docker   *)
(* may fail, and a pod of every other type, the machines failing at will;  *)
(* two destroy_pod calls that may go for the same pod.                     *)
(***************************************************************************)
EXTENDS PodOrchestrator, TLC

CONSTANTS c1, c2, c3, v1, m1, h1, d1, d2

MCPods == {c1, c2, c3, v1, m1, h1}
MCKind == [p \in MCPods |-> IF p = v1 THEN "vm" ELSE IF p = m1 THEN "microvm"
                           ELSE IF p = h1 THEN "hybrid" ELSE "container"]
MCFaulty == {c1, v1, m1}
\* Pods and calls that nothing tells apart.
Symmetric == Permutations({c2, c3}) \cup Permutations(Destroyers)
===========================================================================
