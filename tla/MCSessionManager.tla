------------------------- MODULE MCSessionManager -------------------------
(***************************************************************************)
(* Three sessions with pods, one of them asked for without a repository,   *)
(* and an AI environment, over one node with room for two and one permit   *)
(* to start containers.                                                    *)
(***************************************************************************)
EXTENDS SessionManager

CONSTANTS s1, s2, s3, a1, c1, c2, c3, n1

MCSessions == {s1, s2, s3, a1}
MCPodIds == {c1, c2, c3}
MCKind == [p \in MCPodIds |-> "container"]
MCPodOf == [s \in {s1, s2, s3} |-> IF s = s1 THEN c1 ELSE IF s = s2 THEN c2 ELSE c3]
MCSlots == [n \in {n1} |-> 2]
===========================================================================
