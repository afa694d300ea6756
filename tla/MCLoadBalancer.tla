-------------------------- MODULE MCLoadBalancer --------------------------
(***************************************************************************)
(* Two backends, of which one may be listed twice, and two connections.    *)
(***************************************************************************)
EXTENDS LoadBalancer

CONSTANTS b1, b2

MCBackendIds == {b1, b2}
MCAlgorithms == {"round-robin", "least-connections"}
=============================================================================
