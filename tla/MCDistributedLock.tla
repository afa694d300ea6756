------------------------- MODULE MCDistributedLock -------------------------
(***************************************************************************)
(* Two clients that try three times between them.                          *)
(***************************************************************************)
EXTENDS DistributedLock

CONSTANTS k1, k2
===========================================================================
