--------------------------- MODULE MCRedisPubSub ---------------------------
(***************************************************************************)
(* Three channels; the connection is lost up to two times.                 *)
(***************************************************************************)
EXTENDS RedisPubSub

CONSTANTS ch1, ch2, ch3
===========================================================================
