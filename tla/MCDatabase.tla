----------------------------- MODULE MCDatabase -----------------------------
(***************************************************************************)
(* As many operations that log as the pool has connections.                *)
(***************************************************************************)
EXTENDS Database

FairDatabaseSpec == DatabaseSpec /\ DatabaseFairness
=============================================================================
