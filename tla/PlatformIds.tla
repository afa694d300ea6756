---------------------------- MODULE PlatformIds ----------------------------
(***************************************************************************)
(* Parameters the managers that are checked together have in common.       *)
(***************************************************************************)

CONSTANTS
  Pods,
  Calls,      \* calls in flight that suspend in between
  None

ASSUME NoneIsNoPod == None \notin Pods
=============================================================================
