---------------------------- MODULE MCCoreRuntime ----------------------------
(***************************************************************************)
(* Instances of CoreRuntime for TLC: one compiled and one signed version.  *)
(***************************************************************************)
EXTENDS CoreRuntime

CONSTANTS compiled, other, cap, r1
=============================================================================
