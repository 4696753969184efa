----------------------------- MODULE MCGovernedPlan ----------------------------
(***************************************************************************)
(* TLC instance of GovernedPlan.                                           *)
(***************************************************************************)
EXTENDS GovernedPlan
=============================================================================
