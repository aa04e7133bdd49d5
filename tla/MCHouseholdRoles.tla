-------------------------- MODULE MCHouseholdRoles ---------------------------
(***************************************************************************)
(* HouseholdRoles for model checking.  Members and requests are            *)
(* interchangeable, but the run checks liveness and uses no symmetry.      *)
(***************************************************************************)
EXTENDS HouseholdRoles, TLC
==============================================================================
