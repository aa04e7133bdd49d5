------------------------------ MODULE MCAdvisor ------------------------------
(***************************************************************************)
(* Model values for Advisor: two conversations, of two tool calls at most. *)
(***************************************************************************)
EXTENDS Advisor, TLC
Symmetry == Permutations(Conversations)
=============================================================================
