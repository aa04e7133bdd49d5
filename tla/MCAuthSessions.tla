--------------------------- MODULE MCAuthSessions ----------------------------
(***************************************************************************)
(* Model values for AuthSessions: all four kinds of identifiers are        *)
(* interchangeable.  A run has a tick of the clock or an expiring          *)
(* challenge, not both.                                                    *)
(***************************************************************************)
EXTENDS AuthSessions, TLC

Symmetry == Permutations(Users) \cup Permutations(Challenges)
              \cup Permutations(Sessions) \cup Permutations(Requests)

TimeBound == clock + Cardinality(Expired) <= 1
==============================================================================
