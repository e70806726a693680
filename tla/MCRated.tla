------------------------------ MODULE MCRated ------------------------------
(* Scenarios of the rate limiter and the retry loop for TLC. *)
EXTENDS RatedCalls, TLC

CONSTANTS a, b, c

ThreeCallers == {a, b, c}
Symmetry == Permutations(Callers)
=============================================================================
