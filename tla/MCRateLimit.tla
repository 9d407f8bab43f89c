---------------------------- MODULE MCRateLimit -----------------------------
(* RateLimit for TLC. *)
EXTENDS RateLimit, TLC

Symmetry == Permutations(Requests)
=============================================================================
