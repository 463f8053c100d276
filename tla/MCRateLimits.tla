--------------------------- MODULE MCRateLimits ---------------------------
(* An instance of RateLimits for TLC. *)
EXTENDS RateLimits, TLC

CONSTANTS c1, c2, c3, c4, c5

MCMaxTokens == [g \in Gates |-> IF g = "ip" THEN 2 ELSE 1]

MCSymmetry == Permutations(Clients)
===========================================================================
