----------------------------- MODULE MCBreaker -----------------------------
(* A shared client with two slots, a line of three and one caller more.    *)
EXTENDS Breaker, TLC

Symmetric == Permutations(Callers)
=============================================================================
