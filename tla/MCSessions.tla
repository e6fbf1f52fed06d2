----------------------------- MODULE MCSessions -----------------------------
(* Sessions on a small instance: concurrent requests of one agent.         *)
EXTENDS Sessions, TLC

Symmetry == Permutations(Reqs) \cup Permutations(Tokens)
=============================================================================
