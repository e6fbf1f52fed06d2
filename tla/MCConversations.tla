-------------------------- MODULE MCConversations --------------------------
(* One conversation of agent A with two windows and agent B with one.      *)
EXTENDS Conversations, TLC

CONSTANTS A, B, a1, a2, b1, c1, c2

MCAgentOf == [w \in Windows |-> IF w = b1 THEN B ELSE A]
(* Nothing tells the two calls apart.                                     *)
CallSymmetry == Permutations(Calls)
=============================================================================
