------------------------------ MODULE MCProxy -------------------------------
(* One conversation, two processes side by side; profiles of one team and  *)
(* of another.                                                             *)
EXTENDS Proxy, TLC

CONSTANTS p1, p2, mine, other, theirs, crew, rivals

Teams == (mine :> crew) @@ (other :> crew) @@ (theirs :> rivals)
Crew == (mine :> crew) @@ (other :> crew)

Symmetry == Permutations(Procs)
=============================================================================
