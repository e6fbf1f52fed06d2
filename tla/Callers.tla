------------------------------ MODULE Callers -------------------------------
(* What the task board and the lock table have in common: the windows that *)
(* call them, the requests those calls are, and the database's clock.      *)
EXTENDS Integers

CONSTANTS Windows,   \* (agent, session) pairs
          Reqs,      \* concurrent requests
          MaxClock,  \* bound: the clock stops here
          None

ASSUME CallersConstants == MaxClock \in Nat /\ None \notin Windows

VARIABLE clock

Advance == clock < MaxClock /\ clock' = clock + 1
=============================================================================
