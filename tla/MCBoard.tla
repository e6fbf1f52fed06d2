------------------------------ MODULE MCBoard -------------------------------
(* The team's boards on a small instance: tasks, advisory locks and one    *)
(* scope of messages.  They share no state but the clock (every table they *)
(* write is their own), so a behaviour exercises one of them, chosen at    *)
(* the start, with the others at rest.                                     *)
EXTENDS Tasks, Locks, Messages, TLC

VARIABLE board

MCInit == /\ board \in {"tasks", "locks", "messages"}
          /\ Init /\ LocksInit /\ MessagesInit

MCNext ==
    \/ /\ board = "tasks" /\ Next
       /\ UNCHANGED <<board, lock, lpc, lwho, lname, lnow, messageVars>>
    \/ /\ board = "locks" /\ LocksNext
       /\ UNCHANGED <<board, task, pc, req, messageVars>>
    \/ /\ board = "messages" /\ MessagesNext
       /\ UNCHANGED <<board, lockVars, vars>>

MCSpec == MCInit /\ [][MCNext]_<<board, lockVars, vars, messageVars>>

Symmetry == Permutations(Windows) \cup Permutations(Reqs) \cup Permutations(Keys)
=============================================================================
