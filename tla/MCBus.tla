------------------------------- MODULE MCBus --------------------------------
(* Two items are written in a behaviour, drawn from the casts: two changes *)
(* whose commits may come in either order, a message and a change, a       *)
(* message and something that is not for this window.                      *)
EXTENDS Bus

CONSTANTS Casts
VARIABLE cast

MCInit == cast \in Casts /\ Init
MCNext ==
    /\ Next
    /\ \A i \in Items \ cast : tx'[i] = "none"
    /\ UNCHANGED cast
MCSpec == MCInit /\ [][MCNext]_<<cast, vars>> /\ Fairness
=============================================================================
