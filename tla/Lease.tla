------------------------------- MODULE Lease --------------------------------
(***************************************************************************)
(* What a task claim and an advisory lock both promise: a resource has at  *)
(* most one holder, and a holder whose lease has not run out loses it to   *)
(* nobody.  The resource may pass from one window to another only through  *)
(* "free" or after the lease ran out by the real clock.                    *)
(***************************************************************************)
EXTENDS Integers

CONSTANTS Resources, Windows, None

VARIABLES clock,    \* real time
          holder,   \* window that holds each resource, or None
          until     \* when its lease runs out; meaningless without a holder

vars == <<clock, holder, until>>

Init ==
    /\ clock \in Nat
    /\ holder = [r \in Resources |-> None]
    /\ until \in [Resources -> Int]

Live(r) == holder[r] # None /\ until[r] >= clock

(* A grant to w of a resource that is free, lapsed, or w's already.        *)
Grant(r, w) ==
    /\ Live(r) => holder[r] = w
    /\ holder' = [holder EXCEPT ![r] = w]
    /\ until' = [until EXCEPT ![r] = until'[r]]
    /\ UNCHANGED clock

(* Released, completed, or given up.                                       *)
Free(r) ==
    /\ holder' = [holder EXCEPT ![r] = None]
    /\ until' = [until EXCEPT ![r] = until'[r]]
    /\ UNCHANGED clock

Tick == clock' = clock + 1 /\ UNCHANGED <<holder, until>>

Next == Tick \/ \E r \in Resources : Free(r) \/ \E w \in Windows : Grant(r, w)

Spec == Init /\ [][Next]_vars
=============================================================================
