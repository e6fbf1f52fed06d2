------------------------------ MODULE MCInbox -------------------------------
(* One call per process, and two calls that share a file.                  *)
EXTENDS Inbox, TLC

CONSTANTS p1, p2, c1, c2

OneEach == (c1 :> p1) @@ (c2 :> p2)
Together == [c \in {c1, c2} |-> p1]
=============================================================================
