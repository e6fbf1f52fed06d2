------------------------------- MODULE MCHost -------------------------------
(* The proxies of one host on a small instance: two of them on one         *)
(* conversation, or one spool file under two fetch calls.  Neither reads   *)
(* what the other writes, so a behaviour exercises one of them, chosen at  *)
(* the start, with the other at rest.                                      *)
EXTENDS MCProxy, Inbox

CONSTANTS spooler, c1, c2

VARIABLE part

Together == [c \in {c1, c2} |-> spooler]

MCInit == part \in {"proxies", "spool"} /\ ProxyInit /\ Init

(* Under the spool the broker takes nothing, so that all references come   *)
(* from the bus's own records, and the window keeps its seat and grant;    *)
(* what these do is in MCInbox.                                            *)
MCNext ==
    \/ part = "proxies" /\ ProxyNext /\ UNCHANGED <<part, vars>>
    \/ part = "spool" /\ Next /\ UNCHANGED <<part, broker, seat, grant, proxyVars>>

MCSpec == MCInit /\ [][MCNext]_<<part, proxyVars, vars>>
=============================================================================
