------------------------------ MODULE MCNotify ------------------------------
(* The two ways news leave the bus, on a small instance: webhooks, pushed  *)
(* by the server, and the wake of an idle window, pulled by its watcher or *)
(* adapter.  They share no state, so a behaviour exercises one of them,    *)
(* chosen at the start, with the other at rest.                            *)
EXTENDS Webhooks, Wake

VARIABLE channel

MCInit == /\ channel \in {"webhook", "wake"}
          /\ WebhooksInit /\ WakeInit
          /\ channel = "webhook" => host = "claude"

MCNext ==
    \/ channel = "webhook" /\ WebhooksNext /\ UNCHANGED <<channel, wakeVars>>
    \/ channel = "wake" /\ WakeNext /\ UNCHANGED <<channel, hookVars>>

\* The one at rest has no step enabled to be fair to.
MCSpec == /\ MCInit /\ [][MCNext]_<<channel, hookVars, wakeVars>>
          /\ WebhooksFairness /\ WakeFairness
=============================================================================
