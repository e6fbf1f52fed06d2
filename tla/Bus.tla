--------------------------------- MODULE Bus ---------------------------------
(***************************************************************************)
(* wait_for_updates above the LISTEN connection: what module Listener      *)
(* hears is what module Waits is notified of.                              *)
(***************************************************************************)
EXTENDS Listener, Waits

vars == <<lvars, wvars>>

Init == ListenerInit /\ WaitsInit

(* While nothing listens, a NOTIFY goes nowhere; a dropped connection      *)
(* takes what was on its way with it.                                      *)
Connect == Attach /\ NotifyLost
Disconnect == (\E to \in {"detached", "deaf", "live"} : ConnectionFails(to)) /\ NotifyLost
Tick == PingTick /\ UNCHANGED wvars
Heard == Echo /\ UNCHANGED wvars

Deliveries == \E i \in Items : conn = "live" /\ Publish(i) /\ UNCHANGED lvars
Writes == \E i \in Items : (Write(i) \/ Commit(i)) /\ UNCHANGED lvars
Consumes == \E m \in Messages : Consume(m) /\ UNCHANGED lvars

DoCall == Call /\ UNCHANGED lvars
DoFirstReplay == FirstReplay /\ UNCHANGED lvars
DoCountUnread == CountUnread /\ UNCHANGED lvars
DoRecv == Recv /\ UNCHANGED lvars
DoStop == Stop /\ UNCHANGED lvars
DoLastReplay == LastReplay /\ UNCHANGED lvars
DoDeliver == Deliver /\ UNCHANGED lvars
DoLose == Lose /\ UNCHANGED lvars

Next ==
    \/ Connect \/ Disconnect \/ Tick \/ Heard
    \/ Deliveries \/ Writes \/ Consumes
    \/ DoCall \/ DoFirstReplay \/ DoCountUnread \/ DoRecv \/ DoStop
    \/ DoLastReplay \/ DoDeliver \/ DoLose

(* The ticker ticks, and a detached listener tries again every 2 seconds   *)
(* until Postgres answers.  The client waits again; a call that is not     *)
(* interrupted runs to its end, its deadline passes, and not every call or *)
(* answer is lost.                                                         *)
Fairness ==
    /\ WF_vars(Tick) /\ WF_vars(Connect) /\ WF_vars(DoCall)
    /\ SF_vars(DoFirstReplay) /\ SF_vars(DoCountUnread) /\ SF_vars(DoStop)
    /\ SF_vars(DoLastReplay) /\ SF_vars(DoDeliver)

Spec == Init /\ [][Next]_vars /\ Fairness
=============================================================================
