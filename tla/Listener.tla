------------------------------ MODULE Listener ------------------------------
(***************************************************************************)
(* run_pg_listener and ListenerHealth of events.rs: one LISTEN connection, *)
(* watched by pings that the replica sends to itself through the pool.     *)
(***************************************************************************)
EXTENDS Integers

CONSTANTS MissedEchoes  \* MISSED_ECHOES

VARIABLES
    conn,     \* "detached", "live" (hears), or "deaf" (open, hears nothing)
    missed,   \* `unanswered`: pings sent on this connection and not heard
    ping      \* a ping of this replica is on its way back

lvars == <<conn, missed, ping>>

(* As the loop sees it: attached, whether or not the socket still hears.   *)
Attached == conn # "detached"

ListenerTypeOK ==
    /\ conn \in {"detached", "live", "deaf"}
    /\ missed \in 0..MissedEchoes
    /\ ping \in BOOLEAN

ListenerInit == conn = "detached" /\ missed = 0 /\ ping = FALSE

(* connect_with and listen succeed: attached_now, a new count of pings.    *)
Attach ==
    /\ conn = "detached"
    /\ conn' = "live" /\ missed' = 0 /\ ping' = FALSE

(* The connection errors (the loop breaks), dies without telling anybody,  *)
(* or is dropped and re-established by sqlx (Ok(None)).                    *)
ConnectionFails(to) ==
    /\ conn = "live" /\ to \in {"detached", "deaf", "live"}
    /\ conn' = to /\ ping' = FALSE
    /\ UNCHANGED missed

GiveUp == missed >= MissedEchoes

(* Mutant: every ping starts the count again, as an echo does.             *)
UnansweredRestarts == 1

Unanswered == missed + 1

(* ticker.tick(): a ping through the pool, which may fail, or the end of   *)
(* this connection.                                                        *)
PingTick ==
    /\ Attached
    /\ IF GiveUp
       THEN conn' = "detached" /\ ping' = FALSE /\ UNCHANGED missed
       ELSE /\ missed' = Unanswered
            /\ ping' \in {FALSE, conn = "live"}
            /\ UNCHANGED conn

(* Its own ping comes back.                                                *)
Echo ==
    /\ conn = "live" /\ ping
    /\ missed' = 0 /\ ping' = FALSE
    /\ UNCHANGED conn

ListenerNext ==
    \/ Attach \/ PingTick \/ Echo
    \/ \E to \in {"detached", "deaf", "live"} : ConnectionFails(to)

(* A connection that died without telling anybody is found out by its own  *)
(* unanswered pings and replaced, although the loop is never told.         *)
DeafListenerReplaced == conn = "deaf" ~> conn = "live"
=============================================================================
