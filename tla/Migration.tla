----------------------------- MODULE Migration ------------------------------
(***************************************************************************)
(* Moving one conversation's bodies between Postgres and JetStream         *)
(* (store/migrate.rs), with what else writes those bodies: a send, the     *)
(* publication of a pending message (Outbox gives its detail), the sweep   *)
(* that releases published bodies (store/outbox.rs) and the operator's     *)
(* cleanup.  An operator's command is a process; every statement or        *)
(* transaction it commits is a step, between any two of which it may die,  *)
(* meet an error or be overtaken.                                          *)
(*                                                                         *)
(* A body is "full" (the text that was sent) or "empty" (the '' that a     *)
(* release leaves); the broker holds one of these or "none".               *)
(***************************************************************************)
EXTENDS Naturals, FiniteSets

CONSTANTS MaxMsgs,       \* messages sent into the thread
          Operators,     \* command processes
          MaxRuns,       \* rows of conversation_migrations
          MaxFaults,     \* bound on deaths and failed statements
          MaxLosses,     \* bound on bodies the broker loses
          CleanupInMove  \* whether cleanup may run while a move is open

ASSUME MigrationConstants ==
    /\ MaxMsgs \in Nat /\ MaxRuns \in Nat /\ MaxFaults \in Nat /\ MaxLosses \in Nat
    /\ CleanupInMove \in BOOLEAN

VARIABLES backend,  \* conversations.backend
          paused,   \* conversations.write_paused_at IS NOT NULL
          msg,      \* Msgs -> row of conversation_messages
          broker,   \* Msgs -> what the stream holds
          lost,     \* messages whose body the broker lost
          run,      \* Runs -> row of conversation_migrations
          lastCut,  \* target of the newest cut_over run
          item,     \* Runs -> Msgs -> row of conversation_migration_items
          op,       \* Operators -> the process
          swept,    \* bodies the sweep in progress has confirmed
          faults

thread == <<backend, paused>>
vars == <<backend, paused, msg, broker, lost, run, lastCut, item, op, swept, faults>>

Msgs == 1..MaxMsgs
Runs == 1..MaxRuns
Places == {"postgres", "jetstream"}
Bodies == {"full", "empty"}

NoMsg == [state |-> "none", place |-> "postgres", body |-> "empty",
          locator |-> FALSE, tombstoned |-> FALSE]

NoItem == [state |-> "none", target |-> FALSE]

NoRun == [to |-> "none", state |-> "none"]

(* An operator's process: where it is, its run and direction, the rows it  *)
(* read, the messages it has still to handle and the body in hand.         *)
IdleOp == [pc |-> "idle", run |-> 0, to |-> "none",
           rows |-> [m \in Msgs |-> [body |-> "empty", locator |-> FALSE]],
           todo |-> {}, body |-> "empty"]

Copying == {"next", "write", "copied", "back", "verify"}

TypeOK ==
    /\ backend \in Places
    /\ paused \in BOOLEAN
    /\ msg \in [Msgs -> [state : {"none", "pending", "stored"}, place : Places,
                         body : Bodies, locator : BOOLEAN, tombstoned : BOOLEAN]]
    /\ broker \in [Msgs -> Bodies \cup {"none"}]
    /\ lost \subseteq Msgs
    /\ run \in [Runs -> [to : Places \cup {"none"},
                         state : {"none", "copying", "failed", "cut_over"}]]
    /\ lastCut \in Places \cup {"none"}
    /\ item \in [Runs -> [Msgs -> [state : {"none", "planned", "copied", "verified", "failed"},
                                   target : BOOLEAN]]]
    /\ op \in [Operators -> [pc : {"idle", "open", "pause", "rows", "abort"} \cup Copying,
                             run : Runs \cup {0}, to : Places \cup {"none"},
                             rows : [Msgs -> [body : Bodies, locator : BOOLEAN]],
                             todo : SUBSET Msgs, body : Bodies]]
    /\ swept \subseteq Msgs
    /\ faults \in 0..MaxFaults

Init ==
    /\ backend \in Places
    /\ paused = FALSE
    /\ msg = [m \in Msgs |-> NoMsg]
    /\ broker = [m \in Msgs |-> "none"]
    /\ lost = {}
    /\ run = [g \in Runs |-> NoRun]
    /\ lastCut = "none"
    /\ item = [g \in Runs |-> [m \in Msgs |-> NoItem]]
    /\ op = [o \in Operators |-> IdleOp]
    /\ swept = {}
    /\ faults = 0

Sent == {m \in Msgs : msg[m].state # "none"}
IsNext(m) == m \notin Sent /\ \A n \in Msgs : n < m => n \in Sent
OpenRuns == {g \in Runs : run[g].state = "copying"}

Fault ==
    /\ faults < MaxFaults
    /\ faults' = faults + 1

----------------------------------------------------------------------------
(* Mutant: the pause is not read under the thread's lock.                  *)
send_through_pause(m) ==
    /\ IsNext(m)
    /\ msg' = [msg EXCEPT ![m] = [state |-> IF backend = "postgres" THEN "stored" ELSE "pending",
                                  place |-> backend, body |-> "full",
                                  locator |-> FALSE, tombstoned |-> FALSE]]
    /\ UNCHANGED <<thread, broker, lost, run, lastCut, item, op, swept, faults>>

(* The thread's row is locked; a paused thread refuses.  The message is    *)
(* stamped with the thread's backend; off Postgres it is pending.          *)
send(m) ==
    /\ IsNext(m)
    /\ ~paused
    /\ msg' = [msg EXCEPT ![m] = [state |-> IF backend = "postgres" THEN "stored" ELSE "pending",
                                  place |-> backend, body |-> "full",
                                  locator |-> FALSE, tombstoned |-> FALSE]]
    /\ UNCHANGED <<thread, broker, lost, run, lastCut, item, op, swept, faults>>

(* The outbox publishes a pending message and settles it.                  *)
Publish(m) ==
    /\ msg[m].state = "pending"
    /\ broker' = [broker EXCEPT ![m] = msg[m].body]
    /\ msg' = [msg EXCEPT ![m].state = "stored", ![m].locator = TRUE]
    /\ UNCHANGED <<thread, lost, run, lastCut, item, op, swept, faults>>

BrokerLoses(m) ==
    /\ broker[m] # "none"
    /\ Cardinality(lost \cup {m}) <= MaxLosses
    /\ broker' = [broker EXCEPT ![m] = "none"]
    /\ lost' = lost \cup {m}
    /\ UNCHANGED <<thread, msg, run, lastCut, item, op, swept, faults>>

(* A read that has to go to the backend and finds nothing there.           *)
tombstone(m) ==
    /\ msg[m].state = "stored" /\ msg[m].place = "jetstream" /\ msg[m].body = "empty"
    /\ ~msg[m].tombstoned
    /\ broker[m] = "none"
    /\ msg' = [msg EXCEPT ![m].tombstoned = TRUE]
    /\ UNCHANGED <<thread, broker, lost, run, lastCut, item, op, swept, faults>>

----------------------------------------------------------------------------
(* The sweep: first the rows it may release, each confirmed by the broker; *)
(* then one UPDATE under the same predicate.                               *)
Releasable(m) ==
    /\ backend # "postgres"
    /\ msg[m].state = "stored" /\ msg[m].locator /\ msg[m].body = "full"
    /\ \A g \in Runs : item[g][m].state # "none" => run[g].state = "failed"

release_confirm ==
    /\ swept = {}
    /\ swept' = {m \in Msgs : Releasable(m) /\ broker[m] = "full"}
    /\ swept' # {}
    /\ UNCHANGED <<thread, msg, broker, lost, run, lastCut, item, op, faults>>

(* Mutant: the UPDATE trusts the rows the scan found.                      *)
release_stale ==
    /\ swept # {}
    /\ msg' = [m \in Msgs |-> IF m \in swept THEN [msg[m] EXCEPT !.body = "empty"] ELSE msg[m]]
    /\ swept' = {}
    /\ UNCHANGED <<thread, broker, lost, run, lastCut, item, op, faults>>

release_published_bodies ==
    /\ swept # {}
    /\ msg' = [m \in Msgs |-> IF m \in swept /\ Releasable(m)
                              THEN [msg[m] EXCEPT !.body = "empty"] ELSE msg[m]]
    /\ swept' = {}
    /\ UNCHANGED <<thread, broker, lost, run, lastCut, item, op, faults>>

(* The rollback window is the operator's to state and may be zero.         *)
cleanup ==
    /\ CleanupInMove \/ OpenRuns = {}
    /\ lastCut = "jetstream"
    /\ msg' = [m \in Msgs |-> IF msg[m].place = "jetstream" /\ msg[m].locator
                              THEN [msg[m] EXCEPT !.body = "empty"] ELSE msg[m]]
    /\ msg' # msg
    /\ UNCHANGED <<thread, broker, lost, run, lastCut, item, op, swept, faults>>

----------------------------------------------------------------------------
(* Mutant: an open run is not a reason to go on with a paused thread.      *)
PlannedFresh(to) ==
    /\ backend # to \/ \E m \in Sent : msg[m].place # to
    /\ ~paused

(* The plan an operator acts on: not a thread already moved, nor one that  *)
(* is paused with no run behind the pause.                                 *)
Planned(to) ==
    LET resuming == \E g \in OpenRuns : run[g].to = to
    IN  /\ resuming \/ backend # to \/ \E m \in Sent : msg[m].place # to
        /\ resuming \/ ~paused

plan(o, to) ==
    /\ op[o].pc = "idle"
    /\ Planned(to)
    /\ op' = [op EXCEPT ![o].pc = "open", ![o].to = to]
    /\ UNCHANGED <<thread, msg, broker, lost, run, lastCut, item, swept, faults>>

(* One open run per thread, decided under the thread's lock.  One in the   *)
(* other direction refuses; one in this direction is joined.               *)
open_run(o) ==
    /\ op[o].pc = "open"
    /\ \/ \E g \in OpenRuns :
             /\ op' = [op EXCEPT ![o] = IF run[g].to = op[o].to
                                        THEN [@ EXCEPT !.pc = "pause", !.run = g] ELSE IdleOp]
             /\ UNCHANGED run
       \/ /\ OpenRuns = {}
          /\ \E g \in Runs :
                /\ run[g] = NoRun /\ \A h \in Runs : h < g => run[h] # NoRun
                /\ run' = [run EXCEPT ![g] = [to |-> op[o].to, state |-> "copying"]]
                /\ op' = [op EXCEPT ![o].pc = "pause", ![o].run = g]
    /\ UNCHANGED <<thread, msg, broker, lost, lastCut, item, swept, faults>>

Pause(o) ==
    /\ op[o].pc = "pause"
    /\ paused' = TRUE
    /\ op' = [op EXCEPT ![o].pc = "rows"]
    /\ UNCHANGED <<backend, msg, broker, lost, run, lastCut, item, swept, faults>>

(* One query reads every row; those already at the target are skipped.     *)
ReadRows(o) ==
    /\ op[o].pc = "rows"
    /\ op' = [op EXCEPT ![o].pc = "next",
                        ![o].rows = [m \in Msgs |-> [body |-> msg[m].body,
                                                     locator |-> msg[m].locator]],
                        ![o].todo = {m \in Sent : ~msg[m].tombstoned /\ msg[m].place # op[o].to}]
    /\ UNCHANGED <<thread, msg, broker, lost, run, lastCut, item, swept, faults>>

First(ms) == CHOOSE m \in ms : \A n \in ms : m <= n
Current(o) == First(op[o].todo)

(* The next message in order, unless this run has verified it already: its *)
(* body from where it is, and its item.  No locator, or a body the broker  *)
(* no longer holds, fails the move.                                        *)
ReadSource(o) ==
    /\ op[o].pc = "next" /\ op[o].todo # {}
    /\ LET m == Current(o)
           g == op[o].run
           body == IF op[o].to = "jetstream" THEN op[o].rows[m].body
                   ELSE IF op[o].rows[m].locator THEN broker[m] ELSE "none"
       IN  \/ /\ item[g][m].state = "verified"
              /\ op' = [op EXCEPT ![o].todo = @ \ {m}]
              /\ UNCHANGED item
           \/ /\ item[g][m].state # "verified" /\ body = "none"
              /\ op' = [op EXCEPT ![o].pc = "abort"]
              /\ UNCHANGED item
           \/ /\ item[g][m].state # "verified" /\ body # "none"
              /\ op' = [op EXCEPT ![o].pc = "write", ![o].body = body]
              /\ item' = [item EXCEPT ![g][m].state = IF @ = "none" THEN "planned" ELSE @]
    /\ UNCHANGED <<thread, msg, broker, lost, run, lastCut, swept, faults>>

(* To JetStream: a locator this run recorded and that still answers needs  *)
(* no second publish.  Otherwise publish under the message's own key: the  *)
(* broker stores it, recognises it, or fails, possibly after storing it; a *)
(* key it remembers for a body it lost is confirmed and stored nowhere.    *)
WriteToBroker(o) ==
    LET m == Current(o)
        g == op[o].run
        there == item[g][m].target /\ m \notin lost /\ broker[m] = op[o].body
    IN  /\ op[o].pc = "write" /\ op[o].to = "jetstream"
        /\ \/ /\ there
              /\ item' = [item EXCEPT ![g][m].state = "verified"]
              /\ op' = [op EXCEPT ![o].pc = "next", ![o].todo = @ \ {m}]
              /\ UNCHANGED broker
           \/ /\ ~there
              /\ \E stores, confirmed \in BOOLEAN :
                    /\ confirmed /\ m \notin lost => stores
                    /\ broker' = IF stores /\ broker[m] = "none"
                                 THEN [broker EXCEPT ![m] = op[o].body] ELSE broker
                    /\ op' = [op EXCEPT ![o].pc = IF confirmed THEN "copied" ELSE "abort"]
              /\ UNCHANGED item
        /\ UNCHANGED <<thread, msg, lost, run, lastCut, swept, faults>>

WriteToRow(o) ==
    /\ op[o].pc = "write" /\ op[o].to = "postgres"
    /\ msg' = [msg EXCEPT ![Current(o)].body = op[o].body]
    /\ op' = [op EXCEPT ![o].pc = "copied"]
    /\ UNCHANGED <<thread, broker, lost, run, lastCut, item, swept, faults>>

MarkCopied(o) ==
    /\ op[o].pc = "copied"
    /\ item' = [item EXCEPT ![op[o].run][Current(o)] = [state |-> "copied", target |-> TRUE]]
    /\ op' = [op EXCEPT ![o].pc = "back"]
    /\ UNCHANGED <<thread, msg, broker, lost, run, lastCut, swept, faults>>

(* Read back from the target: missing or different fails the move.         *)
ReadBack(o) ==
    /\ op[o].pc = "back"
    /\ LET m == Current(o)
           back == IF op[o].to = "jetstream" THEN broker[m] ELSE msg[m].body
       IN  /\ op' = [op EXCEPT ![o].pc = IF back = op[o].body THEN "verify" ELSE "abort"]
           /\ item' = IF back \in Bodies \ {op[o].body}
                      THEN [item EXCEPT ![op[o].run][m].state = "failed"] ELSE item
    /\ UNCHANGED <<thread, msg, broker, lost, run, lastCut, swept, faults>>

MarkVerified(o) ==
    /\ op[o].pc = "verify"
    /\ item' = [item EXCEPT ![op[o].run][Current(o)].state = "verified"]
    /\ op' = [op EXCEPT ![o].pc = "next", ![o].todo = @ \ {Current(o)}]
    /\ UNCHANGED <<thread, msg, broker, lost, run, lastCut, swept, faults>>

(* One transaction: the verified messages' authority, the thread's route,  *)
(* the pause, the run.  The run's state is not read.                       *)
CutOver(o) ==
    /\ op[o].pc = "next" /\ op[o].todo = {}
    /\ LET g == op[o].run
           to == op[o].to
           Moved(m) == item[g][m].state = "verified"
       IN  /\ msg' = [m \in Msgs |->
                        CASE Moved(m) /\ to = "jetstream" ->
                               [msg[m] EXCEPT !.place = to, !.locator = item[g][m].target]
                          [] to = "postgres" /\ (Moved(m) \/ msg[m].place = "postgres")
                             /\ msg[m].state # "none" ->
                               [msg[m] EXCEPT !.place = to, !.locator = FALSE, !.state = "stored"]
                          [] OTHER -> msg[m]]
           /\ backend' = to
           /\ paused' = FALSE
           /\ run' = [run EXCEPT ![g].state = "cut_over"]
           /\ lastCut' = to
    /\ op' = [op EXCEPT ![o] = IdleOp]
    /\ UNCHANGED <<broker, lost, item, swept, faults>>

(* One transaction: an open run is failed, what it wrote back without      *)
(* verifying it is cleared, and the pause is lifted unless a run owns it.  *)
abort(o) ==
    /\ op[o].pc = "abort"
    /\ LET g == op[o].run
           open == run[g].state = "copying"
       IN  /\ run' = IF open THEN [run EXCEPT ![g].state = "failed"] ELSE run
           /\ msg' = [m \in Msgs |->
                        IF /\ open /\ run[g].to = "postgres"
                           /\ msg[m].place # "postgres"
                           /\ item[g][m].state \notin {"none", "verified"}
                        THEN [msg[m] EXCEPT !.body = "empty"] ELSE msg[m]]
           /\ paused' = IF open THEN paused /\ OpenRuns # {g} ELSE paused
    /\ op' = [op EXCEPT ![o] = IdleOp]
    /\ UNCHANGED <<backend, broker, lost, lastCut, item, swept, faults>>

(* A statement of the copy fails; the move is given up.                    *)
Fails(o) ==
    /\ Fault
    /\ op[o].pc \in Copying \cup {"rows"}
    /\ op' = [op EXCEPT ![o].pc = "abort"]
    /\ UNCHANGED <<thread, msg, broker, lost, run, lastCut, item, swept>>

(* The process dies, or its abort fails: the run stays open.               *)
Dies(o) ==
    /\ Fault
    /\ op[o].pc # "idle"
    /\ op' = [op EXCEPT ![o] = IdleOp]
    /\ UNCHANGED <<thread, msg, broker, lost, run, lastCut, item, swept>>

Step(o) ==
    \/ open_run(o) \/ Pause(o) \/ ReadRows(o) \/ ReadSource(o)
    \/ WriteToBroker(o) \/ WriteToRow(o) \/ MarkCopied(o) \/ ReadBack(o) \/ MarkVerified(o)
    \/ CutOver(o) \/ abort(o)

(* The documented answer to an interrupted move: the same command again.   *)
Resume(o) == \E to \in Places : (\E g \in OpenRuns : run[g].to = to) /\ plan(o, to)

Next ==
    \/ \E m \in Msgs : send(m) \/ Publish(m) \/ BrokerLoses(m) \/ tombstone(m)
    \/ release_confirm \/ release_published_bodies \/ cleanup
    \/ \E o \in Operators :
          \/ \E to \in Places : plan(o, to)
          \/ Step(o) \/ Fails(o) \/ Dies(o)

(* A command that runs goes on running, and an interrupted one is repeated *)
(* while its run is open: the remedy the code's own messages give.         *)
Fairness == \A o \in Operators : WF_vars(Step(o)) /\ WF_vars(Resume(o))

Spec == Init /\ [][Next]_vars /\ Fairness

----------------------------------------------------------------------------
(* Every body is where its row says it is authoritative, at every moment   *)
(* of every move: a Postgres message has its text in the row, since a      *)
(* reader is served that row whatever it holds; one on the broker is there *)
(* unless the broker lost it; a pending one is still in its row.           *)
AuthorityHolds ==
    \A m \in Sent :
       CASE msg[m].place = "postgres" -> msg[m].body = "full"
         [] msg[m].state = "pending"  -> msg[m].body = "full"
         [] OTHER -> m \in lost \/ (msg[m].locator /\ broker[m] = "full")

(* A move takes the whole thread or none of it: at every moment, every     *)
(* message that is not tombstoned is on the thread's own backend.  A send  *)
(* that slipped past the pause would be left behind.                       *)
ThreadIsWhole == \A m \in Sent : msg[m].tombstoned \/ msg[m].place = backend

(* A paused thread reopens, however often its move dies or fails.          *)
EventuallyReopened == paused ~> ~paused
=============================================================================
