--------------------------- MODULE MigrationProofs ---------------------------
(***************************************************************************)
(* Proofs about Migration, for one operator at a time and any number of    *)
(* messages, runs, faults and lost bodies.                                 *)
(***************************************************************************)
EXTENDS Migration, WellFoundedInduction, TLAPS

MsgRows == [state : {"none", "pending", "stored"}, place : Places,
            body : Bodies, locator : BOOLEAN, tombstoned : BOOLEAN]
RunRows == [to : Places \cup {"none"}, state : {"none", "copying", "failed", "cut_over"}]
ItemRows == [state : {"none", "planned", "copied", "verified", "failed"}, target : BOOLEAN]
Processes == [pc : {"idle", "open", "pause", "rows", "abort"} \cup Copying,
              run : Runs \cup {0}, to : Places \cup {"none"},
              rows : [Msgs -> [body : Bodies, locator : BOOLEAN]],
              todo : SUBSET Msgs, body : Bodies]

Typed ==
  /\ backend \in Places /\ paused \in BOOLEAN
  /\ msg \in [Msgs -> MsgRows] /\ broker \in [Msgs -> Bodies \cup {"none"}]
  /\ lost \subseteq Msgs /\ run \in [Runs -> RunRows]
  /\ lastCut \in Places \cup {"none"} /\ item \in [Runs -> [Msgs -> ItemRows]]
  /\ op \in [Operators -> Processes] /\ swept \subseteq Msgs
  /\ faults \in 0..MaxFaults

Reading == {"rows"} \cup Copying
InHand == {"write", "copied", "back", "verify"}

(* What a row says of itself.  A message on Postgres is stored and has no  *)
(* locator; one that waits for publication has none either.                *)
RowInv(m) ==
  /\ msg[m].place = "postgres" => ~msg[m].locator /\ msg[m].state # "pending"
  /\ msg[m].state = "pending" => ~msg[m].locator /\ msg[m].body = "full"
  /\ msg[m].state = "none" => msg[m].place = "postgres"
  /\ msg[m].state # "none" /\ msg[m].place = "postgres" => msg[m].body = "full"
  /\ msg[m].state = "stored" /\ msg[m].place = "jetstream" =>
       m \in lost \/ (msg[m].locator /\ broker[m] = "full")
  /\ broker[m] # "empty"
  /\ msg[m].state # "none" => msg[m].tombstoned \/ msg[m].place = backend

(* What an item of a run vouches for.                                      *)
ItemInv(g, m) ==
  /\ item[g][m].state # "none" => msg[m].state = "stored" /\ run[g].state # "none"
  /\ run[g].state = "copying" /\ item[g][m].state = "verified" =>
       /\ run[g].to = "postgres" => msg[m].body = "full"
       /\ run[g].to = "jetstream" => item[g][m].target /\ (m \in lost \/ broker[m] = "full")

(* A process past open_run works on the open run, on a paused thread from  *)
(* the moment it reads the rows.                                           *)
RunInv(o) ==
  /\ op[o].pc # "idle" => op[o].to \in Places
  /\ op[o].pc \notin {"idle", "open"} =>
       /\ op[o].run \in Runs
       /\ run[op[o].run] = [to |-> op[o].to, state |-> "copying"]
  /\ op[o].pc \in Reading => paused

(* What is left to do was left to do when the rows were read, and nothing  *)
(* the run has to move is missing from it.                                 *)
TodoInv(o) ==
  op[o].pc \in Copying =>
    /\ \A m \in op[o].todo :
         /\ msg[m].state # "none" /\ msg[m].place # op[o].to
         /\ op[o].to = "jetstream" => op[o].rows[m].body = "full"
         /\ op[o].rows[m].locator => msg[m].state = "stored"
    /\ \A m \in Sent : \/ msg[m].tombstoned \/ msg[m].place = op[o].to
                       \/ m \in op[o].todo \/ item[op[o].run][m].state = "verified"

(* The message in hand, and how far its copy has come.                     *)
HandInv(o) ==
  op[o].pc \in InHand =>
    /\ op[o].todo # {} /\ op[o].body = "full"
    /\ item[op[o].run][Current(o)].state # "none"
    /\ op[o].pc \in {"back", "verify"} => item[op[o].run][Current(o)].target
    /\ op[o].pc = "verify" =>
         IF op[o].to = "postgres" THEN msg[Current(o)].body = "full"
         ELSE Current(o) \in lost \/ broker[Current(o)] = "full"

OneOpen == \A g, h \in OpenRuns : g = h

MigrationInv ==
  /\ Typed
  /\ OneOpen
  /\ \A m \in Msgs : RowInv(m)
  /\ \A g \in Runs, m \in Msgs : ItemInv(g, m)
  /\ \A o \in Operators : RunInv(o) /\ TodoInv(o) /\ HandInv(o)

OneOperator == \A o, p \in Operators : o = p

(* The copy goes through the messages in order.                            *)
LEMMA FirstIsOne == ASSUME NEW ms \in SUBSET Msgs, ms # {} PROVE First(ms) \in ms
<1>1. ms \subseteq Nat
  BY MigrationConstants DEF Msgs
<1>2. PICK m \in ms : \A n \in ms : ~(<<n, m>> \in OpToRel(<, Nat))
  BY <1>1, NatLessThanWellFounded, WFMin
<1>3. \A n \in ms : ~(n < m)
  BY <1>1, <1>2 DEF OpToRel
<1>4. \A n \in ms : m <= n
  BY <1>1, <1>3
<1>5. QED
  BY <1>4 DEF First

LEMMA IdleIsProcess == IdleOp \in Processes /\ IdleOp.pc = "idle"
BY DEF IdleOp, Processes, Bodies, Places

-----------------------------------------------------------------------------
(* Steps of the thread: no process, run or item changes.                   *)
Thread == UNCHANGED <<run, item, op>>

(* What the steps of the thread may do to a message: it is sent while the  *)
(* thread is open, or stays what it is up to publication and the release   *)
(* of a body no open run counts on.                                        *)
Ages(m) ==
  \/ msg[m].state = "none" /\ ~paused
  \/ /\ msg'[m].place = msg[m].place
     /\ msg[m].tombstoned => msg'[m].tombstoned
     /\ msg[m].state = "none" => msg'[m].state = "none"
     /\ msg[m].state # "none" => msg'[m].state # "none"
     /\ msg[m].state = "stored" => msg'[m].state = "stored"
     /\ \/ msg'[m].body = msg[m].body
        \/ \A g \in Runs : run[g].state = "copying" => item[g][m].state = "none"
     /\ broker'[m] = broker[m] \/ broker'[m] = "full" \/ m \in lost'
     /\ m \in lost => m \in lost'

LEMMA ThreadStepKeeps ==
  ASSUME MigrationInv, Thread, Typed', paused' = paused,
         \A m \in Msgs : Ages(m), \A m \in Msgs : RowInv(m)'
  PROVE  MigrationInv'
<1> USE DEF Thread
<1>1. OneOpen'
  BY DEF MigrationInv, OneOpen, OpenRuns
<1>2. ASSUME NEW g \in Runs, NEW m \in Msgs PROVE ItemInv(g, m)'
  BY DEF MigrationInv, ItemInv, Ages
<1>3. ASSUME NEW o \in Operators PROVE RunInv(o)' /\ TodoInv(o)' /\ HandInv(o)'
  <2>1. RunInv(o)'
    BY DEF MigrationInv, RunInv
  <2>2. op[o] \in Processes
    BY DEF Typed, MigrationInv
  <2>3. op[o].todo \subseteq Msgs
    BY <2>2 DEF Processes
  <2>4. op[o].pc \in Copying => paused /\ op[o].run \in Runs /\ run[op[o].run].state = "copying"
    <3>1. RunInv(o)
      BY DEF MigrationInv
    <3>2. op[o].pc \in Copying => op[o].pc \in Reading /\ op[o].pc \notin {"idle", "open"}
      BY DEF Reading, Copying
    <3>3. [to |-> op[o].to, state |-> "copying"].state = "copying"
      OBVIOUS
    <3>4. QED
      BY <3>1, <3>2, <3>3 DEF RunInv
  <2>5. TodoInv(o)'
    <3> SUFFICES ASSUME op[o].pc \in Copying
                 PROVE  /\ \A m \in op[o].todo :
                             /\ msg'[m].state # "none" /\ msg'[m].place # op[o].to
                             /\ op[o].to = "jetstream" => op[o].rows[m].body = "full"
                             /\ op[o].rows[m].locator => msg'[m].state = "stored"
                        /\ \A m \in Sent' : \/ msg'[m].tombstoned \/ msg'[m].place = op[o].to
                                             \/ m \in op[o].todo
                                             \/ item[op[o].run][m].state = "verified"
      BY DEF TodoInv
    <3>1. TodoInv(o) /\ \A m \in Msgs : Ages(m)
      BY DEF MigrationInv
    <3>2. ASSUME NEW m \in op[o].todo
          PROVE  /\ msg'[m].state # "none" /\ msg'[m].place # op[o].to
                 /\ op[o].to = "jetstream" => op[o].rows[m].body = "full"
                 /\ op[o].rows[m].locator => msg'[m].state = "stored"
      BY <2>3, <2>4, <3>1 DEF TodoInv, Ages
    <3>3. ASSUME NEW m \in Msgs, msg'[m].state # "none"
          PROVE  \/ msg'[m].tombstoned \/ msg'[m].place = op[o].to
                 \/ m \in op[o].todo \/ item[op[o].run][m].state = "verified"
      BY <2>4, <3>1, <3>3 DEF TodoInv, Ages, Sent
    <3>4. QED
      BY <3>2, <3>3 DEF Sent
  <2>6. HandInv(o)'
    <3> SUFFICES ASSUME op[o].pc \in InHand
                 PROVE  /\ item[op[o].run][Current(o)].state # "none"
                        /\ op[o].todo # {} /\ op[o].body = "full"
                        /\ op[o].pc \in {"back", "verify"} => item[op[o].run][Current(o)].target
                        /\ op[o].pc = "verify" =>
                             IF op[o].to = "postgres" THEN msg'[Current(o)].body = "full"
                             ELSE Current(o) \in lost' \/ broker'[Current(o)] = "full"
      BY DEF HandInv, Current
    <3>1. HandInv(o) /\ op[o].todo # {}
      BY DEF MigrationInv, HandInv
    <3>2. PICK m : m = Current(o)
      OBVIOUS
    <3>3. m \in Msgs /\ msg[m].state # "none" /\ Ages(m)
      BY <2>3, <3>1, <3>2, FirstIsOne DEF Current, MigrationInv, TodoInv, InHand, Copying
    <3>4. QED
      BY <2>4, <3>1, <3>2, <3>3 DEF HandInv, Ages, InHand, Copying
  <2>7. QED
    BY <2>1, <2>5, <2>6
<1>4. QED
  BY <1>1, <1>2, <1>3 DEF MigrationInv

(* A message that no step touches.                                         *)
Still(m) == /\ msg'[m] = msg[m] /\ broker'[m] = broker[m] /\ backend' = backend
            /\ m \in lost' <=> m \in lost

LEMMA StillKept ==
  ASSUME MigrationInv, NEW m \in Msgs, Still(m)
  PROVE  RowInv(m)' /\ Ages(m)
BY DEF MigrationInv, Still, RowInv, Ages

LEMMA SendKeeps == ASSUME MigrationInv, NEW m \in Msgs, send(m) PROVE MigrationInv'
<1> USE DEF send
<1>1. PICK r : r = [state |-> IF backend = "postgres" THEN "stored" ELSE "pending",
                    place |-> backend, body |-> "full", locator |-> FALSE, tombstoned |-> FALSE]
  OBVIOUS
<1>2. /\ r.state = (IF backend = "postgres" THEN "stored" ELSE "pending")
      /\ r.place = backend /\ r.body = "full" /\ r.locator = FALSE /\ r.tombstoned = FALSE
      /\ r \in MsgRows /\ backend \in Places
  BY <1>1 DEF Typed, MsgRows, Bodies, MigrationInv
<1>3. msg' = [msg EXCEPT ![m] = r]
  BY <1>1
<1>4. Typed'
  BY <1>2, <1>3, ZenonT(30) DEF Typed, MigrationInv, thread
<1>5. msg'[m] = r /\ \A n \in Msgs \ {m} : Still(n)
  BY <1>3 DEF Typed, MigrationInv, Still, thread
<1>6. RowInv(m)' /\ Ages(m)
  BY <1>2, <1>5 DEF MigrationInv, RowInv, Ages, IsNext, Sent, Places, thread
<1>7. QED
  BY <1>4, <1>5, <1>6, StillKept, ThreadStepKeeps DEF Thread, thread

LEMMA PublishKeeps == ASSUME MigrationInv, NEW m \in Msgs, Publish(m) PROVE MigrationInv'
<1> USE DEF Publish
<1>1. msg[m] \in MsgRows /\ broker' = [broker EXCEPT ![m] = "full"] /\ RowInv(m)
  BY DEF Typed, MigrationInv, RowInv
<1>2. /\ msg'[m] \in MsgRows /\ msg'[m].state = "stored" /\ msg'[m].locator = TRUE
      /\ msg'[m].place = msg[m].place /\ msg'[m].body = msg[m].body
      /\ msg'[m].tombstoned = msg[m].tombstoned
      /\ msg' \in [Msgs -> MsgRows]
  BY <1>1 DEF Typed, MigrationInv, MsgRows
<1>3. Typed'
  BY <1>1, <1>2 DEF Typed, MigrationInv, thread, Bodies
<1>4. \A n \in Msgs \ {m} : Still(n)
  BY <1>1 DEF Typed, MigrationInv, Still, thread
<1>5. broker'[m] = "full" /\ msg[m].place # "postgres"
  BY <1>1 DEF Typed, MigrationInv, RowInv
<1>6. RowInv(m)' /\ Ages(m)
  BY <1>1, <1>2, <1>5 DEF RowInv, Ages, thread
<1>7. QED
  BY <1>3, <1>4, <1>6, StillKept, ThreadStepKeeps DEF Thread, thread

LEMMA BrokerLosesKeeps == ASSUME MigrationInv, NEW m \in Msgs, BrokerLoses(m) PROVE MigrationInv'
<1> USE DEF BrokerLoses
<1>1. Typed'
  BY DEF Typed, MigrationInv, thread
<1>2. \A n \in Msgs \ {m} : Still(n)
  BY DEF Typed, MigrationInv, Still, thread
<1>3. broker'[m] = "none" /\ m \in lost'
  BY DEF Typed, MigrationInv
<1>4. RowInv(m)' /\ Ages(m)
  BY <1>3 DEF MigrationInv, RowInv, Ages, thread
<1>5. QED
  BY <1>1, <1>2, <1>4, StillKept, ThreadStepKeeps DEF Thread, thread

LEMMA TombstoneKeeps == ASSUME MigrationInv, NEW m \in Msgs, tombstone(m) PROVE MigrationInv'
<1> USE DEF tombstone
<1>1. msg[m] \in MsgRows
  BY DEF Typed, MigrationInv
<1>2. /\ msg' \in [Msgs -> MsgRows] /\ msg'[m].state = msg[m].state
      /\ msg'[m].locator = msg[m].locator /\ msg'[m].tombstoned = TRUE
      /\ msg'[m].place = msg[m].place /\ msg'[m].body = msg[m].body
  BY <1>1 DEF Typed, MigrationInv, MsgRows
<1>3. Typed'
  BY <1>2 DEF Typed, MigrationInv, thread
<1>4. \A n \in Msgs \ {m} : Still(n)
  BY DEF Typed, MigrationInv, Still, thread
<1>5. RowInv(m)' /\ Ages(m)
  BY <1>2 DEF MigrationInv, RowInv, Ages, thread
<1>6. QED
  BY <1>3, <1>4, <1>5, StillKept, ThreadStepKeeps DEF Thread, thread

LEMMA ReleaseConfirmKeeps == ASSUME MigrationInv, release_confirm PROVE MigrationInv'
<1> USE DEF release_confirm
<1>1. Typed'
  BY DEF Typed, MigrationInv, thread
<1>2. \A n \in Msgs : Still(n)
  BY DEF Still, thread
<1>3. QED
  BY <1>1, <1>2, StillKept, ThreadStepKeeps DEF Thread, thread

(* Clearing the rows of bodies the broker has: none that a run counts on.  *)
LEMMA ClearKeeps ==
  ASSUME MigrationInv, NEW ms \in SUBSET Msgs,
         msg' = [m \in Msgs |-> IF m \in ms THEN [msg[m] EXCEPT !.body = "empty"] ELSE msg[m]],
         \A m \in ms : /\ msg[m].locator
                       /\ \A g \in Runs : run[g].state = "copying" => item[g][m].state = "none",
         swept' \subseteq Msgs, UNCHANGED <<thread, broker, lost, run, lastCut, item, op, faults>>
  PROVE  MigrationInv'
<1>1. ASSUME NEW m \in Msgs PROVE msg[m] \in MsgRows /\ msg'[m] \in MsgRows
  BY <1>1, ZenonT(30) DEF Typed, MigrationInv, MsgRows, Bodies
<1>2. Typed'
  BY <1>1 DEF Typed, MigrationInv, thread
<1>3. \A m \in Msgs \ ms : Still(m)
  BY DEF Still, thread
<1>4. ASSUME NEW m \in ms PROVE RowInv(m)' /\ Ages(m)
  <2>1. /\ msg'[m].state = msg[m].state /\ msg'[m].locator = msg[m].locator
        /\ msg'[m].tombstoned = msg[m].tombstoned /\ msg'[m].place = msg[m].place
    BY <1>1 DEF MsgRows
  <2>2. RowInv(m) /\ msg[m].state # "pending" /\ msg[m].place # "postgres"
    BY DEF MigrationInv, RowInv
  <2>3. QED
    BY <2>1, <2>2 DEF RowInv, Ages, thread
<1>5. QED
  BY <1>2, <1>3, <1>4, StillKept, ThreadStepKeeps DEF Thread, thread

LEMMA ReleaseKeeps == ASSUME MigrationInv, release_published_bodies PROVE MigrationInv'
<1> DEFINE ms == {m \in Msgs : m \in swept /\ Releasable(m)}
<1>1. msg' = [m \in Msgs |-> IF m \in ms THEN [msg[m] EXCEPT !.body = "empty"] ELSE msg[m]]
  BY DEF release_published_bodies
<1>2. \A m \in ms : /\ msg[m].locator
                    /\ \A g \in Runs : run[g].state = "copying" => item[g][m].state = "none"
  BY DEF Releasable
<1>3. ms \in SUBSET Msgs
  OBVIOUS
<1> HIDE DEF ms
<1>4. QED
  BY <1>1, <1>2, <1>3, ClearKeeps DEF release_published_bodies

LEMMA CleanupKeeps == ASSUME ~CleanupInMove, MigrationInv, cleanup PROVE MigrationInv'
<1> DEFINE ms == {m \in Msgs : msg[m].place = "jetstream" /\ msg[m].locator}
<1>1. msg' = [m \in Msgs |-> IF m \in ms THEN [msg[m] EXCEPT !.body = "empty"] ELSE msg[m]]
  BY DEF cleanup
<1>2. \A m \in ms : /\ msg[m].locator
                    /\ \A g \in Runs : run[g].state = "copying" => item[g][m].state = "none"
  BY DEF cleanup, OpenRuns
<1>3. ms \in SUBSET Msgs /\ swept' \subseteq Msgs
  BY DEF Typed, cleanup, MigrationInv
<1> HIDE DEF ms
<1>4. QED
  BY <1>1, <1>2, <1>3, ClearKeeps DEF cleanup

-----------------------------------------------------------------------------
(* Steps of the operator's process.                                        *)
LEMMA ProcessStepKeeps ==
  ASSUME OneOperator, MigrationInv, NEW o \in Operators, Typed', OneOpen',
         \A m \in Msgs : RowInv(m)', \A g \in Runs, m \in Msgs : ItemInv(g, m)',
         RunInv(o)', TodoInv(o)', HandInv(o)'
  PROVE  MigrationInv'
<1>1. \A p \in Operators : p = o
  BY DEF OneOperator
<1>2. \A p \in Operators : RunInv(p)' /\ TodoInv(p)' /\ HandInv(p)'
  BY <1>1
<1>3. QED
  BY <1>2 DEF MigrationInv

(* The rows stay right when no message changes, the items too when neither *)
(* they nor the runs do.                                                   *)
LEMMA RowsKept ==
  ASSUME MigrationInv, UNCHANGED <<thread, msg, broker, lost>>
  PROVE  \A m \in Msgs : RowInv(m)'
BY DEF MigrationInv, RowInv, thread

LEMMA ItemsKept ==
  ASSUME MigrationInv, UNCHANGED <<msg, broker, lost, run, item>>
  PROVE  OneOpen' /\ \A g \in Runs, m \in Msgs : ItemInv(g, m)'
BY DEF MigrationInv, ItemInv, OneOpen, OpenRuns

(* A step that only moves the process.                                     *)
LEMMA MoveKeeps ==
  ASSUME OneOperator, MigrationInv, NEW o \in Operators, NEW v \in Processes,
         op' = [op EXCEPT ![o] = v], paused' \in BOOLEAN, faults' \in 0..MaxFaults,
         UNCHANGED <<backend, msg, broker, lost, run, lastCut, item, swept>>,
         RunInv(o)', TodoInv(o)', HandInv(o)'
  PROVE  MigrationInv'
<1>1. Typed'
  BY DEF MigrationInv, Typed
<1>2. \A m \in Msgs : RowInv(m)'
  BY DEF MigrationInv, RowInv
<1>3. QED
  BY <1>1, <1>2, ItemsKept, ProcessStepKeeps

LEMMA LeftKeeps ==
  ASSUME OneOperator, MigrationInv, NEW o \in Operators, NEW v \in Processes,
         op' = [op EXCEPT ![o] = v], v.pc \in {"idle", "open", "pause", "abort"},
         faults' \in 0..MaxFaults,
         UNCHANGED <<thread, msg, broker, lost, run, lastCut, item, swept>>,
         v.pc # "idle" => v.to \in Places,
         v.pc \in {"pause", "abort"} => /\ v.run \in Runs
                                       /\ run[v.run] = [to |-> v.to, state |-> "copying"]
  PROVE  MigrationInv'
<1>1. op'[o] = v
  BY DEF MigrationInv, Typed
<1>2. v.pc \notin Reading /\ v.pc \notin Copying /\ v.pc \notin InHand
  BY DEF Reading, Copying, InHand
<1>3. RunInv(o)'
  BY <1>1, <1>2 DEF RunInv
<1>4. TodoInv(o)' /\ HandInv(o)'
  BY <1>1, <1>2 DEF TodoInv, HandInv
<1>5. QED
  BY <1>3, <1>4, MoveKeeps DEF MigrationInv, Typed, thread

LEMMA PlanKeeps ==
  ASSUME OneOperator, MigrationInv, NEW o \in Operators, NEW to \in Places, plan(o, to)
  PROVE  MigrationInv'
<1>1. PICK v : v = [op[o] EXCEPT !.pc = "open", !.to = to]
  OBVIOUS
<1>2. v \in Processes /\ v.pc = "open" /\ v.to = to
  BY <1>1 DEF MigrationInv, Typed, Processes
<1>3. op' = [op EXCEPT ![o] = v]
  BY <1>1 DEF plan
<1>4. QED
  BY <1>2, <1>3, LeftKeeps DEF plan, MigrationInv, Typed

LEMMA OpenRunKeeps ==
  ASSUME OneOperator, MigrationInv, NEW o \in Operators, open_run(o) PROVE MigrationInv'
<1> USE DEF open_run
<1>1. op[o] \in Processes /\ op[o].to \in Places
  BY DEF MigrationInv, Typed, RunInv
<1>2. ASSUME NEW g \in OpenRuns, UNCHANGED run,
             op' = [op EXCEPT ![o] = IF run[g].to = op[o].to
                                     THEN [@ EXCEPT !.pc = "pause", !.run = g] ELSE IdleOp]
      PROVE  MigrationInv'
  <2>1. CASE run[g].to = op[o].to
    <3>1. PICK v : v = [op[o] EXCEPT !.pc = "pause", !.run = g]
      OBVIOUS
    <3>2. v \in Processes /\ v.pc = "pause" /\ v.run = g /\ v.to = op[o].to /\ g \in Runs
      BY <1>1, <3>1 DEF Processes, OpenRuns
    <3>3. op' = [op EXCEPT ![o] = v]
      BY <1>2, <2>1, <3>1
    <3>4. run[g] = [to |-> op[o].to, state |-> "copying"]
      <4>1. run[g].state = "copying" /\ run[g].to = op[o].to
        BY <2>1 DEF OpenRuns
      <4>2. run[g] \in RunRows
        BY <3>2 DEF MigrationInv, Typed
      <4>3. QED
        BY <4>1, <4>2 DEF RunRows
    <3>5. v.run \in Runs /\ run[v.run] = [to |-> v.to, state |-> "copying"] /\ v.to \in Places
      BY <1>1, <3>2, <3>4
    <3>6. faults' \in 0..MaxFaults
      BY DEF MigrationInv, Typed
    <3>7. QED
      BY <1>2, <3>2, <3>3, <3>5, <3>6, LeftKeeps
  <2>2. CASE run[g].to # op[o].to
    BY <1>2, <2>2, IdleIsProcess, LeftKeeps DEF MigrationInv, Typed
  <2>3. QED
    BY <2>1, <2>2
<1>3. ASSUME NEW g \in Runs, OpenRuns = {}, run[g] = NoRun,
             run' = [run EXCEPT ![g] = [to |-> op[o].to, state |-> "copying"]],
             op' = [op EXCEPT ![o].pc = "pause", ![o].run = g]
      PROVE  MigrationInv'
  <2>1. PICK v : v = [op[o] EXCEPT !.pc = "pause", !.run = g]
    OBVIOUS
  <2>2. v \in Processes /\ v.pc = "pause" /\ v.run = g /\ v.to = op[o].to
    BY <1>1, <2>1 DEF Processes
  <2>3. op' = [op EXCEPT ![o] = v] /\ op'[o] = v
    BY <1>3, <2>1 DEF MigrationInv, Typed
  <2>4. /\ run' \in [Runs -> RunRows]
        /\ run'[g] = [to |-> op[o].to, state |-> "copying"]
        /\ \A h \in Runs \ {g} : run'[h] = run[h]
    BY <1>1, <1>3 DEF MigrationInv, Typed, RunRows
  <2>5. Typed'
    BY <2>2, <2>3, <2>4 DEF MigrationInv, Typed, thread
  <2>6. OneOpen'
    BY <1>3, <2>4 DEF OneOpen, OpenRuns
  <2>7. ASSUME NEW h \in Runs, NEW m \in Msgs PROVE ItemInv(h, m)'
    <3>1. run[g].state = "none" /\ ItemInv(g, m)
      BY <1>3 DEF NoRun, MigrationInv
    <3>2. CASE h = g
      <4>1. item[g][m].state = "none"
        BY <3>1 DEF ItemInv
      <4>2. QED
        BY <3>2, <4>1 DEF ItemInv
    <3>3. CASE h # g
      <4>1. run'[h] = run[h] /\ ItemInv(h, m)
        BY <2>4, <3>3 DEF MigrationInv
      <4>2. QED
        BY <4>1 DEF ItemInv
    <3>4. QED
      BY <3>2, <3>3
  <2>8. RunInv(o)'
    BY <1>1, <2>2, <2>3, <2>4 DEF RunInv, Reading, Copying
  <2>9. TodoInv(o)' /\ HandInv(o)'
    BY <2>2, <2>3 DEF TodoInv, HandInv, Copying, InHand
  <2>10. QED
    BY <2>5, <2>6, <2>7, <2>8, <2>9, RowsKept, ProcessStepKeeps
<1>4. QED
  BY <1>2, <1>3

LEMMA DiesKeeps ==
  ASSUME OneOperator, MigrationInv, NEW o \in Operators, Dies(o) PROVE MigrationInv'
<1>1. faults' \in 0..MaxFaults
  BY MigrationConstants DEF Dies, Fault, MigrationInv, Typed
<1>2. QED
  BY <1>1, IdleIsProcess, LeftKeeps DEF Dies

(* A copy that is given up, its run still open.                            *)
LEMMA GivesUpKeeps ==
  ASSUME OneOperator, MigrationInv, NEW o \in Operators, op[o].pc \notin {"idle", "open"},
         op' = [op EXCEPT ![o].pc = "abort"], faults' \in 0..MaxFaults,
         UNCHANGED <<thread, msg, broker, lost, run, lastCut, item, swept>>
  PROVE  MigrationInv'
<1>1. PICK v : v = [op[o] EXCEPT !.pc = "abort"]
  OBVIOUS
<1>2. v \in Processes /\ v.pc = "abort" /\ v.run = op[o].run /\ v.to = op[o].to
  BY <1>1 DEF MigrationInv, Typed, Processes
<1>3. op' = [op EXCEPT ![o] = v]
  BY <1>1
<1>4. RunInv(o)
  BY DEF MigrationInv
<1>5. QED
  BY <1>2, <1>3, <1>4, LeftKeeps, ZenonT(30) DEF RunInv

LEMMA FailsKeeps ==
  ASSUME OneOperator, MigrationInv, NEW o \in Operators, Fails(o) PROVE MigrationInv'
<1>1. faults' \in 0..MaxFaults
  BY MigrationConstants DEF Fails, Fault, MigrationInv, Typed
<1>2. op[o].pc \notin {"idle", "open"}
  BY DEF Fails, Copying
<1>3. QED
  BY <1>1, <1>2, GivesUpKeeps DEF Fails

LEMMA PauseKeeps ==
  ASSUME OneOperator, MigrationInv, NEW o \in Operators, Pause(o) PROVE MigrationInv'
<1> USE DEF Pause
<1>1. PICK v : v = [op[o] EXCEPT !.pc = "rows"]
  OBVIOUS
<1>2. v \in Processes /\ v.pc = "rows" /\ v.run = op[o].run /\ v.to = op[o].to
  BY <1>1 DEF MigrationInv, Typed, Processes
<1>3. op' = [op EXCEPT ![o] = v] /\ op'[o] = v
  BY <1>1 DEF MigrationInv, Typed
<1>4. RunInv(o)'
  BY <1>2, <1>3 DEF MigrationInv, RunInv
<1>5. TodoInv(o)' /\ HandInv(o)'
  BY <1>2, <1>3 DEF TodoInv, HandInv, Copying, InHand
<1>6. QED
  BY <1>2, <1>3, <1>4, <1>5, MoveKeeps DEF MigrationInv, Typed

LEMMA ReadRowsKeeps ==
  ASSUME OneOperator, MigrationInv, NEW o \in Operators, ReadRows(o) PROVE MigrationInv'
<1> USE DEF ReadRows
<1>1. PICK rows : rows = [m \in Msgs |-> [body |-> msg[m].body, locator |-> msg[m].locator]]
  OBVIOUS
<1>2. rows \in [Msgs -> [body : Bodies, locator : BOOLEAN]]
  BY <1>1 DEF MigrationInv, Typed, MsgRows
<1>3. PICK todo : todo = {m \in Sent : ~msg[m].tombstoned /\ msg[m].place # op[o].to}
  OBVIOUS
<1>4. PICK v : v = [op[o] EXCEPT !.pc = "next", !.rows = rows, !.todo = todo]
  OBVIOUS
<1>5. todo \in SUBSET Msgs
  BY <1>3 DEF Sent
<1>6. /\ v \in Processes /\ v.pc = "next" /\ v.rows = rows /\ v.todo = todo
      /\ v.run = op[o].run /\ v.to = op[o].to
  BY <1>2, <1>4, <1>5, ZenonT(30) DEF MigrationInv, Typed, Processes, Copying
<1>7. op' = [op EXCEPT ![o] = v] /\ op'[o] = v
  BY <1>1, <1>3, <1>4 DEF MigrationInv, Typed
<1>8. RunInv(o)'
  BY <1>6, <1>7 DEF MigrationInv, RunInv, thread, Reading
<1>9. TodoInv(o)'
  <2>1. ASSUME NEW m \in todo
        PROVE  /\ msg[m].state # "none" /\ msg[m].place # op[o].to
               /\ op[o].to = "jetstream" => rows[m].body = "full"
               /\ rows[m].locator => msg[m].state = "stored"
    <3>1. m \in Msgs /\ msg[m].state # "none" /\ msg[m].place # op[o].to
      BY <1>3 DEF Sent
    <3>2. rows[m].body = msg[m].body /\ rows[m].locator = msg[m].locator
      BY <1>1, <3>1
    <3>3. msg[m].state \in {"none", "pending", "stored"} /\ msg[m].place \in Places
      BY <3>1 DEF MigrationInv, Typed, MsgRows
    <3>4. QED
      BY <3>1, <3>2, <3>3 DEF MigrationInv, RowInv, Places
  <2>2. ASSUME NEW m \in Sent
        PROVE  msg[m].tombstoned \/ msg[m].place = op[o].to \/ m \in todo
    BY <1>3
  <2>3. Sent' = Sent
    BY DEF Sent
  <2>4. QED
    BY <1>6, <1>7, <2>1, <2>2, <2>3, ZenonT(30) DEF TodoInv
<1>10. HandInv(o)'
  BY <1>6, <1>7 DEF HandInv, InHand
<1>11. QED
  BY <1>6, <1>7, <1>8, <1>9, <1>10, MoveKeeps DEF MigrationInv, Typed, thread

(* The message a copying process is about to handle.                       *)
LEMMA CopyingFacts ==
  ASSUME MigrationInv, NEW o \in Operators, op[o].pc \in Copying, op[o].todo # {}
  PROVE  /\ Current(o) \in op[o].todo /\ op[o] \in Processes
         /\ Current(o) \in Msgs /\ op[o].run \in Runs /\ op[o].to \in Places /\ paused
         /\ run[op[o].run] = [to |-> op[o].to, state |-> "copying"]
         /\ run[op[o].run].state = "copying" /\ run[op[o].run].to = op[o].to
         /\ msg[Current(o)].state # "none" /\ msg[Current(o)].place # op[o].to
<1>1. op[o] \in Processes /\ op[o].todo \subseteq Msgs
  BY DEF MigrationInv, Typed, Processes
<1>2. Current(o) \in op[o].todo
  BY <1>1, FirstIsOne DEF Current
<1>3. TodoInv(o) /\ RunInv(o)
  BY DEF MigrationInv
<1>4. op[o].pc \in Reading /\ op[o].pc \notin {"idle", "open"}
  BY DEF Reading, Copying
<1>5. op[o].run \in Runs /\ op[o].to \in Places /\ paused
      /\ run[op[o].run] = [to |-> op[o].to, state |-> "copying"]
  BY <1>3, <1>4 DEF RunInv
<1>6. run[op[o].run].state = "copying" /\ run[op[o].run].to = op[o].to
  BY <1>5
<1>7. msg[Current(o)].state # "none" /\ msg[Current(o)].place # op[o].to
  BY <1>2, <1>3 DEF TodoInv
<1>8. QED
  BY <1>1, <1>2, <1>5, <1>6, <1>7

LEMMA InHandFacts ==
  ASSUME MigrationInv, NEW o \in Operators, op[o].pc \in InHand
  PROVE  /\ op[o].pc \in Copying /\ op[o].todo # {} /\ op[o].body = "full"
         /\ item[op[o].run][Current(o)].state # "none" /\ msg[Current(o)].state = "stored"
         /\ op[o].pc \in {"back", "verify"} => item[op[o].run][Current(o)].target
<1>1. HandInv(o) /\ op[o].pc \in Copying
  BY DEF MigrationInv, InHand, Copying
<1>2. op[o].todo # {} /\ op[o].body = "full" /\ item[op[o].run][Current(o)].state # "none"
      /\ (op[o].pc \in {"back", "verify"} => item[op[o].run][Current(o)].target)
  BY <1>1 DEF HandInv
<1>3. ItemInv(op[o].run, Current(o))
  BY <1>1, <1>2, CopyingFacts DEF MigrationInv
<1>4. QED
  BY <1>1, <1>2, <1>3 DEF ItemInv

(* An item that is written, and what it has to vouch for.                  *)
Vouches(g, m, it) ==
  run[g].state = "copying" /\ it.state = "verified" =>
    /\ run[g].to = "postgres" => msg[m].body = "full"
    /\ run[g].to = "jetstream" => it.target /\ (m \in lost \/ broker[m] = "full")

LEMMA ItemWritten ==
  ASSUME MigrationInv, NEW g \in Runs, NEW m \in Msgs, NEW it \in ItemRows,
         item' = [item EXCEPT ![g][m] = it], UNCHANGED <<msg, broker, lost, run>>,
         msg[m].state = "stored", run[g].state # "none", Vouches(g, m, it)
  PROVE  /\ OneOpen' /\ item' \in [Runs -> [Msgs -> ItemRows]] /\ item'[g][m] = it
         /\ \A h \in Runs, n \in Msgs : h # g \/ n # m => item'[h][n] = item[h][n]
         /\ \A h \in Runs, n \in Msgs : ItemInv(h, n)'
<1>1. item \in [Runs -> [Msgs -> ItemRows]]
  BY DEF MigrationInv, Typed
<1>2. item' \in [Runs -> [Msgs -> ItemRows]]
  BY <1>1
<1>3. item'[g][m] = it /\ \A h \in Runs, n \in Msgs : h # g \/ n # m => item'[h][n] = item[h][n]
  BY <1>1
<1>4. OneOpen'
  BY DEF MigrationInv, OneOpen, OpenRuns
<1>5. ASSUME NEW h \in Runs, NEW n \in Msgs PROVE ItemInv(h, n)'
  <2>1. CASE h = g /\ n = m
    BY <1>3, <2>1 DEF ItemInv, Vouches
  <2>2. CASE h # g \/ n # m
    <3>1. item'[h][n] = item[h][n] /\ ItemInv(h, n)
      BY <1>3, <2>2 DEF MigrationInv
    <3>2. QED
      BY <3>1 DEF ItemInv
  <2>3. QED
    BY <2>1, <2>2
<1>6. QED
  BY <1>2, <1>3, <1>4, <1>5

(* A copying process that stays at the same message.                       *)
LEMMA SameTodo ==
  ASSUME MigrationInv, NEW o \in Operators, op[o].pc \in Copying,
         op'[o].to = op[o].to, op'[o].run = op[o].run, op'[o].rows = op[o].rows,
         op'[o].todo = op[o].todo, UNCHANGED <<paused, run>>,
         op'[o].pc # "idle", op'[o].pc # "open",
         \A m \in Msgs : /\ msg'[m].state = msg[m].state /\ msg'[m].place = msg[m].place
                         /\ msg'[m].tombstoned = msg[m].tombstoned,
         \A m \in Msgs \ op[o].todo : item[op[o].run][m].state = "verified" =>
                                      item'[op[o].run][m].state = "verified"
  PROVE  RunInv(o)' /\ TodoInv(o)'
<1>1. RunInv(o) /\ TodoInv(o)
  BY DEF MigrationInv
<1>2. op[o].pc \in Reading /\ op[o].pc \notin {"idle", "open"}
  BY DEF Reading, Copying
<1>3. RunInv(o)'
  BY <1>1, <1>2 DEF RunInv
<1>4. op[o].todo \subseteq Msgs
  BY DEF MigrationInv, Typed, Processes
<1>5. ASSUME NEW m \in op[o].todo
      PROVE  /\ msg'[m].state # "none" /\ msg'[m].place # op[o].to
             /\ op[o].to = "jetstream" => op[o].rows[m].body = "full"
             /\ op[o].rows[m].locator => msg'[m].state = "stored"
  BY <1>1, <1>4 DEF TodoInv
<1>6. ASSUME NEW m \in Sent'
      PROVE  \/ msg'[m].tombstoned \/ msg'[m].place = op[o].to
             \/ m \in op[o].todo \/ item'[op[o].run][m].state = "verified"
  BY <1>1 DEF TodoInv, Sent
<1>7. TodoInv(o)'
  BY <1>5, <1>6 DEF TodoInv
<1>8. QED
  BY <1>3, <1>7

(* One that is done with a message.                                        *)
LEMMA DoneTodo ==
  ASSUME MigrationInv, NEW o \in Operators, op[o].pc \in Copying, op[o].todo # {},
         op'[o].to = op[o].to, op'[o].run = op[o].run, op'[o].rows = op[o].rows,
         op'[o].todo = op[o].todo \ {Current(o)}, op'[o].pc = "next",
         UNCHANGED <<paused, run, msg>>,
         \A m \in Msgs : item[op[o].run][m].state = "verified" =>
                           item'[op[o].run][m].state = "verified",
         item'[op[o].run][Current(o)].state = "verified"
  PROVE  RunInv(o)' /\ TodoInv(o)' /\ HandInv(o)'
<1>1. RunInv(o) /\ TodoInv(o)
  BY DEF MigrationInv
<1>2. op[o].pc \in Reading /\ op[o].pc \notin {"idle", "open"}
  BY DEF Reading, Copying
<1>3. RunInv(o)'
  BY <1>1, <1>2 DEF RunInv
<1>4. HandInv(o)'
  BY DEF HandInv, InHand
<1>5. ASSUME NEW m \in op'[o].todo
      PROVE  /\ msg[m].state # "none" /\ msg[m].place # op[o].to
             /\ op[o].to = "jetstream" => op[o].rows[m].body = "full"
             /\ op[o].rows[m].locator => msg[m].state = "stored"
  BY <1>1 DEF TodoInv
<1>6. ASSUME NEW m \in Sent'
      PROVE  \/ msg[m].tombstoned \/ msg[m].place = op[o].to
             \/ m \in op'[o].todo \/ item'[op[o].run][m].state = "verified"
  BY <1>1 DEF TodoInv, Sent
<1>7. TodoInv(o)'
  BY <1>5, <1>6 DEF TodoInv
<1>8. QED
  BY <1>3, <1>4, <1>7

LEMMA ReadSourceKeeps ==
  ASSUME OneOperator, MigrationInv, NEW o \in Operators, ReadSource(o) PROVE MigrationInv'
<1> USE DEF ReadSource
<1>1. PICK m : m = Current(o)
  OBVIOUS
<1>2. PICK g : g = op[o].run
  OBVIOUS
<1>3. PICK body : body = IF op[o].to = "jetstream" THEN op[o].rows[m].body
                         ELSE IF op[o].rows[m].locator THEN broker[m] ELSE "none"
  OBVIOUS
<1>4. op[o].pc \in Copying /\ op[o].todo # {} /\ op[o].pc = "next"
  BY DEF Copying
<1>5. /\ m \in op[o].todo /\ op[o] \in Processes /\ m \in Msgs /\ g \in Runs
      /\ op[o].to \in Places /\ run[g].state = "copying" /\ run[g].to = op[o].to
      /\ msg[m].state # "none" /\ msg[m].place # op[o].to
  BY <1>1, <1>2, <1>4, CopyingFacts
<1>6. faults' \in 0..MaxFaults /\ item \in [Runs -> [Msgs -> ItemRows]]
  BY DEF MigrationInv, Typed
<1>7. CASE item[g][m].state = "verified" /\ op' = [op EXCEPT ![o].todo = @ \ {m}] /\ UNCHANGED item
  <2>1. PICK v : v = [op[o] EXCEPT !.todo = @ \ {m}]
    OBVIOUS
  <2>2. /\ v \in Processes /\ v.pc = "next" /\ v.run = g /\ v.to = op[o].to
        /\ v.rows = op[o].rows /\ v.todo = op[o].todo \ {m}
    BY <1>2, <1>4, <1>5, <2>1 DEF Processes
  <2>3. op' = [op EXCEPT ![o] = v] /\ op'[o] = v
    BY <1>7, <2>1 DEF MigrationInv, Typed
  <2>4. RunInv(o)' /\ TodoInv(o)' /\ HandInv(o)'
    BY <1>1, <1>2, <1>4, <1>7, <2>2, <2>3, DoneTodo DEF thread
  <2>5. QED
    BY <1>6, <1>7, <2>2, <2>3, <2>4, MoveKeeps DEF thread, MigrationInv, Typed
<1>8. CASE op' = [op EXCEPT ![o].pc = "abort"] /\ UNCHANGED item
  BY <1>4, <1>6, <1>8, GivesUpKeeps
<1>9. CASE /\ item[g][m].state # "verified" /\ body # "none"
           /\ op' = [op EXCEPT ![o].pc = "write", ![o].body = body]
           /\ item' = [item EXCEPT ![g][m].state = IF @ = "none" THEN "planned" ELSE @]
  <2>1. TodoInv(o) /\ RowInv(m) /\ msg[m].place \in Places /\ broker[m] \in Bodies \cup {"none"}
        /\ msg[m].state \in {"none", "pending", "stored"}
    BY <1>5 DEF MigrationInv, Typed, MsgRows
  <2>2. body = "full" /\ msg[m].state = "stored"
    BY <1>3, <1>4, <1>5, <1>9, <2>1 DEF TodoInv, RowInv, Places, Bodies
  <2>3. PICK v : v = [op[o] EXCEPT !.pc = "write", !.body = body]
    OBVIOUS
  <2>4. /\ v \in Processes /\ v.pc = "write" /\ v.run = g /\ v.to = op[o].to
        /\ v.rows = op[o].rows /\ v.todo = op[o].todo /\ v.body = "full"
    BY <1>2, <1>5, <2>2, <2>3 DEF Processes, Copying, Bodies
  <2>5. op' = [op EXCEPT ![o] = v] /\ op'[o] = v
    BY <1>9, <2>3 DEF MigrationInv, Typed
  <2>6. PICK it : it = [item[g][m] EXCEPT !.state = IF @ = "none" THEN "planned" ELSE @]
    OBVIOUS
  <2>7. item[g][m] \in ItemRows
    BY <1>5, <1>6
  <2>8. it \in ItemRows /\ it.state # "none" /\ it.state # "verified"
    BY <1>9, <2>6, <2>7 DEF ItemRows
  <2>9. item' = [item EXCEPT ![g][m] = it] /\ Vouches(g, m, it)
    BY <1>9, <2>6, <2>8 DEF Vouches
  <2>10. /\ OneOpen' /\ item' \in [Runs -> [Msgs -> ItemRows]] /\ item'[g][m] = it
         /\ \A h \in Runs, n \in Msgs : h # g \/ n # m => item'[h][n] = item[h][n]
         /\ \A h \in Runs, n \in Msgs : ItemInv(h, n)'
    BY <1>5, <2>2, <2>8, <2>9, ItemWritten
  <2>11. RunInv(o)' /\ TodoInv(o)'
    <3>1. \A n \in Msgs : item[g][n].state = "verified" => item'[g][n].state = "verified"
      BY <1>5, <1>9, <2>10
    <3>2. \A n \in Msgs : item[op[o].run][n].state = "verified" =>
                          item'[op[o].run][n].state = "verified"
      BY <1>2, <3>1
    <3>3. /\ op'[o].to = op[o].to /\ op'[o].run = op[o].run /\ op'[o].rows = op[o].rows
          /\ op'[o].todo = op[o].todo /\ op'[o].pc # "idle" /\ op'[o].pc # "open"
      BY <1>2, <2>4, <2>5
    <3>4. QED
      BY <1>4, <3>2, <3>3, SameTodo DEF thread
  <2>12. HandInv(o)'
    <3>1. Current(o)' = m
      BY <1>1, <2>4, <2>5 DEF Current
    <3>2. QED
      BY <1>4, <2>4, <2>5, <2>8, <2>10, <3>1 DEF HandInv
  <2>13. Typed'
    BY <2>4, <2>5, <2>10 DEF MigrationInv, Typed, thread
  <2>14. QED
    BY <2>10, <2>11, <2>12, <2>13, RowsKept, ProcessStepKeeps
<1>10. QED
  BY <1>1, <1>2, <1>3, <1>7, <1>8, <1>9

LEMMA WriteToRowKeeps ==
  ASSUME OneOperator, MigrationInv, NEW o \in Operators, WriteToRow(o) PROVE MigrationInv'
<1> USE DEF WriteToRow
<1>1. PICK m : m = Current(o)
  OBVIOUS
<1>2. PICK g : g = op[o].run
  OBVIOUS
<1>3. op[o].pc \in InHand
  BY DEF InHand
<1>4. /\ op[o].pc \in Copying /\ op[o].todo # {} /\ op[o].body = "full"
      /\ item[g][m].state # "none" /\ msg[m].state = "stored"
  BY <1>1, <1>2, <1>3, InHandFacts
<1>5. m \in op[o].todo /\ op[o] \in Processes /\ m \in Msgs /\ g \in Runs /\ msg[m] \in MsgRows
  BY <1>1, <1>2, <1>4, CopyingFacts DEF MigrationInv, Typed
<1>6. PICK v : v = [op[o] EXCEPT !.pc = "copied"]
  OBVIOUS
<1>7. /\ v \in Processes /\ v.pc = "copied" /\ v.run = g /\ v.to = op[o].to
      /\ v.rows = op[o].rows /\ v.todo = op[o].todo /\ v.body = "full"
  BY <1>2, <1>4, <1>5, <1>6 DEF Processes, Copying
<1>8. op' = [op EXCEPT ![o] = v] /\ op'[o] = v
  BY <1>6 DEF MigrationInv, Typed
<1>9. PICK r : r = [msg[m] EXCEPT !.body = "full"]
  OBVIOUS
<1>10. /\ r \in MsgRows /\ r.body = "full" /\ r.state = msg[m].state /\ r.place = msg[m].place
       /\ r.locator = msg[m].locator /\ r.tombstoned = msg[m].tombstoned
  BY <1>5, <1>9 DEF MsgRows, Bodies
<1>11. msg' = [msg EXCEPT ![m] = r] /\ msg'[m] = r /\ \A n \in Msgs \ {m} : msg'[n] = msg[n]
  <2>1. msg' = [msg EXCEPT ![m] = r]
    BY <1>1, <1>4, <1>9
  <2>2. msg \in [Msgs -> MsgRows]
    BY DEF MigrationInv, Typed
  <2>3. QED
    BY <1>5, <2>1, <2>2
<1>12. Typed'
  BY <1>7, <1>8, <1>10, <1>11, ZenonT(30) DEF MigrationInv, Typed, thread
<1>13. ASSUME NEW n \in Msgs PROVE RowInv(n)'
  <2>1. RowInv(n)
    BY DEF MigrationInv
  <2>2. CASE n = m
    BY <1>4, <1>10, <1>11, <2>1, <2>2 DEF RowInv, thread
  <2>3. CASE n # m
    BY <1>11, <2>1, <2>3 DEF RowInv, thread
  <2>4. QED
    BY <2>2, <2>3
<1>14. ASSUME NEW h \in Runs, NEW n \in Msgs PROVE ItemInv(h, n)'
  <2>1. ItemInv(h, n)
    BY DEF MigrationInv
  <2>2. CASE n = m
    BY <1>10, <1>11, <2>1, <2>2 DEF ItemInv
  <2>3. CASE n # m
    BY <1>11, <2>1, <2>3 DEF ItemInv
  <2>4. QED
    BY <2>2, <2>3
<1>15. OneOpen'
  BY DEF MigrationInv, OneOpen, OpenRuns
<1>16. \A n \in Msgs : /\ msg'[n].state = msg[n].state /\ msg'[n].place = msg[n].place
                       /\ msg'[n].tombstoned = msg[n].tombstoned
  BY <1>10, <1>11
<1>17. RunInv(o)' /\ TodoInv(o)'
  BY <1>2, <1>4, <1>7, <1>8, <1>16, SameTodo DEF thread
<1>18. HandInv(o)'
  BY <1>1, <1>2, <1>4, <1>7, <1>8 DEF HandInv, Current
<1>19. QED
  BY <1>12, <1>13, <1>14, <1>15, <1>17, <1>18, ProcessStepKeeps

(* The message and the run in hand.                                        *)
InHandIs(o, m, g) == m = Current(o) /\ g = op[o].run

(* A step of a copy that writes an item, or none, and goes on.             *)
LEMMA ItemStepKeeps ==
  ASSUME OneOperator, MigrationInv, NEW o \in Operators, op[o].pc \in InHand,
         NEW m, NEW g, InHandIs(o, m, g),
         NEW pc \in {"copied", "back", "verify", "abort"}, op' = [op EXCEPT ![o].pc = pc],
         NEW it \in ItemRows, item' = [item EXCEPT ![g][m] = it], it.state # "none",
         Vouches(g, m, it),
         pc \in {"back", "verify"} => it.target,
         pc = "verify" => IF op[o].to = "postgres" THEN msg[m].body = "full"
                          ELSE m \in lost \/ broker[m] = "full",
         UNCHANGED <<thread, msg, broker, lost, run, lastCut, swept, faults>>
  PROVE  MigrationInv'
<1>1. /\ op[o].pc \in Copying /\ op[o].todo # {} /\ op[o].body = "full"
      /\ msg[m].state = "stored"
  BY InHandFacts DEF InHandIs
<1>2. /\ op[o] \in Processes /\ m \in Msgs /\ g \in Runs /\ run[g].state = "copying"
      /\ m \in op[o].todo
  BY <1>1, CopyingFacts DEF InHandIs
<1>3. PICK v : v = [op[o] EXCEPT !.pc = pc]
  OBVIOUS
<1>4. /\ v \in Processes /\ v.pc = pc /\ v.run = g /\ v.to = op[o].to
      /\ v.rows = op[o].rows /\ v.todo = op[o].todo /\ v.body = "full"
  BY <1>1, <1>2, <1>3 DEF Processes, Copying, InHandIs
<1>5. op' = [op EXCEPT ![o] = v] /\ op'[o] = v
  BY <1>3 DEF MigrationInv, Typed
<1>6. /\ OneOpen' /\ item' \in [Runs -> [Msgs -> ItemRows]] /\ item'[g][m] = it
      /\ \A h \in Runs, n \in Msgs : h # g \/ n # m => item'[h][n] = item[h][n]
      /\ \A h \in Runs, n \in Msgs : ItemInv(h, n)'
  <2>1. m \in Msgs /\ g \in Runs /\ run[g].state # "none" /\ msg[m].state = "stored"
    BY <1>1, <1>2
  <2>2. UNCHANGED <<msg, broker, lost, run>>
    OBVIOUS
  <2>3. QED
    BY <2>1, <2>2, ItemWritten
<1>7. \A n \in Msgs \ op[o].todo : item[op[o].run][n].state = "verified" =>
                                   item'[op[o].run][n].state = "verified"
  BY <1>2, <1>6 DEF InHandIs
<1>8. /\ op'[o].to = op[o].to /\ op'[o].run = op[o].run /\ op'[o].rows = op[o].rows
      /\ op'[o].todo = op[o].todo /\ op'[o].pc # "idle" /\ op'[o].pc # "open"
  BY <1>4, <1>5 DEF InHandIs
<1>9. RunInv(o)' /\ TodoInv(o)'
  BY <1>1, <1>7, <1>8, SameTodo DEF thread
<1>10. HandInv(o)'
  <2>1. Current(o)' = m
    BY <1>4, <1>5 DEF Current, InHandIs
  <2>2. /\ op'[o].todo # {} /\ op'[o].body = "full" /\ op'[o].pc = pc /\ op'[o].to = op[o].to
        /\ item'[op'[o].run][m] = it
    BY <1>1, <1>4, <1>5, <1>6
  <2>3. UNCHANGED <<msg, broker, lost>>
    OBVIOUS
  <2>4. QED
    BY <2>1, <2>2, <2>3 DEF HandInv
<1>11. Typed'
  BY <1>4, <1>5, <1>6 DEF MigrationInv, Typed, thread
<1>12. QED
  BY <1>6, <1>9, <1>10, <1>11, RowsKept, ProcessStepKeeps

(* One that verifies the message in hand.                                  *)
LEMMA VerifyKeeps ==
  ASSUME OneOperator, MigrationInv, NEW o \in Operators, op[o].pc \in InHand,
         NEW m, NEW g, InHandIs(o, m, g),
         op' = [op EXCEPT ![o].pc = "next", ![o].todo = @ \ {m}],
         item' = [item EXCEPT ![g][m].state = "verified"],
         op[o].to = "postgres" => msg[m].body = "full",
         op[o].to = "jetstream" => item[g][m].target /\ (m \in lost \/ broker[m] = "full"),
         UNCHANGED <<thread, msg, broker, lost, run, lastCut, swept, faults>>
  PROVE  MigrationInv'
<1>1. op[o].pc \in Copying /\ op[o].todo # {} /\ msg[m].state = "stored"
  BY InHandFacts DEF InHandIs
<1>2. /\ op[o] \in Processes /\ m \in Msgs /\ g \in Runs /\ run[g].state = "copying"
      /\ run[g].to = op[o].to
  BY <1>1, CopyingFacts DEF InHandIs
<1>3. PICK v : v = [op[o] EXCEPT !.pc = "next", !.todo = @ \ {m}]
  OBVIOUS
<1>4. /\ v \in Processes /\ v.pc = "next" /\ v.run = g /\ v.to = op[o].to
      /\ v.rows = op[o].rows /\ v.todo = op[o].todo \ {m}
  BY <1>1, <1>2, <1>3 DEF Processes, Copying, InHandIs
<1>5. op' = [op EXCEPT ![o] = v] /\ op'[o] = v
  BY <1>3 DEF MigrationInv, Typed
<1>6. PICK it : it = [item[g][m] EXCEPT !.state = "verified"]
  OBVIOUS
<1>7. item[g][m] \in ItemRows
  BY <1>2 DEF MigrationInv, Typed
<1>8. it \in ItemRows /\ it.state = "verified" /\ it.target = item[g][m].target
  BY <1>6, <1>7 DEF ItemRows
<1>9. item' = [item EXCEPT ![g][m] = it]
  BY <1>6
<1>10. Vouches(g, m, it)
  BY <1>2, <1>8 DEF Vouches
<1>11. /\ OneOpen' /\ item' \in [Runs -> [Msgs -> ItemRows]] /\ item'[g][m] = it
       /\ \A h \in Runs, n \in Msgs : h # g \/ n # m => item'[h][n] = item[h][n]
       /\ \A h \in Runs, n \in Msgs : ItemInv(h, n)'
  <2>1. m \in Msgs /\ g \in Runs /\ run[g].state # "none" /\ msg[m].state = "stored"
    BY <1>1, <1>2
  <2>2. UNCHANGED <<msg, broker, lost, run>>
    OBVIOUS
  <2>3. QED
    BY <1>8, <1>9, <1>10, <2>1, <2>2, ItemWritten
<1>12. /\ \A n \in Msgs : item[op[o].run][n].state = "verified" =>
                          item'[op[o].run][n].state = "verified"
       /\ item'[op[o].run][Current(o)].state = "verified"
  BY <1>2, <1>8, <1>11 DEF InHandIs
<1>13. /\ op'[o].to = op[o].to /\ op'[o].run = op[o].run /\ op'[o].rows = op[o].rows
       /\ op'[o].todo = op[o].todo \ {Current(o)} /\ op'[o].pc = "next"
  BY <1>4, <1>5 DEF InHandIs
<1>14. RunInv(o)' /\ TodoInv(o)' /\ HandInv(o)'
  BY <1>1, <1>12, <1>13, DoneTodo DEF thread
<1>15. Typed'
  BY <1>4, <1>5, <1>11 DEF MigrationInv, Typed, thread
<1>16. QED
  BY <1>11, <1>14, <1>15, RowsKept, ProcessStepKeeps

LEMMA MarkCopiedKeeps ==
  ASSUME OneOperator, MigrationInv, NEW o \in Operators, MarkCopied(o) PROVE MigrationInv'
<1>1. PICK m : m = Current(o)
  OBVIOUS
<1>2. PICK g : g = op[o].run
  OBVIOUS
<1>3. PICK it : it = [state |-> "copied", target |-> TRUE]
  OBVIOUS
<1>4. it \in ItemRows /\ it.state = "copied" /\ it.target /\ Vouches(g, m, it)
  BY <1>3 DEF ItemRows, Vouches
<1>5. op[o].pc \in InHand
  BY DEF MarkCopied, InHand
<1>6. QED
  BY <1>1, <1>2, <1>3, <1>4, <1>5, ItemStepKeeps DEF MarkCopied, InHandIs

LEMMA MarkVerifiedKeeps ==
  ASSUME OneOperator, MigrationInv, NEW o \in Operators, MarkVerified(o) PROVE MigrationInv'
<1>1. PICK m : m = Current(o)
  OBVIOUS
<1>2. PICK g : g = op[o].run
  OBVIOUS
<1>3. op[o].pc \in InHand /\ op[o].pc = "verify"
  BY DEF MarkVerified, InHand
<1>4. /\ op[o].to = "postgres" => msg[m].body = "full"
      /\ op[o].to = "jetstream" => item[g][m].target /\ (m \in lost \/ broker[m] = "full")
  BY <1>1, <1>2, <1>3 DEF MigrationInv, HandInv
<1>5. QED
  BY <1>1, <1>2, <1>3, <1>4, VerifyKeeps DEF MarkVerified, InHandIs

LEMMA ReadBackKeeps ==
  ASSUME OneOperator, MigrationInv, NEW o \in Operators, ReadBack(o) PROVE MigrationInv'
<1> USE DEF ReadBack
<1>1. PICK m : m = Current(o)
  OBVIOUS
<1>2. PICK g : g = op[o].run
  OBVIOUS
<1>3. op[o].pc \in InHand /\ op[o].pc = "back"
  BY DEF InHand
<1>4. /\ op[o].pc \in Copying /\ op[o].todo # {} /\ op[o].body = "full"
      /\ item[g][m].state # "none" /\ item[g][m].target
  BY <1>1, <1>2, <1>3, InHandFacts
<1>5. /\ m \in Msgs /\ g \in Runs /\ op[o].to \in Places
      /\ item[g][m] \in ItemRows /\ ItemInv(g, m)
  BY <1>1, <1>2, <1>4, CopyingFacts DEF MigrationInv, Typed
<1>6. PICK back : back = IF op[o].to = "jetstream" THEN broker[m] ELSE msg[m].body
  OBVIOUS
<1>7. PICK pc : pc = IF back = "full" THEN "verify" ELSE "abort"
  OBVIOUS
<1>8. PICK it : it = IF back \in Bodies \ {"full"} THEN [item[g][m] EXCEPT !.state = "failed"]
                     ELSE item[g][m]
  OBVIOUS
<1>9. op' = [op EXCEPT ![o].pc = pc]
  BY <1>1, <1>4, <1>6, <1>7
<1>10. item' = [item EXCEPT ![g][m] = it]
  <2>1. item \in [Runs -> [Msgs -> ItemRows]]
    BY DEF MigrationInv, Typed
  <2>2. CASE back \in Bodies \ {"full"}
    BY <1>1, <1>2, <1>4, <1>6, <1>8, <2>2
  <2>3. CASE back \notin Bodies \ {"full"}
    <3>1. item' = item /\ it = item[g][m]
      BY <1>1, <1>4, <1>6, <1>8, <2>3
    <3>2. QED
      BY <1>5, <2>1, <3>1
  <2>4. QED
    BY <2>2, <2>3
<1>11. it \in ItemRows /\ it.state # "none" /\ it.target /\ Vouches(g, m, it)
  <2>1. CASE back \in Bodies \ {"full"}
    BY <1>4, <1>5, <1>8, <2>1 DEF ItemRows, Vouches
  <2>2. CASE back \notin Bodies \ {"full"}
    BY <1>4, <1>5, <1>8, <2>2 DEF Vouches, ItemInv
  <2>3. QED
    BY <2>1, <2>2
<1>12. /\ pc \in {"verify", "abort"}
       /\ pc = "verify" => IF op[o].to = "postgres" THEN msg[m].body = "full"
                           ELSE m \in lost \/ broker[m] = "full"
  BY <1>5, <1>6, <1>7 DEF Places
<1>13. QED
  BY <1>1, <1>2, <1>3, <1>9, <1>10, <1>11, <1>12, ItemStepKeeps, ZenonT(30) DEF InHandIs

LEMMA WriteToBrokerKeeps ==
  ASSUME OneOperator, MigrationInv, NEW o \in Operators, WriteToBroker(o) PROVE MigrationInv'
<1> USE DEF WriteToBroker
<1>1. PICK m : m = Current(o)
  OBVIOUS
<1>2. PICK g : g = op[o].run
  OBVIOUS
<1>3. op[o].pc \in InHand /\ op[o].pc = "write" /\ op[o].to = "jetstream"
  BY DEF InHand
<1>4. /\ op[o].pc \in Copying /\ op[o].todo # {} /\ op[o].body = "full"
      /\ item[g][m].state # "none" /\ msg[m].state = "stored"
  BY <1>1, <1>2, <1>3, InHandFacts
<1>5. /\ m \in Msgs /\ g \in Runs /\ op[o] \in Processes /\ m \in op[o].todo
      /\ msg[m].place # "jetstream"
  BY <1>1, <1>2, <1>3, <1>4, CopyingFacts
<1>6. CASE /\ item[g][m].target /\ m \notin lost /\ broker[m] = op[o].body
           /\ item' = [item EXCEPT ![g][m].state = "verified"]
           /\ op' = [op EXCEPT ![o].pc = "next", ![o].todo = @ \ {m}]
           /\ UNCHANGED broker
  BY <1>1, <1>2, <1>3, <1>4, <1>6, VerifyKeeps DEF InHandIs
<1>7. ASSUME NEW stores \in BOOLEAN, NEW confirmed \in BOOLEAN, UNCHANGED item,
             broker' = IF stores /\ broker[m] = "none"
                       THEN [broker EXCEPT ![m] = op[o].body] ELSE broker,
             op' = [op EXCEPT ![o].pc = IF confirmed THEN "copied" ELSE "abort"]
      PROVE  MigrationInv'
  <2>1. PICK v : v = [op[o] EXCEPT !.pc = IF confirmed THEN "copied" ELSE "abort"]
    OBVIOUS
  <2>2. /\ v \in Processes /\ v.pc = (IF confirmed THEN "copied" ELSE "abort") /\ v.run = g
        /\ v.to = op[o].to /\ v.rows = op[o].rows /\ v.todo = op[o].todo /\ v.body = "full"
    BY <1>2, <1>4, <1>5, <2>1 DEF Processes, Copying
  <2>3. op' = [op EXCEPT ![o] = v] /\ op'[o] = v
    BY <1>7, <2>1 DEF MigrationInv, Typed
  <2>4. /\ broker' \in [Msgs -> Bodies \cup {"none"}]
        /\ broker'[m] = broker[m] \/ broker'[m] = "full"
        /\ \A n \in Msgs \ {m} : broker'[n] = broker[n]
    BY <1>4, <1>7, ZenonT(30) DEF MigrationInv, Typed, Bodies
  <2>5. Typed'
    BY <1>7, <2>2, <2>3, <2>4, ZenonT(30) DEF MigrationInv, Typed, thread
  <2>6. ASSUME NEW n \in Msgs PROVE RowInv(n)'
    <3>1. RowInv(n)
      BY DEF MigrationInv
    <3>2. QED
      BY <1>5, <2>4, <3>1 DEF RowInv, thread
  <2>7. OneOpen'
    BY DEF MigrationInv, OneOpen, OpenRuns
  <2>8. ASSUME NEW h \in Runs, NEW n \in Msgs PROVE ItemInv(h, n)'
    <3>1. ItemInv(h, n)
      BY DEF MigrationInv
    <3>2. QED
      BY <1>7, <2>4, <3>1 DEF ItemInv
  <2>9. /\ op'[o].to = op[o].to /\ op'[o].run = op[o].run /\ op'[o].rows = op[o].rows
        /\ op'[o].todo = op[o].todo /\ op'[o].pc # "idle" /\ op'[o].pc # "open"
    BY <1>2, <2>2, <2>3
  <2>10. RunInv(o)' /\ TodoInv(o)'
    BY <1>4, <1>7, <2>9, SameTodo DEF thread
  <2>11. HandInv(o)'
    <3>1. Current(o)' = m
      BY <1>1, <2>9 DEF Current
    <3>2. QED
      BY <1>4, <1>7, <2>2, <2>3, <3>1 DEF HandInv
  <2>12. QED
    BY <2>5, <2>6, <2>7, <2>8, <2>10, <2>11, ProcessStepKeeps
<1>8. QED
  BY <1>1, <1>2, <1>6, <1>7

(* A run that ends: no run is open any more, and no item counts.           *)
LEMMA RunEnds ==
  ASSUME OneOperator, MigrationInv, NEW o \in Operators, NEW g \in Runs, run[g].state = "copying",
         NEW end \in {"failed", "cut_over"}, run' = [run EXCEPT ![g].state = end],
         op' = [op EXCEPT ![o] = IdleOp], msg' \in [Msgs -> MsgRows], backend' \in Places,
         paused' \in BOOLEAN, lastCut' \in Places \cup {"none"},
         UNCHANGED <<broker, lost, item, swept, faults>>,
         \A m \in Msgs : msg[m].state = "stored" => msg'[m].state = "stored",
         \A m \in Msgs : RowInv(m)'
  PROVE  MigrationInv'
<1>1. run[g] \in RunRows /\ run \in [Runs -> RunRows]
  BY DEF MigrationInv, Typed
<1>2. /\ run' \in [Runs -> RunRows] /\ run'[g].state = end
      /\ \A h \in Runs \ {g} : run'[h] = run[h]
  BY <1>1 DEF RunRows
<1>3. \A h \in Runs : run'[h].state # "copying"
  BY <1>2 DEF MigrationInv, OneOpen, OpenRuns
<1>4. OneOpen'
  BY <1>3 DEF OneOpen, OpenRuns
<1>5. ASSUME NEW h \in Runs, NEW m \in Msgs PROVE ItemInv(h, m)'
  <2>1. ItemInv(h, m) /\ (run[h].state # "none" => run'[h].state # "none")
    BY <1>2 DEF MigrationInv
  <2>2. QED
    BY <1>3, <2>1 DEF ItemInv
<1>6. op'[o] = IdleOp /\ op'[o].pc = "idle"
  BY IdleIsProcess DEF MigrationInv, Typed
<1>7. RunInv(o)' /\ TodoInv(o)' /\ HandInv(o)'
  BY <1>6 DEF RunInv, TodoInv, HandInv, Reading, Copying, InHand
<1>8. Typed'
  BY <1>2, IdleIsProcess DEF MigrationInv, Typed
<1>9. QED
  BY <1>4, <1>5, <1>7, <1>8, ProcessStepKeeps

LEMMA CutOverKeeps ==
  ASSUME OneOperator, MigrationInv, NEW o \in Operators, CutOver(o) PROVE MigrationInv'
<1> USE DEF CutOver
<1>1. PICK g : g = op[o].run
  OBVIOUS
<1>2. PICK to : to = op[o].to
  OBVIOUS
<1>3. op[o].pc \in Copying /\ op[o].pc = "next" /\ op[o].todo = {}
  BY DEF Copying
<1>4. RunInv(o) /\ TodoInv(o)
  BY DEF MigrationInv
<1>5. g \in Runs /\ to \in Places /\ run[g] = [to |-> to, state |-> "copying"]
  BY <1>1, <1>2, <1>3, <1>4 DEF RunInv
<1>6. run[g].to = to /\ run[g].state = "copying"
  <2>1. /\ [to |-> to, state |-> "copying"].to = to
        /\ [to |-> to, state |-> "copying"].state = "copying"
    OBVIOUS
  <2>2. QED
    BY <1>5, <2>1
<1>7. ASSUME NEW m \in Msgs
      PROVE  /\ msg'[m] \in MsgRows /\ RowInv(m)'
             /\ msg[m].state = "stored" => msg'[m].state = "stored"
  <2> DEFINE Moved == item[g][m].state = "verified"
             back == to = "postgres" /\ (Moved \/ msg[m].place = "postgres") /\ msg[m].state # "none"
  <2>1. msg'[m] = CASE Moved /\ to = "jetstream" ->
                         [msg[m] EXCEPT !.place = to, !.locator = item[g][m].target]
                    [] back -> [msg[m] EXCEPT !.place = to, !.locator = FALSE, !.state = "stored"]
                    [] OTHER -> msg[m]
    BY <1>1, <1>2
  <2>2. /\ msg[m] \in MsgRows /\ item[g][m].target \in BOOLEAN /\ RowInv(m) /\ ItemInv(g, m)
    BY <1>5 DEF MigrationInv, Typed, ItemRows
  <2>3. msg[m].state # "none" => msg[m].tombstoned \/ msg[m].place = to \/ Moved
    BY <1>1, <1>2, <1>3, <1>4 DEF TodoInv, Sent
  <2>4. backend' = to /\ broker' = broker /\ lost' = lost
    BY <1>2
  <2>5. CASE Moved /\ to = "jetstream"
    <3>1. PICK r : r = [msg[m] EXCEPT !.place = to, !.locator = item[g][m].target]
      OBVIOUS
    <3>2. msg'[m] = r
      BY <2>1, <2>5, <3>1
    <3>3. /\ r \in MsgRows /\ r.state = msg[m].state /\ r.place = "jetstream" /\ r.body = msg[m].body
          /\ r.locator = item[g][m].target /\ r.tombstoned = msg[m].tombstoned
      BY <1>5, <2>2, <2>5, <3>1 DEF MsgRows
    <3>4. /\ msg[m].state = "stored" /\ item[g][m].target
          /\ m \in lost \/ broker[m] = "full"
      BY <1>6, <2>2, <2>5 DEF ItemInv
    <3>5. QED
      BY <2>2, <2>4, <2>5, <3>2, <3>3, <3>4 DEF RowInv
  <2>6. CASE back
    <3>1. PICK r : r = [msg[m] EXCEPT !.place = to, !.locator = FALSE, !.state = "stored"]
      OBVIOUS
    <3>2. msg'[m] = r
      BY <2>1, <2>6, <3>1
    <3>3. /\ r \in MsgRows /\ r.state = "stored" /\ r.place = "postgres" /\ r.body = msg[m].body
          /\ r.locator = FALSE /\ r.tombstoned = msg[m].tombstoned
      BY <1>5, <2>2, <2>6, <3>1 DEF MsgRows
    <3>4. msg[m].body = "full"
      BY <1>6, <2>2, <2>6 DEF ItemInv, RowInv
    <3>5. QED
      BY <2>2, <2>4, <2>6, <3>2, <3>3, <3>4 DEF RowInv
  <2>7. CASE ~(Moved /\ to = "jetstream") /\ ~back
    <3>1. msg'[m] = msg[m]
      BY <2>1, <2>7
    <3>2. msg[m].state # "none" => msg[m].tombstoned \/ msg[m].place = to
      BY <1>5, <2>3, <2>7 DEF Places
    <3>3. QED
      BY <2>2, <2>4, <3>1, <3>2 DEF RowInv
  <2>8. QED
    BY <2>5, <2>6, <2>7
<1>8. msg' \in [Msgs -> MsgRows]
  BY <1>7
<1>9. /\ backend' = to /\ paused' = FALSE /\ lastCut' = to
      /\ run' = [run EXCEPT ![g].state = "cut_over"]
  BY <1>1, <1>2
<1>10. QED
  BY <1>5, <1>6, <1>7, <1>8, <1>9, RunEnds

LEMMA AbortKeeps ==
  ASSUME OneOperator, MigrationInv, NEW o \in Operators, abort(o) PROVE MigrationInv'
<1> USE DEF abort
<1>1. PICK g : g = op[o].run
  OBVIOUS
<1>2. RunInv(o)
  BY DEF MigrationInv
<1>3. g \in Runs /\ run[g] = [to |-> op[o].to, state |-> "copying"]
  BY <1>1, <1>2 DEF RunInv
<1>4. run[g].state = "copying"
  BY <1>3
<1>5. PICK ms : ms = {m \in Msgs : /\ run[g].to = "postgres" /\ msg[m].place # "postgres"
                                   /\ item[g][m].state \notin {"none", "verified"}}
  OBVIOUS
<1>6. msg' = [m \in Msgs |-> IF m \in ms THEN [msg[m] EXCEPT !.body = "empty"] ELSE msg[m]]
  BY <1>1, <1>4, <1>5
<1>7. ASSUME NEW m \in Msgs
      PROVE  /\ msg'[m] \in MsgRows /\ RowInv(m)'
             /\ msg[m].state = "stored" => msg'[m].state = "stored"
  <2>1. msg[m] \in MsgRows /\ RowInv(m) /\ ItemInv(g, m)
    BY <1>3 DEF MigrationInv, Typed
  <2>2. CASE m \in ms
    <3>1. msg'[m] = [msg[m] EXCEPT !.body = "empty"]
      BY <1>6, <2>2
    <3>2. /\ msg'[m] \in MsgRows /\ msg'[m].state = msg[m].state /\ msg'[m].place = msg[m].place
          /\ msg'[m].locator = msg[m].locator /\ msg'[m].tombstoned = msg[m].tombstoned
      BY <2>1, <3>1 DEF MsgRows, Bodies
    <3>3. msg[m].state = "stored" /\ msg[m].place # "postgres"
      BY <1>5, <2>1, <2>2 DEF ItemInv
    <3>4. QED
      BY <2>1, <3>2, <3>3 DEF RowInv
  <2>3. CASE m \notin ms
    <3>1. msg'[m] = msg[m]
      BY <1>6, <2>3
    <3>2. QED
      BY <2>1, <3>1 DEF RowInv
  <2>4. QED
    BY <2>2, <2>3
<1>8. msg' \in [Msgs -> MsgRows]
  BY <1>6, <1>7
<1>9. run' = [run EXCEPT ![g].state = "failed"] /\ paused' \in BOOLEAN
  BY <1>1, <1>4
<1>10. backend' \in Places /\ lastCut' \in Places \cup {"none"}
  BY DEF MigrationInv, Typed
<1>11. QED
  BY <1>3, <1>4, <1>7, <1>8, <1>9, <1>10, RunEnds

-----------------------------------------------------------------------------
LEMMA MigrationInitHolds == ASSUME Init PROVE MigrationInv
<1> USE DEF Init
<1>1. NoMsg \in MsgRows /\ NoRun \in RunRows /\ NoItem \in ItemRows
  BY DEF NoMsg, NoRun, NoItem, MsgRows, RunRows, ItemRows, Places, Bodies
<1>2. Typed
  <2>1. backend \in Places /\ paused \in BOOLEAN /\ lost \subseteq Msgs /\ swept \subseteq Msgs
        /\ lastCut \in Places \cup {"none"}
    OBVIOUS
  <2>2. faults \in 0..MaxFaults
    BY MigrationConstants
  <2>3. msg \in [Msgs -> MsgRows] /\ run \in [Runs -> RunRows] /\ op \in [Operators -> Processes]
    BY <1>1, IdleIsProcess
  <2>4. item \in [Runs -> [Msgs -> ItemRows]] /\ broker \in [Msgs -> Bodies \cup {"none"}]
    BY <1>1
  <2>5. QED
    BY <2>1, <2>2, <2>3, <2>4 DEF Typed
<1>3. OneOpen
  BY DEF OneOpen, OpenRuns, NoRun
<1>4. \A m \in Msgs : RowInv(m)
  BY DEF RowInv, NoMsg
<1>5. \A g \in Runs, m \in Msgs : ItemInv(g, m)
  BY DEF ItemInv, NoItem, NoRun
<1>6. ASSUME NEW o \in Operators PROVE RunInv(o) /\ TodoInv(o) /\ HandInv(o)
  <2>1. op[o].pc = "idle"
    BY IdleIsProcess
  <2>2. QED
    BY <2>1 DEF RunInv, TodoInv, HandInv, Reading, Copying, InHand
<1>7. QED
  BY <1>2, <1>3, <1>4, <1>5, <1>6 DEF MigrationInv

LEMMA MigrationStutterKeeps == ASSUME MigrationInv, UNCHANGED vars PROVE MigrationInv'
<1>1. Typed' /\ \A m \in Msgs : Still(m)
  BY DEF vars, MigrationInv, Typed, Still
<1>2. QED
  BY <1>1, StillKept, ThreadStepKeeps DEF vars, Thread

LEMMA MigrationStepKeeps ==
  ASSUME OneOperator, ~CleanupInMove, MigrationInv, [Next]_vars PROVE MigrationInv'
<1>1. ASSUME NEW m \in Msgs, send(m) \/ Publish(m) \/ BrokerLoses(m) \/ tombstone(m)
      PROVE  MigrationInv'
  BY <1>1, SendKeeps, PublishKeeps, BrokerLosesKeeps, TombstoneKeeps
<1>2. CASE release_confirm \/ release_published_bodies \/ cleanup
  BY <1>2, ReleaseConfirmKeeps, ReleaseKeeps, CleanupKeeps
<1>3. ASSUME NEW o \in Operators,
             (\E to \in Places : plan(o, to)) \/ Step(o) \/ Fails(o) \/ Dies(o)
      PROVE  MigrationInv'
  <2>1. CASE (\E to \in Places : plan(o, to)) \/ Fails(o) \/ Dies(o)
    BY <2>1, PlanKeeps, FailsKeeps, DiesKeeps
  <2>2. CASE \/ open_run(o) \/ Pause(o) \/ ReadRows(o) \/ ReadSource(o)
             \/ WriteToBroker(o) \/ WriteToRow(o)
    BY <2>2, OpenRunKeeps, PauseKeeps, ReadRowsKeeps, ReadSourceKeeps, WriteToBrokerKeeps,
       WriteToRowKeeps
  <2>3. CASE MarkCopied(o) \/ ReadBack(o) \/ MarkVerified(o) \/ CutOver(o) \/ abort(o)
    BY <2>3, MarkCopiedKeeps, ReadBackKeeps, MarkVerifiedKeeps, CutOverKeeps, AbortKeeps
  <2>4. QED
    BY <1>3, <2>1, <2>2, <2>3 DEF Step
<1>4. CASE UNCHANGED vars
  BY <1>4, MigrationStutterKeeps
<1>5. QED
  BY <1>1, <1>2, <1>3, <1>4 DEF Next

LEMMA MigrationInvariant ==
  ASSUME OneOperator, ~CleanupInMove PROVE Spec => []MigrationInv
<1>1. Init => MigrationInv
  BY MigrationInitHolds
<1>2. MigrationInv /\ [Next]_vars => MigrationInv'
  BY MigrationStepKeeps
<1>3. QED
  BY <1>1, <1>2, PTL DEF Spec

(* One operator at a time, and cleanup for a move that is over: no body is *)
(* missing where its row says it is authoritative, however often moves in  *)
(* either direction die, fail, are resumed and cut over, and whatever the  *)
(* sweep and the outbox do meanwhile (migrate.rs, outbox.rs).              *)
THEOREM BodiesAreWhereTheRowsSay ==
  ASSUME OneOperator, ~CleanupInMove PROVE Spec => []AuthorityHolds
<1>1. MigrationInv => AuthorityHolds
  <2> SUFFICES ASSUME MigrationInv, NEW m \in Sent
               PROVE  CASE msg[m].place = "postgres" -> msg[m].body = "full"
                        [] msg[m].state = "pending"  -> msg[m].body = "full"
                        [] OTHER -> m \in lost \/ (msg[m].locator /\ broker[m] = "full")
    BY DEF AuthorityHolds
  <2>1. m \in Msgs /\ msg[m].state # "none" /\ RowInv(m) /\ msg[m] \in MsgRows
    BY DEF Sent, MigrationInv, Typed
  <2>2. QED
    BY <2>1 DEF RowInv, MsgRows, Places
<1>2. QED
  BY <1>1, MigrationInvariant, PTL

(* Under the same conditions a thread is never split between two backends: *)
(* the pause, read under the thread's lock, keeps every send out of a copy *)
(* (migrate.rs, conversations.rs send).                                    *)
THEOREM ThreadsStayWhole ==
  ASSUME OneOperator, ~CleanupInMove PROVE Spec => []ThreadIsWhole
<1>1. MigrationInv => ThreadIsWhole
  BY DEF MigrationInv, RowInv, ThreadIsWhole, Sent
<1>2. QED
  BY <1>1, MigrationInvariant, PTL
=============================================================================
