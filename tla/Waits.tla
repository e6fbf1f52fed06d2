------------------------------- MODULE Waits --------------------------------
(***************************************************************************)
(* wait_for_updates (tools/events.rs) over the replayable log of           *)
(* migrations/0020_event_log.sql and the hub of events.rs.                 *)
(*                                                                         *)
(* An item is one message or one task, lock or note change, written by a   *)
(* transaction of its own; a change takes its log id when it is written    *)
(* and is seen when the transaction commits.  A position (pg_snapshot) is  *)
(* the set of items committed when it was taken.  A NOTIFY is sent at      *)
(* COMMIT and may be lost: module Bus puts the LISTEN connection of module *)
(* Listener under this one.  read_messages (module Messages) may consume   *)
(* unread messages at any time.                                            *)
(***************************************************************************)
EXTENDS Integers, Sequences, FiniteSets, Functions

CONSTANTS Items,        \* what is written in a behaviour
          Messages,     \* the items that are messages,
          Changes,      \* those that are changes; the rest is not visible_to us
          ReplayLimit,  \* REPLAY_LIMIT
          HubCap        \* capacity of the broadcast channel

ASSUME WaitsConstants ==
    /\ Messages \subseteq Items /\ Changes \subseteq Items /\ Messages \cap Changes = {}
    /\ ReplayLimit \in Nat /\ HubCap \in Nat \ {0}

VARIABLES
    tx,      \* "none", "open" or "done": the transaction of each item
    id,      \* the log id of a change once written, else 0
    nextId,  \* the sequence
    wire,    \* notifications on their way to the hub
    gap,     \* history: this call lost a notification, or passed one over
    read,    \* messages the window's cursor has passed
    pc,      \* where the call of wait_for_updates is
    queue,   \* its broadcast receiver
    lagged,  \* the receiver was overrun
    pos,     \* `position`
    got,     \* what the call will report
    joined,  \* the client holds a resume_from
    since,   \* that resume_from
    base,    \* history: what was there before the client's first wait
    told,    \* history: changes reported to the client
    again    \* history: changes reported to it more than once

writes == <<tx, id, nextId>>
hub == <<wire, gap>>
call == <<pc, queue, lagged, pos, got>>
client == <<joined, since, base, told, again>>
wvars == <<writes, hub, read, call, client>>

Committed == {i \in Items : tx[i] = "done"}
PCs == {"idle", "subscribed", "replayed", "waiting", "closing", "answering"}

WaitsTypeOK ==
    /\ tx \in [Items -> {"none", "open", "done"}]
    /\ id \in [Changes -> Nat] /\ nextId \in Nat
    /\ wire \subseteq Items /\ gap \in BOOLEAN /\ read \subseteq Messages
    /\ pc \in PCs /\ queue \in Seq(Items) /\ Len(queue) <= HubCap
    /\ lagged \in BOOLEAN /\ pos \subseteq Items /\ got \subseteq Items
    /\ joined \in BOOLEAN /\ since \subseteq Items /\ base \subseteq Items
    /\ told \subseteq Changes /\ again \subseteq Changes

WaitsInit ==
    /\ tx = [i \in Items |-> "none"] /\ id = [i \in Changes |-> 0] /\ nextId = 1
    /\ wire = {} /\ gap = FALSE /\ read = {}
    /\ pc = "idle" /\ queue = <<>> /\ lagged = FALSE /\ pos = {} /\ got = {}
    /\ joined = FALSE /\ since = {} /\ base = {} /\ told = {} /\ again = {}

-----------------------------------------------------------------------------
(* The triggers of tasks, locks, notes and messages: bus_emit.             *)

Write(i) ==
    /\ tx[i] = "none"
    /\ tx' = [tx EXCEPT ![i] = "open"]
    /\ IF i \in Changes
       THEN id' = [id EXCEPT ![i] = nextId] /\ nextId' = nextId + 1
       ELSE UNCHANGED <<id, nextId>>
    /\ UNCHANGED <<hub, read, call, client>>

Commit(i) ==
    /\ tx[i] = "open"
    /\ tx' = [tx EXCEPT ![i] = "done"]
    /\ wire' = wire \cup {i}
    /\ UNCHANGED <<id, nextId, gap, read, call, client>>

(* Mutant: the subscription is made when the wait begins to sleep.         *)
SubscribedLate == pc \in {"waiting", "closing", "answering"}

Subscribed == pc # "idle"

(* A connection that is not listening loses what is on its way to it.      *)
NotifyLost ==
    /\ wire' = {} /\ gap' = (gap \/ (Subscribed /\ wire # {}))
    /\ UNCHANGED <<writes, read, call, client>>

(* hub.publish: a receiver that is full drops its oldest entry and is told *)
(* Lagged at its next recv.                                                *)
Publish(i) ==
    /\ i \in wire
    /\ wire' = wire \ {i}
    /\ queue' = IF ~Subscribed THEN queue
                ELSE IF Len(queue) < HubCap THEN Append(queue, i)
                ELSE Append(Tail(queue), i)
    /\ lagged' = (lagged \/ (Subscribed /\ Len(queue) >= HubCap))
    /\ UNCHANGED <<writes, gap, read, pc, pos, got, client>>

(* read_messages moves the cursor past what is committed.                  *)
Consume(m) ==
    /\ m \in Committed \cap Messages /\ m \notin read
    /\ read' = read \cup {m}
    /\ UNCHANGED <<writes, hub, call, client>>

-----------------------------------------------------------------------------
(* replay: changes that position P cannot see and that are visible now.    *)

(* Mutant: positions are ids, the highest one reported.                    *)
ReplayedById(P) ==
    {i \in Changes \cap Committed : \A j \in P \cap Changes : id[j] < id[i]}

Replayed(P) == {i \in Changes \cap Committed : i \notin P}

(* The oldest REPLAY_LIMIT are named, the rest is counted in a "backlog"   *)
(* entry that tells the caller to list the current state (push_overflow).  *)
Named(S) == {i \in S : Cardinality({j \in S : id[j] < id[i]}) < ReplayLimit}
Counted(S) == S \ Named(S)
Report(S) == Named(S) \cup Counted(S)

(* wait_for_updates subscribes before it reads anything.                   *)
Call ==
    /\ pc = "idle"
    /\ pc' = "subscribed"
    /\ UNCHANGED <<writes, hub, read, queue, lagged, pos, got, client>>

FirstReplay ==
    /\ pc = "subscribed"
    /\ pc' = "replayed"
    /\ pos' = Committed
    /\ got' = IF joined THEN Report(Replayed(since)) ELSE {}
    /\ UNCHANGED <<writes, hub, read, queue, lagged, client>>

(* unread_in_scope                                                         *)
Unread == (Messages \cap Committed) \ read

CountUnread ==
    /\ pc = "replayed"
    /\ got' = got \cup Unread
    /\ pc' = IF got' = {} THEN "waiting" ELSE "answering"
    /\ UNCHANGED <<writes, hub, read, queue, lagged, pos, client>>

(* One notification: not visible to us; a message, with those that arrive  *)
(* within the grace window; a message that describe cannot read, which is  *)
(* passed over; or a hint to ask the log, which may know nothing new.      *)
Recv ==
    /\ pc = "waiting" /\ ~lagged /\ queue # <<>>
    /\ queue' = Tail(queue)
    /\ LET i == Head(queue)
           fresh == Report(Replayed(pos))
       IN  \/ /\ i \notin Messages \cup Changes
              /\ UNCHANGED <<pc, pos, got, gap>>
           \/ /\ i \in Messages
              /\ \E more \in SUBSET (Messages \cap Range(Tail(queue))) :
                    got' = got \cup {i} \cup more
              /\ pc' = "closing"
              /\ UNCHANGED <<pos, gap>>
           \/ /\ i \in Messages
              /\ gap' = TRUE
              /\ UNCHANGED <<pc, pos, got>>
           \/ /\ i \in Changes
              /\ got' = got \cup fresh /\ pos' = Committed
              /\ pc' = IF fresh = {} THEN "waiting" ELSE "closing"
              /\ UNCHANGED gap
    /\ UNCHANGED <<writes, wire, read, lagged, client>>

(* The deadline passed, or recv said Lagged.                               *)
Stop ==
    /\ pc = "waiting"
    /\ pc' = "closing"
    /\ UNCHANGED <<writes, hub, read, queue, lagged, pos, got, client>>

(* Mutant: the position moves on, and nothing is read from the log.        *)
LastReplaySkipped ==
    /\ pc = "closing"
    /\ pc' = "answering" /\ pos' = Committed
    /\ UNCHANGED <<writes, hub, read, queue, lagged, got, client>>

(* Run on every exit from the loop, a timeout included.                    *)
LastReplay ==
    /\ pc = "closing"
    /\ pc' = "answering"
    /\ got' = got \cup Report(Replayed(pos)) /\ pos' = Committed
    /\ UNCHANGED <<writes, hub, read, queue, lagged, client>>

Hangup ==
    /\ pc' = "idle" /\ queue' = <<>> /\ lagged' = FALSE /\ pos' = {} /\ got' = {}
    /\ gap' = FALSE
    /\ UNCHANGED <<writes, wire, read>>

(* wait_result arrives: the client keeps resume_from for its next call.    *)
Deliver ==
    /\ pc = "answering"
    /\ joined' = TRUE /\ since' = pos
    /\ base' = IF joined THEN base ELSE pos \ got
    /\ told' = told \cup (got \cap Changes)
    /\ again' = again \cup (got \cap told)
    /\ Hangup

(* A query fails, or the answer is lost: the client keeps what it had.     *)
Lose == pc # "idle" /\ Hangup /\ UNCHANGED client

-----------------------------------------------------------------------------
(* A client that hands back resume_from is told every change committed     *)
(* since its first wait, and each once: "nothing that committed meanwhile  *)
(* is skipped or counted twice", across lost notifications, lagged         *)
(* receivers, slow transactions and lost answers.                          *)
ToldExactly ==
    /\ again = {}
    /\ joined => told = (since \cap Changes) \ base

(* "Subscribe before checking the database so nothing slips between the    *)
(* check and the wait": a sleeping wait has a notification coming for each *)
(* change past its position and each unread message, unless the connection *)
(* lost one since or describe failed on one.                               *)
NoLostWakeup ==
    pc = "waiting" =>
        \A i \in ((Changes \cap Committed) \ pos) \cup Unread :
            gap \/ i \in wire \/ lagged \/ i \in Range(queue)

(* A change is reported in the end to a client that goes on waiting,       *)
(* whatever notifications and answers are lost on the way.                 *)
EveryChangeReported ==
    \A i \in Changes :
        (joined /\ tx[i] = "done" /\ i \notin since) ~> (i \in told)
=============================================================================
