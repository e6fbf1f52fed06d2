------------------------------ MODULE BusProofs ------------------------------
(***************************************************************************)
(* Proofs about wait_for_updates over its LISTEN connection, for any       *)
(* number of messages and changes, any capacity of the hub, any limit of a *)
(* replay and whatever the connection loses.                               *)
(***************************************************************************)
EXTENDS Bus, TLAPS

(* The call has a position.                                                *)
Placed == pc \in {"replayed", "waiting", "closing", "answering"}

(* What the call will report of the changes is what its position sees and  *)
(* the client's does not; of a first call, part of what it sees.           *)
Reporting ==
    Placed => /\ pos \subseteq Committed
              /\ joined => since \subseteq pos /\ got \cap Changes = (pos \ since) \cap Changes
              /\ ~joined => got \cap Changes \subseteq pos

(* What the client knows.                                                  *)
Knowing ==
    /\ joined => since \subseteq Committed /\ base \subseteq since
    /\ ~joined => told = {}

(* A notification of i is coming, or the call has been told it lost one.   *)
Coming(i) == gap \/ i \in wire \/ lagged \/ i \in Range(queue)

(* Everything a sleeping call should wake for is coming.  Its changes are  *)
(* accounted for since the first replay, its messages since the count.     *)
Waking ==
    /\ pc \in {"replayed", "waiting"} => \A i \in (Changes \cap Committed) \ pos : Coming(i)
    /\ pc = "waiting" => \A i \in Unread : Coming(i)

WaitsInv == WaitsTypeOK /\ ToldExactly /\ Reporting /\ Knowing /\ Waking

-----------------------------------------------------------------------------
LEMMA EmptyQueue == <<>> \in Seq(Items) /\ Len(<<>>) <= HubCap /\ Len(<<>>) = 0
BY WaitsConstants

LEMMA WaitsInitially == ASSUME WaitsInit PROVE WaitsInv
<1>1. WaitsTypeOK
  BY EmptyQueue DEF WaitsInit, WaitsTypeOK, PCs
<1>2. QED
  BY <1>1 DEF WaitsInit, WaitsInv, ToldExactly, Reporting, Placed, Knowing, Waking

(* Naming some and counting the rest reports all of them.                  *)
LEMMA ReportIsAll == \A S : Report(S) = S
BY DEF Report, Named, Counted

LEMMA CommittedIsItems == Committed \subseteq Items /\ Unread \subseteq Messages
BY DEF Committed, Unread

(* The receiver: an entry goes in at the end and comes out at the head.    *)
LEMMA QueueGrows ==
    ASSUME NEW q \in Seq(Items), NEW i \in Items
    PROVE  /\ Append(q, i) \in Seq(Items) /\ Len(Append(q, i)) = Len(q) + 1
           /\ Range(Append(q, i)) = Range(q) \cup {i}
<1>1. /\ Append(q, i) \in Seq(Items) /\ Len(Append(q, i)) = Len(q) + 1
      /\ DOMAIN Append(q, i) = 1..(Len(q) + 1) /\ DOMAIN q = 1..Len(q) /\ Len(q) \in Nat
      /\ Append(q, i)[Len(q) + 1] = i /\ \A n \in 1..Len(q) : Append(q, i)[n] = q[n]
  OBVIOUS
<1>2. 1..(Len(q) + 1) = (1..Len(q)) \cup {Len(q) + 1}
  BY <1>1
<1>3. QED
  BY <1>1, <1>2 DEF Range

LEMMA QueueShrinks ==
    ASSUME NEW q \in Seq(Items), q # <<>>
    PROVE  /\ Tail(q) \in Seq(Items) /\ Len(Tail(q)) = Len(q) - 1 /\ Len(q) \in Nat \ {0}
           /\ Head(q) \in Items /\ Range(q) = Range(Tail(q)) \cup {Head(q)}
<1>1. /\ Tail(q) \in Seq(Items) /\ Len(Tail(q)) = Len(q) - 1 /\ Len(q) \in Nat \ {0}
      /\ Head(q) \in Items /\ Head(q) = q[1] /\ DOMAIN q = 1..Len(q)
      /\ DOMAIN Tail(q) = 1..(Len(q) - 1) /\ \A n \in 1..(Len(q) - 1) : Tail(q)[n] = q[n + 1]
  OBVIOUS
<1>2. ASSUME NEW x \in Range(q) PROVE x \in Range(Tail(q)) \cup {Head(q)}
  <2>1. PICK n \in 1..Len(q) : x = q[n]
    BY <1>1, <1>2 DEF Range
  <2>2. CASE n = 1
    BY <1>1, <2>1, <2>2
  <2>3. CASE n # 1
    <3>1. n - 1 \in 1..(Len(q) - 1) /\ Tail(q)[n - 1] = q[n]
      BY <1>1, <2>1, <2>3
    <3>2. QED
      BY <1>1, <2>1, <3>1 DEF Range
  <2>4. QED
    BY <2>2, <2>3
<1>3. ASSUME NEW x \in Range(Tail(q)) PROVE x \in Range(q)
  <2>1. PICK n \in 1..(Len(q) - 1) : x = Tail(q)[n]
    BY <1>1, <1>3 DEF Range
  <2>2. n + 1 \in 1..Len(q) /\ x = q[n + 1]
    BY <1>1, <2>1
  <2>3. QED
    BY <1>1, <2>2 DEF Range
<1>4. Head(q) \in Range(q)
  BY <1>1 DEF Range
<1>5. QED
  BY <1>1, <1>2, <1>3, <1>4

-----------------------------------------------------------------------------
LEMMA WriteKeeps == ASSUME WaitsInv, NEW i \in Items, Write(i) PROVE WaitsInv'
<1>1. Committed' = Committed /\ UNCHANGED <<hub, read, call, client>>
  BY DEF Write, WaitsInv, WaitsTypeOK, Committed
<1>2. WaitsTypeOK'
  <2>1. tx' \in [Items -> {"none", "open", "done"}]
    BY DEF Write, WaitsInv, WaitsTypeOK
  <2>2. id' \in [Changes -> Nat] /\ nextId' \in Nat
    BY DEF Write, WaitsInv, WaitsTypeOK
  <2>3. QED
    BY <1>1, <2>1, <2>2 DEF WaitsInv, WaitsTypeOK, hub, call, client
<1>3. QED
  BY <1>1, <1>2 DEF WaitsInv, ToldExactly, Reporting, Placed, Knowing, Waking, Coming,
                    Unread, hub, call, client

LEMMA CommitKeeps == ASSUME WaitsInv, NEW i \in Items, Commit(i) PROVE WaitsInv'
<1>1. /\ Committed' = Committed \cup {i} /\ wire' = wire \cup {i}
      /\ UNCHANGED <<gap, read, call, client>>
  BY DEF Commit, WaitsInv, WaitsTypeOK, Committed
<1>2. WaitsTypeOK'
  BY DEF Commit, WaitsInv, WaitsTypeOK, call, client
<1>3. ToldExactly' /\ Reporting' /\ Knowing'
  BY <1>1 DEF WaitsInv, ToldExactly, Reporting, Placed, Knowing, call, client
<1>4. (\A j \in Items : Coming(j) => Coming(j)') /\ Coming(i)'
  BY <1>1 DEF Coming, call
<1>5. Waking'
  BY <1>1, <1>4, CommittedIsItems, WaitsConstants DEF WaitsInv, Waking, Unread, call
<1>6. QED
  BY <1>2, <1>3, <1>5 DEF WaitsInv

LEMMA NotifyLostKeeps == ASSUME WaitsInv, NotifyLost PROVE WaitsInv'
<1>1. /\ Committed' = Committed /\ UNCHANGED <<read, call, client>>
      /\ wire' = {} /\ gap' = (gap \/ (Subscribed /\ wire # {}))
  BY DEF NotifyLost, writes, Committed
<1>2. WaitsTypeOK'
  BY DEF NotifyLost, WaitsInv, WaitsTypeOK, writes, call, client
<1>3. ToldExactly' /\ Reporting' /\ Knowing'
  BY <1>1 DEF WaitsInv, ToldExactly, Reporting, Placed, Knowing, call, client
<1>4. pc # "idle" => \A j : Coming(j) => Coming(j)'
  BY <1>1 DEF Coming, Subscribed, call
<1>5. Waking'
  BY <1>1, <1>4 DEF WaitsInv, Waking, Unread, call
<1>6. QED
  BY <1>2, <1>3, <1>5 DEF WaitsInv

LEMMA PublishedKeeps ==
    ASSUME WaitsInv, UNCHANGED <<writes, gap, read, pc, pos, got, client>>,
           Committed' = Committed, wire' \subseteq wire, lagged' \in BOOLEAN,
           queue' \in Seq(Items), Len(queue') <= HubCap,
           pc # "idle" => \A j : Coming(j) => Coming(j)'
    PROVE  WaitsInv'
<1>1. WaitsTypeOK'
  BY DEF WaitsInv, WaitsTypeOK, writes, client
<1>2. ToldExactly' /\ Reporting' /\ Knowing'
  BY DEF WaitsInv, ToldExactly, Reporting, Placed, Knowing, client
<1>3. Waking'
  BY DEF WaitsInv, Waking, Unread
<1>4. QED
  BY <1>1, <1>2, <1>3 DEF WaitsInv

LEMMA PublishKeeps == ASSUME WaitsInv, NEW i \in Items, Publish(i) PROVE WaitsInv'
<1>1. /\ Committed' = Committed /\ UNCHANGED <<writes, gap, read, pc, pos, got, client>>
      /\ wire' = wire \ {i}
      /\ lagged' = (lagged \/ (Subscribed /\ Len(queue) >= HubCap))
  BY DEF Publish, writes, Committed
<1>2. /\ queue \in Seq(Items) /\ Len(queue) \in Nat /\ Len(queue) <= HubCap
      /\ HubCap \in Nat \ {0}
  BY WaitsConstants DEF WaitsInv, WaitsTypeOK
<1>3. CASE Subscribed /\ Len(queue) < HubCap
  <2>1. queue' = Append(queue, i)
    BY <1>3 DEF Publish
  <2>2. queue' \in Seq(Items) /\ Len(queue') <= HubCap /\ Range(queue') = Range(queue) \cup {i}
    BY <1>2, <1>3, <2>1, QueueGrows
  <2>3. \A j : Coming(j) => Coming(j)'
    BY <1>1, <2>2 DEF Coming
  <2>4. wire' \subseteq wire /\ lagged' \in BOOLEAN
    BY <1>1
  <2>5. QED
    BY <1>1, <2>2, <2>3, <2>4, PublishedKeeps
<1>4. CASE Subscribed /\ Len(queue) >= HubCap
  <2>1. lagged' = TRUE
    BY <1>1, <1>4
  <2>2. queue' = Append(Tail(queue), i) /\ queue # <<>>
    BY <1>2, <1>4 DEF Publish
  <2>3. Tail(queue) \in Seq(Items) /\ Len(Tail(queue)) = Len(queue) - 1
    BY <1>2, <2>2, QueueShrinks
  <2>4. queue' \in Seq(Items) /\ Len(queue') <= HubCap
    BY <1>2, <2>2, <2>3, QueueGrows
  <2>5. \A j : Coming(j)'
    BY <2>1 DEF Coming
  <2>6. wire' \subseteq wire /\ lagged' \in BOOLEAN
    BY <1>1, <2>1
  <2>7. QED
    BY <1>1, <2>4, <2>5, <2>6, PublishedKeeps
<1>5. CASE ~Subscribed
  BY <1>1, <1>2, <1>5, PublishedKeeps DEF Publish, Subscribed
<1>6. QED
  BY <1>2, <1>3, <1>4, <1>5

LEMMA ConsumeKeeps == ASSUME WaitsInv, NEW m \in Messages, Consume(m) PROVE WaitsInv'
<1>1. /\ Committed' = Committed /\ UNCHANGED <<writes, hub, call, client>>
      /\ read' = read \cup {m}
  BY DEF Consume, writes, Committed
<1>2. WaitsTypeOK'
  BY <1>1 DEF WaitsInv, WaitsTypeOK, writes, hub, call, client
<1>3. ToldExactly' /\ Reporting' /\ Knowing'
  BY <1>1 DEF WaitsInv, ToldExactly, Reporting, Placed, Knowing, call, client
<1>4. Unread' \subseteq Unread /\ \A j : Coming(j)' = Coming(j)
  BY <1>1 DEF Unread, Coming, hub, call
<1>5. Waking'
  BY <1>1, <1>4 DEF WaitsInv, Waking, call
<1>6. QED
  BY <1>2, <1>3, <1>5 DEF WaitsInv

-----------------------------------------------------------------------------
(* The call.  Each step reads the log no earlier than its position says.   *)
LEMMA ReplayedIsNew ==
    ASSUME WaitsInv, NEW P
    PROVE  Report(Replayed(P)) = (Changes \cap Committed) \ P
BY ReportIsAll DEF Replayed

LEMMA CallKeeps == ASSUME WaitsInv, Call \/ Stop PROVE WaitsInv'
<1>1. /\ Committed' = Committed
      /\ UNCHANGED <<writes, hub, read, queue, lagged, pos, got, client>>
  BY DEF Call, Stop, writes, Committed
<1>2. WaitsTypeOK'
  BY <1>1 DEF Call, Stop, PCs, WaitsInv, WaitsTypeOK, writes, hub, client
<1>3. ToldExactly' /\ Knowing'
  BY <1>1 DEF WaitsInv, ToldExactly, Knowing, client
<1>4. Reporting' /\ Waking'
  BY <1>1 DEF Call, Stop, WaitsInv, Reporting, Placed, Waking, client
<1>5. QED
  BY <1>2, <1>3, <1>4 DEF WaitsInv

LEMMA FirstReplayKeeps == ASSUME WaitsInv, FirstReplay PROVE WaitsInv'
<1>1. /\ Committed' = Committed /\ pos' = Committed /\ pc' = "replayed"
      /\ got' = IF joined THEN (Changes \cap Committed) \ since ELSE {}
      /\ UNCHANGED <<writes, hub, read, queue, lagged, client>>
  BY ReplayedIsNew DEF FirstReplay, writes, Committed
<1>2. WaitsTypeOK'
  BY <1>1, CommittedIsItems DEF PCs, WaitsInv, WaitsTypeOK, writes, hub, client
<1>3. ToldExactly' /\ Knowing' /\ Waking'
  BY <1>1 DEF WaitsInv, ToldExactly, Knowing, Waking, client
<1>4. Reporting'
  BY <1>1 DEF WaitsInv, Reporting, Placed, Knowing, client
<1>5. QED
  BY <1>2, <1>3, <1>4 DEF WaitsInv

LEMMA CountUnreadKeeps == ASSUME WaitsInv, CountUnread PROVE WaitsInv'
<1>1. /\ Committed' = Committed /\ pc = "replayed" /\ got' = got \cup Unread
      /\ pc' = IF got' = {} THEN "waiting" ELSE "answering"
      /\ UNCHANGED <<writes, hub, read, queue, lagged, pos, client>>
  BY DEF CountUnread, writes, Committed
<1>2. WaitsTypeOK'
  BY <1>1, CommittedIsItems, WaitsConstants DEF PCs, WaitsInv, WaitsTypeOK, writes, hub, client
<1>3. ToldExactly' /\ Knowing'
  BY <1>1 DEF WaitsInv, ToldExactly, Knowing, client
<1>4. got' \cap Changes = got \cap Changes
  BY <1>1, CommittedIsItems, WaitsConstants
<1>5. Reporting'
  BY <1>1, <1>4 DEF WaitsInv, Reporting, Placed, client
<1>6. Waking'
  BY <1>1 DEF WaitsInv, Waking, Coming, Unread, hub
<1>7. QED
  BY <1>2, <1>3, <1>5, <1>6 DEF WaitsInv

LEMMA RecvKeeps == ASSUME WaitsInv, Recv PROVE WaitsInv'
<1>1. PICK i : i = Head(queue)
  OBVIOUS
<1>2. /\ Committed' = Committed /\ pc = "waiting" /\ ~lagged /\ queue # <<>>
      /\ queue' = Tail(queue) /\ UNCHANGED <<writes, wire, read, lagged, client>>
  BY DEF Recv, writes, Committed
<1>3. /\ queue \in Seq(Items) /\ Len(queue) <= HubCap /\ HubCap \in Nat
  BY WaitsConstants DEF WaitsInv, WaitsTypeOK
<1>4. /\ queue' \in Seq(Items) /\ Len(queue') <= HubCap
      /\ i \in Items /\ Range(queue) = Range(queue') \cup {i}
  BY <1>1, <1>2, <1>3, QueueShrinks
<1>5. \A x \in Range(queue') : x \in Items
  BY <1>4 DEF Range
<1>6. ToldExactly' /\ Knowing'
  BY <1>2 DEF WaitsInv, ToldExactly, Knowing, client
<1>7. CASE i \notin Messages \cup Changes /\ UNCHANGED <<pc, pos, got, gap>>
  <2>1. WaitsTypeOK' /\ Reporting'
    BY <1>2, <1>4, <1>7 DEF WaitsInv, WaitsTypeOK, Reporting, Placed, writes, client
  <2>2. \A j \in Messages \cup Changes : Coming(j) => Coming(j)'
    BY <1>2, <1>4, <1>7 DEF Coming
  <2>3. Waking'
    BY <1>2, <1>7, <2>2, CommittedIsItems DEF WaitsInv, Waking, Unread
  <2>4. QED
    BY <1>6, <2>1, <2>3 DEF WaitsInv
<1>8. CASE /\ i \in Messages /\ pc' = "closing" /\ UNCHANGED <<pos, gap>>
           /\ \E more \in SUBSET (Messages \cap Range(Tail(queue))) :
                 got' = got \cup {i} \cup more
  <2>1. PICK more \in SUBSET Messages : got' = got \cup {i} \cup more
    BY <1>8
  <2>2. got' \subseteq Items /\ got' \cap Changes = got \cap Changes
    BY <1>8, <2>1, WaitsConstants DEF WaitsInv, WaitsTypeOK
  <2>3. WaitsTypeOK'
    BY <1>2, <1>4, <1>8, <2>2 DEF WaitsInv, WaitsTypeOK, PCs, writes, client
  <2>4. Reporting' /\ Waking'
    BY <1>2, <1>8, <2>2 DEF WaitsInv, Reporting, Placed, Waking, client
  <2>5. QED
    BY <1>6, <2>3, <2>4 DEF WaitsInv
<1>9. CASE i \in Messages /\ gap' = TRUE /\ UNCHANGED <<pc, pos, got>>
  <2>1. WaitsTypeOK' /\ Reporting'
    BY <1>2, <1>4, <1>9 DEF WaitsInv, WaitsTypeOK, Reporting, Placed, writes, client
  <2>2. Waking'
    BY <1>9 DEF Waking, Coming
  <2>3. QED
    BY <1>6, <2>1, <2>2 DEF WaitsInv
<1>10. CASE /\ i \in Changes /\ UNCHANGED gap /\ pos' = Committed
            /\ got' = got \cup Report(Replayed(pos))
            /\ pc' = IF Report(Replayed(pos)) = {} THEN "waiting" ELSE "closing"
  <2>1. got' = got \cup ((Changes \cap Committed) \ pos) /\ pc' \in {"waiting", "closing"}
    BY <1>10, ReplayedIsNew
  <2>2. WaitsTypeOK'
    BY <1>2, <1>4, <1>10, <2>1, CommittedIsItems DEF WaitsInv, WaitsTypeOK, PCs, writes, client
  <2>3. Reporting'
    BY <1>2, <1>10, <2>1 DEF WaitsInv, Reporting, Placed, client
  <2>4. \A j \in Messages : Coming(j) => Coming(j)'
    BY <1>2, <1>4, <1>10, WaitsConstants DEF Coming
  <2>5. Waking'
    BY <1>2, <1>10, <2>1, <2>4, CommittedIsItems DEF WaitsInv, Waking, Unread
  <2>6. QED
    BY <1>6, <2>2, <2>3, <2>5 DEF WaitsInv
<1>11. QED
  BY <1>1, <1>7, <1>8, <1>9, <1>10 DEF Recv

LEMMA LastReplayKeeps == ASSUME WaitsInv, LastReplay PROVE WaitsInv'
<1>1. /\ Committed' = Committed /\ pos' = Committed /\ pc = "closing" /\ pc' = "answering"
      /\ got' = got \cup ((Changes \cap Committed) \ pos)
      /\ UNCHANGED <<writes, hub, read, queue, lagged, client>>
  BY ReplayedIsNew DEF LastReplay, writes, Committed
<1>2. WaitsTypeOK'
  BY <1>1, CommittedIsItems DEF PCs, WaitsInv, WaitsTypeOK, writes, hub, client
<1>3. ToldExactly' /\ Knowing' /\ Waking'
  BY <1>1 DEF WaitsInv, ToldExactly, Knowing, Waking, client
<1>4. Reporting'
  BY <1>1 DEF WaitsInv, Reporting, Placed, client
<1>5. QED
  BY <1>2, <1>3, <1>4 DEF WaitsInv

LEMMA LoseKeeps == ASSUME WaitsInv, Lose PROVE WaitsInv'
<1>1. /\ Committed' = Committed /\ pc' = "idle" /\ queue' = <<>>
      /\ UNCHANGED <<writes, wire, read, client>>
  BY DEF Lose, Hangup, writes, Committed
<1>2. WaitsTypeOK'
  BY <1>1, EmptyQueue DEF Lose, Hangup, PCs, WaitsInv, WaitsTypeOK, writes, client
<1>3. QED
  BY <1>1, <1>2 DEF WaitsInv, ToldExactly, Knowing, Waking, Reporting, Placed, client

(* The answer: what the client was told and what it is told now are what   *)
(* its two positions see, and have nothing in common.                      *)
LEMMA DeliverKeeps == ASSUME WaitsInv, Deliver PROVE WaitsInv'
<1>1. /\ Committed' = Committed /\ pc = "answering" /\ pc' = "idle" /\ queue' = <<>>
      /\ joined' = TRUE /\ since' = pos
      /\ base' = IF joined THEN base ELSE pos \ got
      /\ told' = told \cup (got \cap Changes) /\ again' = again \cup (got \cap told)
      /\ UNCHANGED <<writes, wire, read>>
  BY DEF Deliver, Hangup, writes, Committed
<1>2. WaitsTypeOK'
  BY <1>1, EmptyQueue DEF Deliver, Hangup, PCs, WaitsInv, WaitsTypeOK, writes
<1>3. /\ pos \subseteq Committed /\ told \subseteq Changes /\ again = {}
      /\ joined => /\ since \subseteq pos /\ got \cap Changes = (pos \ since) \cap Changes
                   /\ told = (since \cap Changes) \ base /\ base \subseteq since
      /\ ~joined => got \cap Changes \subseteq pos /\ told = {}
  BY <1>1 DEF WaitsInv, WaitsTypeOK, ToldExactly, Reporting, Placed, Knowing
<1>4. again' = {}
  BY <1>1, <1>3
<1>5. told' = (since' \cap Changes) \ base' /\ base' \subseteq since' /\ since' \subseteq Committed
  BY <1>1, <1>3
<1>6. QED
  BY <1>1, <1>2, <1>4, <1>5 DEF WaitsInv, ToldExactly, Knowing, Waking, Reporting, Placed

LEMMA WaitsStep == WaitsInv /\ [Next]_vars => WaitsInv'
<1> SUFFICES ASSUME WaitsInv, [Next]_vars PROVE WaitsInv'
  OBVIOUS
<1>1. CASE UNCHANGED wvars
  BY <1>1 DEF wvars, writes, hub, call, client, WaitsInv, WaitsTypeOK, ToldExactly, Knowing,
              Waking, Coming, Unread, Reporting, Placed, Committed
<1>2. CASE Connect \/ Disconnect
  BY <1>2, NotifyLostKeeps DEF Connect, Disconnect
<1>3. CASE Tick \/ Heard
  BY <1>1, <1>3 DEF Tick, Heard
<1>4. CASE Deliveries \/ Writes \/ Consumes
  BY <1>4, PublishKeeps, WriteKeeps, CommitKeeps, ConsumeKeeps DEF Deliveries, Writes, Consumes
<1>5. CASE DoCall \/ DoFirstReplay \/ DoCountUnread \/ DoRecv
  BY <1>5, CallKeeps, FirstReplayKeeps, CountUnreadKeeps, RecvKeeps
  DEF DoCall, DoFirstReplay, DoCountUnread, DoRecv
<1>6. CASE DoStop \/ DoLastReplay \/ DoDeliver \/ DoLose
  BY <1>6, CallKeeps, LastReplayKeeps, DeliverKeeps, LoseKeeps
  DEF DoStop, DoLastReplay, DoDeliver, DoLose
<1>7. QED
  BY <1>1, <1>2, <1>3, <1>4, <1>5, <1>6 DEF Next, vars

-----------------------------------------------------------------------------
(* The inductive invariant of a wait, whatever the connection does.        *)
THEOREM WaitsInvariant == Spec => []WaitsInv
<1>1. Init => WaitsInv
  BY WaitsInitially DEF Init
<1>2. QED
  BY <1>1, WaitsStep, PTL DEF Spec

(* A client that hands back resume_from is told every change committed     *)
(* since its first wait, each once: replay asks the log for what its       *)
(* position cannot see, never for what a notification said.                *)
THEOREM ChangesAreToldOnce == Spec => []ToldExactly
<1>1. WaitsInv => ToldExactly
  BY DEF WaitsInv
<1>2. QED
  BY <1>1, WaitsInvariant, PTL

(* A sleeping wait has a notification coming for everything it should wake *)
(* for, unless one was lost since it subscribed: wait_for_updates          *)
(* subscribes first and reads the log and the counts after.                *)
THEOREM NoWakeupIsLost == Spec => []NoLostWakeup
<1>1. WaitsInv => NoLostWakeup
  BY DEF WaitsInv, Waking, Coming, NoLostWakeup
<1>2. QED
  BY <1>1, WaitsInvariant, PTL
=============================================================================
