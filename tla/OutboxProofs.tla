---------------------------- MODULE OutboxProofs ----------------------------
(***************************************************************************)
(* Proofs about Outbox, for any number of messages, workers and attempts   *)
(* and any limit of the stream.                                            *)
(***************************************************************************)
EXTENDS Outbox, TLAPS

(* The broker holds m at place p.                                          *)
Held(m, p) == p \in 1..Len(stream) /\ stream[p] = m

(* What the deduplication window remembers is in the stream.               *)
KnownIsHeld == \A m \in Msgs : known[m] # 0 => Held(m, known[m])

(* A worker that was told "stored" was told a place that holds the message *)
(* it works on, and only such a worker settles a reconciliation.           *)
AnswersAreHeld ==
    \A w \in Workers :
        /\ answer[w].says = "stored" => pc[w] # "idle" /\ Held(at[w], answer[w].where)
        /\ pc[w] = "found" => answer[w].says = "stored"

OutboxInv ==
    /\ TypeOK
    /\ SlotMatchesMessage
    /\ StoredIsHeld
    /\ KnownIsHeld
    /\ AnswersAreHeld

-----------------------------------------------------------------------------
LEMMA InitHolds == ASSUME Init PROVE OutboxInv
BY OutboxConstants
DEF Init, OutboxInv, TypeOK, SlotMatchesMessage, StoredIsHeld, KnownIsHeld,
    AnswersAreHeld, Slots, NoSlot, NoAnswer, PCs, InFlight

(* The stream only grows, and what it remembers of a key is in it.         *)
Grows ==
    /\ stream' \in Seq(Msgs) /\ Len(stream') <= StreamLimit
    /\ known' \in [Msgs -> 0..StreamLimit]
    /\ \A m \in Msgs, p \in Nat : Held(m, p) => Held(m, p)'
    /\ KnownIsHeld'

(* A publish that lands appends or is recognised; its key is then known.   *)
LEMMA LandsGrows ==
    ASSUME OutboxInv, NEW m \in Msgs, Lands(m)
    PROVE  Grows /\ known'[m] # 0 /\ Held(m, known[m])'
<1>1. CASE known[m] # 0
  BY <1>1 DEF Lands, Grows, OutboxInv, TypeOK, KnownIsHeld, Held
<1>2. CASE known[m] = 0
  <2>1. /\ stream' = Append(stream, m) /\ Len(stream) < StreamLimit
        /\ known' = [known EXCEPT ![m] = Len(stream) + 1]
    BY <1>2 DEF Lands
  <2>2. /\ stream \in Seq(Msgs) /\ Len(stream) \in Nat /\ StreamLimit \in Nat
        /\ known \in [Msgs -> 0..StreamLimit]
    BY OutboxConstants DEF OutboxInv, TypeOK
  <2>3. /\ stream' \in Seq(Msgs) /\ Len(stream') = Len(stream) + 1
        /\ \A p \in 1..Len(stream) : stream'[p] = stream[p]
        /\ stream'[Len(stream) + 1] = m
    BY <2>1, <2>2
  <2>4. known' \in [Msgs -> 0..StreamLimit]
    BY <2>1, <2>2
  <2>5. \A n \in Msgs, p \in Nat : Held(n, p) => Held(n, p)'
    BY <2>2, <2>3 DEF Held
  <2>6. KnownIsHeld' /\ known'[m] # 0 /\ Held(m, known[m])'
    BY <2>1, <2>2, <2>3 DEF OutboxInv, KnownIsHeld, Held
  <2>7. QED
    BY <2>1, <2>2, <2>3, <2>4, <2>5, <2>6 DEF Grows
<1>3. QED
  BY <1>1, <1>2

LEMMA SameGrows == ASSUME OutboxInv, UNCHANGED <<stream, known>> PROVE Grows
BY DEF Grows, OutboxInv, TypeOK, KnownIsHeld, Held

(* Nothing of a message and its slot but lease, generation and due date is *)
(* touched, and a slot in flight stays in flight.                          *)
SameStanding ==
    /\ UNCHANGED <<publication, locator, refs>>
    /\ \A m \in Msgs : /\ slot'[m].state = "absent" <=> slot[m].state = "absent"
                       /\ InFlight(m) => InFlight(m)'

LEMMA StandingKept ==
    ASSUME OutboxInv, SameStanding, Grows
    PROVE  SlotMatchesMessage' /\ StoredIsHeld'
<1>1. SlotMatchesMessage'
  BY DEF OutboxInv, SlotMatchesMessage, SameStanding
<1>2. StoredIsHeld'
  <2> SUFFICES ASSUME NEW m \in Msgs, publication'[m] = "stored"
               PROVE  Held(m, locator[m])'
    BY DEF StoredIsHeld, Held
  <2>1. Held(m, locator[m]) /\ locator[m] \in Nat /\ locator' = locator
    BY OutboxConstants
    DEF SameStanding, OutboxInv, TypeOK, StoredIsHeld, Held
  <2>2. QED
    BY <2>1 DEF Grows, Held
<1>3. QED
  BY <1>1, <1>2

(* The other workers' answers, when w alone moves.                         *)
LEMMA OthersAnswersKept ==
    ASSUME OutboxInv, Grows, NEW w \in Workers,
           \A v \in Workers \ {w} :
               pc'[v] = pc[v] /\ at'[v] = at[v] /\ answer'[v] = answer[v],
           /\ answer'[w].says = "stored" => pc'[w] # "idle" /\ Held(at[w], answer[w].where)'
           /\ pc'[w] = "found" => answer'[w].says = "stored"
    PROVE  AnswersAreHeld'
<1> SUFFICES ASSUME NEW v \in Workers \ {w}, answer[v].says = "stored"
             PROVE  Held(at[v], answer[v].where)'
  BY DEF AnswersAreHeld, OutboxInv
<1>1. Held(at[v], answer[v].where) /\ at[v] \in Msgs /\ answer[v].where \in Nat
  BY OutboxConstants DEF OutboxInv, AnswersAreHeld, TypeOK
<1>2. QED
  BY <1>1 DEF Grows, Held

(* A worker that leaves takes no answer with it.                           *)
LEMMA LeaveKeeps ==
    ASSUME OutboxInv, Grows, NEW w \in Workers, Leave(w)
    PROVE  /\ AnswersAreHeld'
           /\ pc' \in [Workers -> PCs] /\ at' \in [Workers -> Msgs \cup {None}]
           /\ \A v \in Workers : pc'[v] # "idle" => at'[v] \in Msgs
           /\ last' \in [Workers -> BOOLEAN]
           /\ answer' \in [Workers -> [says : {"stored", "retryable", "fatal"},
                                       where : 0..StreamLimit]]
<1>1. /\ pc' \in [Workers -> PCs] /\ at' \in [Workers -> Msgs \cup {None}]
      /\ \A v \in Workers : pc'[v] # "idle" => at'[v] \in Msgs
      /\ last' \in [Workers -> BOOLEAN]
      /\ answer' \in [Workers -> [says : {"stored", "retryable", "fatal"},
                                  where : 0..StreamLimit]]
  BY OutboxConstants DEF OutboxInv, TypeOK, Leave, Goto, NoAnswer, PCs
<1>2. AnswersAreHeld'
  <2>1. pc'[w] = "idle" /\ answer'[w].says = "retryable"
    BY DEF OutboxInv, TypeOK, Leave, Goto, NoAnswer
  <2>2. \A v \in Workers \ {w} :
            pc'[v] = pc[v] /\ at'[v] = at[v] /\ answer'[v] = answer[v]
    BY DEF OutboxInv, TypeOK, Leave, Goto
  <2>3. QED
    BY <2>1, <2>2, OthersAnswersKept
<1>3. QED
  BY <1>1, <1>2

-----------------------------------------------------------------------------
(* The steps of the environment: sending, the broker, the clock.           *)
LEMMA SendKeeps == ASSUME OutboxInv, NEW m \in Msgs, Send(m) PROVE OutboxInv'
<1> NewSlot \in Slots
  BY OutboxConstants DEF NewSlot, Slots
<1>1. TypeOK'
  BY DEF OutboxInv, TypeOK, Send, broker, worker
<1>2. SlotMatchesMessage'
  BY DEF OutboxInv, TypeOK, SlotMatchesMessage, InFlight, Send, NewSlot
<1>3. StoredIsHeld' /\ KnownIsHeld' /\ AnswersAreHeld'
  BY DEF OutboxInv, TypeOK, StoredIsHeld, KnownIsHeld, AnswersAreHeld, Held, Send, broker, worker
<1>4. QED
  BY <1>1, <1>2, <1>3 DEF OutboxInv

LEMMA ForgetKeeps == ASSUME OutboxInv, NEW m \in Msgs, Forget(m) PROVE OutboxInv'
<1>1. TypeOK' /\ KnownIsHeld'
  BY OutboxConstants DEF OutboxInv, TypeOK, KnownIsHeld, Held, Forget, message, worker
<1>2. SlotMatchesMessage' /\ StoredIsHeld' /\ AnswersAreHeld'
  BY DEF OutboxInv, SlotMatchesMessage, InFlight, StoredIsHeld, AnswersAreHeld, Held, Forget,
         message, worker
<1>3. QED
  BY <1>1, <1>2 DEF OutboxInv

LEMMA LateArrivalKeeps ==
    ASSUME OutboxInv, NEW m \in Msgs, LateArrival(m) PROVE OutboxInv'
<1>1. Grows
  BY LandsGrows, SameGrows DEF LateArrival
<1>2. SlotMatchesMessage' /\ StoredIsHeld'
  BY <1>1, StandingKept DEF LateArrival, SameStanding, InFlight, message
<1>3. AnswersAreHeld'
  <2> SUFFICES ASSUME NEW v \in Workers, answer[v].says = "stored"
               PROVE  Held(at[v], answer[v].where)'
    BY DEF AnswersAreHeld, OutboxInv, LateArrival, worker
  <2>1. Held(at[v], answer[v].where) /\ at[v] \in Msgs /\ answer[v].where \in Nat
    BY OutboxConstants DEF OutboxInv, AnswersAreHeld, TypeOK
  <2>2. QED
    BY <1>1, <2>1 DEF Grows, Held, LateArrival, worker
<1>4. TypeOK'
  BY <1>1 DEF Grows, OutboxInv, TypeOK, LateArrival, message, worker
<1>5. QED
  BY <1>1, <1>2, <1>3, <1>4 DEF OutboxInv, Grows

LEMMA ClockKeeps ==
    ASSUME OutboxInv, NEW m \in Msgs, Lapse(m) \/ FallDue(m) PROVE OutboxInv'
<1> slot \in [Msgs -> Slots]
  BY DEF OutboxInv, TypeOK
<1>0. /\ slot' \in [Msgs -> Slots]
      /\ \A n \in Msgs : slot'[n].state = slot[n].state
  <2>1. CASE Lapse(m)
    BY <2>1 DEF Lapse, Slots
  <2>2. CASE FallDue(m)
    BY <2>2, ZenonT(30) DEF FallDue, Slots
  <2>3. QED
    BY <2>1, <2>2
<1>1. TypeOK'
  BY <1>0 DEF OutboxInv, TypeOK, Lapse, FallDue, message, broker, worker
<1>2. SameStanding
  BY <1>0 DEF SameStanding, InFlight, Lapse, FallDue, message
<1>3. Grows
  BY SameGrows DEF Lapse, FallDue, broker
<1>4. AnswersAreHeld' /\ KnownIsHeld'
  BY DEF OutboxInv, AnswersAreHeld, KnownIsHeld, Held, Lapse, FallDue, broker, worker
<1>5. QED
  BY <1>1, <1>2, <1>3, <1>4, StandingKept DEF OutboxInv

-----------------------------------------------------------------------------
(* The steps of a worker.                                                  *)

AnswerRecords == [says : {"stored", "retryable", "fatal"}, where : 0..StreamLimit]

(* Whatever the broker answers, "stored" comes with a place that holds the *)
(* message.                                                                *)
LEMMA AnswerIsHeld ==
    ASSUME OutboxInv, NEW w \in Workers, at[w] \in Msgs, at' = at,
           StoredAnswer(w) \/ OtherAnswer(w)
    PROVE  /\ Grows
           /\ answer' \in [Workers -> AnswerRecords]
           /\ \A v \in Workers \ {w} : answer'[v] = answer[v]
           /\ answer'[w].says = "stored" => Held(at[w], answer[w].where)'
<1> answer \in [Workers -> AnswerRecords]
  BY DEF OutboxInv, TypeOK, AnswerRecords
<1>1. CASE StoredAnswer(w)
  <2>1. Grows /\ Held(at[w], known[at[w]])' /\ known'[at[w]] \in 0..StreamLimit
    BY <1>1, LandsGrows DEF StoredAnswer, Grows
  <2>2. answer' = [answer EXCEPT ![w] = [says |-> "stored", where |-> known'[at[w]]]]
    BY <1>1 DEF StoredAnswer
  <2>3. answer'[w].where = known'[at'[w]]
    BY <2>2
  <2>4. QED
    BY <2>1, <2>2, <2>3 DEF AnswerRecords, Held
<1>2. CASE OtherAnswer(w)
  <2>1. Grows
    BY <1>2, LandsGrows, SameGrows DEF OtherAnswer
  <2>2. QED
    BY <1>2, <2>1, OutboxConstants DEF OtherAnswer, AnswerRecords
<1>3. QED
  BY <1>1, <1>2

LEMMA LeaseKeeps ==
    ASSUME OutboxInv, NEW w \in Workers, NEW m \in Msgs, Lease(w, m) \/ LeaseOne(w, m)
    PROVE  OutboxInv'
<1> /\ slot \in [Msgs -> Slots] /\ pc[w] = "idle" /\ answer[w].says # "stored"
  BY DEF OutboxInv, TypeOK, AnswersAreHeld, Lease, LeaseOne
<1>1. /\ slot' \in [Msgs -> Slots] /\ last' \in [Workers -> BOOLEAN]
      /\ slot'[m].state = "leased" /\ InFlight(m)
      /\ \A n \in Msgs \ {m} : slot'[n] = slot[n]
  <2>1. CASE Lease(w, m)
    <3> DEFINE n == Least(slot[m].attempts + 1, MaxAttempts)
    <3>1. n \in 0..MaxAttempts
      BY OutboxConstants DEF Least, Slots
    <3> HIDE DEF n
    <3>2. slot' = [slot EXCEPT ![m] = [state |-> "leased", generation |-> w, lease |-> "live",
                                       due |-> TRUE, attempts |-> n]]
      BY <2>1 DEF Lease, n
    <3>3. last' \in [Workers -> BOOLEAN]
      BY <2>1 DEF Lease, OutboxInv, TypeOK
    <3>4. InFlight(m)
      BY <2>1 DEF Lease, Free
    <3>5. QED
      BY <3>1, <3>2, <3>3, <3>4 DEF Slots
  <2>2. CASE LeaseOne(w, m)
    <3>1. slot' = [slot EXCEPT ![m].state = "leased", ![m].generation = w, ![m].lease = "live"]
      BY <2>2 DEF LeaseOne
    <3>2. slot' \in [Msgs -> Slots] /\ slot'[m].state = "leased"
      BY <3>1, ZenonT(30) DEF Slots
    <3>3. last' \in [Workers -> BOOLEAN] /\ InFlight(m)
      BY <2>2 DEF LeaseOne, Free, OutboxInv, TypeOK, worker
    <3>4. QED
      BY <3>1, <3>2, <3>3
  <2>3. QED
    BY <2>1, <2>2
<1>2. Grows
  BY SameGrows DEF Lease, LeaseOne, broker
<1>3. /\ pc' \in [Workers -> PCs] /\ pc'[w] \in {"publishing", "reconciling"}
      /\ at' = [at EXCEPT ![w] = m] /\ answer' = answer
      /\ \A v \in Workers \ {w} : pc'[v] = pc[v] /\ at'[v] = at[v]
  BY ZenonT(30) DEF Lease, LeaseOne, Goto, OutboxInv, TypeOK, PCs, PublishPCs
<1>4. TypeOK'
  BY <1>1, <1>3 DEF OutboxInv, TypeOK, Lease, LeaseOne, message, broker
<1>5. SameStanding
  BY <1>1 DEF SameStanding, InFlight, Lease, LeaseOne, message
<1>6. AnswersAreHeld'
  BY <1>2, <1>3, OthersAnswersKept
<1>7. QED
  BY <1>2, <1>4, <1>5, <1>6, StandingKept DEF OutboxInv, Grows

(* An exchange with the broker: publish, reconcile, or the question before *)
(* giving up.  No slot and no standing of a message changes.               *)
LEMMA ExchangeKeeps ==
    ASSUME OutboxInv, NEW w \in Workers, Publish(w) \/ AskBeforeGivingUp(w) \/ Reconcile(w)
    PROVE  OutboxInv'
<1>1. at[w] \in Msgs /\ at' = at /\ UNCHANGED <<publication, locator, refs, slot, late, last>>
  BY DEF Publish, AskBeforeGivingUp, Reconcile, OutboxInv, TypeOK, message
<1>2. /\ Grows
      /\ answer' \in [Workers -> AnswerRecords]
      /\ \A v \in Workers \ {w} : answer'[v] = answer[v]
      /\ answer'[w].says = "stored" => Held(at[w], answer[w].where)'
  <2>1. CASE StoredAnswer(w) \/ OtherAnswer(w)
    BY <1>1, <2>1, AnswerIsHeld
  <2>2. CASE Lands(at[w]) /\ UNCHANGED answer
    <3>1. Grows
      BY <1>1, <2>2, LandsGrows
    <3>2. /\ answer \in [Workers -> AnswerRecords] /\ answer[w].where \in Nat
          /\ answer[w].says = "stored" => Held(at[w], answer[w].where)
      BY OutboxConstants DEF OutboxInv, TypeOK, AnswersAreHeld, AnswerRecords
    <3>3. QED
      BY <1>1, <2>2, <3>1, <3>2 DEF Grows, Held
  <2>3. CASE UNCHANGED <<stream, known, answer>>
    BY <1>1, <2>3, SameGrows DEF OutboxInv, TypeOK, AnswersAreHeld, AnswerRecords, Held
  <2>4. QED
    BY <2>1, <2>2, <2>3 DEF Publish, AskBeforeGivingUp, Reconcile
<1>3. uncertain' \in [Msgs -> {"no", "yes", "asked"}]
  BY <1>1 DEF Publish, AskBeforeGivingUp, Reconcile, Asked, OutboxInv, TypeOK, message
<1>4. /\ pc' \in [Workers -> PCs] /\ pc'[w] # "idle"
      /\ \A v \in Workers \ {w} : pc'[v] = pc[v]
  BY DEF Publish, AskBeforeGivingUp, Reconcile, Goto, OutboxInv, TypeOK, PCs, PublishPCs
<1>5. pc'[w] = "found" => answer'[w].says = "stored"
  BY DEF Publish, AskBeforeGivingUp, Reconcile, StoredAnswer, Goto, OutboxInv, TypeOK
<1>6. AnswersAreHeld'
  BY <1>1, <1>2, <1>4, <1>5, OthersAnswersKept
<1>7. TypeOK'
  BY <1>1, <1>2, <1>3, <1>4 DEF OutboxInv, TypeOK, Grows, AnswerRecords
<1>8. SameStanding
  BY <1>1 DEF SameStanding, InFlight
<1>9. QED
  BY <1>2, <1>6, <1>7, <1>8, StandingKept DEF OutboxInv, Grows

(* A worker leaves without touching a message or a slot, or touches only a *)
(* slot whose generation is its own.                                       *)
LEMMA LeavingKeeps ==
    ASSUME OutboxInv, NEW w \in Workers,
           Fenced(w) \/ Done(w) \/ MarkUncertain(w) \/ Unlease(w) \/ Quit(w)
    PROVE  OutboxInv'
<1>1. /\ Leave(w) /\ at[w] \in Msgs /\ UNCHANGED <<publication, locator, refs, stream, known>>
      /\ slot \in [Msgs -> Slots]
  BY DEF Fenced, Done, MarkUncertain, Unlease, Quit, OutboxInv, TypeOK, message, broker
<1>2. Grows
  BY <1>1, SameGrows
<1>3. /\ slot' \in [Msgs -> Slots]
      /\ \A m \in Msgs : \/ slot'[m] = slot[m]
                         \/ slot[m].state # "absent" /\ slot'[m].state = "pending"
  <2>1. CASE UNCHANGED slot
    BY <1>1, <2>1
  <2>2. CASE MarkUncertain(w) /\ Latest(w)
    BY <1>1, <2>2 DEF MarkUncertain, Latest, Slots
  <2>3. CASE Unlease(w) /\ Latest(w)
    BY <1>1, <2>3 DEF Unlease, Latest, Slots
  <2>4. QED
    BY <2>1, <2>2, <2>3 DEF Fenced, Done, MarkUncertain, Unlease, Quit
<1>4. SameStanding
  BY <1>1, <1>3 DEF SameStanding, InFlight
<1>5. uncertain' \in [Msgs -> {"no", "yes", "asked"}] /\ late' \in [Msgs -> BOOLEAN]
  BY <1>1 DEF Fenced, Done, MarkUncertain, Unlease, Quit, OutboxInv, TypeOK, message, broker
<1>6. TypeOK' /\ AnswersAreHeld'
  BY <1>1, <1>2, <1>3, <1>5, LeaveKeeps DEF OutboxInv, TypeOK, Grows
<1>7. QED
  BY <1>2, <1>4, <1>6, StandingKept DEF OutboxInv, Grows

LEMMA TimeoutKeeps == ASSUME OutboxInv, NEW w \in Workers, Timeout(w) PROVE OutboxInv'
<1>1. /\ Grows /\ SameStanding /\ at[w] \in Msgs
      /\ UNCHANGED <<message, slot, at, last, answer>>
  BY SameGrows DEF Timeout, SameStanding, InFlight, message, OutboxInv, TypeOK, PublishPCs
<1>2. /\ pc' \in [Workers -> PCs] /\ pc'[w] = "timedout"
      /\ \A v \in Workers \ {w} : pc'[v] = pc[v]
  BY DEF Timeout, Goto, OutboxInv, TypeOK, PCs
<1>3. late' \in [Msgs -> BOOLEAN]
  BY <1>1 DEF Timeout, OutboxInv, TypeOK
<1>4. AnswersAreHeld'
  BY <1>1, <1>2 DEF Timeout, AnswersAreHeld, OutboxInv, Held
<1>5. TypeOK'
  BY <1>1, <1>2, <1>3 DEF OutboxInv, TypeOK, Grows, message
<1>6. QED
  BY <1>1, <1>4, <1>5, StandingKept DEF OutboxInv, Grows

LEMMA ClearUncertainKeeps == ASSUME OutboxInv, ClearUncertain PROVE OutboxInv'
<1>1. TypeOK'
  BY DEF OutboxInv, TypeOK, ClearUncertain, broker, worker
<1>2. QED
  BY <1>1 DEF OutboxInv, ClearUncertain, SlotMatchesMessage, InFlight, StoredIsHeld,
              KnownIsHeld, AnswersAreHeld, Held, broker, worker

-----------------------------------------------------------------------------
(* settle, under its fence.                                                *)

(* The fence finds its row: the message is neither stored nor unsent.      *)
LEMMA FenceFinds ==
    ASSUME OutboxInv, NEW w \in Workers, at[w] \in Msgs, Fence(w)
    PROVE  /\ slot[at[w]].state # "absent" /\ Latest(w) /\ ~refs[at[w]]
           /\ publication[at[w]] \notin {"none", "stored"}
BY DEF Fence, Latest, OutboxInv, TypeOK, SlotMatchesMessage

LEMMA SettleStoredKeeps ==
    ASSUME OutboxInv, NEW w \in Workers, at[w] \in Msgs, Fence(w),
           answer[w].says = "stored", SettleStored(w), UNCHANGED broker
    PROVE  /\ slot' \in [Msgs -> Slots]
           /\ publication' \in [Msgs -> {"none", "pending", "stored", "failed"}]
           /\ locator' \in [Msgs -> 0..StreamLimit]
           /\ refs' \in [Msgs -> BOOLEAN] /\ uncertain' = uncertain
           /\ SlotMatchesMessage' /\ StoredIsHeld'
<1>1. NoSlot \in Slots
  BY OutboxConstants DEF NoSlot, Slots
<1>2. /\ slot' = [slot EXCEPT ![at[w]] = NoSlot]
      /\ publication' = [publication EXCEPT ![at[w]] = "stored"]
      /\ locator' = [locator EXCEPT ![at[w]] = answer[w].where]
      /\ refs' = [refs EXCEPT ![at[w]] = TRUE]
      /\ uncertain' = uncertain
  BY FenceFinds DEF SettleStored
<1>3. /\ Held(at[w], answer[w].where) /\ answer[w].where \in 0..StreamLimit
      /\ slot \in [Msgs -> Slots] /\ locator \in [Msgs -> 0..StreamLimit]
      /\ publication \in [Msgs -> {"none", "pending", "stored", "failed"}]
      /\ refs \in [Msgs -> BOOLEAN]
  BY DEF OutboxInv, TypeOK, AnswersAreHeld
<1>4. StoredIsHeld'
  BY <1>2, <1>3 DEF StoredIsHeld, Held, OutboxInv, broker
<1>5. NoSlot.state = "absent"
  BY DEF NoSlot
<1>6. SlotMatchesMessage'
  BY <1>2, <1>3, <1>5 DEF OutboxInv, SlotMatchesMessage, InFlight
<1>7. QED
  BY <1>1, <1>2, <1>3, <1>4, <1>6

(* A retry or a failure: the slot stays, and says what the message says.   *)
LEMMA SettleOtherwiseKeeps ==
    ASSUME OutboxInv, NEW w \in Workers, at[w] \in Msgs, Fence(w),
           SettleRetry(w) \/ SettleFailed(w), UNCHANGED broker
    PROVE  /\ slot' \in [Msgs -> Slots]
           /\ publication' \in [Msgs -> {"none", "pending", "stored", "failed"}]
           /\ UNCHANGED <<locator, refs, uncertain>>
           /\ SlotMatchesMessage' /\ StoredIsHeld'
<1> slot \in [Msgs -> Slots]
  BY DEF OutboxInv, TypeOK
<1>1. CASE SettleRetry(w)
  <2>1. /\ slot' \in [Msgs -> Slots] /\ slot'[at[w]].state = "pending"
        /\ \A m \in Msgs \ {at[w]} : slot'[m] = slot[m]
    BY <1>1 DEF SettleRetry, Slots
  <2>2. UNCHANGED <<publication, locator, refs, uncertain>>
    BY <1>1 DEF SettleRetry, message
  <2>3. SameStanding
    BY <2>1, <2>2, FenceFinds DEF SameStanding, InFlight
  <2>4. Grows
    BY SameGrows DEF broker
  <2>5. QED
    BY <2>1, <2>2, <2>3, <2>4, StandingKept DEF OutboxInv, TypeOK
<1>2. CASE SettleFailed(w)
  <2>1. /\ slot' \in [Msgs -> Slots] /\ slot'[at[w]].state = "failed"
        /\ \A m \in Msgs \ {at[w]} : slot'[m] = slot[m]
    BY <1>2, FenceFinds DEF SettleFailed, Slots
  <2>2. /\ publication' = [publication EXCEPT ![at[w]] = "failed"]
        /\ UNCHANGED <<locator, refs, uncertain>>
    BY <1>2 DEF SettleFailed
  <2>3. SlotMatchesMessage'
    BY <2>1, <2>2, FenceFinds DEF OutboxInv, TypeOK, SlotMatchesMessage, InFlight
  <2>4. StoredIsHeld'
    BY <2>2 DEF OutboxInv, TypeOK, StoredIsHeld, broker
  <2>5. QED
    BY <2>1, <2>2, <2>3, <2>4 DEF OutboxInv, TypeOK
<1>3. QED
  BY <1>1, <1>2

LEMMA SettleKeeps == ASSUME OutboxInv, NEW w \in Workers, Settle(w) PROVE OutboxInv'
<1>1. /\ at[w] \in Msgs /\ Fence(w) /\ Outcome(w) /\ UNCHANGED <<stream, known, late>>
      /\ UNCHANGED <<at, last, answer>> /\ UNCHANGED broker
  BY DEF Settle, OutboxInv, TypeOK, broker
<1>2. /\ slot' \in [Msgs -> Slots]
      /\ publication' \in [Msgs -> {"none", "pending", "stored", "failed"}]
      /\ locator' \in [Msgs -> 0..StreamLimit]
      /\ refs' \in [Msgs -> BOOLEAN] /\ uncertain' = uncertain
      /\ SlotMatchesMessage' /\ StoredIsHeld'
  <2>1. CASE answer[w].says = "stored" /\ SettleStored(w)
    BY <1>1, <2>1, SettleStoredKeeps
  <2>2. CASE SettleRetry(w) \/ SettleFailed(w)
    BY <1>1, <2>2, SettleOtherwiseKeeps DEF OutboxInv, TypeOK
  <2>3. QED
    BY <1>1, <2>1, <2>2 DEF Outcome
<1>3. /\ pc' \in [Workers -> PCs] /\ pc'[w] = "settled"
      /\ \A v \in Workers \ {w} : pc'[v] = pc[v]
  BY DEF Settle, Goto, OutboxInv, TypeOK, PCs, PublishPCs
<1>4. AnswersAreHeld' /\ KnownIsHeld'
  BY <1>1, <1>3 DEF OutboxInv, AnswersAreHeld, KnownIsHeld, Held
<1>5. TypeOK'
  BY <1>1, <1>2, <1>3 DEF OutboxInv, TypeOK
<1>6. QED
  BY <1>2, <1>4, <1>5 DEF OutboxInv

LEMMA SettleFoundKeeps == ASSUME OutboxInv, NEW w \in Workers, SettleFound(w) PROVE OutboxInv'
<1>1. /\ at[w] \in Msgs /\ Fence(w) /\ answer[w].says = "stored" /\ SettleStored(w)
      /\ Leave(w) /\ UNCHANGED broker /\ UNCHANGED <<stream, known, late>>
  BY DEF SettleFound, OutboxInv, TypeOK, AnswersAreHeld, broker
<1>2. Grows
  BY <1>1, SameGrows
<1>3. QED
  BY <1>1, <1>2, SettleStoredKeeps, LeaveKeeps DEF OutboxInv, TypeOK, Grows

-----------------------------------------------------------------------------
LEMMA StepKeeps == ASSUME OutboxInv, [Next]_vars PROVE OutboxInv'
<1>1. CASE UNCHANGED vars
  BY <1>1 DEF OutboxInv, TypeOK, SlotMatchesMessage, StoredIsHeld, KnownIsHeld, AnswersAreHeld,
              Held, InFlight, vars, message, broker, worker
<1>2. CASE Next
  BY <1>2, SendKeeps, ForgetKeeps, LateArrivalKeeps, ClockKeeps, LeaseKeeps, ExchangeKeeps,
     SettleKeeps, LeavingKeeps, TimeoutKeeps, SettleFoundKeeps, ClearUncertainKeeps
  DEF Next
<1>3. QED
  BY <1>1, <1>2

LEMMA OutboxInvariant == Spec => []OutboxInv
<1>1. Init => OutboxInv
  BY InitHolds
<1>2. OutboxInv /\ [Next]_vars => OutboxInv'
  BY StepKeeps
<1>3. QED
  BY <1>1, <1>2, PTL DEF Spec

(* Message and slot agree at every commit, for any number of workers: one  *)
(* that is pending has a slot in flight, one that is stored has none and   *)
(* its inbox references are queued (settle, mark_uncertain, lease).        *)
THEOREM SlotsMatchMessages == Spec => []SlotMatchesMessage
<1>1. OutboxInv => SlotMatchesMessage
  BY DEF OutboxInv
<1>2. QED
  BY <1>1, OutboxInvariant, PTL

(* A message the bus reports as stored is in the stream at its canonical   *)
(* locator, whatever confirmations were lost, repeated or late (settle).   *)
THEOREM StoredMessagesAreHeld == Spec => []StoredIsHeld
<1>1. OutboxInv => StoredIsHeld
  BY DEF OutboxInv
<1>2. QED
  BY <1>1, OutboxInvariant, PTL

(* Once stored, neither a late worker nor a reconciliation nor a second    *)
(* copy in the stream changes the state or the locator: the fence of       *)
(* settle finds no slot.                                                   *)
THEOREM StoredIsForGood == Spec => StoredForGood
<1> DEFINE Kept ==
        \A m \in Msgs : publication[m] = "stored" =>
            publication'[m] = "stored" /\ locator'[m] = locator[m]
<1>1. OutboxInv /\ [Next]_vars => [Kept]_vars
  <2> SUFFICES ASSUME OutboxInv, Next PROVE Kept
    BY DEF vars
  <2>1. ASSUME NEW m \in Msgs, Send(m) PROVE Kept
    BY <2>1 DEF Send, OutboxInv, TypeOK
  <2>2. ASSUME NEW w \in Workers, Settle(w) \/ SettleFound(w) PROVE Kept
    <3>1. at[w] \in Msgs /\ Fence(w)
      BY <2>2 DEF Settle, SettleFound, OutboxInv, TypeOK
    <3>2. publication[at[w]] # "stored"
      BY <3>1, FenceFinds
    <3>3. \A m \in Msgs \ {at[w]} : publication'[m] = publication[m] /\ locator'[m] = locator[m]
      BY <2>2, <3>1 DEF Settle, SettleFound, Outcome, SettleStored, SettleRetry, SettleFailed,
                        message, OutboxInv, TypeOK
    <3>4. QED
      BY <3>2, <3>3
  <2>3. CASE UNCHANGED <<publication, locator>>
    BY <2>3
  <2>4. QED
    BY <2>1, <2>2, <2>3
    DEF Next, Forget, LateArrival, Lapse, FallDue, Lease, LeaseOne, Publish, AskBeforeGivingUp,
        Fenced, Done, Timeout, MarkUncertain, Quit, Reconcile, Unlease, ClearUncertain, message
<1>2. QED
  BY <1>1, OutboxInvariant, PTL DEF Spec, StoredForGood
=============================================================================
