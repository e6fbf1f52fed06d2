------------------------------- MODULE Outbox -------------------------------
(***************************************************************************)
(* Asynchronous publication to a broker: store/outbox.rs, the worker loop  *)
(* of serve.rs (one per replica) and JetStreamBackend of jetstream.rs.     *)
(*                                                                         *)
(* A worker is sequential: it leases a slot, talks to the broker with no   *)
(* transaction open, settles in a second transaction; or it reconciles.    *)
(* Its publish runs under a timeout, which drops the future wherever it    *)
(* is, after the COMMIT of settle included.  A generation is named by the  *)
(* worker that took it: a worker has one lease at a time, so "generation = *)
(* $2" holds exactly while it is the last one that leased the slot.        *)
(***************************************************************************)
EXTENDS Integers, Sequences

CONSTANTS Msgs,         \* messages sent in a behaviour
          Workers,      \* replicas that drain the outbox
          MaxAttempts,  \* MAX_ATTEMPTS
          StreamLimit,  \* max_messages of the stream, which discards new ones
          None

ASSUME OutboxConstants == MaxAttempts \in Nat \ {0} /\ StreamLimit \in Nat

VARIABLES
    publication, \* publication_state; "none" before the send
    locator,     \* canonical_locator: a place in the stream, 0 is NULL
    refs,        \* the recipients' inbox_events are queued
    uncertain,   \* uncertain_at: "no", or "yes"; history: "asked" since
    slot,        \* conversation_outbox row
    stream,      \* what the broker holds
    known,       \* its deduplication window: where this key landed, or 0
    late,        \* a publish nobody waits for is still on its way
    pc, at,      \* where each worker is, and the message it leased
    last,        \* lease.attempts >= MAX_ATTEMPTS
    answer       \* what the broker said, and the place a PubAck names

message == <<publication, locator, refs, uncertain>>
broker == <<stream, known, late>>
worker == <<pc, at, last, answer>>
vars == <<message, slot, broker, worker>>

Slots == [state : {"absent", "pending", "leased", "failed"},
          generation : Workers \cup {None}, lease : {"none", "live", "lapsed"},
          due : BOOLEAN, attempts : 0..MaxAttempts]
NoSlot == [state |-> "absent", generation |-> None, lease |-> "none",
           due |-> FALSE, attempts |-> 0]
NewSlot == [state |-> "pending", generation |-> None, lease |-> "none",
            due |-> TRUE, attempts |-> 0]

PublishPCs == {"publishing", "asking", "settling", "settled"}
PCs == {"idle", "timedout", "reconciling", "found", "unleasing"} \cup PublishPCs

TypeOK ==
    /\ publication \in [Msgs -> {"none", "pending", "stored", "failed"}]
    /\ locator \in [Msgs -> 0..StreamLimit]
    /\ refs \in [Msgs -> BOOLEAN] /\ uncertain \in [Msgs -> {"no", "yes", "asked"}]
    /\ slot \in [Msgs -> Slots]
    /\ stream \in Seq(Msgs) /\ Len(stream) <= StreamLimit
    /\ known \in [Msgs -> 0..StreamLimit] /\ late \in [Msgs -> BOOLEAN]
    /\ pc \in [Workers -> PCs] /\ at \in [Workers -> Msgs \cup {None}]
    /\ \A w \in Workers : pc[w] # "idle" => at[w] \in Msgs
    /\ last \in [Workers -> BOOLEAN]
    /\ answer \in [Workers -> [says : {"stored", "retryable", "fatal"},
                               where : 0..StreamLimit]]

NoAnswer == [says |-> "retryable", where |-> 0]

Init ==
    /\ publication = [m \in Msgs |-> "none"] /\ locator = [m \in Msgs |-> 0]
    /\ refs = [m \in Msgs |-> FALSE] /\ uncertain = [m \in Msgs |-> "no"]
    /\ slot = [m \in Msgs |-> NoSlot]
    /\ stream = <<>> /\ known = [m \in Msgs |-> 0] /\ late = [m \in Msgs |-> FALSE]
    /\ pc = [w \in Workers |-> "idle"] /\ at = [w \in Workers |-> None]
    /\ last = [w \in Workers |-> FALSE] /\ answer = [w \in Workers |-> NoAnswer]

(* conversations::send on an asynchronous conversation, with enqueue.      *)
Send(m) ==
    /\ publication[m] = "none"
    /\ publication' = [publication EXCEPT ![m] = "pending"]
    /\ slot' = [slot EXCEPT ![m] = NewSlot]
    /\ UNCHANGED <<locator, refs, uncertain, broker, worker>>

-----------------------------------------------------------------------------
(* The broker, as the code uses it (external).                             *)

(* A publish that is accepted: inside the deduplication window the same    *)
(* key gets the place it had, outside it the body lands again.             *)
Lands(m) ==
    IF known[m] # 0
    THEN UNCHANGED <<stream, known>>
    ELSE /\ Len(stream) < StreamLimit
         /\ stream' = Append(stream, m)
         /\ known' = [known EXCEPT ![m] = Len(stream) + 1]

Forget(m) ==
    /\ known[m] # 0
    /\ known' = [known EXCEPT ![m] = 0]
    /\ UNCHANGED <<message, slot, stream, late, worker>>

(* A publish whose sender went away is stored, or refused, or lost.        *)
LateArrival(m) ==
    /\ late[m]
    /\ late' = [late EXCEPT ![m] = FALSE]
    /\ Lands(m) \/ UNCHANGED <<stream, known>>
    /\ UNCHANGED <<message, slot, worker>>

(* Mutant: a publish is taken as stored when it was sent, without waiting  *)
(* for the PubAck.                                                         *)
StoredAnswerUnacked(w) ==
    /\ answer' = [answer EXCEPT ![w] = [says |-> "stored", where |-> Len(stream)]]
    /\ UNCHANGED <<stream, known>>

(* The PubAck names the place.                                             *)
StoredAnswer(w) ==
    /\ Lands(at[w])
    /\ answer' = [answer EXCEPT ![w] = [says |-> "stored", where |-> known'[at[w]]]]

(* No PubAck (the body may be there all the same), or a refusal.           *)
OtherAnswer(w) ==
    \/ /\ answer' = [answer EXCEPT ![w] = [says |-> "retryable", where |-> 0]]
       /\ Lands(at[w]) \/ UNCHANGED <<stream, known>>
    \/ /\ answer' = [answer EXCEPT ![w] = [says |-> "fatal", where |-> 0]]
       /\ UNCHANGED <<stream, known>>

-----------------------------------------------------------------------------
(* lease, and the publishing half of run_outbox_worker.                    *)

Goto(w, to) == pc' = [pc EXCEPT ![w] = to]

Leave(w) ==
    /\ Goto(w, "idle")
    /\ at' = [at EXCEPT ![w] = None]
    /\ last' = [last EXCEPT ![w] = FALSE]
    /\ answer' = [answer EXCEPT ![w] = NoAnswer]

InFlight(m) == slot[m].state \in {"pending", "leased"}

(* Mutant: a slot that is leased is never taken from its holder.           *)
FreeOnlyPending(m) == slot[m].state = "pending"

(* The lease is NULL or past.                                              *)
Free(m) == InFlight(m) /\ slot[m].lease # "live"

Least(a, b) == IF a < b THEN a ELSE b

(* attempts is compared with MAX_ATTEMPTS only, so it is counted that far. *)
Lease(w, m) ==
    /\ pc[w] = "idle"
    /\ Free(m) /\ slot[m].due
    /\ LET n == Least(slot[m].attempts + 1, MaxAttempts)
       IN  /\ slot' = [slot EXCEPT ![m] = [state |-> "leased", generation |-> w,
                                           lease |-> "live", due |-> TRUE,
                                           attempts |-> n]]
           /\ last' = [last EXCEPT ![w] = n >= MaxAttempts]
    /\ Goto(w, "publishing")
    /\ at' = [at EXCEPT ![w] = m]
    /\ UNCHANGED <<message, broker, answer>>

(* publish_leased: the broker answers; on the last attempt a retryable     *)
(* answer is asked about first.                                            *)
Publish(w) ==
    /\ pc[w] = "publishing"
    /\ StoredAnswer(w) \/ OtherAnswer(w)
    /\ Goto(w, IF answer'[w].says = "retryable" /\ last[w]
               THEN "asking" ELSE "settling")
    /\ UNCHANGED <<message, slot, late, at, last>>

Asked(w) ==
    uncertain' = [uncertain EXCEPT ![at[w]] = IF @ = "no" THEN @ ELSE "asked"]

(* backend.reconcile is a publish; anything but a PubAck leaves the        *)
(* outcome as it was.                                                      *)
AskBeforeGivingUp(w) ==
    /\ pc[w] = "asking"
    /\ \/ StoredAnswer(w)
       \/ (Lands(at[w]) \/ UNCHANGED <<stream, known>>) /\ UNCHANGED answer
    /\ Goto(w, "settling")
    /\ Asked(w)
    /\ UNCHANGED <<publication, locator, refs, slot, late, at, last>>

-----------------------------------------------------------------------------
(* settle                                                                  *)

Latest(w) == slot[at[w]].state # "absent" /\ slot[at[w]].generation = w

(* Mutant: nobody asks whether the DELETE or the UPDATE found its row.     *)
FenceOpen(w) == TRUE

(* generation = $2 AND lease_expires_at > now()                            *)
Fence(w) == Latest(w) /\ slot[at[w]].lease = "live"

(* Confirmed: the slot goes, the message is stored and its references are  *)
(* queued, in one transaction.                                             *)
SettleStored(w) ==
    LET m == at[w]
    IN  /\ slot' = [slot EXCEPT ![m] = IF Latest(w) THEN NoSlot ELSE @]
        /\ publication' = [publication EXCEPT ![m] = "stored"]
        /\ locator' = [locator EXCEPT ![m] = answer[w].where]
        /\ refs' = [refs EXCEPT ![m] = TRUE]
        /\ UNCHANGED uncertain

(* Retryable: due again after a backoff.                                   *)
SettleRetry(w) ==
    /\ slot' = [slot EXCEPT ![at[w]].state = "pending", ![at[w]].lease = "none",
                            ![at[w]].due = FALSE]
    /\ UNCHANGED message

(* Mutant: the slot is given up and the message is not told.               *)
SettleFailedSlotOnly(w) ==
    /\ slot' = [slot EXCEPT ![at[w]].state = "failed", ![at[w]].lease = "none"]
    /\ UNCHANGED message

(* Fatal, or retryable for the last time.                                  *)
SettleFailed(w) ==
    /\ slot' = [slot EXCEPT ![at[w]].state = IF @ = "absent" THEN @ ELSE "failed",
                            ![at[w]].lease = "none"]
    /\ publication' = [publication EXCEPT ![at[w]] = "failed"]
    /\ UNCHANGED <<locator, refs, uncertain>>

Outcome(w) ==
    \/ answer[w].says = "stored" /\ SettleStored(w)
    \/ answer[w].says = "retryable" /\ ~last[w] /\ SettleRetry(w)
    \/ /\ answer[w].says = "fatal" \/ (answer[w].says = "retryable" /\ last[w])
       /\ SettleFailed(w)

(* The COMMIT is done; the worker has not heard of it yet.                 *)
Settle(w) ==
    /\ pc[w] = "settling"
    /\ Fence(w) /\ Outcome(w)
    /\ Goto(w, "settled")
    /\ UNCHANGED <<broker, at, last, answer>>

Fenced(w) ==
    /\ pc[w] \in {"settling", "found"} /\ ~Fence(w)
    /\ Leave(w)
    /\ UNCHANGED <<message, slot, broker>>

Done(w) ==
    /\ pc[w] = "settled"
    /\ Leave(w)
    /\ UNCHANGED <<message, slot, broker>>

(* PUBLISH_TIMEOUT drops publish_leased; its request may still be on its   *)
(* way to the broker.                                                      *)
Timeout(w) ==
    /\ pc[w] \in PublishPCs
    /\ Goto(w, "timedout")
    /\ \/ UNCHANGED late
       \/ pc[w] \in {"publishing", "asking"} /\ late' = [late EXCEPT ![at[w]] = TRUE]
    /\ UNCHANGED <<message, slot, stream, known, at, last, answer>>

(* mark_uncertain: the generation, and nothing about lease or state.       *)
MarkUncertain(w) ==
    /\ pc[w] = "timedout"
    /\ IF Latest(w)
       THEN /\ slot' = [slot EXCEPT ![at[w]].state = "pending",
                                    ![at[w]].lease = "none", ![at[w]].due = FALSE]
            /\ uncertain' = [uncertain EXCEPT ![at[w]] = "yes"]
       ELSE UNCHANGED <<slot, uncertain>>
    /\ Leave(w)
    /\ UNCHANGED <<publication, locator, refs, broker>>

-----------------------------------------------------------------------------
(* resolve_uncertain                                                       *)

(* lease_one: counts no attempt and does not ask whether the slot is due.  *)
LeaseOne(w, m) ==
    /\ pc[w] = "idle"
    /\ uncertain[m] # "no" /\ Free(m)
    /\ slot' = [slot EXCEPT ![m].state = "leased", ![m].generation = w,
                            ![m].lease = "live"]
    /\ Goto(w, "reconciling")
    /\ at' = [at EXCEPT ![w] = m]
    /\ UNCHANGED <<message, broker, last, answer>>

Reconcile(w) ==
    /\ pc[w] = "reconciling"
    /\ \/ StoredAnswer(w) /\ Goto(w, "found")
       \/ /\ Lands(at[w]) \/ UNCHANGED <<stream, known>>
          /\ Goto(w, "unleasing") /\ UNCHANGED answer
    /\ Asked(w)
    /\ UNCHANGED <<publication, locator, refs, slot, late, at, last>>

SettleFound(w) ==
    /\ pc[w] = "found"
    /\ Fence(w) /\ SettleStored(w)
    /\ Leave(w)
    /\ UNCHANGED <<broker>>

Unlease(w) ==
    /\ pc[w] = "unleasing"
    /\ slot' = IF Latest(w)
               THEN [slot EXCEPT ![at[w]].state = "pending", ![at[w]].lease = "none"]
               ELSE slot
    /\ Leave(w)
    /\ UNCHANGED <<message, broker>>

(* The last statement of every pass.                                       *)
ClearUncertain ==
    /\ \E m \in Msgs : uncertain[m] # "no" /\ publication[m] = "stored"
    /\ uncertain' = [m \in Msgs |-> IF publication[m] = "stored" THEN "no"
                                   ELSE uncertain[m]]
    /\ UNCHANGED <<publication, locator, refs, slot, broker, worker>>

-----------------------------------------------------------------------------
(* A statement fails, the backend cannot be opened, or the replica         *)
(* restarts: the slot stays leased.                                        *)
Quit(w) ==
    /\ pc[w] # "idle"
    /\ Leave(w)
    /\ \/ UNCHANGED late
       \/ /\ pc[w] \in {"publishing", "asking", "reconciling"}
          /\ late' = [late EXCEPT ![at[w]] = TRUE]
    /\ UNCHANGED <<message, slot, stream, known>>

(* LEASE_SECS pass, the backoff passes.                                    *)
Lapse(m) ==
    /\ slot[m].lease = "live"
    /\ slot' = [slot EXCEPT ![m].lease = "lapsed"]
    /\ UNCHANGED <<message, broker, worker>>

FallDue(m) ==
    /\ InFlight(m) /\ ~slot[m].due
    /\ slot' = [slot EXCEPT ![m].due = TRUE]
    /\ UNCHANGED <<message, broker, worker>>

Next ==
    \/ \E m \in Msgs : Send(m) \/ Forget(m) \/ LateArrival(m) \/ Lapse(m) \/ FallDue(m)
    \/ \E w \in Workers :
          \/ \E m \in Msgs : Lease(w, m) \/ LeaseOne(w, m)
          \/ Publish(w) \/ AskBeforeGivingUp(w) \/ Settle(w) \/ Fenced(w) \/ Done(w)
          \/ Timeout(w) \/ MarkUncertain(w) \/ Quit(w)
          \/ Reconcile(w) \/ SettleFound(w) \/ Unlease(w)
    \/ ClearUncertain

(* What a worker does when nothing interrupts it.                          *)
Continue(w) ==
    \/ Publish(w) \/ AskBeforeGivingUp(w) \/ Settle(w) \/ Fenced(w) \/ Done(w)
    \/ MarkUncertain(w) \/ Reconcile(w) \/ SettleFound(w) \/ Unlease(w)

(* A publish is interrupted: by its timeout, by a restart or an error, or  *)
(* by the end of its lease, which is twice PUBLISH_TIMEOUT away.           *)
Interrupted(w) ==
    \/ Timeout(w) \/ Quit(w)
    \/ pc[w] \in PublishPCs /\ slot[at[w]].generation = w /\ Lapse(at[w])

(* Time passes, workers go on, reconciliation (every RECONCILE_INTERVAL)   *)
(* does not take a slot every time it is due, and interruptions end: from  *)
(* some moment on the broker answers in time, with whatever answer.        *)
Fairness ==
    /\ \A m \in Msgs : /\ WF_vars(Lapse(m)) /\ WF_vars(FallDue(m))
                       /\ SF_vars(\E w \in Workers : Lease(w, m))
    /\ \A w \in Workers : WF_vars(Continue(w)) /\ <>[][~Interrupted(w)]_vars

Spec == Init /\ [][Next]_vars /\ Fairness

-----------------------------------------------------------------------------
(* "Acceptance and the outbox slot commit together", and so does every     *)
(* settlement: a message still pending has a slot in flight, one that is   *)
(* stored has none and its references are queued, and nothing else is.     *)
SlotMatchesMessage ==
    \A m \in Msgs :
        /\ publication[m] = "pending" => InFlight(m)
        /\ publication[m] = "stored" <=> refs[m]
        /\ publication[m] \in {"none", "stored"} <=> slot[m].state = "absent"

(* A message is reported stored only when the broker holds that message at *)
(* the canonical locator, whatever confirmations were lost on the way.     *)
StoredIsHeld ==
    \A m \in Msgs : publication[m] = "stored" =>
        /\ locator[m] \in 1..Len(stream)
        /\ stream[locator[m]] = m

(* "One logical message with one canonical locator": what a late worker, a *)
(* second copy or a reconciliation answers later changes nothing.          *)
StoredForGood ==
    [][\A m \in Msgs : publication[m] = "stored" =>
          publication'[m] = "stored" /\ locator'[m] = locator[m]]_vars

(* Every accepted message is settled in the end, stored or failed, through *)
(* restarts, lost confirmations and leases that run out.                   *)
EventuallySettled ==
    \A m \in Msgs : publication[m] = "pending" ~> publication[m] \in {"stored", "failed"}
=============================================================================
