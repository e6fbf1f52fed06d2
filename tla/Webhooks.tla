------------------------------ MODULE Webhooks ------------------------------
(***************************************************************************)
(* Outgoing webhooks: webhooks.rs.  A trigger enqueues one row per         *)
(* (event, webhook) in the event's own transaction; every replica claims   *)
(* due rows, POSTs them and records the answer.  A claim holds its row by  *)
(* moving next_attempt_at 60 seconds ahead and by nothing else: the two    *)
(* UPDATEs that record an answer are addressed by row id alone.            *)
(*                                                                         *)
(* Time is one bit per row: due is "next_attempt_at <= now()".  A POST is  *)
(* cut off after 5 seconds, so a hold runs out under a live attempt only   *)
(* when the replica is stalled; that is a fault, like its death and the    *)
(* loss of a recording UPDATE, and faults are counted.                     *)
(***************************************************************************)
EXTENDS Naturals, FiniteSets

CONSTANTS Deliveries,   \* row ids, each used once
          Replicas,     \* server processes
          MAX_ATTEMPTS, \* attempts before a delivery is parked
          Batch,        \* rows one claim takes
          MaxFaults     \* bound on stalls, deaths and lost UPDATEs

ASSUME WebhooksConstants ==
    /\ MAX_ATTEMPTS \in Nat \ {0}
    /\ Batch \in Nat \ {0}
    /\ MaxFaults \in Nat
    /\ IsFiniteSet(Replicas) /\ Replicas # {}

VARIABLES hook,     \* the webhook: "none", "on", "removed"
          row,      \* Deliveries -> the delivery's row
          job,      \* Replicas -> Deliveries -> the attempt it has in flight
          taken,    \* history: deliveries the receiver answered 2xx
          refused,  \* history: deliveries the receiver answered with a final 4xx
          faults

hookVars == <<hook, row, job, taken, refused, faults>>

Statuses == {"absent", "pending", "sent", "failed", "pruned", "removed"}

Answers == {"ok", "refused", "error"}

Idle == [n |-> 0, stage |-> "idle"]

WebhooksTypeOK ==
    /\ hook \in {"none", "on", "removed"}
    /\ row \in [Deliveries -> [status : Statuses, attempts : Nat, due : BOOLEAN]]
    /\ job \in [Replicas -> [Deliveries -> [n : Nat, stage : {"idle", "post"} \cup Answers]]]
    /\ taken \subseteq Deliveries
    /\ refused \subseteq Deliveries
    /\ faults \in 0..MaxFaults

WebhooksInit ==
    /\ hook = "none"
    /\ row = [d \in Deliveries |-> [status |-> "absent", attempts |-> 0, due |-> FALSE]]
    /\ job = [r \in Replicas |-> [d \in Deliveries |-> Idle]]
    /\ taken = {}
    /\ refused = {}
    /\ faults = 0

InFlight(d) == \E r \in Replicas : job[r][d] # Idle

Fault ==
    /\ faults < MaxFaults
    /\ faults' = faults + 1

----------------------------------------------------------------------------
webhook_add ==
    /\ hook = "none"
    /\ hook' = "on"
    /\ UNCHANGED <<row, job, taken, refused, faults>>

(* The rows go with their webhook (ON DELETE CASCADE).                     *)
webhook_remove ==
    /\ hook = "on"
    /\ hook' = "removed"
    /\ row' = [d \in Deliveries |->
                 IF row[d].status \in {"pending", "sent", "failed"}
                 THEN [row[d] EXCEPT !.status = "removed"] ELSE row[d]]
    /\ UNCHANGED <<job, taken, refused, faults>>

(* A message, task, lock or note row commits and its trigger enqueues.     *)
Enqueue(d) ==
    /\ hook = "on"
    /\ row[d].status = "absent"
    /\ row' = [row EXCEPT ![d] = [status |-> "pending", attempts |-> 0, due |-> TRUE]]
    /\ UNCHANGED <<hook, job, taken, refused, faults>>

(* Mutant: the bound on attempts is in the claim.                          *)
ClaimableWithinBound ==
    {d \in Deliveries : /\ row[d].status = "pending" /\ row[d].due
                        /\ row[d].attempts < MAX_ATTEMPTS}

Claimable == {d \in Deliveries : row[d].status = "pending" /\ row[d].due}

(* A replica claims when its last batch has drained.  SKIP LOCKED: a row   *)
(* another replica is claiming is passed over, so any part of the due rows *)
(* may be the batch.                                                       *)
claim(r) ==
    \E batch \in SUBSET Claimable \ {{}} :
       /\ Cardinality(batch) <= Batch
       /\ \A d \in Deliveries : job[r][d] = Idle
       /\ row' = [d \in Deliveries |->
                    IF d \in batch
                    THEN [row[d] EXCEPT !.attempts = @ + 1, !.due = FALSE] ELSE row[d]]
       /\ job' = [job EXCEPT ![r] = [d \in Deliveries |->
                    IF d \in batch
                    THEN [n |-> row[d].attempts + 1, stage |-> "post"] ELSE Idle]]
       /\ UNCHANGED <<hook, taken, refused, faults>>

(* The POST ends: accepted, refused for good (a 4xx other than 408 and     *)
(* 429), or neither.  A receiver that accepts and whose answer is lost or  *)
(* late is an error to the replica.                                        *)
Post(r, d) ==
    /\ job[r][d].stage = "post"
    /\ \E answer \in Answers, accepted \in BOOLEAN :
          /\ (answer = "ok") => accepted
          /\ (answer = "refused") => ~accepted
          /\ job' = [job EXCEPT ![r][d].stage = answer]
          /\ taken' = IF accepted THEN taken \cup {d} ELSE taken
          /\ refused' = IF answer = "refused" THEN refused \cup {d} ELSE refused
    /\ UNCHANGED <<hook, row, faults>>

(* UPDATE ... WHERE id: no row, no effect.                                 *)
mark_sent(r, d) ==
    /\ job[r][d].stage = "ok"
    /\ row' = IF row[d].status \in {"pending", "sent", "failed"}
              THEN [row EXCEPT ![d].status = "sent"] ELSE row
    /\ job' = [job EXCEPT ![r][d] = Idle]
    /\ UNCHANGED <<hook, taken, refused, faults>>

(* The attempt's number decides, not the row's; a final answer counts as   *)
(* the last attempt.                                                       *)
Attempts(r, d) == IF job[r][d].stage = "refused" THEN MAX_ATTEMPTS ELSE job[r][d].n

(* Mutant: the limit is passed, not met.                                   *)
mark_failed_late(r, d) ==
    /\ job[r][d].stage \in {"refused", "error"}
    /\ row' = IF row[d].status \in {"pending", "sent", "failed"}
              THEN [row EXCEPT ![d].status =
                                  IF Attempts(r, d) > MAX_ATTEMPTS THEN "failed" ELSE "pending",
                               ![d].due = FALSE]
              ELSE row
    /\ job' = [job EXCEPT ![r][d] = Idle]
    /\ UNCHANGED <<hook, taken, refused, faults>>

mark_failed(r, d) ==
    /\ job[r][d].stage \in {"refused", "error"}
    /\ row' = IF row[d].status \in {"pending", "sent", "failed"}
              THEN [row EXCEPT ![d].status =
                                  IF Attempts(r, d) >= MAX_ATTEMPTS THEN "failed" ELSE "pending",
                               ![d].due = FALSE]
              ELSE row
    /\ job' = [job EXCEPT ![r][d] = Idle]
    /\ UNCHANGED <<hook, taken, refused, faults>>

(* The recording UPDATE fails: a warning, and the row keeps its hold.      *)
LoseMark(r, d) ==
    /\ Fault
    /\ job[r][d].stage \in Answers
    /\ job' = [job EXCEPT ![r][d] = Idle]
    /\ UNCHANGED <<hook, row, taken, refused>>

Crash(r) ==
    /\ Fault
    /\ \E d \in Deliveries : job[r][d] # Idle
    /\ job' = [job EXCEPT ![r] = [d \in Deliveries |-> Idle]]
    /\ UNCHANGED <<hook, row, taken, refused>>

(* The backoff, or the hold of an attempt that is over, runs out.          *)
ComesDue(d) ==
    /\ row[d].status = "pending" /\ ~row[d].due
    /\ ~InFlight(d)
    /\ row' = [row EXCEPT ![d].due = TRUE]
    /\ UNCHANGED <<hook, job, taken, refused, faults>>

(* The hold runs out under an attempt that is still in flight.             *)
Stall(d) ==
    /\ Fault
    /\ row[d].status = "pending" /\ ~row[d].due
    /\ InFlight(d)
    /\ row' = [row EXCEPT ![d].due = TRUE]
    /\ UNCHANGED <<hook, job, taken, refused>>

(* Retention: any of the settled rows may be the old ones.                *)
prune ==
    \E old \in SUBSET {d \in Deliveries : row[d].status \in {"sent", "failed"}} \ {{}} :
       /\ row' = [d \in Deliveries |->
                    IF d \in old THEN [row[d] EXCEPT !.status = "pruned"] ELSE row[d]]
       /\ UNCHANGED <<hook, job, taken, refused, faults>>

Deliver(r, d) == Post(r, d) \/ mark_sent(r, d) \/ mark_failed(r, d)

WebhooksNext ==
    \/ webhook_add
    \/ webhook_remove
    \/ prune
    \/ \E d \in Deliveries : Enqueue(d) \/ ComesDue(d) \/ Stall(d)
    \/ \E r \in Replicas : claim(r) \/ Crash(r)
    \/ \E r \in Replicas, d \in Deliveries : Deliver(r, d) \/ LoseMark(r, d)

(* The poll of every replica's loop claims what is due, the client times   *)
(* out, the spawned task records its answer, and time passes.  Nothing is  *)
(* assumed of the faults, of retention or of the operator.                 *)
WebhooksFairness ==
    /\ \A r \in Replicas : WF_hookVars(claim(r))
    /\ \A r \in Replicas, d \in Deliveries : WF_hookVars(Deliver(r, d))
    /\ \A d \in Deliveries : WF_hookVars(ComesDue(d))

WebhooksSpec == WebhooksInit /\ [][WebhooksNext]_hookVars /\ WebhooksFairness

----------------------------------------------------------------------------
Spent(d) == d \in refused \/ row[d].attempts >= MAX_ATTEMPTS

(* A delivery is recorded as sent only if the receiver took it, is parked  *)
(* only when the receiver refused it for good or every attempt was used,   *)
(* and is pruned only from one of those two: whatever replicas race over   *)
(* a row, none is dropped silently.                                        *)
NeverSilentlyDropped ==
    \A d \in Deliveries :
       /\ row[d].status = "sent" => d \in taken
       /\ row[d].status = "failed" => Spent(d)
       /\ row[d].status = "pruned" => d \in taken \/ Spent(d)

(* Retries are bounded: every claim of a delivery beyond MAX_ATTEMPTS is   *)
(* accounted for by a stalled or dead replica or a lost UPDATE, one each,  *)
(* although claim itself never looks at the count and a late mark_failed   *)
(* puts a parked or a sent row back to 'pending'.                          *)
RetriesBounded ==
    \A d \in Deliveries : row[d].attempts <= MAX_ATTEMPTS + faults

(* Every enqueued delivery is eventually sent, parked or removed with its  *)
(* webhook, however its attempts fail.                                     *)
EveryDeliverySettles ==
    \A d \in Deliveries :
       row[d].status = "pending" ~> row[d].status \in {"sent", "failed", "pruned", "removed"}
=============================================================================
