---------------------------- MODULE NotifyProofs ----------------------------
(***************************************************************************)
(* Proofs about the two ways news leave the bus, modules Webhooks and      *)
(* Wake, for any number of deliveries, replicas, processes, messages and   *)
(* faults.                                                                 *)
(***************************************************************************)
EXTENDS Webhooks, Wake, FiniteSetTheorems, TLAPS

-----------------------------------------------------------------------------
(***************************************************************************)
(* Webhooks.                                                               *)
(***************************************************************************)
LowFlight(d) == \E r \in Replicas : job[r][d] # Idle /\ job[r][d].n < MAX_ATTEMPTS

ClaimableNow(d) == row[d].status = "pending" /\ row[d].due
FallsDue(d) == row[d].status = "pending" /\ ~row[d].due /\ ~InFlight(d)

Bit(b) == IF b THEN 1 ELSE 0

(* The claims of a delivery that are still to come without another fault,  *)
(* once every attempt was used: the one its row is due for, and one more   *)
(* if it comes due later.  It can only when nothing is in flight and the   *)
(* last answer was recorded under a number below the limit.                *)
StillToCome(d) == Bit(ClaimableNow(d)) + Bit(LowFlight(d)) + Bit(FallsDue(d))

(* An attempt has the number of a claim that was made and the answer of a  *)
(* POST that was.                                                          *)
JobInv(r, d) ==
    /\ job[r][d].n <= row[d].attempts
    /\ job[r][d].stage = "idle" => job[r][d] = Idle
    /\ job[r][d].stage = "ok" => d \in taken
    /\ job[r][d].stage = "refused" => d \in refused
    /\ row[d].status = "absent" => job[r][d] = Idle

(* A row is due under an attempt in flight only after a stall.             *)
RowInv(d) ==
    /\ ClaimableNow(d) /\ InFlight(d) => faults >= 1
    /\ row[d].attempts >= MAX_ATTEMPTS =>
          row[d].attempts + StillToCome(d) <= MAX_ATTEMPTS + faults

KeptInv(d) ==
    /\ row[d].status = "sent" => d \in taken
    /\ row[d].status = "failed" => Spent(d)
    /\ row[d].status = "pruned" => d \in taken \/ Spent(d)

DeliveryInv(d) ==
    /\ \A r \in Replicas : JobInv(r, d)
    /\ RowInv(d)
    /\ KeptInv(d)

WebhooksInv ==
    /\ WebhooksTypeOK
    /\ \A d \in Deliveries : DeliveryInv(d)

LEMMA WebhooksInitially == WebhooksInit => WebhooksInv
<1> SUFFICES ASSUME WebhooksInit PROVE WebhooksInv
  OBVIOUS
<1>1. WebhooksTypeOK
  BY WebhooksConstants DEF WebhooksInit, WebhooksTypeOK, Statuses, Answers, Idle
<1>2. ASSUME NEW d \in Deliveries PROVE DeliveryInv(d)
  <2>1. \A r \in Replicas : JobInv(r, d)
    BY DEF WebhooksInit, JobInv, Idle
  <2>2. RowInv(d) /\ KeptInv(d)
    BY WebhooksConstants DEF WebhooksInit, RowInv, KeptInv, ClaimableNow
  <2>3. QED
    BY <2>1, <2>2 DEF DeliveryInv
<1>3. QED
  BY <1>1, <1>2 DEF WebhooksInv

(* A delivery that a step leaves alone keeps its part of the invariant:    *)
(* faults and the receiver's answers only accumulate.                      *)
LEMMA UntouchedDelivery ==
    ASSUME WebhooksInv, WebhooksTypeOK', NEW d \in Deliveries,
           row'[d] = row[d], \A r \in Replicas : job'[r][d] = job[r][d],
           faults <= faults', taken \subseteq taken', refused \subseteq refused'
    PROVE  DeliveryInv(d)'
<1>1. DeliveryInv(d)
  BY DEF WebhooksInv
<1>2. \A r \in Replicas : JobInv(r, d)'
  BY <1>1 DEF DeliveryInv, JobInv
<1>3. KeptInv(d)'
  BY <1>1 DEF DeliveryInv, KeptInv, Spent
<1>4. /\ InFlight(d)' <=> InFlight(d)
      /\ LowFlight(d)' <=> LowFlight(d)
  BY DEF InFlight, LowFlight
<1>5. /\ ClaimableNow(d)' <=> ClaimableNow(d)
      /\ FallsDue(d)' <=> FallsDue(d)
  BY <1>4 DEF ClaimableNow, FallsDue
<1>6. faults \in Nat /\ faults' \in Nat /\ row[d].attempts \in Nat /\ MAX_ATTEMPTS \in Nat
  BY WebhooksConstants DEF WebhooksInv, WebhooksTypeOK
<1>7. StillToCome(d)' = StillToCome(d) /\ StillToCome(d) \in Nat
  BY <1>4, <1>5 DEF StillToCome, Bit
<1>8. RowInv(d)'
  BY <1>1, <1>4, <1>5, <1>6, <1>7 DEF DeliveryInv, RowInv
<1>9. QED
  BY <1>2, <1>3, <1>8 DEF DeliveryInv

(* A step that ends attempts of a delivery, and fills none in: what is in  *)
(* flight after it was before.                                             *)
LEMMA EndedAttempts ==
    ASSUME NEW d \in Deliveries,
           \A r \in Replicas : job'[r][d] \in {job[r][d], Idle}
    PROVE  (InFlight(d)' => InFlight(d)) /\ (LowFlight(d)' => LowFlight(d))
  BY DEF InFlight, LowFlight

(* A row that is settled has only the one claim to come that an attempt    *)
(* still in flight may bring about.                                        *)
LEMMA NoMoreToCome ==
    ASSUME WebhooksInv, NEW d \in Deliveries,
           row'[d].status # "pending", row'[d].attempts = row[d].attempts,
           faults' = faults, \A r \in Replicas : job'[r][d] \in {job[r][d], Idle}
    PROVE  RowInv(d)'
<1>1. ~ClaimableNow(d)' /\ ~FallsDue(d)'
  BY DEF ClaimableNow, FallsDue
<1>2. LowFlight(d)' => LowFlight(d)
  BY EndedAttempts
<1>3. /\ StillToCome(d)' = Bit(LowFlight(d)') /\ Bit(LowFlight(d)') <= StillToCome(d)
      /\ StillToCome(d)' \in Nat /\ StillToCome(d) \in Nat
  BY <1>1, <1>2 DEF StillToCome, Bit
<1>4. faults \in Nat /\ row[d].attempts \in Nat /\ MAX_ATTEMPTS \in Nat /\ RowInv(d)
  BY WebhooksConstants DEF WebhooksInv, WebhooksTypeOK, DeliveryInv
<1>5. QED
  BY <1>1, <1>3, <1>4 DEF RowInv

LEMMA RemoveKeeps == ASSUME WebhooksInv, webhook_remove PROVE WebhooksInv'
<1>1. \A d \in Deliveries :
         row'[d] = IF row[d].status \in {"pending", "sent", "failed"}
                   THEN [row[d] EXCEPT !.status = "removed"] ELSE row[d]
  BY DEF webhook_remove
<1>2. WebhooksTypeOK'
  BY DEF webhook_remove, WebhooksInv, WebhooksTypeOK, Statuses
<1>3. ASSUME NEW d \in Deliveries PROVE DeliveryInv(d)'
  <2>1. CASE row'[d] = row[d]
    BY <1>2, <2>1, UntouchedDelivery DEF webhook_remove, WebhooksInv, WebhooksTypeOK
  <2>2. CASE row'[d] # row[d]
    <3>1. row'[d].status = "removed" /\ row'[d].attempts = row[d].attempts
      BY <1>1, <2>2 DEF WebhooksInv, WebhooksTypeOK
    <3>2. DeliveryInv(d) /\ UNCHANGED <<job, taken, refused, faults>>
      BY DEF WebhooksInv, webhook_remove
    <3>3. \A r \in Replicas : JobInv(r, d)'
      BY <3>1, <3>2 DEF DeliveryInv, JobInv
    <3>4. KeptInv(d)'
      BY <3>1 DEF KeptInv
    <3>5. RowInv(d)'
      BY <3>1, <3>2, NoMoreToCome
    <3>6. QED
      BY <3>3, <3>4, <3>5 DEF DeliveryInv
  <2>3. QED
    BY <2>1, <2>2
<1>4. QED
  BY <1>2, <1>3 DEF WebhooksInv

LEMMA PruneKeeps == ASSUME WebhooksInv, prune PROVE WebhooksInv'
<1>1. PICK old \in SUBSET {d \in Deliveries : row[d].status \in {"sent", "failed"}} :
         /\ row' = [d \in Deliveries |->
                      IF d \in old THEN [row[d] EXCEPT !.status = "pruned"] ELSE row[d]]
         /\ UNCHANGED <<hook, job, taken, refused, faults>>
  BY DEF prune
<1>2. WebhooksTypeOK'
  BY <1>1 DEF WebhooksInv, WebhooksTypeOK, Statuses
<1>3. ASSUME NEW d \in Deliveries PROVE DeliveryInv(d)'
  <2>1. CASE d \notin old
    <3>1. row'[d] = row[d] /\ faults <= faults'
      BY <1>1, <2>1 DEF WebhooksInv, WebhooksTypeOK
    <3>2. QED
      BY <1>1, <1>2, <3>1, UntouchedDelivery
  <2>2. CASE d \in old
    <3>1. row'[d].status = "pruned" /\ row'[d].attempts = row[d].attempts
      BY <1>1, <2>2 DEF WebhooksInv, WebhooksTypeOK
    <3>2. DeliveryInv(d) /\ row[d].status \in {"sent", "failed"}
      BY <2>2 DEF WebhooksInv
    <3>3. \A r \in Replicas : JobInv(r, d)'
      BY <1>1, <3>1, <3>2 DEF DeliveryInv, JobInv
    <3>4. KeptInv(d)'
      BY <1>1, <3>1, <3>2 DEF DeliveryInv, KeptInv, Spent
    <3>5. RowInv(d)'
      BY <1>1, <3>1, <3>2, NoMoreToCome
    <3>6. QED
      BY <3>3, <3>4, <3>5 DEF DeliveryInv
  <2>3. QED
    BY <2>1, <2>2
<1>4. QED
  BY <1>2, <1>3 DEF WebhooksInv

LEMMA EnqueueKeeps ==
    ASSUME WebhooksInv, NEW d \in Deliveries, Enqueue(d) PROVE WebhooksInv'
<1>1. WebhooksTypeOK'
  BY DEF Enqueue, WebhooksInv, WebhooksTypeOK, Statuses
<1>2. ASSUME NEW e \in Deliveries, e # d PROVE DeliveryInv(e)'
  <2>1. row'[e] = row[e] /\ faults <= faults' /\ UNCHANGED <<job, taken, refused>>
    BY <1>2 DEF Enqueue, WebhooksInv, WebhooksTypeOK
  <2>2. QED
    BY <1>1, <2>1, UntouchedDelivery
<1>3. DeliveryInv(d)'
  <2>1. /\ row'[d] = [status |-> "pending", attempts |-> 0, due |-> TRUE]
        /\ UNCHANGED <<job, taken, refused, faults>> /\ row[d].status = "absent"
    BY DEF Enqueue, WebhooksInv, WebhooksTypeOK
  <2>2. \A r \in Replicas : job[r][d] = Idle
    BY <2>1 DEF WebhooksInv, DeliveryInv, JobInv
  <2>3. \A r \in Replicas : JobInv(r, d)'
    BY <2>1, <2>2 DEF JobInv, Idle
  <2>4. KeptInv(d)'
    BY <2>1 DEF KeptInv
  <2>5. RowInv(d)'
    <3>1. ~InFlight(d)'
      BY <2>1, <2>2 DEF InFlight
    <3>2. ~(row'[d].attempts >= MAX_ATTEMPTS)
      BY <2>1, WebhooksConstants
    <3>3. QED
      BY <3>1, <3>2 DEF RowInv
  <2>6. QED
    BY <2>3, <2>4, <2>5 DEF DeliveryInv
<1>4. QED
  BY <1>1, <1>2, <1>3 DEF WebhooksInv

(* The hold or the backoff of a row runs out, with nothing in flight or    *)
(* with a stall to account for it.                                         *)
LEMMA DueKeeps ==
    ASSUME WebhooksInv, NEW d \in Deliveries, ComesDue(d) \/ Stall(d) PROVE WebhooksInv'
<1>0. /\ row' = [row EXCEPT ![d].due = TRUE]
      /\ UNCHANGED <<hook, job, taken, refused>>
      /\ row[d].status = "pending" /\ ~row[d].due
      /\ \/ ~InFlight(d) /\ faults' = faults
         \/ InFlight(d) /\ faults < MaxFaults /\ faults' = faults + 1
  BY DEF ComesDue, Stall, Fault
<1>1. WebhooksTypeOK' /\ faults <= faults'
  <2>1. row' \in [Deliveries -> [status : Statuses, attempts : Nat, due : BOOLEAN]]
    BY <1>0 DEF WebhooksInv, WebhooksTypeOK
  <2>2. faults' \in 0..MaxFaults /\ faults <= faults'
    BY <1>0, WebhooksConstants DEF WebhooksInv, WebhooksTypeOK
  <2>3. QED
    BY <1>0, <2>1, <2>2 DEF WebhooksInv, WebhooksTypeOK
<1>2. ASSUME NEW e \in Deliveries, e # d PROVE DeliveryInv(e)'
  <2>1. row'[e] = row[e] /\ UNCHANGED <<job, taken, refused>>
    BY <1>0, <1>2 DEF WebhooksInv, WebhooksTypeOK
  <2>2. QED
    BY <1>1, <2>1, UntouchedDelivery
<1>3. DeliveryInv(d)'
  <2>1. /\ row'[d].status = row[d].status /\ row'[d].attempts = row[d].attempts
        /\ row'[d].due
        /\ faults \in Nat /\ row[d].attempts \in Nat /\ MAX_ATTEMPTS \in Nat
    BY <1>0, WebhooksConstants DEF WebhooksInv, WebhooksTypeOK
  <2>2. faults' = faults + Bit(InFlight(d))
    BY <1>0, <2>1 DEF Bit
  <2>3. DeliveryInv(d)
    BY DEF WebhooksInv
  <2>4. \A r \in Replicas : JobInv(r, d)'
    BY <1>0, <2>1, <2>3 DEF DeliveryInv, JobInv
  <2>5. KeptInv(d)'
    BY <1>0, <2>1 DEF KeptInv
  <2>6. (InFlight(d)' <=> InFlight(d)) /\ (LowFlight(d)' <=> LowFlight(d))
    BY <1>0 DEF InFlight, LowFlight
  <2>7. /\ ~ClaimableNow(d) /\ ClaimableNow(d)' /\ ~FallsDue(d)'
        /\ FallsDue(d) <=> ~InFlight(d)
    BY <1>0, <2>1, <2>6 DEF ClaimableNow, FallsDue
  <2>8. faults' = faults + Bit(InFlight(d)) /\ StillToCome(d)' = StillToCome(d) + Bit(InFlight(d))
    BY <2>2, <2>6, <2>7 DEF StillToCome, Bit
  <2>9. RowInv(d)'
    <3>1. InFlight(d)' => faults' >= 1
      BY <2>1, <2>6, <2>8 DEF Bit
    <3>2. Bit(InFlight(d)) \in Nat /\ StillToCome(d) \in Nat
      BY DEF Bit, StillToCome
    <3>3. QED
      BY <2>1, <2>3, <2>8, <3>1, <3>2 DEF RowInv, DeliveryInv
  <2>10. QED
    BY <2>4, <2>5, <2>9 DEF DeliveryInv
<1>4. QED
  BY <1>1, <1>2, <1>3 DEF WebhooksInv

LEMMA ClaimKeeps == ASSUME WebhooksInv, NEW q \in Replicas, claim(q) PROVE WebhooksInv'
<1> DEFINE Held(d) == [row[d] EXCEPT !.attempts = @ + 1, !.due = FALSE]
           Attempt(d) == [n |-> row[d].attempts + 1, stage |-> "post"]
           RowType == [status : Statuses, attempts : Nat, due : BOOLEAN]
           JobType == [n : Nat, stage : {"idle", "post"} \cup Answers]
<1>1. PICK batch \in SUBSET Claimable :
         /\ \A d \in Deliveries : job[q][d] = Idle
         /\ row' = [d \in Deliveries |-> IF d \in batch THEN Held(d) ELSE row[d]]
         /\ job' = [job EXCEPT ![q] = [d \in Deliveries |->
                      IF d \in batch THEN Attempt(d) ELSE Idle]]
         /\ UNCHANGED <<hook, taken, refused, faults>>
  BY DEF claim
<1>A. /\ row \in [Deliveries -> RowType] /\ job \in [Replicas -> [Deliveries -> JobType]]
      /\ Idle \in JobType
  BY DEF WebhooksInv, WebhooksTypeOK, Idle
<1>B. ASSUME NEW d \in Deliveries
      PROVE  /\ Held(d) \in RowType /\ Attempt(d) \in JobType
             /\ Held(d).status = row[d].status /\ Held(d).attempts = row[d].attempts + 1
             /\ ~Held(d).due
  <2>1. Held(d) \in RowType
    <3>1. [row[d] EXCEPT !.attempts = @ + 1] \in RowType
      BY <1>A
    <3>2. PICK y \in RowType : y = [row[d] EXCEPT !.attempts = @ + 1]
      BY <3>1
    <3>3. [y EXCEPT !.due = FALSE] \in RowType
      BY <3>2
    <3>4. QED
      BY <3>2, <3>3
  <2>2. Attempt(d) \in JobType
    BY DEF WebhooksInv, WebhooksTypeOK
  <2>3. Held(d).status = row[d].status /\ Held(d).attempts = row[d].attempts + 1 /\ ~Held(d).due
    BY DEF WebhooksInv, WebhooksTypeOK
  <2>4. QED
    BY <2>1, <2>2, <2>3
<1> HIDE DEF Held, Attempt, RowType, JobType
<1>2. WebhooksTypeOK'
  <2>1. row' \in [Deliveries -> RowType] /\ job' \in [Replicas -> [Deliveries -> JobType]]
    BY <1>1, <1>A, <1>B
  <2>2. QED
    BY <1>1, <2>1 DEF WebhooksInv, WebhooksTypeOK, RowType, JobType
<1>3. ASSUME NEW d \in Deliveries PROVE DeliveryInv(d)'
  <2>0. /\ \A r \in Replicas : r # q => job'[r][d] = job[r][d]
        /\ d \notin batch => row'[d] = row[d] /\ job'[q][d] = job[q][d]
        /\ faults <= faults' /\ UNCHANGED <<taken, refused, faults>>
    <3>1. faults <= faults'
      BY <1>1 DEF WebhooksInv, WebhooksTypeOK
    <3>2. QED
      BY <1>1, <1>A, <3>1
  <2>1. CASE d \notin batch
    BY <1>2, <2>0, <2>1, UntouchedDelivery
  <2>2. CASE d \in batch
    <3>1. /\ row[d].status = "pending" /\ row[d].due /\ DeliveryInv(d)
          /\ row[d].attempts \in Nat /\ faults \in Nat /\ MAX_ATTEMPTS \in Nat
      BY <2>2, WebhooksConstants DEF Claimable, WebhooksInv, WebhooksTypeOK
    <3>2. /\ row'[d].status = "pending" /\ row'[d].attempts = row[d].attempts + 1
          /\ ~row'[d].due /\ job'[q][d] = [n |-> row[d].attempts + 1, stage |-> "post"]
      BY <1>1, <1>A, <1>B, <2>2, <3>1 DEF Attempt
    <3>3. ASSUME NEW r \in Replicas PROVE JobInv(r, d)'
      <4>1. CASE r = q
        BY <3>1, <3>2, <4>1 DEF JobInv
      <4>2. CASE r # q
        <5>1. JobInv(r, d) /\ job[r][d].n \in Nat
          BY <3>1 DEF DeliveryInv, WebhooksInv, WebhooksTypeOK
        <5>2. QED
          BY <2>0, <3>1, <3>2, <4>2, <5>1 DEF JobInv
      <4>3. QED
        BY <4>1, <4>2
    <3>4. KeptInv(d)'
      BY <3>2 DEF KeptInv
    <3>5. InFlight(d)'
      BY <3>2 DEF InFlight, Idle
    <3>6. ~ClaimableNow(d)' /\ ~FallsDue(d)' /\ ClaimableNow(d)
      BY <3>1, <3>2, <3>5 DEF ClaimableNow, FallsDue
    <3>7. row'[d].attempts >= MAX_ATTEMPTS => (LowFlight(d)' => LowFlight(d) /\ InFlight(d))
      BY <2>0, <3>1, <3>2 DEF LowFlight, InFlight
    <3>8. StillToCome(d)' = Bit(LowFlight(d)') /\ StillToCome(d) >= 1 + Bit(LowFlight(d))
      BY <3>6 DEF StillToCome, Bit
    <3>9. row'[d].attempts >= MAX_ATTEMPTS =>
             row'[d].attempts + StillToCome(d)' <= MAX_ATTEMPTS + faults'
      <4>1. /\ Bit(LowFlight(d)) \in Nat /\ Bit(LowFlight(d)') \in Nat /\ StillToCome(d) \in Nat
            /\ row'[d].attempts >= MAX_ATTEMPTS => Bit(LowFlight(d)') <= Bit(LowFlight(d))
            /\ LowFlight(d)' => Bit(LowFlight(d)') = 1
            /\ ~LowFlight(d)' => Bit(LowFlight(d)') = 0
        BY <3>7 DEF Bit, StillToCome
      <4>2. CASE row[d].attempts >= MAX_ATTEMPTS
        BY <2>0, <3>1, <3>2, <3>8, <4>1, <4>2 DEF DeliveryInv, RowInv
      <4>3. CASE ~(row[d].attempts >= MAX_ATTEMPTS)
        <5>1. LowFlight(d)' /\ row'[d].attempts >= MAX_ATTEMPTS => faults >= 1
          BY <3>1, <3>6, <3>7 DEF DeliveryInv, RowInv
        <5>2. QED
          BY <2>0, <3>1, <3>2, <3>8, <4>1, <4>3, <5>1
      <4>4. QED
        BY <4>2, <4>3
    <3>10. QED
      BY <3>3, <3>4, <3>6, <3>9 DEF DeliveryInv, RowInv
  <2>3. QED
    BY <2>1, <2>2
<1>4. QED
  BY <1>2, <1>3 DEF WebhooksInv

LEMMA PostKeeps ==
    ASSUME WebhooksInv, NEW q \in Replicas, NEW d \in Deliveries, Post(q, d) PROVE WebhooksInv'
<1>1. PICK answer \in Answers :
         /\ job' = [job EXCEPT ![q][d].stage = answer]
         /\ answer = "ok" => d \in taken'
         /\ answer = "refused" => d \in refused'
  BY DEF Post
<1>2. /\ job[q][d].stage = "post" /\ UNCHANGED <<hook, row, faults>>
      /\ taken' \in {taken, taken \cup {d}} /\ refused' \in {refused, refused \cup {d}}
  BY DEF Post
<1>3. WebhooksTypeOK'
  <2>1. job' \in [Replicas -> [Deliveries -> [n : Nat, stage : {"idle", "post"} \cup Answers]]]
    <3>1. job \in [Replicas -> [Deliveries -> [n : Nat, stage : {"idle", "post"} \cup Answers]]]
      BY DEF WebhooksInv, WebhooksTypeOK
    <3>2. [job[q][d] EXCEPT !.stage = answer] \in [n : Nat, stage : {"idle", "post"} \cup Answers]
      BY <3>1
    <3>3. QED
      BY <1>1, <3>1, <3>2
  <2>2. QED
    BY <1>2, <2>1 DEF WebhooksInv, WebhooksTypeOK
<1>4. faults <= faults' /\ taken \subseteq taken' /\ refused \subseteq refused'
  BY <1>2 DEF WebhooksInv, WebhooksTypeOK
<1>5. ASSUME NEW e \in Deliveries, e # d PROVE DeliveryInv(e)'
  <2>1. \A r \in Replicas : job'[r][e] = job[r][e]
    BY <1>1, <1>5 DEF WebhooksInv, WebhooksTypeOK
  <2>2. QED
    BY <1>2, <1>3, <1>4, <2>1, UntouchedDelivery
<1>6. DeliveryInv(d)'
  <2>1. /\ \A r \in Replicas : r # q => job'[r][d] = job[r][d]
        /\ job'[q][d].n = job[q][d].n /\ job'[q][d].stage = answer
    BY <1>1 DEF WebhooksInv, WebhooksTypeOK
  <2>2. DeliveryInv(d) /\ JobInv(q, d)
    BY DEF WebhooksInv, DeliveryInv
  <2>3. job[q][d] # Idle /\ job'[q][d] # Idle /\ answer # "idle"
    BY <1>1, <1>2, <2>1 DEF Idle, Answers
  <2>4. row[d].status # "absent"
    BY <2>2, <2>3 DEF JobInv
  <2>5. \A r \in Replicas : JobInv(r, d)'
    BY <1>1, <1>2, <1>4, <2>1, <2>2, <2>3, <2>4 DEF DeliveryInv, JobInv
  <2>6. KeptInv(d)'
    BY <1>2, <1>4, <2>2 DEF DeliveryInv, KeptInv, Spent
  <2>7. (InFlight(d)' <=> InFlight(d)) /\ (LowFlight(d)' <=> LowFlight(d))
    BY <2>1, <2>3 DEF InFlight, LowFlight
  <2>8. RowInv(d)'
    BY <1>2, <2>2, <2>7 DEF DeliveryInv, RowInv, StillToCome, Bit, ClaimableNow, FallsDue
  <2>9. QED
    BY <2>5, <2>6, <2>8 DEF DeliveryInv
<1>7. QED
  BY <1>3, <1>5, <1>6 DEF WebhooksInv

(* An attempt whose end is not recorded costs a fault, and may leave the   *)
(* row to come due once more.                                              *)
LEMMA UnrecordedKeeps ==
    ASSUME WebhooksInv, UNCHANGED <<hook, row, taken, refused>>, Fault,
           job' \in [Replicas -> [Deliveries -> [n : Nat, stage : {"idle", "post"} \cup Answers]]],
           \A r \in Replicas, d \in Deliveries : job'[r][d] \in {job[r][d], Idle}
    PROVE  WebhooksInv'
<1>1. WebhooksTypeOK' /\ faults \in Nat /\ faults' = faults + 1 /\ MAX_ATTEMPTS \in Nat
  BY WebhooksConstants DEF Fault, WebhooksInv, WebhooksTypeOK
<1>2. ASSUME NEW d \in Deliveries PROVE DeliveryInv(d)'
  <2>1. DeliveryInv(d) /\ row[d].attempts \in Nat
    BY DEF WebhooksInv, WebhooksTypeOK
  <2>2. ASSUME NEW r \in Replicas PROVE JobInv(r, d)'
    <3>1. JobInv(r, d) /\ row' = row /\ taken' = taken /\ refused' = refused
      BY <2>1 DEF DeliveryInv
    <3>2. CASE job'[r][d] = job[r][d]
      BY <3>1, <3>2 DEF JobInv
    <3>3. CASE job'[r][d] = Idle
      BY <2>1, <3>1, <3>3 DEF JobInv, Idle
    <3>4. QED
      BY <3>2, <3>3
  <2>3. KeptInv(d)'
    BY <2>1 DEF DeliveryInv, KeptInv, Spent
  <2>4. (InFlight(d)' => InFlight(d)) /\ (LowFlight(d)' => LowFlight(d))
    BY EndedAttempts
  <2>5. /\ ClaimableNow(d)' <=> ClaimableNow(d)
        /\ ClaimableNow(d) => ~FallsDue(d)' /\ ~FallsDue(d)
    BY DEF ClaimableNow, FallsDue
  <2>6. /\ StillToCome(d)' <= StillToCome(d) + 1
        /\ StillToCome(d)' \in Nat /\ StillToCome(d) \in Nat
    BY <2>4, <2>5 DEF StillToCome, Bit
  <2>7. RowInv(d)'
    BY <1>1, <2>1, <2>4, <2>5, <2>6 DEF DeliveryInv, RowInv
  <2>8. QED
    BY <2>2, <2>3, <2>7 DEF DeliveryInv
<1>3. QED
  BY <1>1, <1>2 DEF WebhooksInv

LEMMA LoseMarkKeeps ==
    ASSUME WebhooksInv, NEW q \in Replicas, NEW d \in Deliveries, LoseMark(q, d)
    PROVE  WebhooksInv'
<1>1. job \in [Replicas -> [Deliveries -> [n : Nat, stage : {"idle", "post"} \cup Answers]]]
  BY DEF WebhooksInv, WebhooksTypeOK
<1>2. /\ job' \in [Replicas -> [Deliveries -> [n : Nat, stage : {"idle", "post"} \cup Answers]]]
      /\ \A r \in Replicas, e \in Deliveries : job'[r][e] \in {job[r][e], Idle}
  BY <1>1 DEF LoseMark, Idle
<1>3. QED
  BY <1>2, UnrecordedKeeps DEF LoseMark

LEMMA CrashKeeps == ASSUME WebhooksInv, NEW q \in Replicas, Crash(q) PROVE WebhooksInv'
<1>1. job \in [Replicas -> [Deliveries -> [n : Nat, stage : {"idle", "post"} \cup Answers]]]
  BY DEF WebhooksInv, WebhooksTypeOK
<1>2. /\ job' \in [Replicas -> [Deliveries -> [n : Nat, stage : {"idle", "post"} \cup Answers]]]
      /\ \A r \in Replicas, e \in Deliveries : job'[r][e] \in {job[r][e], Idle}
  BY <1>1 DEF Crash, Idle
<1>3. QED
  BY <1>2, UnrecordedKeeps DEF Crash

(* The answer of an attempt is recorded: the attempt is over, and the row  *)
(* is the answer's unless it is gone.                                      *)
LEMMA RecordedKeeps ==
    ASSUME WebhooksInv, NEW q \in Replicas, NEW d \in Deliveries,
           job' = [job EXCEPT ![q][d] = Idle], job[q][d] # Idle,
           UNCHANGED <<hook, taken, refused, faults>>,
           row' \in [Deliveries -> [status : Statuses, attempts : Nat, due : BOOLEAN]],
           \A e \in Deliveries : e # d => row'[e] = row[e],
           row'[d].attempts = row[d].attempts,
           \/ row[d].status \notin {"pending", "sent", "failed"} /\ row'[d] = row[d]
           \/ row'[d].status = "sent" /\ d \in taken
           \/ row'[d].status = "failed" /\ Spent(d)
           \/ row'[d].status = "pending" /\ ~row'[d].due /\ job[q][d].n < MAX_ATTEMPTS
    PROVE  WebhooksInv'
<1>1. /\ job \in [Replicas -> [Deliveries -> [n : Nat, stage : {"idle", "post"} \cup Answers]]]
      /\ row \in [Deliveries -> [status : Statuses, attempts : Nat, due : BOOLEAN]]
      /\ faults \in Nat /\ MAX_ATTEMPTS \in Nat /\ DeliveryInv(d)
  BY WebhooksConstants DEF WebhooksInv, WebhooksTypeOK
<1>2. WebhooksTypeOK'
  <2>1. job' \in [Replicas -> [Deliveries -> [n : Nat, stage : {"idle", "post"} \cup Answers]]]
    <3>1. Idle \in [n : Nat, stage : {"idle", "post"} \cup Answers]
      BY DEF Idle
    <3>2. QED
      BY <1>1, <3>1
  <2>2. QED
    BY <2>1 DEF WebhooksInv, WebhooksTypeOK
<1>3. ASSUME NEW e \in Deliveries, e # d PROVE DeliveryInv(e)'
  <2>1. /\ row'[e] = row[e] /\ faults <= faults'
        /\ \A r \in Replicas : job'[r][e] = job[r][e]
    BY <1>1, <1>3
  <2>2. QED
    BY <1>2, <2>1, UntouchedDelivery
<1>4. /\ \A r \in Replicas : job'[r][d] = IF r = q THEN Idle ELSE job[r][d]
      /\ row[d].attempts \in Nat
  BY <1>1
<1>5. ASSUME NEW r \in Replicas PROVE JobInv(r, d)'
  <2>1. JobInv(r, d) /\ JobInv(q, d)
    BY <1>1 DEF DeliveryInv
  <2>2. row[d].status # "absent" /\ row'[d].status # "absent"
    BY <1>4, <2>1 DEF JobInv
  <2>3. QED
    BY <1>4, <2>1, <2>2 DEF JobInv, Idle
<1>6. KeptInv(d)'
  BY <1>1, <1>4 DEF DeliveryInv, KeptInv, Spent
<1>7. RowInv(d)'
  <2>1. CASE row'[d].status # "pending"
    BY <1>4, <2>1, NoMoreToCome
  <2>2. CASE row'[d].status = "pending"
    <3>1. LowFlight(d) /\ InFlight(d)
      BY <2>2 DEF LowFlight, InFlight
    <3>2. ~ClaimableNow(d)' /\ (FallsDue(d)' => ~InFlight(d)')
      BY <1>4, <2>2 DEF ClaimableNow, FallsDue
    <3>3. LowFlight(d)' => InFlight(d)'
      BY DEF LowFlight, InFlight
    <3>4. /\ StillToCome(d)' <= 1 /\ 1 <= StillToCome(d)
          /\ StillToCome(d)' \in Nat /\ StillToCome(d) \in Nat
      BY <3>1, <3>2, <3>3 DEF StillToCome, Bit
    <3>5. QED
      BY <1>1, <1>4, <3>2, <3>4 DEF DeliveryInv, RowInv
  <2>3. QED
    BY <2>1, <2>2
<1>8. QED
  BY <1>2, <1>3, <1>5, <1>6, <1>7 DEF WebhooksInv, DeliveryInv

LEMMA MarkSentKeeps ==
    ASSUME WebhooksInv, NEW q \in Replicas, NEW d \in Deliveries, mark_sent(q, d)
    PROVE  WebhooksInv'
<1>1. /\ row \in [Deliveries -> [status : Statuses, attempts : Nat, due : BOOLEAN]]
      /\ JobInv(q, d)
  BY DEF WebhooksInv, WebhooksTypeOK, DeliveryInv
<1>2. /\ job' = [job EXCEPT ![q][d] = Idle] /\ UNCHANGED <<hook, taken, refused, faults>>
      /\ job[q][d] # Idle /\ d \in taken
  BY <1>1 DEF mark_sent, JobInv, Idle
<1>3. CASE row[d].status \in {"pending", "sent", "failed"}
  <2>1. row' = [row EXCEPT ![d].status = "sent"]
    BY <1>3 DEF mark_sent
  <2>2. /\ row' \in [Deliveries -> [status : Statuses, attempts : Nat, due : BOOLEAN]]
        /\ \A e \in Deliveries : e # d => row'[e] = row[e]
        /\ row'[d].attempts = row[d].attempts /\ row'[d].status = "sent"
    BY <1>1, <2>1 DEF Statuses
  <2>3. QED
    BY <1>2, <2>2, RecordedKeeps
<1>4. CASE row[d].status \notin {"pending", "sent", "failed"}
  <2>1. row' = row
    BY <1>4 DEF mark_sent
  <2>2. QED
    BY <1>1, <1>2, <1>4, <2>1, RecordedKeeps
<1>5. QED
  BY <1>3, <1>4

LEMMA MarkFailedKeeps ==
    ASSUME WebhooksInv, NEW q \in Replicas, NEW d \in Deliveries, mark_failed(q, d)
    PROVE  WebhooksInv'
<1>1. /\ row \in [Deliveries -> [status : Statuses, attempts : Nat, due : BOOLEAN]]
      /\ job \in [Replicas -> [Deliveries -> [n : Nat, stage : {"idle", "post"} \cup Answers]]]
      /\ JobInv(q, d) /\ MAX_ATTEMPTS \in Nat
  BY WebhooksConstants DEF WebhooksInv, WebhooksTypeOK, DeliveryInv
<1>2. /\ job' = [job EXCEPT ![q][d] = Idle] /\ UNCHANGED <<hook, taken, refused, faults>>
      /\ job[q][d] # Idle
  BY <1>1 DEF mark_failed, Idle
<1>3. CASE row[d].status \in {"pending", "sent", "failed"}
  <2>1. PICK status \in {"pending", "failed"} :
           /\ row' = [row EXCEPT ![d].status = status, ![d].due = FALSE]
           /\ status = "failed" <=> Attempts(q, d) >= MAX_ATTEMPTS
    BY <1>3 DEF mark_failed
  <2>2. /\ row' \in [Deliveries -> [status : Statuses, attempts : Nat, due : BOOLEAN]]
        /\ \A e \in Deliveries : e # d => row'[e] = row[e]
        /\ row'[d].attempts = row[d].attempts /\ row'[d].status = status /\ ~row'[d].due
    BY <1>1, <2>1 DEF Statuses
  <2>3. /\ Attempts(q, d) >= MAX_ATTEMPTS => Spent(d)
        /\ ~(Attempts(q, d) >= MAX_ATTEMPTS) => job[q][d].n < MAX_ATTEMPTS
    BY <1>1 DEF Attempts, JobInv, Spent
  <2>4. QED
    BY <1>2, <2>1, <2>2, <2>3, RecordedKeeps
<1>4. CASE row[d].status \notin {"pending", "sent", "failed"}
  <2>1. row' = row
    BY <1>4 DEF mark_failed
  <2>2. QED
    BY <1>1, <1>2, <1>4, <2>1, RecordedKeeps
<1>5. QED
  BY <1>3, <1>4

LEMMA WebhooksStep == WebhooksInv /\ [WebhooksNext]_hookVars => WebhooksInv'
<1> SUFFICES ASSUME WebhooksInv, [WebhooksNext]_hookVars PROVE WebhooksInv'
  OBVIOUS
<1>1. CASE UNCHANGED hookVars
  BY <1>1, ZenonT(30) DEF hookVars, WebhooksInv, WebhooksTypeOK, DeliveryInv, JobInv, RowInv, KeptInv, Spent,
              InFlight, StillToCome, ClaimableNow, FallsDue, LowFlight
<1>2. CASE webhook_add
  BY <1>2, ZenonT(30) DEF webhook_add, WebhooksInv, WebhooksTypeOK, DeliveryInv, JobInv, RowInv, KeptInv, Spent,
              InFlight, StillToCome, ClaimableNow, FallsDue, LowFlight
<1>3. CASE webhook_remove
  BY <1>3, RemoveKeeps
<1>4. CASE prune
  BY <1>4, PruneKeeps
<1>5. CASE \E d \in Deliveries : Enqueue(d) \/ ComesDue(d) \/ Stall(d)
  BY <1>5, EnqueueKeeps, DueKeeps
<1>6. CASE \E r \in Replicas : claim(r) \/ Crash(r)
  BY <1>6, ClaimKeeps, CrashKeeps
<1>7. CASE \E r \in Replicas, d \in Deliveries : Deliver(r, d) \/ LoseMark(r, d)
  BY <1>7, PostKeeps, MarkSentKeeps, MarkFailedKeeps, LoseMarkKeeps DEF Deliver
<1>8. QED
  BY <1>1, <1>2, <1>3, <1>4, <1>5, <1>6, <1>7 DEF WebhooksNext

(* The inductive invariant, for any deliveries, replicas and faults.       *)
THEOREM WebhooksInvariant == WebhooksSpec => []WebhooksInv
  BY WebhooksInitially, WebhooksStep, PTL DEF WebhooksSpec

(* No delivery is dropped silently: one recorded as sent was taken by the  *)
(* receiver, one that is parked was refused for good or used every         *)
(* attempt, and one that is pruned was one or the other, whatever replicas *)
(* race over a row that mark_sent and mark_failed address by id alone.     *)
THEOREM NoDeliveryIsDropped == WebhooksSpec => []NeverSilentlyDropped
<1>1. WebhooksInv => NeverSilentlyDropped
  BY DEF WebhooksInv, DeliveryInv, KeptInv, NeverSilentlyDropped
<1>2. QED
  BY <1>1, WebhooksInvariant, PTL

(* claim never looks at the count and a late mark_failed revives a settled *)
(* row, and still every attempt beyond MAX_ATTEMPTS is paid for by a       *)
(* stall, a crash or a lost UPDATE.                                        *)
THEOREM RetriesAreBounded == WebhooksSpec => []RetriesBounded
<1>1. WebhooksInv => RetriesBounded
  <2> SUFFICES ASSUME WebhooksInv, NEW d \in Deliveries
               PROVE  row[d].attempts <= MAX_ATTEMPTS + faults
    BY DEF RetriesBounded
  <2>1. /\ row[d].attempts \in Nat /\ MAX_ATTEMPTS \in Nat /\ faults \in Nat
        /\ RowInv(d)
    BY WebhooksConstants DEF WebhooksInv, WebhooksTypeOK, DeliveryInv
  <2>2. StillToCome(d) \in Nat
    BY DEF StillToCome, Bit
  <2>3. QED
    BY <2>1, <2>2 DEF RowInv
<1>2. QED
  BY <1>1, WebhooksInvariant, PTL

-----------------------------------------------------------------------------
(***************************************************************************)
(* Wake.                                                                   *)
(***************************************************************************)
Marks == {m \in [newest : Nat, inbox : Int, primed : BOOLEAN] : m.primed \/ m.newest = 0}

Looking == {"check", "newest", "settle", "settled"} \cup Delivering

Places == {"off", "announce", "release", "withdraw", "wake", "free", "done"} \cup Looking

ProcRows == [pc : Places, seen : Marks, direct : BOOLEAN, news : SUBSET Int,
             woke : BOOLEAN, tries : Nat]

Files == [owner : Procs \cup {Nobody}, alive : BOOLEAN, mark : Marks]

WakeTyped ==
  /\ host \in {"claude", "codex"}
  /\ mail \in [posted : Nat, read : Nat, sent : Nat, taken : Nat]
  /\ file \in Files
  /\ proc \in [Procs -> ProcRows]
  /\ wakes \in [Direct -> Nat]
  /\ doubled \in Nat

(* An adapter that runs will come to any message newer than its mark.      *)
Hunts(p) == host = "codex" /\ proc[p].pc \in Looking

Carries(p, d) == d \in proc[p].news \/ (Hunts(p) /\ d > proc[p].seen.newest)

Carriers(d) == {p \in Procs : Carries(p, d)}

(* A message newer than the saved mark, which the next process to take the *)
(* window finds there; a running adapter carries it itself.                *)
LeftInFile(d) ==
  d > file.mark.newest /\ ~(file.owner \in Procs /\ Hunts(file.owner))

(* The turns a message was the news of, and those it may yet be.           *)
WokenInv(d) ==
  wakes[d] + Cardinality(Carriers(d)) + Bit(LeftInFile(d)) <= 1 + doubled

(* What a process holds at each place: news only of messages its mark      *)
(* covers, and only from the reading to the turn.                          *)
ProcInv(p) ==
  /\ proc[p].pc \in {"settle", "settled"} \cup Delivering =>
        \A d \in proc[p].news : d <= proc[p].seen.newest
  /\ proc[p].pc \in {"off", "announce", "check", "newest", "free", "done"} => proc[p].news = {}
  /\ host = "codex" => /\ proc[p].pc \notin {"announce", "wake"} /\ ~proc[p].woke
                       /\ proc[p].pc \in {"release", "withdraw"} => proc[p].news = {}
  /\ host = "claude" => proc[p].pc \notin {"settle", "settled", "free"} \cup Delivering

(* The owner's mark is the saved one, except between an adapter's two      *)
(* readings, when what lies between the two is its news.                   *)
OwnerInv(p) ==
  file.owner = p =>
     /\ proc[p].pc \in {"announce", "check", "newest"} \cup Delivering =>
           proc[p].seen.newest = file.mark.newest
     /\ proc[p].pc \in {"settle", "settled"} =>
           /\ file.mark.newest <= proc[p].seen.newest
           /\ \A d \in Direct :
                 file.mark.newest < d /\ d <= proc[p].seen.newest => d \in proc[p].news

WakeInv ==
  /\ WakeTyped
  /\ \A p \in Procs : ProcInv(p) /\ OwnerInv(p)
  /\ \A d \in Direct : WokenInv(d)

(* The rows a process is left with when it begins, goes round or ends.     *)
LEMMA EndRow ==
  ASSUME NEW pc \in Places
  PROVE  LET v == [Off EXCEPT !.pc = pc]
         IN  v \in ProcRows /\ v.pc = pc /\ v.news = {} /\ ~v.woke
<1>1. NoMark \in Marks
  BY DEF NoMark, Marks
<1>2. QED
  BY <1>1 DEF Off, ProcRows

LEMMA LoopRow ==
  ASSUME NEW pc \in Places, NEW seen \in Marks
  PROVE  LET v == [Off EXCEPT !.pc = pc, !.seen = seen]
         IN  v \in ProcRows /\ v.pc = pc /\ v.seen = seen /\ v.news = {} /\ ~v.woke
  BY DEF Off, ProcRows

LEMMA WakeRow ==
  ASSUME NEW pc \in Places, NEW news \in SUBSET Int
  PROVE  LET v == [Off EXCEPT !.pc = pc, !.woke = TRUE, !.news = news]
         IN  v \in ProcRows /\ v.pc = pc /\ v.news = news
<1>1. NoMark \in Marks
  BY DEF NoMark, Marks
<1>2. QED
  BY <1>1 DEF Off, ProcRows

LEMMA MarksTyped ==
  ASSUME WakeInv
  PROVE  /\ file.mark \in Marks /\ file.mark.newest \in Nat
         /\ \A p \in Procs : proc[p].seen \in Marks /\ proc[p].seen.newest \in Nat
<1>1. \A m \in Marks : m.newest \in Nat
  BY DEF Marks
<1>2. file.mark \in Marks /\ \A p \in Procs : proc[p].seen \in Marks
  BY DEF WakeInv, WakeTyped, Files, ProcRows
<1>3. QED
  BY <1>1, <1>2

LEMMA WakeInitially == WakeInit => WakeInv
<1> SUFFICES ASSUME WakeInit PROVE WakeInv
  OBVIOUS
<1>1. NoMark \in Marks /\ NoMark.newest = 0
  BY DEF NoMark, Marks
<1>2. Off \in ProcRows /\ Off.pc = "off" /\ Off.news = {} /\ ~Off.woke
  BY <1>1 DEF Off, ProcRows, Places
<1>3. WakeTyped
  BY <1>1, <1>2 DEF WakeInit, WakeTyped, Files
<1>4. \A p \in Procs : ProcInv(p) /\ OwnerInv(p)
  BY <1>2, WakeConstants DEF WakeInit, ProcInv, OwnerInv, Delivering
<1>5. ASSUME NEW d \in Direct PROVE WokenInv(d)
  <2>1. Carriers(d) = {}
    BY <1>2 DEF WakeInit, Carriers, Carries, Hunts, Looking, Delivering
  <2>2. Cardinality(Carriers(d)) = 0
    BY <2>1, FS_EmptySet
  <2>3. QED
    BY <2>2 DEF WokenInv, WakeInit, Bit
<1>6. QED
  BY <1>3, <1>4, <1>5 DEF WakeInv

(* A step of one process can change only its own place among the carriers  *)
(* of a message.                                                           *)
LEMMA OthersCarryOn ==
  ASSUME NEW p \in Procs, NEW d \in Direct, host' = host,
         \A q \in Procs : q # p => proc'[q] = proc[q]
  PROVE  \E k \in Nat : /\ Cardinality(Carriers(d)) = k + Bit(Carries(p, d))
                        /\ Cardinality(Carriers(d)') = k + Bit(Carries(p, d)')
<1> DEFINE others == Carriers(d) \ {p}
<1>1. IsFiniteSet(Carriers(d)) /\ IsFiniteSet(Carriers(d)')
  BY FS_Subset, WakeConstants DEF Carriers
<1>2. Carriers(d)' \ {p} = others
  BY DEF Carriers, Carries, Hunts
<1>3. /\ p \in Carriers(d) <=> Carries(p, d)
      /\ p \in Carriers(d)' <=> Carries(p, d)'
  BY DEF Carriers
<1>4. /\ Cardinality(others) = IF Carries(p, d) THEN Cardinality(Carriers(d)) - 1
                               ELSE Cardinality(Carriers(d))
      /\ Cardinality(others) \in Nat /\ Cardinality(Carriers(d)) \in Nat
  BY <1>1, <1>3, FS_RemoveElement, FS_CardinalityType
<1>5. /\ Cardinality(others) = IF Carries(p, d)' THEN Cardinality(Carriers(d)') - 1
                               ELSE Cardinality(Carriers(d)')
      /\ Cardinality(Carriers(d)') \in Nat
  BY <1>1, <1>2, <1>3, FS_RemoveElement, FS_CardinalityType
<1>6. /\ Cardinality(Carriers(d)) = Cardinality(others) + Bit(Carries(p, d))
      /\ Cardinality(Carriers(d)') = Cardinality(others) + Bit(Carries(p, d)')
  BY <1>4, <1>5 DEF Bit
<1>7. QED
  BY <1>4, <1>6

(* So a step of one process keeps the invariant when it is in order itself *)
(* and what it takes off one side of the account it puts on the other.     *)
Balanced(p, d) ==
  wakes'[d] + Bit(Carries(p, d)') + Bit(LeftInFile(d)') + doubled
     <= wakes[d] + Bit(Carries(p, d)) + Bit(LeftInFile(d)) + doubled'

LEMMA ProcessKeeps ==
  ASSUME WakeInv, WakeTyped', NEW p \in Procs, host' = host,
         \A q \in Procs : q # p => proc'[q] = proc[q],
         file'.owner # p => file'.owner = file.owner /\ file'.mark = file.mark,
         ProcInv(p)', OwnerInv(p)',
         \A d \in Direct : Balanced(p, d)
  PROVE  WakeInv'
<1>1. ASSUME NEW q \in Procs PROVE ProcInv(q)' /\ OwnerInv(q)'
  <2>1. CASE q = p
    BY <2>1
  <2>2. CASE q # p
    <3>1. proc'[q] = proc[q] /\ ProcInv(q) /\ OwnerInv(q)
      BY <2>2 DEF WakeInv
    <3>2. ProcInv(q)'
      BY <3>1 DEF ProcInv
    <3>3. OwnerInv(q)'
      BY <2>2, <3>1 DEF OwnerInv
    <3>4. QED
      BY <3>2, <3>3
  <2>3. QED
    BY <2>1, <2>2
<1>2. ASSUME NEW d \in Direct PROVE WokenInv(d)'
  <2>1. PICK k \in Nat : /\ Cardinality(Carriers(d)) = k + Bit(Carries(p, d))
                        /\ Cardinality(Carriers(d)') = k + Bit(Carries(p, d)')
    BY OthersCarryOn
  <2>2. /\ wakes[d] \in Nat /\ wakes'[d] \in Nat /\ doubled \in Nat /\ doubled' \in Nat
        /\ WokenInv(d) /\ Balanced(p, d)
    BY DEF WakeInv, WakeTyped
  <2>3. /\ Bit(Carries(p, d)) \in Nat /\ Bit(LeftInFile(d)) \in Nat
        /\ Bit(Carries(p, d)') \in Nat /\ Bit(LeftInFile(d)') \in Nat
    BY DEF Bit
  <2>4. QED
    BY <2>1, <2>2, <2>3 DEF WokenInv, Balanced
<1>3. QED
  BY <1>1, <1>2 DEF WakeInv

(* The saved mark and its owner stay; a sign of life is no matter here.    *)
SameFile == file' \in Files /\ file'.owner = file.owner /\ file'.mark = file.mark

Untold == UNCHANGED <<host, mail, wakes, doubled>>

(* What a step tells the window of its news, once, and what it costs.      *)
Told(p) ==
  wakes' = [d \in Direct |-> IF d \in proc[p].news THEN wakes[d] + 1 ELSE wakes[d]]

(* A process goes from one place to another with what it holds; its news   *)
(* may have been told, if the answer was lost.                             *)
LEMMA PlaceKeeps ==
  ASSUME WakeInv, NEW p \in Procs, SameFile, UNCHANGED <<host, mail>>,
         \/ UNCHANGED <<wakes, doubled>>
         \/ Told(p) /\ doubled' = doubled + 1,
         NEW v \in ProcRows, proc' = [proc EXCEPT ![p] = v],
         v.news = proc[p].news, v.seen = proc[p].seen,
         host = "codex" => (v.pc \in Looking <=> proc[p].pc \in Looking),
         ProcInv(p)', OwnerInv(p)'
  PROVE  WakeInv'
<1>1. proc'[p] = v /\ \A q \in Procs : q # p => proc'[q] = proc[q]
  BY DEF WakeInv, WakeTyped
<1>2. WakeTyped'
  <2>1. wakes' \in [Direct -> Nat] /\ doubled' \in Nat
    BY DEF WakeInv, WakeTyped, Told
  <2>2. QED
    BY <2>1 DEF WakeInv, WakeTyped, SameFile
<1>3. \A q \in Procs : Hunts(q)' <=> Hunts(q)
  BY <1>1 DEF Hunts
<1>4. ASSUME NEW d \in Direct PROVE Balanced(p, d)
  <2>1. Carries(p, d)' <=> Carries(p, d)
    BY <1>1, <1>3 DEF Carries
  <2>2. LeftInFile(d)' <=> LeftInFile(d)
    BY <1>3 DEF LeftInFile, SameFile
  <2>3. /\ wakes[d] \in Nat /\ doubled \in Nat
        /\ \/ wakes'[d] = wakes[d] /\ doubled' = doubled
           \/ wakes'[d] <= wakes[d] + 1 /\ wakes'[d] \in Nat /\ doubled' = doubled + 1
    BY DEF WakeInv, WakeTyped, Told
  <2>4. QED
    BY <2>1, <2>2, <2>3 DEF Balanced, Bit
<1>5. QED
  BY <1>1, <1>2, <1>4, ProcessKeeps DEF SameFile

(* The ways on from a place to the next.                                   *)
Onward(p, pc) ==
  \/ proc[p].pc = "announce" /\ pc = "check"
  \/ proc[p].pc = "check" /\ pc = "newest"
  \/ proc[p].pc = "settle" /\ pc = "settled"
  \/ proc[p].pc \in Delivering /\ pc \in Delivering
  \/ proc[p].pc = "release" /\ pc = "withdraw"
  \/ proc[p].pc \in {"release", "withdraw"} /\ pc = "wake" /\ proc[p].woke
  \/ proc[p].pc \in {"release", "withdraw"} /\ pc = "free" /\ host = "codex"

LEMMA OnwardKeeps ==
  ASSUME WakeInv, NEW p \in Procs, SameFile, UNCHANGED <<host, mail>>,
         \/ UNCHANGED <<wakes, doubled>>
         \/ Told(p) /\ doubled' = doubled + 1,
         NEW v \in ProcRows, proc' = [proc EXCEPT ![p] = v],
         v.news = proc[p].news, v.seen = proc[p].seen, v.woke = proc[p].woke,
         Onward(p, v.pc)
  PROVE  WakeInv'
<1>1. proc'[p] = v /\ ProcInv(p) /\ OwnerInv(p) /\ host \in {"claude", "codex"}
  BY DEF WakeInv, WakeTyped
<1>2. ProcInv(p)'
  BY <1>1 DEF ProcInv, Onward, Delivering
<1>3. OwnerInv(p)'
  BY <1>1 DEF OwnerInv, Onward, Delivering, SameFile
<1>4. host = "codex" => (v.pc \in Looking <=> proc[p].pc \in Looking)
  BY <1>1 DEF ProcInv, Onward, Looking, Delivering
<1>5. QED
  BY <1>2, <1>3, <1>4, PlaceKeeps

LEMMA GotoKeeps ==
  ASSUME WakeInv, NEW p \in Procs, SameFile, UNCHANGED <<host, mail, wakes, doubled>>,
         NEW pc \in Places, Goto(p, pc), Onward(p, pc)
  PROVE  WakeInv'
<1>1. proc[p] \in ProcRows
  BY DEF WakeInv, WakeTyped
<1>2. PICK v : v = [proc[p] EXCEPT !.pc = pc]
  OBVIOUS
<1>3. /\ v \in ProcRows /\ v.pc = pc /\ v.news = proc[p].news /\ v.seen = proc[p].seen
      /\ v.woke = proc[p].woke
  BY <1>1, <1>2 DEF ProcRows
<1>4. proc' = [proc EXCEPT ![p] = v]
  BY <1>2 DEF Goto
<1>5. QED
  BY <1>3, <1>4, OnwardKeeps

(* A process that gives up what it holds and ends: a message it would have *)
(* come to is left in the file.                                            *)
LEMMA EndKeeps ==
  ASSUME WakeInv, NEW p \in Procs, SameFile, Untold,
         NEW pc \in {"release", "done"}, proc' = [proc EXCEPT ![p] = [Off EXCEPT !.pc = pc]]
  PROVE  WakeInv'
<1>1. PICK v \in ProcRows : /\ v = [Off EXCEPT !.pc = pc]
                           /\ v.pc = pc /\ v.news = {} /\ ~v.woke
  BY EndRow DEF Places
<1>2. proc'[p] = v /\ \A q \in Procs : q # p => proc'[q] = proc[q]
  BY <1>1 DEF WakeInv, WakeTyped
<1>3. WakeTyped'
  BY <1>1 DEF WakeInv, WakeTyped, SameFile, Untold
<1>4. ProcInv(p)' /\ OwnerInv(p)'
  BY <1>1, <1>2 DEF ProcInv, OwnerInv, Delivering
<1>5. ~Hunts(p)' /\ \A q \in Procs : q # p => (Hunts(q)' <=> Hunts(q))
  BY <1>1, <1>2 DEF Hunts, Untold, Looking, Delivering
<1>6. ASSUME NEW d \in Direct PROVE Balanced(p, d)
  <2>1. ~Carries(p, d)'
    BY <1>1, <1>2, <1>5 DEF Carries
  <2>2. LeftInFile(d)' => LeftInFile(d) \/ Carries(p, d)
    <3>1. SUFFICES ASSUME LeftInFile(d)', file.owner = p, Hunts(p) PROVE Carries(p, d)
      BY <1>5 DEF LeftInFile, SameFile
    <3>2. d > file.mark.newest /\ OwnerInv(p) /\ proc[p].pc \in Looking
      BY <3>1 DEF LeftInFile, SameFile, WakeInv, Hunts
    <3>3. d \in Nat /\ proc[p].seen.newest \in Nat /\ file.mark.newest \in Nat
      BY WakeConstants, MarksTyped DEF Direct
    <3>4. QED
      BY <3>1, <3>2, <3>3 DEF OwnerInv, Carries, Looking
  <2>3. wakes[d] \in Nat /\ doubled \in Nat
    BY DEF WakeInv, WakeTyped
  <2>4. QED
    BY <2>1, <2>2, <2>3 DEF Balanced, Untold, Bit
<1>7. QED
  BY <1>2, <1>3, <1>4, <1>6, ProcessKeeps DEF SameFile, Untold

(* Back to the loop's head, from a place where the mark is the saved one;  *)
(* the news may have been told on the way.                                 *)
LEMMA AgainKeeps ==
  ASSUME WakeInv, NEW p \in Procs, SameFile, UNCHANGED <<host, mail>>,
         proc[p].pc \in {"newest"} \cup Delivering,
         wakes' = wakes \/ Told(p), doubled' \in {doubled, doubled + 1},
         Again(p)
  PROVE  WakeInv'
<1>1. PICK v \in ProcRows : /\ v = [Off EXCEPT !.pc = "check", !.seen = proc[p].seen]
                           /\ v.pc = "check" /\ v.seen = proc[p].seen /\ v.news = {} /\ ~v.woke
  <2>1. "check" \in Places /\ proc[p].seen \in Marks
    BY MarksTyped DEF Places, Looking
  <2>2. QED
    BY <2>1, LoopRow
<1>2. proc' = [proc EXCEPT ![p] = v]
  BY <1>1 DEF Again
<1>3. proc'[p] = v /\ \A q \in Procs : q # p => proc'[q] = proc[q]
  BY <1>2 DEF WakeInv, WakeTyped
<1>4. WakeTyped'
  <2>1. wakes' \in [Direct -> Nat] /\ doubled' \in Nat
    BY DEF Told, WakeInv, WakeTyped
  <2>2. QED
    BY <1>2, <2>1 DEF WakeInv, WakeTyped, SameFile
<1>5. ProcInv(p) /\ OwnerInv(p)
  BY DEF WakeInv
<1>6. ProcInv(p)' /\ OwnerInv(p)'
  BY <1>1, <1>3, <1>5 DEF ProcInv, OwnerInv, SameFile, Delivering
<1>7. \A q \in Procs : Hunts(q)' <=> Hunts(q)
  BY <1>1, <1>3 DEF Hunts, Looking
<1>8. ASSUME NEW d \in Direct PROVE Balanced(p, d)
  <2>1. /\ Carries(p, d)' => Carries(p, d)
        /\ d \in proc[p].news => Carries(p, d) /\ ~Carries(p, d)'
    <3>1. d \in Nat /\ proc[p].seen.newest \in Nat
      BY WakeConstants, MarksTyped DEF Direct
    <3>2. d \in proc[p].news => d <= proc[p].seen.newest
      BY <1>5 DEF ProcInv
    <3>3. QED
      BY <1>1, <1>3, <1>7, <3>1, <3>2 DEF Carries
  <2>2. LeftInFile(d)' <=> LeftInFile(d)
    BY <1>7 DEF LeftInFile, SameFile
  <2>3. /\ wakes[d] \in Nat /\ doubled \in Nat
        /\ wakes'[d] = wakes[d] \/ (d \in proc[p].news /\ wakes'[d] = wakes[d] + 1)
    BY DEF WakeInv, WakeTyped, Told
  <2>4. QED
    BY <2>1, <2>2, <2>3 DEF Balanced, Bit
<1>9. QED
  BY <1>3, <1>4, <1>6, <1>8, ProcessKeeps DEF SameFile

(* An attempt came to nothing, or its answer was lost.                     *)
LEMMA NextTryKeeps ==
  ASSUME WakeInv, NEW p \in Procs, SameFile, UNCHANGED <<host, mail>>,
         \/ UNCHANGED <<wakes, doubled>>
         \/ Told(p) /\ doubled' = doubled + 1,
         proc[p].pc \in Delivering, NextTry(p)
  PROVE  WakeInv'
<1>1. CASE Again(p)
  BY <1>1, AgainKeeps
<1>2. CASE proc' = [proc EXCEPT ![p].tries = @ + 1, ![p].pc = "deliver"]
  <2>1. proc[p] \in ProcRows /\ "deliver" \in Places
    BY DEF WakeInv, WakeTyped, Places, Looking, Delivering
  <2>2. PICK u : u = [proc[p] EXCEPT !.tries = @ + 1]
    OBVIOUS
  <2>3. /\ u \in ProcRows /\ u.news = proc[p].news /\ u.seen = proc[p].seen
        /\ u.woke = proc[p].woke
    BY <2>1, <2>2 DEF ProcRows
  <2>4. PICK v : v = [u EXCEPT !.pc = "deliver"]
    OBVIOUS
  <2>5. /\ v \in ProcRows /\ v.pc = "deliver" /\ v.news = u.news /\ v.seen = u.seen
        /\ v.woke = u.woke
    BY <2>1, <2>3, <2>4 DEF ProcRows
  <2>6. proc' = [proc EXCEPT ![p] = v]
    BY <1>2, <2>2, <2>4 DEF WakeInv, WakeTyped
  <2>7. Onward(p, v.pc)
    BY <2>5 DEF Onward, Delivering
  <2>8. QED
    BY <2>3, <2>5, <2>6, <2>7, OnwardKeeps
<1>3. QED
  BY <1>1, <1>2 DEF NextTry

(* Steps that leave the processes and the saved mark alone.                *)
LEMMA ElsewhereKeeps ==
  ASSUME WakeInv, SameFile, UNCHANGED <<host, proc, wakes, doubled>>,
         mail' \in [posted : Nat, read : Nat, sent : Nat, taken : Nat]
  PROVE  WakeInv'
<1>1. WakeTyped'
  BY DEF WakeInv, WakeTyped, SameFile
<1>2. \A p \in Procs : ProcInv(p)' /\ OwnerInv(p)'
  BY DEF WakeInv, ProcInv, OwnerInv, SameFile
<1>3. ASSUME NEW d \in Direct PROVE WokenInv(d)'
  <2>1. Carriers(d)' = Carriers(d)
    BY DEF Carriers, Carries, Hunts
  <2>2. LeftInFile(d)' <=> LeftInFile(d)
    BY DEF LeftInFile, Hunts, SameFile
  <2>3. QED
    BY <2>1, <2>2 DEF WakeInv, WokenInv, Bit
<1>4. QED
  BY <1>1, <1>2, <1>3 DEF WakeInv

LEMMA CountKeeps == ASSUME WakeInv, NEW p \in Procs, count(p) PROVE WakeInv'
<1>1. UNCHANGED <<host, mail, wakes, doubled>> /\ proc[p].pc = "check" /\ file \in Files
  BY DEF count, window, history, At, WakeInv, WakeTyped
<1>2. SameFile
  BY <1>1 DEF count, SameFile, Files
<1>3. CASE Quit(p)
  BY <1>1, <1>2, <1>3, EndKeeps DEF Quit, Untold
<1>4. CASE Leave(p)
  BY <1>1, <1>2, <1>4, EndKeeps DEF Leave, Untold
<1>5. CASE proc' = [proc EXCEPT ![p].direct = Unread, ![p].pc = "newest"]
  <2>1. proc[p] \in ProcRows /\ "newest" \in Places /\ Unread \in BOOLEAN
    BY DEF WakeInv, WakeTyped, Places, Looking, Unread
  <2>2. PICK u : u = [proc[p] EXCEPT !.direct = Unread]
    OBVIOUS
  <2>3. /\ u \in ProcRows /\ u.news = proc[p].news /\ u.seen = proc[p].seen
        /\ u.woke = proc[p].woke
    BY <2>1, <2>2 DEF ProcRows
  <2>4. PICK v : v = [u EXCEPT !.pc = "newest"]
    OBVIOUS
  <2>5. /\ v \in ProcRows /\ v.pc = "newest" /\ v.news = u.news /\ v.seen = u.seen
        /\ v.woke = u.woke
    BY <2>1, <2>3, <2>4 DEF ProcRows
  <2>6. proc' = [proc EXCEPT ![p] = v]
    BY <1>5, <2>2, <2>4 DEF WakeInv, WakeTyped
  <2>7. Onward(p, v.pc)
    BY <1>1, <2>5 DEF Onward
  <2>8. QED
    BY <1>1, <1>2, <2>3, <2>5, <2>6, <2>7, OnwardKeeps
<1>6. QED
  BY <1>3, <1>4, <1>5 DEF count

LEMMA SettleKeeps == ASSUME WakeInv, NEW p \in Procs, settle(p) PROVE WakeInv'
<1>1. /\ UNCHANGED <<host, mail, wakes, doubled>> /\ proc[p].pc = "settle" /\ SameFile
      /\ proc' = [proc EXCEPT ![p].pc = "settled", ![p].direct = Unread]
  BY DEF settle, window, history, At, SameFile, WakeInv, WakeTyped
<1>2. proc[p] \in ProcRows /\ "settled" \in Places /\ Unread \in BOOLEAN
  BY DEF WakeInv, WakeTyped, Places, Looking, Unread
<1>3. PICK u : u = [proc[p] EXCEPT !.pc = "settled"]
  OBVIOUS
<1>4. /\ u \in ProcRows /\ u.news = proc[p].news /\ u.seen = proc[p].seen
      /\ u.woke = proc[p].woke /\ u.pc = "settled"
  BY <1>2, <1>3 DEF ProcRows
<1>5. PICK v : v = [u EXCEPT !.direct = Unread]
  OBVIOUS
<1>6. /\ v \in ProcRows /\ v.pc = u.pc /\ v.news = u.news /\ v.seen = u.seen
      /\ v.woke = u.woke
  BY <1>2, <1>4, <1>5 DEF ProcRows
<1>7. proc' = [proc EXCEPT ![p] = v]
  BY <1>1, <1>3, <1>5 DEF WakeInv, WakeTyped
<1>8. Onward(p, v.pc)
  BY <1>1, <1>4, <1>6 DEF Onward
<1>9. QED
  BY <1>1, <1>4, <1>6, <1>7, <1>8, OnwardKeeps

(* The adapter's delivery, attempt by attempt.                             *)
LEMMA DeliverKeeps ==
  ASSUME WakeInv, NEW p \in Procs, deliver(p) \/ wait_until_idle(p) PROVE WakeInv'
<1>1. /\ UNCHANGED <<host, mail, wakes, doubled>> /\ SameFile
      /\ proc[p].pc \in {"deliver", "busy"} /\ proc[p].pc \in Delivering
  BY DEF deliver, wait_until_idle, window, At, SameFile, WakeInv, WakeTyped, Delivering
<1>2. CASE NextTry(p)
  BY <1>1, <1>2, NextTryKeeps
<1>3. CASE Again(p)
  BY <1>1, <1>3, AgainKeeps
<1>4. ASSUME NEW pc \in Delivering, Goto(p, pc) PROVE WakeInv'
  <2>1. pc \in Places /\ Onward(p, pc)
    BY <1>1 DEF Places, Looking, Onward
  <2>2. QED
    BY <1>1, <1>4, <2>1, GotoKeeps
<1>5. QED
  BY <1>2, <1>3, <1>4 DEF deliver, wait_until_idle, Delivering

LEMMA StartTurnKeeps == ASSUME WakeInv, NEW p \in Procs, start_turn(p) PROVE WakeInv'
<1>1. UNCHANGED <<host, mail>> /\ SameFile /\ proc[p].pc \in Delivering
  BY DEF start_turn, At, SameFile, WakeInv, WakeTyped, Delivering
<1>2. CASE Told(p) /\ Again(p) /\ doubled' = doubled
  BY <1>1, <1>2, AgainKeeps
<1>3. CASE Told(p) /\ NextTry(p) /\ doubled' = doubled + 1
  BY <1>1, <1>3, NextTryKeeps
<1>4. CASE NextTry(p) /\ UNCHANGED <<wakes, doubled>>
  BY <1>1, <1>4, NextTryKeeps
<1>5. QED
  BY <1>2, <1>3, <1>4 DEF start_turn, Told

LEMMA RefreshKeeps == ASSUME WakeInv, NEW p \in Procs, refresh_owner(p) PROVE WakeInv'
<1>1. /\ UNCHANGED <<host, mail, wakes, doubled>> /\ file \in Files
      /\ mail \in [posted : Nat, read : Nat, sent : Nat, taken : Nat]
  BY DEF refresh_owner, window, WakeInv, WakeTyped
<1>2. CASE file' = [file EXCEPT !.alive = TRUE] /\ UNCHANGED proc
  <2>1. SameFile
    BY <1>1, <1>2 DEF SameFile, Files
  <2>2. QED
    BY <1>1, <1>2, <2>1, ElsewhereKeeps
<1>3. CASE Quit(p) /\ UNCHANGED file
  <2>1. SameFile
    BY <1>1, <1>3 DEF SameFile
  <2>2. QED
    BY <1>1, <1>3, <2>1, EndKeeps DEF Quit, Untold
<1>4. QED
  BY <1>2, <1>3 DEF refresh_owner

(* The ways out.                                                           *)
LEMMA EndsKeep ==
  ASSUME WakeInv, NEW p \in Procs, Ends(p) \/ Stopped(p) \/ WakerDies(p) PROVE WakeInv'
<1>1. /\ UNCHANGED <<host, mail, wakes, doubled>> /\ SameFile
      /\ Leave(p) \/ Quit(p)
  BY DEF Ends, Stopped, WakerDies, window, history, SameFile, WakeInv, WakeTyped
<1>2. QED
  BY <1>1, EndKeeps DEF Leave, Quit, Untold

LEMMA AfterKeeps ==
  ASSUME WakeInv, NEW p \in Procs, SameFile, UNCHANGED <<host, mail, wakes, doubled>>,
         proc[p].pc \in {"release", "withdraw"}, After(p)
  PROVE  WakeInv'
<1>1. CASE proc[p].woke
  <2>1. Goto(p, "wake") /\ "wake" \in Places /\ Onward(p, "wake")
    BY <1>1 DEF After, Places, Onward
  <2>2. QED
    BY <2>1, GotoKeeps
<1>2. CASE ~proc[p].woke /\ host = "codex"
  <2>1. Goto(p, "free") /\ "free" \in Places /\ Onward(p, "free")
    BY <1>2 DEF After, Places, Onward
  <2>2. QED
    BY <2>1, GotoKeeps
<1>3. CASE ~proc[p].woke /\ host # "codex"
  BY <1>3, EndKeeps DEF After, Quit, Untold
<1>4. QED
  BY <1>1, <1>2, <1>3

LEMMA ReleaseKeeps ==
  ASSUME WakeInv, NEW p \in Procs, release(p) \/ withdraws(p) PROVE WakeInv'
<1>1. /\ UNCHANGED <<host, mail, wakes, doubled>> /\ SameFile
      /\ proc[p].pc \in {"release", "withdraw"}
  BY DEF release, withdraws, window, history, At, SameFile, WakeInv, WakeTyped
<1>2. CASE After(p)
  BY <1>1, <1>2, AfterKeeps
<1>3. CASE proc[p].pc = "release" /\ Goto(p, "withdraw")
  <2>1. "withdraw" \in Places /\ Onward(p, "withdraw")
    BY <1>3 DEF Places, Onward
  <2>2. QED
    BY <1>1, <1>3, <2>1, GotoKeeps
<1>4. QED
  BY <1>2, <1>3 DEF release, withdraws, At

LEMMA FreeKeeps == ASSUME WakeInv, NEW p \in Procs, free(p) PROVE WakeInv'
<1>1. UNCHANGED <<host, mail, wakes, doubled>> /\ file \in Files /\ Quit(p)
  BY DEF free, window, history, WakeInv, WakeTyped
<1>2. SameFile
  BY <1>1 DEF free, SameFile, Files
<1>3. QED
  BY <1>1, <1>2, EndKeeps DEF Quit, Untold

LEMMA AnnouncesKeeps ==
  ASSUME WakeInv, NEW p \in Procs, announces(p) PROVE WakeInv'
<1>1. /\ UNCHANGED <<host, mail, wakes, doubled>> /\ SameFile /\ Goto(p, "check")
      /\ proc[p].pc = "announce"
  BY DEF announces, window, history, At, SameFile, WakeInv, WakeTyped
<1>2. "check" \in Places /\ Onward(p, "check")
  BY <1>1 DEF Places, Looking, Onward
<1>3. QED
  BY <1>1, <1>2, GotoKeeps

LEMMA FailsKeeps == ASSUME WakeInv, NEW p \in Procs, Fails(p) PROVE WakeInv'
<1>1. /\ UNCHANGED <<host, mail, wakes, doubled>> /\ SameFile /\ Again(p)
      /\ proc[p].pc = "newest"
  BY DEF Fails, window, history, At, SameFile, WakeInv, WakeTyped
<1>2. QED
  BY <1>1, AgainKeeps

(* The window, the clock and the announcements.                            *)
LEMMA WindowKeeps ==
  ASSUME WakeInv, Window \/ Lapse \/ (\E p \in Procs : renews(p)) PROVE WakeInv'
<1>1. UNCHANGED <<host, proc, wakes, doubled>> /\ file \in Files
  BY DEF Window, Lapse, renews, window, history, WakeInv, WakeTyped
<1>2. SameFile
  BY <1>1 DEF Window, Lapse, renews, SameFile, Files
<1>3. mail' \in [posted : Nat, read : Nat, sent : Nat, taken : Nat]
  BY DEF Window, Lapse, renews, Arrives, Turn, window, WakeInv, WakeTyped
<1>4. QED
  BY <1>1, <1>2, <1>3, ElsewhereKeeps

(* A mark never goes back.                                                 *)
LEMMA MarkAdvances ==
  ASSUME WakeInv, NEW p \in Procs, NEW r \in Readings(p)
  PROVE  /\ watch_step(proc[p].seen, r) \in Marks
         /\ watch_step(proc[p].seen, r).newest >= proc[p].seen.newest
<1>1. r.newest \in Nat /\ r.inbox \in Int
  <2>1. mail.posted \in Nat /\ Undelivered \in Int
    BY DEF WakeInv, WakeTyped, Undelivered
  <2>2. proc[p].seen.inbox \in Int
    BY MarksTyped DEF Marks
  <2>3. QED
    BY <2>1, <2>2 DEF Readings
<1>2. proc[p].seen.newest \in Nat
  BY MarksTyped
<1>3. QED
  BY <1>1, <1>2 DEF watch_step, Marks

LEMMA RewakesKeeps == ASSUME WakeInv, NEW p \in Procs, Rewakes(p) PROVE WakeInv'
<1>1. PICK v \in ProcRows : /\ v = [Off EXCEPT !.pc = "done"]
                           /\ v.pc = "done" /\ v.news = {} /\ ~v.woke
  BY EndRow DEF Places
<1>2. /\ proc' = [proc EXCEPT ![p] = v] /\ proc[p].pc = "wake" /\ Told(p)
      /\ UNCHANGED <<host, mail, file, doubled>>
  BY <1>1 DEF Rewakes, Quit, At, Told
<1>3. proc'[p] = v /\ (\A q \in Procs : q # p => proc'[q] = proc[q]) /\ host # "codex"
  BY <1>2 DEF WakeInv, WakeTyped, ProcInv
<1>4. WakeTyped'
  BY <1>2 DEF WakeInv, WakeTyped, Told
<1>5. ProcInv(p)' /\ OwnerInv(p)'
  BY <1>1, <1>3 DEF ProcInv, OwnerInv, Delivering
<1>6. ASSUME NEW d \in Direct PROVE Balanced(p, d)
  <2>1. /\ Carries(p, d) <=> d \in proc[p].news
        /\ ~Carries(p, d)'
        /\ LeftInFile(d)' <=> LeftInFile(d)
    BY <1>1, <1>2, <1>3 DEF Carries, LeftInFile, Hunts
  <2>2. /\ wakes[d] \in Nat /\ doubled \in Nat
        /\ wakes'[d] = IF d \in proc[p].news THEN wakes[d] + 1 ELSE wakes[d]
    BY <1>2 DEF WakeInv, WakeTyped, Told
  <2>3. QED
    BY <1>2, <2>1, <2>2 DEF Balanced, Bit
<1>7. QED
  BY <1>2, <1>3, <1>4, <1>5, <1>6, ProcessKeeps

LEMMA WatchKeeps == ASSUME WakeInv, NEW p \in Procs, watch(p) PROVE WakeInv'
<1>1. PICK mark \in Marks : /\ mark.newest = file.mark.newest
                           /\ file' = [owner |-> p, alive |-> FALSE, mark |-> mark]
                           /\ proc' = [proc EXCEPT ![p] = [Off EXCEPT !.pc = "announce", !.seen = mark]]
  <2>1. file.mark \in Marks /\ (~file.mark.primed => file.mark.newest = NoMark.newest)
        /\ NoMark \in Marks
    BY MarksTyped DEF Marks, NoMark
  <2>2. QED
    BY <2>1 DEF watch
<1>2. PICK v \in ProcRows : /\ v = [Off EXCEPT !.pc = "announce", !.seen = mark]
                           /\ v.pc = "announce" /\ v.seen = mark /\ v.news = {} /\ ~v.woke
  <2>1. "announce" \in Places
    BY DEF Places
  <2>2. QED
    BY <2>1, LoopRow
<1>3. /\ proc' = [proc EXCEPT ![p] = v] /\ proc[p].pc = "off" /\ host = "claude"
      /\ UNCHANGED <<host, mail, wakes, doubled>>
  BY <1>1, <1>2 DEF watch, NextToStart, At, window, history
<1>4. /\ proc'[p] = v /\ (\A q \in Procs : q # p => proc'[q] = proc[q])
      /\ proc[p].news = {}
  BY <1>3 DEF WakeInv, WakeTyped, ProcInv
<1>5. WakeTyped'
  BY <1>1, <1>3 DEF WakeInv, WakeTyped, Files
<1>6. ProcInv(p)' /\ OwnerInv(p)'
  BY <1>1, <1>2, <1>3, <1>4 DEF ProcInv, OwnerInv, Delivering
<1>7. ASSUME NEW d \in Direct PROVE Balanced(p, d)
  <2>1. /\ ~Carries(p, d)'
        /\ LeftInFile(d)' <=> LeftInFile(d)
    BY <1>1, <1>2, <1>3, <1>4 DEF Carries, LeftInFile, Hunts
  <2>2. wakes[d] \in Nat /\ doubled \in Nat
    BY DEF WakeInv, WakeTyped
  <2>3. QED
    BY <1>3, <2>1, <2>2 DEF Balanced, Bit
<1>8. QED
  BY <1>1, <1>3, <1>4, <1>5, <1>6, <1>7, ProcessKeeps

LEMMA TakeKeeps == ASSUME WakeInv, NEW p \in Procs, take(p) PROVE WakeInv'
<1>1. PICK v \in ProcRows : /\ v = [Off EXCEPT !.pc = "check", !.seen = file.mark]
                           /\ v.pc = "check" /\ v.seen = file.mark /\ v.news = {} /\ ~v.woke
  <2>1. "check" \in Places /\ file.mark \in Marks
    BY MarksTyped DEF Places, Looking
  <2>2. QED
    BY <2>1, LoopRow
<1>2. /\ proc' = [proc EXCEPT ![p] = v] /\ proc[p].pc = "off" /\ host = "codex"
      /\ UNCHANGED <<host, mail, wakes>>
      /\ file' = [file EXCEPT !.owner = p, !.alive = TRUE]
      /\ doubled' = doubled + (IF file.owner # Nobody /\ Running(file.owner) THEN 1 ELSE 0)
  BY <1>1 DEF take, NextToStart, At, window
<1>3. /\ proc'[p] = v /\ (\A q \in Procs : q # p => proc'[q] = proc[q])
      /\ proc[p].news = {}
  BY <1>2 DEF WakeInv, WakeTyped, ProcInv
<1>4. file' \in Files /\ file'.owner = p /\ file'.mark = file.mark
  BY <1>2 DEF WakeInv, WakeTyped, Files
<1>5. WakeTyped'
  BY <1>2, <1>4 DEF WakeInv, WakeTyped
<1>6. ProcInv(p)' /\ OwnerInv(p)'
  BY <1>1, <1>2, <1>3, <1>4 DEF ProcInv, OwnerInv, Delivering
<1>7. ASSUME NEW d \in Direct PROVE Balanced(p, d)
  <2>1. ~LeftInFile(d)' /\ (Carries(p, d)' => d > file.mark.newest)
    BY <1>1, <1>2, <1>3, <1>4 DEF LeftInFile, Hunts, Looking, Carries
  <2>2. /\ wakes[d] \in Nat /\ doubled \in Nat /\ doubled' \in Nat /\ doubled <= doubled'
        /\ file.owner # Nobody /\ Running(file.owner) => doubled' = doubled + 1
    BY <1>2 DEF WakeInv, WakeTyped
  <2>3. d > file.mark.newest => LeftInFile(d) \/ doubled' = doubled + 1
    <3>1. SUFFICES ASSUME file.owner \in Procs, Hunts(file.owner) PROVE doubled' = doubled + 1
      BY DEF LeftInFile
    <3>2. file.owner # Nobody /\ Running(file.owner)
      BY <3>1, WakeConstants DEF Hunts, Running, Looking, Delivering
    <3>3. QED
      BY <2>2, <3>2
  <2>4. QED
    BY <1>2, <2>1, <2>2, <2>3 DEF Balanced, Bit
<1>8. QED
  BY <1>2, <1>3, <1>4, <1>5, <1>6, <1>7, ProcessKeeps

(* The watcher's reading: the owner saves its mark, and with it takes what *)
(* lies between the two out of the file.                                   *)
LEMMA WatcherSavesKeeps == ASSUME WakeInv, NEW p \in Procs, watcher_saves(p) PROVE WakeInv'
<1>1. /\ UNCHANGED <<host, mail, wakes, doubled>> /\ host = "claude"
      /\ proc[p].pc = "newest" /\ file \in Files
  BY DEF watcher_saves, window, At, WakeInv, WakeTyped
<1>2. CASE file.owner # p
  <2>1. Quit(p) /\ SameFile
    BY <1>1, <1>2 DEF watcher_saves, SameFile
  <2>2. QED
    BY <1>1, <2>1, EndKeeps DEF Quit, Untold
<1>3. CASE file.owner = p
  <2>1. PICK mark \in Marks, wake \in BOOLEAN :
           /\ mark.newest >= proc[p].seen.newest
           /\ file' = [file EXCEPT !.mark = mark]
           /\ proc' = [proc EXCEPT ![p] =
                 IF wake THEN [Off EXCEPT !.pc = "release", !.woke = TRUE,
                                          !.news = News(proc[p].seen, mark)]
                 ELSE [Off EXCEPT !.pc = "check", !.seen = mark]]
    <3>1. PICK r \in Readings(p) :
             LET seen == proc[p].seen
                 mark == watch_step(seen, r)
                 wake == seen.primed /\ Wakes(seen, r)
             IN  /\ file' = [file EXCEPT !.mark = mark]
                 /\ proc' = [proc EXCEPT ![p] =
                      IF wake
                      THEN [Off EXCEPT !.pc = "release", !.woke = TRUE, !.news = News(seen, mark)]
                      ELSE [Off EXCEPT !.pc = "check", !.seen = mark]]
      BY <1>3 DEF watcher_saves
    <3>2. QED
      BY <3>1, MarkAdvances
  <2>2. PICK v \in ProcRows :
           /\ proc' = [proc EXCEPT ![p] = v]
           /\ \/ v.pc = "release" /\ v.news = News(proc[p].seen, mark)
              \/ v.pc = "check" /\ v.news = {} /\ v.seen = mark
    <3>1. "release" \in Places /\ "check" \in Places /\ NoMark \in Marks
      BY DEF Places, Looking, NoMark, Marks
    <3>2. News(proc[p].seen, mark) \in SUBSET Int
      BY MarksTyped DEF News, Marks
    <3>3. PICK news \in SUBSET Int : news = News(proc[p].seen, mark)
      BY <3>2
    <3>4. CASE wake
      <4>1. PICK x : x = [Off EXCEPT !.pc = "release", !.woke = TRUE, !.news = news]
        OBVIOUS
      <4>2. x \in ProcRows /\ x.pc = "release" /\ x.news = news
        BY <3>1, <4>1, WakeRow
      <4>3. proc' = [proc EXCEPT ![p] = x]
        BY <2>1, <3>3, <3>4, <4>1
      <4>4. QED
        BY <3>3, <4>2, <4>3
    <3>5. CASE ~wake
      <4>1. PICK y : y = [Off EXCEPT !.pc = "check", !.seen = mark]
        OBVIOUS
      <4>2. y \in ProcRows /\ y.pc = "check" /\ y.news = {} /\ y.seen = mark
        BY <3>1, <4>1, LoopRow, ZenonT(30)
      <4>3. proc' = [proc EXCEPT ![p] = y]
        BY <2>1, <3>5, <4>1
      <4>4. QED
        BY <4>2, <4>3
    <3>6. QED
      BY <3>4, <3>5
  <2>3. /\ proc'[p] = v /\ (\A q \in Procs : q # p => proc'[q] = proc[q])
        /\ proc[p].news = {} /\ proc[p].seen.newest = file.mark.newest
    BY <1>1, <1>3, <2>2 DEF WakeInv, WakeTyped, ProcInv, OwnerInv
  <2>4. file' \in Files /\ file'.owner = p /\ file'.mark = mark
    BY <1>1, <1>3, <2>1 DEF Files
  <2>5. WakeTyped'
    BY <1>1, <2>2, <2>4 DEF WakeInv, WakeTyped
  <2>6. ProcInv(p)' /\ OwnerInv(p)'
    BY <1>1, <2>2, <2>3, <2>4 DEF ProcInv, OwnerInv, Delivering
  <2>7. ASSUME NEW d \in Direct PROVE Balanced(p, d)
    <3>1. d \in Nat /\ mark.newest \in Nat /\ file.mark.newest \in Nat
      BY WakeConstants, MarksTyped DEF Direct, Marks
    <3>2. /\ LeftInFile(d) <=> d > file.mark.newest
          /\ LeftInFile(d)' <=> d > mark.newest
          /\ Carries(p, d)' <=> d \in v.news
      BY <1>1, <2>3, <2>4 DEF LeftInFile, Carries, Hunts
    <3>3. d \in v.news => d > file.mark.newest /\ d <= mark.newest
      BY <2>2, <2>3, <3>1 DEF News
    <3>4. wakes[d] \in Nat /\ doubled \in Nat /\ mark.newest >= file.mark.newest
      BY <2>1, <2>3 DEF WakeInv, WakeTyped
    <3>5. QED
      BY <1>1, <3>1, <3>2, <3>3, <3>4 DEF Balanced, Bit
  <2>8. QED
    BY <1>1, <2>3, <2>4, <2>5, <2>6, <2>7, ProcessKeeps
<1>4. QED
  BY <1>2, <1>3

(* The adapter's readings: what it takes on it was to come to, and what it *)
(* no longer is to come to is in the mark it saves.                        *)
LEMMA AdapterReads ==
  ASSUME WakeInv, NEW p \in Procs, host = "codex", UNCHANGED <<host, mail, wakes, doubled>>,
         proc[p].pc \in {"newest", "settled"},
         NEW mark \in Marks, mark.newest >= proc[p].seen.newest,
         NEW v \in ProcRows, proc' = [proc EXCEPT ![p] = v],
         v.seen = mark, ~v.woke,
         \/ v.pc = "check" /\ v.news = {}
         \/ v.pc = "settle" /\ proc[p].pc = "newest" /\ v.news = News(proc[p].seen, mark)
         \/ v.pc = "deliver" /\ v.news = proc[p].news \cup News(proc[p].seen, mark),
         IF v.pc = "settle" THEN file' = file ELSE save_mark(p, mark)
  PROVE  WakeInv'
<1>1. /\ proc'[p] = v /\ (\A q \in Procs : q # p => proc'[q] = proc[q])
      /\ ProcInv(p) /\ OwnerInv(p) /\ file \in Files
  BY DEF WakeInv, WakeTyped
<1>2. /\ mark.newest \in Nat /\ proc[p].seen.newest \in Nat /\ file.mark.newest \in Nat
  BY MarksTyped DEF Marks
<1>3. /\ file' \in Files /\ file'.owner = file.owner
      /\ v.pc = "settle" \/ file.owner # p => file'.mark = file.mark
      /\ v.pc # "settle" /\ file.owner = p => file'.mark = mark
  BY <1>1 DEF save_mark, Files
<1>4. WakeTyped'
  BY <1>3 DEF WakeInv, WakeTyped
<1>5. \A d \in News(proc[p].seen, mark) : d \in Int /\ proc[p].seen.newest < d /\ d <= mark.newest
  BY <1>2 DEF News
<1>6. \A d \in proc[p].news : d <= mark.newest
  <2>1. \A d \in proc[p].news : d \in Int /\ d <= proc[p].seen.newest
    BY <1>1 DEF ProcInv, WakeInv, WakeTyped, ProcRows
  <2>2. QED
    BY <1>2, <2>1
<1>7. ProcInv(p)'
  BY <1>1, <1>5, <1>6 DEF ProcInv, Delivering
<1>8. OwnerInv(p)'
  <2>1. CASE v.pc = "settle"
    <3>1. ASSUME file.owner = p
          PROVE  /\ file.mark.newest <= mark.newest
                 /\ \A d \in Direct : file.mark.newest < d /\ d <= mark.newest => d \in v.news
      <4>1. file.mark.newest = proc[p].seen.newest /\ v.news = News(proc[p].seen, mark)
        BY <1>1, <2>1, <3>1 DEF OwnerInv
      <4>2. \A d \in Direct : d \in Int
        BY WakeConstants DEF Direct
      <4>3. QED
        BY <1>2, <4>1, <4>2 DEF News
    <3>2. QED
      BY <1>1, <1>3, <2>1, <3>1 DEF OwnerInv, Delivering
  <2>2. CASE v.pc # "settle"
    BY <1>1, <1>3, <2>2 DEF OwnerInv
  <2>3. QED
    BY <2>1, <2>2
<1>9. \A q \in Procs : Hunts(q)' <=> Hunts(q)
  BY <1>1 DEF Hunts, Looking, Delivering
<1>10. Hunts(p)
  BY DEF Hunts, Looking
<1>11. ASSUME NEW d \in Direct PROVE Balanced(p, d)
  <2>1. d \in Int
    BY WakeConstants DEF Direct
  <2>2. Carries(p, d)' => Carries(p, d)
    BY <1>1, <1>2, <1>5, <1>10, <2>1 DEF Carries
  <2>3. LeftInFile(d)' => LeftInFile(d)
    BY <1>3, <1>9, <1>10 DEF LeftInFile
  <2>4. wakes[d] \in Nat /\ doubled \in Nat
    BY DEF WakeInv, WakeTyped
  <2>5. QED
    BY <2>2, <2>3, <2>4 DEF Balanced, Bit
<1>12. QED
  BY <1>1, <1>3, <1>4, <1>7, <1>8, <1>11, ProcessKeeps

LEMMA AdapterDecidesKeeps ==
  ASSUME WakeInv, NEW p \in Procs, adapter_decides(p) PROVE WakeInv'
<1>1. UNCHANGED <<host, mail, wakes, doubled>> /\ host = "codex" /\ proc[p].pc = "newest"
  BY DEF adapter_decides, window, At
<1>2. PICK mark \in Marks, wake \in BOOLEAN :
         /\ mark.newest >= proc[p].seen.newest
         /\ proc' = [proc EXCEPT ![p] =
               IF wake THEN [Off EXCEPT !.pc = "settle", !.seen = mark,
                                        !.news = News(proc[p].seen, mark)]
               ELSE [Off EXCEPT !.pc = "check", !.seen = mark]]
         /\ IF wake THEN UNCHANGED file ELSE save_mark(p, mark)
  <2>1. PICK r \in Readings(p) :
           LET seen == proc[p].seen
               mark == watch_step(seen, r)
               wake == seen.primed /\ Wakes(seen, r)
           IN  /\ proc' = [proc EXCEPT ![p] =
                    IF wake THEN [Off EXCEPT !.pc = "settle", !.seen = mark, !.news = News(seen, mark)]
                            ELSE [Off EXCEPT !.pc = "check", !.seen = mark]]
               /\ IF wake THEN UNCHANGED file ELSE save_mark(p, mark)
    BY DEF adapter_decides
  <2>2. QED
    BY <2>1, MarkAdvances
<1>3. "settle" \in Places /\ "check" \in Places
  BY DEF Places, Looking
<1>4. PICK news \in SUBSET Int : news = News(proc[p].seen, mark)
  BY MarksTyped DEF News, Marks
<1>5. CASE wake
  <2>1. PICK v : v = [Off EXCEPT !.pc = "settle", !.seen = mark, !.news = news]
    OBVIOUS
  <2>2. v \in ProcRows /\ v.pc = "settle" /\ v.seen = mark /\ v.news = news /\ ~v.woke
    BY <1>3, <1>4, <2>1 DEF Off, ProcRows
  <2>3. proc' = [proc EXCEPT ![p] = v] /\ file' = file
    BY <1>2, <1>4, <1>5, <2>1
  <2>4. QED
    BY <1>1, <1>2, <1>4, <2>2, <2>3, AdapterReads
<1>6. CASE ~wake
  <2>1. PICK v : v = [Off EXCEPT !.pc = "check", !.seen = mark]
    OBVIOUS
  <2>2. v \in ProcRows /\ v.pc = "check" /\ v.seen = mark /\ v.news = {} /\ ~v.woke
    BY <1>3, <2>1, LoopRow, ZenonT(30)
  <2>3. proc' = [proc EXCEPT ![p] = v] /\ save_mark(p, mark)
    BY <1>2, <1>6, <2>1
  <2>4. QED
    BY <1>1, <1>2, <2>2, <2>3, AdapterReads
<1>7. QED
  BY <1>5, <1>6

LEMMA AdapterSavesKeeps ==
  ASSUME WakeInv, NEW p \in Procs, adapter_saves(p) PROVE WakeInv'
<1>1. UNCHANGED <<host, mail, wakes, doubled>> /\ proc[p].pc = "settled"
  BY DEF adapter_saves, window, At
<1>2. host = "codex"
  BY <1>1 DEF WakeInv, WakeTyped, ProcInv
<1>3. PICK mark \in Marks, quiet \in BOOLEAN :
         mark.newest >= proc[p].seen.newest /\ Settled(p, mark, quiet) /\ save_mark(p, mark)
  <2>1. CASE Settled(p, proc[p].seen, FALSE) /\ save_mark(p, proc[p].seen)
    <3> proc[p].seen \in Marks /\ proc[p].seen.newest >= proc[p].seen.newest
      BY MarksTyped
    <3> WITNESS proc[p].seen \in Marks, FALSE \in BOOLEAN
    <3> QED
      BY <2>1
  <2>2. CASE \E r \in Readings(p) :
                LET mark == watch_step(proc[p].seen, r)
                    quiet == ~r.direct /\ r.inbox = 0
                IN  Settled(p, mark, quiet) /\ save_mark(p, mark)
    <3>1. PICK r \in Readings(p) :
             /\ Settled(p, watch_step(proc[p].seen, r), ~r.direct /\ r.inbox = 0)
             /\ save_mark(p, watch_step(proc[p].seen, r))
      BY <2>2
    <3>2. (~r.direct /\ r.inbox = 0) \in BOOLEAN
      OBVIOUS
    <3>3. QED
      BY <3>1, <3>2, MarkAdvances
  <2>3. QED
    BY <2>1, <2>2 DEF adapter_saves
<1>4. PICK pc, news : /\ pc = IF quiet THEN "check" ELSE "deliver"
                      /\ news = IF quiet THEN {} ELSE proc[p].news \cup News(proc[p].seen, mark)
  OBVIOUS
<1>5. pc \in Places /\ news \in SUBSET Int
  <2>1. News(proc[p].seen, mark) \in SUBSET Int /\ proc[p].news \in SUBSET Int
    BY MarksTyped DEF News, Marks, WakeInv, WakeTyped, ProcRows
  <2>2. QED
    BY <1>4, <2>1 DEF Places, Looking, Delivering
<1>6. PICK v : v = [Off EXCEPT !.seen = mark, !.pc = pc, !.news = news]
  OBVIOUS
<1>7. v \in ProcRows /\ v.pc = pc /\ v.seen = mark /\ v.news = news /\ ~v.woke
  BY <1>5, <1>6 DEF Off, ProcRows
<1>8. proc' = [proc EXCEPT ![p] = v]
  BY <1>3, <1>4, <1>6 DEF Settled
<1>9. QED
  BY <1>1, <1>2, <1>3, <1>4, <1>7, <1>8, AdapterReads

LEMMA WakeStep == WakeInv /\ [WakeNext]_wakeVars => WakeInv'
<1> SUFFICES ASSUME WakeInv, [WakeNext]_wakeVars PROVE WakeInv'
  OBVIOUS
<1>1. CASE UNCHANGED wakeVars
  <2>1. /\ SameFile /\ UNCHANGED <<host, proc, wakes, doubled>>
        /\ mail' \in [posted : Nat, read : Nat, sent : Nat, taken : Nat]
    BY <1>1 DEF wakeVars, SameFile, WakeInv, WakeTyped
  <2>2. QED
    BY <2>1, ElsewhereKeeps
<1>2. CASE Window \/ Lapse \/ \E p \in Procs : renews(p)
  BY <1>2, WindowKeeps
<1>3. ASSUME NEW p \in Procs, Waker(p) PROVE WakeInv'
  BY <1>3, CountKeeps, AnnouncesKeeps, WatcherSavesKeeps, RewakesKeeps, AdapterDecidesKeeps,
     SettleKeeps, AdapterSavesKeeps, DeliverKeeps, StartTurnKeeps, ReleaseKeeps, FreeKeeps
  DEF Waker
<1>4. ASSUME NEW p \in Procs,
             \/ watch(p) \/ take(p) \/ refresh_owner(p)
             \/ Ends(p) \/ Stopped(p) \/ Fails(p) \/ WakerDies(p)
      PROVE  WakeInv'
  BY <1>4, WatchKeeps, TakeKeeps, RefreshKeeps, EndsKeep, FailsKeeps
<1>5. QED
  BY <1>1, <1>2, <1>3, <1>4 DEF WakeNext

(* The inductive invariant, for any processes, messages and slips.         *)
THEOREM WakeInvariant == WakeSpec => []WakeInv
  BY WakeInitially, WakeStep, PTL DEF WakeSpec

(* A message wakes its window once, and again only for a lost answer of    *)
(* turn/start or an owner that was overtaken alive, one each: watch_step   *)
(* never goes back, only an owner saves its mark, and it does so before    *)
(* the turn it asks for.                                                   *)
THEOREM NoMessageWakesTwice == WakeSpec => []WokenOnce
<1>1. WakeInv => WokenOnce
  <2> SUFFICES ASSUME WakeInv, NEW d \in Direct PROVE wakes[d] <= 1 + doubled
    BY DEF WokenOnce
  <2>1. WokenInv(d) /\ wakes[d] \in Nat /\ doubled \in Nat
    BY DEF WakeInv, WakeTyped
  <2>2. Cardinality(Carriers(d)) \in Nat
    BY WakeConstants, FS_Subset, FS_CardinalityType DEF Carriers
  <2>3. Bit(LeftInFile(d)) \in Nat
    BY DEF Bit
  <2>4. QED
    BY <2>1, <2>2, <2>3 DEF WokenInv
<1>2. QED
  BY <1>1, WakeInvariant, PTL

(* Only its own process takes an announcement back while it runs and the   *)
(* window is open: heartbeat clears the wake columns of the same token     *)
(* only, however late a retiring process asks.                             *)
THEOREM AnnouncementsStand == WakeSpec => AnnouncementStands
<1> DEFINE Stands ==
        \A p \in Procs : announced = p /\ announced' = Nobody =>
           ~Running(p) \/ ~open' \/ (At(p, {"withdraw"}) /\ proc'[p].pc # "withdraw")
<1>1. WakeInv /\ [WakeNext]_wakeVars => [Stands]_wakeVars
  <2> SUFFICES ASSUME WakeInv, WakeNext, NEW p \in Procs, announced = p, announced' = Nobody
               PROVE  ~Running(p) \/ ~open' \/ (At(p, {"withdraw"}) /\ proc'[p].pc # "withdraw")
    OBVIOUS
  <2>1. p # Nobody
    BY WakeConstants
  <2>2. CASE Window
    BY <2>1, <2>2 DEF Window
  <2>3. CASE Lapse
    BY <2>1, <2>3 DEF Lapse
  <2>4. ASSUME NEW q \in Procs, withdraws(q) PROVE At(p, {"withdraw"}) /\ proc'[p].pc # "withdraw"
    <3>1. q = p
      BY <2>1, <2>4 DEF withdraws, withdraw
    <3>2. proc[p] \in ProcRows /\ proc \in [Procs -> ProcRows]
      BY DEF WakeInv, WakeTyped
    <3>3. After(p)
      BY <2>4, <3>1 DEF withdraws
    <3>4. CASE \E pc \in {"wake", "free"} : Goto(p, pc)
      BY <2>4, <3>1, <3>2, <3>4 DEF Goto, ProcRows, withdraws
    <3>5. CASE Quit(p)
      <4>1. [Off EXCEPT !.pc = "done"].pc = "done"
        BY EndRow DEF Places
      <4>2. QED
        BY <2>4, <3>1, <3>2, <3>5, <4>1 DEF Quit, withdraws
    <3>6. (\E pc \in {"wake", "free"} : Goto(p, pc)) \/ Quit(p)
      BY <3>3 DEF After
    <3>7. QED
      BY <2>4, <3>1, <3>4, <3>5, <3>6 DEF withdraws
  <2>5. ASSUME NEW q \in Procs,
               (Waker(q) /\ ~withdraws(q)) \/ watch(q) \/ take(q) \/ renews(q) \/ refresh_owner(q)
               \/ Ends(q) \/ Stopped(q) \/ Fails(q) \/ WakerDies(q)
        PROVE  FALSE
    <3>1. announced' = announced \/ announced' = q
      BY <2>5 DEF Waker, watch, take, renews, refresh_owner, Ends, Stopped, Fails, WakerDies, announce,
                  count, announces, watcher_saves, Rewakes, adapter_decides, settle, adapter_saves,
                  deliver, wait_until_idle, start_turn, release, free
    <3>2. q # Nobody
      BY WakeConstants
    <3>3. QED
      BY <2>1, <3>1, <3>2
  <2>6. QED
    BY <2>2, <2>3, <2>4, <2>5 DEF WakeNext, Waker
<1>2. QED
  BY <1>1, WakeInvariant, PTL DEF WakeSpec, AnnouncementStands

=============================================================================
