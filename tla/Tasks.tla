------------------------------- MODULE Tasks --------------------------------
(***************************************************************************)
(* The task board of one team: store/tasks.rs.                             *)
(*                                                                         *)
(* A window is an (agent, session) pair.  Every mutation is a transaction: *)
(*   Begin   BEGIN and sessions::guard (create_task has no guard).  now()  *)
(*           is fixed here.                                                *)
(*   Ask     the UPDATE starts: its WHERE, dependencies included, is       *)
(*           evaluated on the rows committed at this moment.               *)
(*   Take    the row lock is granted, after any wait.  Postgres evaluates  *)
(*           the WHERE again on the latest row, but the sub-query on the   *)
(*           dependencies keeps the snapshot of Ask and now() is the one   *)
(*           of Begin.                                                     *)
(*   Commit  the row and its task_events entry become visible.             *)
(* A refusal by the guard (the module Sessions), an error or a crash rolls *)
(* back: Abort.                                                            *)
(***************************************************************************)
EXTENDS Callers, FiniteSets

CONSTANTS Keys,      \* task keys
          LeaseSecs  \* durations a caller may ask for, after the clamp

ASSUME TasksConstants == LeaseSecs \subseteq Nat \ {0} /\ None \notin Keys

VARIABLES task, pc, op, who, key, now, deps

vars == <<clock, task, pc, op, who, key, now, deps>>
req == <<op, who, key, now, deps>>

(* NULL of lease_expires_at.                                               *)
NoLease == -1

(* claimed_by and claimed_session are one field, holder.  No code sets the *)
(* status cancelled.  "absent": no row.                                    *)
TaskRows ==
    [status : {"absent", "open", "claimed", "done"}, holder : Windows \cup {None},
     lease : Int, deps : SUBSET Keys]
Absent == [status |-> "absent", holder |-> None, lease |-> NoLease, deps |-> {}]

Ops == {"create", "claim", "claim_next", "renew", "release", "complete"}

Exists(k) == task[k].status # "absent"
Finished(k) == task[k].status = "done"
Blocked(k) == \E d \in task[k].deps : ~Finished(d)

TypeOK ==
    /\ clock \in 0..MaxClock
    /\ task \in [Keys -> TaskRows]
    /\ \A k \in Keys : task[k].status = "claimed" => task[k].holder \in Windows
    /\ pc \in [Reqs -> {"idle", "begun", "asked", "held"}]
    /\ op \in [Reqs -> Ops \cup {None}]
    /\ who \in [Reqs -> Windows \cup {None}]
    /\ key \in [Reqs -> Keys \cup {None}]
    /\ now \in [Reqs -> 0..MaxClock]
    /\ deps \in [Reqs -> SUBSET Keys]

Init ==
    /\ clock = 0
    /\ task = [k \in Keys |-> Absent]
    /\ pc = [r \in Reqs |-> "idle"]
    /\ op = [r \in Reqs |-> None]
    /\ who = [r \in Reqs |-> None]
    /\ key = [r \in Reqs |-> None]
    /\ now = [r \in Reqs |-> 0]
    /\ deps = [r \in Reqs |-> {}]

-----------------------------------------------------------------------------
(* The WHERE clauses.  x is a row, w the caller, t its transaction's now().*)

Mine(x, w) == x.status = "claimed" /\ x.holder = w

Claimable(x, w, t) ==
    /\ x.status \in {"open", "claimed"}
    /\ \/ x.status = "open"
       \/ x.holder = w
       \/ x.lease = NoLease
       \/ x.lease < t

NextClaimable(x, t) ==
    x.status = "open" \/ (x.status = "claimed" /\ x.lease # NoLease /\ x.lease < t)

Renewable(x, w, t) == Mine(x, w) /\ x.lease > t

(* Mutant: a window that does not know of the claim may complete.          *)
CompletableByAnyone(x, w, t) == x.status \in {"open", "claimed"}

Completable(x, w, t) ==
    /\ x.status \in {"open", "claimed"}
    /\ \/ x.holder = None
       \/ x.lease = NoLease
       \/ x.lease <= t
       \/ x.holder = w

Admits(o, x, w, t) ==
    CASE o = "claim"    -> Claimable(x, w, t)
      [] o = "renew"    -> Renewable(x, w, t)
      [] o = "release"  -> Mine(x, w)
      [] o = "complete" -> Completable(x, w, t)
      [] OTHER          -> FALSE

-----------------------------------------------------------------------------
Holding(r) == pc[r] = "held"
RowFree(r, k) == \A q \in Reqs \ {r} : ~(Holding(q) /\ key[q] = k)

End(r) ==
    /\ pc' = [pc EXCEPT ![r] = "idle"]
    /\ op' = [op EXCEPT ![r] = None]
    /\ who' = [who EXCEPT ![r] = None]
    /\ key' = [key EXCEPT ![r] = None]
    /\ now' = [now EXCEPT ![r] = 0]
    /\ deps' = [deps EXCEPT ![r] = {}]

Goto(r, to) == pc' = [pc EXCEPT ![r] = to]

Refuse(r) == End(r) /\ UNCHANGED <<clock, task>>

(* BEGIN and guard; k is None for claim_next_task, D is what depends_on    *)
(* names (create_task only).                                               *)
Begin(r, o, w, k, D) ==
    /\ pc[r] = "idle"
    /\ Goto(r, "begun")
    /\ op' = [op EXCEPT ![r] = o]
    /\ who' = [who EXCEPT ![r] = w]
    /\ key' = [key EXCEPT ![r] = k]
    /\ now' = [now EXCEPT ![r] = clock]
    /\ deps' = [deps EXCEPT ![r] = D]
    /\ UNCHANGED <<clock, task>>

Abort(r) == pc[r] # "idle" /\ Refuse(r)

-----------------------------------------------------------------------------
(* create_task                                                             *)

(* "a task cannot depend on itself", refused before the transaction.       *)
MayDepend(k, D) == k \notin D

(* Any agent may create; created_by decides nothing.                       *)
CreateBegin(r, k, D) == MayDepend(k, D) /\ Begin(r, "create", None, k, D)

(* INSERT ... ON CONFLICT DO NOTHING: waits for another insert of the key. *)
CreateInsert(r) ==
    /\ pc[r] = "begun" /\ op[r] = "create"
    /\ RowFree(r, key[r])
    /\ \/ Exists(key[r]) /\ Refuse(r)
       \/ ~Exists(key[r]) /\ Goto(r, "held") /\ UNCHANGED <<clock, task, req>>

(* The dependencies are resolved in the transaction, which sees what is    *)
(* committed and its own row; a key that is missing rolls everything back. *)
Resolved(r) == \A d \in deps[r] : Exists(d) \/ d = key[r]

Created(r) == [Absent EXCEPT !.status = "open", !.deps = deps[r]]

CreateCommit(r) ==
    /\ Holding(r) /\ op[r] = "create"
    /\ \/ ~Resolved(r) /\ Refuse(r)
       \/ /\ Resolved(r)
          /\ task' = [task EXCEPT ![key[r]] = Created(r)]
          /\ End(r)
          /\ UNCHANGED clock

-----------------------------------------------------------------------------
(* claim_task, renew_lease, release_task, complete_task                    *)

(* Only a claim asks about dependencies.                                   *)
Ask(r) ==
    /\ pc[r] = "begun" /\ op[r] \in Ops \ {"create", "claim_next"}
    /\ LET x == task[key[r]]
           ok == /\ Admits(op[r], x, who[r], now[r])
                 /\ op[r] = "claim" => ~Blocked(key[r])
       IN  \/ ok /\ Goto(r, "asked") /\ UNCHANGED <<clock, task, req>>
           \/ ~ok /\ Refuse(r)

(* Mutant: the row found at Ask is not read again after the wait.          *)
TakeUnread(r) ==
    /\ pc[r] = "asked" /\ RowFree(r, key[r])
    /\ Goto(r, "held")
    /\ UNCHANGED <<clock, task, req>>

Take(r) ==
    /\ pc[r] = "asked" /\ RowFree(r, key[r])
    /\ LET ok == Admits(op[r], task[key[r]], who[r], now[r])
       IN  \/ ok /\ Goto(r, "held") /\ UNCHANGED <<clock, task, req>>
           \/ ~ok /\ Refuse(r)

-----------------------------------------------------------------------------
(* claim_next_task: a row nobody has locked (SKIP LOCKED), chosen and      *)
(* locked in one statement.  The code takes the oldest; no property here   *)
(* depends on which one it is, so any candidate may be taken.              *)

(* Mutant: the queue hands out a task whose dependencies are not done.     *)
CandidatesAnyway(r) ==
    {k \in Keys : NextClaimable(task[k], now[r]) /\ RowFree(r, k)}

Candidates(r) ==
    {k \in Keys : NextClaimable(task[k], now[r]) /\ ~Blocked(k) /\ RowFree(r, k)}

TakeNext(r) ==
    /\ pc[r] = "begun" /\ op[r] = "claim_next"
    /\ \/ Candidates(r) = {} /\ Refuse(r)
       \/ \E k \in Candidates(r) :
             /\ key' = [key EXCEPT ![r] = k]
             /\ Goto(r, "held")
             /\ UNCHANGED <<clock, task, op, who, now, deps>>

-----------------------------------------------------------------------------
(* The SET clauses, and COMMIT.                                            *)

Updated(r, secs) ==
    LET x == task[key[r]]
    IN  CASE op[r] \in {"claim", "claim_next"} ->
               [x EXCEPT !.status = "claimed", !.holder = who[r],
                         !.lease = now[r] + secs]
          [] op[r] = "renew"   -> [x EXCEPT !.lease = now[r] + secs]
          [] op[r] = "release" -> [x EXCEPT !.status = "open", !.holder = None,
                                            !.lease = NoLease]
          [] OTHER             -> [x EXCEPT !.status = "done", !.lease = NoLease]

Commit(r, secs) ==
    /\ Holding(r) /\ op[r] # "create"
    /\ task' = [task EXCEPT ![key[r]] = Updated(r, secs)]
    /\ End(r)
    /\ UNCHANGED clock

Tick == Advance /\ UNCHANGED <<task, pc, req>>

Next ==
    \/ Tick
    \/ \E r \in Reqs :
          \/ \E k \in Keys, D \in SUBSET Keys : CreateBegin(r, k, D)
          \/ \E w \in Windows, k \in Keys, o \in Ops \ {"create", "claim_next"} :
                Begin(r, o, w, k, {})
          \/ \E w \in Windows : Begin(r, "claim_next", w, None, {})
          \/ CreateInsert(r) \/ CreateCommit(r)
          \/ Ask(r) \/ Take(r) \/ TakeNext(r)
          \/ \E s \in LeaseSecs : Commit(r, s)
          \/ Abort(r)

Spec == Init /\ [][Next]_vars

-----------------------------------------------------------------------------
(* Properties.                                                             *)

(* No task is claimed while one it depends on is unfinished, whatever      *)
(* create_task, claims and completions overlap (#179).                     *)
ClaimedOnlyUnblocked ==
    \A k \in Keys : task[k].status = "claimed" => ~Blocked(k)

(* create_task: "no cycle is possible by construction", so every task can  *)
(* become claimable; concurrent creations naming each other included.      *)
NoDependencyCycle ==
    \A S \in SUBSET {k \in Keys : Exists(k)} :
        S # {} => \E k \in S : task[k].deps \cap S = {}

(* Tasks keep the promise of a lease.                                      *)
AsLease ==
    INSTANCE Lease WITH
        Resources <- Keys,
        holder <- [k \in Keys |-> IF task[k].status = "claimed"
                                  THEN task[k].holder ELSE None],
        until <- [k \in Keys |-> task[k].lease]

(* A claim passes to another window only when it was released, or when its *)
(* lease ran out by the real clock: store/tasks.rs implements Lease.       *)
TasksImplementLease == AsLease!Spec

(* A claim that runs by the real clock is renewed, released and completed  *)
(* by requests of the window that holds it and by nobody else's, whatever  *)
(* the row was when they asked and however long they waited for it.        *)
LiveClaimBelongsToHolder ==
    [][\A k \in Keys :
          /\ task[k].status = "claimed" /\ task[k].lease > clock
          /\ task'[k] # task[k]
          => \E r \in Reqs : /\ Holding(r) /\ ~Holding(r)'
                             /\ key[r] = k /\ who[r] = task[k].holder]_vars
=============================================================================
