---------------------------- MODULE BoardProofs -----------------------------
(***************************************************************************)
(* Proofs about the team's boards, for any number of windows, requests,    *)
(* locks, tasks and messages: the lock table and the task board implement  *)
(* module Lease; a claimed task is not blocked and no dependencies form a  *)
(* cycle; a read cursor passes only what it returned or what came late.    *)
(***************************************************************************)
EXTENDS Tasks, Locks, Messages, FiniteSetTheorems, WellFoundedInduction, TLAPS

-----------------------------------------------------------------------------
(*                             Advisory locks                              *)

(* now() is never ahead of the real clock: what lapsed for a statement     *)
(* that waited has lapsed.                                                 *)
ClocksBehind == \A r \in Reqs : lnow[r] <= clock

LocksInv == LocksTypeOK /\ ClocksBehind

-----------------------------------------------------------------------------
LEMMA LocksInitially == ASSUME LocksInit PROVE LocksInv
BY CallersConstants, LocksConstants
DEF LocksInit, LocksInv, LocksTypeOK, ClocksBehind, LockRows, NoLock

LEMMA EndKeeps ==
    ASSUME LocksInv, NEW r \in Reqs, LockEnd(r),
           lock' \in [Names -> LockRows], UNCHANGED clock
    PROVE  LocksInv'
BY CallersConstants, LocksConstants
DEF LocksInv, LocksTypeOK, ClocksBehind, LockEnd

LEMMA AcquireKeeps ==
    ASSUME LocksInv, NEW r \in Reqs, NEW ttl \in TTLs, Acquire(r, ttl)
    PROVE  LocksInv'
<1>1. lwho[r] \in Windows /\ lname[r] \in Names /\ lnow[r] + ttl \in Int
  BY CallersConstants, LocksConstants
  DEF LocksInv, LocksTypeOK, Acquire
<1>2. lock' \in [Names -> LockRows]
  BY <1>1 DEF LocksInv, LocksTypeOK, Acquire, LockRows
<1>3. QED
  BY <1>2, EndKeeps DEF Acquire

LEMMA ReleaseKeeps ==
    ASSUME LocksInv, NEW r \in Reqs, Release(r)
    PROVE  LocksInv'
<1>1. lock' \in [Names -> LockRows]
  BY DEF LocksInv, LocksTypeOK, Release, LockRows, NoLock
<1>2. QED
  BY <1>1, EndKeeps DEF Release

(* Every step keeps the types and no clock overtakes the real one.         *)
LEMMA LocksStep ==
    ASSUME LocksInv, [LocksNext]_lockVars
    PROVE  LocksInv'
<1>1. CASE LocksTick
  BY <1>1, CallersConstants, LocksConstants
  DEF LocksTick, Advance, LocksInv, LocksTypeOK, ClocksBehind
<1>2. ASSUME NEW r \in Reqs, NEW w \in Windows, NEW n \in Names,
             NEW o \in {"acquire", "release"}, LockBegin(r, o, w, n)
      PROVE  LocksInv'
  BY <1>2, CallersConstants, LocksConstants
  DEF LockBegin, LocksInv, LocksTypeOK, ClocksBehind
<1>3. ASSUME NEW r \in Reqs, NEW ttl \in TTLs, Acquire(r, ttl)
      PROVE  LocksInv'
  BY <1>3, AcquireKeeps
<1>4. ASSUME NEW r \in Reqs, Release(r)
      PROVE  LocksInv'
  BY <1>4, ReleaseKeeps
<1>5. ASSUME NEW r \in Reqs, LockAbort(r)
      PROVE  LocksInv'
  <2>1. lock' \in [Names -> LockRows]
    BY <1>5 DEF LockAbort, LocksInv, LocksTypeOK
  <2>2. QED
    BY <1>5, <2>1, EndKeeps DEF LockAbort
<1>6. CASE UNCHANGED lockVars
  BY <1>6 DEF lockVars, LocksInv, LocksTypeOK, ClocksBehind
<1>7. QED
  BY <1>1, <1>2, <1>3, <1>4, <1>5, <1>6 DEF LocksNext

(* The lock table is well typed, its open requests name a lock and a       *)
(* window, and no transaction's now() is ahead of the clock.               *)
THEOREM LocksInvariant == LocksSpec => []LocksInv
<1>1. LocksInit => LocksInv
  BY LocksInitially
<1>2. LocksInv /\ [LocksNext]_lockVars => LocksInv'
  BY LocksStep
<1>3. QED
  BY <1>1, <1>2, PTL DEF LocksSpec

-----------------------------------------------------------------------------
(* acquire_lock is a grant of the abstract lease, or changes nothing.      *)
LEMMA AcquireGrants ==
    ASSUME LocksInv, NEW r \in Reqs, NEW ttl \in TTLs, Acquire(r, ttl)
    PROVE  [LocksAsLease!Next]_(LocksAsLease!vars)
<1>1. /\ lname[r] \in Names /\ lwho[r] \in Windows
      /\ clock \in Int /\ lnow[r] \in Int /\ lnow[r] <= clock
  BY CallersConstants, LocksConstants
  DEF LocksInv, LocksTypeOK, ClocksBehind, Acquire
<1>2. PICK n \in Names, w \in Windows : n = lname[r] /\ w = lwho[r]
  BY <1>1
<1>3. CASE ~MayAcquire(lock[n], w, lnow[r])
  BY <1>2, <1>3 DEF Acquire, LocksAsLease!vars
<1>4. CASE MayAcquire(lock[n], w, lnow[r])
  <2>1. lock' = [lock EXCEPT ![n] = [holder |-> w, expires |-> lnow[r] + ttl]]
    BY <1>2, <1>4 DEF Acquire
  <2>2. LocksAsLease!Live(n) => lock[n].holder = w
    BY <1>1, <1>4 DEF MayAcquire, LocksAsLease!Live, LocksInv, LocksTypeOK, LockRows
  <2>3. [k \in Names |-> lock'[k].holder]
            = [[k \in Names |-> lock[k].holder] EXCEPT ![n] = w]
    BY <2>1 DEF LocksInv, LocksTypeOK
  <2>4. [k \in Names |-> lock'[k].expires]
            = [[k \in Names |-> lock[k].expires] EXCEPT ![n] = lock'[n].expires]
    BY <2>1 DEF LocksInv, LocksTypeOK
  <2>5. LocksAsLease!Grant(n, w)
    BY <2>2, <2>3, <2>4 DEF LocksAsLease!Grant, Acquire
  <2>6. QED
    BY <2>5 DEF LocksAsLease!Next
<1>5. QED
  BY <1>3, <1>4

(* release_lock frees, or changes nothing.                                 *)
LEMMA ReleaseFrees ==
    ASSUME LocksInv, NEW r \in Reqs, Release(r)
    PROVE  [LocksAsLease!Next]_(LocksAsLease!vars)
<1>1. PICK n \in Names : n = lname[r]
  BY DEF LocksInv, LocksTypeOK, Release
<1>2. CASE ~MayRelease(lock[n], lwho[r])
  BY <1>1, <1>2 DEF Release, LocksAsLease!vars
<1>3. CASE MayRelease(lock[n], lwho[r])
  <2>1. lock' = [lock EXCEPT ![n] = NoLock]
    BY <1>1, <1>3 DEF Release
  <2>2. [k \in Names |-> lock'[k].holder]
            = [[k \in Names |-> lock[k].holder] EXCEPT ![n] = None]
    BY <2>1 DEF LocksInv, LocksTypeOK, NoLock
  <2>3. [k \in Names |-> lock'[k].expires]
            = [[k \in Names |-> lock[k].expires] EXCEPT ![n] = lock'[n].expires]
    BY <2>1 DEF LocksInv, LocksTypeOK, NoLock
  <2>4. LocksAsLease!Free(n)
    BY <2>2, <2>3 DEF LocksAsLease!Free, Release
  <2>5. QED
    BY <2>4 DEF LocksAsLease!Next
<1>4. QED
  BY <1>2, <1>3

(* store/locks.rs implements Lease: a lock passes from one window to       *)
(* another only through a release or after it lapsed by the real clock,    *)
(* however long acquire_lock waited and with whatever now().               *)
THEOREM LocksRefineLease == LocksSpec => LocksImplementLease
<1>1. LocksInit => LocksAsLease!Init
  BY DEF LocksInit, LocksAsLease!Init, NoLock
<1>2. LocksInv /\ [LocksNext]_lockVars => [LocksAsLease!Next]_(LocksAsLease!vars)
  <2> SUFFICES ASSUME LocksInv, [LocksNext]_lockVars
               PROVE  [LocksAsLease!Next]_(LocksAsLease!vars)
    OBVIOUS
  <2>1. CASE LocksTick
    BY <2>1 DEF LocksTick, Advance, LocksAsLease!Next, LocksAsLease!Tick
  <2>2. ASSUME NEW r \in Reqs, NEW w \in Windows, NEW n \in Names,
               NEW o \in {"acquire", "release"}, LockBegin(r, o, w, n)
        PROVE  [LocksAsLease!Next]_(LocksAsLease!vars)
    BY <2>2 DEF LockBegin, LocksAsLease!vars
  <2>3. ASSUME NEW r \in Reqs, NEW ttl \in TTLs, Acquire(r, ttl)
        PROVE  [LocksAsLease!Next]_(LocksAsLease!vars)
    BY <2>3, AcquireGrants
  <2>4. ASSUME NEW r \in Reqs, Release(r)
        PROVE  [LocksAsLease!Next]_(LocksAsLease!vars)
    BY <2>4, ReleaseFrees
  <2>5. ASSUME NEW r \in Reqs, LockAbort(r)
        PROVE  [LocksAsLease!Next]_(LocksAsLease!vars)
    BY <2>5 DEF LockAbort, LocksAsLease!vars
  <2>6. CASE UNCHANGED lockVars
    BY <2>6 DEF lockVars, LocksAsLease!vars
  <2>7. QED
    BY <2>1, <2>2, <2>3, <2>4, <2>5, <2>6 DEF LocksNext
<1>3. QED
  BY <1>1, <1>2, LocksInvariant, PTL DEF LocksSpec, LocksImplementLease, LocksAsLease!Spec

-----------------------------------------------------------------------------
(* A request that changes a running lock is its holder's.                  *)
LEMMA OnlyHolderChanges ==
    ASSUME LocksInv, NEW n \in Names, NEW r \in Reqs,
           Release(r) \/ \E ttl \in TTLs : Acquire(r, ttl),
           lock[n].holder # None, lock[n].expires > clock, lock'[n] # lock[n]
    PROVE  /\ lpc[r] # "idle" /\ lpc'[r] = "idle"
           /\ lname[r] = n /\ lwho[r] = lock[n].holder
<1>1. lpc[r] # "idle" /\ lpc'[r] = "idle"
  BY DEF Acquire, Release, LockEnd, LocksInv, LocksTypeOK
<1>2. lock[n].expires \in Int /\ lnow[r] \in Int /\ clock \in Int /\ lnow[r] <= clock
  BY CallersConstants, LocksConstants
  DEF LocksInv, LocksTypeOK, ClocksBehind, LockRows
<1>3. lname[r] = n
  BY DEF Acquire, Release, LocksInv, LocksTypeOK
<1>4. CASE Release(r)
  BY <1>1, <1>3, <1>4 DEF Release, MayRelease
<1>5. CASE \E ttl \in TTLs : Acquire(r, ttl)
  <2>1. MayAcquire(lock[n], lwho[r], lnow[r])
    BY <1>3, <1>5 DEF Acquire
  <2>2. QED
    BY <1>1, <1>2, <1>3, <2>1 DEF MayAcquire
<1>6. QED
  BY <1>4, <1>5

(* A lock that still runs by the real clock is extended and released by    *)
(* its own window only, whichever acquire_lock or release_lock waited.     *)
THEOREM RunningLocksAreKept == LocksSpec => LiveLockBelongsToHolder
<1> DEFINE Kept ==
        \A n \in Names :
            /\ lock[n].holder # None /\ lock[n].expires > clock
            /\ lock'[n] # lock[n]
            => \E r \in Reqs : /\ lpc[r] # "idle" /\ lpc'[r] = "idle"
                               /\ lname[r] = n /\ lwho[r] = lock[n].holder
<1>1. LocksInv /\ [LocksNext]_lockVars => [Kept]_lockVars
  <2> SUFFICES ASSUME LocksInv, LocksNext PROVE Kept
    BY DEF lockVars
  <2>1. ASSUME NEW r \in Reqs, Release(r) \/ \E ttl \in TTLs : Acquire(r, ttl)
        PROVE  Kept
    BY <2>1, OnlyHolderChanges
  <2>2. CASE UNCHANGED lock
    BY <2>2
  <2>3. QED
    BY <2>1, <2>2 DEF LocksNext, LocksTick, LockBegin, LockAbort
<1>2. QED
  BY <1>1, LocksInvariant, PTL DEF LocksSpec, LiveLockBelongsToHolder

-----------------------------------------------------------------------------
(*                             The task board                              *)

(* Once begun, a request names a window; once it asked or holds, a row.    *)
RequestsNamed ==
    \A r \in Reqs : pc[r] # "idle" =>
        /\ op[r] \in Ops
        /\ op[r] # "create" => who[r] \in Windows
        /\ op[r] # "claim_next" \/ pc[r] = "held" => key[r] \in Keys
        /\ pc[r] = "asked" => op[r] \notin {"create", "claim_next"}

(* No transaction's now() is ahead of the clock.                           *)
TasksClocksBehind == \A r \in Reqs : now[r] <= clock

(* A row lock has one holder.                                              *)
RowsHeldOnce ==
    \A q, r \in Reqs : Holding(q) /\ Holding(r) /\ key[q] = key[r] => q = r

(* The row a request has locked still satisfies the WHERE under which it   *)
(* took the lock.                                                          *)
HeldAdmits ==
    \A r \in Reqs : Holding(r) =>
        CASE op[r] = "create"     -> ~Exists(key[r])
          [] op[r] = "claim_next" -> NextClaimable(task[key[r]], now[r])
          [] OTHER                -> Admits(op[r], task[key[r]], who[r], now[r])

(* A claim that was let past the dependency check is past it for good.     *)
ClaimsUnblocked ==
    \A r \in Reqs :
        /\ op[r] = "claim" /\ pc[r] \in {"asked", "held"}
              => Exists(key[r]) /\ ~Blocked(key[r])
        /\ op[r] = "claim_next" /\ Holding(r) => Exists(key[r]) /\ ~Blocked(key[r])

(* A task depends on tasks that exist, and a creation not on itself.       *)
DependenciesExist ==
    /\ \A k \in Keys : Exists(k) => \A d \in task[k].deps : Exists(d)
    /\ \A r \in Reqs : pc[r] # "idle" /\ op[r] = "create" => key[r] \notin deps[r]

TasksInv ==
    /\ TypeOK
    /\ RequestsNamed
    /\ TasksClocksBehind
    /\ RowsHeldOnce
    /\ HeldAdmits
    /\ ClaimsUnblocked
    /\ DependenciesExist
    /\ ClaimedOnlyUnblocked
    /\ NoDependencyCycle

LEMMA TasksInitially == ASSUME Init PROVE TasksInv
<1>1. TypeOK
  BY CallersConstants, TasksConstants DEF Init, TypeOK, TaskRows, Absent, NoLease
<1>2. \A k \in Keys : ~Exists(k) /\ task[k].status # "claimed"
  BY DEF Init, Exists, Absent
<1>3. QED
  BY <1>1, <1>2
  DEF Init, TasksInv, RequestsNamed, TasksClocksBehind, RowsHeldOnce, HeldAdmits, Holding,
      ClaimsUnblocked, DependenciesExist, ClaimedOnlyUnblocked, NoDependencyCycle

(* What is said of the tasks alone holds on while no row changes.          *)
LEMMA BoardUntouched ==
    ASSUME TasksInv, UNCHANGED task
    PROVE  /\ ClaimedOnlyUnblocked' /\ NoDependencyCycle'
           /\ \A k \in Keys : Exists(k) => \A d \in task'[k].deps : Exists(d)'
           /\ \A k : Exists(k)' <=> Exists(k)
           /\ \A k : Blocked(k)' <=> Blocked(k)
BY DEF TasksInv, ClaimedOnlyUnblocked, NoDependencyCycle, DependenciesExist, Exists, Blocked,
       Finished

LEMMA TickKeepsTasks == ASSUME TasksInv, Tick PROVE TasksInv'
<1>1. TypeOK' /\ TasksClocksBehind'
  BY CallersConstants DEF TasksInv, TypeOK, TasksClocksBehind, Tick, Advance, req
<1>2. RequestsNamed' /\ RowsHeldOnce' /\ HeldAdmits'
  BY DEF TasksInv, RequestsNamed, RowsHeldOnce, HeldAdmits, Holding, Exists, Tick, req
<1>3. ClaimsUnblocked' /\ DependenciesExist'
  BY BoardUntouched DEF TasksInv, ClaimsUnblocked, DependenciesExist, Holding, Tick, req
<1>4. QED
  BY <1>1, <1>2, <1>3, BoardUntouched DEF TasksInv, Tick

(* A request ends and the board is as it was.                              *)
LEMMA RefuseKeeps == ASSUME TasksInv, NEW r \in Reqs, Refuse(r) PROVE TasksInv'
<1>1. TypeOK' /\ TasksClocksBehind'
  BY CallersConstants, TasksConstants
  DEF TasksInv, TypeOK, TasksClocksBehind, Refuse, End
<1>2. /\ task' = task
      /\ pc'[r] = "idle" /\ op'[r] = None
      /\ \A q \in Reqs \ {r} : /\ pc'[q] = pc[q] /\ op'[q] = op[q] /\ who'[q] = who[q]
                               /\ key'[q] = key[q] /\ now'[q] = now[q] /\ deps'[q] = deps[q]
  BY DEF TasksInv, TypeOK, Refuse, End
<1>3. RequestsNamed' /\ RowsHeldOnce'
  BY <1>2 DEF TasksInv, RequestsNamed, RowsHeldOnce, Holding
<1>4. HeldAdmits'
  BY <1>2 DEF TasksInv, HeldAdmits, Holding, Exists
<1>5. ClaimsUnblocked' /\ DependenciesExist'
  BY <1>2, BoardUntouched DEF TasksInv, ClaimsUnblocked, DependenciesExist, Holding
<1>6. QED
  BY <1>1, <1>2, <1>3, <1>4, <1>5, BoardUntouched DEF TasksInv

LEMMA BeginKeeps ==
    ASSUME TasksInv, NEW r \in Reqs, NEW o \in Ops, NEW w \in Windows \cup {None},
           NEW k \in Keys \cup {None}, NEW D \in SUBSET Keys, Begin(r, o, w, k, D),
           o # "create" => w \in Windows, o # "claim_next" => k \in Keys,
           o = "create" => k \notin D
    PROVE  TasksInv'
<1>1. TypeOK' /\ TasksClocksBehind'
  BY CallersConstants, TasksConstants
  DEF TasksInv, TypeOK, TasksClocksBehind, Begin, Goto
<1>2. /\ task' = task
      /\ pc'[r] = "begun" /\ op'[r] = o /\ who'[r] = w /\ key'[r] = k /\ deps'[r] = D
      /\ \A q \in Reqs \ {r} : /\ pc'[q] = pc[q] /\ op'[q] = op[q] /\ who'[q] = who[q]
                               /\ key'[q] = key[q] /\ now'[q] = now[q] /\ deps'[q] = deps[q]
  BY DEF TasksInv, TypeOK, Begin, Goto
<1>3. RequestsNamed' /\ RowsHeldOnce'
  BY <1>2 DEF TasksInv, RequestsNamed, RowsHeldOnce, Holding
<1>4. HeldAdmits'
  BY <1>2 DEF TasksInv, HeldAdmits, Holding, Exists
<1>5. ClaimsUnblocked' /\ DependenciesExist'
  BY <1>2, BoardUntouched DEF TasksInv, ClaimsUnblocked, DependenciesExist, Holding
<1>6. QED
  BY <1>1, <1>2, <1>3, <1>4, <1>5, BoardUntouched DEF TasksInv

(* A statement moves a request on, to "asked" or, with a free row that     *)
(* satisfies its WHERE, to "held".                                         *)
LEMMA MoveKeeps ==
    ASSUME TasksInv, NEW r \in Reqs, NEW to \in {"asked", "held"}, NEW k \in Keys,
           pc[r] # "idle", Goto(r, to), key' = [key EXCEPT ![r] = k],
           op[r] # "claim_next" => k = key[r],
           UNCHANGED <<clock, task, op, who, now, deps>>,
           to = "asked" => op[r] \notin {"create", "claim_next"},
           op[r] \in {"claim", "claim_next"} => Exists(k) /\ ~Blocked(k),
           to = "held" => /\ RowFree(r, k)
                          /\ CASE op[r] = "create"     -> ~Exists(k)
                               [] op[r] = "claim_next" -> NextClaimable(task[k], now[r])
                               [] OTHER                -> Admits(op[r], task[k], who[r], now[r])
    PROVE  TasksInv'
<1>1. TypeOK' /\ TasksClocksBehind'
  BY DEF TasksInv, TypeOK, TasksClocksBehind, Goto
<1>2. /\ pc'[r] = to /\ key'[r] = k
      /\ \A q \in Reqs \ {r} : pc'[q] = pc[q] /\ key'[q] = key[q]
  BY DEF TasksInv, TypeOK, Goto
<1>3. RequestsNamed'
  BY <1>2 DEF TasksInv, RequestsNamed, Ops
<1>4. RowsHeldOnce'
  BY <1>2 DEF TasksInv, RowsHeldOnce, Holding, RowFree
<1>5. HeldAdmits'
  BY <1>2 DEF TasksInv, HeldAdmits, Holding, Exists
<1>6. ClaimsUnblocked' /\ DependenciesExist'
  BY <1>2, BoardUntouched DEF TasksInv, ClaimsUnblocked, DependenciesExist, Holding
<1>7. QED
  BY <1>1, <1>3, <1>4, <1>5, <1>6, BoardUntouched DEF TasksInv

LEMMA StatementKeeps ==
    ASSUME TasksInv, NEW r \in Reqs, CreateInsert(r) \/ Ask(r) \/ Take(r) \/ TakeNext(r)
    PROVE  TasksInv'
<1> USE DEF req
<1>1. CASE Refuse(r)
  BY <1>1, RefuseKeeps
<1>2. CASE CreateInsert(r) /\ ~Refuse(r)
  <2>1. key[r] \in Keys /\ key' = [key EXCEPT ![r] = key[r]]
    BY <1>2 DEF CreateInsert, TasksInv, RequestsNamed, TypeOK, Ops
  <2>2. QED
    BY <1>2, <2>1, MoveKeeps DEF CreateInsert
<1>3. CASE Ask(r) /\ ~Refuse(r)
  <2>1. key[r] \in Keys /\ key' = [key EXCEPT ![r] = key[r]]
    BY <1>3 DEF Ask, TasksInv, RequestsNamed, TypeOK, Ops
  <2>2. op[r] = "claim" => Exists(key[r]) /\ ~Blocked(key[r])
    BY <1>3 DEF Ask, Admits, Claimable, Exists
  <2>3. QED
    BY <1>3, <2>1, <2>2, MoveKeeps DEF Ask
<1>4. CASE Take(r) /\ ~Refuse(r)
  <2>1. /\ key[r] \in Keys /\ key' = [key EXCEPT ![r] = key[r]]
        /\ op[r] \notin {"create", "claim_next"}
    BY <1>4 DEF Take, TasksInv, RequestsNamed, TypeOK, Ops
  <2>2. op[r] = "claim" => Exists(key[r]) /\ ~Blocked(key[r])
    BY <1>4 DEF Take, TasksInv, ClaimsUnblocked
  <2>3. QED
    BY <1>4, <2>1, <2>2, MoveKeeps DEF Take
<1>5. CASE TakeNext(r) /\ ~Refuse(r)
  <2>1. PICK k \in Candidates(r) :
          /\ key' = [key EXCEPT ![r] = k]
          /\ Goto(r, "held")
          /\ UNCHANGED <<clock, task, op, who, now, deps>>
    BY <1>5 DEF TakeNext
  <2>2. k \in Keys /\ NextClaimable(task[k], now[r]) /\ ~Blocked(k) /\ RowFree(r, k)
    BY DEF Candidates
  <2>3. Exists(k)
    BY <2>2 DEF NextClaimable, Exists
  <2>4. QED
    BY <1>5, <2>1, <2>2, <2>3, MoveKeeps DEF TakeNext
<1>6. QED
  BY <1>1, <1>2, <1>3, <1>4, <1>5

-----------------------------------------------------------------------------
(* A committing request writes the row it has locked; an existing row      *)
(* keeps its dependencies and was not done.                                *)
Writes(r, x) ==
    /\ Holding(r) /\ End(r) /\ UNCHANGED clock
    /\ task' = [task EXCEPT ![key[r]] = x]
    /\ x \in TaskRows /\ x.status # "absent"
    /\ x.status = "claimed" => x.holder \in Windows
    /\ Exists(key[r]) => x.deps = task[key[r]].deps /\ ~Finished(key[r])
    /\ x.status = "claimed" => Exists(key[r]) /\ ~Blocked(key[r])

(* Tasks stay, dependencies stay, done stays done.                         *)
LEMMA WritesStable ==
    ASSUME TasksInv, NEW r \in Reqs, NEW x, Writes(r, x)
    PROVE  /\ key[r] \in Keys
           /\ task'[key[r]] = x
           /\ \A k \in Keys \ {key[r]} : task'[k] = task[k]
           /\ \A k \in Keys : Exists(k) => /\ Exists(k)' /\ task'[k].deps = task[k].deps
                                           /\ Finished(k) => Finished(k)'
           /\ \A k \in Keys : Exists(k) /\ ~Blocked(k) => ~Blocked(k)'
<1>1. /\ key[r] \in Keys /\ task'[key[r]] = x
      /\ \A k \in Keys \ {key[r]} : task'[k] = task[k]
  BY DEF TasksInv, TypeOK, RequestsNamed, Holding, Writes
<1>2. \A k \in Keys : Exists(k) => /\ Exists(k)' /\ task'[k].deps = task[k].deps
                                   /\ Finished(k) => Finished(k)'
  BY <1>1 DEF Writes, Exists, Finished
<1>3. \A k \in Keys : task[k].deps \in SUBSET Keys
  BY DEF TasksInv, TypeOK, TaskRows
<1>4. \A k \in Keys : Exists(k) /\ ~Blocked(k) => ~Blocked(k)'
  BY <1>2, <1>3 DEF Blocked, Finished, Exists
<1>5. QED
  BY <1>1, <1>2, <1>4

(* The request that writes ends; the others hold other rows.               *)
LEMMA WritesKeepRequests ==
    ASSUME TasksInv, NEW r \in Reqs, NEW x, Writes(r, x)
    PROVE  /\ TypeOK' /\ RequestsNamed' /\ TasksClocksBehind' /\ RowsHeldOnce'
           /\ HeldAdmits' /\ ClaimsUnblocked'
<1>1. /\ pc'[r] = "idle" /\ op'[r] = None
      /\ \A q \in Reqs \ {r} : /\ pc'[q] = pc[q] /\ op'[q] = op[q] /\ who'[q] = who[q]
                               /\ key'[q] = key[q] /\ now'[q] = now[q] /\ deps'[q] = deps[q]
  BY DEF TasksInv, TypeOK, Writes, End
<1>2. TasksClocksBehind' /\ RequestsNamed' /\ RowsHeldOnce'
  BY <1>1, CallersConstants
  DEF TasksInv, TypeOK, TasksClocksBehind, RequestsNamed, RowsHeldOnce, Holding, Writes, End
<1>3. TypeOK'
  <2>1. task' \in [Keys -> TaskRows] /\ \A k \in Keys : task'[k].status = "claimed"
                                                       => task'[k].holder \in Windows
    BY WritesStable DEF TasksInv, TypeOK, Writes
  <2>2. QED
    BY <2>1, CallersConstants, TasksConstants DEF TasksInv, TypeOK, Writes, End
<1>4. \A q \in Reqs \ {r} : Holding(q) => key[q] \in Keys /\ key[q] # key[r]
  BY DEF TasksInv, RowsHeldOnce, RequestsNamed, Holding, Writes
<1>5. HeldAdmits'
  <2>1. \A q \in Reqs \ {r} : Holding(q) => task'[key[q]] = task[key[q]]
    BY <1>4, WritesStable
  <2>2. QED
    BY <1>1, <2>1 DEF TasksInv, HeldAdmits, Holding, Exists
<1>6. ClaimsUnblocked'
  <2>1. \A q \in Reqs : op[q] = "claim" /\ pc[q] \in {"asked", "held"} => key[q] \in Keys
    BY DEF TasksInv, RequestsNamed
  <2>2. ASSUME NEW q \in Reqs \ {r}, Exists(key[q]), ~Blocked(key[q]), key[q] \in Keys
        PROVE  Exists(key[q])' /\ ~Blocked(key[q])'
    BY <1>1, <2>2, WritesStable DEF Exists, Blocked, Finished
  <2>3. QED
    BY <1>1, <1>4, <2>1, <2>2 DEF TasksInv, ClaimsUnblocked, Holding
<1>7. QED
  BY <1>2, <1>3, <1>5, <1>6

LEMMA WritesKeepUnblocked ==
    ASSUME TasksInv, NEW r \in Reqs, NEW x, Writes(r, x)
    PROVE  ClaimedOnlyUnblocked'
<1> SUFFICES ASSUME NEW k \in Keys, task'[k].status = "claimed" PROVE ~Blocked(k)'
  BY DEF ClaimedOnlyUnblocked
<1>1. CASE k = key[r]
  <2>1. x.status = "claimed"
    BY <1>1, WritesStable
  <2>2. Exists(k) /\ ~Blocked(k)
    BY <1>1, <2>1 DEF Writes, Exists, Blocked, Finished
  <2>3. QED
    BY <2>2, WritesStable
<1>2. CASE k # key[r]
  BY <1>2, WritesStable DEF TasksInv, ClaimedOnlyUnblocked, Exists
<1>3. QED
  BY <1>1, <1>2

(* claim, claim_next, renew, release, complete: the row exists.            *)
LEMMA CommitKeeps ==
    ASSUME TasksInv, NEW r \in Reqs, NEW s \in LeaseSecs, Commit(r, s)
    PROVE  /\ Writes(r, Updated(r, s)) /\ Exists(key[r])
           /\ TasksInv'
<1> DEFINE x == task[key[r]]
           y == Updated(r, s)
<1>1. /\ key[r] \in Keys /\ who[r] \in Windows /\ x \in TaskRows /\ s \in Nat
      /\ op[r] \in Ops \ {"create"} /\ now[r] + s \in Int
  BY CallersConstants, TasksConstants
  DEF Commit, Holding, TasksInv, TypeOK, RequestsNamed
<1>2. /\ x.status \in {"open", "claimed"}
      /\ op[r] = "renew" => x.status = "claimed"
  BY <1>1
  DEF Commit, TasksInv, HeldAdmits, Admits, Claimable, NextClaimable, Renewable, Mine,
      Completable, Ops
<1>3. op[r] \in {"claim", "claim_next"} => ~Blocked(key[r])
  BY DEF TasksInv, ClaimsUnblocked, Commit, Holding
<1>4. x.status = "claimed" => ~Blocked(key[r]) /\ x.holder \in Windows
  BY <1>1 DEF TasksInv, TypeOK, ClaimedOnlyUnblocked
<1>5. /\ y \in TaskRows /\ y.deps = x.deps /\ y.status \in {"open", "claimed", "done"}
      /\ y.status = "claimed" => y.holder \in Windows
      /\ y.status = "claimed" => op[r] \in {"claim", "claim_next", "renew"}
  <2>1. CASE op[r] \in {"claim", "claim_next"}
    BY <1>1, <2>1 DEF Updated, TaskRows
  <2>2. CASE op[r] = "renew"
    BY <1>1, <1>2, <1>4, <2>2 DEF Updated, TaskRows
  <2> NoLease \in Int
    BY DEF NoLease
  <2>3. CASE op[r] = "release"
    <3>1. y = [x EXCEPT !.status = "open", !.holder = None, !.lease = NoLease]
      BY <2>3 DEF Updated
    <3>2. QED
      BY <1>1, <3>1 DEF TaskRows
  <2>4. CASE op[r] = "complete"
    <3>1. y = [x EXCEPT !.status = "done", !.lease = NoLease]
      BY <2>4 DEF Updated
    <3>2. QED
      BY <1>1, <3>1 DEF TaskRows
  <2>5. QED
    BY <1>1, <2>1, <2>2, <2>3, <2>4 DEF Ops
<1>6. Writes(r, y) /\ Exists(key[r])
  BY <1>2, <1>3, <1>4, <1>5 DEF Writes, Commit, Exists, Finished
<1> HIDE DEF x, y
<1>7. /\ \A k \in Keys : task'[k].deps = task[k].deps
      /\ \A k \in Keys : Exists(k)' <=> Exists(k)
  BY <1>5, <1>6, WritesStable DEF Exists, Writes, x
<1>8. DependenciesExist'
  <2>1. \A k \in Keys : task[k].deps \in SUBSET Keys
    BY DEF TasksInv, TypeOK, TaskRows
  <2>2. \A k \in Keys : Exists(k)' => \A d \in task'[k].deps : Exists(d)'
    BY <1>7, <2>1 DEF TasksInv, DependenciesExist
  <2>3. \A q \in Reqs : pc'[q] # "idle" /\ op'[q] = "create" => key'[q] \notin deps'[q]
    BY DEF TasksInv, TypeOK, DependenciesExist, Commit, End
  <2>4. QED
    BY <2>2, <2>3 DEF DependenciesExist
<1>9. NoDependencyCycle'
  <2>1. {k \in Keys : Exists(k)'} = {k \in Keys : Exists(k)}
    BY <1>7
  <2>2. QED
    BY <1>7, <2>1 DEF TasksInv, NoDependencyCycle
<1>10. QED
  BY <1>6, <1>8, <1>9, WritesKeepRequests, WritesKeepUnblocked DEF TasksInv, y

(* create_task: the new row is open and depends on rows that exist, among  *)
(* which it is not; no row that existed depends on it.                     *)
LEMMA CreateCommitKeeps ==
    ASSUME TasksInv, NEW r \in Reqs, CreateCommit(r) PROVE TasksInv'
<1>1. CASE Refuse(r)
  BY <1>1, RefuseKeeps
<1>2. CASE ~Refuse(r)
  <2> DEFINE n == key[r]
             D == deps[r]
  <2>1. /\ Holding(r) /\ op[r] = "create" /\ Resolved(r) /\ End(r) /\ UNCHANGED clock
        /\ task' = [task EXCEPT ![n] = Created(r)]
    BY <1>2 DEF CreateCommit
  <2>2. /\ n \in Keys /\ ~Exists(n) /\ n \notin D /\ D \in SUBSET Keys
    BY <2>1 DEF TasksInv, TypeOK, RequestsNamed, HeldAdmits, DependenciesExist, Holding
  <2>3. /\ Created(r) \in TaskRows /\ Created(r).status = "open" /\ Created(r).deps = D
    <3>1. Absent \in TaskRows
      BY DEF Absent, TaskRows, NoLease
    <3>2. Created(r) = [Absent EXCEPT !.status = "open", !.deps = D]
      BY DEF Created
    <3>3. QED
      BY <2>2, <3>1, <3>2 DEF TaskRows
  <2>4. Writes(r, Created(r))
    BY <2>1, <2>2, <2>3 DEF Writes
  <2>5. \A k \in Keys : Exists(k)' <=> Exists(k) \/ k = n
    BY <2>3, <2>4, WritesStable DEF Exists
  <2>6. /\ task'[n].deps = D
        /\ \A k \in Keys \ {n} : task'[k].deps = task[k].deps
    BY <2>3, <2>4, WritesStable
  <2> HIDE DEF n, D
  <2>7. \A k \in Keys : Exists(k) => n \notin task[k].deps
    BY <2>2 DEF TasksInv, DependenciesExist
  <2>8. DependenciesExist'
    <3>1. \A d \in D : Exists(d)
      BY <2>1, <2>2 DEF Resolved, n, D
    <3>2. \A k \in Keys : task[k].deps \in SUBSET Keys
      BY DEF TasksInv, TypeOK, TaskRows
    <3>3. \A k \in Keys : Exists(k)' => \A d \in task'[k].deps : Exists(d)'
      <4> SUFFICES ASSUME NEW k \in Keys, Exists(k)', NEW d \in task'[k].deps
                   PROVE  Exists(d)'
        OBVIOUS
      <4>1. CASE k = n
        BY <2>2, <2>5, <2>6, <3>1, <4>1
      <4>2. CASE k # n
        BY <2>5, <2>6, <3>2, <4>2 DEF TasksInv, DependenciesExist
      <4>3. QED
        BY <4>1, <4>2
    <3>4. \A q \in Reqs : pc'[q] # "idle" /\ op'[q] = "create" => key'[q] \notin deps'[q]
      BY <2>1 DEF TasksInv, TypeOK, DependenciesExist, End
    <3>5. QED
      BY <3>3, <3>4 DEF DependenciesExist
  <2>9. NoDependencyCycle'
    <3> SUFFICES ASSUME NEW S \in SUBSET {k \in Keys : Exists(k)'}, S # {}
                 PROVE  \E k \in S : task'[k].deps \cap S = {}
      BY DEF NoDependencyCycle
    <3>1. CASE S \subseteq {n}
      BY <2>2, <2>6, <3>1
    <3>2. CASE ~(S \subseteq {n})
      <4>1. /\ S \ {n} \in SUBSET {k \in Keys : Exists(k)}
            /\ S \ {n} # {}
        BY <2>5, <3>2
      <4>2. PICK k \in S \ {n} : task[k].deps \cap (S \ {n}) = {}
        BY <4>1 DEF TasksInv, NoDependencyCycle
      <4>3. task'[k].deps \cap S = {}
        BY <2>6, <2>7, <4>1, <4>2
      <4>4. QED
        BY <4>3
    <3>3. QED
      BY <3>1, <3>2
  <2>10. QED
    BY <2>4, <2>8, <2>9, WritesKeepRequests, WritesKeepUnblocked DEF TasksInv
<1>3. QED
  BY <1>1, <1>2

LEMMA TasksStep == ASSUME TasksInv, [Next]_vars PROVE TasksInv'
<1>1. CASE Tick
  BY <1>1, TickKeepsTasks
<1>2. ASSUME NEW r \in Reqs, NEW k \in Keys, NEW D \in SUBSET Keys, CreateBegin(r, k, D)
      PROVE  TasksInv'
  BY <1>2, BeginKeeps DEF CreateBegin, MayDepend, Ops
<1>3. ASSUME NEW r \in Reqs, NEW w \in Windows, NEW k \in Keys,
             NEW o \in Ops \ {"create", "claim_next"}, Begin(r, o, w, k, {})
      PROVE  TasksInv'
  BY <1>3, BeginKeeps
<1>4. ASSUME NEW r \in Reqs, NEW w \in Windows, Begin(r, "claim_next", w, None, {})
      PROVE  TasksInv'
  BY <1>4, BeginKeeps DEF Ops
<1>5. ASSUME NEW r \in Reqs, CreateInsert(r) \/ Ask(r) \/ Take(r) \/ TakeNext(r)
      PROVE  TasksInv'
  BY <1>5, StatementKeeps
<1>6. ASSUME NEW r \in Reqs, CreateCommit(r) PROVE TasksInv'
  BY <1>6, CreateCommitKeeps
<1>7. ASSUME NEW r \in Reqs, NEW s \in LeaseSecs, Commit(r, s) PROVE TasksInv'
  BY <1>7, CommitKeeps
<1>8. ASSUME NEW r \in Reqs, Abort(r) PROVE TasksInv'
  BY <1>8, RefuseKeeps DEF Abort
<1>9. CASE UNCHANGED vars
  <2>1. UNCHANGED task
    BY <1>9 DEF vars
  <2>2. QED
    BY <1>9, <2>1, BoardUntouched
    DEF vars, TasksInv, TypeOK, RequestsNamed, TasksClocksBehind, RowsHeldOnce, HeldAdmits,
        ClaimsUnblocked, DependenciesExist, Holding, Exists
<1>10. QED
  BY <1>1, <1>2, <1>3, <1>4, <1>5, <1>6, <1>7, <1>8, <1>9 DEF Next

LEMMA TasksInvariant == Spec => []TasksInv
<1>1. Init => TasksInv
  BY TasksInitially
<1>2. TasksInv /\ [Next]_vars => TasksInv'
  BY TasksStep
<1>3. QED
  BY <1>1, <1>2, PTL DEF Spec

(* No task is claimed while one it depends on is unfinished, although      *)
(* claim_task looks at the dependencies before it waits for the row: a     *)
(* dependency that is done stays done and none is added later.             *)
THEOREM ClaimsAreUnblocked == Spec => []ClaimedOnlyUnblocked
<1>1. TasksInv => ClaimedOnlyUnblocked
  BY DEF TasksInv
<1>2. QED
  BY <1>1, TasksInvariant, PTL

(* No set of tasks waits on itself, whatever creations overlap: every      *)
(* dependency exists when create_task resolves it, and no task is created  *)
(* that another already names.                                             *)
THEOREM DependenciesAreAcyclic == Spec => []NoDependencyCycle
<1>1. TasksInv => NoDependencyCycle
  BY DEF TasksInv
<1>2. QED
  BY <1>1, TasksInvariant, PTL

-----------------------------------------------------------------------------
(* The board as a lease: who holds each task, and until when.              *)
Claimant == [k \in Keys |-> IF task[k].status = "claimed" THEN task[k].holder ELSE None]
ClaimedUntil == [k \in Keys |-> task[k].lease]

(* A write of one row changes one resource.                                *)
LEMMA OneTaskWritten ==
    ASSUME TasksInv, NEW k \in Keys, NEW x, task' = [task EXCEPT ![k] = x]
    PROVE  /\ Claimant' = [Claimant EXCEPT ![k] = IF x.status = "claimed"
                                                  THEN x.holder ELSE None]
           /\ ClaimedUntil' = [ClaimedUntil EXCEPT ![k] = ClaimedUntil'[k]]
<1>1. task \in [Keys -> TaskRows]
  BY DEF TasksInv, TypeOK
<1>2. QED
  BY <1>1 DEF Claimant, ClaimedUntil

LEMMA CommitIsLeaseStep ==
    ASSUME TasksInv, NEW r \in Reqs, NEW s \in LeaseSecs, Commit(r, s)
    PROVE  AsLease!Next
<1>1. /\ key[r] \in Keys /\ who[r] \in Windows /\ op[r] \in Ops \ {"create"}
      /\ clock \in Int /\ now[r] \in Int /\ now[r] <= clock /\ 0 <= clock
  BY CallersConstants
  DEF Commit, Holding, TasksInv, TypeOK, RequestsNamed, TasksClocksBehind
<1>2. PICK k \in Keys, w \in Windows, y \in {Updated(r, s)} : k = key[r] /\ w = who[r]
  BY <1>1
<1> DEFINE x == task[k]
<1>3. task' = [task EXCEPT ![k] = y] /\ UNCHANGED clock /\ x \in TaskRows
  BY <1>2 DEF Commit, TasksInv, TypeOK
<1>4. CASE op[r] \in {"claim", "claim_next", "renew"}
  <2>1. /\ op[r] = "claim" => Claimable(x, w, now[r])
        /\ op[r] = "claim_next" => NextClaimable(x, now[r])
        /\ op[r] = "renew" => Renewable(x, w, now[r])
    BY <1>2 DEF Commit, TasksInv, HeldAdmits, Admits
  <2>2. x.status = "open" \/ x.holder = w \/ x.lease < clock
    <3>1. x.lease \in Int
      BY <1>3 DEF TaskRows
    <3>2. QED
      BY <1>1, <1>4, <2>1, <3>1 DEF Claimable, NextClaimable, Renewable, Mine, NoLease
  <2>3. y.status = "claimed" /\ y.holder = w
    <3>1. CASE op[r] \in {"claim", "claim_next"}
      BY <1>2, <1>3, <3>1 DEF Updated, TaskRows
    <3>2. CASE op[r] = "renew"
      BY <1>2, <1>3, <2>1, <3>2 DEF Updated, TaskRows, Renewable, Mine
    <3>3. QED
      BY <1>4, <3>1, <3>2
  <2>4. AsLease!Live(k) => Claimant[k] = w
    BY <1>1, <1>3, <2>2 DEF AsLease!Live, Claimant, TaskRows
  <2>5. Claimant' = [Claimant EXCEPT ![k] = w]
    BY <1>3, <2>3, OneTaskWritten
  <2>6. ClaimedUntil' = [ClaimedUntil EXCEPT ![k] = ClaimedUntil'[k]]
    BY <1>3, OneTaskWritten
  <2>7. AsLease!Grant(k, w)
    BY <1>3, <2>4, <2>5, <2>6 DEF AsLease!Grant, Claimant, ClaimedUntil
  <2>8. QED
    BY <2>7 DEF AsLease!Next
<1>5. CASE op[r] \in {"release", "complete"}
  <2>1. y.status # "claimed"
    BY <1>2, <1>3, <1>5 DEF Updated, TaskRows
  <2>2. Claimant' = [Claimant EXCEPT ![k] = None]
    BY <1>3, <2>1, OneTaskWritten
  <2>3. ClaimedUntil' = [ClaimedUntil EXCEPT ![k] = ClaimedUntil'[k]]
    BY <1>3, OneTaskWritten
  <2>4. AsLease!Free(k)
    BY <1>3, <2>2, <2>3 DEF AsLease!Free, Claimant, ClaimedUntil
  <2>5. QED
    BY <2>4 DEF AsLease!Next
<1>6. QED
  BY <1>1, <1>4, <1>5 DEF Ops

(* A created task is free, as the absent row was.                          *)
LEMMA CreateIsLeaseStep ==
    ASSUME TasksInv, NEW r \in Reqs, CreateCommit(r)
    PROVE  [AsLease!Next]_(AsLease!vars)
<1>1. CASE Refuse(r)
  BY <1>1 DEF Refuse, AsLease!vars
<1>2. CASE ~Refuse(r)
  <2>1. key[r] \in Keys
    BY DEF CreateCommit, Holding, TasksInv, TypeOK, RequestsNamed
  <2>2. PICK k \in Keys, y \in {Created(r)} : k = key[r]
    BY <2>1
  <2>3. task' = [task EXCEPT ![k] = y] /\ UNCHANGED clock
    BY <1>2, <2>2 DEF CreateCommit
  <2>4. y.status = "open"
    BY <2>2 DEF Created, Absent
  <2>5. Claimant' = [Claimant EXCEPT ![k] = None]
    BY <2>3, <2>4, OneTaskWritten
  <2>6. ClaimedUntil' = [ClaimedUntil EXCEPT ![k] = ClaimedUntil'[k]]
    BY <2>3, OneTaskWritten
  <2>7. AsLease!Free(k)
    BY <2>3, <2>5, <2>6 DEF AsLease!Free, Claimant, ClaimedUntil
  <2>8. QED
    BY <2>7 DEF AsLease!Next
<1>3. QED
  BY <1>1, <1>2

(* store/tasks.rs implements Lease: a claim passes from one window to      *)
(* another only through a release or after it lapsed by the real clock,    *)
(* although a claim decides with the now() of its BEGIN and on a row it    *)
(* may have waited for.                                                    *)
THEOREM TasksRefineLease == Spec => TasksImplementLease
<1>1. Init => AsLease!Init
  <2> SUFFICES ASSUME Init PROVE AsLease!Init
    OBVIOUS
  <2>1. task = [k \in Keys |-> Absent] /\ clock = 0
    BY DEF Init
  <2>2. /\ Absent.status = "absent" /\ Absent.lease \in Int
    BY DEF Absent, NoLease
  <2>3. QED
    BY <2>1, <2>2 DEF AsLease!Init
<1>2. TasksInv /\ [Next]_vars => [AsLease!Next]_(AsLease!vars)
  <2> SUFFICES ASSUME TasksInv, [Next]_vars PROVE [AsLease!Next]_(AsLease!vars)
    OBVIOUS
  <2>1. CASE Tick
    BY <2>1 DEF Tick, Advance, AsLease!Next, AsLease!Tick
  <2>2. ASSUME NEW r \in Reqs, CreateCommit(r) PROVE [AsLease!Next]_(AsLease!vars)
    BY <2>2, CreateIsLeaseStep
  <2>3. ASSUME NEW r \in Reqs, NEW s \in LeaseSecs, Commit(r, s)
        PROVE  [AsLease!Next]_(AsLease!vars)
    BY <2>3, CommitIsLeaseStep
  <2>4. CASE UNCHANGED <<clock, task>>
    BY <2>4 DEF AsLease!vars
  <2>5. QED
    BY <2>1, <2>2, <2>3, <2>4
    DEF Next, CreateBegin, Begin, CreateInsert, Ask, Take, TakeNext, Refuse, Abort, vars
<1>3. QED
  BY <1>1, <1>2, TasksInvariant, PTL DEF Spec, TasksImplementLease, AsLease!Spec

(* A commit that changes a running claim is its holder's.                  *)
LEMMA OnlyClaimantCommits ==
    ASSUME TasksInv, NEW k \in Keys, NEW r \in Reqs, NEW s \in LeaseSecs, Commit(r, s),
           task[k].status = "claimed", task[k].lease > clock, task'[k] # task[k]
    PROVE  Holding(r) /\ ~Holding(r)' /\ key[r] = k /\ who[r] = task[k].holder
<1> DEFINE x == task[k]
<1>1. Holding(r) /\ ~Holding(r)' /\ key[r] = k
  BY DEF Commit, End, Holding, TasksInv, TypeOK
<1>2. /\ op[r] \in Ops \ {"create"} /\ who[r] \in Windows /\ x \in TaskRows
      /\ clock \in Int /\ now[r] \in Int /\ now[r] <= clock /\ 0 <= clock
      /\ x.holder \in Windows /\ x.lease \in Int /\ x.lease # NoLease
  BY <1>1, CallersConstants
  DEF Commit, Holding, TasksInv, TypeOK, TaskRows, NoLease, RequestsNamed, TasksClocksBehind
<1>3. /\ op[r] = "claim_next" => NextClaimable(x, now[r])
      /\ op[r] # "claim_next" => Admits(op[r], x, who[r], now[r])
  BY <1>1, <1>2 DEF TasksInv, HeldAdmits, Ops
<1>4. x.status = "claimed" /\ ~(x.lease <= now[r]) /\ ~(x.lease < now[r])
  BY <1>2
<1>5. None \notin Windows
  BY CallersConstants
<1>6. who[r] = x.holder
  BY <1>2, <1>3, <1>4, <1>5
  DEF Admits, Claimable, NextClaimable, Renewable, Completable, Mine, Ops
<1>7. QED
  BY <1>1, <1>6

(* A claim that still runs by the real clock is renewed, released and      *)
(* completed by its own window only, whichever request waited for the row  *)
(* and whatever the row was when it asked.                                 *)
THEOREM RunningClaimsAreKept == Spec => LiveClaimBelongsToHolder
<1> DEFINE Kept ==
        \A k \in Keys :
            /\ task[k].status = "claimed" /\ task[k].lease > clock
            /\ task'[k] # task[k]
            => \E r \in Reqs : /\ Holding(r) /\ ~Holding(r)'
                               /\ key[r] = k /\ who[r] = task[k].holder
<1>1. TasksInv /\ [Next]_vars => [Kept]_vars
  <2> SUFFICES ASSUME TasksInv, Next PROVE Kept
    BY DEF vars
  <2>1. ASSUME NEW r \in Reqs, NEW s \in LeaseSecs, Commit(r, s) PROVE Kept
    BY <2>1, OnlyClaimantCommits
  <2>2. ASSUME NEW r \in Reqs, CreateCommit(r) PROVE Kept
    <3>1. CASE UNCHANGED task
      BY <3>1
    <3>2. CASE ~UNCHANGED task
      <4>1. task' = [task EXCEPT ![key[r]] = Created(r)] /\ ~Exists(key[r])
        BY <2>2, <3>2
        DEF CreateCommit, Refuse, Holding, TasksInv, HeldAdmits
      <4>2. \A k \in Keys : task'[k] # task[k] => task[k].status = "absent"
        BY <4>1 DEF Exists, TasksInv, TypeOK
      <4>3. QED
        BY <4>2
    <3>3. QED
      BY <3>1, <3>2
  <2>3. CASE UNCHANGED task
    BY <2>3
  <2>4. QED
    BY <2>1, <2>2, <2>3
    DEF Next, Tick, CreateBegin, Begin, CreateInsert, Ask, Take, TakeNext, Refuse, Abort
<1>2. QED
  BY <1>1, TasksInvariant, PTL DEF Spec, LiveClaimBelongsToHolder

-----------------------------------------------------------------------------
(*                        Channel and direct messages                      *)

Inserted == {m \in Msgs : post[m] # "none"}

(* Ids are those the sequence gave out, to one message each.               *)
IdsAreUnique ==
    /\ IsFiniteSet(Inserted)
    /\ \A m \in Inserted : id[m] \in 1..(nextId - 1)
    /\ \A m, n \in Inserted : id[m] = id[n] => m = n

(* The cursor is at a message that was committed, or before all of them.   *)
CursorIsCommitted == cursor = 0 \/ \E m \in Committed : id[m] = cursor

(* A page in hand is committed, begins after a cursor that was read, and   *)
(* has no gap but what committed late.                                     *)
PagesHaveNoGap ==
    \A r \in Reads :
        /\ rpc[r] # "idle" => rsince[r] <= cursor
        /\ page[r] \subseteq Committed
        /\ rpc[r] = "page" => \A p \in page[r], m \in Committed :
               rsince[r] < id[m] /\ id[m] <= id[p] => m \in page[r] \cup late

MessagesInv ==
    /\ MessagesTypeOK
    /\ IdsAreUnique
    /\ CursorIsCommitted
    /\ PagesHaveNoGap
    /\ OnlyLateCommitsSkipped

(* A bounded set of naturals has a greatest element.                       *)
LEMMA BoundedHasMax ==
    ASSUME NEW n \in Nat, NEW S \in SUBSET (0..n), S # {}
    PROVE  \E x \in S : \A y \in S : x >= y
<1> DEFINE T == {n - x : x \in S}
<1>1. T \subseteq Nat /\ T # {}
  <2>1. \A x \in S : n - x \in Nat
    OBVIOUS
  <2>2. PICK x : x \in S
    OBVIOUS
  <2>3. n - x \in T
    BY <2>2
  <2>4. QED
    BY <2>1, <2>3
<1>2. PICK t \in T : \A u \in T : ~(<<u, t>> \in OpToRel(<, Nat))
  BY <1>1, NatLessThanWellFounded, WFMin
<1>3. \A u \in T : ~(u < t)
  BY <1>1, <1>2 DEF OpToRel
<1>4. PICK x \in S : t = n - x
  OBVIOUS
<1>5. ASSUME NEW y \in S PROVE x >= y
  BY <1>3, <1>4
<1>6. QED
  BY <1>5

LEMMA MaxOfBounded ==
    ASSUME NEW n \in Nat, NEW S \in SUBSET (0..n), S # {}
    PROVE  Max(S) \in S /\ \A y \in S : y <= Max(S)
<1>1. \E x \in S : \A y \in S : x >= y
  BY BoundedHasMax
<1>2. Max(S) \in S /\ \A y \in S : Max(S) >= y
  BY <1>1 DEF Max
<1>3. QED
  BY <1>2

LEMMA MessagesInitially == ASSUME MessagesInit PROVE MessagesInv
<1>1. Inserted = {} /\ Committed = {}
  BY DEF MessagesInit, Inserted, Committed
<1>2. MessagesTypeOK
  BY DEF MessagesInit, MessagesTypeOK
<1>3. IdsAreUnique
  BY <1>1, FS_EmptySet DEF IdsAreUnique
<1>4. QED
  BY <1>1, <1>2, <1>3
  DEF MessagesInit, MessagesInv, CursorIsCommitted, PagesHaveNoGap, OnlyLateCommitsSkipped

LEMMA CommittedIsInserted == MessagesInv => Committed \subseteq Inserted
BY DEF Committed, Inserted

(* post_message takes an id above every other and is not committed yet.    *)
LEMMA PostInsertKeeps ==
    ASSUME MessagesInv, NEW m \in Msgs, PostInsert(m) PROVE MessagesInv'
<1>1. MessagesTypeOK'
  BY DEF MessagesInv, MessagesTypeOK, PostInsert
<1>2. /\ Inserted' = Inserted \cup {m} /\ m \notin Inserted /\ Committed' = Committed
      /\ id'[m] = nextId /\ nextId \in Nat /\ nextId' = nextId + 1
      /\ \A n \in Msgs \ {m} : id'[n] = id[n]
  BY DEF MessagesInv, MessagesTypeOK, PostInsert, Inserted, Committed
<1>3. IsFiniteSet(Inserted')
  BY <1>2, FS_AddElement DEF MessagesInv, IdsAreUnique
<1>4. /\ \A n \in Inserted' : id'[n] \in 1..(nextId' - 1)
      /\ \A n, p \in Inserted' : id'[n] = id'[p] => n = p
  <2>1. nextId >= 1
    BY DEF MessagesInv, MessagesTypeOK
  <2>2. \A n \in Inserted : id'[n] = id[n] /\ id[n] \in 1..(nextId - 1)
    BY <1>2 DEF MessagesInv, IdsAreUnique, Inserted
  <2>3. \A n, p \in Inserted : id[n] = id[p] => n = p
    BY DEF MessagesInv, IdsAreUnique
  <2>4. QED
    BY <1>2, <2>1, <2>2, <2>3
<1>5. IdsAreUnique'
  BY <1>3, <1>4 DEF IdsAreUnique
<1>6. \A n \in Committed : id'[n] = id[n]
  BY <1>2 DEF Committed, Inserted
<1>7. CursorIsCommitted' /\ OnlyLateCommitsSkipped'
  BY <1>2, <1>6 DEF MessagesInv, CursorIsCommitted, OnlyLateCommitsSkipped, PostInsert
<1>8. PagesHaveNoGap'
  BY <1>2, <1>6 DEF MessagesInv, PagesHaveNoGap, PostInsert
<1>9. QED
  BY <1>1, <1>5, <1>7, <1>8 DEF MessagesInv

(* A message that commits below one that is committed is late.             *)
LEMMA PostCommitKeeps ==
    ASSUME MessagesInv, NEW m \in Msgs, PostCommit(m) PROVE MessagesInv'
<1>1. MessagesTypeOK'
  BY DEF MessagesInv, MessagesTypeOK, PostCommit
<1>2. /\ Inserted' = Inserted /\ m \in Inserted /\ m \notin Committed
      /\ Committed' = Committed \cup {m} /\ Committed \subseteq Inserted
      /\ UNCHANGED <<id, nextId, cursor, rpc, rsince, page, returned>>
      /\ late \subseteq late'
  BY DEF MessagesInv, MessagesTypeOK, PostCommit, Inserted, Committed
<1>3. IdsAreUnique' /\ \A n \in Inserted : id[n] \in Nat /\ id[n] # 0
  BY <1>2 DEF MessagesInv, IdsAreUnique
<1>4. ASSUME NEW n \in Committed, id[m] <= id[n] PROVE m \in late'
  <2>1. id[n] # id[m]
    BY <1>2 DEF MessagesInv, IdsAreUnique
  <2>2. id[n] > id[m]
    BY <1>2, <1>3, <1>4, <2>1
  <2>3. QED
    BY <2>2 DEF PostCommit
<1>5. CursorIsCommitted'
  BY <1>2 DEF MessagesInv, CursorIsCommitted
<1>6. OnlyLateCommitsSkipped'
  <2>1. id[m] <= cursor => m \in late'
    BY <1>2, <1>3, <1>4 DEF MessagesInv, MessagesTypeOK, CursorIsCommitted
  <2>2. QED
    BY <1>2, <2>1 DEF MessagesInv, OnlyLateCommitsSkipped
<1>7. PagesHaveNoGap'
  <2>1. \A r \in Reads : \A p \in page[r] : id[m] <= id[p] => m \in late'
    BY <1>4 DEF MessagesInv, PagesHaveNoGap
  <2>2. QED
    BY <1>2, <2>1 DEF MessagesInv, PagesHaveNoGap
<1>8. QED
  BY <1>1, <1>3, <1>5, <1>6, <1>7 DEF MessagesInv

(* While no message is written, ids and commits are as they were.          *)
LEMMA ReadsWriteNothing ==
    ASSUME MessagesInv, UNCHANGED messageWrites
    PROVE  IdsAreUnique' /\ Committed' = Committed /\ UNCHANGED <<id, nextId, late>>
BY DEF MessagesInv, IdsAreUnique, Inserted, Committed, messageWrites

LEMMA ReadCursorKeeps ==
    ASSUME MessagesInv, NEW r \in Reads, ReadCursor(r) PROVE MessagesInv'
<1>1. MessagesTypeOK'
  BY DEF MessagesInv, MessagesTypeOK, ReadCursor, messageWrites
<1>2. /\ IdsAreUnique' /\ Committed' = Committed
      /\ UNCHANGED <<id, nextId, late, cursor, page, returned>>
  BY ReadsWriteNothing DEF ReadCursor
<1>3. CursorIsCommitted' /\ OnlyLateCommitsSkipped'
  BY <1>2 DEF MessagesInv, CursorIsCommitted, OnlyLateCommitsSkipped
<1>4. PagesHaveNoGap'
  BY <1>2 DEF MessagesInv, MessagesTypeOK, PagesHaveNoGap, ReadCursor
<1>5. QED
  BY <1>1, <1>2, <1>3, <1>4 DEF MessagesInv

(* ORDER BY id ASC LIMIT: what is below a row of the page is on the page.  *)
LEMMA PageIsPrefix ==
    ASSUME MessagesInv, NEW r \in Reads, NEW p \in PageOf(r), NEW m \in Ahead(r),
           id[m] <= id[p]
    PROVE  m \in PageOf(r)
<1> DEFINE Below(n) == {k \in Ahead(r) : id[k] < id[n]}
<1>1. Ahead(r) \subseteq Inserted /\ p \in Ahead(r) /\ Cardinality(Below(p)) < PageLimit
  BY CommittedIsInserted DEF Ahead, PageOf
<1>2. \A n \in Ahead(r) : id[n] \in Nat
  BY <1>1 DEF MessagesInv, IdsAreUnique
<1>3. Below(m) \subseteq Below(p) /\ Below(p) \subseteq Inserted
  BY <1>1, <1>2
<1>4. /\ IsFiniteSet(Below(p)) /\ IsFiniteSet(Below(m))
      /\ Cardinality(Below(m)) <= Cardinality(Below(p))
  BY <1>3, FS_Subset DEF MessagesInv, IdsAreUnique
<1>5. Cardinality(Below(m)) < PageLimit
  <2>1. Cardinality(Below(m)) \in Nat /\ Cardinality(Below(p)) \in Nat
    BY <1>4, FS_CardinalityType
  <2>2. QED
    BY <1>1, <1>4, <2>1, MessagesConstants
<1>6. QED
  BY <1>5 DEF PageOf

LEMMA ReadPageKeeps ==
    ASSUME MessagesInv, NEW r \in Reads, ReadPage(r) PROVE MessagesInv'
<1>1. /\ IdsAreUnique' /\ Committed' = Committed
      /\ UNCHANGED <<id, nextId, late, cursor, rsince, returned>>
  BY ReadsWriteNothing DEF ReadPage
<1>2. /\ page'[r] = PageOf(r) /\ rpc[r] = "cursor" /\ rpc'[r] = "page"
      /\ \A q \in Reads \ {r} : page'[q] = page[q] /\ rpc'[q] = rpc[q]
  BY DEF MessagesInv, MessagesTypeOK, ReadPage
<1>3. PageOf(r) \subseteq Ahead(r) /\ Ahead(r) \subseteq Committed
  BY DEF PageOf, Ahead
<1>4. MessagesTypeOK'
  <2>1. PageOf(r) \subseteq Msgs
    BY <1>3 DEF Committed
  <2>2. QED
    BY <2>1 DEF MessagesInv, MessagesTypeOK, ReadPage, messageWrites
<1>5. CursorIsCommitted' /\ OnlyLateCommitsSkipped'
  BY <1>1 DEF MessagesInv, CursorIsCommitted, OnlyLateCommitsSkipped
<1>6. ASSUME NEW p \in PageOf(r), NEW m \in Committed, rsince[r] < id[m], id[m] <= id[p]
      PROVE  m \in PageOf(r)
  <2>1. id[m] \in Nat /\ rsince[r] \in Nat
    BY DEF MessagesInv, MessagesTypeOK, Committed
  <2>2. m \in Ahead(r)
    BY <1>6, <2>1 DEF Ahead
  <2>3. QED
    BY <1>6, <2>2, PageIsPrefix
<1>7. PagesHaveNoGap'
  BY <1>1, <1>2, <1>3, <1>6 DEF MessagesInv, PagesHaveNoGap
<1>8. QED
  BY <1>1, <1>4, <1>5, <1>7 DEF MessagesInv

(* The cursor moves to the end of the page: all it passes was behind it,   *)
(* is on the page, or was late.                                            *)
LEMMA ReadCommitKeeps ==
    ASSUME MessagesInv, NEW r \in Reads, ReadCommit(r) PROVE MessagesInv'
<1> DEFINE S == {cursor} \cup {id[m] : m \in page[r]}
<1>1. /\ IdsAreUnique' /\ Committed' = Committed /\ UNCHANGED <<id, nextId, late>>
      /\ returned' = returned \cup page[r] /\ cursor' = Max(S)
  BY ReadsWriteNothing DEF ReadCommit, NewCursor
<1>2. /\ nextId - 1 \in Nat /\ cursor \in 0..(nextId - 1) /\ page[r] \subseteq Committed
      /\ \A m \in Committed : id[m] \in 0..(nextId - 1)
  BY CommittedIsInserted
  DEF MessagesInv, MessagesTypeOK, IdsAreUnique, PagesHaveNoGap
<1>3. S \in SUBSET (0..(nextId - 1)) /\ S # {}
  BY <1>2
<1>4. cursor' \in S /\ \A y \in S : y <= cursor'
  BY <1>1, <1>2, <1>3, MaxOfBounded
<1>5. cursor' \in 0..(nextId - 1) /\ cursor <= cursor'
  BY <1>3, <1>4
<1>6. cursor' = cursor \/ \E p \in page[r] : id[p] = cursor'
  BY <1>4
<1> HIDE DEF S
<1>7. /\ rpc[r] = "page" /\ rpc'[r] = "idle" /\ page'[r] = {}
      /\ \A q \in Reads \ {r} : page'[q] = page[q] /\ rpc'[q] = rpc[q] /\ rsince'[q] = rsince[q]
  BY DEF MessagesInv, MessagesTypeOK, ReadCommit
<1>8. MessagesTypeOK'
  BY <1>1, <1>5 DEF MessagesInv, MessagesTypeOK, ReadCommit, messageWrites
<1>9. CursorIsCommitted'
  BY <1>1, <1>2, <1>6 DEF MessagesInv, CursorIsCommitted
<1>10. OnlyLateCommitsSkipped'
  <2> SUFFICES ASSUME NEW m \in Committed, id[m] <= cursor'
               PROVE  m \in returned \cup page[r] \cup late
    BY <1>1 DEF OnlyLateCommitsSkipped
  <2>1. CASE id[m] <= cursor
    BY <2>1 DEF MessagesInv, OnlyLateCommitsSkipped
  <2>2. CASE ~(id[m] <= cursor)
    <3>1. PICK p \in page[r] : id[p] = cursor'
      BY <1>6, <2>2
    <3>2. rsince[r] < id[m]
      <4>1. rsince[r] \in Nat /\ rsince[r] <= cursor /\ id[m] \in Nat /\ cursor \in Nat
        BY <1>2, <1>7 DEF MessagesInv, MessagesTypeOK, PagesHaveNoGap, Committed
      <4>2. QED
        BY <2>2, <4>1
    <3>3. QED
      BY <1>7, <3>1, <3>2 DEF MessagesInv, PagesHaveNoGap
  <2>3. QED
    BY <2>1, <2>2
<1>11. PagesHaveNoGap'
  <2>1. \A q \in Reads \ {r} : rpc[q] # "idle" => rsince[q] <= cursor'
    BY <1>2, <1>5 DEF MessagesInv, MessagesTypeOK, PagesHaveNoGap
  <2>2. QED
    BY <1>1, <1>7, <2>1 DEF MessagesInv, PagesHaveNoGap
<1>12. QED
  BY <1>1, <1>8, <1>9, <1>10, <1>11 DEF MessagesInv

LEMMA ReadFailsKeeps ==
    ASSUME MessagesInv, NEW r \in Reads, ReadFails(r) PROVE MessagesInv'
<1>1. /\ IdsAreUnique' /\ Committed' = Committed
      /\ UNCHANGED <<id, nextId, late, cursor, returned>>
  BY ReadsWriteNothing DEF ReadFails
<1>2. MessagesTypeOK'
  BY DEF MessagesInv, MessagesTypeOK, ReadFails, messageWrites
<1>3. CursorIsCommitted' /\ OnlyLateCommitsSkipped'
  BY <1>1 DEF MessagesInv, CursorIsCommitted, OnlyLateCommitsSkipped
<1>4. PagesHaveNoGap'
  BY <1>1 DEF MessagesInv, MessagesTypeOK, PagesHaveNoGap, ReadFails
<1>5. QED
  BY <1>1, <1>2, <1>3, <1>4 DEF MessagesInv

LEMMA MessagesStep == ASSUME MessagesInv, [MessagesNext]_messageVars PROVE MessagesInv'
<1>1. CASE MessagesNext
  BY <1>1, PostInsertKeeps, PostCommitKeeps, ReadCursorKeeps, ReadPageKeeps, ReadCommitKeeps,
     ReadFailsKeeps
  DEF MessagesNext
<1>2. CASE UNCHANGED messageVars
  BY <1>2
  DEF messageVars, MessagesInv, MessagesTypeOK, IdsAreUnique, CursorIsCommitted, PagesHaveNoGap,
      OnlyLateCommitsSkipped, Inserted, Committed
<1>3. QED
  BY <1>1, <1>2

(* However many reads of a window overlap, its cursor passes a committed   *)
(* message without an answer returning it only when that message committed *)
(* below one already committed (read_messages, post_message).              *)
THEOREM OnlyLateIsSkipped == MessagesSpec => []OnlyLateCommitsSkipped
<1>1. MessagesInit => MessagesInv
  BY MessagesInitially
<1>2. MessagesInv /\ [MessagesNext]_messageVars => MessagesInv'
  BY MessagesStep
<1>3. MessagesInv => OnlyLateCommitsSkipped
  BY DEF MessagesInv
<1>4. QED
  BY <1>1, <1>2, <1>3, PTL DEF MessagesSpec
=============================================================================
