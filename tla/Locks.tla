------------------------------- MODULE Locks --------------------------------
(***************************************************************************)
(* The advisory locks of one team: store/locks.rs.  A window is an         *)
(* (agent, session) pair.  Both operations are one guarded transaction     *)
(* with one statement: BEGIN fixes now(), the statement runs when the row  *)
(* is free and commits.  The row lock is held by nobody in between, so     *)
(* statement and COMMIT are one step; what a wait changes is now().        *)
(***************************************************************************)
EXTENDS Callers

CONSTANTS Names,  \* lock names
          TTLs    \* durations a caller may ask for, after the clamp

(* acquire_lock clamps to at least 5 seconds.                              *)
ASSUME LocksConstants == TTLs \subseteq Nat \ {0}

VARIABLES lock, lpc, lwho, lname, lnow

lockVars == <<clock, lock, lpc, lwho, lname, lnow>>

LockRows == [holder : Windows \cup {None}, expires : Int]

(* No row: the name is free.                                               *)
NoLock == [holder |-> None, expires |-> 0]

LocksTypeOK ==
    /\ clock \in 0..MaxClock
    /\ lock \in [Names -> LockRows]
    /\ lpc \in [Reqs -> {"idle", "acquire", "release"}]
    /\ lwho \in [Reqs -> Windows \cup {None}]
    /\ lname \in [Reqs -> Names \cup {None}]
    /\ lnow \in [Reqs -> 0..MaxClock]
    /\ \A r \in Reqs : lpc[r] # "idle" => lwho[r] \in Windows /\ lname[r] \in Names

LocksInit ==
    /\ clock = 0
    /\ lock = [n \in Names |-> NoLock]
    /\ lpc = [r \in Reqs |-> "idle"]
    /\ lwho = [r \in Reqs |-> None]
    /\ lname = [r \in Reqs |-> None]
    /\ lnow = [r \in Reqs |-> 0]

LockBegin(r, o, w, n) ==
    /\ lpc[r] = "idle"
    /\ lpc' = [lpc EXCEPT ![r] = o]
    /\ lwho' = [lwho EXCEPT ![r] = w]
    /\ lname' = [lname EXCEPT ![r] = n]
    /\ lnow' = [lnow EXCEPT ![r] = clock]
    /\ UNCHANGED <<clock, lock>>

LockEnd(r) ==
    /\ lpc' = [lpc EXCEPT ![r] = "idle"]
    /\ lwho' = [lwho EXCEPT ![r] = None]
    /\ lname' = [lname EXCEPT ![r] = None]
    /\ lnow' = [lnow EXCEPT ![r] = 0]

(* Mutant: the holder is matched by nothing, an expiry in the future is    *)
(* no obstacle.                                                            *)
MayAcquireAnyway(x, w, t) == x.holder = None \/ x.expires # t

(* The upsert's WHERE: no row, a lock that lapsed, or one's own.           *)
MayAcquire(x, w, t) == x.holder = None \/ x.expires < t \/ x.holder = w

(* acquire_lock                                                            *)
Acquire(r, ttl) ==
    /\ lpc[r] = "acquire"
    /\ lock' = IF MayAcquire(lock[lname[r]], lwho[r], lnow[r])
               THEN [lock EXCEPT ![lname[r]] = [holder |-> lwho[r],
                                               expires |-> lnow[r] + ttl]]
               ELSE lock
    /\ LockEnd(r)
    /\ UNCHANGED clock

MayRelease(x, w) == x.holder = w

(* release_lock                                                            *)
Release(r) ==
    /\ lpc[r] = "release"
    /\ lock' = IF MayRelease(lock[lname[r]], lwho[r])
               THEN [lock EXCEPT ![lname[r]] = NoLock] ELSE lock
    /\ LockEnd(r)
    /\ UNCHANGED clock

(* The guard refuses, or the connection dies: rollback.                    *)
LockAbort(r) == lpc[r] # "idle" /\ LockEnd(r) /\ UNCHANGED <<clock, lock>>

LocksTick == Advance /\ UNCHANGED <<lock, lpc, lwho, lname, lnow>>

LocksNext ==
    \/ LocksTick
    \/ \E r \in Reqs :
          \/ \E w \in Windows, n \in Names, o \in {"acquire", "release"} :
                LockBegin(r, o, w, n)
          \/ \E ttl \in TTLs : Acquire(r, ttl)
          \/ Release(r) \/ LockAbort(r)

LocksSpec == LocksInit /\ [][LocksNext]_lockVars

-----------------------------------------------------------------------------
LocksAsLease ==
    INSTANCE Lease WITH
        Resources <- Names,
        holder <- [n \in Names |-> lock[n].holder],
        until <- [n \in Names |-> lock[n].expires]

(* A lock passes to another window only when it was released, or when it   *)
(* lapsed by the real clock: store/locks.rs implements Lease.              *)
LocksImplementLease == LocksAsLease!Spec

(* A lock that runs by the real clock is released and extended by requests *)
(* of the window that holds it and by nobody else's.                       *)
LiveLockBelongsToHolder ==
    [][\A n \in Names :
          /\ lock[n].holder # None /\ lock[n].expires > clock
          /\ lock'[n] # lock[n]
          => \E r \in Reqs : /\ lpc[r] # "idle" /\ lpc'[r] = "idle"
                             /\ lname[r] = n /\ lwho[r] = lock[n].holder]_lockVars
=============================================================================
