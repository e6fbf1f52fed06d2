------------------------------ MODULE Sessions ------------------------------
(***************************************************************************)
(* Authenticated windows of ONE agent: its api_tokens, its agent_sessions  *)
(* rows and the transactions that touch them (store/sessions.rs, auth.rs,  *)
(* the token half of store/admin.rs, the liveness test of                  *)
(* conversations::recover_history).                                        *)
(*                                                                         *)
(* Every request is a process.  It authenticates in one statement and acts *)
(* later, in a transaction of its own; other requests run in between.      *)
(* What Postgres contributes and the code relies on:                       *)
(*   - now() is the time the transaction BEGAN, so a request that waited   *)
(*     for a lock compares expiries with a clock that is behind;           *)
(*   - the agent row is locked FOR NO KEY UPDATE (lifecycle) or FOR UPDATE *)
(*     (token issue), one holder at a time, until the transaction ends;    *)
(*   - the guard's FOR SHARE lock on a session row makes every UPDATE of   *)
(*     that row wait until the guarded transaction ends;                   *)
(*   - a statement that waited re-evaluates its WHERE on the latest row.   *)
(* Rows are keyed by (agent, label) and never deleted, so the label stands *)
(* for the session id and other agents' rows are never touched.            *)
(***************************************************************************)
EXTENDS Integers, FiniteSets

CONSTANTS Reqs,        \* request slots: handlers that may run concurrently
          Tokens,      \* ids of agent tokens
          Labels,      \* session labels
          TTLs,        \* lifetimes a caller may ask for, after ttl_of's clamp
          MaxActive,   \* MAX_ACTIVE_TOKENS_PER_AGENT
          MaxClock,    \* bound: the clock stops here
          MaxSecrets,  \* bound: credentials generated in a behaviour
          None

ASSUME SessionsConstants ==
    /\ TTLs \subseteq Nat \ {0}
    /\ MaxActive \in Nat /\ MaxClock \in Nat /\ MaxSecrets \in Nat
    /\ None \notin Tokens \cup Labels

VARIABLES
    clock,     \* wall clock of the database
    disabled,  \* agents.disabled_at IS NOT NULL
    token,     \* api_tokens: "unissued", "live" or "revoked"
    sess,      \* agent_sessions row per label; epoch 0 is "no row"
    minted,    \* credentials stored so far; secret n is the n-th one
    issued,    \* history: every credential a committed transaction issued
    pc,        \* where each request is
    ctx,       \* AuthCtx of each request, fixed when it authenticated
    now,       \* now() of each request's transaction
    tgt        \* the label or token the request names

vars == <<clock, disabled, token, sess, minted, issued, pc, ctx, now, tgt>>
store == <<disabled, token, sess, issued>>

Rows == [epoch : Nat, parent : Tokens \cup {None}, secret : Nat,
         expires : Nat, revoked : BOOLEAN]
NoRow == [epoch |-> 0, parent |-> None, secret |-> 0, expires |-> 0,
          revoked |-> FALSE]

(* AuthCtx: a token names an agent credential, a win a session credential. *)
Ctxs == [token : Tokens \cup {None}, win : Labels \cup {None}, epoch : Nat]
NoCtx == [token |-> None, win |-> None, epoch |-> 0]
Authenticated(c) == c.win # None

(* Program counters.  AgentLocked: the transaction holds the agent row;    *)
(* Guarded: it holds the share lock on its own session row.                *)
AgentLocked == {"reg_locked", "reg_checked", "res_locked", "rev_locked",
                "rev_guarded", "rec_locked", "rec_checked", "rt_locked",
                "it_locked"}
Guarded == {"wr_guarded", "rev_guarded"}
Begun == {"reg_begun", "res_begun", "ren_begun", "rev_begun", "wr_begun",
          "rec_begun", "rt_begun", "it_begun"}
InTx == Begun \cup AgentLocked \cup Guarded
PCs == {"idle", "authed"} \cup InTx

Registered(l) == sess[l].epoch > 0
ParentRevoked(l) == sess[l].parent # None /\ token[sess[l].parent] = "revoked"

(* Dead to register: revoked, past its expiry, or the parent is revoked.   *)
DeadAt(l, t) == sess[l].revoked \/ sess[l].expires <= t \/ ParentRevoked(l)

TypeOK ==
    /\ clock \in 0..MaxClock
    /\ disabled \in BOOLEAN
    /\ token \in [Tokens -> {"unissued", "live", "revoked"}]
    /\ sess \in [Labels -> Rows]
    /\ \A l \in Labels : Registered(l) => sess[l].parent \in Tokens
    /\ minted \in Nat
    /\ issued \subseteq [label : Labels, epoch : Nat, secret : Nat]
    /\ pc \in [Reqs -> PCs]
    /\ ctx \in [Reqs -> Ctxs]
    /\ now \in [Reqs -> 0..MaxClock]
    /\ tgt \in [Reqs -> Labels \cup Tokens \cup {None}]

Init ==
    /\ clock = 0 /\ disabled = FALSE
    /\ token \in {f \in [Tokens -> {"unissued", "live"}] :
                    Cardinality({t \in Tokens : f[t] = "live"}) = 1}
    /\ sess = [l \in Labels |-> NoRow]
    /\ minted = 0 /\ issued = {}
    /\ pc = [r \in Reqs |-> "idle"]
    /\ ctx = [r \in Reqs |-> NoCtx]
    /\ now = [r \in Reqs |-> 0]
    /\ tgt = [r \in Reqs |-> None]

-----------------------------------------------------------------------------
(* Locks.                                                                  *)

(* Nobody else holds the agent row.                                        *)
AgentFree(r) == \A q \in Reqs \ {r} : pc[q] \notin AgentLocked

(* Mutant: revoke_token locks the agent FOR UPDATE instead of NO KEY       *)
(* UPDATE, which refuses the key share of a foreign key.                   *)
AgentKeyFreeForUpdate(r) ==
    \A q \in Reqs \ {r} : pc[q] \notin {"it_locked", "rt_locked"}

(* A foreign key on agents takes KEY SHARE, which only FOR UPDATE refuses. *)
AgentKeyFree(r) == \A q \in Reqs \ {r} : pc[q] # "it_locked"

(* Nobody else holds a share lock on the row of l.                         *)
RowFree(r, l) ==
    \A q \in Reqs \ {r} : ~(pc[q] \in Guarded /\ ctx[q].win = l)

(* The end of a request, committed or rolled back: its locks go with it.   *)
End(r) ==
    /\ pc' = [pc EXCEPT ![r] = "idle"]
    /\ ctx' = [ctx EXCEPT ![r] = NoCtx]
    /\ now' = [now EXCEPT ![r] = 0]
    /\ tgt' = [tgt EXCEPT ![r] = None]

Goto(r, from, to) ==
    /\ pc[r] = from
    /\ pc' = [pc EXCEPT ![r] = to]
    /\ UNCHANGED <<clock, store, minted, ctx, now, tgt>>

LockAgent(r, from, to) == AgentFree(r) /\ Goto(r, from, to)

(* A test inside a transaction: on to the next step, or an error that      *)
(* rolls back.                                                             *)
Test(r, from, ok, to) ==
    /\ pc[r] = from
    /\ \/ ok /\ Goto(r, from, to)
       \/ ~ok /\ End(r) /\ UNCHANGED <<clock, store, minted>>

(* BEGIN: the transaction's clock is read here and never again.            *)
Begin(r, from, to, target) ==
    /\ pc[r] = from
    /\ pc' = [pc EXCEPT ![r] = to]
    /\ now' = [now EXCEPT ![r] = clock]
    /\ tgt' = [tgt EXCEPT ![r] = target]
    /\ UNCHANGED <<clock, store, minted, ctx>>

(* generate_session_token: never one that was generated before.            *)
Fresh == minted + 1

-----------------------------------------------------------------------------
(* auth::require_bearer.                                                   *)

(* resolve_token: an agent token that is live, of an agent that is not     *)
(* disabled.                                                               *)
AuthToken(r, t) ==
    /\ pc[r] = "idle"
    /\ token[t] = "live" /\ ~disabled
    /\ pc' = [pc EXCEPT ![r] = "authed"]
    /\ ctx' = [ctx EXCEPT ![r] = [token |-> t, win |-> None, epoch |-> 0]]
    /\ UNCHANGED <<clock, store, minted, now, tgt>>

(* resolve_session_token: the row whose hash is this secret's, in one      *)
(* statement.  A secret that was rotated away matches no row.  An epoch    *)
(* header below the row's epoch is refused, one that is absent is not.     *)
AuthSession(r, c, sent) ==
    /\ pc[r] = "idle"
    /\ sess[c.label].secret = c.secret
    /\ ~disabled
    /\ ~DeadAt(c.label, clock)
    /\ sent \in {None} \cup Nat
    /\ sent # None => sent >= sess[c.label].epoch
    /\ pc' = [pc EXCEPT ![r] = "authed"]
    /\ ctx' = [ctx EXCEPT ![r] = [token |-> None, win |-> c.label,
                                  epoch |-> sess[c.label].epoch]]
    /\ UNCHANGED <<clock, store, minted, now, tgt>>

(* A read-only tool, or a tool that refuses before its transaction: an     *)
(* agent token that asks to resume, a session credential that asks to      *)
(* register or to recover.                                                 *)
Answer(r) ==
    /\ pc[r] = "authed"
    /\ End(r)
    /\ UNCHANGED <<clock, store, minted>>

(* The connection or the process dies inside the transaction: rollback.    *)
Abort(r) ==
    /\ pc[r] \in InTx
    /\ End(r)
    /\ UNCHANGED <<clock, store, minted>>

-----------------------------------------------------------------------------
(* sessions::register                                                      *)

RegisterBegin(r, l) ==
    /\ ~Authenticated(ctx[r])
    /\ Begin(r, "authed", "reg_begun", l)

RegisterLock(r) == LockAgent(r, "reg_begun", "reg_locked")

(* Mutant: the parent token is not re-read.                                *)
ParentLiveUnread(r) == ctx[r].token # None

(* The parent token, re-read under the agent lock.                         *)
ParentLive(r) == token[ctx[r].token] = "live"

RegisterCheck(r) == Test(r, "reg_locked", ParentLive(r), "reg_checked")

(* Mutant: the takeover keeps the row's epoch.                             *)
TakenOverOldEpoch(r, ttl) ==
    [epoch |-> IF Registered(tgt[r]) THEN sess[tgt[r]].epoch ELSE 1,
     parent |-> ctx[r].token,
     secret |-> Fresh, expires |-> now[r] + ttl, revoked |-> FALSE]

(* Mutant: the takeover keeps the row's token_hash.                        *)
TakenOverOldHash(r, ttl) ==
    [epoch |-> sess[tgt[r]].epoch + 1, parent |-> ctx[r].token,
     secret |-> IF Registered(tgt[r]) THEN sess[tgt[r]].secret ELSE Fresh,
     expires |-> now[r] + ttl, revoked |-> FALSE]

(* INSERT ... ON CONFLICT DO UPDATE, and COMMIT.                           *)
TakenOver(r, ttl) ==
    [epoch |-> sess[tgt[r]].epoch + 1, parent |-> ctx[r].token,
     secret |-> Fresh, expires |-> now[r] + ttl, revoked |-> FALSE]

MayTakeOver(r) == ~Registered(tgt[r]) \/ DeadAt(tgt[r], now[r])

RegisterCommit(r, ttl) ==
    /\ pc[r] = "reg_checked"
    /\ RowFree(r, tgt[r])
    /\ IF MayTakeOver(r)
       THEN /\ sess' = [sess EXCEPT ![tgt[r]] = TakenOver(r, ttl)]
            /\ issued' = issued \cup {[label |-> tgt[r], secret |-> Fresh,
                                       epoch |-> sess[tgt[r]].epoch + 1]}
            /\ minted < MaxSecrets /\ minted' = Fresh
       ELSE UNCHANGED <<sess, issued, minted>>
    /\ End(r)
    /\ UNCHANGED <<clock, disabled, token>>

-----------------------------------------------------------------------------
(* sessions::resume                                                        *)

ResumeBegin(r) ==
    /\ Authenticated(ctx[r])
    /\ Begin(r, "authed", "res_begun", ctx[r].win)

(* Mutant: resume does not wait for the agent row.                         *)
ResumeLockNothing(r) == Goto(r, "res_begun", "res_locked")

ResumeLock(r) == LockAgent(r, "res_begun", "res_locked")

(* Mutant: the rotation is not fenced on the epoch.                        *)
MayResumeAnyEpoch(r) ==
    ~sess[ctx[r].win].revoked /\ ~ParentRevoked(ctx[r].win)

(* The rotation's WHERE: not revoked, the epoch this credential            *)
(* authenticated with, a parent that is not revoked.  The expiry is not    *)
(* asked.                                                                  *)
MayResume(r) ==
    LET l == ctx[r].win
    IN  ~sess[l].revoked /\ sess[l].epoch = ctx[r].epoch /\ ~ParentRevoked(l)

Resumed(r, ttl) ==
    LET s == sess[ctx[r].win]
    IN  [epoch |-> s.epoch + 1, parent |-> s.parent, secret |-> Fresh,
         expires |-> now[r] + ttl, revoked |-> s.revoked]

ResumeCommit(r, ttl) ==
    /\ pc[r] = "res_locked"
    /\ RowFree(r, ctx[r].win)
    /\ IF MayResume(r)
       THEN /\ sess' = [sess EXCEPT ![ctx[r].win] = Resumed(r, ttl)]
            /\ issued' = issued \cup {[label |-> ctx[r].win, secret |-> Fresh,
                                       epoch |-> sess[ctx[r].win].epoch + 1]}
            /\ minted < MaxSecrets /\ minted' = Fresh
       ELSE UNCHANGED <<sess, issued, minted>>
    /\ End(r)
    /\ UNCHANGED <<clock, disabled, token>>

-----------------------------------------------------------------------------
(* sessions::renew: one UPDATE, no agent lock, no test of the expiry.      *)

RenewBegin(r) ==
    /\ Authenticated(ctx[r])
    /\ Begin(r, "authed", "ren_begun", ctx[r].win)

MayRenew(r) ==
    ~sess[ctx[r].win].revoked /\ sess[ctx[r].win].epoch = ctx[r].epoch

RenewCommit(r, ttl) ==
    /\ pc[r] = "ren_begun"
    /\ RowFree(r, ctx[r].win)
    /\ sess' = IF MayRenew(r)
               THEN [sess EXCEPT ![ctx[r].win].expires = now[r] + ttl]
               ELSE sess
    /\ End(r)
    /\ UNCHANGED <<clock, disabled, token, issued, minted>>

-----------------------------------------------------------------------------
(* sessions::guard: what a transaction re-reads FOR SHARE before it writes. *)

(* Mutant: the guard does not compare epochs.                              *)
GuardAnyEpoch(r) ==
    Authenticated(ctx[r]) => LET s == sess[ctx[r].win]
                             IN  ~s.revoked /\ s.expires > now[r]

GuardPasses(r) ==
    Authenticated(ctx[r]) =>
        LET s == sess[ctx[r].win]
        IN  ~s.revoked /\ s.expires > now[r] /\ s.epoch = ctx[r].epoch

Guard(r, from, to) == Test(r, from, GuardPasses(r), to)

(* Any guarded mutation: BEGIN, guard, statements whose foreign keys take  *)
(* a key share on the agent, COMMIT.                                       *)
WriteBegin(r) == Begin(r, "authed", "wr_begun", None)

WriteGuard(r) == Guard(r, "wr_begun", "wr_guarded")

WriteCommit(r) ==
    /\ pc[r] = "wr_guarded"
    /\ AgentKeyFree(r)
    /\ End(r)
    /\ UNCHANGED <<clock, store, minted>>

-----------------------------------------------------------------------------
(* sessions::revoke                                                        *)

RevokeBegin(r, l) == Begin(r, "authed", "rev_begun", l)

RevokeLock(r) == LockAgent(r, "rev_begun", "rev_locked")

RevokeGuard(r) == Guard(r, "rev_locked", "rev_guarded")

RevokeCommit(r) ==
    /\ pc[r] = "rev_guarded"
    /\ RowFree(r, tgt[r])
    /\ sess' = IF Registered(tgt[r])
               THEN [sess EXCEPT ![tgt[r]].revoked = TRUE] ELSE sess
    /\ End(r)
    /\ UNCHANGED <<clock, disabled, token, issued, minted>>

-----------------------------------------------------------------------------
(* conversations::recover_history, as far as sessions are concerned: with  *)
(* the agent row held it checks that no window is live, then reads.        *)

RecoverBegin(r) ==
    /\ ~Authenticated(ctx[r])
    /\ Begin(r, "authed", "rec_begun", None)

RecoverLock(r) == LockAgent(r, "rec_begun", "rec_locked")

AllGone(r) == \A l \in Labels : Registered(l) => DeadAt(l, now[r])

RecoverCheck(r) == Test(r, "rec_locked", AllGone(r), "rec_checked")

RecoverCommit(r) ==
    /\ pc[r] = "rec_checked"
    /\ End(r)
    /\ UNCHANGED <<clock, store, minted>>

-----------------------------------------------------------------------------
(* admin::revoke_token, admin::issue_token, admin::disable_agent and the   *)
(* re-enabling half of admin::create_agent.                                *)

RevokeTokenBegin(r, t) ==
    token[t] # "unissued" /\ Begin(r, "idle", "rt_begun", t)

RevokeTokenLock(r) == LockAgent(r, "rt_begun", "rt_locked")

(* The token, and every session derived from it, in one transaction.  A    *)
(* token already revoked sweeps nothing.                                   *)
Swept(t) ==
    [l \in Labels |-> IF Registered(l) /\ sess[l].parent = t
                      THEN [sess[l] EXCEPT !.revoked = TRUE] ELSE sess[l]]

RevokeTokenCommit(r) ==
    /\ pc[r] = "rt_locked"
    /\ \A l \in Labels : sess[l].parent = tgt[r] /\ ~sess[l].revoked
                            => RowFree(r, l)
    /\ IF token[tgt[r]] = "live"
       THEN token' = [token EXCEPT ![tgt[r]] = "revoked"] /\ sess' = Swept(tgt[r])
       ELSE UNCHANGED <<token, sess>>
    /\ End(r)
    /\ UNCHANGED <<clock, disabled, issued, minted>>

Active == {t \in Tokens : token[t] = "live"}

IssueTokenBegin(r, t) == Begin(r, "idle", "it_begun", t)

IssueTokenLock(r) == LockAgent(r, "it_begun", "it_locked")

IssueTokenCommit(r) ==
    /\ pc[r] = "it_locked"
    /\ token' = IF /\ token[tgt[r]] = "unissued" /\ ~disabled
                   /\ Cardinality(Active) < MaxActive
                THEN [token EXCEPT ![tgt[r]] = "live"] ELSE token
    /\ End(r)
    /\ UNCHANGED <<clock, disabled, sess, issued, minted>>

SetDisabled(d) ==
    /\ disabled # d
    /\ \A q \in Reqs : pc[q] \notin AgentLocked
    /\ disabled' = d
    /\ UNCHANGED <<clock, token, sess, issued, minted, pc, ctx, now, tgt>>

Tick ==
    /\ clock < MaxClock
    /\ clock' = clock + 1
    /\ UNCHANGED <<store, minted, pc, ctx, now, tgt>>

-----------------------------------------------------------------------------
RegisterStep(r) ==
    \/ \E l \in Labels : RegisterBegin(r, l)
    \/ RegisterLock(r) \/ RegisterCheck(r)
    \/ \E ttl \in TTLs : RegisterCommit(r, ttl)

ResumeStep(r) ==
    ResumeBegin(r) \/ ResumeLock(r) \/ \E ttl \in TTLs : ResumeCommit(r, ttl)

RenewStep(r) == RenewBegin(r) \/ \E ttl \in TTLs : RenewCommit(r, ttl)

WriteStep(r) == WriteBegin(r) \/ WriteGuard(r) \/ WriteCommit(r)

RevokeStep(r) ==
    \/ \E l \in Labels : RevokeBegin(r, l)
    \/ RevokeLock(r) \/ RevokeGuard(r) \/ RevokeCommit(r)

RecoverStep(r) ==
    RecoverBegin(r) \/ RecoverLock(r) \/ RecoverCheck(r) \/ RecoverCommit(r)

TokenStep(r) ==
    \/ \E t \in Tokens : RevokeTokenBegin(r, t) \/ IssueTokenBegin(r, t)
    \/ RevokeTokenLock(r) \/ RevokeTokenCommit(r)
    \/ IssueTokenLock(r) \/ IssueTokenCommit(r)

AuthStep(r) ==
    \/ \E t \in Tokens : AuthToken(r, t)
    \/ \E c \in issued, sent \in {None} \cup (0..MaxSecrets) : AuthSession(r, c, sent)
    \/ Answer(r) \/ Abort(r)

Next ==
    \/ \E r \in Reqs :
          \/ AuthStep(r) \/ RegisterStep(r) \/ ResumeStep(r) \/ RenewStep(r)
          \/ WriteStep(r) \/ RevokeStep(r) \/ RecoverStep(r) \/ TokenStep(r)
    \/ \E d \in BOOLEAN : SetDisabled(d)
    \/ Tick

Spec == Init /\ [][Next]_vars
-----------------------------------------------------------------------------
(* Properties.                                                             *)

(* A transaction that passed the guard with a session credential (any      *)
(* guarded mutation, and revoke) commits for the epoch the window is at:   *)
(* no resume, takeover or revocation slips in between guard and COMMIT.    *)
FencedWrites ==
    \A r \in Reqs : pc[r] \in Guarded /\ Authenticated(ctx[r]) =>
        /\ sess[ctx[r].win].epoch = ctx[r].epoch
        /\ ~sess[ctx[r].win].revoked

(* Once admin::revoke_token committed, no session derived from the token   *)
(* reads as live, not even one whose registration was in flight.           *)
SweptWithParent ==
    \A l \in Labels : Registered(l) /\ ParentRevoked(l) => sess[l].revoked

(* register and resume never hand the same epoch of a window to two        *)
(* callers, and the row always holds the newest credential issued for it.  *)
OneHolderPerEpoch ==
    /\ \A c, d \in issued :
          c.label = d.label /\ (c.epoch = d.epoch \/ c.secret = d.secret) => c = d
    /\ \A c \in issued : c.epoch <= sess[c.label].epoch
    /\ \A l \in Labels : Registered(l) =>
          [label |-> l, epoch |-> sess[l].epoch, secret |-> sess[l].secret] \in issued

(* A credential is fenced once its window was resumed, taken over or       *)
(* revoked, or its parent token was revoked.                               *)
Fenced(c) ==
    \/ sess[c.label].secret # c.secret
    \/ sess[c.label].revoked
    \/ ParentRevoked(c.label)

(* A fenced credential never authenticates again, whatever is registered,  *)
(* renewed, issued or re-enabled later.                                    *)
FencedForever == [][\A c \in issued : Fenced(c) => Fenced(c)']_vars

(* register never takes a live window: a row changes epoch only when it is *)
(* dead by the real clock, or when resume proved its current epoch.        *)
TakeoverOnlyOfDead ==
    [][\A l \in Labels : sess'[l].epoch # sess[l].epoch =>
          \/ ~Registered(l)
          \/ DeadAt(l, clock)
          \/ \E r \in Reqs : /\ pc[r] = "res_locked" /\ pc'[r] = "idle"
                             /\ ctx[r].win = l /\ ctx[r].epoch = sess[l].epoch]_vars

(* While recover_history is between its liveness check and its COMMIT, no  *)
(* window is registered or resumed (all three hold the agent row).         *)
RecoverySerialised ==
    [][\A r \in Reqs : pc[r] = "rec_checked" =>
          \A l \in Labels : sess'[l].epoch = sess[l].epoch]_vars

(* Who waits for a lock that is not free.                                  *)
Blocked(r) ==
    \/ pc[r] \in {"reg_begun", "res_begun", "rev_begun", "rec_begun",
                  "rt_begun", "it_begun"} /\ ~AgentFree(r)
    \/ pc[r] \in {"reg_checked", "rev_guarded"} /\ ~RowFree(r, tgt[r])
    \/ pc[r] \in {"res_locked", "ren_begun"} /\ ~RowFree(r, ctx[r].win)
    \/ /\ pc[r] = "rt_locked"
       /\ \E l \in Labels : /\ sess[l].parent = tgt[r] /\ ~sess[l].revoked
                            /\ ~RowFree(r, l)
    \/ pc[r] = "wr_guarded" /\ ~AgentKeyFree(r)

(* The lock order (agent row, then session row, with key shares let        *)
(* through) has no cycle: some open transaction can always go on.          *)
NoLockCycle ==
    (\E r \in Reqs : pc[r] \in InTx) =>
        \E r \in Reqs : pc[r] \in InTx /\ ~Blocked(r)
=============================================================================
