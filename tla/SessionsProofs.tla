--------------------------- MODULE SessionsProofs ---------------------------
(***************************************************************************)
(* Proofs about Sessions, for any number of requests, tokens and labels.   *)
(***************************************************************************)
EXTENDS Sessions, TLAPS

Registering == {"reg_begun", "reg_locked", "reg_checked"}
Revoking == {"rev_begun", "rev_locked", "rev_guarded"}
OwnWindow == {"res_begun", "res_locked", "ren_begun"}
TokenPCs == {"rt_begun", "rt_locked", "it_begun", "it_locked"}

(* What a request knows at each point: a register still names the token it *)
(* authenticated with and a label, resume and renew have a window, the     *)
(* token operations name a token, and no clock is ahead of the real one.   *)
Requests ==
    \A r \in Reqs :
        /\ pc[r] \in Registering =>
              ctx[r].win = None /\ ctx[r].token \in Tokens /\ tgt[r] \in Labels
        /\ pc[r] = "authed" => ctx[r].win # None \/ ctx[r].token \in Tokens
        /\ pc[r] \in OwnWindow => ctx[r].win # None
        /\ pc[r] \in Revoking => tgt[r] \in Labels
        /\ pc[r] \in TokenPCs => tgt[r] \in Tokens
        /\ ctx[r].win # None => Registered(ctx[r].win)
        /\ now[r] <= clock

(* Credentials are numbered, and no row falls behind one issued for it.    *)
Credentials ==
    \A c \in issued : /\ 0 < c.epoch /\ c.epoch <= sess[c.label].epoch
                     /\ c.secret <= minted

TypeInv == TypeOK /\ Requests /\ Credentials

-----------------------------------------------------------------------------
LEMMA InitTypes == Init => TypeInv
<1> SUFFICES ASSUME Init PROVE TypeInv
  OBVIOUS
<1>1. token \in [Tokens -> {"unissued", "live", "revoked"}]
  BY DEF Init
<1>2. sess \in [Labels -> Rows] /\ \A l \in Labels : ~Registered(l)
  BY DEF Init, Rows, NoRow, Registered
<1>3. ctx \in [Reqs -> Ctxs] /\ \A r \in Reqs : ctx[r].win = None
  BY DEF Init, Ctxs, NoCtx
<1>4. /\ clock \in 0..MaxClock /\ minted \in Nat
      /\ now \in [Reqs -> 0..MaxClock] /\ \A r \in Reqs : now[r] <= clock
  BY SessionsConstants DEF Init, SessionsConstants
<1>5. /\ disabled \in BOOLEAN /\ issued = {}
      /\ pc \in [Reqs -> PCs] /\ \A r \in Reqs : pc[r] = "idle"
      /\ tgt \in [Reqs -> Labels \cup Tokens \cup {None}]
  BY DEF Init, PCs
<1>6. QED
  BY <1>1, <1>2, <1>3, <1>4, <1>5
  DEF TypeInv, TypeOK, Requests, Credentials, Registering, OwnWindow, Revoking,
      TokenPCs

LEMMA EndTypes ==
    ASSUME TypeInv, NEW r \in Reqs, End(r), UNCHANGED <<clock, store, minted>>
    PROVE  TypeInv'
BY SessionsConstants DEF TypeInv, TypeOK, Requests, Credentials, Rows, Ctxs, NoCtx, store, PCs,
   Registered, Registering, OwnWindow, Revoking, TokenPCs, End

LEMMA GotoTypes ==
    ASSUME TypeInv, NEW r \in Reqs, NEW from, NEW to \in PCs, Goto(r, from, to),
           to \in Registering => from \in Registering,
           to = "authed" => from = "authed",
           to \in OwnWindow => from \in OwnWindow,
           to \in Revoking => from \in Revoking,
           to \in TokenPCs => from \in TokenPCs
    PROVE  TypeInv'
BY SessionsConstants DEF TypeInv, TypeOK, Requests, Credentials, Rows, Ctxs, store,
   Registered, Goto

LEMMA BeginTypes ==
    ASSUME TypeInv, NEW r \in Reqs, NEW from, NEW to \in PCs, NEW target,
           Begin(r, from, to, target),
           target \in Labels \cup Tokens \cup {None},
           to \in Registering => /\ ctx[r].win = None /\ ctx[r].token \in Tokens
                                 /\ target \in Labels,
           to # "authed",
           to \in OwnWindow => ctx[r].win # None,
           to \in Revoking => target \in Labels,
           to \in TokenPCs => target \in Tokens
    PROVE  TypeInv'
BY SessionsConstants DEF TypeInv, TypeOK, Requests, Credentials, Rows, Ctxs, store,
   Registered, Begin

(* Every test ends the request or moves it on.                             *)
LEMMA TestTypes ==
    ASSUME TypeInv, NEW r \in Reqs, NEW from, NEW to \in PCs, NEW ok,
           Test(r, from, ok, to),
           to \in Registering => from \in Registering,
           to = "authed" => from = "authed",
           to \in OwnWindow => from \in OwnWindow,
           to \in Revoking => from \in Revoking,
           to \in TokenPCs => from \in TokenPCs
    PROVE  TypeInv'
<1>1. CASE Goto(r, from, to)
  BY <1>1, GotoTypes
<1>2. CASE End(r) /\ UNCHANGED <<clock, store, minted>>
  BY <1>2, EndTypes
<1>3. QED
  BY <1>1, <1>2 DEF Test

(* An UPDATE of one row, and the end of the request.                       *)
LEMMA RowTypes ==
    ASSUME TypeInv, NEW r \in Reqs, NEW l \in Labels, NEW row \in Rows,
           row.parent \in Tokens, row.epoch >= sess[l].epoch, row.epoch > 0,
           sess' = [sess EXCEPT ![l] = row],
           \/ issued' = issued
           \/ issued' = issued \cup {[label |-> l, epoch |-> row.epoch, secret |-> minted']},
           minted' \in Nat, minted' >= minted,
           End(r), UNCHANGED <<clock, disabled, token>>
    PROVE  TypeInv'
<1> USE DEF TypeInv, TypeOK
<1>1. sess' \in [Labels -> Rows]
  OBVIOUS
<1>2. /\ \A k \in Labels : sess[k].epoch \in Nat /\ sess[k].epoch <= sess'[k].epoch
      /\ row.epoch \in Nat
  BY DEF Rows
<1>3. \A k \in Labels : Registered(k)' => sess'[k].parent \in Tokens
  BY DEF Registered
<1>4. issued' \subseteq [label : Labels, epoch : Nat, secret : Nat]
  BY <1>2
<1>5. Credentials'
  BY <1>2, <1>4 DEF Credentials
<1>6. Requests'
  BY <1>2, SessionsConstants
  DEF Requests, Registered, SessionsConstants, NoCtx, Ctxs, End,
      Registering, OwnWindow, Revoking, TokenPCs
<1>7. /\ clock' \in 0..MaxClock /\ disabled' \in BOOLEAN
      /\ token' \in [Tokens -> {"unissued", "live", "revoked"}]
      /\ pc' \in [Reqs -> PCs] /\ ctx' \in [Reqs -> Ctxs]
      /\ now' \in [Reqs -> 0..MaxClock]
      /\ tgt' \in [Reqs -> Labels \cup Tokens \cup {None}]
  BY SessionsConstants DEF SessionsConstants, NoCtx, Ctxs, PCs, End
<1>8. QED
  BY <1>1, <1>3, <1>4, <1>5, <1>6, <1>7

(* A sweep of tokens and rows that keeps every epoch and every parent.     *)
LEMMA SweepTypes ==
    ASSUME TypeInv, NEW r \in Reqs, End(r),
           token' \in [Tokens -> {"unissued", "live", "revoked"}],
           sess' \in [Labels -> Rows],
           \A l \in Labels : /\ sess'[l].epoch = sess[l].epoch
                             /\ sess'[l].parent = sess[l].parent,
           UNCHANGED <<clock, disabled, issued, minted>>
    PROVE  TypeInv'
<1> USE DEF TypeInv, TypeOK
<1>1. \A l \in Labels : Registered(l)' => sess'[l].parent \in Tokens
  BY DEF Registered
<1>2. Credentials'
  BY DEF Credentials
<1>3. Requests'
  BY SessionsConstants
  DEF Requests, Registered, SessionsConstants, NoCtx, Ctxs, End,
      Registering, OwnWindow, Revoking, TokenPCs
<1>4. /\ pc' \in [Reqs -> PCs] /\ ctx' \in [Reqs -> Ctxs]
      /\ now' \in [Reqs -> 0..MaxClock]
      /\ tgt' \in [Reqs -> Labels \cup Tokens \cup {None}]
  BY SessionsConstants DEF SessionsConstants, NoCtx, Ctxs, PCs, End
<1>5. QED
  BY <1>1, <1>2, <1>3, <1>4

LEMMA RegisterTypes ==
    ASSUME TypeInv, NEW r \in Reqs, RegisterStep(r)
    PROVE  TypeInv'
<1> USE DEF PCs, Begun, AgentLocked, Guarded, InTx, Registering, OwnWindow, Revoking, TokenPCs
<1>1. ASSUME NEW l \in Labels, RegisterBegin(r, l)
      PROVE  TypeInv'
  <2>1. ctx[r].win = None /\ ctx[r].token \in Tokens
    BY <1>1 DEF RegisterBegin, Begin, Authenticated, TypeInv, Requests
  <2>2. QED
    BY <1>1, <2>1, BeginTypes DEF RegisterBegin
<1>2. CASE RegisterLock(r)
  BY <1>2, GotoTypes DEF RegisterLock, LockAgent
<1>3. CASE RegisterCheck(r)
  BY <1>3, TestTypes DEF RegisterCheck
<1>4. ASSUME NEW ttl \in TTLs, RegisterCommit(r, ttl)
      PROVE  TypeInv'
  <2>1. /\ tgt[r] \in Labels /\ ctx[r].token \in Tokens
        /\ now[r] \in Nat /\ ttl \in Nat /\ minted \in Nat /\ Fresh \in Nat
        /\ sess[tgt[r]] \in Rows
    BY <1>4, SessionsConstants
    DEF RegisterCommit, TypeInv, TypeOK, Requests, Fresh, SessionsConstants
  <2>2. sess[tgt[r]].epoch + 1 \in Nat
    BY <2>1 DEF Rows
  <2>3. TakenOver(r, ttl) \in Rows /\ TakenOver(r, ttl).parent \in Tokens
    BY <2>1, <2>2 DEF TakenOver, Rows
  <2>4. CASE MayTakeOver(r)
    <3>1. TakenOver(r, ttl).epoch = sess[tgt[r]].epoch + 1 /\ sess[tgt[r]].epoch \in Nat
      BY <2>1 DEF TakenOver, Rows
    <3>2. minted' = minted + 1
      BY <1>4, <2>4 DEF RegisterCommit, Fresh
    <3>3. issued' = issued \cup {[label |-> tgt[r], epoch |-> TakenOver(r, ttl).epoch,
                                   secret |-> minted']}
      BY <1>4, <2>4, <3>1, <3>2 DEF RegisterCommit, Fresh
    <3>4. /\ sess' = [sess EXCEPT ![tgt[r]] = TakenOver(r, ttl)]
          /\ End(r) /\ UNCHANGED <<clock, disabled, token>>
      BY <1>4, <2>4 DEF RegisterCommit
    <3>5. /\ minted' \in Nat /\ minted' >= minted
          /\ TakenOver(r, ttl).epoch >= sess[tgt[r]].epoch /\ TakenOver(r, ttl).epoch > 0
      BY <2>1, <3>1, <3>2
    <3>6. QED
      BY <2>1, <2>3, <3>3, <3>4, <3>5, RowTypes
  <2>5. CASE ~MayTakeOver(r)
    BY <1>4, <2>5, EndTypes DEF RegisterCommit, store
  <2>6. QED
    BY <2>4, <2>5
<1>5. QED
  BY <1>1, <1>2, <1>3, <1>4 DEF RegisterStep

LEMMA ResumeTypes ==
    ASSUME TypeInv, NEW r \in Reqs, ResumeStep(r)
    PROVE  TypeInv'
<1> USE DEF PCs, Begun, AgentLocked, Guarded, InTx, Registering, OwnWindow, Revoking, TokenPCs
<1>1. CASE ResumeBegin(r)
  <2>1. ctx[r].win # None /\ ctx[r].win \in Labels \cup {None}
    BY <1>1 DEF ResumeBegin, Authenticated, TypeInv, TypeOK, Ctxs
  <2>2. QED
    BY <1>1, <2>1, BeginTypes DEF ResumeBegin
<1>2. CASE ResumeLock(r)
  BY <1>2, GotoTypes DEF ResumeLock, LockAgent
<1>3. ASSUME NEW ttl \in TTLs, ResumeCommit(r, ttl)
      PROVE  TypeInv'
  <2> DEFINE l == ctx[r].win
             row == Resumed(r, ttl)
  <2>1. /\ l \in Labels /\ now[r] \in Nat /\ ttl \in Nat
        /\ minted \in Nat /\ Fresh \in Nat /\ sess[l] \in Rows
    BY <1>3, SessionsConstants
    DEF ResumeCommit, TypeInv, TypeOK, Requests, Fresh, SessionsConstants, Ctxs
  <2>2. /\ sess[l].epoch \in Nat /\ sess[l].epoch > 0 /\ sess[l].parent \in Tokens
        /\ now[r] + ttl \in Nat
    BY <1>3, <2>1 DEF ResumeCommit, TypeInv, TypeOK, Requests, Registered, Rows
  <2>3. /\ row \in Rows /\ row.parent = sess[l].parent
        /\ row.epoch = sess[l].epoch + 1
    BY <2>1, <2>2 DEF Rows, Resumed
  <2>4. CASE MayResume(r)
    <3>1. sess' = [sess EXCEPT ![l] = row]
      BY <1>3, <2>1, <2>4 DEF ResumeCommit, TypeInv, TypeOK, Rows
    <3>2. minted' = minted + 1
      BY <1>3, <2>4 DEF ResumeCommit, Fresh
    <3>3. issued' = issued \cup {[label |-> l, epoch |-> row.epoch, secret |-> minted']}
      BY <1>3, <2>3, <2>4, <3>2 DEF ResumeCommit, Fresh
    <3>4. End(r) /\ UNCHANGED <<clock, disabled, token>>
      BY <1>3, <2>4 DEF ResumeCommit
    <3>5. /\ minted' \in Nat /\ minted' >= minted
          /\ row.epoch >= sess[l].epoch /\ row.epoch > 0 /\ row.parent \in Tokens
      BY <2>1, <2>2, <2>3, <3>2
    <3>6. QED
      BY <2>1, <2>3, <3>1, <3>3, <3>4, <3>5, RowTypes
  <2>5. CASE ~MayResume(r)
    BY <1>3, <2>5, EndTypes DEF ResumeCommit, store
  <2>6. QED
    BY <2>4, <2>5
<1>4. QED
  BY <1>1, <1>2, <1>3 DEF ResumeStep

LEMMA RenewTypes ==
    ASSUME TypeInv, NEW r \in Reqs, RenewStep(r)
    PROVE  TypeInv'
<1> USE DEF PCs, Begun, AgentLocked, Guarded, InTx, Registering, OwnWindow, Revoking, TokenPCs
<1>1. CASE RenewBegin(r)
  <2>1. ctx[r].win # None /\ ctx[r].win \in Labels \cup {None}
    BY <1>1 DEF RenewBegin, Authenticated, TypeInv, TypeOK, Ctxs
  <2>2. QED
    BY <1>1, <2>1, BeginTypes DEF RenewBegin
<1>2. ASSUME NEW ttl \in TTLs, RenewCommit(r, ttl)
      PROVE  TypeInv'
  <2> DEFINE l == ctx[r].win
             row == [sess[l] EXCEPT !.expires = now[r] + ttl]
  <2>1. l \in Labels /\ now[r] + ttl \in Nat /\ minted \in Nat /\ sess[l] \in Rows
    BY <1>2, SessionsConstants
    DEF RenewCommit, TypeInv, TypeOK, Requests, SessionsConstants, Ctxs
  <2>2. sess[l].epoch \in Nat /\ sess[l].epoch > 0 /\ sess[l].parent \in Tokens
    BY <1>2, <2>1 DEF RenewCommit, TypeInv, TypeOK, Requests, Registered, Rows
  <2>3. row \in Rows /\ row.parent = sess[l].parent /\ row.epoch = sess[l].epoch
    BY <2>1, <2>2 DEF Rows
  <2>4. CASE MayRenew(r)
    <3>1. sess' = [sess EXCEPT ![l] = row]
      BY <1>2, <2>1, <2>4 DEF RenewCommit, TypeInv, TypeOK
    <3>2. /\ End(r) /\ UNCHANGED <<clock, disabled, token>>
          /\ issued' = issued /\ minted' = minted
      BY <1>2 DEF RenewCommit
    <3>3. /\ minted' \in Nat /\ minted' >= minted
          /\ row.epoch >= sess[l].epoch /\ row.epoch > 0 /\ row.parent \in Tokens
      BY <2>1, <2>2, <2>3, <3>2
    <3> HIDE DEF row
    <3>4. QED
      BY <2>1, <2>3, <3>1, <3>2, <3>3, RowTypes
  <2>5. CASE ~MayRenew(r)
    BY <1>2, <2>5, EndTypes DEF RenewCommit, store
  <2>6. QED
    BY <2>4, <2>5
<1>3. QED
  BY <1>1, <1>2 DEF RenewStep

LEMMA WriteTypes ==
    ASSUME TypeInv, NEW r \in Reqs, WriteStep(r)
    PROVE  TypeInv'
<1> USE DEF PCs, Begun, AgentLocked, Guarded, InTx, Registering, OwnWindow, Revoking, TokenPCs
<1>1. CASE WriteBegin(r)
  BY <1>1, BeginTypes DEF WriteBegin
<1>2. CASE WriteGuard(r)
  BY <1>2, TestTypes DEF WriteGuard, Guard
<1>3. CASE WriteCommit(r)
  BY <1>3, EndTypes DEF WriteCommit
<1>4. QED
  BY <1>1, <1>2, <1>3 DEF WriteStep

LEMMA RevokeTypes ==
    ASSUME TypeInv, NEW r \in Reqs, RevokeStep(r)
    PROVE  TypeInv'
<1> USE DEF PCs, Begun, AgentLocked, Guarded, InTx, Registering, OwnWindow, Revoking, TokenPCs
<1>1. ASSUME NEW l \in Labels, RevokeBegin(r, l)
      PROVE  TypeInv'
  BY <1>1, BeginTypes DEF RevokeBegin
<1>2. CASE RevokeLock(r)
  BY <1>2, GotoTypes DEF RevokeLock, LockAgent
<1>3. CASE RevokeGuard(r)
  BY <1>3, TestTypes DEF RevokeGuard, Guard
<1>4. CASE RevokeCommit(r)
  <2> DEFINE l == tgt[r]
             row == [sess[l] EXCEPT !.revoked = TRUE]
  <2>1. l \in Labels /\ minted \in Nat /\ sess[l] \in Rows
    BY <1>4 DEF RevokeCommit, TypeInv, TypeOK, Requests
  <2>2. sess[l].epoch \in Nat
    BY <2>1 DEF Rows
  <2>3. row \in Rows /\ row.parent = sess[l].parent /\ row.epoch = sess[l].epoch
    BY <2>1, <2>2 DEF Rows
  <2>4. CASE Registered(l)
    <3>1. sess' = [sess EXCEPT ![l] = row]
      BY <1>4, <2>1, <2>4 DEF RevokeCommit, TypeInv, TypeOK
    <3>2. /\ End(r) /\ UNCHANGED <<clock, disabled, token>>
          /\ issued' = issued /\ minted' = minted
      BY <1>4 DEF RevokeCommit
    <3>3. sess[l].epoch > 0 /\ sess[l].parent \in Tokens
      BY <2>1, <2>4 DEF TypeInv, TypeOK, Registered
    <3>4. /\ minted' \in Nat /\ minted' >= minted
          /\ row.epoch >= sess[l].epoch /\ row.epoch > 0 /\ row.parent \in Tokens
      BY <2>1, <2>2, <2>3, <3>2, <3>3
    <3> HIDE DEF row
    <3>5. QED
      BY <2>1, <2>3, <3>1, <3>2, <3>4, RowTypes
  <2>5. CASE ~Registered(l)
    BY <1>4, <2>5, EndTypes DEF RevokeCommit, store
  <2>6. QED
    BY <2>4, <2>5
<1>5. QED
  BY <1>1, <1>2, <1>3, <1>4 DEF RevokeStep

LEMMA RecoverTypes ==
    ASSUME TypeInv, NEW r \in Reqs, RecoverStep(r)
    PROVE  TypeInv'
<1> USE DEF PCs, Begun, AgentLocked, Guarded, InTx, Registering, OwnWindow, Revoking, TokenPCs
<1>1. CASE RecoverBegin(r)
  BY <1>1, BeginTypes DEF RecoverBegin
<1>2. CASE RecoverLock(r)
  BY <1>2, GotoTypes DEF RecoverLock, LockAgent
<1>3. CASE RecoverCheck(r)
  BY <1>3, TestTypes DEF RecoverCheck
<1>4. CASE RecoverCommit(r)
  BY <1>4, EndTypes DEF RecoverCommit
<1>5. QED
  BY <1>1, <1>2, <1>3, <1>4 DEF RecoverStep

LEMMA TokenTypes ==
    ASSUME TypeInv, NEW r \in Reqs, TokenStep(r)
    PROVE  TypeInv'
<1> USE DEF PCs, Begun, AgentLocked, Guarded, InTx, Registering, OwnWindow, Revoking, TokenPCs
<1>1. ASSUME NEW t \in Tokens, RevokeTokenBegin(r, t)
      PROVE  TypeInv'
  BY <1>1, BeginTypes DEF RevokeTokenBegin
<1>2. ASSUME NEW t \in Tokens, IssueTokenBegin(r, t)
      PROVE  TypeInv'
  BY <1>2, BeginTypes DEF IssueTokenBegin
<1>3. CASE RevokeTokenLock(r)
  BY <1>3, GotoTypes DEF RevokeTokenLock, LockAgent
<1>4. CASE IssueTokenLock(r)
  BY <1>4, GotoTypes DEF IssueTokenLock, LockAgent
<1>5. CASE RevokeTokenCommit(r)
  <2>1. CASE token[tgt[r]] = "live"
    <3>1. Swept(tgt[r]) \in [Labels -> Rows]
      BY ZenonT(30) DEF Swept, TypeInv, TypeOK, Rows
    <3>2. \A l \in Labels : /\ Swept(tgt[r])[l].epoch = sess[l].epoch
                            /\ Swept(tgt[r])[l].parent = sess[l].parent
      BY DEF Swept, TypeInv, TypeOK, Rows
    <3>3. /\ sess' = Swept(tgt[r]) /\ token' = [token EXCEPT ![tgt[r]] = "revoked"]
          /\ End(r) /\ UNCHANGED <<clock, disabled, issued, minted>>
      BY <1>5, <2>1 DEF RevokeTokenCommit
    <3>4. token' \in [Tokens -> {"unissued", "live", "revoked"}]
      BY <3>3 DEF TypeInv, TypeOK
    <3>5. QED
      BY <3>1, <3>2, <3>3, <3>4, SweepTypes
  <2>2. CASE token[tgt[r]] # "live"
    BY <1>5, <2>2, EndTypes DEF RevokeTokenCommit, store
  <2>3. QED
    BY <2>1, <2>2
<1>6. CASE IssueTokenCommit(r)
  <2>1. token' \in [Tokens -> {"unissued", "live", "revoked"}]
    BY <1>6 DEF IssueTokenCommit, TypeInv, TypeOK, Requests
  <2>2. End(r) /\ UNCHANGED <<clock, disabled, sess, issued, minted>>
    BY <1>6 DEF IssueTokenCommit
  <2>3. QED
    BY <2>1, <2>2, SweepTypes DEF TypeInv, TypeOK
<1>7. QED
  BY <1>1, <1>2, <1>3, <1>4, <1>5, <1>6 DEF TokenStep

LEMMA AuthTypes ==
    ASSUME TypeInv, NEW r \in Reqs, AuthStep(r)
    PROVE  TypeInv'
<1> USE DEF PCs, Begun, AgentLocked, Guarded, InTx, Registering, OwnWindow, Revoking, TokenPCs
<1>1. ASSUME NEW t \in Tokens, AuthToken(r, t)
      PROVE  TypeInv'
  BY <1>1
  DEF AuthToken, TypeInv, TypeOK, Requests, Credentials, Registered, Ctxs, store
<1>2. ASSUME NEW c \in issued, NEW sent, AuthSession(r, c, sent)
      PROVE  TypeInv'
  <2>1. /\ c.label \in Labels /\ c.label # None /\ sess[c.label].epoch \in Nat
        /\ Registered(c.label)
    BY SessionsConstants
    DEF TypeInv, TypeOK, Credentials, Registered, Rows, SessionsConstants
  <2>2. QED
    BY <1>2, <2>1
    DEF AuthSession, TypeInv, TypeOK, Requests, Credentials, Registered, Ctxs, store
<1>3. CASE Answer(r) \/ Abort(r)
  BY <1>3, EndTypes DEF Answer, Abort
<1>4. QED
  BY <1>1, <1>2, <1>3 DEF AuthStep

LEMMA OtherTypes ==
    ASSUME TypeInv, Tick \/ (\E d \in BOOLEAN : SetDisabled(d)) \/ UNCHANGED vars
    PROVE  TypeInv'
<1>1. CASE Tick
  BY <1>1, SessionsConstants
  DEF Tick, TypeInv, TypeOK, Requests, Credentials, Registered, store, SessionsConstants
<1>2. CASE \E d \in BOOLEAN : SetDisabled(d)
  BY <1>2 DEF SetDisabled, TypeInv, TypeOK, Requests, Credentials, Registered
<1>3. CASE UNCHANGED vars
  BY <1>3 DEF vars, TypeInv, TypeOK, Requests, Credentials, Registered
<1>4. QED
  BY <1>1, <1>2, <1>3

LEMMA StepTypes == TypeInv /\ [Next]_vars => TypeInv'
BY AuthTypes, RegisterTypes, ResumeTypes, RenewTypes, WriteTypes, RevokeTypes,
   RecoverTypes, TokenTypes, OtherTypes
DEF Next

(* No sequence of requests, in whatever interleaving and on whatever       *)
(* stale clocks, leaves a row of agent_sessions, a token or a request      *)
(* outside its type; a registered window always has the token it came from.*)
THEOREM TypeCorrect == Spec => []TypeOK
<1>1. Spec => []TypeInv
  BY InitTypes, StepTypes, PTL DEF Spec
<1>2. TypeInv => TypeOK
  BY DEF TypeInv
<1>3. QED
  BY <1>1, <1>2, PTL

-----------------------------------------------------------------------------
(* The lifecycle invariant.  The two properties are not inductive on their *)
(* own: a registration that commits relies on the parent it re-read, which *)
(* stays live because the agent row has one holder at a time.              *)

AgentMutex ==
    \A q, r \in Reqs : pc[q] \in AgentLocked /\ pc[r] \in AgentLocked => q = r

CheckedParent ==
    \A r \in Reqs : pc[r] = "reg_checked" => token[ctx[r].token] = "live"

SafeInv == AgentMutex /\ CheckedParent /\ FencedWrites /\ SweptWithParent

LEMMA InitSafe == Init => SafeInv
<1> SUFFICES ASSUME Init PROVE SafeInv
  OBVIOUS
<1>1. (\A r \in Reqs : pc[r] = "idle") /\ \A l \in Labels : ~Registered(l)
  BY DEF Init, NoRow, Registered
<1>2. QED
  BY <1>1
  DEF SafeInv, AgentMutex, CheckedParent, FencedWrites, SweptWithParent,
      AgentLocked, Guarded

(* A step that writes neither tokens nor sessions: locks are taken when    *)
(* they are free, and what a test promised is what the next step finds.    *)
LEMMA QuietSafe ==
    ASSUME TypeInv, SafeInv, NEW r \in Reqs, NEW p \in PCs,
           pc' = [pc EXCEPT ![r] = p],
           \A q \in Reqs \ {r} : ctx'[q] = ctx[q],
           UNCHANGED <<sess, token>>,
           p \in AgentLocked => pc[r] \in AgentLocked \/ AgentFree(r),
           p \in Guarded => ctx'[r] = ctx[r] /\ GuardPasses(r),
           p = "reg_checked" => ctx'[r] = ctx[r] /\ ParentLive(r)
    PROVE  SafeInv'
<1> USE DEF SafeInv, TypeInv, TypeOK
<1>1. AgentMutex'
  BY DEF AgentMutex, AgentFree
<1>2. CheckedParent'
  BY DEF CheckedParent, ParentLive
<1>3. FencedWrites'
  BY DEF FencedWrites, GuardPasses, Authenticated
<1>4. SweptWithParent'
  BY DEF SweptWithParent, Registered, ParentRevoked
<1>5. QED
  BY <1>1, <1>2, <1>3, <1>4

LEMMA EndSafe ==
    ASSUME TypeInv, SafeInv, NEW r \in Reqs, End(r), UNCHANGED <<sess, token>>
    PROVE  SafeInv'
<1>1. "idle" \in PCs /\ "idle" \notin AgentLocked /\ "idle" \notin Guarded
  BY DEF PCs, AgentLocked, Guarded
<1>2. pc' = [pc EXCEPT ![r] = "idle"] /\ \A q \in Reqs \ {r} : ctx'[q] = ctx[q]
  BY DEF End, TypeInv, TypeOK
<1>3. QED
  BY <1>1, <1>2, QuietSafe

(* A row nobody else has guarded is written, with a parent that is live or *)
(* with the row revoked.                                                   *)
LEMMA RowSafe ==
    ASSUME TypeInv, SafeInv, NEW r \in Reqs, NEW l \in Labels, NEW row,
           sess' = [sess EXCEPT ![l] = row], RowFree(r, l),
           row.parent # None /\ token[row.parent] = "revoked" => row.revoked,
           End(r), token' = token
    PROVE  SafeInv'
<1> USE DEF SafeInv, TypeInv, TypeOK
<1>1. /\ pc' = [pc EXCEPT ![r] = "idle"]
      /\ \A q \in Reqs \ {r} : ctx'[q] = ctx[q]
      /\ "idle" \notin AgentLocked /\ "idle" \notin Guarded
  BY DEF End, AgentLocked, Guarded
<1>2. AgentMutex' /\ CheckedParent'
  BY <1>1 DEF AgentMutex, CheckedParent
<1>3. FencedWrites'
  BY <1>1 DEF FencedWrites, RowFree, Authenticated, Ctxs
<1>4. SweptWithParent'
  BY DEF SweptWithParent, Registered, ParentRevoked
<1>5. QED
  BY <1>2, <1>3, <1>4

LEMMA LockSafe ==
    ASSUME TypeInv, SafeInv, NEW r \in Reqs, NEW from, NEW to \in PCs,
           LockAgent(r, from, to), to \notin Guarded, to # "reg_checked"
    PROVE  SafeInv'
BY QuietSafe DEF LockAgent, Goto, store

LEMMA BeginSafe ==
    ASSUME TypeInv, SafeInv, NEW r \in Reqs, NEW from, NEW to \in PCs, NEW target,
           Begin(r, from, to, target), to \notin AgentLocked, to \notin Guarded
    PROVE  SafeInv'
BY QuietSafe DEF Begin, store, AgentLocked

LEMMA TestSafe ==
    ASSUME TypeInv, SafeInv, NEW r \in Reqs, NEW from, NEW to \in PCs, NEW ok,
           Test(r, from, ok, to),
           to \in AgentLocked => from \in AgentLocked,
           to \in Guarded /\ ok => GuardPasses(r),
           to = "reg_checked" /\ ok => ParentLive(r)
    PROVE  SafeInv'
<1>1. CASE ok /\ Goto(r, from, to)
  BY <1>1, QuietSafe DEF Goto, store
<1>2. CASE End(r) /\ UNCHANGED <<clock, store, minted>>
  BY <1>2, EndSafe DEF store
<1>3. QED
  BY <1>1, <1>2 DEF Test

LEMMA RegisterSafe ==
    ASSUME TypeInv, SafeInv, NEW r \in Reqs, RegisterStep(r)
    PROVE  SafeInv'
<1> USE DEF PCs, Begun, AgentLocked, Guarded, InTx
<1>1. ASSUME NEW l \in Labels, RegisterBegin(r, l)
      PROVE  SafeInv'
  BY <1>1, BeginSafe DEF RegisterBegin
<1>2. CASE RegisterLock(r)
  BY <1>2, LockSafe DEF RegisterLock
<1>3. CASE RegisterCheck(r)
  BY <1>3, TestSafe DEF RegisterCheck
<1>4. ASSUME NEW ttl \in TTLs, RegisterCommit(r, ttl)
      PROVE  SafeInv'
  <2>1. tgt[r] \in Labels /\ token[ctx[r].token] = "live"
    BY <1>4 DEF RegisterCommit, TypeInv, Requests, Registering, SafeInv, CheckedParent
  <2>2. CASE MayTakeOver(r)
    <3>1. TakenOver(r, ttl).parent = ctx[r].token
      BY DEF TakenOver
    <3>2. QED
      BY <1>4, <2>1, <2>2, <3>1, RowSafe DEF RegisterCommit
  <2>3. CASE ~MayTakeOver(r)
    BY <1>4, <2>3, EndSafe DEF RegisterCommit
  <2>4. QED
    BY <2>2, <2>3
<1>5. QED
  BY <1>1, <1>2, <1>3, <1>4 DEF RegisterStep

LEMMA ResumeSafe ==
    ASSUME TypeInv, SafeInv, NEW r \in Reqs, ResumeStep(r)
    PROVE  SafeInv'
<1> USE DEF PCs, Begun, AgentLocked, Guarded, InTx
<1>1. CASE ResumeBegin(r)
  BY <1>1, BeginSafe DEF ResumeBegin
<1>2. CASE ResumeLock(r)
  BY <1>2, LockSafe DEF ResumeLock
<1>3. ASSUME NEW ttl \in TTLs, ResumeCommit(r, ttl)
      PROVE  SafeInv'
  <2>1. ctx[r].win \in Labels
    BY <1>3 DEF ResumeCommit, TypeInv, TypeOK, Requests, OwnWindow, Ctxs
  <2>2. CASE MayResume(r)
    <3>1. /\ Resumed(r, ttl).parent = sess[ctx[r].win].parent
          /\ ~ParentRevoked(ctx[r].win)
      BY <2>2 DEF Resumed, MayResume
    <3>2. QED
      BY <1>3, <2>1, <2>2, <3>1, RowSafe DEF ResumeCommit, ParentRevoked
  <2>3. CASE ~MayResume(r)
    BY <1>3, <2>3, EndSafe DEF ResumeCommit
  <2>4. QED
    BY <2>2, <2>3
<1>4. QED
  BY <1>1, <1>2, <1>3 DEF ResumeStep

LEMMA RenewSafe ==
    ASSUME TypeInv, SafeInv, NEW r \in Reqs, RenewStep(r)
    PROVE  SafeInv'
<1> USE DEF PCs, Begun, AgentLocked, Guarded, InTx
<1>1. CASE RenewBegin(r)
  BY <1>1, BeginSafe DEF RenewBegin
<1>2. ASSUME NEW ttl \in TTLs, RenewCommit(r, ttl)
      PROVE  SafeInv'
  <2> DEFINE l == ctx[r].win
             row == [sess[l] EXCEPT !.expires = now[r] + ttl]
  <2>1. l \in Labels /\ sess[l] \in Rows /\ Registered(l)
    BY <1>2 DEF RenewCommit, TypeInv, TypeOK, Requests, OwnWindow, Ctxs
  <2>2. row.parent = sess[l].parent /\ row.revoked = sess[l].revoked
    BY <2>1 DEF Rows
  <2>3. CASE MayRenew(r)
    <3>1. sess' = [sess EXCEPT ![l] = row] /\ End(r) /\ token' = token /\ RowFree(r, l)
      BY <1>2, <2>1, <2>3 DEF RenewCommit, TypeInv, TypeOK
    <3>2. row.parent # None /\ token[row.parent] = "revoked" => row.revoked
      BY <2>1, <2>2 DEF SafeInv, SweptWithParent, ParentRevoked
    <3> HIDE DEF row
    <3>3. QED
      BY <2>1, <3>1, <3>2, RowSafe
  <2>4. CASE ~MayRenew(r)
    BY <1>2, <2>4, EndSafe DEF RenewCommit
  <2>5. QED
    BY <2>3, <2>4
<1>3. QED
  BY <1>1, <1>2 DEF RenewStep

LEMMA WriteSafe ==
    ASSUME TypeInv, SafeInv, NEW r \in Reqs, WriteStep(r)
    PROVE  SafeInv'
<1> USE DEF PCs, Begun, AgentLocked, Guarded, InTx
<1>1. CASE WriteBegin(r)
  BY <1>1, BeginSafe DEF WriteBegin
<1>2. CASE WriteGuard(r)
  BY <1>2, TestSafe DEF WriteGuard, Guard
<1>3. CASE WriteCommit(r)
  BY <1>3, EndSafe DEF WriteCommit, store
<1>4. QED
  BY <1>1, <1>2, <1>3 DEF WriteStep

LEMMA RevokeSafe ==
    ASSUME TypeInv, SafeInv, NEW r \in Reqs, RevokeStep(r)
    PROVE  SafeInv'
<1> USE DEF PCs, Begun, AgentLocked, Guarded, InTx
<1>1. ASSUME NEW l \in Labels, RevokeBegin(r, l)
      PROVE  SafeInv'
  BY <1>1, BeginSafe DEF RevokeBegin
<1>2. CASE RevokeLock(r)
  BY <1>2, LockSafe DEF RevokeLock
<1>3. CASE RevokeGuard(r)
  BY <1>3, TestSafe DEF RevokeGuard, Guard
<1>4. CASE RevokeCommit(r)
  <2> DEFINE l == tgt[r]
             row == [sess[l] EXCEPT !.revoked = TRUE]
  <2>1. l \in Labels /\ sess[l] \in Rows
    BY <1>4 DEF RevokeCommit, TypeInv, TypeOK, Requests, Revoking
  <2>2. row.revoked
    BY <2>1 DEF Rows
  <2>3. CASE Registered(l)
    <3>1. sess' = [sess EXCEPT ![l] = row] /\ End(r) /\ token' = token /\ RowFree(r, l)
      BY <1>4, <2>1, <2>3 DEF RevokeCommit, TypeInv, TypeOK
    <3> HIDE DEF row
    <3>2. QED
      BY <2>1, <2>2, <3>1, RowSafe
  <2>4. CASE ~Registered(l)
    BY <1>4, <2>4, EndSafe DEF RevokeCommit
  <2>5. QED
    BY <2>3, <2>4
<1>5. QED
  BY <1>1, <1>2, <1>3, <1>4 DEF RevokeStep

LEMMA RecoverSafe ==
    ASSUME TypeInv, SafeInv, NEW r \in Reqs, RecoverStep(r)
    PROVE  SafeInv'
<1> USE DEF PCs, Begun, AgentLocked, Guarded, InTx
<1>1. CASE RecoverBegin(r)
  BY <1>1, BeginSafe DEF RecoverBegin
<1>2. CASE RecoverLock(r)
  BY <1>2, LockSafe DEF RecoverLock
<1>3. CASE RecoverCheck(r)
  BY <1>3, TestSafe DEF RecoverCheck
<1>4. CASE RecoverCommit(r)
  BY <1>4, EndSafe DEF RecoverCommit, store
<1>5. QED
  BY <1>1, <1>2, <1>3, <1>4 DEF RecoverStep

LEMMA TokenSafe ==
    ASSUME TypeInv, SafeInv, NEW r \in Reqs, TokenStep(r)
    PROVE  SafeInv'
<1> USE DEF PCs, Begun, AgentLocked, Guarded, InTx
<1>1. ASSUME NEW t \in Tokens, RevokeTokenBegin(r, t) \/ IssueTokenBegin(r, t)
      PROVE  SafeInv'
  BY <1>1, BeginSafe DEF RevokeTokenBegin, IssueTokenBegin
<1>2. CASE RevokeTokenLock(r) \/ IssueTokenLock(r)
  BY <1>2, LockSafe DEF RevokeTokenLock, IssueTokenLock
<1>3. CASE RevokeTokenCommit(r)
  <2> DEFINE t == tgt[r]
  <2>1. CASE token[t] = "live"
    <3>1. /\ t \in Tokens /\ t # None /\ pc[r] = "rt_locked"
          /\ sess' = Swept(t) /\ token' = [token EXCEPT ![t] = "revoked"]
          /\ \A l \in Labels : sess[l].parent = t /\ ~sess[l].revoked => RowFree(r, l)
          /\ pc' = [pc EXCEPT ![r] = "idle"]
          /\ \A q \in Reqs \ {r} : ctx'[q] = ctx[q]
      BY <1>3, <2>1, SessionsConstants
      DEF RevokeTokenCommit, End, TypeInv, TypeOK, Requests, TokenPCs, SessionsConstants
    <3>2. AgentMutex'
      BY <3>1 DEF SafeInv, AgentMutex, TypeInv, TypeOK
    <3>3. CheckedParent'
      <4>1. \A q \in Reqs \ {r} : pc[q] # "reg_checked"
        BY <3>1 DEF SafeInv, AgentMutex
      <4>2. QED
        BY <3>1, <4>1 DEF CheckedParent, TypeInv, TypeOK
    <3>4. \A l \in Labels :
             /\ Swept(t)[l].epoch = sess[l].epoch
             /\ Swept(t)[l].parent = sess[l].parent
             /\ sess[l].revoked => Swept(t)[l].revoked
             /\ Registered(l) /\ sess[l].parent = t => Swept(t)[l].revoked
             /\ sess[l].parent # t => Swept(t)[l] = sess[l]
      BY DEF Swept, TypeInv, TypeOK, Rows
    <3>5. FencedWrites'
      <4>1. ASSUME NEW q \in Reqs \ {r}, pc[q] \in Guarded, Authenticated(ctx[q])
            PROVE  sess'[ctx[q].win] = sess[ctx[q].win]
        <5>1. ctx[q].win \in Labels /\ ~RowFree(r, ctx[q].win)
          BY <4>1 DEF RowFree, Authenticated, TypeInv, TypeOK, Ctxs
        <5>2. ~sess[ctx[q].win].revoked
          BY <4>1 DEF SafeInv, FencedWrites
        <5>3. QED
          BY <3>1, <3>4, <5>1, <5>2
      <4>2. QED
        BY <3>1, <4>1 DEF SafeInv, FencedWrites, Authenticated, TypeInv, TypeOK
    <3>6. SweptWithParent'
      <4>1. ASSUME NEW l \in Labels, Registered(l)', ParentRevoked(l)'
            PROVE  sess'[l].revoked
        <5>1. Registered(l) /\ sess'[l].parent = sess[l].parent
          BY <3>1, <3>4, <4>1 DEF Registered
        <5>2. CASE sess[l].parent = t
          BY <3>1, <3>4, <5>1, <5>2
        <5>3. CASE sess[l].parent # t
          <6>1. ParentRevoked(l)
            BY <3>1, <4>1, <5>1, <5>3 DEF ParentRevoked, TypeInv, TypeOK, Rows
          <6>2. QED
            BY <3>1, <3>4, <5>1, <6>1 DEF SafeInv, SweptWithParent
        <5>4. QED
          BY <5>2, <5>3
      <4>2. QED
        BY <4>1 DEF SweptWithParent
    <3>7. QED
      BY <3>2, <3>3, <3>5, <3>6 DEF SafeInv
  <2>2. CASE token[t] # "live"
    BY <1>3, <2>2, EndSafe DEF RevokeTokenCommit
  <2>3. QED
    BY <2>1, <2>2
<1>4. CASE IssueTokenCommit(r)
  <2>1. /\ sess' = sess
        /\ pc' = [pc EXCEPT ![r] = "idle"]
        /\ \A q \in Reqs \ {r} : ctx'[q] = ctx[q]
    BY <1>4 DEF IssueTokenCommit, End, TypeInv, TypeOK
  <2>2. \A u \in Tokens : /\ token[u] = "live" => token'[u] = "live"
                          /\ token'[u] = "revoked" => token[u] = "revoked"
    BY <1>4 DEF IssueTokenCommit, TypeInv, TypeOK
  <2>3. AgentMutex' /\ FencedWrites'
    BY <2>1 DEF SafeInv, AgentMutex, FencedWrites, Authenticated, TypeInv, TypeOK
  <2>4. CheckedParent'
    BY <2>1, <2>2 DEF SafeInv, CheckedParent, TypeInv, TypeOK, Requests, Registering
  <2>5. SweptWithParent'
    BY <2>1, <2>2
    DEF SafeInv, SweptWithParent, Registered, ParentRevoked, TypeInv, TypeOK, Rows
  <2>6. QED
    BY <2>3, <2>4, <2>5 DEF SafeInv
<1>5. QED
  BY <1>1, <1>2, <1>3, <1>4 DEF TokenStep

LEMMA AuthSafe ==
    ASSUME TypeInv, SafeInv, NEW r \in Reqs, AuthStep(r)
    PROVE  SafeInv'
<1> USE DEF PCs, Begun, AgentLocked, Guarded, InTx
<1>1. ASSUME NEW t \in Tokens, AuthToken(r, t)
      PROVE  SafeInv'
  BY <1>1, QuietSafe DEF AuthToken, store, TypeInv, TypeOK
<1>2. ASSUME NEW c \in issued, NEW sent, AuthSession(r, c, sent)
      PROVE  SafeInv'
  BY <1>2, QuietSafe DEF AuthSession, store, TypeInv, TypeOK
<1>3. CASE Answer(r) \/ Abort(r)
  BY <1>3, EndSafe DEF Answer, Abort, store
<1>4. QED
  BY <1>1, <1>2, <1>3 DEF AuthStep

LEMMA OtherSafe ==
    ASSUME SafeInv, Tick \/ (\E d \in BOOLEAN : SetDisabled(d)) \/ UNCHANGED vars
    PROVE  SafeInv'
<1>1. UNCHANGED <<sess, token, pc, ctx>>
  BY DEF Tick, SetDisabled, vars, store
<1>2. QED
  BY <1>1 DEF SafeInv, AgentMutex, CheckedParent, FencedWrites, SweptWithParent,
              Authenticated, Registered, ParentRevoked

LEMMA StepSafe == TypeInv /\ SafeInv /\ [Next]_vars => SafeInv'
BY AuthSafe, RegisterSafe, ResumeSafe, RenewSafe, WriteSafe, RevokeSafe,
   RecoverSafe, TokenSafe, OtherSafe
DEF Next

LEMMA Invariants == Spec => [](TypeInv /\ SafeInv)
<1>1. Init => TypeInv /\ SafeInv
  BY InitTypes, InitSafe
<1>2. TypeInv /\ SafeInv /\ [Next]_vars => (TypeInv /\ SafeInv)'
  BY StepTypes, StepSafe
<1>3. QED
  BY <1>1, <1>2, PTL DEF Spec

(* sessions::guard fences: between the guard and the COMMIT of a guarded   *)
(* transaction its window is neither resumed, taken over nor revoked.      *)
THEOREM WritesAreFenced == Spec => []FencedWrites
<1>1. SafeInv => FencedWrites
  BY DEF SafeInv
<1>2. QED
  BY <1>1, Invariants, PTL

(* admin::revoke_token leaves no live session behind, registrations that   *)
(* were in flight included.                                                *)
THEOREM RevocationSweeps == Spec => []SweptWithParent
<1>1. SafeInv => SweptWithParent
  BY DEF SafeInv
<1>2. QED
  BY <1>1, Invariants, PTL

-----------------------------------------------------------------------------
(* What a step may do to the rows and the tokens.                          *)

(* Only the COMMITs of register, resume, renew, revoke, revoke_token and   *)
(* issue_token write agent_sessions or api_tokens.                         *)
Commits(r) ==
    \/ \E ttl \in TTLs : RegisterCommit(r, ttl) \/ ResumeCommit(r, ttl)
                           \/ RenewCommit(r, ttl)
    \/ RevokeCommit(r) \/ RevokeTokenCommit(r) \/ IssueTokenCommit(r)

LEMMA StoreSteps ==
    ASSUME Next
    PROVE  UNCHANGED <<sess, token, issued>> \/ \E r \in Reqs : Commits(r)
<1> DEFINE Quiet == UNCHANGED <<sess, token, issued>>
<1>1. ASSUME NEW r \in Reqs, AuthStep(r) \/ WriteStep(r) \/ RecoverStep(r)
      PROVE  Quiet
  BY <1>1
  DEF AuthStep, AuthToken, AuthSession, Answer, Abort,
      WriteStep, WriteBegin, WriteGuard, WriteCommit, Guard,
      RecoverStep, RecoverBegin, RecoverLock, RecoverCheck, RecoverCommit,
      Begin, LockAgent, Test, Goto, store
<1>2. ASSUME NEW r \in Reqs, RegisterStep(r) \/ ResumeStep(r) \/ RenewStep(r)
      PROVE  Quiet \/ Commits(r)
  BY <1>2
  DEF RegisterStep, RegisterBegin, RegisterLock, RegisterCheck,
      ResumeStep, ResumeBegin, ResumeLock, RenewStep, RenewBegin,
      Begin, LockAgent, Test, Goto, store, Commits
<1>3. ASSUME NEW r \in Reqs, RevokeStep(r) \/ TokenStep(r)
      PROVE  Quiet \/ Commits(r)
  BY <1>3
  DEF RevokeStep, RevokeBegin, RevokeLock, RevokeGuard, Guard,
      TokenStep, RevokeTokenBegin, RevokeTokenLock, IssueTokenBegin,
      IssueTokenLock, Begin, LockAgent, Test, Goto, store, Commits
<1>4. Tick \/ (\E d \in BOOLEAN : SetDisabled(d)) => Quiet
  BY DEF Tick, SetDisabled, store
<1>5. QED
  BY <1>1, <1>2, <1>3, <1>4 DEF Next

(* An epoch moves by the takeover of register or the rotation of resume.   *)
MovesEpoch(r, l) ==
    \/ pc[r] = "reg_checked" /\ tgt[r] = l /\ MayTakeOver(r)
    \/ /\ pc[r] = "res_locked" /\ pc'[r] = "idle"
       /\ ctx[r].win = l /\ MayResume(r)

LEMMA EpochMoves ==
    ASSUME TypeInv, Next, NEW l \in Labels, sess'[l].epoch # sess[l].epoch
    PROVE  \E r \in Reqs : MovesEpoch(r, l)
<1>1. PICK r \in Reqs : Commits(r)
  BY StoreSteps
<1>2. ASSUME NEW ttl \in TTLs, RegisterCommit(r, ttl)
      PROVE  MovesEpoch(r, l)
  BY <1>2 DEF RegisterCommit, MovesEpoch, TypeInv, TypeOK
<1>3. ASSUME NEW ttl \in TTLs, ResumeCommit(r, ttl)
      PROVE  MovesEpoch(r, l)
  BY <1>3 DEF ResumeCommit, MovesEpoch, End, TypeInv, TypeOK
<1>4. ASSUME NEW ttl \in TTLs, RenewCommit(r, ttl)
      PROVE  FALSE
  BY <1>4 DEF RenewCommit, TypeInv, TypeOK, Rows
<1>5. ~RevokeCommit(r)
  BY DEF RevokeCommit, TypeInv, TypeOK, Rows
<1>6. ~RevokeTokenCommit(r)
  BY DEF RevokeTokenCommit, Swept, TypeInv, TypeOK, Rows
<1>7. ~IssueTokenCommit(r)
  BY DEF IssueTokenCommit
<1>8. QED
  BY <1>1, <1>2, <1>3, <1>4, <1>5, <1>6, <1>7 DEF Commits

(* recover_history is serialised with register and resume: between its     *)
(* liveness check and its COMMIT no window changes epoch.                  *)
THEOREM RecoveryIsSerialised == Spec => RecoverySerialised
<1> DEFINE Kept == \A r \in Reqs : pc[r] = "rec_checked" =>
                      \A l \in Labels : sess'[l].epoch = sess[l].epoch
<1>1. TypeInv /\ SafeInv /\ [Next]_vars => [Kept]_vars
  <2> SUFFICES ASSUME TypeInv, SafeInv, Next, NEW r \in Reqs, pc[r] = "rec_checked",
                      NEW l \in Labels, sess'[l].epoch # sess[l].epoch
               PROVE  FALSE
    OBVIOUS
  <2>1. PICK q \in Reqs : MovesEpoch(q, l)
    BY EpochMoves
  <2>2. pc[q] \in AgentLocked /\ pc[r] \in AgentLocked /\ pc[q] # pc[r]
    BY <2>1 DEF MovesEpoch, AgentLocked
  <2>3. QED
    BY <2>2 DEF SafeInv, AgentMutex
<1>2. QED
  BY <1>1, Invariants, PTL DEF Spec, RecoverySerialised

(* register never takes a live window, although the clock of a             *)
(* transaction that waited for the agent row is behind; resume needs the   *)
(* epoch the window is at.                                                 *)
THEOREM TakeoversAreOfDead == Spec => TakeoverOnlyOfDead
<1> DEFINE Legal == \A l \in Labels : sess'[l].epoch # sess[l].epoch =>
              \/ ~Registered(l)
              \/ DeadAt(l, clock)
              \/ \E r \in Reqs : /\ pc[r] = "res_locked" /\ pc'[r] = "idle"
                                 /\ ctx[r].win = l /\ ctx[r].epoch = sess[l].epoch
<1>1. TypeInv /\ SafeInv /\ [Next]_vars => [Legal]_vars
  <2> SUFFICES ASSUME TypeInv, Next, NEW l \in Labels,
                      sess'[l].epoch # sess[l].epoch, Registered(l),
                      ~DeadAt(l, clock)
               PROVE  \E r \in Reqs :
                         /\ pc[r] = "res_locked" /\ pc'[r] = "idle"
                         /\ ctx[r].win = l /\ ctx[r].epoch = sess[l].epoch
    OBVIOUS
  <2>1. PICK r \in Reqs : MovesEpoch(r, l)
    BY EpochMoves
  <2>2. now[r] \in Int /\ clock \in Int /\ sess[l].expires \in Int /\ now[r] <= clock
    BY SessionsConstants DEF SessionsConstants, TypeInv, TypeOK, Requests, Rows
  <2>3. ~DeadAt(l, now[r])
    BY <2>2 DEF DeadAt
  <2>4. QED
    BY <2>1, <2>3 DEF MovesEpoch, MayTakeOver, MayResume
<1>2. QED
  BY <1>1, Invariants, PTL DEF Spec, TakeoverOnlyOfDead

-----------------------------------------------------------------------------
(* A new secret is later than every credential issued before it, so a row  *)
(* that is rewritten fences them all.                                      *)
LEMMA RotationFences ==
    ASSUME TypeInv, NEW c \in issued, Fenced(c), NEW l \in Labels, NEW row,
           row.secret = Fresh, sess' = [sess EXCEPT ![l] = row], token' = token
    PROVE  Fenced(c)'
<1>1. c.label \in Labels /\ c.secret \in Int /\ c.secret <= minted /\ minted \in Int
  BY DEF TypeInv, TypeOK, Credentials
<1>2. CASE c.label = l
  <2>1. sess'[l].secret # c.secret
    BY <1>1 DEF Fresh, TypeInv, TypeOK
  <2>2. QED
    BY <1>2, <2>1 DEF Fenced
<1>3. CASE c.label # l
  <2>1. sess'[c.label] = sess[c.label]
    BY <1>1, <1>3 DEF TypeInv, TypeOK
  <2>2. QED
    BY <2>1 DEF Fenced, ParentRevoked
<1>4. QED
  BY <1>2, <1>3

LEMMA CommitKeepsFence ==
    ASSUME TypeInv, NEW c \in issued, Fenced(c), NEW r \in Reqs, Commits(r)
    PROVE  Fenced(c)'
<1>1. c.label \in Labels
  BY DEF TypeInv, TypeOK
<1>2. CASE UNCHANGED <<sess, token>>
  BY <1>2 DEF Fenced, ParentRevoked
<1>3. ASSUME NEW ttl \in TTLs, RegisterCommit(r, ttl)
      PROVE  Fenced(c)'
  <2>1. tgt[r] \in Labels /\ TakenOver(r, ttl).secret = Fresh
    BY <1>3 DEF RegisterCommit, TakenOver, TypeInv, Requests, Registering
  <2>2. QED
    BY <1>2, <1>3, <2>1, RotationFences DEF RegisterCommit
<1>4. ASSUME NEW ttl \in TTLs, ResumeCommit(r, ttl)
      PROVE  Fenced(c)'
  <2>1. ctx[r].win \in Labels /\ Resumed(r, ttl).secret = Fresh
    BY <1>4 DEF ResumeCommit, Resumed, TypeInv, TypeOK, Requests, OwnWindow, Ctxs
  <2>2. QED
    BY <1>2, <1>4, <2>1, RotationFences DEF ResumeCommit
<1>5. ASSUME NEW ttl \in TTLs, RenewCommit(r, ttl)
      PROVE  Fenced(c)'
  <2>1. /\ sess'[c.label].secret = sess[c.label].secret
        /\ sess'[c.label].revoked = sess[c.label].revoked
        /\ sess'[c.label].parent = sess[c.label].parent
    BY <1>1, <1>5 DEF RenewCommit, TypeInv, TypeOK, Rows
  <2>2. token' = token
    BY <1>5 DEF RenewCommit
  <2>3. QED
    BY <2>1, <2>2 DEF Fenced, ParentRevoked
<1>6. CASE RevokeCommit(r)
  <2>1. /\ sess'[c.label].secret = sess[c.label].secret
        /\ sess[c.label].revoked => sess'[c.label].revoked
        /\ sess'[c.label].parent = sess[c.label].parent
    BY <1>1, <1>6 DEF RevokeCommit, TypeInv, TypeOK, Rows
  <2>2. token' = token
    BY <1>6 DEF RevokeCommit
  <2>3. QED
    BY <2>1, <2>2 DEF Fenced, ParentRevoked
<1>7. CASE RevokeTokenCommit(r)
  <2>1. /\ sess'[c.label].secret = sess[c.label].secret
        /\ sess[c.label].revoked => sess'[c.label].revoked
        /\ sess'[c.label].parent = sess[c.label].parent
    BY <1>1, <1>7 DEF RevokeTokenCommit, Swept, TypeInv, TypeOK, Rows
  <2>2. ParentRevoked(c.label) => ParentRevoked(c.label)'
    BY <1>1, <1>7, <2>1 DEF RevokeTokenCommit, ParentRevoked, TypeInv, TypeOK, Rows
  <2>3. QED
    BY <2>1, <2>2 DEF Fenced
<1>8. CASE IssueTokenCommit(r)
  <2>1. UNCHANGED sess
    BY <1>8 DEF IssueTokenCommit
  <2>2. ParentRevoked(c.label) => ParentRevoked(c.label)'
    BY <1>1, <1>8, <2>1 DEF IssueTokenCommit, ParentRevoked, TypeInv, TypeOK, Rows
  <2>3. QED
    BY <2>1, <2>2 DEF Fenced
<1>9. QED
  BY <1>3, <1>4, <1>5, <1>6, <1>7, <1>8 DEF Commits

(* A credential that was replaced, or whose window or parent token was     *)
(* revoked, is refused for ever: no later registration, renewal, token or  *)
(* re-enabling of the agent brings it back.                                *)
THEOREM FencedIsForever == Spec => FencedForever
<1> DEFINE Kept == \A c \in issued : Fenced(c) => Fenced(c)'
<1>1. TypeInv /\ SafeInv /\ [Next]_vars => [Kept]_vars
  <2> SUFFICES ASSUME TypeInv, Next, NEW c \in issued, Fenced(c) PROVE Fenced(c)'
    OBVIOUS
  <2>1. CASE UNCHANGED <<sess, token>>
    BY <2>1 DEF Fenced, ParentRevoked
  <2>2. QED
    BY <2>1, StoreSteps, CommitKeepsFence
<1>2. QED
  BY <1>1, Invariants, PTL DEF Spec, FencedForever

-----------------------------------------------------------------------------
(* The credentials of a window.  A new one has an epoch above that of the  *)
(* row, which no issued one exceeds, and a number nobody was given.        *)
LEMMA RotationIssues ==
    ASSUME TypeInv, OneHolderPerEpoch, NEW l \in Labels, NEW row,
           row.secret = Fresh, row.epoch = sess[l].epoch + 1,
           sess' = [sess EXCEPT ![l] = row],
           issued' = issued \cup {[label |-> l, secret |-> Fresh, epoch |-> sess[l].epoch + 1]}
    PROVE  OneHolderPerEpoch'
<1>1. PICK new \in issued' : new = [label |-> l, secret |-> Fresh, epoch |-> sess[l].epoch + 1]
  OBVIOUS
<1>2. /\ new.label = l /\ new.secret = minted + 1 /\ new.epoch = sess[l].epoch + 1
      /\ new = [label |-> l, epoch |-> row.epoch, secret |-> row.secret]
  BY <1>1 DEF Fresh
<1>3. issued' = issued \cup {new}
  BY <1>1
<1>4. /\ \A c \in issued : /\ c.label \in Labels /\ c.epoch \in Int /\ c.secret \in Int
                           /\ c.epoch <= sess[c.label].epoch /\ c.secret <= minted
      /\ minted \in Int /\ \A k \in Labels : sess[k].epoch \in Int
  BY DEF TypeInv, TypeOK, Credentials, Rows
<1>5. sess'[l] = row /\ \A k \in Labels : k # l => sess'[k] = sess[k]
  BY DEF TypeInv, TypeOK
<1>6. \A c \in issued : c.label = l => c.epoch # new.epoch /\ c.secret # new.secret
  BY <1>2, <1>4
<1>7. ASSUME NEW c \in issued', NEW d \in issued',
             c.label = d.label, c.epoch = d.epoch \/ c.secret = d.secret
      PROVE  c = d
  BY <1>2, <1>3, <1>6, <1>7 DEF OneHolderPerEpoch
<1>8. ASSUME NEW c \in issued' PROVE c.epoch <= sess'[c.label].epoch
  BY <1>2, <1>3, <1>4, <1>5
<1>9. ASSUME NEW k \in Labels, Registered(k)'
      PROVE  [label |-> k, epoch |-> sess'[k].epoch, secret |-> sess'[k].secret] \in issued'
  BY <1>2, <1>3, <1>5, <1>9 DEF OneHolderPerEpoch, Registered
<1>10. QED
  BY <1>7, <1>8, <1>9 DEF OneHolderPerEpoch

LEMMA SameCredentials ==
    ASSUME OneHolderPerEpoch, issued' = issued,
           TypeInv,
           \A l \in Labels : sess'[l].epoch = sess[l].epoch /\ sess'[l].secret = sess[l].secret
    PROVE  OneHolderPerEpoch'
<1>1. \A c \in issued : c.label \in Labels
  BY DEF TypeInv, TypeOK
<1>2. QED
  BY <1>1 DEF OneHolderPerEpoch, Registered

LEMMA CommitIssuesOnce ==
    ASSUME TypeInv, OneHolderPerEpoch, NEW r \in Reqs, Commits(r)
    PROVE  OneHolderPerEpoch'
<1>1. CASE UNCHANGED <<sess, issued>>
  BY <1>1, SameCredentials
<1>2. ASSUME NEW ttl \in TTLs, RegisterCommit(r, ttl)
      PROVE  OneHolderPerEpoch'
  <2>1. /\ tgt[r] \in Labels
        /\ TakenOver(r, ttl).secret = Fresh /\ TakenOver(r, ttl).epoch = sess[tgt[r]].epoch + 1
    BY <1>2 DEF RegisterCommit, TakenOver, TypeInv, Requests, Registering
  <2>2. QED
    BY <1>1, <1>2, <2>1, RotationIssues DEF RegisterCommit
<1>3. ASSUME NEW ttl \in TTLs, ResumeCommit(r, ttl)
      PROVE  OneHolderPerEpoch'
  <2>1. /\ ctx[r].win \in Labels
        /\ Resumed(r, ttl).secret = Fresh /\ Resumed(r, ttl).epoch = sess[ctx[r].win].epoch + 1
    BY <1>3 DEF ResumeCommit, Resumed, TypeInv, TypeOK, Requests, OwnWindow, Ctxs
  <2>2. QED
    BY <1>1, <1>3, <2>1, RotationIssues DEF ResumeCommit
<1>4. ASSUME NEW ttl \in TTLs, RenewCommit(r, ttl)
      PROVE  OneHolderPerEpoch'
  BY <1>4, SameCredentials DEF RenewCommit, TypeInv, TypeOK, Rows
<1>5. CASE RevokeCommit(r)
  BY <1>5, SameCredentials DEF RevokeCommit, TypeInv, TypeOK, Rows
<1>6. CASE RevokeTokenCommit(r)
  BY <1>6, SameCredentials DEF RevokeTokenCommit, Swept, TypeInv, TypeOK, Rows
<1>7. CASE IssueTokenCommit(r)
  BY <1>1, <1>7 DEF IssueTokenCommit
<1>8. QED
  BY <1>2, <1>3, <1>4, <1>5, <1>6, <1>7 DEF Commits

(* An epoch of a window, and a secret, is handed to one caller only, and   *)
(* the row holds the newest: two register or resume calls that race for a  *)
(* window are ordered by the agent row and by the epoch in the WHERE.      *)
THEOREM EpochsHaveOneHolder == Spec => []OneHolderPerEpoch
<1>1. Init => OneHolderPerEpoch
  BY DEF Init, OneHolderPerEpoch, Registered, NoRow
<1>2. TypeInv /\ OneHolderPerEpoch /\ [Next]_vars => OneHolderPerEpoch'
  <2> SUFFICES ASSUME TypeInv, OneHolderPerEpoch, [Next]_vars PROVE OneHolderPerEpoch'
    OBVIOUS
  <2>1. CASE UNCHANGED <<sess, issued>>
    BY <2>1, SameCredentials
  <2>2. CASE Next
    BY <2>1, <2>2, StoreSteps, CommitIssuesOnce
  <2>3. QED
    BY <2>1, <2>2 DEF vars
<1>3. QED
  BY <1>1, <1>2, Invariants, PTL DEF Spec

-----------------------------------------------------------------------------
(* The lock order.  Whoever holds the agent row waits for nothing but a    *)
(* share lock of a guarded write, and that write waits for nobody: only    *)
(* issue_token's FOR UPDATE refuses its key share, and issue_token waits   *)
(* for no row while it holds the agent.                                    *)
LEMMA GuardedWriteGoesOn ==
    ASSUME AgentMutex, NEW a \in Reqs, pc[a] \in AgentLocked, pc[a] # "it_locked",
           NEW q \in Reqs, pc[q] = "wr_guarded"
    PROVE  ~Blocked(q)
BY DEF AgentMutex, AgentLocked, Blocked, AgentKeyFree

(* Whatever waits for what, some open transaction can go on: register,     *)
(* resume, revoke, recovery and the token operations take the agent row    *)
(* first, the guard and renew only session rows.                           *)
THEOREM LocksHaveNoCycle == Spec => []NoLockCycle
<1>1. TypeInv /\ SafeInv => NoLockCycle
  <2> SUFFICES ASSUME TypeInv, AgentMutex, NEW r \in Reqs, pc[r] \in InTx
               PROVE  \E q \in Reqs : pc[q] \in InTx /\ ~Blocked(q)
    BY DEF NoLockCycle, SafeInv
  <2>1. CASE \E a \in Reqs : pc[a] \in AgentLocked
    <3>1. PICK a \in Reqs : pc[a] \in AgentLocked
      BY <2>1
    <3>2. CASE ~Blocked(a)
      BY <3>1, <3>2 DEF InTx
    <3>3. CASE Blocked(a)
      <4>1. pc[a] # "it_locked" /\ \E l : ~RowFree(a, l)
        BY <3>1, <3>3 DEF Blocked, AgentLocked
      <4>2. PICK q \in Reqs : q # a /\ pc[q] \in Guarded
        BY <4>1 DEF RowFree
      <4>3. pc[q] = "wr_guarded"
        BY <3>1, <4>2 DEF AgentMutex, Guarded, AgentLocked
      <4>4. QED
        BY <3>1, <4>1, <4>3, GuardedWriteGoesOn DEF InTx, Guarded
    <3>4. QED
      BY <3>2, <3>3
  <2>2. CASE \A a \in Reqs : pc[a] \notin AgentLocked
    <3>1. \A q \in Reqs : AgentFree(q) /\ AgentKeyFree(q)
      BY <2>2 DEF AgentFree, AgentKeyFree, AgentLocked
    <3>2. \A q \in Reqs : pc[q] = "wr_guarded" => ~Blocked(q)
      BY <3>1 DEF Blocked
    <3>3. CASE Blocked(r)
      <4>1. \E l : ~RowFree(r, l)
        BY <2>2, <3>1, <3>3 DEF Blocked, AgentLocked
      <4>2. PICK q \in Reqs : pc[q] \in Guarded
        BY <4>1 DEF RowFree
      <4>3. pc[q] = "wr_guarded"
        BY <2>2, <4>2 DEF Guarded, AgentLocked
      <4>4. QED
        BY <3>2, <4>3 DEF InTx, Guarded
    <3>4. QED
      BY <3>3
  <2>3. QED
    BY <2>1, <2>2
<1>2. QED
  BY <1>1, Invariants, PTL
=============================================================================
