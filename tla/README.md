# ai-crew-sync in TLA+

ai-crew-sync is a coordination bus for AI coding agents: a Rust MCP server over
Postgres (and, for private conversation bodies, optionally NATS JetStream).
Agents open *windows* (sessions), claim tasks, take advisory locks, exchange
messages, and sleep in `wait_for_updates` until something concerns them. Almost
everything that can go wrong is concurrency: requests that authenticate in one
statement and write in a later transaction, statements that wait for a row and
resume with an old clock, ids that are allocated before COMMIT, a LISTEN
connection that dies silently, a broker whose confirmation is lost.

This directory models that core, checks it with TLC on small instances, and
proves its safety properties with TLAPS for every value of the constants.

    cd tla
    tlc -config MCSessions.cfg MCSessions      # a run
    tlapm SessionsProofs.tla                   # the proofs

`PROJECT.json` is the index: components, runs, the mutants that show each
property can fail, the map from definitions to source lines, the hazards the
properties are aimed at, the findings and the theorems.

## 1. Inventory

| Component (source) | State it keeps | Operations | What makes it correct | Module |
|---|---|---|---|---|
| Sessions and credentials (`auth.rs`, `store/sessions.rs`, tokens of `store/admin.rs`) | `api_tokens`, `agent_sessions` (label, epoch, hash, parent, expiry, revoked), `agents.disabled_at` | authenticate, register, resume, renew, revoke, guard, issue / revoke token, disable / enable | a replaced or revoked credential never writes or authenticates again; a live window is never taken over; no lock cycle | `Sessions` |
| Task board (`store/tasks.rs`) | `tasks` (status, holder, lease), `task_dependencies` | create, claim, claim_next, renew, release, complete | one holder while the lease runs; nothing blocked is claimed; no dependency cycle | `Tasks` |
| Advisory locks (`store/locks.rs`) | `locks` (holder, expiry) | acquire, release | one holder while it runs | `Locks` |
| Channel and direct messages (`store/messaging.rs`) | `messages`, `read_cursors` | post, read, unread count, ask / answer, search | nothing is lost behind a cursor; read state only grows | `Messages` |
| Event bus and waits (`events.rs`, `tools/events.rs`, `0020_event_log.sql`) | LISTEN connection and its pings, broadcast hub, `bus_events`, the client's `resume_from` | emit, listen, publish, wait_for_updates | every change reported once to a client that keeps waiting; a deaf connection is replaced | `Listener`, `Waits`, `Bus` |
| Publication outbox (`store/outbox.rs`, worker of `serve.rs`, `store/jetstream.rs`) | `conversation_outbox` slot, publication state and locator of a message, the broker's stream | enqueue, lease, publish, settle, mark_uncertain, resolve_uncertain | a message is stored once and for good where the broker holds it; it is settled in the end | `Outbox` |
| Private conversations (`store/conversations.rs`) | conversations, members, invitations, messages, receipts, body references | create, invite, join, leave, remove, archive, send, read, ack, transfer_membership, supersede, recover_history | only seated, granted windows write and are owed messages; only members read; history is handed on only by who has it; an owner is changed by owners | `Conversations`; `recover_history`'s check in `Sessions`, `send`'s outbox branch in `Outbox` |
| Broker inbox (`store/inbox.rs`, references of `store/jetstream.rs`, `spool.rs`) | `inbox_events`, `inbox_deliveries`, receipts, the broker's copies, the spool file of each process | enqueue, publish, fetch, hand out, reconcile, append, confirm, rewrite and compact | *delivered* means on the disk of the process that held the window, for 48 h; nothing unconfirmed is dropped; everything owed arrives | `Inbox` |
| Backend migration, body sweep (`store/migrate.rs`, `outbox::release_published_bodies`) | `conversation_migrations`, their items, `backend`, `write_paused_at`, both copies of a body | plan, open, pause, copy, read back, cut over, abort, cleanup, sweep, tombstone | a body is always where its row says; a thread moves whole; a paused thread reopens | `Migration` |
| Webhooks (`webhooks.rs`, `0005_webhook_outbox.sql`) | `webhook_deliveries` (status, attempts, next attempt) | enqueue, claim, POST, mark_sent, mark_failed, prune, add, remove | every event delivered or given up, none silently, with bounded retries | `Webhooks` |
| MCP proxy (`proxy.rs`) | per process: connection, credential, generation, refusal; the conversation's binding record on disk | start, resume, register, switch, rotate and adopt, renew, session_configure, forward, long wait, shutdown | requests, refusals, teams and the record never mix two identities | `Proxy` |
| Wake of an idle window (`hook.rs` watch, `codex_wake.rs`, wake columns of `store/presence.rs`) | owner, sign of life and mark beside the binding; the presence row's announcement | take over, read, save the mark, announce, withdraw, deliver a turn | a message wakes the window, once | `Wake` |
| Notes, attachments, quotas, rate limiter, the rest of presence | one row or one bucket each | upserts and reads | single statements, last writer wins | not modelled |
| Admin API and CLI, dashboard, client, `context.rs`, recipes | none of the bus's own | parsing, rendering, process plumbing | – | not modelled |

How they interact. Every guarded mutation (messages, tasks except `create_task`,
locks, conversations) starts with `sessions::guard`, which locks the caller's own
session row FOR SHARE; the session lifecycle and token administration lock the
agent row first. Writes fire triggers (`bus_emit`) that append to the event log
and NOTIFY; the listener turns notifications into hub events; `wait_for_updates`
uses hub events as hints and the log as the truth. `conversations::send` writes
a message and its outbox slot in one transaction; a worker per replica moves
slots to the broker. Settling a message queues one inbox reference per recipient;
the proxy of the recipient fetches it, writes it to its spool and confirms. The
proxy holds the window's credential for its host and records it in the binding,
from which hooks, the watcher and the codex adapter act as the same window.

Where it is hard: the gap between authentication and write; `now()` fixed at
BEGIN while a statement waits for a row; sub-queries that keep their snapshot
when the UPDATE re-reads its row; ids ordered differently from commits; lost
notifications, lagged receivers, lost answers; timeouts that drop a future after
its COMMIT; leases that lapse under a worker that is still alive; files and
credentials that two processes of one conversation share; an operator's command
that dies half way. `PROJECT.json`
lists each one under `hazards`, at its line.

## 2. The modules

**Sessions.** One agent. Every request is a process with a program counter:
`AuthToken` / `AuthSession` are the single statement of `require_bearer`, which
fixes the request's `AuthCtx` (`ctx`); `...Begin` fixes the transaction's clock
(`now`), `...Lock` waits for the agent row, `...Check` / `...Guard` are the tests
made under it, `...Commit` the write. A lock is held by being at a program
counter in `AgentLocked` or `Guarded`; `AgentFree`, `RowFree`, `AgentKeyFree` are
Postgres' conflict rules (FOR NO KEY UPDATE, FOR UPDATE, FOR SHARE, and the KEY
SHARE a foreign key takes). A row's secret is the number of the generated token,
so "the hash matches" is equality. `Abort` is a lost connection or a crash inside
any transaction.

**Lease** is the abstract specification: a resource has one holder, and passes
to another window only through *free* or after its lease ran out by the real
clock. **Tasks** and **Locks** implement it (`AsLease`, a refinement mapping).
In `Tasks` a claim is four steps, because Postgres makes it so: `Begin` fixes
`now()`, `Ask` evaluates the WHERE with its dependency sub-query on a snapshot,
`Take` gets the row lock and re-evaluates the WHERE on the latest row (with the
old sub-query result and the old clock), `Commit` makes it visible. In `Locks`
the upsert is one statement, so `LockBegin` and `Acquire` suffice. **Callers**
declares what both have: windows, requests and the clock.

**Listener** is `run_pg_listener`: attach, ping, echo, give up after
`MISSED_ECHOES`. **Waits** is one client of `wait_for_updates`: subscribe, replay
from `resume_from`, count unread, sleep on the receiver, last replay, answer. A
`pg_snapshot` is the set of items committed when it was taken, which is exactly
what the log's visibility test asks of it. **Bus** puts one over the other: what
the connection does not hear is lost to the hub.

**Messages** is one scope and one window: posts that take an id at INSERT and are
seen at COMMIT, reads that are three statements without a transaction.

**Outbox** is a slot per message, the worker of each replica and the broker. The
generation of a lease is named by the worker that took it (a worker has one lease
at a time). `Timeout` may strike at any point of `publish_leased`, after the
COMMIT of `settle` included, and leave a request travelling (`late`). The broker
(`Lands`, `Forget`, `LateArrival`) is external: it confirms with a place,
deduplicates for a while, refuses when the stream is full, loses confirmations.

**Conversations** is one conversation: a seat per window (state, role, history
floor, binding to a session credential, `transfer_from`), the project grants, the
messages with their recipient snapshots. A call is admitted by `access()` from
plain reads (`...Admit`) and decides again in its transaction (`...Commit`). A
transaction is one step because what it reads is locked until its COMMIT: the
conversation row by `invite`, `remove_member`, `transfer_membership`, `archive`
and `send`, the seats and grants by each. `send` is two steps, and while it is
open its locks are what `ThreadLocked`, `SeatLocked` and `GrantLocked` say, so a
recipient may leave, or a window join, between the snapshot and the COMMIT. `Join`,
`Leave` and the grants re-check all they were admitted by and are single steps.
`read` takes its floor at admission, fetches, checks again and answers (`Serve`);
`get_message` fetches first. `access()` is two statements in the code and one read
here. `cred` says whether the caller carries the window's session credential or
its agent's token with the window's label. `offer` is a history field: how the
seat was last offered.

**Inbox** is the inbox of one window. A reference has a row in `inbox_events`, a
copy at the broker and hand-out rows; a fetch and a confirmation are one
transaction each, under the share lock of the session row, so a resume falls
before or after one. A call of the proxy is fetch, read, append, confirm, rewrite,
each a step; it may die, be resumed away, fail to write or lose an answer between
any two, and nothing keeps it apart from another call on the same file. The spool
is a set of entries; an append that fails or is cut short leaves any part of it
behind. `aged` holds the ids that were appended 48 h ago (`KEEP_HOURS`), which
`rewrite` drops once they are marked confirmed; `KeepEnds` is the passing of that
time. `raced` is a history of the code's one gap: the ids that were appended while
another call of the process was between its read and its rewrite, which will
replace the file without them; an id is cleared when a call reads it back alone.

**Migration** is one thread. The operator's command is a process and every
statement it commits is a step: plan, open the run, pause, read all rows, and per
message read the source, write the target, mark copied, read back, mark verified;
then the cutover, or the abort. `Fails` and `Dies` may come between any two.
Beside it: sends, publication (`Outbox` has its detail), the sweep in its two
halves, cleanup, tombstones, and a broker that loses a body. A checksum is the
equality of bodies, which are *full* or *empty*.

**Webhooks** is the delivery queue of one webhook and the dispatcher of each
replica. Time is one bit per row. Nothing fences `mark_sent` and `mark_failed`:
they act on the row whoever claimed it last.

**Proxy** is the processes a host starts for one conversation. An operation under
the `switch` lock (`sw`), a `session_configure` (`cf`), the keepalive loop's
renewal (`rn`) and a forwarded call (`wt`) of one process interleave freely; each
reads the state, lets go, talks to the bus and comes back. A secret is a profile
and an epoch, and the bus accepts the last one issued (`Sessions` has the whole of
it). `transcript` is a history variable: the teams a process has served.

**Wake** has both ways to wake a window: a watcher, which takes the window from
its predecessor and returns once, and a codex adapter, which takes it only from an
owner without a sign of life and runs on. A reading is two steps, the count and
then the newest id, because it is two calls. `wakes`, `fate` and `doubled` are
history variables: how often a message woke the window, why it need not, and how
many lost answers and overtaken owners there were.

Three MC modules hold several modules that share no state: **MCBoard** (`Tasks`,
`Locks`, `Messages`), **MCNotify** (`Webhooks`, `Wake`) and **MCHost** (`Proxy`,
`Inbox` with overlapping calls) choose at the start which one moves.

Definitions marked `Mutant:` are never used by a specification; each is a
plausible bug of the definition after it, and makes one property fail.

## 3. The runs

| Run | Instance | Shows |
|---|---|---|
| `sessions` | 2 requests, 2 tokens, 1 window, TTL 1, clock to 2, 3 secrets (729,567 states) | guarded writes are fenced (`FencedWrites`), a revoked token sweeps its windows, in-flight registrations too (`SweptWithParent`), an epoch is handed out once (`OneHolderPerEpoch`), a fenced credential stays fenced (`FencedForever`), no live window is taken over (`TakeoverOnlyOfDead`), recovery excludes register and resume (`RecoverySerialised`), the lock order has no cycle (`NoLockCycle`) |
| `board` | 2 tasks, 1 lock, 2 windows, 2 requests, clock to 2; 3 posts, 2 reads, pages of 1 (405,046) | `Tasks` and `Locks` implement `Lease`; a task another window is running is not completed, released or renewed (`LiveClaimBelongsToHolder`), which `Lease` alone does not say; nothing blocked is claimed (`ClaimedOnlyUnblocked`); only a late commit can be passed over by a cursor (`OnlyLateCommitsSkipped`) |
| `bus` | casts of two items, hub of 1, replay limit 1, 2 missed echoes (98,696) | `ToldExactly`, `NoLostWakeup`, and, under fairness, `EveryChangeReported` and `DeafListenerReplaced` |
| `outbox` | 1 message, 2 replicas, 2 attempts, stream of 2 (70,902) | slot and message settle together, *stored* names a body the broker holds, it is final, and every message is settled |
| `conversations` | 3 windows of 2 agents, one of them registered, 2 calls at once, 5 calls that take effect, 1 message, 3 seats (324,601) | no message is stored without an active seat and the grant, nor owed to one without it (`StoredFromASeat`); answers go to members only (`ServedToMembers`); a moderator cannot unseat an owner, by a stale role or by an invitation (`OwnersChangedByOwners`); history no seat reaches stays out of reach (`LostHistoryStaysLost`) |
| `inbox` | 1 message, 1 receipt, 2 processes with a call each, 2 epochs, 2 hand-outs, 2 publications, 3 events (199,445) | a message becomes delivered through the process that holds the window, with the reference on its disk (`DeliveredToTheLiveWindow`); what is owed is handed over and confirmed (`EveryReferenceArrives`) |
| `migration` | 2 messages, 1 operator, 3 runs, 2 faults, 1 lost body (560,508) | every body is where its row says (`AuthorityHolds`); the whole thread is on its backend at every moment (`ThreadIsWhole`); a paused thread reopens (`EventuallyReopened`) |
| `notify` | 2 deliveries, 2 replicas, 2 attempts, 1 fault; 2 watchers or adapters, 2 tries, 2 events (201,432) | deliveries are sent, parked or removed (`EveryDeliverySettles`), with retries bounded by the faults (`RetriesBounded`); a message wakes a window once (`WokenOnce`), and does wake it unless it raced a reading (`NewsWakesUnlessRaced`); an announcement stands until its maker withdraws it (`AnnouncementStands`) |
| `proxy` | 2 processes, 3 profiles of 2 teams, 3 secrets, 1 call beside the switches; 2 messages, 2 calls that share a spool file, 2 epochs, 3 events (1,720,555) | a wait keeps the credential it began under (`WaitKeepsItsIdentity`); a refusal shown is of the credential held (`RefusalIsCurrent`); one team per process (`TeamIsKept`); the expiries held and recorded are the bus's own and nobody closes the record of a running window (`RecordIsTheOwners`). With overlapping calls and compaction, a delivered message is in the file of a process or was for 48 h (`DeliveredIsKept`), and a file loses only what is old and confirmed, or was appended between another call's read and rewrite (`OnlyToldIsDropped`) |
| `proxy_restart` | 2 processes, 2 profiles, 4 secrets | finding 1 |
| `inbox_spool` | 2 messages, 2 calls of one process | finding 2 |
| `wake_lost` | 1 process, 1 message | finding 3 |

**Why the bounds are enough.** Every hazard listed is between two actors: the
request that is stale and the one that made it so; hence two requests, windows,
reads or workers. One window suffices in `sessions` because rows of different
labels meet only in the agent lock and in `revoke_token`'s sweep, which the proofs
cover for any number of labels. Three secrets allow register, resume, and a
takeover after that; a clock to 2 with a TTL of 1 allows a lease to be taken, to
lapse and to be taken again by a transaction that began before it lapsed. In
`bus` a hub and a replay limit of one are overrun by two items, and two changes
can commit against the order of their ids. `MISSED_ECHOES` is 3 in the code; 2
has the same three regions (none, some, given up). In `outbox` two attempts
distinguish the last one from the others, and a stream of two holds a second copy
and then is full. With one message the workers always compete. In `messages`
pages of one make every page full.

In `conversations` five calls are the shortest way to hand history on wrongly
(send, invite, join, leave, invite); a call that does not take effect gives its
share of the bound back, so refused calls and reads are not bounded. With three
seats allowed the cap is met by the invitations that find all three taken. The two
calls are interchangeable (`CallSymmetry`); the run checks no liveness.

In `inbox` two epochs give one resume, under which the predecessor's call is in
any of its states; `MaxHappens` counts what goes wrong, grows old or arrives, and
three are a message, its refusal or loss, and a death. Under the spool of
`proxy` they are two messages and one thing more: an entry that grows old, a failed
append, a death or a lost answer; a resume takes none and turns a confirmation away.
There the broker takes nothing and the window keeps its seat and its grant (`inbox`
has these), so that references come from the bus's records. The two calls may be of
one process or of a process and its successor with the same state directory: what
relates them is the file. In `migration` three runs allow a move, its return and one more, two faults a death and a failure in the same run;
one operator, since two share one run by design (see below). In `notify` two
events are two messages, or a message and a fault. In `proxy` three secrets allow
a process to register, a second one to resume and one switch or rotation after
that; the two processes are interchangeable (`Symmetry`). `CleanupInMove` is
FALSE: `cleanup` is an operator's command for a move that is over.

Deadlock is checked in `sessions`, `board` and `bus`. In the others a behaviour
ends when its bounds are used up or everything is settled: `MaxCalls` calls took
effect, every message is settled, every process was started once and has ended.

**Fairness.** Safety runs assume none. In `Bus`: the ticker ticks (WF `Tick`), a
detached listener tries again every two seconds until Postgres answers (WF
`Connect`), and the client, which is a loop, calls again (WF `DoCall`); a call's
steps are strongly fair because each attempt may be interrupted but not every
one is, and the deadline always passes (`DoStop`). Nothing is assumed of
notifications: they may all be lost. In `Outbox`: time passes (leases lapse,
backoffs end), workers run to their next await, leasing of a due slot is strongly
fair (reconciliation, every 30 s, may take it first, but not always), and
interruptions eventually end. The last is needed: a slot whose publish times out
for ever is put back by `mark_uncertain` for ever, which compares no attempt
count. It is justified by `PUBLISH_TIMEOUT` (30 s) being half of `LEASE_SECS`
(60 s): a broker that answers, with whatever answer, is heard in time.

In `Inbox`: the window keeps fetching and a started call goes on (WF `CallStep`),
and the five minutes of grace pass; nothing is assumed of the broker or of the
publication of a reference. In `Migration`: a command that runs goes on, and one
that was interrupted is given again while its run is open (WF `Resume`), the
remedy the command's own messages name. In `Webhooks`: every replica polls, a POST
is answered or cut off by the client's timeout, and backoffs end. In `Wake`: a
process that runs takes its next step; the host, the model and the user owe
nothing. Faults are never fair.

## 4. What the violation runs found

1. `connect_with` (`proxy.rs:1550`) resumes whatever credential the binding holds
   when a process starts. After a `session_configure` to another profile, a second
   process of the conversation reports its own profile and speaks as the other,
   against "the credential on disk is its own and a resume is right".
2. `spool_and_confirm` rewrites the spool from what it read before the
   confirmation, with no lock over the sequence (`spool.rs:141`). Of two
   overlapping fetch calls the first to rewrite loses the other's entry, which the
   bus has as delivered, against "a process that can still find it after a
   restart" (`DeliveredIsHeld`, which allows for the 48 h). `DeliveredIsKept` and
   `OnlyToldIsDropped` except exactly the references this happens to.
3. A direct message that arrives between the count and the newest id of one
   reading (`hook.rs:435`, `488`) raises the mark without waking, and no later
   reading finds it new, against "the counts are the truth".

Seen while modelling, and stated in the modules rather than by a run of their own:

* `renew` (`sessions.rs:240`) takes no agent lock and asks no expiry: a lapsed
  window can be live again between `recover_history`'s check and its COMMIT, which
  its comment excludes ("never race it", `conversations.rs:2574`).
* At `lease_expires_at = now()` readers are told a task is open (`<=`) and
  `claim_task` refuses it (`<`, `tasks.rs:611`).
* A message with a lower id that commits after a higher one was read is behind the
  cursor for good (`messaging.rs:702`); `OnlyLateCommitsSkipped` allows exactly
  this.
* A slot whose publish timed out is due after 5 s and is published again before
  anybody asked the broker (`outbox.rs:535`), and `mark_uncertain` revives a slot
  that `settle` had just failed (`outbox.rs:537`).
* A declined transfer leaves `transfer_from` on the seat; a later plain invitation,
  accepted, closes the seat that once proposed it (`conversations.rs:1048`, `2529`).
* `cleanup` asks for the newest cut-over and not whether a move is open: run during
  a move back to Postgres it empties rows that the cutover makes authoritative
  (`migrate.rs:659`). The model has it behind `CleanupInMove`.
* Two operators who give the same command share one run, and the abort of one
  reopens the thread under the copy of the other (`migrate.rs:198`, `568`).
* A proxy that was replaced and then gets a `session_configure` overwrites the
  record of its successor (`write_binding` checks no ownership, `proxy.rs:1749`);
  `RecordIsTheOwners` is about expiry and closing, which do.
* An answer of `turn/start` that is lost is retried like a refusal, so the news may
  start a second turn (`codex_wake.rs:482` says none is requested once one was
  accepted); `WokenOnce` counts these. `save_mark` does not say that the ownership
  was lost. A stop during a delivery gives the wake up, its mark being saved.
* A watcher that is replaced between its claim and its announcement announces
  itself over its successor; nobody withdraws that, and only its TTL ends it.

## 5. The proofs

All are for any number of requests, windows, messages, processes and replicas and
for any bound, from the named assumptions on the constants only, which TLC
evaluates in the runs: bounds and limits natural (positive where a limit of zero
makes no sense), `None`, `Nobody` and `NoWindow` not among what they stand beside,
messages and changes disjoint (`WaitsConstants`), the processes of `Wake` finite.
`tlapm` checks a module:

    for m in Sessions Board Conversations Bus Outbox Migration Notify Proxy
    do tlapm ${m}Proofs.tla; done

Each module states its inductive invariant first, in named parts; TLC checked each
on the run's instance before it was proved.

`SessionsProofs`:

* `TypeCorrect`. `TypeOK` is not inductive: that a registered row has a parent
  needs that a registering request still names the token it authenticated with,
  and that needs the program counter to remember what was checked. `Requests`
  and `Credentials` say so; `TypeInv` is the conjunction.
* `WritesAreFenced`, `RevocationSweeps`. `SafeInv` adds `AgentMutex` (one holder
  of the agent row) and `CheckedParent` (a parent that was re-read stays live
  until the COMMIT): without them a takeover could hang a live window off a
  token revoked in between, and `SweptWithParent` would not be preserved.
  `FencedWrites` is preserved because whoever writes a row found it free of share
  locks (`RowSafe`).
* `RecoveryIsSerialised`, `TakeoversAreOfDead`, `FencedIsForever` are action
  properties, from the same invariant: `StoreSteps` says which six COMMITs write
  at all, `EpochMoves` which two move an epoch; the mutex then excludes recovery,
  `now <= clock` carries *dead at BEGIN* to *dead now*, and a fresh secret is
  above every issued one.
* `EpochsHaveOneHolder`: a rotation issues an epoch above the row's, which none
  issued exceeds; the other COMMITs leave epoch and secret alone.
* `LocksHaveNoCycle`: whoever holds the agent row waits at most for the share lock
  of a guarded write, and that write for nobody, since only `issue_token` refuses
  its key share and waits for no row itself; without a holder of the agent row
  the row holders are the ones that can go on.

`BoardProofs`:

* Locks. `LocksInv` is the type and `ClocksBehind` (no transaction's clock is
  ahead). `RunningLocksAreKept` and the refinement `LocksRefineLease` need it: a
  lock that lapsed by a clock that is behind has lapsed by the real one.
* Tasks. `TasksInv` adds that a row lock has one holder (`RowsHeldOnce`), that the
  row it holds still satisfies the WHERE it was taken under (`HeldAdmits`), and
  that a claim past the dependency check stays past it (`ClaimsUnblocked`), since a
  finished task stays finished and a created one gains no dependencies. From
  these, `ClaimsAreUnblocked`, `RunningClaimsAreKept` and the refinement
  `TasksRefineLease`.
  `DependenciesAreAcyclic` follows from `DependenciesExist`: a task is created with
  dependencies that exist, so nothing depends on it yet.
* Messages. `MessagesInv` says that ids are unique, that the cursor is at a
  committed message, and that a page in hand has no gap but what committed late
  (`PagesHaveNoGap`); the last is what a page limit and two overlapping reads would
  break. `OnlyLateIsSkipped` is its consequence when the cursor moves.

`ConversationsProofs`: `Inv` is the type (with `Named`: a call under way names its
window and its target) and `OpenSend`: one send at a time is between its INSERT
and its COMMIT, and until the COMMIT the thread is open, the sender's seat may
post and its grant and those of its recipients stand. What keeps it is the lock
on the conversation row (against invite, remove, transfer and archive), the lock on
the sender's seat (against leave and a join that closes it) and those on the grants.

* `MessagesComeFromSeats` follows from `OpenSend` at the COMMIT.
* `OwnersAnswerToOwners` and `HistoryIsNotRegained` are action properties:
  `WritingSteps` lists the six steps that write a seat or a message; the role is
  read again inside the transaction (`ModeratesNow`, `MayChange`); and by
  `FloorsAreHandedOn` an open seat's floor is that of a seat that was open before
  the step, or the end of the thread.
* `AnswersGoToMembers`: of all steps only `Serve` lets fetched rows out
  (`OnlyServeAnswers`), and it checks again.

`BusProofs`, about `Bus`: `WaitsInv` says what a call will report, given where it
stands (`Reporting`: exactly what its position sees and the client's does not),
what the client knows (`Knowing`), and what is coming to a call that looks or
sleeps (`Waking`, from the first replay for changes and from the count for
messages). `ChangesAreToldOnce` needs the first two, `NoWakeupIsLost` the third.

`OutboxProofs`: `OutboxInv` adds to the two invariants that what the deduplication
window remembers is in the stream (`KnownIsHeld`) and that a worker that was told
*stored* was told a place that holds its message (`AnswersAreHeld`): a settle may
run on an answer that is one crash, one lease and one republication old.
`SlotsMatchMessages`, `StoredMessagesAreHeld` and the action property
`StoredIsForGood` follow.

`MigrationProofs`: `MigrationInv` has what a row says of itself (`RowInv`), what a
verified item vouches for (`ItemInv`), that a process past `open_run` works on the
open run of a paused thread (`RunInv`), that nothing the run has to move is
missing from what it has left to do (`TodoInv`), and how far the message in hand
has come (`HandInv`). `BodiesAreWhereTheRowsSay` and `ThreadsStayWhole` hold for
`OneOperator` and `~CleanupInMove`: without either they are false, as section 4
says, and the code leaves both to the operator.

`NotifyProofs`:

* Webhooks. `WebhooksInv` says that an attempt in flight has the answer of a POST
  that was made and a number below the row's. `RetriesAreBounded` is a counting
  argument: once the attempts are used up, the attempts made and the claims still
  to come without another fault (`StillToCome`) number at most `MAX_ATTEMPTS` and
  the faults. `NoDeliveryIsDropped` is `KeptInv`.
* Wake. `WakeInv` counts too (`WokenInv`): the turns a message has started, the
  processes that carry it and the mark that leaves it to the next owner number at
  most one and the lost answers and overtaken owners. `ProcInv` and `OwnerInv` tie
  a process' own mark to the saved one. `NoMessageWakesTwice` follows, and
  `AnnouncementsStand` is an action property by the token of the presence row.

`ProxyProofs`:

* Proxy. `ProxyInv` says that a generation names one credential, for the renewal
  (`Renewing`) and for the wait (`Waiting`) that started in it; what the operation
  under `switch` holds (`Switching`); that a refusal shown is true (`Refused`);
  that the teams served are that of the identity, also between two contexts
  (`OneTeam`); that no secret is held by two processes (`HeldOnce`) and none of a
  closed record by any (`RecordInv`). `WaitsKeepTheirIdentity`,
  `RefusalsAreCurrent`, `OneTeamPerConversation` and `RecordsAreTheOwners` follow.
* Inbox. `InboxInv` says that a row that is confirmed is closed (`RefInv`), that an
  entry marked confirmed is (`FileInv`), and that what a call holds since its
  read and what is in the file differ only in ids that have left it for good
  reason, `raced` or old and confirmed (`CallInv`). The theorems assume nothing of
  how many calls there are: an entry missing from what a call will write back was
  either appended after the call's read, and is in `raced` since the append saw
  another reader, or was dropped by another rewrite. `DeliveredIsOnDisk`,
  `ToldBeforeDropped` and `OnlyTheLiveWindowConfirms` follow.

Only model-checked. The liveness properties (`EveryChangeReported`,
`DeafListenerReplaced`, `EventuallySettled`, `EveryReferenceArrives`,
`EventuallyReopened`, `EveryDeliverySettles`, `NewsWakesUnlessRaced`): fairness and
ENABLED are outside this prover's reach. Every safety invariant and action
property of a passing run is stated by a theorem, and the properties of the
violation runs are false. `NoDependencyCycle`, `NeverSilentlyDropped` and
`LiveLockBelongsToHolder` are proved and checked by no run. The type invariants of the modules are parts of the inductive ones, in `Proxy`, `Wake`,
`Migration` and `Conversations` in the proofs' own form; that of `Listener` is
only stated.
Induction over data and RECURSIVE operators, which the provers cannot handle, are
not used.

## 6. What is left out

Inside the modelled parts: texts, titles, results, history rows and formatting;
paging and `kinds` filters of reads and waits; the event log's trim after a day
(a `resume_from` older than that misses changes); quotas and rate limits; ask /
answer and search; team and administrator credentials. A wait's
deadline is a step that may happen at any time. `attempts` is counted up to
`MAX_ATTEMPTS`, the only value it is compared with. Deliberately without a
property: what `acquire_lock` reports after losing a race (the row itself is
right); the answer of `resume` lost after COMMIT (the client must wait for the
window's expiry: the code offers no idempotent resume), and an answer of
`read_messages` lost after its cursor committed (at most once, by design).
Of conversations: the pages `recover_history` returns, the listings of activity
and receipts, and the order in which `join`
takes its own seat and then its predecessor's, against the order of `invite`,
`remove_member` and `transfer_membership` (Postgres ends that deadlock by failing
one of them).
Of the inbox: the status counters; the age of an entry is kept by process and id, an
append is one step, and of a row that is confirmed only its number is kept, the rest
being read no more. Of migration: dry runs, batching and the text of
errors; two operators at once. Of webhooks: signatures, filters, and the semaphore
that bounds concurrent POSTs. Of the proxy: how the binding id is discovered
(`observe_meta`, `rebind`), attention reports, and holdings. Of presence: status,
labels and attention, which are last-writer-wins columns. Of the wake:
what a turn says, `wake_result`, and the websocket framing of `codex.rs`. The rate
limiter and the quotas are sequential arithmetic behind one mutex or one statement;
`context.rs` resolves files and inputs sequentially; the admin CLI, the dashboard,
the client and `main.rs` parse and render. The parts with status `not_modelled` are listed with their reasons in
`PROJECT.json`.

## 7. Plan

1. Proofs: that `Listener` with its hub refines a lossy channel, and `Outbox` a
   register that is written once; the acknowledgements of `Conversations` (who may
   acknowledge what); the fencing of `Inbox` hand-outs by epoch; what
   `session_end` may withdraw in `Wake`.
2. Conversations, the rest: two proposals of one seat both accepted; the role
   `archive_conversation` does not check again; `recover_history`'s rows.
3. Messages: ask / answer and unread counts. Proxy: `rebind`, and its renewal over
   `Sessions` rather than over the bus as the proxy meets it.
