-------------------------------- MODULE Wake --------------------------------
(***************************************************************************)
(* Waking an idle window (src/src/hook.rs watch, src/src/codex_wake.rs).   *)
(*                                                                         *)
(* A watcher is started by the host at every end of a turn and takes the   *)
(* window over from the one before; it returns once, with the text that    *)
(* wakes the window.  A codex adapter runs on, takes the window only when  *)
(* nobody has shown life for OWNER_STALE_SECS, and starts turns through    *)
(* the app-server.  Either keeps a mark beside the binding: what the       *)
(* window was already woken for.  Every read-check-write of that file is   *)
(* one step, under the configuration lock.                                 *)
(*                                                                         *)
(* Direct messages are their ids, in the order they arrive; the window     *)
(* reads all of them or none.  A reading of what is pending is two steps:  *)
(* whether any is unread (the count of whoami), then the newest id         *)
(* (read_messages), with the inbox count, which may be unknown.            *)
(***************************************************************************)
EXTENDS Naturals, FiniteSets

CONSTANTS Procs,       \* watchers or adapters: numbers, in the order they start
          Nobody,
          Tries,       \* attempts to deliver one wake
          MaxEvents    \* bound: messages, and slips: deaths, failed calls, lost answers, stalls

ASSUME WakeConstants == /\ Nobody \notin Procs /\ IsFiniteSet(Procs)
                        /\ Procs \subseteq Nat
                        /\ Tries \in Nat \ {0} /\ MaxEvents \in Nat

VARIABLES host,       \* what wakes this window: "claude" or "codex"
          open,       \* the binding carries a credential
          mail,       \* direct messages posted and read, inbox messages sent and taken
          turn,       \* "idle" or "active"
          file,       \* the state beside the binding: owner, its sign of life, mark
          proc,       \* the processes
          announced,  \* whose token the presence row's wake carries
          slips,
          wakes,      \* history: how often a message was the news of a turn
          fate,       \* history: why a message need not wake the window: "excused" (waiting
                      \* before the first reading, or given up), "raced" (a mark passed it
                      \* that no count included)
          doubled     \* history: lost answers, and owners overtaken alive

wakeVars == <<host, open, mail, turn, file, proc, announced, slips, wakes, fate, doubled>>
history == <<wakes, fate, doubled>>
window == <<host, open, mail, turn>>

Direct == 1..MaxEvents
NoMark == [newest |-> 0, inbox |-> 0, primed |-> FALSE]
Off == [pc |-> "off", seen |-> NoMark, direct |-> FALSE, news |-> {}, woke |-> FALSE, tries |-> 0]

Unread == mail.posted > mail.read
Undelivered == mail.sent - mail.taken
Running(p) == proc[p].pc \notin {"off", "done"}
At(p, pcs) == proc[p].pc \in pcs

WakeInit ==
  /\ host \in {"claude", "codex"}
  /\ open = TRUE
  /\ mail = [posted |-> 0, read |-> 0, sent |-> 0, taken |-> 0]
  /\ turn = IF host = "claude" THEN "active" ELSE "idle"
  /\ file = [owner |-> Nobody, alive |-> FALSE, mark |-> NoMark]
  /\ proc = [p \in Procs |-> Off]
  /\ announced = Nobody
  /\ slips = 0
  /\ wakes = [d \in Direct |-> 0]
  /\ fate = [d \in Direct |-> "due"] /\ doubled = 0

WakeTypeOK ==
  /\ file.owner \in Procs \cup {Nobody}
  /\ announced \in Procs \cup {Nobody}
  /\ \A p \in Procs : proc[p].news \subseteq Direct
  /\ fate \in [Direct -> {"due", "excused", "raced"}]

Because(why, ds) == [d \in Direct |-> IF d \in ds /\ fate[d] = "due" THEN why ELSE fate[d]]

Room == mail.posted + mail.sent + slips < MaxEvents

Slip == Room /\ slips' = slips + 1

Goto(p, pc) == proc' = [proc EXCEPT ![p].pc = pc]

Quit(p) == proc' = [proc EXCEPT ![p] = [Off EXCEPT !.pc = "done"]]

Leave(p) == proc' = [proc EXCEPT ![p] = [Off EXCEPT !.pc = "release"]]

\* Back to the loop's head, with nothing in hand but the mark.
Again(p) == proc' = [proc EXCEPT ![p] = [Off EXCEPT !.pc = "check", !.seen = proc[p].seen]]

\* Processes are started in their order, each once.
NextToStart(p) == At(p, {"off"}) /\ \A q \in Procs : q < p => ~At(q, {"off"})

(***************************************************************************)
(* The window: its mail, its turns, its end.                               *)
(***************************************************************************)
Arrives == /\ Room
           /\ \/ mail' = [mail EXCEPT !.posted = @ + 1]
              \/ mail' = [mail EXCEPT !.sent = @ + 1]

\* No watcher looks at the turns of its window, which may read at any time.
Turn == \/ /\ host = "codex"
           /\ turn' = IF turn = "idle" THEN "active" ELSE "idle"
           /\ UNCHANGED mail
        \/ /\ turn = "active"
           /\ \/ Unread /\ mail' = [mail EXCEPT !.read = mail.posted]
              \/ Undelivered > 0 /\ mail' = [mail EXCEPT !.taken = mail.sent]
           /\ UNCHANGED turn

Window == /\ open
          /\ \/ Arrives /\ UNCHANGED <<open, turn, announced>>
             \/ Turn /\ UNCHANGED <<open, announced>>
             \/ \* the session_end hook withdraws any wake; the proxy closes the binding
                /\ open' = FALSE
                /\ announced' \in {announced, Nobody}
                /\ UNCHANGED <<mail, turn>>
          /\ UNCHANGED <<host, file, proc, slips, history>>

(***************************************************************************)
(* The presence row's wake columns.                                        *)
(***************************************************************************)
announce(p) == announced' = p

\* Mutant: a withdrawal clears whatever stands.
withdraw_any(p) == announced' = Nobody

\* A withdrawal clears only an announcement made with the same token.
withdraw(p) == announced' = IF announced = p THEN Nobody ELSE announced

(***************************************************************************)
(* A reading, and what it means against the mark.                          *)
(***************************************************************************)
\* A direct message newer than the mark while something is unread, or more
\* in the inbox than the mark.
Wakes(seen, r) == \/ r.direct /\ r.newest > seen.newest
                  \/ r.inbox > seen.inbox

watch_step(seen, r) ==
  [inbox |-> r.inbox, primed |-> TRUE,
   newest |-> IF r.newest > seen.newest THEN r.newest ELSE seen.newest]

\* Readings that can come back now: an inbox nobody could read keeps the
\* last known figure.
Readings(p) == {[direct |-> proc[p].direct, newest |-> mail.posted, inbox |-> i] :
                  i \in {Undelivered, proc[p].seen.inbox}}

News(seen, mark) == (seen.newest + 1)..mark.newest

\* Unread messages that a mark passes although the count was zero.
Passed(r) == IF ~r.direct THEN {d \in Direct : d <= r.newest /\ d > mail.read} ELSE {}

\* The loop's head: replaced or closed, the process ends; otherwise the
\* count is read.  An adapter renews its sign of life here.
count(p) ==
  /\ At(p, {"check"})
  /\ IF file.owner # p THEN Quit(p) /\ UNCHANGED file
     ELSE /\ file' = IF host = "codex" THEN [file EXCEPT !.alive = TRUE] ELSE file
          /\ CASE open -> proc' = [proc EXCEPT ![p].direct = Unread, ![p].pc = "newest"]
               [] ~open /\ host = "codex" -> Leave(p)
               [] OTHER -> Quit(p)
  /\ UNCHANGED <<window, announced, slips, history>>

\* --max-secs, or for an adapter a signal: the process withdraws and ends.
Ends(p) ==
  /\ At(p, {"check"}) /\ file.owner = p
  /\ Leave(p)
  /\ UNCHANGED <<window, file, announced, slips, history>>

\* A call of the reading fails: the loop goes round.
Fails(p) ==
  /\ At(p, {"newest"}) /\ Slip
  /\ Again(p)
  /\ UNCHANGED <<window, file, announced, history>>

(***************************************************************************)
(* The watcher of a Claude window.                                         *)
(***************************************************************************)
watch(p) ==
  /\ host = "claude" /\ open /\ NextToStart(p)
  /\ LET mark == IF file.mark.primed THEN file.mark ELSE NoMark
     IN  /\ file' = [owner |-> p, alive |-> FALSE, mark |-> mark]
         /\ proc' = [proc EXCEPT ![p] = [Off EXCEPT !.pc = "announce", !.seen = mark]]
  /\ UNCHANGED <<window, announced, slips, history>>

\* Best effort: a failed call is not tried again.
announces(p) ==
  /\ At(p, {"announce"})
  /\ Goto(p, "check")
  /\ IF open THEN announce(p) \/ UNCHANGED announced ELSE UNCHANGED announced
  /\ UNCHANGED <<window, file, slips, history>>

\* The mark is saved only by the owner, and only the one who saved it wakes.
watcher_saves(p) ==
  /\ host = "claude" /\ At(p, {"newest"})
  /\ \E r \in Readings(p) :
       LET seen == proc[p].seen
           mark == watch_step(seen, r)
           wake == seen.primed /\ Wakes(seen, r)
       IN  IF file.owner # p
           THEN Quit(p) /\ UNCHANGED <<file, fate>>
           ELSE /\ file' = [file EXCEPT !.mark = mark]
                /\ proc' = [proc EXCEPT ![p] =
                      IF wake
                      THEN [Off EXCEPT !.pc = "release", !.woke = TRUE,
                                       !.news = News(seen, mark)]
                      ELSE [Off EXCEPT !.pc = "check", !.seen = mark]]
                /\ fate' = CASE ~seen.primed -> Because("excused", 1..mark.newest)
                             [] seen.primed /\ wake -> fate
                             [] OTHER -> Because("raced", Passed(r))
  /\ UNCHANGED <<window, announced, slips, wakes, doubled>>

\* The host shows the text: a turn starts, or the one running is told.
Rewakes(p) ==
  /\ At(p, {"wake"})
  /\ turn' = "active"
  /\ wakes' = [d \in Direct |-> IF d \in proc[p].news THEN wakes[d] + 1 ELSE wakes[d]]
  /\ Quit(p)
  /\ UNCHANGED <<host, open, mail, file, announced, slips, fate, doubled>>

(***************************************************************************)
(* The codex adapter.                                                      *)
(***************************************************************************)
\* Refused while the owner's sign of life is recent.
take(p) ==
  /\ host = "codex" /\ open /\ NextToStart(p)
  /\ ~file.alive
  /\ file' = [file EXCEPT !.owner = p, !.alive = TRUE]
  /\ proc' = [proc EXCEPT ![p] = [Off EXCEPT !.pc = "check", !.seen = file.mark]]
  /\ doubled' = doubled + (IF file.owner # Nobody /\ Running(file.owner) THEN 1 ELSE 0)
  /\ UNCHANGED <<window, announced, slips, wakes, fate>>

\* Only the owner's mark is written; nobody is told when it is not.
save_mark(p, mark) ==
  file' = IF file.owner = p THEN [file EXCEPT !.mark = mark, !.alive = TRUE] ELSE file

\* While a delivery is under way the record is kept alive, and a stop or a
\* successor ends it where it is.
Delivering == {"deliver", "busy", "start"}

\* The adapter announces itself, first of all and every ANNOUNCE_EVERY.
renews(p) ==
  /\ host = "codex" /\ open /\ At(p, {"newest"} \cup Delivering)
  /\ announce(p)
  /\ UNCHANGED <<window, file, proc, slips, history>>

\* The first reading primes the mark; a later one that is no news is saved,
\* one that is gives a burst a moment to land.
adapter_decides(p) ==
  /\ host = "codex" /\ At(p, {"newest"})
  /\ \E r \in Readings(p) :
       LET seen == proc[p].seen
           mark == watch_step(seen, r)
           wake == seen.primed /\ Wakes(seen, r)
       IN  /\ proc' = [proc EXCEPT ![p] =
                IF wake THEN [Off EXCEPT !.pc = "settle", !.seen = mark, !.news = News(seen, mark)]
                        ELSE [Off EXCEPT !.pc = "check", !.seen = mark]]
           /\ IF wake THEN UNCHANGED file ELSE save_mark(p, mark)
           /\ fate' = CASE ~seen.primed -> Because("excused", 1..mark.newest)
                        [] seen.primed /\ wake -> fate
                        [] OTHER -> Because("raced", Passed(r))
  /\ UNCHANGED <<window, announced, slips, wakes, doubled>>

settle(p) ==
  /\ At(p, {"settle"})
  /\ proc' = [proc EXCEPT ![p].pc = "settled", ![p].direct = Unread]
  /\ UNCHANGED <<window, file, announced, slips, history>>

Settled(p, mark, quiet) ==
  proc' = [proc EXCEPT ![p] = [Off EXCEPT !.seen = mark,
             !.pc = IF quiet THEN "check" ELSE "deliver",
             !.news = IF quiet THEN {} ELSE proc[p].news \cup News(proc[p].seen, mark)]]

\* Mutant: the mark is saved by the next round, after the turn.
saves_later(p) ==
  /\ At(p, {"settled"})
  /\ \E r \in Readings(p) : Settled(p, watch_step(proc[p].seen, r), ~r.direct /\ r.inbox = 0)
  /\ UNCHANGED <<window, file, announced, slips, history>>

\* The second reading, or its failure; the mark is saved before the turn is
\* requested; nothing left unread, no turn.
adapter_saves(p) ==
  /\ At(p, {"settled"})
  /\ \/ \E r \in Readings(p) :
          LET mark == watch_step(proc[p].seen, r)
              quiet == ~r.direct /\ r.inbox = 0
          IN  /\ Settled(p, mark, quiet)
              /\ save_mark(p, mark)
              /\ fate' = IF quiet THEN Because("raced", Passed(r)) ELSE fate
              /\ UNCHANGED slips
     \/ /\ Slip
        /\ Settled(p, proc[p].seen, FALSE)
        /\ save_mark(p, proc[p].seen)
        /\ UNCHANGED fate
  /\ UNCHANGED <<window, announced, wakes, doubled>>

\* An attempt came to nothing: the next one, or the wake has failed.
NextTry(p) ==
  IF proc[p].tries + 1 < Tries
  THEN proc' = [proc EXCEPT ![p].tries = @ + 1, ![p].pc = "deliver"] /\ UNCHANGED fate
  ELSE Again(p) /\ fate' = Because("excused", proc[p].news)

\* thread/read, and thread/resume of a thread that is not loaded.  An active
\* thread is waited on, QUEUE_MAX at most.
deliver(p) ==
  /\ At(p, {"deliver"})
  /\ \/ Goto(p, IF turn = "active" THEN "busy" ELSE "start") /\ UNCHANGED <<slips, fate>>
     \/ Slip /\ NextTry(p)
  /\ UNCHANGED <<window, file, announced, wakes, doubled>>

\* Mutant: the turn that ended is taken to have read the news.
assumes_read(p) ==
  /\ At(p, {"busy"})
  /\ \/ turn = "idle" /\ Again(p) /\ UNCHANGED <<slips, fate>>
     \/ turn = "active" /\ NextTry(p) /\ UNCHANGED slips
     \/ Slip /\ NextTry(p)
  /\ UNCHANGED <<window, file, announced, wakes, doubled>>

\* Idle again: what is pending is read once more, and no turn is started for
\* nothing.
wait_until_idle(p) ==
  /\ At(p, {"busy"})
  /\ \/ /\ turn = "idle"
        /\ \E i \in {Undelivered, proc[p].seen.inbox} :
             IF ~Unread /\ i = 0 THEN Again(p) ELSE Goto(p, "start")
        /\ UNCHANGED <<slips, fate>>
     \/ turn = "active" /\ NextTry(p) /\ UNCHANGED slips
     \/ Slip /\ NextTry(p)
  /\ UNCHANGED <<window, file, announced, wakes, doubled>>

\* turn/start: accepted; accepted and the answer lost, which is an error
\* like any other; or refused.
start_turn(p) ==
  /\ At(p, {"start"})
  /\ \/ /\ turn' = "active"
        /\ wakes' = [d \in Direct |-> IF d \in proc[p].news THEN wakes[d] + 1 ELSE wakes[d]]
        /\ \/ Again(p) /\ UNCHANGED <<slips, fate, doubled>>
           \/ Slip /\ NextTry(p) /\ doubled' = doubled + 1
     \/ Slip /\ NextTry(p) /\ UNCHANGED <<turn, wakes, doubled>>
  /\ UNCHANGED <<host, open, mail, file, announced>>

refresh_owner(p) ==
  /\ At(p, Delivering)
  /\ IF file.owner = p
     THEN /\ file' = [file EXCEPT !.alive = TRUE]
          /\ file' # file
          /\ UNCHANGED <<proc, fate>>
     ELSE Quit(p) /\ fate' = Because("excused", proc[p].news) /\ UNCHANGED file
  /\ UNCHANGED <<window, announced, slips, wakes, doubled>>

Stopped(p) ==
  /\ At(p, Delivering \cup {"settle"})
  /\ Leave(p)
  /\ fate' = Because("excused", proc[p].news)
  /\ UNCHANGED <<window, file, announced, slips, wakes, doubled>>

(***************************************************************************)
(* The way out: the owner withdraws its announcement; an adapter marks the *)
(* record free; a watcher with news returns it.                            *)
(***************************************************************************)
After(p) ==
  CASE proc[p].woke -> Goto(p, "wake")
    [] ~proc[p].woke /\ host = "codex" -> Goto(p, "free")
    [] OTHER -> Quit(p)

\* A watcher withdraws with the binding it had read, an adapter reads it again.
release(p) ==
  /\ At(p, {"release"})
  /\ IF file.owner = p /\ (host = "claude" \/ open) THEN Goto(p, "withdraw") ELSE After(p)
  /\ UNCHANGED <<window, file, announced, slips, history>>

withdraws(p) ==
  /\ At(p, {"withdraw"})
  /\ withdraw(p) \/ UNCHANGED announced
  /\ After(p)
  /\ UNCHANGED <<window, file, slips, history>>

free(p) ==
  /\ At(p, {"free"})
  /\ file' = IF file.owner = p THEN [file EXCEPT !.alive = FALSE] ELSE file
  /\ Quit(p)
  /\ UNCHANGED <<window, announced, slips, history>>

\* A process dies; news its saved mark covers are told to nobody.
WakerDies(p) ==
  /\ Slip /\ Running(p)
  /\ Quit(p)
  /\ fate' = IF At(p, Delivering \cup {"release", "withdraw", "wake"})
             THEN Because("excused", proc[p].news) ELSE fate
  /\ UNCHANGED <<window, file, announced, wakes, doubled>>

\* OWNER_STALE_SECS pass without a sign of life: the owner is gone, or slow.
\* An announcement lapses with its process.
Lapse ==
  /\ \/ /\ file.alive
        /\ IF Running(file.owner) THEN Slip ELSE UNCHANGED slips
        /\ file' = [file EXCEPT !.alive = FALSE]
        /\ UNCHANGED announced
     \/ /\ announced # Nobody /\ ~Running(announced)
        /\ announced' = Nobody
        /\ UNCHANGED <<file, slips>>
  /\ UNCHANGED <<window, proc, history>>

Waker(p) ==
  \/ count(p) \/ announces(p) \/ watcher_saves(p) \/ Rewakes(p)
  \/ adapter_decides(p) \/ settle(p) \/ adapter_saves(p)
  \/ deliver(p) \/ wait_until_idle(p) \/ start_turn(p)
  \/ release(p) \/ withdraws(p) \/ free(p)

WakeNext ==
  \/ Window \/ Lapse
  \/ \E p \in Procs : \/ watch(p) \/ take(p) \/ Waker(p) \/ renews(p) \/ refresh_owner(p)
                      \/ Ends(p) \/ Stopped(p) \/ Fails(p) \/ WakerDies(p)

\* A process that runs goes on; nothing is asked of the host, of the model
\* or of the operator.
WakeFairness == \A p \in Procs : WF_wakeVars(Waker(p))

WakeSpec == WakeInit /\ [][WakeNext]_wakeVars /\ WakeFairness

----------------------------------------------------------------------------
\* The same unread message never wakes a window twice: whatever watchers and
\* adapters succeed one another, die or overtake each other, a second turn
\* for a message is accounted for by a lost answer of turn/start or by an
\* owner that was overtaken alive, one each (hook.rs watch_step, save_mark).
WokenOnce == \A d \in Direct : wakes[d] <= 1 + doubled

\* A window stays announced as one that can be woken until the announcer
\* withdraws it or ends, or the window closes: a retiring process, however
\* late its request, never erases its successor's (heartbeat's wake_token).
AnnouncementStands ==
  [][\A p \in Procs : announced = p /\ announced' = Nobody =>
        ~Running(p) \/ ~open' \/ (At(p, {"withdraw"}) /\ proc'[p].pc # "withdraw")]_wakeVars

Watched == file.owner # Nobody /\ Running(file.owner)

\* A direct message that arrives while the window is watched is read or
\* wakes it, unless the process that took it on ended, gave up, or read its
\* count before the message and the newest id after it.
NewsWakesUnlessRaced ==
  \A d \in Direct :
     (d <= mail.posted /\ Watched)
       ~> (d <= mail.read \/ wakes[d] > 0 \/ ~Watched \/ fate[d] # "due")

\* What the watcher promises of its counts, which are read again after every
\* wait: any such message is read or wakes the window.
NewsWakes ==
  \A d \in Direct :
     (d <= mail.posted /\ Watched)
       ~> (d <= mail.read \/ wakes[d] > 0 \/ ~Watched \/ fate[d] = "excused")
=============================================================================
