------------------------------- MODULE Proxy -------------------------------
(***************************************************************************)
(* The MCP proxy (src/src/proxy.rs): the processes a host starts for ONE   *)
(* conversation, one after another or side by side, the credential each    *)
(* holds, and the binding record they share on disk.                       *)
(*                                                                         *)
(* A process takes its `switch` lock to connect (connect_with/establish)   *)
(* and to rotate (resume_in_place/adopt_resumed); sw is that operation and *)
(* the step it stands before.  session_configure, the renewal of the       *)
(* keepalive loop and a forwarded call run beside it, each with a slot of  *)
(* its own (cf, rn, wt): they read the state under its lock, let go, talk  *)
(* to the bus and come back.                                               *)
(*                                                                         *)
(* A secret is the profile it authenticates and its epoch; the bus accepts *)
(* the last one it issued for the profile while the session lives          *)
(* (src/src/store/sessions.rs; Sessions.tla has the whole of it).  An      *)
(* expires_at is named by the secret the bus stated it for.                *)
(***************************************************************************)
EXTENDS Naturals, FiniteSets, Functions

CONSTANTS Procs,       \* processes a host may start for the conversation
          Profiles,    \* locally approved profiles
          TeamOf,      \* the team of each profile's agent
          Default,     \* the profile the inputs of a process select
          Rooted,      \* the profile of the project the client's roots name
          MaxIssued,   \* bound: secrets the bus issues
          MaxBeside    \* bound: calls and renewals running beside `switch`

ASSUME ProxyAssumption == /\ Default \in Profiles /\ Rooted \in Profiles
                          /\ DOMAIN TeamOf = Profiles
                          /\ MaxIssued \in Nat \ {0}
                          /\ MaxBeside \in Nat \ {0}

VARIABLES bus,         \* per profile: the epoch last issued, and whether it lives
          file,        \* the binding record of the conversation
          w,           \* per process: its State
          sw,          \* per process: the operation that holds `switch`
          cf,          \* per process: a session_configure call
          rn,          \* per process: the keepalive loop's renewal
          wt,          \* per process: a forwarded call or long wait
          transcript   \* per process: the teams whose material it has put in the conversation

proxyVars == <<bus, file, w, sw, cf, rn, wt, transcript>>

Nothing == [none |-> TRUE]
Idle == [step |-> "idle"]
At(slot, step) == slot.step = step

Proof(q, e) == [profile |-> q, epoch |-> e, exp |-> <<q, e>>]
\* session_id and epoch: what every ownership check compares.
SameCredential(a, b) == a.profile = b.profile /\ a.epoch = b.epoch
Accepts(proof) == bus[proof.profile] = [epoch |-> proof.epoch, live |-> TRUE]

Proofs == [profile : Profiles, epoch : 1..MaxIssued,
           exp : Profiles \X (1..MaxIssued)]
Contexts == [as : Profiles, proof : Proofs]
\* A process is started once; a restart of the server is another process.
Bare(life) == [life |-> life, conn |-> Nothing, stranded |-> Nothing, gen |-> 0, told |-> FALSE]

ProxyInit == /\ bus = [q \in Profiles |-> [epoch |-> 0, live |-> FALSE]]
             /\ file = Nothing
             /\ w = [p \in Procs |-> Bare("new")]
             /\ sw = [p \in Procs |-> Idle]
             /\ cf = [p \in Procs |-> Idle]
             /\ rn = [p \in Procs |-> Idle]
             /\ wt = [p \in Procs |-> Idle]
             /\ transcript = [p \in Procs |-> {}]

ProxyTypeOK ==
  /\ bus \in [Profiles -> [epoch : 0..MaxIssued, live : BOOLEAN]]
  /\ \/ file = Nothing
     \/ file \in [rec : Contexts \cup {Nothing}, closed : BOOLEAN]
  /\ w \in [Procs -> [life : {"new", "up", "gone"}, conn : Contexts \cup {Nothing},
                      stranded : Contexts \cup {Nothing}, gen : Nat, told : BOOLEAN]]
  /\ transcript \in [Procs -> SUBSET {TeamOf[q] : q \in Profiles}]

(***************************************************************************)
(* The bus, as the proxy meets it.                                         *)
(***************************************************************************)
\* How many secrets were issued, whoever they are for.
Secrets == FoldFunction(LAMBDA s, n : s.epoch + n, 0, bus)

Issue(q) ==
  /\ Secrets < MaxIssued
  /\ bus' = [bus EXCEPT ![q] = [epoch |-> @.epoch + 1, live |-> TRUE]]

Issued(q) == Proof(q, bus[q].epoch + 1)

\* An operator or another window revokes the session, or it outlives its expiry.
Lapses(q) == /\ bus[q].live
             /\ bus' = [bus EXCEPT ![q].live = FALSE]
             /\ UNCHANGED <<file, w, sw, cf, rn, wt, transcript>>

\* The bound on what runs beside the switches.
Beside == Cardinality({p \in Procs : ~At(cf[p], "idle")})
            + Cardinality({p \in Procs : ~At(rn[p], "idle")})
            + Cardinality({p \in Procs : ~At(wt[p], "idle")})
Room == Beside < MaxBeside

(***************************************************************************)
(* State::identity: the connected context, else the stranded one.          *)
(***************************************************************************)
identity(p) == IF w[p].conn # Nothing THEN w[p].conn ELSE w[p].stranded

\* Mutant: the refusal is recorded whatever context is current now.
mark_any_context(p, gen) == w' = [w EXCEPT ![p].told = TRUE]

\* A forwarded call that was refused marks the window, only for the context
\* it ran in.
mark_unauthorized(p, gen) ==
  w' = [w EXCEPT ![p].told = @ \/ w[p].gen = gen]

(***************************************************************************)
(* The operation that holds `switch`: what it works with, and its end.     *)
(***************************************************************************)
Op(step, as, proof) == [step |-> step, as |-> as, proof |-> proof]

\* connect_with returns to connect_initial or to configure.
Ends(p, ok) ==
  /\ sw' = [sw EXCEPT ![p] = Idle]
  /\ cf' = [cf EXCEPT ![p] = IF ~At(@, "switching") THEN @
                             ELSE IF ok THEN [step |-> "record"] ELSE Idle]

Moves(p, step, proof) ==
  /\ sw' = [sw EXCEPT ![p] = Op(step, @.as, proof)]
  /\ UNCHANGED cf

\* connect_with(inputs, reuse_proof): the same window reconnecting resumes
\* with the secret on disk, a profile switch registers.
connect_with(p, q, reuse) ==
  sw' = [sw EXCEPT ![p] =
    IF reuse /\ file # Nothing /\ file.rec # Nothing
    THEN Op("resume", q, file.rec.proof) ELSE Op("register", q, Nothing)]

\* The host starts the process (and admit, for a binding decided late): it
\* connects as the profile its inputs select.
start(p) ==
  /\ w[p].life = "new"
  /\ w' = [w EXCEPT ![p] = Bare("up")]
  /\ connect_with(p, Default, TRUE)
  /\ UNCHANGED <<bus, file, cf, rn, wt, transcript>>

\* The project an MCP root names selects the profile: a window that is not
\* connected connects as it, a connected one switches.
adopt_project_dir(p) ==
  /\ w[p].life = "up" /\ At(sw[p], "idle")
  /\ w[p].conn # Nothing => w[p].conn.as # Rooted
  /\ connect_with(p, Rooted, w[p].conn = Nothing)
  /\ UNCHANGED <<bus, file, w, cf, rn, wt, transcript>>

\* establish with a stored proof: its own connection, resume_session on it.
\* Refused (revoked, rotated, expired): register with the agent token.
resume_with(p) ==
  /\ At(sw[p], "resume")
  /\ IF Accepts(sw[p].proof)
     THEN /\ Issue(sw[p].proof.profile)
          /\ \/ Moves(p, "open", Issued(sw[p].proof.profile))
             \/ Ends(p, FALSE)               \* the answer is lost
     ELSE Moves(p, "register", Nothing) /\ UNCHANGED bus
  /\ UNCHANGED <<file, w, rn, wt, transcript>>

\* The bus hands a label out only when the session there is dead.
register_new(p) ==
  /\ At(sw[p], "register")
  /\ IF ~bus[sw[p].as].live
     THEN /\ Issue(sw[p].as)
          /\ \/ Moves(p, "open", Issued(sw[p].as))
             \/ Ends(p, FALSE)
     ELSE Ends(p, FALSE) /\ UNCHANGED bus
  /\ UNCHANGED <<file, w, rn, wt, transcript>>

\* The bus cannot be reached, or does not know the agent token: the call
\* fails and nothing has changed.
Unreached(p) ==
  /\ sw[p].step \in {"resume", "register", "rotate"}
  /\ Ends(p, FALSE)
  /\ UNCHANGED <<bus, file, w, rn, wt, transcript>>

\* Mutant: a window without a connection is treated as nobody.
TeamOfConnection(p, q) == w[p].conn # Nothing => TeamOf[w[p].conn.as] = TeamOf[q]

TeamAllowed(p, q) == identity(p) # Nothing => TeamOf[identity(p).as] = TeamOf[q]

\* establish reconnects on the new proof and lists the tools; the team is
\* checked, and the old context is taken out and its calls cancelled.
take_over(p) ==
  /\ At(sw[p], "open")
  /\ \/ /\ Accepts(sw[p].proof) /\ TeamAllowed(p, sw[p].as)
        /\ sw' = [sw EXCEPT ![p] = [step |-> "retire", as |-> @.as,
                                    proof |-> @.proof, old |-> w[p].conn]]
        /\ w' = [w EXCEPT ![p].conn = Nothing]
        /\ UNCHANGED cf
     \/ Ends(p, FALSE) /\ UNCHANGED w      \* no connection, or another team
  /\ UNCHANGED <<bus, file, rn, wt, transcript>>

\* write_binding at the end of a switch: the record is built from the state,
\* whose identity only the holder of `switch` changes ...
Records(p, rec) == /\ sw' = [sw EXCEPT ![p] = [step |-> "write", rec |-> rec]]
                   /\ UNCHANGED cf

\* Another context is current: the generation moves on, and nothing the bus
\* refused the last one says anything of it.
Becomes(p, conn, stranded) ==
  w' = [w EXCEPT ![p] = [life |-> "up", conn |-> conn, stranded |-> stranded,
                         gen |-> @.gen + 1, told |-> FALSE]]

\* After the drain (which gives up at DRAIN_TIMEOUT) the old session is
\* revoked, best effort; then the new context is made current.
swap(p) ==
  /\ At(sw[p], "retire")
  /\ \/ /\ sw[p].old # Nothing
        /\ Accepts(sw[p].old.proof)
        /\ bus' = [bus EXCEPT ![sw[p].old.proof.profile].live = FALSE]
     \/ UNCHANGED bus
  /\ Becomes(p, [as |-> sw[p].as, proof |-> sw[p].proof], Nothing)
  /\ transcript' = [transcript EXCEPT ![p] = @ \cup {TeamOf[sw[p].as]}]
  /\ Records(p, [as |-> sw[p].as, proof |-> sw[p].proof])
  /\ UNCHANGED <<file, rn, wt>>

\* ... and replaces the file under the configuration lock.
write_record(p) ==
  /\ At(sw[p], "write")
  /\ file' = [rec |-> sw[p].rec, closed |-> FALSE]
  /\ Ends(p, TRUE)
  /\ UNCHANGED <<bus, w, rn, wt, transcript>>

(***************************************************************************)
(* resume_session asked for through the window (resume_in_place).          *)
(***************************************************************************)
resume_in_place(p) ==
  /\ w[p].life = "up" /\ At(sw[p], "idle") /\ w[p].conn # Nothing
  /\ sw' = [sw EXCEPT ![p] = Op("rotate", w[p].conn.as, w[p].conn.proof)]
  /\ UNCHANGED <<bus, file, w, cf, rn, wt, transcript>>

rotate(p) ==
  /\ At(sw[p], "rotate")
  /\ IF Accepts(sw[p].proof)
     THEN /\ Issue(sw[p].proof.profile)
          /\ \/ Moves(p, "adopt", Issued(sw[p].proof.profile))
             \/ Ends(p, FALSE)               \* may or may not have happened
     ELSE Ends(p, FALSE) /\ UNCHANGED bus
  /\ UNCHANGED <<file, w, rn, wt, transcript>>

\* ADOPT_ATTEMPTS tries to open a connection on the new secret; when all
\* fail the context is retired and the secret kept as the stranded identity.
adopt_resumed(p) ==
  /\ At(sw[p], "adopt")
  /\ LET now == [as |-> w[p].conn.as, proof |-> sw[p].proof]
     IN /\ \/ Accepts(sw[p].proof) /\ Becomes(p, now, w[p].stranded)
           \/ Becomes(p, Nothing, now)
        /\ Records(p, now)
  /\ UNCHANGED <<bus, file, rn, wt, transcript>>

(***************************************************************************)
(* session_configure: the switch first, if a profile was named, then the   *)
(* labels and the record, outside `switch`.                                *)
(***************************************************************************)
configure(p) ==
  /\ w[p].life = "up" /\ At(cf[p], "idle") /\ Room
  /\ cf' = [cf EXCEPT ![p] = [step |-> "record"]]
  /\ UNCHANGED <<bus, file, w, sw, rn, wt, transcript>>

configure_profile(p, q) ==
  /\ w[p].life = "up" /\ At(cf[p], "idle") /\ Room /\ At(sw[p], "idle")
  /\ cf' = [cf EXCEPT ![p] = [step |-> "switching"]]
  /\ connect_with(p, q, FALSE)
  /\ UNCHANGED <<bus, file, w, rn, wt, transcript>>

configure_record(p) ==
  /\ At(cf[p], "record")
  /\ cf' = [cf EXCEPT ![p] = [step |-> "write", rec |-> identity(p)]]
  /\ UNCHANGED <<bus, file, w, sw, rn, wt, transcript>>

configure_write(p) ==
  /\ At(cf[p], "write")
  /\ file' = [rec |-> cf[p].rec, closed |-> FALSE]
  /\ cf' = [cf EXCEPT ![p] = Idle]
  /\ UNCHANGED <<bus, w, sw, rn, wt, transcript>>

(***************************************************************************)
(* The keepalive loop's renewal (renew_credential).                        *)
(***************************************************************************)
renew_credential(p) ==
  /\ w[p].life = "up" /\ At(rn[p], "idle") /\ Room /\ w[p].conn # Nothing
  /\ rn' = [rn EXCEPT ![p] = [step |-> "ask", proof |-> w[p].conn.proof, gen |-> w[p].gen]]
  /\ UNCHANGED <<bus, file, w, sw, cf, wt, transcript>>

renew_answered(p) ==
  /\ At(rn[p], "ask")
  /\ \/ /\ Accepts(rn[p].proof)
        /\ rn' = [rn EXCEPT ![p].step = "apply"]
        /\ UNCHANGED w
     \/ /\ ~Accepts(rn[p].proof)
        /\ mark_unauthorized(p, rn[p].gen)
        /\ rn' = [rn EXCEPT ![p] = Idle]
     \/ rn' = [rn EXCEPT ![p] = Idle] /\ UNCHANGED w   \* cancelled, or retried later
  /\ UNCHANGED <<bus, file, sw, cf, wt, transcript>>

StillMine(p) == /\ w[p].gen = rn[p].gen
                /\ w[p].conn # Nothing
                /\ SameCredential(w[p].conn.proof, rn[p].proof)

Expiry(proof) == <<proof.profile, proof.epoch>>

renew_apply(p) ==
  /\ At(rn[p], "apply")
  /\ IF StillMine(p)
     THEN /\ w' = [w EXCEPT ![p].conn.proof.exp = Expiry(rn[p].proof)]
          /\ rn' = [rn EXCEPT ![p].step = "stamp"]
     ELSE rn' = [rn EXCEPT ![p] = Idle] /\ UNCHANGED w
  /\ UNCHANGED <<bus, file, sw, cf, wt, transcript>>

\* The record on disk still describes this credential.
Describes(proof) == /\ file # Nothing
                    /\ file.rec # Nothing
                    /\ SameCredential(file.rec.proof, proof)

stamp_binding_expiry(p) ==
  /\ At(rn[p], "stamp")
  /\ file' = IF Describes(rn[p].proof)
             THEN [file EXCEPT !.rec.proof.exp = Expiry(rn[p].proof)] ELSE file
  /\ rn' = [rn EXCEPT ![p] = Idle]
  /\ UNCHANGED <<bus, w, sw, cf, wt, transcript>>

(***************************************************************************)
(* A forwarded call, and the long wait made of several (forward_bound).    *)
(***************************************************************************)
long_wait(p) ==
  /\ w[p].life = "up" /\ At(wt[p], "idle") /\ Room /\ w[p].conn # Nothing
  /\ wt' = [wt EXCEPT ![p] = [step |-> "between", gen |-> w[p].gen, began |-> w[p].conn]]
  /\ UNCHANGED <<bus, file, w, sw, cf, rn, transcript>>

\* Mutant: any connection the window has now will do.
SameContextUnchecked(p) == TRUE

\* The generation is checked under the lock that hands out the connection.
SameContext(p) == w[p].gen = wt[p].gen

forward_bound(p) ==
  /\ At(wt[p], "between")
  /\ wt' = [wt EXCEPT ![p] =
       IF SameContext(p) /\ w[p].conn # Nothing
       THEN [step |-> "sent", gen |-> w[p].gen, began |-> @.began, under |-> w[p].conn]
       ELSE Idle]
  /\ UNCHANGED <<bus, file, w, sw, cf, rn, transcript>>

forward_answered(p) ==
  /\ At(wt[p], "sent")
  /\ \/ \* nothing happened on the bus in this slice: wait on
        /\ Accepts(wt[p].under.proof)
        /\ wt' = [wt EXCEPT ![p] = [step |-> "between", gen |-> @.gen, began |-> @.began]]
        /\ UNCHANGED w
     \/ \* 401: the secret was revoked or rotated under the call
        /\ ~Accepts(wt[p].under.proof)
        /\ mark_unauthorized(p, wt[p].gen)
        /\ wt' = [wt EXCEPT ![p] = Idle]
     \/ \* woke, lost, or cancelled by the host or by the switch
        wt' = [wt EXCEPT ![p] = Idle] /\ UNCHANGED w
  /\ UNCHANGED <<bus, file, sw, cf, rn, transcript>>

(***************************************************************************)
(* The end of a process: shutdown stamps the record closed if it is still  *)
(* its own; a crash stamps nothing.                                        *)
(***************************************************************************)
Stops(p) == /\ w' = [w EXCEPT ![p] = Bare("gone")]
            /\ sw' = [sw EXCEPT ![p] = Idle]
            /\ cf' = [cf EXCEPT ![p] = Idle]
            /\ rn' = [rn EXCEPT ![p] = Idle]
            /\ wt' = [wt EXCEPT ![p] = Idle]
            /\ transcript' = [transcript EXCEPT ![p] = {}]
            /\ UNCHANGED bus

\* Mutant: the record is closed whoever wrote it.
OwnsAny(p) == file # Nothing /\ file.rec # Nothing

Owns(p) == identity(p) # Nothing /\ Describes(identity(p).proof)

mark_closed(p) ==
  /\ w[p].life = "up"
  /\ file' = IF Owns(p) THEN [file EXCEPT !.closed = TRUE] ELSE file
  /\ Stops(p)

Crash(p) == w[p].life = "up" /\ Stops(p) /\ UNCHANGED file

ProcessStep(p) ==
  \/ start(p) \/ resume_with(p) \/ register_new(p) \/ Unreached(p) \/ take_over(p)
  \/ swap(p) \/ write_record(p)
  \/ adopt_project_dir(p)
  \/ resume_in_place(p) \/ rotate(p) \/ adopt_resumed(p)
  \/ configure(p) \/ (\E q \in Profiles : configure_profile(p, q))
  \/ configure_record(p) \/ configure_write(p)
  \/ renew_credential(p) \/ renew_answered(p) \/ renew_apply(p) \/ stamp_binding_expiry(p)
  \/ long_wait(p) \/ forward_bound(p) \/ forward_answered(p)
  \/ mark_closed(p) \/ Crash(p)

ProxyNext == \/ \E p \in Procs : ProcessStep(p)
             \/ \E q \in Profiles : Lapses(q)

ProxySpec == ProxyInit /\ [][ProxyNext]_proxyVars

(***************************************************************************)
(* Properties.                                                             *)
(***************************************************************************)
\* A long wait is many requests to the bus: none is ever sent with another
\* credential than the one the wait began under, whatever switch or resume
\* happened between two slices (forward_bound's generation check).
WaitKeepsItsIdentity ==
  \A p \in Procs : At(wt[p], "sent") =>
    /\ wt[p].under.as = wt[p].began.as
    /\ SameCredential(wt[p].under.proof, wt[p].began.proof)

\* A window that says the bus rejected its credential holds one the bus
\* rejects: the refusal of a call still in flight on a connection that was
\* replaced says nothing of the new one (mark_unauthorized).
RefusalIsCurrent ==
  \A p \in Procs : w[p].told /\ w[p].conn # Nothing => ~Accepts(w[p].conn.proof)

\* One process never puts two teams' material in a conversation, also when
\* a failed adoption left it without a connection (connect_with's check of
\* State::identity).
TeamIsKept ==
  \A p \in Procs : \A s, t \in transcript[p] : s = t

\* The expiry in the state and on disk is one the bus stated for the
\* credential beside it (renew_credential, stamp_binding_expiry), and no
\* departing process closes the record of a window that is running
\* (mark_closed's ownership check).
RecordIsTheOwners ==
  /\ \A p \in Procs : w[p].conn # Nothing => w[p].conn.proof.exp = Expiry(w[p].conn.proof)
  /\ file # Nothing /\ file.rec # Nothing => file.rec.proof.exp = Expiry(file.rec.proof)
  /\ \A p \in Procs : w[p].conn # Nothing /\ Describes(w[p].conn.proof) => ~file.closed

\* What connect_with says of its reuse_proof: the credential on disk is
\* resumed only as the identity it belongs to, so that a window never speaks
\* as another agent than the one it reports.
SpeaksAsItReports ==
  \A p \in Procs : w[p].conn # Nothing => w[p].conn.proof.profile = w[p].conn.as
=============================================================================
