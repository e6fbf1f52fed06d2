---------------------------- MODULE ProxyProofs -----------------------------
(***************************************************************************)
(* Proofs about the proxy, for any number of processes, profiles and       *)
(* secrets, and about the inbox it spools, for any number of references,   *)
(* processes and fetch calls.                                              *)
(***************************************************************************)
EXTENDS Proxy, Inbox, TLAPS

ProofRecords == [profile : Profiles, epoch : Nat, exp : Profiles \X Nat]
ContextRecords == [as : Profiles, proof : ProofRecords]

(* A secret the bus b has issued, with the expiry it stated for it.        *)
IssuedBy(b, x) ==
  /\ x \in ProofRecords
  /\ x.epoch <= b[x.profile].epoch
  /\ x.exp = Expiry(x)

GoodProof(x) == IssuedBy(bus, x)
GoodContext(c) == c \in ContextRecords /\ GoodProof(c.proof)

BusStates == [Profiles -> [epoch : Nat, live : BOOLEAN]]

ProxyTypes ==
  /\ bus \in BusStates
  /\ file = Nothing \/ file \in [rec : ContextRecords \cup {Nothing}, closed : BOOLEAN]
  /\ w \in [Procs -> [life : {"new", "up", "gone"}, conn : ContextRecords \cup {Nothing},
                      stranded : ContextRecords \cup {Nothing}, gen : Nat, told : BOOLEAN]]
  /\ DOMAIN sw = Procs /\ DOMAIN cf = Procs /\ DOMAIN rn = Procs /\ DOMAIN wt = Procs
  /\ DOMAIN transcript = Procs

(* A process that does not run has nothing; one that does has a context    *)
(* or a stranded one, not both.                                            *)
Contextual(p) ==
  /\ w[p].life # "up" =>
       /\ w[p].conn = Nothing /\ w[p].stranded = Nothing /\ transcript[p] = {}
       /\ At(sw[p], "idle") /\ At(cf[p], "idle") /\ At(rn[p], "idle") /\ At(wt[p], "idle")
  /\ w[p].conn # Nothing => GoodContext(w[p].conn) /\ w[p].stranded = Nothing
  /\ w[p].stranded # Nothing => GoodContext(w[p].stranded)

(* What the operation that holds `switch` works with.  While it rotates,   *)
(* the context stays; once it retired the old one, there is none.          *)
Switching(p) ==
  /\ sw[p].step \in {"idle", "resume", "register", "open", "retire", "rotate", "adopt", "write"}
  /\ sw[p].step \in {"resume", "register", "open", "retire", "rotate", "adopt"} =>
       sw[p].as \in Profiles
  /\ sw[p].step \in {"resume", "open", "retire", "rotate", "adopt"} => GoodProof(sw[p].proof)
  /\ sw[p].step \in {"rotate", "adopt"} => w[p].conn # Nothing
  /\ At(sw[p], "retire") => /\ w[p].conn = Nothing
                            /\ sw[p].old # Nothing => sw[p].old \in ContextRecords
  /\ At(sw[p], "write") => GoodContext(sw[p].rec)
  /\ At(cf[p], "write") => cf[p].rec = Nothing \/ GoodContext(cf[p].rec)

(* A renewal or a wait that runs in the window's generation runs under its *)
(* credential.                                                             *)
Renewing(p) == ~At(rn[p], "idle") =>
  /\ rn[p] \in [step : {"ask", "apply", "stamp"}, proof : ProofRecords, gen : Nat]
  /\ rn[p].gen <= w[p].gen
  /\ GoodProof(rn[p].proof)
  /\ rn[p].gen = w[p].gen /\ w[p].conn # Nothing => SameCredential(w[p].conn.proof, rn[p].proof)

Waiting(p) == ~At(wt[p], "idle") =>
  /\ wt[p].step \in {"between", "sent"}
  /\ wt[p].gen \in Nat /\ wt[p].gen <= w[p].gen
  /\ wt[p].gen = w[p].gen /\ w[p].conn # Nothing =>
       w[p].conn.as = wt[p].began.as /\ SameCredential(w[p].conn.proof, wt[p].began.proof)
  /\ At(wt[p], "sent") => /\ wt[p].under.as = wt[p].began.as
                          /\ SameCredential(wt[p].under.proof, wt[p].began.proof)

Refused(p) == w[p].told /\ w[p].conn # Nothing => ~Accepts(w[p].conn.proof)

(* What a process has shown is of the team it speaks for, also while a     *)
(* switch has retired the old context and not yet made the new one current.*)
OneTeam(p) ==
  /\ identity(p) # Nothing => \A t \in transcript[p] : t = TeamOf[identity(p).as]
  /\ At(sw[p], "retire") => \A t \in transcript[p] : t = TeamOf[sw[p].as]
  /\ identity(p) = Nothing /\ ~At(sw[p], "retire") => transcript[p] = {}

ProcessInv(p) == /\ Contextual(p) /\ Switching(p) /\ Renewing(p) /\ Waiting(p)
                 /\ Refused(p) /\ OneTeam(p)

(* The secrets a process was handed and has not dropped.                   *)
Credential(x) == <<x.profile, x.epoch>>
HeldBy(p) ==
  {Credential(c.proof) : c \in {w[p].conn, w[p].stranded} \ {Nothing}}
    \cup (IF sw[p].step \in {"open", "retire", "adopt"} THEN {Credential(sw[p].proof)} ELSE {})

(* No secret is handed to two processes, and nobody holds the one of a     *)
(* record that was closed.                                                 *)
HeldOnce == \A p, q \in Procs : p # q => HeldBy(p) \cap HeldBy(q) = {}

RecordInv ==
  file # Nothing /\ file.rec # Nothing =>
    /\ GoodContext(file.rec)
    /\ file.closed => \A p \in Procs : Credential(file.rec.proof) \notin HeldBy(p)

ProxyInv ==
  /\ ProxyTypes
  /\ \A p \in Procs : ProcessInv(p)
  /\ HeldOnce
  /\ RecordInv

-----------------------------------------------------------------------------
(* What the bus may do: issue, which numbers on, or end a session.         *)
BusMoves ==
  /\ bus' \in BusStates
  /\ \A q \in Profiles : \/ bus'[q] = bus[q]
                         \/ bus'[q].epoch = bus[q].epoch /\ ~bus'[q].live
                         \/ bus'[q].epoch > bus[q].epoch

LEMMA NothingIsNoContext == \A c \in ContextRecords : c # Nothing
BY DEF ContextRecords, Nothing

LEMMA NothingIsNoFile ==
  \A r, c : [rec |-> r, closed |-> c] # Nothing
BY DEF Nothing

LEMMA BusUnchanged == ASSUME ProxyTypes, UNCHANGED bus PROVE BusMoves
BY DEF ProxyTypes, BusMoves

LEMMA IssueMoves ==
  ASSUME ProxyTypes, NEW q \in Profiles, Issue(q)
  PROVE  /\ BusMoves
         /\ bus'[q].epoch = bus[q].epoch + 1
         /\ IssuedBy(bus', Issued(q)) /\ Issued(q) \in ProofRecords
         /\ Issued(q).profile = q /\ Issued(q).epoch = bus[q].epoch + 1
BY DEF ProxyTypes, BusStates, BusMoves, Issue, Issued, Proof, IssuedBy, ProofRecords, Expiry

LEMMA EndMoves ==
  ASSUME ProxyTypes, NEW q \in Profiles, bus' = [bus EXCEPT ![q].live = FALSE]
  PROVE  BusMoves
BY ZenonT(30) DEF ProxyTypes, BusStates, BusMoves

(* An issued secret stays issued, and one the bus rejects stays rejected.  *)
LEMMA IssuedStays ==
  ASSUME ProxyTypes, BusMoves
  PROVE  \A x : IssuedBy(bus, x) =>
           /\ IssuedBy(bus', x)
           /\ bus[x.profile] # [epoch |-> x.epoch, live |-> TRUE]
                => bus'[x.profile] # [epoch |-> x.epoch, live |-> TRUE]
<1> SUFFICES ASSUME NEW x, IssuedBy(bus, x)
             PROVE  /\ IssuedBy(bus', x)
                    /\ bus[x.profile] # [epoch |-> x.epoch, live |-> TRUE]
                         => bus'[x.profile] # [epoch |-> x.epoch, live |-> TRUE]
  OBVIOUS
<1> DEFINE q == x.profile
<1>1. /\ q \in Profiles /\ x.epoch \in Nat /\ x.epoch <= bus[q].epoch
      /\ bus[q] \in [epoch : Nat, live : BOOLEAN] /\ bus'[q] \in [epoch : Nat, live : BOOLEAN]
  BY DEF IssuedBy, ProofRecords, ProxyTypes, BusMoves, BusStates
<1>2. bus'[q].epoch >= bus[q].epoch
  BY <1>1 DEF BusMoves
<1>3. IssuedBy(bus', x)
  BY <1>1, <1>2 DEF IssuedBy
<1>4. ASSUME bus'[q] = [epoch |-> x.epoch, live |-> TRUE]
      PROVE  bus[q] = [epoch |-> x.epoch, live |-> TRUE]
  BY <1>1, <1>4 DEF BusMoves
<1>5. QED
  BY <1>3, <1>4

(* The other processes: their own values are theirs, and the bus only      *)
(* moves on.                                                               *)
Untouched(q) ==
  /\ w'[q] = w[q] /\ sw'[q] = sw[q] /\ cf'[q] = cf[q] /\ rn'[q] = rn[q] /\ wt'[q] = wt[q]
  /\ transcript'[q] = transcript[q]

LEMMA UntouchedKept ==
  ASSUME ProxyInv, BusMoves, NEW q \in Procs, Untouched(q)
  PROVE  ProcessInv(q)' /\ HeldBy(q)' = HeldBy(q)
<1> USE IssuedStays DEF Untouched, ProxyInv, ProcessInv, At, GoodProof, GoodContext
<1>1. Contextual(q)'
  BY DEF Contextual
<1>2. Switching(q)'
  BY DEF Switching
<1>3. Renewing(q)'
  BY DEF Renewing
<1>4. Waiting(q)'
  BY DEF Waiting
<1>5. Refused(q)'
  BY DEF Refused, Contextual, Accepts
<1>6. OneTeam(q)'
  BY DEF OneTeam, identity
<1>7. HeldBy(q)' = HeldBy(q)
  BY DEF HeldBy
<1>8. QED
  BY <1>1, <1>2, <1>3, <1>4, <1>5, <1>6, <1>7

(* Every secret held was issued.                                           *)
LEMMA HeldIsIssued ==
  ASSUME ProxyInv, NEW p \in Procs, NEW k \in HeldBy(p)
  PROVE  /\ k \in Profiles \X Nat
         /\ k[2] <= bus[k[1]].epoch
<1>1. CASE \E c \in {w[p].conn, w[p].stranded} \ {Nothing} : k = Credential(c.proof)
  BY <1>1 DEF ProxyInv, ProcessInv, Contextual, GoodContext, GoodProof, IssuedBy, ProofRecords,
              Credential
<1>2. CASE sw[p].step \in {"open", "retire", "adopt"} /\ k = Credential(sw[p].proof)
  BY <1>2 DEF ProxyInv, ProcessInv, Switching, GoodProof, IssuedBy, ProofRecords, Credential
<1>3. QED
  BY <1>1, <1>2 DEF HeldBy

(* Secrets the bus has not issued yet.                                     *)
Fresh == {k \in Profiles \X Nat : k[2] > bus[k[1]].epoch}

(* A step of p keeps the invariant when it keeps what is said of p, holds  *)
(* only what p held or what is new, and the record is right.               *)
LEMMA ProcessStepKeeps ==
  ASSUME ProxyInv, BusMoves, NEW p \in Procs, \A q \in Procs \ {p} : Untouched(q),
         ProxyTypes', ProcessInv(p)', HeldBy(p)' \subseteq HeldBy(p) \cup Fresh, RecordInv'
  PROVE  ProxyInv'
<1>1. \A q \in Procs \ {p} : ProcessInv(q)' /\ HeldBy(q)' = HeldBy(q)
  BY UntouchedKept
<1>2. \A q \in Procs \ {p} : HeldBy(q) \cap (HeldBy(p) \cup Fresh) = {}
  <2> SUFFICES ASSUME NEW q \in Procs \ {p}, NEW k \in HeldBy(q),
                      k \in HeldBy(p) \/ k \in Fresh
               PROVE  FALSE
    OBVIOUS
  <2>1. k \notin HeldBy(p)
    BY DEF ProxyInv, HeldOnce
  <2>2. k[2] <= bus[k[1]].epoch /\ k \in Profiles \X Nat
    BY HeldIsIssued
  <2>3. k \notin Fresh
    BY <2>2 DEF Fresh, ProxyInv, ProxyTypes, BusStates
  <2>4. QED
    BY <2>1, <2>3
<1>3. HeldOnce'
  BY <1>1, <1>2 DEF ProxyInv, HeldOnce
<1>4. QED
  BY <1>1, <1>3 DEF ProxyInv

(* A record nobody writes stays right.                                     *)
LEMMA RecordKept ==
  ASSUME ProxyInv, BusMoves, NEW p \in Procs, \A q \in Procs \ {p} : Untouched(q),
         HeldBy(p)' \subseteq HeldBy(p) \cup Fresh, UNCHANGED file
  PROVE  RecordInv'
<1> SUFFICES ASSUME file # Nothing, file.rec # Nothing
             PROVE  /\ GoodContext(file.rec)'
                    /\ file.closed => \A q \in Procs : Credential(file.rec.proof) \notin HeldBy(q)'
  BY DEF RecordInv
<1> DEFINE k == Credential(file.rec.proof)
<1>1. GoodContext(file.rec)'
  BY IssuedStays DEF ProxyInv, RecordInv, GoodContext, GoodProof
<1>2. k \notin Fresh
  BY DEF ProxyInv, ProxyTypes, BusStates, RecordInv, GoodContext, GoodProof, IssuedBy,
         ProofRecords, Fresh, Credential
<1>3. file.closed => \A q \in Procs : k \notin HeldBy(q)
  BY DEF ProxyInv, RecordInv
<1>4. \A q \in Procs \ {p} : HeldBy(q)' = HeldBy(q)
  BY UntouchedKept
<1>5. QED
  BY <1>1, <1>2, <1>3, <1>4

(* Both at once, for the steps that do not write the record.               *)
LEMMA QuietStepKeeps ==
  ASSUME ProxyInv, BusMoves, NEW p \in Procs, \A q \in Procs \ {p} : Untouched(q),
         ProxyTypes', ProcessInv(p)', HeldBy(p)' \subseteq HeldBy(p) \cup Fresh, UNCHANGED file
  PROVE  ProxyInv'
BY ProcessStepKeeps, RecordKept

(* The record of a process's own context, just written, is open.           *)
LEMMA WrittenStepKeeps ==
  ASSUME ProxyInv, UNCHANGED bus, NEW p \in Procs, \A q \in Procs \ {p} : Untouched(q),
         ProxyTypes', ProcessInv(p)', HeldBy(p)' \subseteq HeldBy(p),
         NEW c, file' = [rec |-> c, closed |-> FALSE], c = Nothing \/ GoodContext(c)
  PROVE  ProxyInv'
<1>1. BusMoves
  BY BusUnchanged DEF ProxyInv
<1>2. RecordInv'
  BY DEF RecordInv, GoodContext, GoodProof
<1>3. QED
  BY <1>1, <1>2, ProcessStepKeeps

LEMMA LapsesKeeps == ASSUME ProxyInv, NEW q \in Profiles, Lapses(q) PROVE ProxyInv'
<1>1. BusMoves
  BY EndMoves DEF Lapses, ProxyInv
<1>2. \A p \in Procs : Untouched(p)
  BY DEF Lapses, Untouched
<1>3. \A p \in Procs : ProcessInv(p)' /\ HeldBy(p)' = HeldBy(p)
  BY <1>1, <1>2, UntouchedKept
<1>4. HeldOnce'
  BY <1>3 DEF ProxyInv, HeldOnce
<1>5. RecordInv'
  BY <1>1, <1>3, IssuedStays DEF ProxyInv, RecordInv, GoodContext, GoodProof, Lapses
<1>6. ProxyTypes'
  BY <1>1 DEF ProxyInv, ProxyTypes, BusMoves, Lapses
<1>7. QED
  BY <1>3, <1>4, <1>5, <1>6 DEF ProxyInv

-----------------------------------------------------------------------------
(* The parts of a process's invariant that a step leaves alone.            *)
LEMMA PartsKept ==
  ASSUME ProxyInv, BusMoves, NEW p \in Procs, w'[p] = w[p]
  PROVE  /\ Refused(p)'
         /\ wt'[p] = wt[p] => Waiting(p)'
         /\ rn'[p] = rn[p] => Renewing(p)'
         /\ w[p].life = "up" => Contextual(p)'
         /\ /\ transcript'[p] = transcript[p]
            /\ At(sw[p], "retire") = At(sw[p], "retire")'
            /\ At(sw[p], "retire") => sw'[p].as = sw[p].as
            => OneTeam(p)'
<1> USE IssuedStays DEF ProxyInv, ProcessInv, At, GoodProof, GoodContext
<1>1. Refused(p)'
  BY DEF Refused, Contextual, Accepts
<1>2. wt'[p] = wt[p] => Waiting(p)'
  BY DEF Waiting
<1>3. rn'[p] = rn[p] => Renewing(p)'
  BY DEF Renewing
<1>4. w[p].life = "up" => Contextual(p)'
  BY DEF Contextual
<1>5. /\ transcript'[p] = transcript[p]
      /\ At(sw[p], "retire") = At(sw[p], "retire")'
      /\ At(sw[p], "retire") => sw'[p].as = sw[p].as
      => OneTeam(p)'
  BY DEF OneTeam, identity
<1>6. QED
  BY <1>1, <1>2, <1>3, <1>4, <1>5

(* A process with an operation under way runs.                             *)
LEMMA BusyIsUp ==
  ASSUME ProxyInv, NEW p \in Procs,
         ~At(sw[p], "idle") \/ ~At(cf[p], "idle") \/ ~At(rn[p], "idle") \/ ~At(wt[p], "idle")
  PROVE  w[p].life = "up"
BY DEF ProxyInv, ProcessInv, Contextual

(* A step that only moves the operation under `switch`, neither into nor   *)
(* out of the retirement of a context.                                     *)
LEMMA SwitchStepKeeps ==
  ASSUME ProxyInv, BusMoves, NEW p \in Procs, w[p].life = "up",
         UNCHANGED <<file, w, rn, wt, transcript>>,
         NEW s, sw' = [sw EXCEPT ![p] = s],
         DOMAIN cf' = Procs, \A q \in Procs \ {p} : cf'[q] = cf[q],
         ~At(sw[p], "retire"), ~At(s, "retire"),
         Switching(p)', HeldBy(p)' \subseteq HeldBy(p) \cup Fresh
  PROVE  ProxyInv'
<1>1. DOMAIN sw = Procs /\ sw'[p] = s
  BY DEF ProxyInv, ProxyTypes
<1>2. \A q \in Procs \ {p} : Untouched(q)
  BY DEF Untouched
<1>3. ProxyTypes'
  BY <1>1 DEF ProxyInv, ProxyTypes, BusMoves
<1>4. ProcessInv(p)'
  BY <1>1, PartsKept DEF ProcessInv, At
<1>5. QED
  BY <1>2, <1>3, <1>4, QuietStepKeeps

(* Where connect_with leads.                                               *)
LEMMA ConnectLeads ==
  ASSUME ProxyInv, NEW p \in Procs, NEW q \in Profiles, NEW reuse, connect_with(p, q, reuse)
  PROVE  \E s : /\ sw' = [sw EXCEPT ![p] = s]
                /\ s.step \in {"resume", "register"} /\ s.as = q
                /\ s.step = "resume" => GoodProof(s.proof)
<1>1. CASE reuse /\ file # Nothing /\ file.rec # Nothing
  <2>1. GoodProof(file.rec.proof)
    BY <1>1 DEF ProxyInv, RecordInv, GoodContext
  <2> DEFINE s == Op("resume", q, file.rec.proof)
  <2>2. s.step = "resume" /\ s.as = q /\ s.proof = file.rec.proof
    BY DEF Op
  <2>3. sw' = [sw EXCEPT ![p] = s]
    BY <1>1 DEF connect_with
  <2> HIDE DEF s
  <2>4. QED
    BY <2>1, <2>2, <2>3
<1>2. CASE ~(reuse /\ file # Nothing /\ file.rec # Nothing)
  <2> DEFINE s == Op("register", q, Nothing)
  <2>1. s.step = "register" /\ s.as = q
    BY DEF Op
  <2>2. sw' = [sw EXCEPT ![p] = s]
    BY <1>2 DEF connect_with
  <2> HIDE DEF s
  <2>3. QED
    BY <2>1, <2>2
<1>3. QED
  BY <1>1, <1>2

(* `cf` after connect_with has returned.                                   *)
LEMMA EndsConfigure ==
  ASSUME ProxyInv, NEW p \in Procs, NEW ok, Ends(p, ok)
  PROVE  /\ sw' = [sw EXCEPT ![p] = Idle]
         /\ DOMAIN cf' = Procs /\ \A q \in Procs \ {p} : cf'[q] = cf[q]
         /\ At(cf[p], "write")' => cf'[p] = cf[p]
BY DEF ProxyInv, ProxyTypes, Ends, At, Idle

(* An operation that ends, or moves on with a secret.                      *)
LEMMA EndKeeps ==
  ASSUME ProxyInv, BusMoves, NEW p \in Procs, NEW ok, Ends(p, ok),
         ~At(sw[p], "idle"), ~At(sw[p], "retire"), UNCHANGED <<file, w, rn, wt, transcript>>
  PROVE  ProxyInv'
<1>1. sw'[p] = Idle
  BY EndsConfigure DEF ProxyInv, ProxyTypes
<1>2. At(cf[p], "write")' => cf'[p] = cf[p]
  BY EndsConfigure
<1>3. sw'[p].step = "idle"
  BY <1>1 DEF Idle
<1>4. Switching(p)'
  BY <1>2, <1>3, IssuedStays DEF ProxyInv, ProcessInv, Switching, At, GoodContext, GoodProof
<1>5. HeldBy(p)' \subseteq HeldBy(p)
  BY <1>1 DEF HeldBy, Idle
<1>6. QED
  BY <1>4, <1>5, SwitchStepKeeps, EndsConfigure, BusyIsUp DEF Idle, At

LEMMA MoveKeeps ==
  ASSUME ProxyInv, BusMoves, NEW p \in Procs, NEW step, NEW proof, Moves(p, step, proof),
         step \in {"register", "open", "adopt"}, sw[p].step \in {"resume", "register", "rotate"},
         step = "adopt" => sw[p].step = "rotate",
         step # "register" => IssuedBy(bus', proof) /\ Credential(proof) \in Fresh,
         UNCHANGED <<file, w, rn, wt, transcript>>
  PROVE  ProxyInv'
<1> DEFINE s == Op(step, sw[p].as, proof)
<1>1. sw' = [sw EXCEPT ![p] = s] /\ cf' = cf
  BY DEF Moves
<1>2. sw'[p] = s /\ s.step = step /\ s.as = sw[p].as /\ s.proof = proof
  BY <1>1 DEF ProxyInv, ProxyTypes, Op
<1> HIDE DEF s
<1>3. Switching(p)'
  BY <1>1, <1>2, IssuedStays DEF ProxyInv, ProcessInv, Switching, At, GoodContext, GoodProof
<1>4. HeldBy(p)' \subseteq HeldBy(p) \cup Fresh
  BY <1>1, <1>2 DEF HeldBy
<1>5. DOMAIN cf' = Procs
  BY <1>1 DEF ProxyInv, ProxyTypes
<1>6. w[p].life = "up"
  BY BusyIsUp DEF At
<1>7. QED
  BY <1>1, <1>2, <1>3, <1>4, <1>5, <1>6, SwitchStepKeeps DEF At

(* A secret just issued is new, and good from now on.                      *)
LEMMA IssuedIsFresh ==
  ASSUME ProxyTypes, NEW q \in Profiles, Issue(q)
  PROVE  BusMoves /\ IssuedBy(bus', Issued(q)) /\ Credential(Issued(q)) \in Fresh
<1>1. Issued(q).profile = q /\ Issued(q).epoch = bus[q].epoch + 1 /\ bus[q].epoch \in Nat
  BY IssueMoves DEF ProxyTypes, BusStates
<1>2. Credential(Issued(q)) \in Fresh
  BY <1>1 DEF Credential, Fresh
<1>3. QED
  BY <1>2, IssueMoves

LEMMA ResumeWithKeeps == ASSUME ProxyInv, NEW p \in Procs, resume_with(p) PROVE ProxyInv'
<1> USE DEF resume_with, At
<1>1. sw[p].proof.profile \in Profiles /\ ProxyTypes
  BY DEF ProxyInv, ProcessInv, Switching, GoodProof, IssuedBy, ProofRecords
<1>2. CASE ~Accepts(sw[p].proof)
  BY <1>1, <1>2, BusUnchanged, MoveKeeps
<1>3. CASE Accepts(sw[p].proof)
  <2>1. Issue(sw[p].proof.profile)
    BY <1>3
  <2>2. CASE Moves(p, "open", Issued(sw[p].proof.profile))
    BY <1>1, <2>1, <2>2, IssuedIsFresh, MoveKeeps
  <2>3. CASE Ends(p, FALSE)
    BY <1>1, <2>1, <2>3, IssuedIsFresh, EndKeeps
  <2>4. QED
    BY <1>3, <2>2, <2>3
<1>4. QED
  BY <1>2, <1>3

LEMMA RegisterNewKeeps == ASSUME ProxyInv, NEW p \in Procs, register_new(p) PROVE ProxyInv'
<1> USE DEF register_new, At
<1>1. sw[p].as \in Profiles /\ ProxyTypes
  BY DEF ProxyInv, ProcessInv, Switching
<1>2. CASE bus[sw[p].as].live
  BY <1>1, <1>2, BusUnchanged, EndKeeps
<1>3. CASE ~bus[sw[p].as].live
  <2>1. Issue(sw[p].as)
    BY <1>3
  <2>2. CASE Moves(p, "open", Issued(sw[p].as))
    BY <1>1, <2>1, <2>2, IssuedIsFresh, MoveKeeps
  <2>3. CASE Ends(p, FALSE)
    BY <1>1, <2>1, <2>3, IssuedIsFresh, EndKeeps
  <2>4. QED
    BY <1>3, <2>2, <2>3
<1>4. QED
  BY <1>2, <1>3

LEMMA RotateKeeps == ASSUME ProxyInv, NEW p \in Procs, rotate(p) PROVE ProxyInv'
<1> USE DEF rotate, At
<1>1. sw[p].proof.profile \in Profiles /\ ProxyTypes
  BY DEF ProxyInv, ProcessInv, Switching, GoodProof, IssuedBy, ProofRecords
<1>2. CASE ~Accepts(sw[p].proof)
  BY <1>1, <1>2, BusUnchanged, EndKeeps
<1>3. CASE Accepts(sw[p].proof)
  <2>1. Issue(sw[p].proof.profile)
    BY <1>3
  <2>2. CASE Moves(p, "adopt", Issued(sw[p].proof.profile))
    BY <1>1, <2>1, <2>2, IssuedIsFresh, MoveKeeps
  <2>3. CASE Ends(p, FALSE)
    BY <1>1, <2>1, <2>3, IssuedIsFresh, EndKeeps
  <2>4. QED
    BY <1>3, <2>2, <2>3
<1>4. QED
  BY <1>2, <1>3

LEMMA UnreachedKeeps == ASSUME ProxyInv, NEW p \in Procs, Unreached(p) PROVE ProxyInv'
BY BusUnchanged, EndKeeps DEF Unreached, ProxyInv, At

(* An operation that begins from an idle `switch`.                         *)
LEMMA BeginKeeps ==
  ASSUME ProxyInv, NEW p \in Procs, w[p].life = "up", At(sw[p], "idle"), UNCHANGED <<bus, file, w, rn, wt, transcript>>,
         DOMAIN cf' = Procs, \A q \in Procs \ {p} : cf'[q] = cf[q],
         At(cf[p], "write")' => cf'[p] = cf[p],
         NEW s, sw' = [sw EXCEPT ![p] = s], s.step \in {"resume", "register", "rotate"},
         s.as \in Profiles, s.step \in {"resume", "rotate"} => GoodProof(s.proof),
         s.step = "rotate" => w[p].conn # Nothing
  PROVE  ProxyInv'
<1>1. sw'[p] = s /\ BusMoves
  BY BusUnchanged DEF ProxyInv, ProxyTypes
<1>2. Switching(p)'
  BY <1>1 DEF ProxyInv, ProcessInv, Switching, At, GoodContext, GoodProof
<1>3. HeldBy(p)' \subseteq HeldBy(p)
  BY <1>1 DEF HeldBy
<1>4. QED
  BY <1>1, <1>2, <1>3, SwitchStepKeeps DEF At

LEMMA AdoptProjectDirKeeps ==
  ASSUME ProxyInv, NEW p \in Procs, adopt_project_dir(p) PROVE ProxyInv'
<1>1. Rooted \in Profiles
  BY ProxyAssumption
<1>2. PICK s : /\ sw' = [sw EXCEPT ![p] = s]
               /\ s.step \in {"resume", "register"} /\ s.as = Rooted
               /\ s.step = "resume" => GoodProof(s.proof)
  BY <1>1, ConnectLeads DEF adopt_project_dir
<1>3. QED
  BY <1>1, <1>2, BeginKeeps DEF adopt_project_dir, ProxyInv, ProxyTypes

LEMMA ResumeInPlaceKeeps ==
  ASSUME ProxyInv, NEW p \in Procs, resume_in_place(p) PROVE ProxyInv'
<1> DEFINE s == Op("rotate", w[p].conn.as, w[p].conn.proof)
<1>1. s.step = "rotate" /\ s.as = w[p].conn.as /\ s.proof = w[p].conn.proof
  BY DEF Op
<1>2. s.as \in Profiles /\ GoodProof(s.proof) /\ w[p].conn # Nothing
  BY <1>1 DEF resume_in_place, ProxyInv, ProcessInv, Contextual, GoodContext, ContextRecords
<1>3. sw' = [sw EXCEPT ![p] = s]
  BY DEF resume_in_place
<1> HIDE DEF s
<1>4. QED
  BY <1>1, <1>2, <1>3, BeginKeeps DEF resume_in_place, ProxyInv, ProxyTypes

LEMMA ConfigureProfileKeeps ==
  ASSUME ProxyInv, NEW p \in Procs, NEW q \in Profiles, configure_profile(p, q) PROVE ProxyInv'
<1>1. PICK s : /\ sw' = [sw EXCEPT ![p] = s]
               /\ s.step \in {"resume", "register"} /\ s.as = q
               /\ s.step = "resume" => GoodProof(s.proof)
  BY ConnectLeads DEF configure_profile
<1>2. /\ DOMAIN cf' = Procs /\ cf'[p].step = "switching"
      /\ \A r \in Procs \ {p} : cf'[r] = cf[r]
  BY DEF configure_profile, ProxyInv, ProxyTypes
<1>3. QED
  BY <1>1, <1>2, BeginKeeps DEF configure_profile, At

LEMMA StartKeeps == ASSUME ProxyInv, NEW p \in Procs, start(p) PROVE ProxyInv'
<1>1. Default \in Profiles
  BY ProxyAssumption
<1>2. PICK s : /\ sw' = [sw EXCEPT ![p] = s]
               /\ s.step \in {"resume", "register"} /\ s.as = Default
               /\ s.step = "resume" => GoodProof(s.proof)
  BY <1>1, ConnectLeads DEF start
<1>3. /\ sw'[p] = s
      /\ w' = [w EXCEPT ![p] = [life |-> "up", conn |-> Nothing, stranded |-> Nothing,
                                gen |-> 0, told |-> FALSE]]
  BY <1>2 DEF start, Bare, ProxyInv, ProxyTypes
<1>4. w'[p] = [life |-> "up", conn |-> Nothing, stranded |-> Nothing, gen |-> 0, told |-> FALSE]
  BY <1>3 DEF ProxyInv, ProxyTypes
<1>5. BusMoves /\ \A q \in Procs \ {p} : Untouched(q)
  BY <1>2, <1>3, BusUnchanged DEF start, Untouched, ProxyInv
<1>6. /\ w[p].conn = Nothing /\ w[p].stranded = Nothing /\ transcript[p] = {}
      /\ At(cf[p], "idle") /\ At(rn[p], "idle") /\ At(wt[p], "idle")
  BY DEF start, ProxyInv, ProcessInv, Contextual
<1>7. ProxyTypes'
  <2>1. w' \in [Procs -> [life : {"new", "up", "gone"}, conn : ContextRecords \cup {Nothing},
                          stranded : ContextRecords \cup {Nothing}, gen : Nat, told : BOOLEAN]]
    BY <1>3 DEF ProxyInv, ProxyTypes
  <2>2. QED
    BY <1>2, <2>1 DEF start, ProxyInv, ProxyTypes
<1>8. ProcessInv(p)'
  <2>1. Switching(p)'
    BY <1>1, <1>2, <1>3, <1>6 DEF start, Switching, At, GoodProof
  <2>2. Contextual(p)' /\ Refused(p)'
    BY <1>4 DEF Contextual, Refused
  <2>3. Renewing(p)' /\ Waiting(p)'
    BY <1>6 DEF start, Renewing, Waiting, At
  <2>4. OneTeam(p)'
    BY <1>4, <1>6 DEF start, OneTeam
  <2>5. QED
    BY <2>1, <2>2, <2>3, <2>4 DEF ProcessInv
<1>9. HeldBy(p)' \subseteq HeldBy(p)
  BY <1>2, <1>3, <1>4 DEF HeldBy
<1>10. QED
  BY <1>5, <1>7, <1>8, <1>9, QuietStepKeeps DEF start

LEMMA TakeOverKeeps == ASSUME ProxyInv, NEW p \in Procs, take_over(p) PROVE ProxyInv'
<1> USE DEF take_over
<1>1. BusMoves /\ w[p].life = "up"
  BY BusUnchanged, BusyIsUp DEF ProxyInv, At
<1>2. CASE Ends(p, FALSE) /\ UNCHANGED w
  BY <1>1, <1>2, EndKeeps DEF At
<1>3. CASE /\ Accepts(sw[p].proof) /\ TeamAllowed(p, sw[p].as)
           /\ sw' = [sw EXCEPT ![p] = [step |-> "retire", as |-> @.as,
                                       proof |-> @.proof, old |-> w[p].conn]]
           /\ w' = [w EXCEPT ![p].conn = Nothing]
           /\ UNCHANGED cf
  <2>1. /\ sw'[p].step = "retire" /\ sw'[p].as = sw[p].as /\ sw'[p].proof = sw[p].proof
        /\ sw'[p].old = w[p].conn /\ DOMAIN sw' = Procs
    BY <1>3 DEF ProxyInv, ProxyTypes
  <2>2. /\ w'[p].conn = Nothing /\ w'[p].life = "up" /\ w'[p].stranded = w[p].stranded
        /\ w'[p].gen = w[p].gen /\ w'[p].told = w[p].told
    BY <1>1, <1>3 DEF ProxyInv, ProxyTypes
  <2>3. \A q \in Procs \ {p} : Untouched(q)
    BY <1>3 DEF Untouched
  <2>4. ProxyTypes'
    BY <1>3, <2>1 DEF ProxyInv, ProxyTypes
  <2>5. Switching(p)'
    BY <1>3, <2>1, <2>2 DEF ProxyInv, ProcessInv, Switching, Contextual, At, GoodProof, GoodContext
  <2>6. Contextual(p)'
    BY <2>2 DEF ProxyInv, ProcessInv, Contextual, GoodContext, GoodProof
  <2>7. Renewing(p)' /\ Waiting(p)' /\ Refused(p)'
    BY <2>2 DEF ProxyInv, ProcessInv, Renewing, Waiting, Refused, At, GoodProof
  <2>8. OneTeam(p)'
    <3>1. \A t \in transcript[p] : t = TeamOf[sw[p].as]
      BY <1>3 DEF ProxyInv, ProcessInv, OneTeam, TeamAllowed, At
    <3>2. identity(p)' # Nothing => identity(p) # Nothing /\ identity(p)' = identity(p)
      BY <2>2 DEF ProxyInv, ProcessInv, Contextual, identity
    <3>3. QED
      BY <2>1, <3>1, <3>2 DEF ProxyInv, ProcessInv, OneTeam, At
  <2>9. HeldBy(p)' \subseteq HeldBy(p)
    BY <2>1, <2>2 DEF HeldBy, At
  <2>10. QED
    BY <1>1, <2>3, <2>4, <2>5, <2>6, <2>7, <2>8, <2>9, QuietStepKeeps DEF ProcessInv
<1>4. QED
  BY <1>2, <1>3

LEMMA SwapKeeps == ASSUME ProxyInv, NEW p \in Procs, swap(p) PROVE ProxyInv'
<1> USE DEF swap
<1>0. PICK now : now = [as |-> sw[p].as, proof |-> sw[p].proof]
  OBVIOUS
<1>1. now \in ContextRecords /\ now.as = sw[p].as /\ now.proof = sw[p].proof
  BY <1>0 DEF ProxyInv, ProcessInv, Switching, At, GoodProof, IssuedBy, ContextRecords
<1>2. GoodProof(sw[p].proof) /\ now # Nothing /\ w[p].gen \in Nat /\ w[p].life = "up"
  BY <1>1, NothingIsNoContext, BusyIsUp DEF ProxyInv, ProxyTypes, ProcessInv, Switching, At
<1>3. BusMoves
  <2>1. CASE UNCHANGED bus
    BY <2>1, BusUnchanged DEF ProxyInv
  <2>2. CASE /\ sw[p].old # Nothing
             /\ bus' = [bus EXCEPT ![sw[p].old.proof.profile].live = FALSE]
    BY <2>2, EndMoves DEF ProxyInv, ProcessInv, Switching, At, ContextRecords, ProofRecords
  <2>3. QED
    BY <2>1, <2>2
<1>4. w' = [w EXCEPT ![p] = [life |-> "up", conn |-> now, stranded |-> Nothing,
                             gen |-> w[p].gen + 1, told |-> FALSE]]
  BY <1>0 DEF Becomes
<1>5. /\ sw' = [sw EXCEPT ![p] = [step |-> "write", rec |-> now]] /\ cf' = cf
      /\ sw'[p].step = "write" /\ sw'[p].rec = now /\ DOMAIN sw' = Procs
  BY <1>0 DEF Records, ProxyInv, ProxyTypes
<1>6. /\ w'[p].life = "up" /\ w'[p].conn = now /\ w'[p].stranded = Nothing
      /\ w'[p].gen = w[p].gen + 1 /\ w'[p].told = FALSE
  BY <1>4 DEF ProxyInv, ProxyTypes
<1>7. \A q \in Procs \ {p} : Untouched(q)
  BY <1>4, <1>5 DEF Untouched
<1>8. ProxyTypes'
  BY <1>1, <1>2, <1>3, <1>4, <1>5 DEF ProxyInv, ProxyTypes, BusMoves
<1>9. GoodContext(now)'
  BY <1>1, <1>2, <1>3, IssuedStays DEF GoodContext, GoodProof, ProxyInv
<1>10. Contextual(p)' /\ Refused(p)'
  BY <1>6, <1>9 DEF Contextual, Refused, GoodContext, GoodProof
<1>11. Switching(p)'
  BY <1>3, <1>5, <1>9, IssuedStays
     DEF ProxyInv, ProcessInv, Switching, At, GoodContext, GoodProof
<1>12. Renewing(p)'
  <2>1. w[p].gen \in Nat /\ (rn[p].gen \in Nat /\ rn[p].gen <= w[p].gen
             => rn[p].gen # w[p].gen + 1 /\ rn[p].gen <= w[p].gen + 1)
    BY <1>2
  <2>2. QED
    BY <1>3, <1>6, <2>1, IssuedStays DEF ProxyInv, ProcessInv, Renewing, At, GoodProof
<1>13. Waiting(p)'
  <2>1. wt[p].gen \in Nat /\ wt[p].gen <= w[p].gen
             => wt[p].gen # w[p].gen + 1 /\ wt[p].gen <= w[p].gen + 1
    BY <1>2
  <2>2. QED
    BY <1>6, <2>1 DEF ProxyInv, ProcessInv, Waiting, At
<1>14. OneTeam(p)'
  <2>1. transcript'[p] = transcript[p] \cup {TeamOf[sw[p].as]}
    BY DEF ProxyInv, ProxyTypes
  <2>2. \A t \in transcript'[p] : t = TeamOf[sw[p].as]
    BY <2>1 DEF ProxyInv, ProcessInv, OneTeam, At
  <2>3. identity(p)' = now
    BY <1>2, <1>6 DEF identity
  <2>4. QED
    BY <1>1, <1>2, <1>5, <2>2, <2>3 DEF OneTeam, At
<1>15. HeldBy(p)' \subseteq HeldBy(p)
  BY <1>1, <1>5, <1>6 DEF HeldBy, At
<1>16. QED
  BY <1>3, <1>7, <1>8, <1>10, <1>11, <1>12, <1>13, <1>14, <1>15, QuietStepKeeps DEF ProcessInv

LEMMA AdoptResumedKeeps == ASSUME ProxyInv, NEW p \in Procs, adopt_resumed(p) PROVE ProxyInv'
<1> USE DEF adopt_resumed
<1>0. PICK now : now = [as |-> w[p].conn.as, proof |-> sw[p].proof]
  OBVIOUS
<1>1. w[p].conn # Nothing /\ w[p].stranded = Nothing /\ w[p].conn \in ContextRecords
  BY DEF ProxyInv, ProcessInv, Switching, Contextual, GoodContext, At
<1>2. now \in ContextRecords /\ now.as = w[p].conn.as /\ now.proof = sw[p].proof
  BY <1>0, <1>1 DEF ProxyInv, ProcessInv, Switching, At, GoodProof, IssuedBy, ContextRecords
<1>3. GoodProof(sw[p].proof) /\ now # Nothing /\ w[p].gen \in Nat /\ w[p].life = "up"
  BY <1>2, NothingIsNoContext, BusyIsUp DEF ProxyInv, ProxyTypes, ProcessInv, Switching, At
<1>4. BusMoves
  BY BusUnchanged DEF ProxyInv
<1>5. /\ sw' = [sw EXCEPT ![p] = [step |-> "write", rec |-> now]] /\ cf' = cf
      /\ sw'[p].step = "write" /\ sw'[p].rec = now /\ DOMAIN sw' = Procs
  BY <1>0 DEF Records, ProxyInv, ProxyTypes
<1>6. PICK c, d : /\ w' = [w EXCEPT ![p] = [life |-> "up", conn |-> c, stranded |-> d,
                                            gen |-> w[p].gen + 1, told |-> FALSE]]
                  /\ \/ c = now /\ d = Nothing
                     \/ c = Nothing /\ d = now
  BY <1>0, <1>1 DEF Becomes
<1>7. /\ w'[p].life = "up" /\ w'[p].conn = c /\ w'[p].stranded = d
      /\ w'[p].gen = w[p].gen + 1 /\ w'[p].told = FALSE
  BY <1>6 DEF ProxyInv, ProxyTypes
<1>8. \A q \in Procs \ {p} : Untouched(q)
  BY <1>5, <1>6 DEF Untouched
<1>9. ProxyTypes'
  BY <1>2, <1>3, <1>4, <1>5, <1>6 DEF ProxyInv, ProxyTypes, BusMoves
<1>10. GoodContext(now)'
  BY <1>2, <1>3, <1>4, IssuedStays DEF GoodContext, GoodProof, ProxyInv
<1>11. Contextual(p)' /\ Refused(p)'
  BY <1>6, <1>7, <1>10 DEF Contextual, Refused, GoodContext, GoodProof
<1>12. Switching(p)'
  BY <1>4, <1>5, <1>10, IssuedStays
     DEF ProxyInv, ProcessInv, Switching, At, GoodContext, GoodProof
<1>13. Renewing(p)'
  <2>1. rn[p].gen \in Nat /\ rn[p].gen <= w[p].gen
             => rn[p].gen # w[p].gen + 1 /\ rn[p].gen <= w[p].gen + 1
    BY <1>3
  <2>2. QED
    BY <1>4, <1>7, <2>1, IssuedStays DEF ProxyInv, ProcessInv, Renewing, At, GoodProof
<1>14. Waiting(p)'
  <2>1. wt[p].gen \in Nat /\ wt[p].gen <= w[p].gen
             => wt[p].gen # w[p].gen + 1 /\ wt[p].gen <= w[p].gen + 1
    BY <1>3
  <2>2. QED
    BY <1>7, <2>1 DEF ProxyInv, ProcessInv, Waiting, At
<1>15. OneTeam(p)'
  <2>1. identity(p)' = now /\ identity(p) = w[p].conn
    BY <1>1, <1>3, <1>6, <1>7 DEF identity
  <2>2. QED
    BY <1>1, <1>2, <1>3, <1>5, <2>1 DEF ProxyInv, ProcessInv, OneTeam, At
<1>16. HeldBy(p)' \subseteq HeldBy(p)
  BY <1>2, <1>5, <1>6, <1>7 DEF HeldBy, At
<1>17. QED
  BY <1>4, <1>8, <1>9, <1>11, <1>12, <1>13, <1>14, <1>15, <1>16, QuietStepKeeps DEF ProcessInv

LEMMA WriteRecordKeeps == ASSUME ProxyInv, NEW p \in Procs, write_record(p) PROVE ProxyInv'
<1> USE DEF write_record
<1>1. w[p].life = "up" /\ BusMoves
  BY BusyIsUp, BusUnchanged DEF ProxyInv, At
<1>2. /\ sw' = [sw EXCEPT ![p] = Idle] /\ sw'[p].step = "idle" /\ DOMAIN sw' = Procs
      /\ DOMAIN cf' = Procs /\ \A q \in Procs \ {p} : cf'[q] = cf[q]
      /\ At(cf[p], "write")' => cf'[p] = cf[p]
  <2>1. /\ sw' = [sw EXCEPT ![p] = Idle]
        /\ DOMAIN cf' = Procs /\ \A q \in Procs \ {p} : cf'[q] = cf[q]
        /\ At(cf[p], "write")' => cf'[p] = cf[p]
    BY EndsConfigure
  <2>2. QED
    BY <2>1 DEF ProxyInv, ProxyTypes, Idle
<1>3. PICK c : c = sw[p].rec
  OBVIOUS
<1>4. GoodContext(c) /\ c \in ContextRecords /\ file' = [rec |-> c, closed |-> FALSE]
  BY <1>3 DEF ProxyInv, ProcessInv, Switching, At, GoodContext
<1>5. \A q \in Procs \ {p} : Untouched(q)
  BY <1>2 DEF Untouched
<1>6. ProxyTypes'
  BY <1>1, <1>2, <1>4 DEF ProxyInv, ProxyTypes
<1>7. Switching(p)'
  BY <1>2 DEF ProxyInv, ProcessInv, Switching, At, GoodContext, GoodProof
<1>8. ProcessInv(p)'
  BY <1>1, <1>2, <1>7, PartsKept DEF ProcessInv, At
<1>9. HeldBy(p)' \subseteq HeldBy(p)
  BY <1>2 DEF HeldBy
<1>10. QED
  BY <1>4, <1>5, <1>6, <1>8, <1>9, WrittenStepKeeps

(* A step of a call or of a renewal, beside `switch`.                      *)
LEMMA BesideStepKeeps ==
  ASSUME ProxyInv, NEW p \in Procs, w[p].life = "up", UNCHANGED <<bus, file, w, sw, transcript>>,
         DOMAIN cf' = Procs, DOMAIN rn' = Procs, DOMAIN wt' = Procs,
         \A q \in Procs \ {p} : cf'[q] = cf[q] /\ rn'[q] = rn[q] /\ wt'[q] = wt[q],
         Switching(p)', Renewing(p)', Waiting(p)'
  PROVE  ProxyInv'
<1>1. BusMoves
  BY BusUnchanged DEF ProxyInv
<1>2. \A q \in Procs \ {p} : Untouched(q)
  BY DEF Untouched
<1>3. ProxyTypes'
  BY DEF ProxyInv, ProxyTypes
<1>4. ProcessInv(p)'
  BY <1>1, PartsKept DEF ProcessInv, At
<1>5. HeldBy(p)' = HeldBy(p)
  BY DEF HeldBy
<1>6. QED
  BY <1>1, <1>2, <1>3, <1>4, <1>5, QuietStepKeeps

(* What stays of a process when its context and its operation do.          *)
LEMMA BesideKept ==
  ASSUME ProxyInv, NEW p \in Procs, UNCHANGED <<bus, w, sw>>
  PROVE  /\ cf'[p] = cf[p] \/ ~At(cf[p], "write")' => Switching(p)'
         /\ rn'[p] = rn[p] => Renewing(p)'
         /\ wt'[p] = wt[p] => Waiting(p)'
<1>1. BusMoves
  BY BusUnchanged DEF ProxyInv
<1>2. cf'[p] = cf[p] \/ ~At(cf[p], "write")' => Switching(p)'
  BY DEF ProxyInv, ProcessInv, Switching, At, GoodContext, GoodProof
<1>3. QED
  BY <1>1, <1>2, PartsKept

LEMMA ConfigureKeeps ==
  ASSUME ProxyInv, NEW p \in Procs, configure(p) \/ configure_record(p) PROVE ProxyInv'
<1>1. PICK v : /\ cf' = [cf EXCEPT ![p] = v]
               /\ UNCHANGED <<bus, file, w, sw, rn, wt, transcript>>
               /\ v.step # "write" \/ v.rec = identity(p)
  <2>1. CASE configure(p)
    <3>1. [step |-> "record"].step # "write"
      OBVIOUS
    <3>2. QED
      BY <2>1, <3>1 DEF configure
  <2>2. CASE configure_record(p)
    <3> DEFINE v == [step |-> "write", rec |-> identity(p)]
    <3>1. v.rec = identity(p)
      OBVIOUS
    <3>2. cf' = [cf EXCEPT ![p] = v] /\ UNCHANGED <<bus, file, w, sw, rn, wt, transcript>>
      BY <2>2 DEF configure_record
    <3> HIDE DEF v
    <3>3. QED
      BY <3>1, <3>2
  <2>3. QED
    BY <2>1, <2>2
<1>2. w[p].life = "up"
  BY BusyIsUp DEF configure, configure_record, At
<1>3. DOMAIN cf' = Procs /\ cf'[p] = v /\ \A q \in Procs \ {p} : cf'[q] = cf[q]
  BY <1>1 DEF ProxyInv, ProxyTypes
<1>4. identity(p) = Nothing \/ GoodContext(identity(p))
  BY DEF ProxyInv, ProcessInv, Contextual, identity
<1>5. Switching(p)'
  BY <1>1, <1>3, <1>4 DEF ProxyInv, ProcessInv, Switching, At, GoodContext, GoodProof
<1>6. QED
  BY <1>1, <1>2, <1>3, <1>5, BesideStepKeeps, BesideKept DEF ProxyInv, ProxyTypes

LEMMA ConfigureWriteKeeps ==
  ASSUME ProxyInv, NEW p \in Procs, configure_write(p) PROVE ProxyInv'
<1> USE DEF configure_write
<1>1. w[p].life = "up" /\ BusMoves
  BY BusyIsUp, BusUnchanged DEF ProxyInv, At
<1>2. /\ DOMAIN cf' = Procs /\ \A q \in Procs \ {p} : cf'[q] = cf[q]
      /\ ~At(cf[p], "write")'
  BY DEF ProxyInv, ProxyTypes, Idle, At
<1>3. PICK c : c = cf[p].rec
  OBVIOUS
<1>4. /\ c = Nothing \/ GoodContext(c)
      /\ c \in ContextRecords \cup {Nothing} /\ file' = [rec |-> c, closed |-> FALSE]
  BY <1>3 DEF ProxyInv, ProcessInv, Switching, At, GoodContext
<1>5. \A q \in Procs \ {p} : Untouched(q)
  BY <1>2 DEF Untouched
<1>6. ProxyTypes'
  BY <1>1, <1>2, <1>4 DEF ProxyInv, ProxyTypes
<1>7. ProcessInv(p)'
  BY <1>1, <1>2, PartsKept, BesideKept DEF ProcessInv, At
<1>8. HeldBy(p)' = HeldBy(p)
  BY DEF HeldBy
<1>9. QED
  BY <1>4, <1>5, <1>6, <1>7, <1>8, WrittenStepKeeps

(* A refusal for the context a call ran in, when the bus rejects it.       *)
LEMMA RefusalKeeps ==
  ASSUME ProxyInv, NEW p \in Procs, NEW gen, mark_unauthorized(p, gen), w[p].life = "up",
         w[p].gen = gen /\ w[p].conn # Nothing => ~Accepts(w[p].conn.proof),
         UNCHANGED <<bus, file, sw, cf, transcript>>,
         DOMAIN rn' = Procs, DOMAIN wt' = Procs,
         \A q \in Procs \ {p} : rn'[q] = rn[q] /\ wt'[q] = wt[q],
         rn'[p] = rn[p] \/ At(rn[p], "idle")', wt'[p] = wt[p] \/ At(wt[p], "idle")'
  PROVE  ProxyInv'
<1>1. BusMoves
  BY BusUnchanged DEF ProxyInv
<1>2. /\ w'[p].life = "up" /\ w'[p].conn = w[p].conn /\ w'[p].stranded = w[p].stranded
      /\ w'[p].gen = w[p].gen
      /\ w'[p].told => w[p].told \/ w[p].gen = gen
      /\ \A q \in Procs \ {p} : w'[q] = w[q]
  BY DEF mark_unauthorized, ProxyInv, ProxyTypes
<1>3. w' \in [Procs -> [life : {"new", "up", "gone"}, conn : ContextRecords \cup {Nothing},
                        stranded : ContextRecords \cup {Nothing}, gen : Nat, told : BOOLEAN]]
  <2>1. PICK b \in BOOLEAN : b = (w[p].told \/ w[p].gen = gen)
    OBVIOUS
  <2>2. w' = [w EXCEPT ![p].told = b]
    BY <2>1 DEF mark_unauthorized
  <2>3. QED
    BY <2>2 DEF ProxyInv, ProxyTypes
<1>4. ProxyTypes'
  BY <1>3 DEF ProxyInv, ProxyTypes
<1>5. \A q \in Procs \ {p} : Untouched(q)
  BY <1>2 DEF Untouched
<1>6. Contextual(p)' /\ Switching(p)'
  BY <1>2 DEF ProxyInv, ProcessInv, Contextual, Switching, At, GoodContext, GoodProof
<1>7. Renewing(p)' /\ Waiting(p)'
  BY <1>2 DEF ProxyInv, ProcessInv, Renewing, Waiting, At, GoodProof
<1>8. Refused(p)'
  BY <1>2 DEF ProxyInv, ProcessInv, Refused, Accepts
<1>9. OneTeam(p)'
  BY <1>2 DEF ProxyInv, ProcessInv, OneTeam, identity, At
<1>10. HeldBy(p)' = HeldBy(p)
  BY <1>2 DEF HeldBy
<1>11. QED
  BY <1>1, <1>4, <1>5, <1>6, <1>7, <1>8, <1>9, <1>10, QuietStepKeeps DEF ProcessInv

LEMMA RenewCredentialKeeps ==
  ASSUME ProxyInv, NEW p \in Procs, renew_credential(p) PROVE ProxyInv'
<1> USE DEF renew_credential
<1>1. w[p].conn \in ContextRecords /\ GoodProof(w[p].conn.proof) /\ w[p].gen \in Nat
  BY DEF ProxyInv, ProxyTypes, ProcessInv, Contextual, GoodContext
<1>2. PICK v : v = [step |-> "ask", proof |-> w[p].conn.proof, gen |-> w[p].gen]
  OBVIOUS
<1>3. v \in [step : {"ask", "apply", "stamp"}, proof : ProofRecords, gen : Nat]
  BY <1>1, <1>2 DEF ContextRecords
<1>4. v.proof = w[p].conn.proof /\ v.gen = w[p].gen
  BY <1>2
<1>5. rn' = [rn EXCEPT ![p] = v] /\ rn'[p] = v /\ DOMAIN rn' = Procs
  BY <1>2 DEF ProxyInv, ProxyTypes
<1>6. Renewing(p)'
  BY <1>1, <1>3, <1>4, <1>5 DEF Renewing, GoodProof, SameCredential
<1>7. QED
  BY <1>5, <1>6, BesideStepKeeps, BesideKept DEF ProxyInv, ProxyTypes

(* The renewal stands at another step, or is over.                         *)
LEMMA RenewalKeeps ==
  ASSUME ProxyInv, NEW p \in Procs, ~At(rn[p], "idle"),
         UNCHANGED <<bus, file, w, sw, cf, wt, transcript>>,
         \/ rn' = [rn EXCEPT ![p] = Idle]
         \/ \E k \in {"ask", "apply", "stamp"} : rn' = [rn EXCEPT ![p].step = k]
  PROVE  ProxyInv'
<1>1. w[p].life = "up" /\ DOMAIN rn' = Procs /\ \A q \in Procs \ {p} : rn'[q] = rn[q]
  BY BusyIsUp DEF ProxyInv, ProxyTypes
<1>2. Renewing(p)'
  <2>1. CASE rn' = [rn EXCEPT ![p] = Idle]
    BY <2>1 DEF Renewing, At, Idle, ProxyInv, ProxyTypes
  <2>2. CASE \E k \in {"ask", "apply", "stamp"} : rn' = [rn EXCEPT ![p].step = k]
    <3>1. PICK k \in {"ask", "apply", "stamp"} : rn' = [rn EXCEPT ![p].step = k]
      BY <2>2
    <3>2. rn[p] \in [step : {"ask", "apply", "stamp"}, proof : ProofRecords, gen : Nat]
      BY DEF ProxyInv, ProcessInv, Renewing
    <3>3. rn'[p] = [rn[p] EXCEPT !.step = k]
      BY <3>1 DEF ProxyInv, ProxyTypes
    <3>4. /\ rn'[p] \in [step : {"ask", "apply", "stamp"}, proof : ProofRecords, gen : Nat]
          /\ rn'[p].proof = rn[p].proof /\ rn'[p].gen = rn[p].gen
      BY <3>2, <3>3
    <3>5. QED
      BY <3>4 DEF ProxyInv, ProcessInv, Renewing, GoodProof, SameCredential
  <2>3. QED
    BY <2>1, <2>2
<1>3. QED
  BY <1>1, <1>2, BesideStepKeeps, BesideKept DEF ProxyInv, ProxyTypes

LEMMA RenewAnsweredKeeps ==
  ASSUME ProxyInv, NEW p \in Procs, renew_answered(p) PROVE ProxyInv'
<1> USE DEF renew_answered
<1>1. ~At(rn[p], "idle") /\ w[p].life = "up"
  BY BusyIsUp DEF At
<1>2. CASE /\ ~Accepts(rn[p].proof)
           /\ mark_unauthorized(p, rn[p].gen)
           /\ rn' = [rn EXCEPT ![p] = Idle]
  <2>1. w[p].gen = rn[p].gen /\ w[p].conn # Nothing => ~Accepts(w[p].conn.proof)
    BY <1>1, <1>2 DEF ProxyInv, ProcessInv, Renewing, SameCredential, Accepts
  <2>2. DOMAIN rn' = Procs /\ DOMAIN wt' = Procs /\ At(rn[p], "idle")'
    BY <1>2 DEF ProxyInv, ProxyTypes, At, Idle
  <2>3. QED
    BY <1>1, <1>2, <2>1, <2>2, RefusalKeeps
<1>3. CASE UNCHANGED w /\ (\/ rn' = [rn EXCEPT ![p] = Idle]
                          \/ rn' = [rn EXCEPT ![p].step = "apply"])
  BY <1>1, <1>3, RenewalKeeps
<1>4. QED
  BY <1>2, <1>3

(* The expiry the bus stated is the one the credential has already.        *)
LEMMA RenewApplyKeeps ==
  ASSUME ProxyInv, NEW p \in Procs, renew_apply(p) PROVE ProxyInv'
<1> USE DEF renew_apply
<1>1. ~At(rn[p], "idle") /\ w[p].life = "up"
  BY BusyIsUp DEF At
<1>2. CASE StillMine(p)
  <2>1. /\ w[p].conn \in ContextRecords /\ w[p].conn.proof.exp = Expiry(w[p].conn.proof)
        /\ w[p].conn.proof \in ProofRecords
        /\ Expiry(rn[p].proof) = Expiry(w[p].conn.proof)
    BY <1>2 DEF StillMine, SameCredential, Expiry, ProxyInv, ProcessInv, Contextual, GoodContext,
                GoodProof, IssuedBy
  <2>2. [w[p].conn EXCEPT !.proof.exp = Expiry(rn[p].proof)] = w[p].conn
    BY <2>1 DEF ContextRecords, ProofRecords
  <2>3. w[p] \in [life : {"new", "up", "gone"}, conn : ContextRecords \cup {Nothing},
                  stranded : ContextRecords \cup {Nothing}, gen : Nat, told : BOOLEAN]
    BY DEF ProxyInv, ProxyTypes
  <2>4. w' = [w EXCEPT ![p] = [w[p] EXCEPT !.conn =
                                 [w[p].conn EXCEPT !.proof.exp = Expiry(rn[p].proof)]]]
    BY <1>2
  <2>5. w' = w
    BY <2>2, <2>3, <2>4 DEF ProxyInv, ProxyTypes
  <2>6. QED
    BY <1>1, <1>2, <2>5, RenewalKeeps
<1>3. CASE ~StillMine(p)
  BY <1>1, <1>3, RenewalKeeps
<1>4. QED
  BY <1>2, <1>3

LEMMA StampKeeps ==
  ASSUME ProxyInv, NEW p \in Procs, stamp_binding_expiry(p) PROVE ProxyInv'
<1> USE DEF stamp_binding_expiry
<1>1. file' = file
  <2>1. CASE Describes(rn[p].proof)
    <3>1. file # Nothing /\ file.rec # Nothing /\ GoodContext(file.rec)
      BY <2>1 DEF Describes, ProxyInv, RecordInv
    <3>2. /\ file.rec \in ContextRecords /\ file.rec.proof.exp = Expiry(file.rec.proof)
          /\ file.rec.proof \in ProofRecords
          /\ Expiry(rn[p].proof) = Expiry(file.rec.proof)
          /\ file \in [rec : ContextRecords \cup {Nothing}, closed : BOOLEAN]
      BY <2>1, <3>1 DEF Describes, SameCredential, Expiry, GoodContext, GoodProof, IssuedBy,
                        ProxyInv, ProxyTypes
    <3>3. [file.rec EXCEPT !.proof.exp = Expiry(rn[p].proof)] = file.rec
      BY <3>2 DEF ContextRecords, ProofRecords
    <3>4. file' = [file EXCEPT !.rec = [file.rec EXCEPT !.proof.exp = Expiry(rn[p].proof)]]
      BY <2>1
    <3>5. QED
      BY <3>2, <3>3, <3>4
  <2>2. CASE ~Describes(rn[p].proof)
    BY <2>2
  <2>3. QED
    BY <2>1, <2>2
<1>2. QED
  BY <1>1, RenewalKeeps DEF At

LEMMA LongWaitKeeps == ASSUME ProxyInv, NEW p \in Procs, long_wait(p) PROVE ProxyInv'
<1> USE DEF long_wait
<1>1. PICK v : v = [step |-> "between", gen |-> w[p].gen, began |-> w[p].conn]
  OBVIOUS
<1>2. v.step = "between" /\ v.gen = w[p].gen /\ v.began = w[p].conn /\ w[p].gen \in Nat
  BY <1>1 DEF ProxyInv, ProxyTypes
<1>3. wt' = [wt EXCEPT ![p] = v] /\ wt'[p] = v /\ DOMAIN wt' = Procs
  BY <1>1 DEF ProxyInv, ProxyTypes
<1>4. Waiting(p)'
  BY <1>2, <1>3 DEF Waiting, SameCredential, At
<1>5. QED
  BY <1>3, <1>4, BesideStepKeeps, BesideKept DEF ProxyInv, ProxyTypes

LEMMA ForwardBoundKeeps == ASSUME ProxyInv, NEW p \in Procs, forward_bound(p) PROVE ProxyInv'
<1> USE DEF forward_bound
<1>1. ~At(wt[p], "idle") /\ w[p].life = "up" /\ w[p].gen \in Nat
  BY BusyIsUp DEF At, ProxyInv, ProxyTypes
<1>2. DOMAIN wt' = Procs /\ \A q \in Procs \ {p} : wt'[q] = wt[q]
  BY DEF ProxyInv, ProxyTypes
<1>3. Waiting(p)'
  <2>1. CASE SameContext(p) /\ w[p].conn # Nothing
    <3>1. PICK v : v = [step |-> "sent", gen |-> w[p].gen, began |-> wt[p].began, under |-> w[p].conn]
      OBVIOUS
    <3>2. /\ v.step = "sent" /\ v.gen = w[p].gen /\ v.began = wt[p].began /\ v.under = w[p].conn
      BY <3>1
    <3>3. wt'[p] = v
      BY <2>1, <3>1 DEF ProxyInv, ProxyTypes
    <3>4. QED
      BY <1>1, <2>1, <3>2, <3>3
         DEF ProxyInv, ProcessInv, Waiting, SameContext, SameCredential, At
  <2>2. CASE ~(SameContext(p) /\ w[p].conn # Nothing)
    BY <2>2 DEF ProxyInv, ProxyTypes, Waiting, At, Idle
  <2>3. QED
    BY <2>1, <2>2
<1>4. QED
  BY <1>1, <1>2, <1>3, BesideStepKeeps, BesideKept DEF ProxyInv, ProxyTypes

LEMMA ForwardAnsweredKeeps ==
  ASSUME ProxyInv, NEW p \in Procs, forward_answered(p) PROVE ProxyInv'
<1> USE DEF forward_answered
<1>1. ~At(wt[p], "idle") /\ w[p].life = "up"
  BY BusyIsUp DEF At
<1>2. CASE /\ ~Accepts(wt[p].under.proof)
           /\ mark_unauthorized(p, wt[p].gen)
           /\ wt' = [wt EXCEPT ![p] = Idle]
  <2>1. w[p].gen = wt[p].gen /\ w[p].conn # Nothing => ~Accepts(w[p].conn.proof)
    BY <1>1, <1>2 DEF ProxyInv, ProcessInv, Waiting, SameCredential, Accepts
  <2>2. DOMAIN rn' = Procs /\ DOMAIN wt' = Procs /\ At(wt[p], "idle")'
    BY <1>2 DEF ProxyInv, ProxyTypes, At, Idle
  <2>3. QED
    BY <1>1, <1>2, <2>1, <2>2, RefusalKeeps
<1>3. CASE UNCHANGED w /\ wt' = [wt EXCEPT ![p] = Idle]
  <2>1. DOMAIN wt' = Procs /\ Waiting(p)'
    BY <1>3 DEF ProxyInv, ProxyTypes, Waiting, At, Idle
  <2>2. QED
    BY <1>1, <1>3, <2>1, BesideStepKeeps, BesideKept DEF ProxyInv, ProxyTypes
<1>4. CASE /\ UNCHANGED w
           /\ wt' = [wt EXCEPT ![p] = [step |-> "between", gen |-> @.gen, began |-> @.began]]
  <2>1. /\ wt'[p].step = "between" /\ wt'[p].gen = wt[p].gen /\ wt'[p].began = wt[p].began
        /\ DOMAIN wt' = Procs
    BY <1>4 DEF ProxyInv, ProxyTypes
  <2>2. Waiting(p)'
    BY <1>1, <1>4, <2>1 DEF ProxyInv, ProcessInv, Waiting, SameCredential, At
  <2>3. QED
    BY <1>1, <1>4, <2>1, <2>2, BesideStepKeeps, BesideKept DEF ProxyInv, ProxyTypes
<1>5. QED
  BY <1>2, <1>3, <1>4

(* A process that has stopped has nothing and holds nothing.               *)
LEMMA StoppedHasNothing ==
  ASSUME ProxyInv, NEW p \in Procs, Stops(p),
         UNCHANGED file \/ (file # Nothing /\ file' = [file EXCEPT !.closed = TRUE])
  PROVE  /\ BusMoves /\ \A q \in Procs \ {p} : Untouched(q)
         /\ ProxyTypes' /\ ProcessInv(p)' /\ HeldBy(p)' = {}
<1> USE DEF Stops
<1>1. BusMoves /\ \A q \in Procs \ {p} : Untouched(q)
  BY BusUnchanged DEF ProxyInv, Untouched
<1>2. /\ w'[p].life = "gone" /\ w'[p].conn = Nothing /\ w'[p].stranded = Nothing
      /\ w'[p].gen = 0 /\ w'[p].told = FALSE
  BY DEF Bare, ProxyInv, ProxyTypes
<1>3. /\ sw'[p].step = "idle" /\ cf'[p].step = "idle" /\ rn'[p].step = "idle"
      /\ wt'[p].step = "idle" /\ transcript'[p] = {}
  BY DEF Idle, ProxyInv, ProxyTypes
<1>4. ProxyTypes'
  <2>1. w' \in [Procs -> [life : {"new", "up", "gone"}, conn : ContextRecords \cup {Nothing},
                          stranded : ContextRecords \cup {Nothing}, gen : Nat, told : BOOLEAN]]
    BY DEF ProxyInv, ProxyTypes, Bare
  <2>2. file' = Nothing \/ file' \in [rec : ContextRecords \cup {Nothing}, closed : BOOLEAN]
    BY DEF ProxyInv, ProxyTypes
  <2>3. QED
    BY <2>1, <2>2 DEF ProxyInv, ProxyTypes
<1>5. Contextual(p)' /\ Switching(p)' /\ Renewing(p)' /\ Waiting(p)' /\ Refused(p)'
  BY <1>2, <1>3 DEF Contextual, Switching, Renewing, Waiting, Refused, At
<1>6. OneTeam(p)'
  BY <1>3 DEF OneTeam
<1>7. HeldBy(p)' = {}
  BY <1>2, <1>3 DEF HeldBy
<1>8. QED
  BY <1>1, <1>4, <1>5, <1>6, <1>7 DEF ProcessInv

LEMMA CrashKeeps == ASSUME ProxyInv, NEW p \in Procs, Crash(p) PROVE ProxyInv'
BY StoppedHasNothing, QuietStepKeeps DEF Crash

(* The credential of the record it closes was its own, so nobody else's.   *)
LEMMA MarkClosedKeeps == ASSUME ProxyInv, NEW p \in Procs, mark_closed(p) PROVE ProxyInv'
<1> USE DEF mark_closed
<1>1. CASE ~Owns(p)
  BY <1>1, StoppedHasNothing, QuietStepKeeps
<1>2. CASE Owns(p)
  <2>1. /\ file # Nothing /\ file.rec # Nothing /\ identity(p) # Nothing
        /\ Credential(file.rec.proof) = Credential(identity(p).proof)
    BY <1>2 DEF Owns, Describes, SameCredential, Credential
  <2>2. Credential(file.rec.proof) \in HeldBy(p)
    BY <2>1 DEF identity, HeldBy
  <2>3. /\ file' = [file EXCEPT !.closed = TRUE]
        /\ file \in [rec : ContextRecords \cup {Nothing}, closed : BOOLEAN]
    BY <1>2, <2>1 DEF ProxyInv, ProxyTypes
  <2>4. file'.rec = file.rec
    BY <2>3
  <2>5. /\ BusMoves /\ \A q \in Procs \ {p} : Untouched(q)
        /\ ProxyTypes' /\ ProcessInv(p)' /\ HeldBy(p)' = {}
    BY <2>1, <2>3, StoppedHasNothing
  <2>6. \A q \in Procs \ {p} : Credential(file.rec.proof) \notin HeldBy(q)'
    BY <2>2, <2>5, UntouchedKept DEF ProxyInv, HeldOnce
  <2>7. \A q \in Procs : Credential(file.rec.proof) \notin HeldBy(q)'
    BY <2>5, <2>6
  <2>8. GoodContext(file.rec)'
    BY <2>1, <2>4, <2>5, IssuedStays DEF ProxyInv, RecordInv, GoodContext, GoodProof
  <2>9. RecordInv'
    BY <2>4, <2>7, <2>8 DEF RecordInv
  <2>10. QED
    BY <2>5, <2>9, ProcessStepKeeps
<1>3. QED
  BY <1>1, <1>2

-----------------------------------------------------------------------------
LEMMA ProxyInitHolds == ASSUME ProxyInit PROVE ProxyInv
<1> USE DEF ProxyInit
<1>1. ProxyTypes
  BY DEF ProxyTypes, BusStates, Bare
<1>2. ASSUME NEW p \in Procs
      PROVE  /\ w[p].conn = Nothing /\ w[p].stranded = Nothing /\ w[p].told = FALSE
             /\ sw[p].step = "idle" /\ cf[p].step = "idle" /\ rn[p].step = "idle"
             /\ wt[p].step = "idle" /\ transcript[p] = {}
  BY DEF Bare, Idle
<1>3. ASSUME NEW p \in Procs PROVE ProcessInv(p) /\ HeldBy(p) = {}
  BY <1>2 DEF ProcessInv, Contextual, Switching, Renewing, Waiting, Refused, OneTeam, At, HeldBy
<1>4. HeldOnce /\ RecordInv
  BY <1>3 DEF HeldOnce, RecordInv
<1>5. QED
  BY <1>1, <1>3, <1>4 DEF ProxyInv

LEMMA ProxyStutterKeeps == ASSUME ProxyInv, UNCHANGED proxyVars PROVE ProxyInv'
<1> USE DEF proxyVars
<1>1. BusMoves
  BY BusUnchanged DEF ProxyInv
<1>2. \A p \in Procs : ProcessInv(p)' /\ HeldBy(p)' = HeldBy(p)
  BY <1>1, UntouchedKept DEF Untouched
<1>3. ProxyTypes'
  BY DEF ProxyInv, ProxyTypes
<1>4. HeldOnce' /\ RecordInv'
  BY <1>1, <1>2, IssuedStays DEF ProxyInv, HeldOnce, RecordInv, GoodContext, GoodProof
<1>5. QED
  BY <1>2, <1>3, <1>4 DEF ProxyInv

LEMMA ProxyStepKeeps == ASSUME ProxyInv, [ProxyNext]_proxyVars PROVE ProxyInv'
<1>1. ASSUME NEW p \in Procs, ProcessStep(p) PROVE ProxyInv'
  <2>1. CASE \/ start(p) \/ resume_with(p) \/ register_new(p) \/ Unreached(p) \/ take_over(p)
             \/ swap(p) \/ write_record(p) \/ adopt_project_dir(p)
             \/ resume_in_place(p) \/ rotate(p) \/ adopt_resumed(p)
    BY <2>1, StartKeeps, ResumeWithKeeps, RegisterNewKeeps, UnreachedKeeps, TakeOverKeeps,
       SwapKeeps, WriteRecordKeeps, AdoptProjectDirKeeps, ResumeInPlaceKeeps, RotateKeeps,
       AdoptResumedKeeps
  <2>2. CASE \/ configure(p) \/ (\E q \in Profiles : configure_profile(p, q))
             \/ configure_record(p) \/ configure_write(p)
    BY <2>2, ConfigureKeeps, ConfigureProfileKeeps, ConfigureWriteKeeps
  <2>3. CASE \/ renew_credential(p) \/ renew_answered(p) \/ renew_apply(p)
             \/ stamp_binding_expiry(p)
    BY <2>3, RenewCredentialKeeps, RenewAnsweredKeeps, RenewApplyKeeps, StampKeeps
  <2>4. CASE \/ long_wait(p) \/ forward_bound(p) \/ forward_answered(p)
             \/ mark_closed(p) \/ Crash(p)
    BY <2>4, LongWaitKeeps, ForwardBoundKeeps, ForwardAnsweredKeeps, MarkClosedKeeps, CrashKeeps
  <2>5. QED
    BY <1>1, <2>1, <2>2, <2>3, <2>4 DEF ProcessStep
<1>2. ASSUME NEW q \in Profiles, Lapses(q) PROVE ProxyInv'
  BY <1>2, LapsesKeeps
<1>3. CASE UNCHANGED proxyVars
  BY <1>3, ProxyStutterKeeps
<1>4. QED
  BY <1>1, <1>2, <1>3 DEF ProxyNext

LEMMA ProxyInvariant == ProxySpec => []ProxyInv
<1>1. ProxyInit => ProxyInv
  BY ProxyInitHolds
<1>2. ProxyInv /\ [ProxyNext]_proxyVars => ProxyInv'
  BY ProxyStepKeeps
<1>3. QED
  BY <1>1, <1>2, PTL DEF ProxySpec

(* Every request of a long wait is sent with the credential it began       *)
(* under, because the generation the wait began in is checked under the    *)
(* lock that hands out the connection (forward_bound).                     *)
THEOREM WaitsKeepTheirIdentity == ProxySpec => []WaitKeepsItsIdentity
<1>1. ProxyInv => WaitKeepsItsIdentity
  BY DEF ProxyInv, ProcessInv, Waiting, WaitKeepsItsIdentity, At
<1>2. QED
  BY <1>1, ProxyInvariant, PTL

(* A window that was told its credential is rejected holds a rejected one: *)
(* mark_unauthorized compares the generation, and a secret the bus rejects *)
(* is rejected for good.                                                   *)
THEOREM RefusalsAreCurrent == ProxySpec => []RefusalIsCurrent
<1>1. ProxyInv => RefusalIsCurrent
  BY DEF ProxyInv, ProcessInv, Refused, RefusalIsCurrent
<1>2. QED
  BY <1>1, ProxyInvariant, PTL

(* No process shows the material of two teams, however switches, failed    *)
(* adoptions, resumes and crashes follow each other (connect_with).        *)
THEOREM OneTeamPerConversation == ProxySpec => []TeamIsKept
<1>1. ProxyInv => TeamIsKept
  <2> SUFFICES ASSUME ProxyInv, NEW p \in Procs, NEW s \in transcript[p], NEW t \in transcript[p]
               PROVE  s = t
    BY DEF TeamIsKept
  <2>1. QED
    BY DEF ProxyInv, ProcessInv, OneTeam
<1>2. QED
  BY <1>1, ProxyInvariant, PTL

(* The expiries are those of the credentials beside them, and a process    *)
(* that leaves never closes the record a running window resumes from       *)
(* (renew_credential, stamp_binding_expiry, mark_closed).                  *)
THEOREM RecordsAreTheOwners == ProxySpec => []RecordIsTheOwners
<1>1. ProxyInv => RecordIsTheOwners
  <2> SUFFICES ASSUME ProxyInv PROVE RecordIsTheOwners
    OBVIOUS
  <2>1. \A p \in Procs : w[p].conn # Nothing => w[p].conn.proof.exp = Expiry(w[p].conn.proof)
    BY DEF ProxyInv, ProcessInv, Contextual, GoodContext, GoodProof, IssuedBy
  <2>2. file # Nothing /\ file.rec # Nothing => file.rec.proof.exp = Expiry(file.rec.proof)
    BY DEF ProxyInv, RecordInv, GoodContext, GoodProof, IssuedBy
  <2>3. ASSUME NEW p \in Procs, w[p].conn # Nothing, Describes(w[p].conn.proof)
        PROVE  ~file.closed
    <3>1. Credential(file.rec.proof) = Credential(w[p].conn.proof)
      BY <2>3 DEF Describes, SameCredential, Credential
    <3>2. Credential(file.rec.proof) \in HeldBy(p)
      BY <2>3, <3>1 DEF HeldBy
    <3>3. QED
      BY <2>3, <3>2 DEF Describes, ProxyInv, RecordInv
  <2>4. QED
    BY <2>1, <2>2, <2>3 DEF RecordIsTheOwners
<1>2. QED
  BY <1>1, ProxyInvariant, PTL

-----------------------------------------------------------------------------
(***************************************************************************)
(* The inbox and its spool.                                                *)
(***************************************************************************)
EventRows == [state : {"none", "pending", "published", "failed"}, attempts : 0..MAX_ATTEMPTS]
HandOuts == [n : 0..MaxRows, open : BOOLEAN, epoch : 0..MaxEpoch, recent : BOOLEAN, ack : BOOLEAN]
FetchCalls == [pc : {"idle", "read", "append", "confirm", "rewrite"}, refs : SUBSET Ids,
               held : SUBSET Entries, settled : SUBSET Ids]
Copies == {"none", "queued", "gone"}

(* A reference that may still be published has an attempt left, a row that *)
(* is open has a number, and a confirmed row is closed.                    *)
RefInv(r) ==
  /\ event[r].state \in {"none", "pending"} => event[r].attempts < MAX_ATTEMPTS
  /\ row[r].open => row[r].n # 0
  /\ \A i \in done : i[1] = r => i[2] <= row[r].n /\ (i[2] = row[r].n => ~row[r].open)

HeldIds(c) == {e.id : e \in call[c].held}

(* Ids that may be gone from the file of p, and ids that are not lost.     *)
Out(p) == raced[p] \cup (aged[p] \cap done)
Kept(p) == Filed(p) \cup aged[p] \cup raced[p]

(* What is marked confirmed is confirmed, in a file and in a call.         *)
FileInv(p) == \A e \in spool[p] : e.confirmed => e.id \in done

(* What a call has read, and the file by now, differ in ids of Out only.   *)
CallInv(c) ==
  /\ \A e \in call[c].held : e.confirmed => e.id \in done
  /\ call[c].settled \subseteq done
  /\ HasRead(c) => /\ HeldIds(c) \subseteq Filed(HomeOf[c]) \cup Out(HomeOf[c])
                   /\ Filed(HomeOf[c]) \subseteq HeldIds(c) \cup Out(HomeOf[c])

InboxInv == /\ TypeOK
            /\ \A r \in Refs : RefInv(r)
            /\ \A p \in Proxies : FileInv(p)
            /\ \A c \in Calls : CallInv(c)
            /\ DeliveredIsKept

LEMMA NoRowTyped == NoRow \in HandOuts /\ NoRow.open = FALSE
BY InboxConstants DEF NoRow, HandOuts

LEMMA NoCallTyped ==
  NoCall \in FetchCalls /\ NoCall.pc = "idle" /\ NoCall.held = {} /\ NoCall.settled = {}
BY DEF NoCall, FetchCalls

LEMMA InboxInitially == ASSUME Init PROVE InboxInv
<1>1. /\ row \in [Refs -> HandOuts] /\ \A r \in Refs : ~row[r].open
  BY NoRowTyped DEF Init
<1>2. /\ event \in [Refs -> EventRows]
      /\ \A r \in Refs : event[r].attempts < MAX_ATTEMPTS
  BY InboxConstants DEF Init, EventRows
<1>3. /\ call \in [Calls -> FetchCalls] /\ \A c \in Calls : call[c].pc = "idle"
  BY NoCallTyped DEF Init
<1>4. epoch \in 1..MaxEpoch /\ proxy \in [Proxies -> 0..MaxEpoch]
  BY InboxConstants DEF Init
<1>5. happened \in 0..MaxHappens
  BY InboxConstants DEF Init
<1>6. /\ broker \in [Refs -> Copies] /\ delivered = {} /\ done = {}
      /\ seat \in BOOLEAN /\ grant \in BOOLEAN
      /\ spool \in [Proxies -> SUBSET Entries] /\ \A p \in Proxies : spool[p] = {}
      /\ aged \in [Proxies -> SUBSET Ids] /\ raced \in [Proxies -> SUBSET Ids]
  BY DEF Init, Copies
<1>7. TypeOK
  BY <1>1, <1>2, <1>3, <1>4, <1>5, <1>6 DEF TypeOK, HandOuts, EventRows, FetchCalls, Copies
<1>8. \A c \in Calls : CallInv(c)
  <2>1. \A c \in Calls : call[c] = NoCall
    BY DEF Init
  <2>2. QED
    BY <2>1, NoCallTyped DEF CallInv, HasRead
<1>9. QED
  BY <1>1, <1>2, <1>6, <1>7, <1>8 DEF InboxInv, RefInv, FileInv, DeliveredIsKept

-----------------------------------------------------------------------------
(* Types, a table at a time.                                               *)
LEMMA InboxTyped ==
  TypeOK <=> /\ event \in [Refs -> EventRows] /\ broker \in [Refs -> Copies]
             /\ delivered \subseteq Messages /\ row \in [Refs -> HandOuts] /\ done \subseteq Ids
             /\ seat \in BOOLEAN /\ grant \in BOOLEAN /\ epoch \in 1..MaxEpoch
             /\ proxy \in [Proxies -> 0..MaxEpoch] /\ call \in [Calls -> FetchCalls]
             /\ spool \in [Proxies -> SUBSET Entries] /\ aged \in [Proxies -> SUBSET Ids]
             /\ raced \in [Proxies -> SUBSET Ids] /\ happened \in 0..MaxHappens
BY DEF TypeOK, EventRows, Copies, HandOuts, FetchCalls

LEMMA InboxTypedNext ==
  TypeOK' <=> /\ event' \in [Refs -> EventRows] /\ broker' \in [Refs -> Copies]
              /\ delivered' \subseteq Messages /\ row' \in [Refs -> HandOuts] /\ done' \subseteq Ids
              /\ seat' \in BOOLEAN /\ grant' \in BOOLEAN /\ epoch' \in 1..MaxEpoch
              /\ proxy' \in [Proxies -> 0..MaxEpoch] /\ call' \in [Calls -> FetchCalls]
              /\ spool' \in [Proxies -> SUBSET Entries] /\ aged' \in [Proxies -> SUBSET Ids]
              /\ raced' \in [Proxies -> SUBSET Ids] /\ happened' \in 0..MaxHappens
BY DEF TypeOK, EventRows, Copies, HandOuts, FetchCalls

LEMMA HappensTyped ==
  ASSUME TypeOK, Happens \/ UNCHANGED happened PROVE happened' \in 0..MaxHappens
BY InboxConstants DEF TypeOK, Happens

LEMMA BrokerTyped ==
  ASSUME TypeOK
  PROVE  /\ \A r \in Refs : publish_reference(r) \in [Refs -> Copies]
         /\ \A acked : ack_reference(acked) \in [Refs -> Copies]
BY DEF TypeOK, publish_reference, ack_reference, Copies

(* Updates of one column.                                                  *)
LEMMA EventColumns ==
  ASSUME NEW e \in EventRows
  PROVE  /\ e.attempts \in 0..MAX_ATTEMPTS
         /\ \A s \in {"none", "pending", "published", "failed"} :
               /\ [e EXCEPT !.state = s] \in EventRows /\ [e EXCEPT !.state = s].state = s
               /\ [e EXCEPT !.state = s].attempts = e.attempts
         /\ \A n \in 0..MAX_ATTEMPTS :
               [e EXCEPT !.attempts = n] \in EventRows /\ [e EXCEPT !.attempts = n].attempts = n
BY DEF EventRows

LEMMA HandOutColumns ==
  ASSUME NEW h \in HandOuts
  PROVE  /\ [h EXCEPT !.recent = FALSE] \in HandOuts
         /\ [h EXCEPT !.recent = FALSE].n = h.n /\ [h EXCEPT !.recent = FALSE].open = h.open
         /\ h.n \in 0..MaxRows /\ h.open \in BOOLEAN /\ h.ack \in BOOLEAN
BY DEF HandOuts

LEMMA InboxRows ==
  ASSUME InboxInv, NEW r \in Refs PROVE event[r] \in EventRows /\ row[r] \in HandOuts
BY InboxTyped DEF InboxInv

(* What a step has to keep.                                                *)
LEMMA InboxMoves ==
  ASSUME InboxInv, TypeOK', \A r \in Refs : RefInv(r)', \A p \in Proxies : FileInv(p)',
         \A c \in Calls : CallInv(c)', \A p \in Proxies : Kept(p) \subseteq Kept(p)',
         \A r \in delivered' : \/ r \in delivered
                               \/ \E p \in Proxies : \E i \in Kept(p)' : i[1] = r
  PROVE  InboxInv'
<1>1. DeliveredIsKept'
  <2> SUFFICES ASSUME NEW r \in delivered' PROVE \E p \in Proxies : \E i \in Kept(p)' : i[1] = r
    BY DEF DeliveredIsKept, Kept
  <2>1. CASE r \in delivered
    <3>1. PICK p \in Proxies : \E i \in Kept(p) : i[1] = r
      BY <2>1 DEF InboxInv, DeliveredIsKept, Kept
    <3>2. QED
      BY <3>1
  <2>2. QED
    BY <2>1
<1>2. QED
  BY <1>1 DEF InboxInv

(* A call that does not move keeps its share when what the file gains or   *)
(* loses is Out.                                                           *)
LEMMA OtherCall ==
  ASSUME InboxInv, NEW d \in Calls, call'[d] = call[d], done \subseteq done',
         HasRead(d) => /\ Out(HomeOf[d]) \subseteq Out(HomeOf[d])'
                       /\ Filed(HomeOf[d])' \subseteq Filed(HomeOf[d]) \cup Out(HomeOf[d])'
                       /\ Filed(HomeOf[d]) \subseteq Filed(HomeOf[d])' \cup Out(HomeOf[d])'
  PROVE  CallInv(d)'
<1>1. CallInv(d)
  BY DEF InboxInv
<1>2. HeldIds(d)' = HeldIds(d) /\ HasRead(d)' = HasRead(d)
  BY DEF HeldIds, HasRead
<1>3. HasRead(d) => /\ HeldIds(d)' \subseteq Filed(HomeOf[d])' \cup Out(HomeOf[d])'
                    /\ Filed(HomeOf[d])' \subseteq HeldIds(d)' \cup Out(HomeOf[d])'
  BY <1>1, <1>2 DEF CallInv
<1>4. /\ \A e \in call'[d].held : e.confirmed => e.id \in done'
      /\ call'[d].settled \subseteq done'
  BY <1>1 DEF CallInv
<1>5. QED
  BY <1>2, <1>3, <1>4 DEF CallInv

(* The files of a step that leaves them alone.                             *)
LEMMA SameFiles ==
  ASSUME InboxInv, done \subseteq done', UNCHANGED <<spool, aged, raced>>
  PROVE  /\ \A p \in Proxies : /\ FileInv(p)' /\ Kept(p)' = Kept(p) /\ Filed(p)' = Filed(p)
                               /\ Out(p) \subseteq Out(p)'
         /\ \A d \in Calls : call'[d] = call[d] => CallInv(d)'
<1>1. \A p \in Proxies : Filed(p)' = Filed(p) /\ Kept(p)' = Kept(p) /\ Out(p) \subseteq Out(p)'
  BY DEF Filed, Kept, Out
<1>2. \A p \in Proxies : FileInv(p)'
  BY DEF InboxInv, FileInv
<1>3. \A d \in Calls : HomeOf[d] \in Proxies
  BY InboxConstants
<1>4. ASSUME NEW d \in Calls, call'[d] = call[d] PROVE CallInv(d)'
  BY <1>1, <1>3, <1>4, OtherCall
<1>5. QED
  BY <1>1, <1>2, <1>4

(* Steps that leave the calls, the files and the receipts alone.           *)
LEMMA ElsewhereKeepsInbox ==
  ASSUME InboxInv, TypeOK', UNCHANGED <<delivered, done, call, spool, aged, raced>>,
         \A r \in Refs : RefInv(r)'
  PROVE  InboxInv'
<1>1. /\ \A p \in Proxies : FileInv(p)' /\ Kept(p) \subseteq Kept(p)'
      /\ \A c \in Calls : CallInv(c)'
  BY SameFiles
<1>2. QED
  BY <1>1, InboxMoves

LEMMA EnqueueKeeps == ASSUME InboxInv, NEW r \in Refs, enqueue_reference(r) PROVE InboxInv'
<1>1. /\ event' = [event EXCEPT ![r].state = "pending"] /\ event[r].state = "none" /\ Happens
      /\ UNCHANGED <<broker, delivered, row, done, accessVars, proxy, call, spool, aged, raced>>
  BY DEF enqueue_reference, diskVars
<1>2. PICK new \in EventRows : new = [event[r] EXCEPT !.state = "pending"]
                                /\ new.attempts = event[r].attempts
  BY InboxRows, EventColumns, ZenonT(30)
<1>3. event' = [event EXCEPT ![r] = new] /\ new.attempts < MAX_ATTEMPTS
  BY <1>1, <1>2 DEF InboxInv, RefInv
<1>4. TypeOK'
  BY <1>1, <1>3, HappensTyped, InboxTyped, InboxTypedNext DEF InboxInv, accessVars
<1>5. \A q \in Refs : RefInv(q)'
  BY <1>1, <1>3, InboxTyped DEF InboxInv, RefInv
<1>6. QED
  BY <1>1, <1>4, <1>5, ElsewhereKeepsInbox

LEMMA PublishReferenceKeeps == ASSUME InboxInv, NEW r \in Refs, publish_pending(r) PROVE InboxInv'
<1>1. /\ event[r].state = "pending" /\ (Happens \/ UNCHANGED happened)
      /\ UNCHANGED <<delivered, row, done, accessVars, proxy, call, spool, aged, raced>>
      /\ broker' = broker \/ broker' = publish_reference(r)
  BY DEF publish_pending, diskVars
<1>2. /\ event[r] \in EventRows /\ event[r].attempts < MAX_ATTEMPTS
      /\ event[r].attempts \in Nat /\ MAX_ATTEMPTS \in Nat
  <2>1. event[r].attempts < MAX_ATTEMPTS
    BY <1>1 DEF InboxInv, RefInv
  <2>2. event[r] \in EventRows
    BY InboxRows
  <2>3. QED
    BY <2>1, <2>2, InboxConstants DEF EventRows
<1>3. PICK new \in EventRows : /\ event' = [event EXCEPT ![r] = new]
                               /\ new.state = "pending" => new.attempts < MAX_ATTEMPTS
                               /\ new.state # "none"
  <2>1. CASE \E s \in {"published", "failed"} : event' = [event EXCEPT ![r].state = s]
    <3>1. PICK s \in {"published", "failed"} : event' = [event EXCEPT ![r] = [event[r] EXCEPT !.state = s]]
      BY <2>1
    <3>2. [event[r] EXCEPT !.state = s] \in EventRows /\ [event[r] EXCEPT !.state = s].state = s
      BY <1>2 DEF EventRows
    <3>3. QED
      BY <3>1, <3>2
  <2>2. CASE event' = [event EXCEPT ![r].attempts = @ + 1,
                                    ![r].state = IF event[r].attempts + 1 >= MAX_ATTEMPTS
                                                 THEN "failed" ELSE "pending"]
    <3>1. PICK s \in {"pending", "failed"} :
             s = IF event[r].attempts + 1 >= MAX_ATTEMPTS THEN "failed" ELSE "pending"
      OBVIOUS
    <3>2. PICK n \in 0..MAX_ATTEMPTS : n = event[r].attempts + 1
      BY <1>2
    <3>3. PICK u : u = [event[r] EXCEPT !.attempts = n]
      OBVIOUS
    <3>4. u \in EventRows /\ u.attempts = n
      BY <1>2, <3>3 DEF EventRows
    <3>5. PICK v : v = [u EXCEPT !.state = s]
      OBVIOUS
    <3>6. v \in EventRows /\ v.state = s /\ v.attempts = n
      BY <3>4, <3>5 DEF EventRows
    <3>7. event' = [event EXCEPT ![r] = v]
      BY <2>2, <3>1, <3>2, <3>3, <3>5
    <3>8. s = "pending" => n < MAX_ATTEMPTS
      BY <1>2, <3>1, <3>2
    <3>9. QED
      BY <3>6, <3>7, <3>8
  <2>3. QED
    BY <2>1, <2>2 DEF publish_pending
<1>4. TypeOK'
  BY <1>1, <1>3, HappensTyped, BrokerTyped, InboxTyped, InboxTypedNext DEF InboxInv, accessVars
<1>5. \A q \in Refs : RefInv(q)'
  BY <1>1, <1>3, InboxTyped DEF InboxInv, RefInv
<1>6. QED
  BY <1>1, <1>4, <1>5, ElsewhereKeepsInbox

LEMMA AccessKeeps ==
  ASSUME InboxInv,
         \/ LeaveSeat \/ ChangeGrant
         \/ (\E r \in Refs : BrokerDrops(r))
         \/ (\E p \in Proxies : Resume(p))
  PROVE  InboxInv'
<1>1. UNCHANGED <<event, delivered, row, done, call, spool, aged, raced>> /\ (Happens \/ UNCHANGED happened)
  BY DEF LeaveSeat, ChangeGrant, BrokerDrops, Resume, serverVars, accessVars, diskVars
<1>2. seat' \in BOOLEAN /\ grant' \in BOOLEAN
  BY InboxTyped DEF InboxInv, LeaveSeat, ChangeGrant, BrokerDrops, Resume, accessVars
<1>3. broker' \in [Refs -> Copies]
  BY InboxTyped DEF InboxInv, LeaveSeat, ChangeGrant, BrokerDrops, Resume, serverVars, Copies
<1>4. epoch' \in 1..MaxEpoch /\ proxy' \in [Proxies -> 0..MaxEpoch]
  BY InboxTyped, InboxConstants
  DEF InboxInv, LeaveSeat, ChangeGrant, BrokerDrops, Resume, accessVars
<1>5. TypeOK'
  BY <1>1, <1>2, <1>3, <1>4, HappensTyped, InboxTyped, InboxTypedNext DEF InboxInv
<1>6. QED
  BY <1>1, <1>5, ElsewhereKeepsInbox DEF InboxInv, RefInv

LEMMA GraceEndsKeeps == ASSUME InboxInv, NEW r \in Refs, GraceEnds(r) PROVE InboxInv'
<1>1. PICK new \in HandOuts : /\ new = [row[r] EXCEPT !.recent = FALSE]
                              /\ new.n = row[r].n /\ new.open = row[r].open
  BY InboxRows, HandOutColumns
<1>2. /\ row' = [row EXCEPT ![r] = new]
      /\ UNCHANGED <<event, broker, delivered, done, accessVars, proxy, call, spool, aged, raced, happened>>
  BY <1>1 DEF GraceEnds, diskVars
<1>3. TypeOK'
  BY <1>2, InboxTyped, InboxTypedNext DEF InboxInv, accessVars
<1>4. \A q \in Refs : RefInv(q)'
  BY <1>1, <1>2, InboxTyped DEF InboxInv, RefInv
<1>5. QED
  BY <1>2, <1>3, <1>4, ElsewhereKeepsInbox

-----------------------------------------------------------------------------
LEMMA CallTyped ==
  ASSUME InboxInv, NEW c \in Calls
  PROVE  /\ call[c] \in FetchCalls /\ HomeOf[c] \in Proxies /\ spool[HomeOf[c]] \in SUBSET Entries
         /\ call[c].refs \in SUBSET Ids /\ call[c].held \in SUBSET Entries
<1>1. call[c] \in FetchCalls /\ HomeOf[c] \in Proxies /\ spool \in [Proxies -> SUBSET Entries]
  BY InboxTyped, InboxConstants DEF InboxInv
<1>2. QED
  BY <1>1 DEF FetchCalls

LEMMA NewEntriesTyped ==
  ASSUME InboxInv, NEW c \in Calls
  PROVE  /\ NewEntries(c) \in SUBSET Entries
         /\ \A e \in NewEntries(c) : ~e.confirmed /\ e.id \notin Filed(HomeOf[c])
<1>1. \A i \in Ids : [id |-> i, confirmed |-> FALSE] \in Entries
  BY DEF Entries
<1>2. QED
  BY <1>1, CallTyped DEF NewEntries, Filed

LEMMA HandOutTyped ==
  ASSUME InboxInv, NEW r \in Refs, NEW ack \in BOOLEAN, hand_out_message(r, ack).n <= MaxRows
  PROVE  /\ hand_out_message(r, ack) \in HandOuts
         /\ hand_out_message(r, ack).n \in 1..MaxRows
<1>1. /\ row[r].n \in Nat /\ row[r].open \in BOOLEAN /\ row[r].ack \in BOOLEAN
      /\ epoch \in 0..MaxEpoch /\ MaxRows \in Nat
  <2>1. row[r] \in HandOuts /\ epoch \in 1..MaxEpoch
    BY InboxTyped DEF InboxInv
  <2>2. QED
    BY <2>1, InboxConstants DEF HandOuts
<1>2. row[r].open => row[r].n # 0
  BY DEF InboxInv, RefInv
<1>3. PICK n : n = IF row[r].open THEN row[r].n ELSE row[r].n + 1
  OBVIOUS
<1>4. PICK a : a = (ack \/ (row[r].open /\ row[r].ack))
  OBVIOUS
<1>5. hand_out_message(r, ack) = [n |-> n, open |-> TRUE, epoch |-> epoch, recent |-> TRUE, ack |-> a]
  BY <1>3, <1>4 DEF hand_out_message
<1>6. n \in 1..MaxRows /\ n \in 0..MaxRows
  <2>1. n \in Nat /\ n # 0 /\ n <= MaxRows
    BY <1>1, <1>2, <1>3, <1>5
  <2>2. QED
    BY <1>1, <2>1
<1>7. a \in BOOLEAN
  BY <1>1, <1>4
<1>8. QED
  BY <1>1, <1>5, <1>6, <1>7 DEF HandOuts

LEMMA FetchKeeps == ASSUME InboxInv, NEW c \in Calls, fetch(c) PROVE InboxInv'
<1> DEFINE rows(out, taken) ==
             [r \in Refs |-> IF r \in out THEN hand_out_message(r, r \in taken) ELSE row[r]]
<1>1. PICK out \in SUBSET Refs, taken \in SUBSET Refs, acked \in SUBSET Refs :
         /\ \A r \in out : rows(out, taken)[r].n <= MaxRows
         /\ row' = rows(out, taken)
         /\ broker' = ack_reference(acked)
         /\ \/ /\ call' = [call EXCEPT ![c] = [NoCall EXCEPT !.pc = "read",
                                 !.refs = {<<r, rows(out, taken)[r].n>> : r \in out}]]
               /\ UNCHANGED happened
            \/ Happens /\ UNCHANGED call
  <2>1. PICK pulled \in fetch_references :
            LET taken == {r \in pulled : record_broker_reference(r)}
                rest == Batch - Cardinality(taken)
            IN  \E acked \in SUBSET (pulled \ taken),
                   owed \in UpTo(reconcile_from_postgres \ taken, rest) :
                \E news \in UpTo(reconcile_receipt_events \ taken, rest - Cardinality(owed)) :
                   LET out == taken \cup owed \cup news
                   IN  /\ \A r \in out : rows(out, taken)[r].n <= MaxRows
                       /\ row' = rows(out, taken)
                       /\ broker' = ack_reference(acked)
                       /\ \/ /\ call' = [call EXCEPT ![c] =
                                   [NoCall EXCEPT !.pc = "read",
                                                  !.refs = {<<r, rows(out, taken)[r].n>> : r \in out}]]
                             /\ UNCHANGED happened
                          \/ Happens /\ UNCHANGED call
    BY DEF fetch
  <2> DEFINE taken == {r \in pulled : record_broker_reference(r)}
             rest == Batch - Cardinality(taken)
  <2>2. PICK acked \in SUBSET (pulled \ taken),
             owed \in UpTo(reconcile_from_postgres \ taken, rest) :
                \E news \in UpTo(reconcile_receipt_events \ taken, rest - Cardinality(owed)) :
                   LET out == taken \cup owed \cup news
                   IN  /\ \A r \in out : rows(out, taken)[r].n <= MaxRows
                       /\ row' = rows(out, taken)
                       /\ broker' = ack_reference(acked)
                       /\ \/ /\ call' = [call EXCEPT ![c] =
                                   [NoCall EXCEPT !.pc = "read",
                                                  !.refs = {<<r, rows(out, taken)[r].n>> : r \in out}]]
                             /\ UNCHANGED happened
                          \/ Happens /\ UNCHANGED call
    BY <2>1
  <2>3. PICK news \in UpTo(reconcile_receipt_events \ taken, rest - Cardinality(owed)) :
                   LET out == taken \cup owed \cup news
                   IN  /\ \A r \in out : rows(out, taken)[r].n <= MaxRows
                       /\ row' = rows(out, taken)
                       /\ broker' = ack_reference(acked)
                       /\ \/ /\ call' = [call EXCEPT ![c] =
                                   [NoCall EXCEPT !.pc = "read",
                                                  !.refs = {<<r, rows(out, taken)[r].n>> : r \in out}]]
                             /\ UNCHANGED happened
                          \/ Happens /\ UNCHANGED call
    BY <2>2
  <2>4. pulled \in SUBSET Refs
    BY DEF fetch_references
  <2>5. owed \in SUBSET Refs /\ news \in SUBSET Refs
    BY DEF UpTo, reconcile_from_postgres, reconcile_receipt_events, Refs
  <2> /\ (taken \cup owed \cup news) \in SUBSET Refs /\ taken \in SUBSET Refs
      /\ acked \in SUBSET Refs
    BY <2>4, <2>5
  <2> HIDE DEF rows, taken, rest
  <2> WITNESS (taken \cup owed \cup news) \in SUBSET Refs, taken \in SUBSET Refs,
              acked \in SUBSET Refs
  <2>6. QED
    BY <2>3
<1>2. UNCHANGED <<event, delivered, done, accessVars, proxy, spool, aged, raced>>
  BY DEF fetch, diskVars
<1>3. ASSUME NEW r \in out
      PROVE  row'[r] = hand_out_message(r, r \in taken) /\ row'[r].n <= MaxRows
  BY <1>1
<1>4. \A r \in Refs : r \notin out => row'[r] = row[r]
  BY <1>1
<1>5. ASSUME NEW r \in out PROVE row'[r] \in HandOuts /\ row'[r].n \in 1..MaxRows
  <2>1. (r \in taken) \in BOOLEAN /\ r \in Refs
    OBVIOUS
  <2>2. hand_out_message(r, r \in taken).n <= MaxRows
    BY <1>3
  <2>3. QED
    BY <1>3, <2>1, <2>2, HandOutTyped
<1>6. row' \in [Refs -> HandOuts]
  <2>1. \A r \in Refs : row'[r] \in HandOuts
    BY <1>4, <1>5, InboxRows
  <2>2. row' = [r \in Refs |-> row'[r]]
    BY <1>1
  <2>3. QED
    BY <2>1, <2>2
<1>7. \A r \in Refs : RefInv(r)'
  <2>1. ASSUME NEW r \in out PROVE RefInv(r)'
    <3>1. /\ row[r].n \in Nat /\ row'[r].n = IF row[r].open THEN row[r].n ELSE row[r].n + 1
          /\ row'[r].n # 0
      <4>1. row[r].n \in Nat
        <5>1. row[r] \in HandOuts /\ MaxRows \in Nat
          BY InboxRows, InboxConstants
        <5>2. QED
          BY <5>1 DEF HandOuts
      <4>2. row'[r].n = IF row[r].open THEN row[r].n ELSE row[r].n + 1
        <5>1. row'[r] = hand_out_message(r, r \in taken)
          BY <1>3
        <5>2. QED
          BY <5>1 DEF hand_out_message
      <4>3. row'[r].n # 0
        BY <1>5, InboxConstants
      <4>4. QED
        BY <4>1, <4>2, <4>3
    <3>2. RefInv(r) /\ \A i \in done : i[2] \in Nat
      BY InboxTyped, InboxConstants DEF InboxInv, Ids
    <3>3. \A i \in done : i[1] = r => i[2] < row'[r].n
      BY <3>1, <3>2 DEF RefInv
    <3>4. \A i \in done' : i[1] = r => i[2] <= row'[r].n /\ i[2] # row'[r].n
      BY <1>2, <3>1, <3>2, <3>3
    <3>5. event'[r].state \in {"none", "pending"} => event'[r].attempts < MAX_ATTEMPTS
      BY <1>2, <3>2 DEF RefInv
    <3>6. QED
      BY <3>1, <3>4, <3>5 DEF RefInv
  <2>2. ASSUME NEW r \in Refs, r \notin out PROVE RefInv(r)'
    BY <1>2, <1>4, <2>2 DEF InboxInv, RefInv
  <2>3. QED
    BY <2>1, <2>2
<1>8. broker' \in [Refs -> Copies] /\ happened' \in 0..MaxHappens
  BY <1>1, BrokerTyped, HappensTyped DEF InboxInv
<1>9. PICK ids \in SUBSET Ids : ids = {<<r, row'[r].n>> : r \in out}
  <2>1. \A r \in out : <<r, row'[r].n>> \in Ids
    BY <1>5 DEF Ids
  <2>2. QED
    BY <2>1
<1>10. PICK k \in FetchCalls : /\ k = [NoCall EXCEPT !.pc = "read", !.refs = ids] /\ k.pc = "read"
                               /\ k.held = {} /\ k.settled = {}
  <2>1. LET k == [NoCall EXCEPT !.pc = "read", !.refs = ids]
        IN  k \in FetchCalls /\ k.pc = "read" /\ k.held = {} /\ k.settled = {}
    BY DEF NoCall, FetchCalls
  <2>2. QED
    BY <2>1
<1>11. CASE call' = [call EXCEPT ![c] = k]
  <2>1. TypeOK'
    BY <1>2, <1>6, <1>8, <1>11, InboxTyped, InboxTypedNext DEF InboxInv, accessVars
  <2>2. call'[c] = k /\ \A d \in Calls : d # c => call'[d] = call[d]
    BY <1>11, InboxTyped DEF InboxInv
  <2>3. CallInv(c)'
    BY <1>10, <2>2 DEF CallInv, HasRead
  <2>4. QED
    BY <1>2, <1>7, <2>1, <2>2, <2>3, SameFiles, InboxMoves
<1>12. CASE UNCHANGED call
  <2>1. TypeOK'
    BY <1>2, <1>6, <1>8, <1>12, InboxTyped, InboxTypedNext DEF InboxInv, accessVars
  <2>2. QED
    BY <1>2, <1>7, <1>12, <2>1, ElsewhereKeepsInbox
<1>13. call' = [call EXCEPT ![c] = k] \/ UNCHANGED call
  BY <1>1, <1>9, <1>10
<1>14. QED
  BY <1>11, <1>12, <1>13

LEMMA IdleCall ==
  ASSUME NEW c \in Calls, call'[c] = NoCall PROVE CallInv(c)'
BY NoCallTyped DEF CallInv, HasRead

LEMMA ReadKeeps == ASSUME InboxInv, NEW c \in Calls, read(c) PROVE InboxInv'
<1> DEFINE p == HomeOf[c]
<1>1. PICK f \in SUBSET Entries : f = spool[p]
  BY CallTyped
<1>2. PICK u : u = [call[c] EXCEPT !.held = f]
  OBVIOUS
<1>3. u \in FetchCalls /\ u.held = f /\ u.settled = call[c].settled
  BY <1>2, CallTyped DEF FetchCalls
<1>4. PICK k : k = [u EXCEPT !.pc = "append"]
  OBVIOUS
<1>5. k \in FetchCalls /\ k.held = f /\ k.settled = call[c].settled
  BY <1>3, <1>4 DEF FetchCalls
<1>6. PICK lone \in SUBSET Filed(p) : lone = IF OtherReaders(c) = {} THEN Filed(p) ELSE {}
  OBVIOUS
<1>7. /\ call' = [call EXCEPT ![c] = k] /\ raced' = [raced EXCEPT ![p] = raced[p] \ lone]
      /\ UNCHANGED <<event, broker, delivered, row, done, seat, grant, epoch, proxy, spool, aged, happened>>
  BY <1>1, <1>2, <1>4, <1>6 DEF read, serverVars, accessVars
<1>8. raced \in [Proxies -> SUBSET Ids] /\ p \in Proxies /\ call \in [Calls -> FetchCalls]
  BY CallTyped, InboxTyped DEF InboxInv
<1>9. TypeOK'
  BY <1>5, <1>7, <1>8, InboxTyped, InboxTypedNext DEF InboxInv
<1>10. \A r \in Refs : RefInv(r)'
  BY <1>7 DEF InboxInv, RefInv
<1>11. /\ raced'[p] = raced[p] \ lone /\ \A q \in Proxies : q # p => raced'[q] = raced[q]
       /\ call'[c] = k /\ \A d \in Calls : d # c => call'[d] = call[d]
  BY <1>7, <1>8
<1>12. \A q \in Proxies : /\ FileInv(q)' /\ Filed(q)' = Filed(q)
                          /\ q # p => Out(q)' = Out(q) /\ Kept(q)' = Kept(q)
  BY <1>7, <1>11 DEF InboxInv, FileInv, Filed, Out, Kept
<1>13. Kept(p) \subseteq Kept(p)' /\ (OtherReaders(c) # {} => Out(p)' = Out(p))
  <2>1. Filed(p)' = Filed(p) /\ aged'[p] = aged[p] /\ done' = done
    BY <1>7, <1>8, <1>12
  <2>2. Kept(p) \subseteq Kept(p)'
    BY <1>11, <2>1 DEF Kept
  <2>3. OtherReaders(c) # {} => raced'[p] = raced[p]
    BY <1>6, <1>11
  <2>4. QED
    BY <2>1, <2>2, <2>3 DEF Out
<1>14. CallInv(c)'
  <2>1. HeldIds(c)' = Filed(p)'
    BY <1>1, <1>5, <1>7, <1>11 DEF HeldIds, Filed
  <2>2. \A e \in spool[p] : e.confirmed => e.id \in done
    BY <1>8 DEF InboxInv, FileInv
  <2>3. call[c].settled \subseteq done
    BY DEF InboxInv, CallInv
  <2>4. QED
    BY <1>1, <1>5, <1>7, <1>11, <2>1, <2>2, <2>3 DEF CallInv
<1>15. ASSUME NEW d \in Calls, d # c PROVE CallInv(d)'
  <2>1. HasRead(d) /\ HomeOf[d] = p => OtherReaders(c) # {}
    BY <1>15 DEF OtherReaders
  <2>2. HomeOf[d] \in Proxies
    BY InboxConstants
  <2>3. HasRead(d) => Out(HomeOf[d])' = Out(HomeOf[d]) /\ Filed(HomeOf[d])' = Filed(HomeOf[d])
    BY <1>12, <1>13, <2>1, <2>2
  <2>4. QED
    BY <1>7, <1>11, <1>15, <2>3, OtherCall
<1>16. QED
  BY <1>7, <1>9, <1>10, <1>12, <1>13, <1>14, <1>15, InboxMoves

(* The other calls, while entries of this one reach the file.              *)
(* A call writes some of its new entries.                                  *)
LEMMA CallWrites ==
  ASSUME InboxInv, UNCHANGED done, NEW c \in Calls, NEW entries \in SUBSET NewEntries(c),
         Written(HomeOf[c], entries, OtherReaders(c))
  PROVE  /\ spool' \in [Proxies -> SUBSET Entries]
         /\ aged' \in [Proxies -> SUBSET Ids] /\ raced' \in [Proxies -> SUBSET Ids]
         /\ \A q \in Proxies : FileInv(q)' /\ Kept(q) \subseteq Kept(q)'
         /\ Filed(HomeOf[c])' = Filed(HomeOf[c]) \cup {e.id : e \in entries}
         /\ Out(HomeOf[c]) \ {e.id : e \in entries} \subseteq Out(HomeOf[c])'
         /\ \A d \in Calls : d # c /\ call'[d] = call[d] => CallInv(d)'
<1>1. PICK p \in Proxies : p = HomeOf[c]
  BY CallTyped
<1>2. PICK new, readers : new = {e.id : e \in entries} /\ readers = OtherReaders(c)
  OBVIOUS
<1>3. /\ entries \in SUBSET Entries /\ new \subseteq Ids
      /\ \A e \in entries : ~e.confirmed /\ e.id \in new
      /\ \A i \in new : \E e \in entries : e.id = i
  <2>1. \A e \in Entries : e.id \in Ids
    BY DEF Entries
  <2>2. QED
    BY <1>2, <2>1, NewEntriesTyped
<1>4. /\ spool \in [Proxies -> SUBSET Entries]
      /\ aged \in [Proxies -> SUBSET Ids] /\ raced \in [Proxies -> SUBSET Ids]
  BY InboxTyped DEF InboxInv
<1>5. /\ spool' = [spool EXCEPT ![p] = spool[p] \cup entries]
      /\ aged' = [aged EXCEPT ![p] = aged[p] \ new]
      /\ raced' = [raced EXCEPT ![p] = IF readers = {} THEN raced[p] \ new ELSE raced[p] \cup new]
  BY <1>1, <1>2 DEF Written
<1>6. /\ spool'[p] = spool[p] \cup entries /\ aged'[p] = aged[p] \ new
      /\ readers = {} => raced'[p] = raced[p] \ new
      /\ readers # {} => raced'[p] = raced[p] \cup new
      /\ \A q \in Proxies : q # p => spool'[q] = spool[q] /\ aged'[q] = aged[q] /\ raced'[q] = raced[q]
  BY <1>4, <1>5
<1>7. /\ spool' \in [Proxies -> SUBSET Entries]
      /\ aged' \in [Proxies -> SUBSET Ids] /\ raced' \in [Proxies -> SUBSET Ids]
  BY <1>3, <1>4, <1>5
<1>8. /\ \A q \in Proxies : /\ FileInv(q)' /\ Kept(q) \subseteq Kept(q)'
                            /\ q # p => Filed(q)' = Filed(q) /\ Out(q)' = Out(q)
      /\ Filed(p)' = Filed(p) \cup new /\ Out(p) \ new \subseteq Out(p)'
      /\ readers # {} => Out(p) \cup new \subseteq Out(p)'
  <2>1. Filed(p)' = Filed(p) \cup new
    BY <1>3, <1>6 DEF Filed
  <2>2. Out(p) \ new \subseteq Out(p)' /\ (readers # {} => Out(p) \cup new \subseteq Out(p)')
    BY <1>6 DEF Out
  <2>3. \A q \in Proxies : q # p => Filed(q)' = Filed(q) /\ Out(q)' = Out(q) /\ Kept(q)' = Kept(q)
    BY <1>6 DEF Filed, Out, Kept
  <2>4. Kept(p) \subseteq Kept(p)'
    BY <1>6, <2>1 DEF Kept
  <2>5. ASSUME NEW q \in Proxies PROVE FileInv(q)'
    <3>1. \A e \in spool[q] : e.confirmed => e.id \in done
      BY DEF InboxInv, FileInv
    <3>2. QED
      BY <1>3, <1>6, <3>1 DEF FileInv
  <2>6. QED
    BY <2>1, <2>2, <2>3, <2>4, <2>5
<1>9. ASSUME NEW d \in Calls, d # c, call'[d] = call[d] PROVE CallInv(d)'
  <2>1. PICK q \in Proxies : q = HomeOf[d]
    BY InboxConstants
  <2>2. HasRead(d) /\ q = p => readers # {}
    BY <1>1, <1>2, <1>9, <2>1 DEF OtherReaders
  <2>3. HasRead(d) => /\ Out(q) \subseteq Out(q)' /\ Filed(q)' \subseteq Filed(q) \cup Out(q)'
                      /\ Filed(q) \subseteq Filed(q)' \cup Out(q)'
    BY <1>8, <2>2
  <2>4. QED
    BY <1>9, <2>1, <2>3, OtherCall
<1>10. QED
  BY <1>1, <1>2, <1>7, <1>8, <1>9

LEMMA AppendKeeps == ASSUME InboxInv, NEW c \in Calls, append(c) PROVE InboxInv'
<1>0. PICK p \in Proxies : p = HomeOf[c]
  BY CallTyped
<1>1. PICK f \in SUBSET Entries : f = call[c].held \cup NewEntries(c)
  BY CallTyped, NewEntriesTyped
<1>2. PICK u : u = [NoCall EXCEPT !.pc = "confirm"]
  OBVIOUS
<1>3. u \in FetchCalls /\ u.settled = {}
  BY <1>2 DEF NoCall, FetchCalls
<1>4. PICK j : j = [u EXCEPT !.held = f]
  OBVIOUS
<1>5. j \in FetchCalls /\ j.held = f /\ j.settled = {}
  BY <1>3, <1>4 DEF FetchCalls
<1>6. PICK k \in FetchCalls : /\ k = NoCall \/ (k.held = f /\ k.settled = {})
                              /\ call' = [call EXCEPT ![c] = k]
  <2>1. Holding(f) = j \/ Holding(f) = NoCall
    BY <1>2, <1>4 DEF Holding
  <2>2. call' = [call EXCEPT ![c] = Holding(f)]
    BY <1>1 DEF append
  <2>3. QED
    BY <1>5, <2>1, <2>2, NoCallTyped
<1>7. /\ call[c].pc = "append" /\ Written(p, NewEntries(c), OtherReaders(c))
      /\ UNCHANGED <<event, broker, delivered, row, done, seat, grant, epoch, proxy, happened>>
  BY <1>0 DEF append, serverVars, accessVars
<1>8. PICK new : new = {e.id : e \in NewEntries(c)}
  OBVIOUS
<1>9. /\ spool' \in [Proxies -> SUBSET Entries]
      /\ aged' \in [Proxies -> SUBSET Ids] /\ raced' \in [Proxies -> SUBSET Ids]
      /\ \A q \in Proxies : FileInv(q)' /\ Kept(q) \subseteq Kept(q)'
      /\ Filed(p)' = Filed(p) \cup new /\ Out(p) \ new \subseteq Out(p)'
      /\ \A d \in Calls : d # c /\ call'[d] = call[d] => CallInv(d)'
  BY <1>0, <1>7, <1>8, CallWrites
<1>10. call'[c] = k /\ (\A d \in Calls : d # c => call'[d] = call[d]) /\ call' \in [Calls -> FetchCalls]
  BY <1>6, InboxTyped DEF InboxInv
<1>11. TypeOK'
  BY <1>7, <1>9, <1>10, InboxTyped, InboxTypedNext DEF InboxInv
<1>12. \A r \in Refs : RefInv(r)'
  BY <1>7 DEF InboxInv, RefInv
<1>13. CallInv(c)'
  <2>1. CASE k = NoCall
    BY <1>10, <2>1, IdleCall
  <2>2. CASE k.held = f /\ k.settled = {}
    <3>1. HeldIds(c)' = HeldIds(c) \cup new
      BY <1>1, <1>8, <1>10, <2>2 DEF HeldIds
    <3>2. /\ HeldIds(c) \subseteq Filed(p) \cup Out(p) /\ Filed(p) \subseteq HeldIds(c) \cup Out(p)
          /\ \A e \in call[c].held : e.confirmed => e.id \in done
      BY <1>0, <1>7 DEF InboxInv, CallInv, HasRead
    <3>3. \A e \in f : e.confirmed => e.id \in done
      BY <1>1, <3>2, NewEntriesTyped
    <3>4. HeldIds(c)' \subseteq Filed(p)' \cup Out(p)' /\ Filed(p)' \subseteq HeldIds(c)' \cup Out(p)'
      BY <1>9, <3>1, <3>2
    <3>5. QED
      BY <1>0, <1>7, <1>10, <2>2, <3>3, <3>4 DEF CallInv
  <2>3. QED
    BY <1>6, <2>1, <2>2
<1>14. ASSUME NEW d \in Calls, d # c PROVE CallInv(d)'
  BY <1>9, <1>10, <1>14
<1>15. QED
  BY <1>7, <1>9, <1>11, <1>12, <1>13, <1>14, InboxMoves

LEMMA AppendFailsKeeps == ASSUME InboxInv, NEW c \in Calls, AppendFails(c) PROVE InboxInv'
<1>1. /\ call' = [call EXCEPT ![c] = NoCall] /\ Happens
      /\ UNCHANGED <<event, broker, delivered, row, done, seat, grant, epoch, proxy>>
  BY DEF AppendFails, serverVars, accessVars
<1>2. PICK part \in SUBSET NewEntries(c) : Written(HomeOf[c], part, OtherReaders(c))
  BY DEF AppendFails
<1>3. /\ spool' \in [Proxies -> SUBSET Entries]
      /\ aged' \in [Proxies -> SUBSET Ids] /\ raced' \in [Proxies -> SUBSET Ids]
      /\ \A q \in Proxies : FileInv(q)' /\ Kept(q) \subseteq Kept(q)'
      /\ \A d \in Calls : d # c /\ call'[d] = call[d] => CallInv(d)'
  BY <1>1, <1>2, CallWrites
<1>4. call'[c] = NoCall /\ \A d \in Calls : d # c => call'[d] = call[d]
  BY <1>1, InboxTyped DEF InboxInv
<1>5. TypeOK'
  BY <1>1, <1>3, NoCallTyped, HappensTyped, InboxTyped, InboxTypedNext DEF InboxInv
<1>6. \A r \in Refs : RefInv(r)'
  BY <1>1 DEF InboxInv, RefInv
<1>7. ASSUME NEW d \in Calls PROVE CallInv(d)'
  BY <1>3, <1>4, IdleCall
<1>8. QED
  BY <1>1, <1>3, <1>5, <1>6, <1>7, InboxMoves

LEMMA KeepEndsKeeps == ASSUME InboxInv, NEW p \in Proxies, KeepEnds(p) PROVE InboxInv'
<1>1. PICK e \in spool[p] : aged' = [aged EXCEPT ![p] = aged[p] \cup {e.id}]
  BY DEF KeepEnds
<1>2. UNCHANGED <<event, broker, delivered, row, done, seat, grant, epoch, proxy, call, spool, raced>>
  BY DEF KeepEnds, serverVars, accessVars
<1>3. aged \in [Proxies -> SUBSET Ids] /\ e.id \in Ids
  BY <1>1, InboxTyped DEF InboxInv, Entries
<1>4. aged' \in [Proxies -> SUBSET Ids] /\ \A q \in Proxies : aged[q] \subseteq aged'[q]
  BY <1>1, <1>3
<1>5. TypeOK'
  BY <1>2, <1>4, HappensTyped, InboxTyped, InboxTypedNext DEF InboxInv, KeepEnds
<1>6. \A r \in Refs : RefInv(r)'
  BY <1>2 DEF InboxInv, RefInv
<1>7. \A q \in Proxies : /\ FileInv(q)' /\ Filed(q)' = Filed(q) /\ Out(q) \subseteq Out(q)'
                         /\ Kept(q) \subseteq Kept(q)'
  BY <1>2, <1>4 DEF InboxInv, FileInv, Filed, Out, Kept
<1>8. ASSUME NEW d \in Calls PROVE CallInv(d)'
  BY <1>2, <1>7, OtherCall, InboxConstants
<1>9. QED
  BY <1>2, <1>5, <1>6, <1>7, <1>8, InboxMoves

(* What a call asks to have confirmed is in the file of its process, or    *)
(* Out.                                                                    *)
LEMMA AskedIsHeld ==
  ASSUME InboxInv, NEW c \in Calls, call[c].pc = "confirm"
  PROVE  \A i \in Ask(c) : i \in Ids /\ i \in Filed(HomeOf[c]) \cup Out(HomeOf[c])
<1>1. HeldIds(c) \subseteq Filed(HomeOf[c]) \cup Out(HomeOf[c])
  BY DEF InboxInv, CallInv, HasRead
<1>2. \A e \in Entries : e.id \in Ids
  BY DEF Entries
<1>3. Ask(c) \subseteq HeldIds(c)
  BY DEF Ask, HeldIds
<1>4. Ask(c) \subseteq Ids
  BY <1>2, CallTyped DEF Ask
<1>5. QED
  BY <1>1, <1>3, <1>4

(* What it confirms was not confirmed before.                              *)
LEMMA NewlyIsNew ==
  ASSUME InboxInv, NEW i \in Ids, row[i[1]].open, row[i[1]].n = i[2] PROVE i \notin done
<1>1. i[1] \in Refs
  BY DEF Ids
<1>2. QED
  BY <1>1 DEF InboxInv, RefInv

LEMMA ConfirmKeeps == ASSUME InboxInv, NEW c \in Calls, confirm(c) PROVE InboxInv'
<1>1. call[c].pc = "confirm" /\ UNCHANGED <<event, accessVars, proxy, spool, aged, raced>>
  BY DEF confirm, diskVars
<1>2. PICK newly \in SUBSET Ask(c) : newly = {i \in Ask(c) : /\ row[i[1]].open /\ row[i[1]].n = i[2]
                                                             /\ row[i[1]].epoch = epoch}
  OBVIOUS
<1>3. PICK refs : refs = {i[1] : i \in newly}
  OBVIOUS
<1>4. /\ done' = done \cup newly
      /\ delivered' = delivered \cup (refs \cap Messages)
      /\ row' = [r \in Refs |-> IF r \in refs THEN Closed(r) ELSE row[r]]
      /\ \E acked : broker' = ack_reference(acked)
      /\ \/ /\ call' = [call EXCEPT ![c].pc = "rewrite", ![c].settled = settled_ids(c, newly)]
            /\ UNCHANGED happened
         \/ Happens /\ call' = [call EXCEPT ![c] = NoCall]
  BY <1>2, <1>3 DEF confirm
<1>5. /\ newly \subseteq Ids /\ Ask(c) \subseteq Ids
      /\ \A i \in newly : i \in Filed(HomeOf[c]) \cup Out(HomeOf[c])
  BY <1>1, <1>2, AskedIsHeld
<1>6. row' \in [Refs -> HandOuts] /\ \A r \in Refs : /\ row'[r].n = row[r].n
                                                     /\ row'[r].open => r \notin refs /\ row[r].open
  <2>1. ASSUME NEW r \in Refs
        PROVE  /\ Closed(r) \in HandOuts /\ Closed(r).n = row[r].n /\ ~Closed(r).open
               /\ row[r] \in HandOuts
    <3>1. row[r] \in HandOuts
      BY InboxRows
    <3>2. PICK n \in 0..MaxRows : n = row[r].n
      BY <3>1 DEF HandOuts
    <3>3. PICK new : new = [NoRow EXCEPT !.n = n]
      OBVIOUS
    <3>4. new \in HandOuts /\ new.n = n /\ ~new.open
      BY <3>3, NoRowTyped DEF HandOuts
    <3>5. Closed(r) = new
      BY <3>2, <3>3 DEF Closed
    <3>6. QED
      BY <3>1, <3>2, <3>4, <3>5
  <2>2. QED
    BY <1>4, <2>1
<1>7. \A r \in Refs : RefInv(r)'
  <2> SUFFICES ASSUME NEW r \in Refs PROVE RefInv(r)'
    OBVIOUS
  <2>1. RefInv(r) /\ event'[r] = event[r] /\ row[r].n \in Nat
    <3>1. row[r] \in HandOuts /\ MaxRows \in Nat
      BY InboxRows, InboxConstants
    <3>2. row[r].n \in Nat
      BY <3>1 DEF HandOuts
    <3>3. QED
      BY <1>1, <3>2 DEF InboxInv
  <2>2. \A i \in newly : i[1] = r => r \in refs /\ i[2] = row[r].n
    BY <1>2, <1>3
  <2>3. \A i \in done' : i[1] = r => i[2] <= row'[r].n /\ (i[2] = row'[r].n => ~row'[r].open)
    BY <1>4, <1>6, <2>1, <2>2 DEF RefInv
  <2>4. QED
    BY <1>6, <2>1, <2>3 DEF RefInv
<1>8. broker' \in [Refs -> Copies] /\ happened' \in 0..MaxHappens
  BY <1>4, BrokerTyped, HappensTyped DEF InboxInv
<1>9. done' \subseteq Ids /\ delivered' \subseteq Messages
  BY <1>4, <1>5, InboxTyped DEF InboxInv
<1>10. PICK k \in FetchCalls : /\ call' = [call EXCEPT ![c] = k]
                               /\ \/ k = NoCall
                                  \/ k.held = call[c].held /\ k.settled \subseteq done'
  <2>1. CASE call' = [call EXCEPT ![c] = NoCall]
    BY <2>1, NoCallTyped
  <2>2. CASE call' = [call EXCEPT ![c].pc = "rewrite", ![c].settled = settled_ids(c, newly)]
    <3>1. PICK ids \in SUBSET Ids : ids = settled_ids(c, newly) /\ ids \subseteq done'
      BY <1>4, <1>5 DEF settled_ids
    <3>2. PICK u : u = [call[c] EXCEPT !.pc = "rewrite"]
      OBVIOUS
    <3>3. u \in FetchCalls /\ u.held = call[c].held
      BY <3>2, CallTyped DEF FetchCalls
    <3>4. PICK k : k = [u EXCEPT !.settled = ids]
      OBVIOUS
    <3>5. k \in FetchCalls /\ k.held = call[c].held /\ k.settled = ids
      BY <3>3, <3>4 DEF FetchCalls
    <3>6. call' = [call EXCEPT ![c] = k]
      BY <2>2, <3>1, <3>2, <3>4
    <3>7. QED
      BY <3>1, <3>5, <3>6
  <2>3. QED
    BY <1>4, <2>1, <2>2
<1>11. TypeOK'
  BY <1>1, <1>6, <1>8, <1>9, <1>10, InboxTyped, InboxTypedNext DEF InboxInv, accessVars
<1>12. call'[c] = k /\ \A d \in Calls : d # c => call'[d] = call[d]
  BY <1>10, InboxTyped DEF InboxInv
<1>13. done \subseteq done'
  BY <1>4
<1>14. /\ \A q \in Proxies : /\ FileInv(q)' /\ Kept(q)' = Kept(q) /\ Filed(q)' = Filed(q)
                             /\ Out(q) \subseteq Out(q)'
       /\ \A d \in Calls : call'[d] = call[d] => CallInv(d)'
  BY <1>1, <1>13, SameFiles
<1>15. CallInv(c)'
  <2>1. CASE k = NoCall
    BY <1>12, <2>1, IdleCall
  <2>2. CASE k.held = call[c].held /\ k.settled \subseteq done'
    <3>1. HeldIds(c)' = HeldIds(c)
      BY <1>12, <2>2 DEF HeldIds
    <3>2. /\ HeldIds(c) \subseteq Filed(HomeOf[c]) \cup Out(HomeOf[c])
          /\ Filed(HomeOf[c]) \subseteq HeldIds(c) \cup Out(HomeOf[c])
          /\ \A e \in call[c].held : e.confirmed => e.id \in done
      BY <1>1 DEF InboxInv, CallInv, HasRead
    <3>3. Filed(HomeOf[c])' = Filed(HomeOf[c]) /\ Out(HomeOf[c]) \subseteq Out(HomeOf[c])'
      BY <1>1, <1>13 DEF Filed, Out
    <3>4. /\ HeldIds(c)' \subseteq Filed(HomeOf[c])' \cup Out(HomeOf[c])'
          /\ Filed(HomeOf[c])' \subseteq HeldIds(c)' \cup Out(HomeOf[c])'
      BY <3>1, <3>2, <3>3
    <3>5. \A e \in call'[c].held : e.confirmed => e.id \in done'
      BY <1>12, <1>13, <2>2, <3>2
    <3>6. call'[c].settled \subseteq done'
      BY <1>12, <2>2
    <3>7. QED
      BY <3>4, <3>5, <3>6 DEF CallInv
  <2>3. QED
    BY <1>10, <2>1, <2>2
<1>16. ASSUME NEW r \in delivered', r \notin delivered
       PROVE  \E q \in Proxies : \E i \in Kept(q)' : i[1] = r
  <2>1. PICK i \in newly : i[1] = r
    BY <1>3, <1>4, <1>16
  <2>2. PICK q \in Proxies : q = HomeOf[c]
    BY CallTyped
  <2>3. i \in Kept(q)'
    BY <1>5, <1>14, <2>2 DEF Kept, Out
  <2>4. QED
    BY <2>1, <2>3
<1>17. QED
  BY <1>7, <1>11, <1>12, <1>14, <1>15, <1>16, InboxMoves

LEMMA RefusedKeeps == ASSUME InboxInv, NEW c \in Calls, ConfirmRefused(c) PROVE InboxInv'
<1>1. /\ call' = [call EXCEPT ![c] = NoCall]
      /\ UNCHANGED <<event, broker, delivered, row, done, seat, grant, epoch, proxy, spool, aged,
                     raced, happened>>
  BY DEF ConfirmRefused, serverVars, accessVars, diskVars
<1>2. TypeOK'
  BY <1>1, NoCallTyped, InboxTyped, InboxTypedNext DEF InboxInv
<1>3. \A r \in Refs : RefInv(r)'
  BY <1>1 DEF InboxInv, RefInv
<1>4. call'[c] = NoCall /\ \A d \in Calls : d # c => call'[d] = call[d]
  BY <1>1, InboxTyped DEF InboxInv
<1>5. QED
  BY <1>1, <1>2, <1>3, <1>4, IdleCall, SameFiles, InboxMoves

(* What a call puts in the place of the file.                              *)
LEMMA MarkedIds ==
  ASSUME InboxInv, NEW c \in Calls
  PROVE  /\ Marked(c) \in SUBSET Entries
         /\ \A g \in Marked(c) : g.id \in HeldIds(c) /\ (g.confirmed => g.id \in done)
         /\ \A i \in HeldIds(c) : \E g \in Marked(c) : g.id = i
<1>1. ASSUME NEW e \in call[c].held
      PROVE  LET g == [e EXCEPT !.confirmed = @ \/ e.id \in call[c].settled]
             IN  g \in Entries /\ g.id = e.id /\ (g.confirmed => e.id \in done)
  <2>1. PICK b \in BOOLEAN : b = (e.confirmed \/ e.id \in call[c].settled)
    OBVIOUS
  <2>2. e \in Entries
    BY CallTyped
  <2>3. LET g == [e EXCEPT !.confirmed = b]
        IN  g \in Entries /\ g.id = e.id /\ g.confirmed = b
    BY <2>2 DEF Entries
  <2>4. b => e.id \in done
    BY <2>1 DEF InboxInv, CallInv
  <2>5. QED
    BY <2>1, <2>3, <2>4
<1>2. \A g \in Marked(c) : \E e \in call[c].held :
         g = [e EXCEPT !.confirmed = @ \/ e.id \in call[c].settled]
  BY DEF Marked
<1>3. \A e \in call[c].held : [e EXCEPT !.confirmed = @ \/ e.id \in call[c].settled] \in Marked(c)
  BY DEF Marked
<1>4. \A g \in Marked(c) : g \in Entries /\ g.id \in HeldIds(c) /\ (g.confirmed => g.id \in done)
  BY <1>1, <1>2 DEF HeldIds
<1>5. ASSUME NEW i \in HeldIds(c) PROVE \E g \in Marked(c) : g.id = i
  <2>1. PICK e \in call[c].held : e.id = i
    BY DEF HeldIds
  <2>2. QED
    BY <1>1, <1>3, <2>1
<1>6. QED
  BY <1>4, <1>5

(* The file of a step of rewrite: what it gains and loses is Out.          *)
LEMMA RewrittenFile ==
  ASSUME InboxInv, NEW c \in Calls, rewrite(c)
  PROVE  /\ spool' \in [Proxies -> SUBSET Entries]
         /\ \A q \in Proxies : q # HomeOf[c] => spool'[q] = spool[q]
         /\ \A e \in spool'[HomeOf[c]] : e.confirmed => e.id \in done
         /\ Filed(HomeOf[c])' \subseteq Filed(HomeOf[c]) \cup Out(HomeOf[c])
         /\ Filed(HomeOf[c]) \subseteq Filed(HomeOf[c])' \cup Out(HomeOf[c])
<1>1. HomeOf[c] \in Proxies /\ spool \in [Proxies -> SUBSET Entries]
  BY CallTyped, InboxTyped DEF InboxInv
<1>2. CASE UNCHANGED spool
  BY <1>1, <1>2 DEF Filed, InboxInv, FileInv
<1>3. CASE spool' = [spool EXCEPT ![HomeOf[c]] =
                       {e \in Marked(c) : e.confirmed => e.id \notin aged[HomeOf[c]]}]
  <2>1. PICK f \in SUBSET Entries : f = {e \in Marked(c) : e.confirmed => e.id \notin aged[HomeOf[c]]}
    BY MarkedIds
  <2>2. /\ spool' \in [Proxies -> SUBSET Entries] /\ spool'[HomeOf[c]] = f
        /\ \A q \in Proxies : q # HomeOf[c] => spool'[q] = spool[q]
    BY <1>1, <1>3, <2>1
  <2>3. Filed(HomeOf[c])' = {e.id : e \in f}
    BY <2>2 DEF Filed
  <2>4. /\ \A e \in f : e.id \in HeldIds(c) /\ (e.confirmed => e.id \in done)
        /\ \A i \in HeldIds(c) : (\E e \in f : e.id = i) \/ i \in Out(HomeOf[c])
    <3>1. \A g \in Marked(c) : g \in f \/ g.id \in Out(HomeOf[c])
      BY <2>1, MarkedIds DEF Out
    <3>2. QED
      BY <2>1, <3>1, MarkedIds
  <2>5. /\ HeldIds(c) \subseteq Filed(HomeOf[c]) \cup Out(HomeOf[c])
        /\ Filed(HomeOf[c]) \subseteq HeldIds(c) \cup Out(HomeOf[c])
    BY DEF InboxInv, CallInv, HasRead, rewrite
  <2>6. QED
    BY <2>2, <2>3, <2>4, <2>5
<1>4. QED
  BY <1>2, <1>3 DEF rewrite

LEMMA RewriteKeeps == ASSUME InboxInv, NEW c \in Calls, rewrite(c) PROVE InboxInv'
<1>1. /\ call[c].pc = "rewrite" /\ call' = [call EXCEPT ![c] = NoCall]
      /\ UNCHANGED <<event, broker, delivered, row, done, seat, grant, epoch, proxy, aged, raced,
                     happened>>
  BY DEF rewrite, serverVars, accessVars
<1>2. PICK p \in Proxies : p = HomeOf[c]
  BY CallTyped
<1>3. /\ spool' \in [Proxies -> SUBSET Entries]
      /\ \A q \in Proxies : q # p => spool'[q] = spool[q]
      /\ \A e \in spool'[p] : e.confirmed => e.id \in done
      /\ Filed(p)' \subseteq Filed(p) \cup Out(p) /\ Filed(p) \subseteq Filed(p)' \cup Out(p)
  BY <1>2, RewrittenFile
<1>4. TypeOK'
  BY <1>1, <1>3, NoCallTyped, InboxTyped, InboxTypedNext DEF InboxInv
<1>5. \A r \in Refs : RefInv(r)'
  BY <1>1 DEF InboxInv, RefInv
<1>6. call'[c] = NoCall /\ \A d \in Calls : d # c => call'[d] = call[d]
  BY <1>1, InboxTyped DEF InboxInv
<1>7. \A q \in Proxies : /\ Out(q)' = Out(q)
                         /\ q # p => Filed(q)' = Filed(q)
  BY <1>1, <1>3 DEF Out, Filed
<1>8. ASSUME NEW q \in Proxies PROVE Kept(q) \subseteq Kept(q)'
  <2>1. Filed(q) \subseteq Filed(q)' \cup Out(q)
    BY <1>3, <1>7
  <2>2. QED
    BY <1>1, <2>1 DEF Kept, Out
<1>9. ASSUME NEW q \in Proxies PROVE FileInv(q)'
  <2>1. \A e \in spool'[q] : e.confirmed => e.id \in done
    BY <1>3 DEF InboxInv, FileInv
  <2>2. QED
    BY <1>1, <2>1 DEF FileInv
<1>10. ASSUME NEW d \in Calls, d # c PROVE CallInv(d)'
  <2>1. PICK q \in Proxies : q = HomeOf[d]
    BY InboxConstants
  <2>2. /\ Out(q) \subseteq Out(q)' /\ Filed(q)' \subseteq Filed(q) \cup Out(q)'
        /\ Filed(q) \subseteq Filed(q)' \cup Out(q)'
    BY <1>3, <1>7
  <2>3. QED
    BY <1>1, <1>6, <1>10, <2>1, <2>2, OtherCall
<1>11. ASSUME NEW d \in Calls PROVE CallInv(d)'
  BY <1>6, <1>10, IdleCall
<1>12. QED
  BY <1>1, <1>4, <1>5, <1>8, <1>9, <1>11, InboxMoves

LEMMA DiesKeeps == ASSUME InboxInv, NEW p \in Proxies, Dies(p) PROVE InboxInv'
<1>1. /\ proxy' = [proxy EXCEPT ![p] = 0] /\ Happens
      /\ call' = [c \in Calls |-> IF HomeOf[c] = p THEN NoCall ELSE call[c]]
      /\ UNCHANGED <<event, broker, delivered, row, done, seat, grant, epoch>>
  BY DEF Dies, serverVars, accessVars
<1>2. PICK part \in SUBSET UNION {NewEntries(c) : c \in {d \in Calls : HomeOf[d] = p
                                                                     /\ call[d].pc = "append"}} :
         Written(p, part, {})
  BY DEF Dies
<1>3. part \in SUBSET Entries /\ \A e \in part : ~e.confirmed
  BY NewEntriesTyped
<1>4. PICK new \in SUBSET Ids : new = {e.id : e \in part}
  <2>1. \A e \in Entries : e.id \in Ids
    BY DEF Entries
  <2>2. QED
    BY <1>3, <2>1
<1>5. /\ spool \in [Proxies -> SUBSET Entries]
      /\ aged \in [Proxies -> SUBSET Ids] /\ raced \in [Proxies -> SUBSET Ids]
  BY InboxTyped DEF InboxInv
<1>6. /\ spool' = [spool EXCEPT ![p] = spool[p] \cup part]
      /\ aged' = [aged EXCEPT ![p] = aged[p] \ new]
      /\ raced' = [raced EXCEPT ![p] = raced[p] \ new]
  BY <1>2, <1>4 DEF Written
<1>7. /\ spool' \in [Proxies -> SUBSET Entries]
      /\ aged' \in [Proxies -> SUBSET Ids] /\ raced' \in [Proxies -> SUBSET Ids]
      /\ spool'[p] = spool[p] \cup part /\ aged'[p] = aged[p] \ new /\ raced'[p] = raced[p] \ new
      /\ \A q \in Proxies : q # p => spool'[q] = spool[q] /\ aged'[q] = aged[q] /\ raced'[q] = raced[q]
  BY <1>3, <1>5, <1>6
<1>8. TypeOK'
  <2>1. proxy' \in [Proxies -> 0..MaxEpoch]
    BY <1>1, InboxTyped, InboxConstants DEF InboxInv
  <2>2. call' \in [Calls -> FetchCalls]
    BY <1>1, CallTyped, NoCallTyped
  <2>3. QED
    BY <1>1, <1>7, <2>1, <2>2, HappensTyped, InboxTyped, InboxTypedNext DEF InboxInv
<1>9. \A r \in Refs : RefInv(r)'
  BY <1>1 DEF InboxInv, RefInv
<1>10. ASSUME NEW q \in Proxies PROVE FileInv(q)'
  <2>1. \A e \in spool[q] : e.confirmed => e.id \in done
    BY DEF InboxInv, FileInv
  <2>2. QED
    BY <1>1, <1>3, <1>7, <2>1 DEF FileInv
<1>11. Filed(p)' = Filed(p) \cup new
  BY <1>4, <1>7 DEF Filed
<1>12. \A q \in Proxies : q # p => Filed(q)' = Filed(q) /\ Out(q)' = Out(q) /\ Kept(q)' = Kept(q)
  BY <1>1, <1>7 DEF Filed, Out, Kept
<1>13. Kept(p) \subseteq Kept(p)'
  BY <1>7, <1>11 DEF Kept
<1>14. ASSUME NEW d \in Calls PROVE CallInv(d)'
  <2>1. CASE HomeOf[d] = p
    BY <1>1, <2>1, IdleCall
  <2>2. CASE HomeOf[d] # p
    <3>1. PICK q \in Proxies : q = HomeOf[d] /\ q # p
      BY <2>2, InboxConstants
    <3>2. Filed(q)' = Filed(q) /\ Out(q)' = Out(q) /\ call'[d] = call[d]
      BY <1>1, <1>12, <3>1
    <3>3. QED
      BY <1>1, <3>1, <3>2, OtherCall
  <2>3. QED
    BY <2>1, <2>2
<1>15. QED
  BY <1>1, <1>8, <1>9, <1>10, <1>12, <1>13, <1>14, InboxMoves

LEMMA InboxStep == ASSUME InboxInv, [Next]_vars PROVE InboxInv'
<1>1. CASE UNCHANGED vars
  <2>1. TypeOK'
    BY <1>1, InboxTyped, InboxTypedNext DEF InboxInv, vars
  <2>2. QED
    BY <1>1, <2>1, ElsewhereKeepsInbox DEF vars, InboxInv, RefInv
<1>2. ASSUME NEW r \in Refs,
             enqueue_reference(r) \/ publish_pending(r) \/ BrokerDrops(r) \/ GraceEnds(r)
      PROVE  InboxInv'
  BY <1>2, EnqueueKeeps, PublishReferenceKeeps, AccessKeeps, GraceEndsKeeps
<1>3. CASE LeaveSeat \/ ChangeGrant
  BY <1>3, AccessKeeps
<1>4. ASSUME NEW p \in Proxies, Resume(p) \/ Dies(p) \/ KeepEnds(p) PROVE InboxInv'
  BY <1>4, AccessKeeps, DiesKeeps, KeepEndsKeeps
<1>5. ASSUME NEW c \in Calls, CallStep(c) \/ AppendFails(c) PROVE InboxInv'
  BY <1>5, FetchKeeps, ReadKeeps, AppendKeeps, AppendFailsKeeps, ConfirmKeeps, RefusedKeeps, RewriteKeeps
  DEF CallStep
<1>6. QED
  BY <1>1, <1>2, <1>3, <1>4, <1>5 DEF Next

LEMMA InboxInvariant == Spec => []InboxInv
<1>1. Init => InboxInv
  BY InboxInitially
<1>2. InboxInv /\ [Next]_vars => InboxInv'
  BY InboxStep
<1>3. QED
  BY <1>1, <1>2, PTL DEF Spec

(* For any number of processes, references and calls, overlapping or not:  *)
(* a message the bus counts as delivered is in the file of a process, or   *)
(* was for KEEP_HOURS, or was appended while another call of its process   *)
(* was between its read and its rewrite.  spool_and_confirm syncs before   *)
(* it confirms, and rewrite drops only what is old and confirmed.          *)
THEOREM DeliveredIsOnDisk == Spec => []DeliveredIsKept
<1>1. InboxInv => DeliveredIsKept
  BY DEF InboxInv
<1>2. QED
  BY <1>1, InboxInvariant, PTL

(* The steps that take an entry out of a file.                             *)
LEMMA OnlyRewriteDrops ==
  ASSUME InboxInv, Next, NEW p \in Proxies, NEW i \in Filed(p), i \notin Filed(p)'
  PROVE  \E c \in Calls : rewrite(c) /\ HomeOf[c] = p
<1>1. ASSUME NEW q \in Proxies, NEW entries, spool' = [spool EXCEPT ![q] = spool[q] \cup entries]
      PROVE  FALSE
  <2>1. spool[p] \subseteq spool'[p]
    BY <1>1, InboxTyped DEF InboxInv
  <2>2. QED
    BY <2>1 DEF Filed
<1>2. spool' # spool
  BY DEF Filed
<1>3. ASSUME NEW c \in Calls, append(c) \/ AppendFails(c) PROVE FALSE
  BY <1>1, <1>3, CallTyped DEF append, AppendFails, Written
<1>4. ASSUME NEW q \in Proxies, Dies(q) PROVE FALSE
  BY <1>1, <1>4 DEF Dies, Written
<1>5. PICK c \in Calls : rewrite(c)
  BY <1>2, <1>3, <1>4
  DEF Next, CallStep, enqueue_reference, publish_pending, BrokerDrops, GraceEnds, LeaveSeat, ChangeGrant,
      Resume, KeepEnds, fetch, read, confirm, ConfirmRefused, diskVars
<1>6. HomeOf[c] = p
  BY <1>5, RewrittenFile DEF Filed
<1>7. QED
  BY <1>5, <1>6

(* An entry leaves a file only once it is old and the bus has confirmed    *)
(* it, unless it was appended while another call of its process was        *)
(* between its read and its rewrite: rewrite keeps what the bus has not    *)
(* been told of, however old.                                              *)
THEOREM ToldBeforeDropped == Spec => OnlyToldIsDropped
<1> DEFINE Told == \A p \in Proxies : \A i \in Filed(p) \ Filed(p)' :
                      i \in raced[p] \/ (i \in aged[p] /\ i \in done)
<1>1. InboxInv /\ [Next]_vars => [Told]_vars
  <2> SUFFICES ASSUME InboxInv, Next, NEW p \in Proxies, NEW i \in Filed(p), i \notin Filed(p)'
               PROVE  i \in raced[p] \/ (i \in aged[p] /\ i \in done)
    OBVIOUS
  <2>1. PICK c \in Calls : rewrite(c) /\ HomeOf[c] = p
    BY OnlyRewriteDrops
  <2>2. Filed(HomeOf[c]) \subseteq Filed(HomeOf[c])' \cup Out(HomeOf[c])
    BY <2>1, RewrittenFile
  <2>3. Filed(HomeOf[c]) = Filed(p) /\ Filed(HomeOf[c])' = Filed(p)' /\ Out(HomeOf[c]) = Out(p)
    BY <2>1 DEF Filed, Out
  <2>4. QED
    BY <2>2, <2>3 DEF Out
<1>2. QED
  BY <1>1, InboxInvariant, PTL DEF Spec, OnlyToldIsDropped

(* A message becomes delivered only through the process that holds the     *)
(* window, with the reference in its file unless another call of it was    *)
(* between its read and its rewrite when it was appended: confirm runs     *)
(* under the epoch of the credential that asks.                            *)
THEOREM OnlyTheLiveWindowConfirms == Spec => DeliveredToTheLiveWindow
<1> DEFINE Live == \A r \in delivered' \ delivered :
                      \E p \in Proxies : /\ proxy[p] = epoch
                                         /\ \E i \in Filed(p) \cup raced[p] : i[1] = r
<1>1. InboxInv /\ [Next]_vars => [Live]_vars
  <2> SUFFICES ASSUME InboxInv, Next, NEW r \in delivered' \ delivered
               PROVE  \E p \in Proxies : /\ proxy[p] = epoch
                                         /\ \E i \in Filed(p) \cup raced[p] : i[1] = r
    OBVIOUS
  <2>1. PICK c \in Calls : confirm(c)
    BY DEF Next, CallStep, enqueue_reference, publish_pending, BrokerDrops, GraceEnds, LeaveSeat,
           ChangeGrant, Resume, Dies, KeepEnds, fetch, read, append, AppendFails, ConfirmRefused, rewrite,
           serverVars
  <2>2. call[c].pc = "confirm" /\ proxy[HomeOf[c]] = epoch
    BY <2>1 DEF confirm
  <2>3. PICK i \in Ask(c) : i[1] = r /\ row[i[1]].open /\ row[i[1]].n = i[2]
    BY <2>1 DEF confirm
  <2>4. i \in Ids /\ i \in Filed(HomeOf[c]) \cup Out(HomeOf[c])
    BY <2>2, AskedIsHeld
  <2>5. i \notin done
    BY <2>3, <2>4, NewlyIsNew
  <2>6. i \in Filed(HomeOf[c]) \cup raced[HomeOf[c]]
    BY <2>4, <2>5 DEF Out
  <2>7. QED
    BY <2>2, <2>3, <2>6, CallTyped
<1>2. QED
  BY <1>1, InboxInvariant, PTL DEF Spec, DeliveredToTheLiveWindow
=============================================================================
