------------------------------- MODULE Inbox --------------------------------
(***************************************************************************)
(* The inbox of one window: store/inbox.rs, the reference half of          *)
(* store/jetstream.rs, and the proxy's spool (spool.rs and                 *)
(* spool_and_confirm in proxy.rs).  A reference is queued in Postgres with *)
(* the message or the receipt it is about, copied to the broker, handed to *)
(* the window, written to its disk and only then confirmed; the broker is  *)
(* acknowledged last.                                                      *)
(*                                                                         *)
(* A fetch and a confirmation are one transaction each, under the share    *)
(* lock of the session row (Sessions), so a resume falls before or after   *)
(* one.  A call of the proxy is their sequence with the file operations in *)
(* between, and nothing keeps two calls that share a file apart.  A        *)
(* delivery id is <<reference, number of its row>>.                        *)
(***************************************************************************)
EXTENDS Naturals, FiniteSets

CONSTANTS Messages,     \* references to messages the window is a recipient of
          Receipts,     \* receipt notifications for messages it sent
          Proxies,      \* processes that may hold the window
          Registrars,   \* the ones that may have registered it
          Calls,        \* fetch calls in flight
          HomeOf,       \* Calls -> Proxies
          Batch,        \* references one fetch may hand out
          MAX_ATTEMPTS, \* publications of a reference before it is failed
          MaxRows,      \* bound on hand-out rows per reference
          MaxEpoch,     \* bound on resumes
          MaxHappens    \* bound on what happens to the inbox: references queued,
                        \* refused or dropped by the broker, changes of seat and
                        \* grant, deaths, lost answers, entries that grow old
                        \* and appends that fail

ASSUME InboxConstants ==
    /\ Messages \cap Receipts = {}
    /\ Registrars \subseteq Proxies
    /\ HomeOf \in [Calls -> Proxies]
    /\ Batch \in Nat \ {0} /\ MAX_ATTEMPTS \in Nat \ {0}
    /\ MaxRows \in Nat \ {0} /\ MaxEpoch \in Nat \ {0} /\ MaxHappens \in Nat

Refs == Messages \cup Receipts
Ids == Refs \X (1..MaxRows)

VARIABLES event,      \* Refs -> row of inbox_events
          broker,     \* Refs -> the broker's copy
          delivered,  \* messages whose receipt has delivered_at
          row,        \* Refs -> newest row of inbox_deliveries
          done,       \* ids of confirmed rows
          seat,       \* the window's membership is active
          grant,      \* its agent has the project's grant
          epoch,      \* the session's epoch
          proxy,      \* Proxies -> the epoch each process holds, 0 for none
          call,       \* Calls -> a fetch call of a proxy
          spool,      \* Proxies -> the file: a set of entries
          aged,       \* Proxies -> ids that were appended KEEP_HOURS ago
          raced,      \* history, Proxies -> ids that were appended between
                      \* another call's read of the file and its rewrite
          happened    \* how much has happened of what MaxHappens bounds

vars == <<event, broker, delivered, row, done, seat, grant, epoch, proxy, call,
          spool, aged, raced, happened>>

NoRow == [n |-> 0, open |-> FALSE, epoch |-> 0, recent |-> FALSE, ack |-> FALSE]

Entries == [id : Ids, confirmed : BOOLEAN]

NoCall == [pc |-> "idle", refs |-> {}, held |-> {}, settled |-> {}]

TypeOK ==
    /\ event \in [Refs -> [state : {"none", "pending", "published", "failed"},
                           attempts : 0..MAX_ATTEMPTS]]
    /\ broker \in [Refs -> {"none", "queued", "gone"}]
    /\ delivered \subseteq Messages
    /\ row \in [Refs -> [n : 0..MaxRows, open : BOOLEAN, epoch : 0..MaxEpoch,
                         recent : BOOLEAN, ack : BOOLEAN]]
    /\ done \subseteq Ids
    /\ seat \in BOOLEAN /\ grant \in BOOLEAN
    /\ epoch \in 1..MaxEpoch
    /\ proxy \in [Proxies -> 0..MaxEpoch]
    /\ call \in [Calls -> [pc : {"idle", "read", "append", "confirm", "rewrite"},
                           refs : SUBSET Ids, held : SUBSET Entries, settled : SUBSET Ids]]
    /\ spool \in [Proxies -> SUBSET Entries]
    /\ aged \in [Proxies -> SUBSET Ids] /\ raced \in [Proxies -> SUBSET Ids]
    /\ happened \in 0..MaxHappens

Init ==
    /\ event = [r \in Refs |-> [state |-> "none", attempts |-> 0]]
    /\ broker = [r \in Refs |-> "none"]
    /\ delivered = {}
    /\ row = [r \in Refs |-> NoRow]
    /\ done = {}
    /\ seat = TRUE /\ grant = TRUE
    /\ epoch = 1
    /\ \E first \in Registrars : proxy = [p \in Proxies |-> IF p = first THEN 1 ELSE 0]
    /\ call = [c \in Calls |-> NoCall]
    /\ spool = [p \in Proxies |-> {}]
    /\ aged = [p \in Proxies |-> {}] /\ raced = [p \in Proxies |-> {}]
    /\ happened = 0

Happens ==
    /\ happened < MaxHappens
    /\ happened' = happened + 1

serverVars == <<event, broker, delivered, row, done>>
accessVars == <<seat, grant, epoch>>
diskVars == <<spool, aged, raced>>

----------------------------------------------------------------------------
(* The broker's half: it takes a reference once, under its id; offers what *)
(* it holds, or nothing when it cannot be read; and forgets what it is     *)
(* told.                                                                   *)
publish_reference(r) == [broker EXCEPT ![r] = IF @ = "none" THEN "queued" ELSE @]

fetch_references ==
    {offered \in SUBSET {r \in Refs : broker[r] = "queued"} : Cardinality(offered) <= Batch}

ack_reference(acked) == [r \in Refs |-> IF r \in acked THEN "gone" ELSE broker[r]]

(* The reference is queued in the transaction that settles its message, or *)
(* that writes its receipt.                                                *)
enqueue_reference(r) ==
    /\ Happens
    /\ event[r].state = "none"
    /\ event' = [event EXCEPT ![r].state = "pending"]
    /\ UNCHANGED <<broker, delivered, row, done, accessVars, proxy, call, diskVars>>

(* One queued reference is published.  The broker takes it, or knows its   *)
(* id already; or the publication may be retried, up to its limit; or it   *)
(* is refused for good.                                                    *)
publish_pending(r) ==
    /\ event[r].state = "pending"
    /\ LET sent == publish_reference(r)
       IN  \/ /\ broker' = sent
              /\ event' = [event EXCEPT ![r].state = "published"]
              /\ UNCHANGED happened
           \/ /\ Happens
              /\ broker' \in {broker, sent}
              /\ event' = [event EXCEPT ![r].attempts = @ + 1,
                                        ![r].state = IF event[r].attempts + 1 >= MAX_ATTEMPTS
                                                     THEN "failed" ELSE "pending"]
           \/ /\ Happens
              /\ event' = [event EXCEPT ![r].state = "failed"]
              /\ UNCHANGED broker
    /\ UNCHANGED <<delivered, row, done, accessVars, proxy, call, diskVars>>

(* The broker's copy expires, runs out of offers or goes with its consumer *)
(* or its stream.  A copy that is offered and not acknowledged is offered  *)
(* again, so it simply stays queued.                                       *)
BrokerDrops(r) ==
    /\ Happens
    /\ broker[r] = "queued"
    /\ broker' = [broker EXCEPT ![r] = "gone"]
    /\ UNCHANGED <<event, delivered, row, done, accessVars, proxy, call, diskVars>>

LeaveSeat ==
    /\ Happens
    /\ seat
    /\ seat' = FALSE
    /\ UNCHANGED <<serverVars, grant, epoch, proxy, call, diskVars>>

ChangeGrant ==
    /\ Happens
    /\ grant' = ~grant
    /\ UNCHANGED <<serverVars, seat, epoch, proxy, call, diskVars>>

(* A process takes the window: Sessions gives it the next epoch.           *)
Resume(p) ==
    /\ epoch < MaxEpoch
    /\ epoch' = epoch + 1
    /\ proxy' = [proxy EXCEPT ![p] = epoch + 1]
    /\ UNCHANGED <<serverVars, seat, grant, call, diskVars, happened>>

(* Five minutes after a hand-out.                                          *)
GraceEnds(r) ==
    /\ row[r].open /\ row[r].recent
    /\ row' = [row EXCEPT ![r].recent = FALSE]
    /\ UNCHANGED <<event, broker, delivered, done, accessVars, proxy, call, diskVars, happened>>

----------------------------------------------------------------------------
Confirmed(r) == \E n \in 1..MaxRows : <<r, n>> \in done

(* The row a hand-out at this epoch leaves: the open one, moved to this    *)
(* epoch, or a new one.                                                    *)
hand_out_message(r, ack) ==
    [n |-> IF row[r].open THEN row[r].n ELSE row[r].n + 1,
     open |-> TRUE, epoch |-> epoch, recent |-> TRUE,
     ack |-> ack \/ (row[r].open /\ row[r].ack)]

(* What record_broker_reference hands over.  Everything else the broker    *)
(* offered is acknowledged: a reference already confirmed, and one for a   *)
(* seat or a grant that is gone.                                           *)
record_broker_reference(r) ==
    /\ ~Confirmed(r)
    /\ grant
    /\ r \in Messages => seat
    /\ row[r].open => row[r].epoch <= epoch

InGrace(r) == row[r].open /\ row[r].recent

(* Mutant: the bus only hands out what the broker once took.               *)
reconcile_published_only ==
    {r \in Messages : /\ seat /\ grant /\ event[r].state = "published"
                      /\ r \notin delivered /\ ~InGrace(r)}

(* What the bus's own records still owe this recipient.                    *)
reconcile_from_postgres ==
    {r \in Messages : /\ seat /\ grant /\ event[r].state # "none"
                      /\ r \notin delivered /\ ~InGrace(r)}

(* A receipt notification is rebuilt from its event, once published.       *)
reconcile_receipt_events ==
    {r \in Receipts : /\ grant /\ event[r].state = "published"
                      /\ ~Confirmed(r) /\ ~InGrace(r)}

(* The first n of a set, in an order nothing depends on.                   *)
UpTo(S, n) ==
    {T \in SUBSET S : Cardinality(T) = IF Cardinality(S) < n THEN Cardinality(S) ELSE n}

(* One fetch of the live process: the broker first, which gives nothing    *)
(* when it cannot be read; then the messages the bus owes, then the        *)
(* notifications, up to the limit.  The answer reaches the proxy or is     *)
(* lost.                                                                   *)
fetch(c) ==
    /\ call[c].pc = "idle"
    /\ proxy[HomeOf[c]] = epoch
    /\ \E pulled \in fetch_references :
            LET taken == {r \in pulled : record_broker_reference(r)}
                rest == Batch - Cardinality(taken)
            IN  \E acked \in SUBSET (pulled \ taken),
                   owed \in UpTo(reconcile_from_postgres \ taken, rest) :
                \E news \in UpTo(reconcile_receipt_events \ taken, rest - Cardinality(owed)) :
                   LET out == taken \cup owed \cup news
                       rows == [r \in Refs |-> IF r \in out THEN hand_out_message(r, r \in taken)
                                               ELSE row[r]]
                   IN  /\ \A r \in out : rows[r].n <= MaxRows
                       /\ row' = rows
                       /\ broker' = ack_reference(acked)
                       /\ \/ /\ call' = [call EXCEPT ![c] =
                                   [NoCall EXCEPT !.pc = "read",
                                                  !.refs = {<<r, rows[r].n>> : r \in out}]]
                             /\ UNCHANGED happened
                          \/ Happens /\ UNCHANGED call
    /\ UNCHANGED <<event, delivered, done, accessVars, proxy, diskVars>>

(* KEEP_HOURS after a reference was spooled.                               *)
KeepEnds(p) ==
    /\ Happens
    /\ \E e \in spool[p] : e.id \notin aged[p] /\ aged' = [aged EXCEPT ![p] = @ \cup {e.id}]
    /\ UNCHANGED <<serverVars, accessVars, proxy, call, spool, raced>>

Filed(p) == {e.id : e \in spool[p]}

(* A call that has read the file and has not replaced it yet.              *)
HasRead(c) == call[c].pc \in {"append", "confirm", "rewrite"}

OtherReaders(c) == {d \in Calls \ {c} : HomeOf[d] = HomeOf[c] /\ HasRead(d)}

(* What previous calls left in the file is read first.  A call that reads  *)
(* it alone has missed nothing that is in it.                              *)
read(c) ==
    /\ call[c].pc = "read"
    /\ call' = [call EXCEPT ![c].held = spool[HomeOf[c]], ![c].pc = "append"]
    /\ raced' = [raced EXCEPT ![HomeOf[c]] = IF OtherReaders(c) = {} THEN @ \ Filed(HomeOf[c]) ELSE @]
    /\ UNCHANGED <<serverVars, accessVars, proxy, spool, aged, happened>>

Ask(c) == {e.id : e \in {f \in call[c].held : ~f.confirmed}}

NewEntries(c) ==
    {[id |-> i, confirmed |-> FALSE] :
       i \in {j \in call[c].refs : \A e \in spool[HomeOf[c]] : e.id # j}}

(* These entries reach the file, with the time, past the calls that read   *)
(* it before.                                                              *)
Written(p, entries, readers) ==
    LET new == {e.id : e \in entries}
    IN  /\ spool' = [spool EXCEPT ![p] = @ \cup entries]
        /\ aged' = [aged EXCEPT ![p] = @ \ new]
        /\ raced' = [raced EXCEPT ![p] = IF readers = {} THEN @ \ new ELSE @ \cup new]

(* What a call goes on with: nothing, when the bus knows all it holds.     *)
Holding(entries) ==
    IF \E e \in entries : ~e.confirmed
    THEN [NoCall EXCEPT !.pc = "confirm", !.held = entries] ELSE NoCall

(* Mutant: confirm first, spool afterwards.                                *)
append_late(c) ==
    /\ call[c].pc = "append"
    /\ call' = [call EXCEPT ![c] = Holding(call[c].held \cup NewEntries(c))]
    /\ UNCHANGED <<serverVars, accessVars, proxy, diskVars, happened>>

(* The references that are not in the file by now are appended and synced; *)
(* the call holds what it has read before, and these.                      *)
append(c) ==
    /\ call[c].pc = "append"
    /\ Written(HomeOf[c], NewEntries(c), OtherReaders(c))
    /\ call' = [call EXCEPT ![c] = Holding(call[c].held \cup NewEntries(c))]
    /\ UNCHANGED <<serverVars, accessVars, proxy, happened>>

(* An append that fails leaves any part of it behind, and confirms nothing *)
(* of it.                                                                  *)
AppendFails(c) ==
    /\ Happens
    /\ call[c].pc = "append"
    /\ \E part \in SUBSET NewEntries(c) : Written(HomeOf[c], part, OtherReaders(c))
    /\ call' = [call EXCEPT ![c] = NoCall]
    /\ UNCHANGED <<serverVars, accessVars, proxy>>

(* A confirmed row; nothing but its number is looked at again.             *)
Closed(r) == [NoRow EXCEPT !.n = row[r].n]

(* What the answer to a confirmation names: of what was asked, everything  *)
(* that is confirmed now.                                                  *)
settled_ids(c, newly) == Ask(c) \cap (done \cup newly)

(* Mutant: a replaced process is not fenced off.                           *)
confirm_unfenced(c) ==
    /\ call[c].pc = "confirm"
    /\ LET newly == {i \in Ask(c) : /\ row[i[1]].open /\ row[i[1]].n = i[2]}
       IN  /\ done' = done \cup newly
           /\ delivered' = delivered \cup {r \in Messages : \E i \in newly : i[1] = r}
           /\ row' = [r \in Refs |-> IF \E i \in newly : i[1] = r THEN Closed(r) ELSE row[r]]
           /\ call' = [call EXCEPT ![c].pc = "rewrite", ![c].settled = settled_ids(c, newly)]
    /\ UNCHANGED <<event, broker, accessVars, proxy, diskVars, happened>>

(* Confirm what the call holds unconfirmed: the open rows handed out at    *)
(* this epoch are confirmed and their messages delivered, and only then is *)
(* the broker told, which may be lost.  The answer names what is settled.  *)
confirm(c) ==
    /\ call[c].pc = "confirm"
    /\ proxy[HomeOf[c]] = epoch
    /\ LET newly == {i \in Ask(c) : /\ row[i[1]].open /\ row[i[1]].n = i[2]
                                    /\ row[i[1]].epoch = epoch}
           refs == {i[1] : i \in newly}
       IN  /\ done' = done \cup newly
           /\ delivered' = delivered \cup (refs \cap Messages)
           /\ row' = [r \in Refs |-> IF r \in refs THEN Closed(r) ELSE row[r]]
           /\ \E acked \in SUBSET {r \in refs : row[r].ack} : broker' = ack_reference(acked)
           /\ \/ /\ call' = [call EXCEPT ![c].pc = "rewrite",
                                         ![c].settled = settled_ids(c, newly)]
                 /\ UNCHANGED happened
              \/ Happens /\ call' = [call EXCEPT ![c] = NoCall]
    /\ UNCHANGED <<event, accessVars, proxy, diskVars>>

(* Refused: this process no longer holds the window.                       *)
ConfirmRefused(c) ==
    /\ call[c].pc = "confirm"
    /\ proxy[HomeOf[c]] # epoch
    /\ call' = [call EXCEPT ![c] = NoCall]
    /\ UNCHANGED <<serverVars, accessVars, proxy, diskVars, happened>>

(* What the call holds, with what the bus settled marked.                  *)
Marked(c) ==
    {[e EXCEPT !.confirmed = @ \/ e.id \in call[c].settled] : e \in call[c].held}

(* Mutant: compaction looks at the age alone.                              *)
rewrite_by_age(c) ==
    /\ call[c].pc = "rewrite"
    /\ spool' = [spool EXCEPT ![HomeOf[c]] = {e \in Marked(c) : e.id \notin aged[HomeOf[c]]}]
    /\ call' = [call EXCEPT ![c] = NoCall]
    /\ UNCHANGED <<serverVars, accessVars, proxy, aged, raced, happened>>

(* The file becomes what the call holds, without the confirmed entries     *)
(* that are old.  A file that cannot be replaced stays as it is.           *)
rewrite(c) ==
    /\ call[c].pc = "rewrite"
    /\ \/ spool' = [spool EXCEPT ![HomeOf[c]] =
                      {e \in Marked(c) : e.confirmed => e.id \notin aged[HomeOf[c]]}]
       \/ UNCHANGED spool
    /\ call' = [call EXCEPT ![c] = NoCall]
    /\ UNCHANGED <<serverVars, accessVars, proxy, aged, raced, happened>>

(* A proxy dies.  Of an append in progress any part may be on the disk; a  *)
(* line cut short is skipped by every later read.                          *)
Dies(p) ==
    /\ Happens
    /\ proxy[p] # 0
    /\ proxy' = [proxy EXCEPT ![p] = 0]
    /\ call' = [c \in Calls |-> IF HomeOf[c] = p THEN NoCall ELSE call[c]]
    /\ \E part \in SUBSET UNION {NewEntries(c) : c \in {d \in Calls : HomeOf[d] = p
                                                                     /\ call[d].pc = "append"}} :
          Written(p, part, {})
    /\ UNCHANGED <<serverVars, accessVars>>

CallStep(c) ==
    fetch(c) \/ read(c) \/ append(c) \/ confirm(c) \/ ConfirmRefused(c) \/ rewrite(c)

Next ==
    \/ \E r \in Refs : \/ enqueue_reference(r) \/ publish_pending(r)
                       \/ BrokerDrops(r) \/ GraceEnds(r)
    \/ LeaveSeat \/ ChangeGrant
    \/ \E p \in Proxies : Resume(p) \/ Dies(p) \/ KeepEnds(p)
    \/ \E c \in Calls : CallStep(c) \/ AppendFails(c)

(* The window keeps asking for its inbox, a started call runs on, and the  *)
(* grace period passes.  Nothing is assumed of the broker, and a reference *)
(* need never be published.                                                *)
Fairness ==
    /\ WF_vars(\E c \in Calls : CallStep(c))
    /\ WF_vars(\E r \in Refs : GraceEnds(r))

Spec == Init /\ [][Next]_vars /\ Fairness

----------------------------------------------------------------------------
(* "delivered on this bus means a reference reached a process that can     *)
(* still find it after a restart", for the KEEP_HOURS a confirmed entry is *)
(* kept.                                                                   *)
DeliveredIsHeld ==
    \A r \in delivered : \E p \in Proxies : \E i \in Filed(p) \cup aged[p] : i[1] = r

(* The same, but for a reference that was appended while another call of   *)
(* the process was between its read and its rewrite, until a call has read *)
(* it back alone.  Calls that overlap otherwise, deaths, resumes, failed   *)
(* appends and lost answers lose nothing.                                  *)
DeliveredIsKept ==
    \A r \in delivered :
       \E p \in Proxies : \E i \in Filed(p) \cup aged[p] \cup raced[p] : i[1] = r

(* "an unconfirmed entry is never dropped, however old": an entry leaves   *)
(* the file only once it is old and the bus has confirmed it, unless it    *)
(* was appended between another call's read and rewrite.                   *)
OnlyToldIsDropped ==
    [][\A p \in Proxies : \A i \in Filed(p) \ Filed(p)' :
          i \in raced[p] \/ (i \in aged[p] /\ i \in done)]_vars

(* A message becomes delivered only through the process that holds the     *)
(* window at that moment, never through one that was resumed away while    *)
(* its call was in flight, and with the reference on its disk, unless it   *)
(* was appended between another call's read and rewrite.                   *)
DeliveredToTheLiveWindow ==
    [][\A r \in delivered' \ delivered :
          \E p \in Proxies : /\ proxy[p] = epoch
                             /\ \E i \in Filed(p) \cup raced[p] : i[1] = r]_vars

(* What the bus still has to tell the window: a stored message until it is *)
(* delivered, and a published receipt notification until it is confirmed.  *)
Owed(r) ==
    IF r \in Messages THEN event[r].state # "none" /\ r \notin delivered
    ELSE event[r].state = "published" /\ ~Confirmed(r)

(* While a live process holds the seat and the grant, every reference that *)
(* is owed is eventually handed over and confirmed, although the broker    *)
(* may lose, refuse or repeat it, or be told to forget it while the grant  *)
(* is gone, and hand-outs die with the process that got them.              *)
EveryReferenceArrives ==
    \A r \in Refs :
       Owed(r) ~> (~Owed(r) \/ ~seat \/ ~grant \/ \A c \in Calls : proxy[HomeOf[c]] # epoch)
=============================================================================
