--------------------------- MODULE Conversations ---------------------------
(***************************************************************************)
(* The seats of one conversation, and who may write and read it:           *)
(* store/conversations.rs.                                                 *)
(*                                                                         *)
(* Every call is admitted by access() from a plain read and decides again  *)
(* inside its transaction, which is one step at the point where its last   *)
(* lock is taken.  invite, remove_member, transfer_membership, archive and *)
(* send take the conversation row; join, leave, ack and set_project_access *)
(* do not.  send is two steps, for a recipient may leave or join between   *)
(* the snapshot of the recipients and the COMMIT.  A seat is one row per   *)
(* window, so a seat is named by its window.                               *)
(***************************************************************************)
EXTENDS Integers, Sequences, FiniteSets

CONSTANTS Agents, Windows,
          AgentOf,       \* the agent each window belongs to
          Registered,    \* windows whose label is a registered session
          Creator,       \* the window that created the conversation
          InviteRoles,   \* roles that invitations name
          MaxMembers,    \* MAX_MEMBERS
          RequestIds,    \* request_id keys of sends: bounds the messages
          Calls,         \* calls under way at once
          MaxCalls,      \* bound on the calls of a behaviour
          NoWindow

ASSUME ConversationsConstants ==
    /\ AgentOf \in [Windows -> Agents] /\ Registered \subseteq Windows
    /\ Creator \in Windows /\ NoWindow \notin Windows
    /\ InviteRoles \subseteq {"moderator", "participant", "observer"}
    /\ MaxMembers \in Nat /\ MaxCalls \in Nat

VARIABLES
    visibility,  \* "private" or "project", fixed at creation
    archived,    \* archived_at is set
    seats,       \* conversation_memberships
    grants,      \* project_agent_access of the conversation's project
    msgs,        \* conversation_messages with their recipients, by seq
    acked,       \* receipts acknowledged: <<seq, window>>
    call,        \* the calls under way
    count        \* calls that wrote or are under way, up to MaxCalls

vars == <<visibility, archived, seats, grants, msgs, acked, call, count>>

Roles == {"owner", "moderator", "participant", "observer"}
States == {"none", "invited", "active", "left", "removed"}
Seqs == 0..Cardinality(RequestIds)

Seat == [state : States, role : Roles,
         floor : Seqs,                        \* history_from_seq, NULL is 0
         bound : BOOLEAN,                     \* session_id is set
         from : Windows \cup {NoWindow},      \* transfer_from
         superseded : BOOLEAN,                \* superseded_by is set
         offer : {"invite", "transfer"}]      \* history: how it was last offered

Message == [from : Windows, req : RequestIds, to : SUBSET Windows]

Call == [op : {"none", "invite", "remove", "transfer", "archive", "send",
               "ack", "read", "get"},
         pc : {"idle", "admitted", "open", "fetched", "served"},
         who : Windows \cup {NoWindow}, cred : BOOLEAN,
         tgt : Windows \cup {NoWindow}, role : Roles, all : BOOLEAN,
         req : RequestIds \cup {NoWindow}, to : SUBSET Windows,
         floor : Seqs, rows : SUBSET Seqs]

(* No call.                                                                *)
Idle == [op |-> "none", pc |-> "idle", who |-> NoWindow, cred |-> FALSE,
         tgt |-> NoWindow, role |-> "participant", all |-> FALSE,
         req |-> NoWindow, to |-> {}, floor |-> 0, rows |-> {}]

NoSeat == [state |-> "none", role |-> "participant", floor |-> 0,
           bound |-> FALSE, from |-> NoWindow,
           superseded |-> FALSE, offer |-> "invite"]

LastSeq == Len(msgs)

ConversationsTypeOK ==
    /\ visibility \in {"private", "project"} /\ archived \in BOOLEAN
    /\ seats \in [Windows -> Seat] /\ grants \subseteq Agents
    /\ msgs \in Seq(Message) /\ acked \subseteq Seqs \X Windows
    /\ call \in [Calls -> Call] /\ count \in 0..MaxCalls

(* create_conversation: the creator owns it.  A window it invites at once  *)
(* has the seat that an invitation before the first message gives.         *)
ConversationsInit ==
    /\ visibility \in {"private", "project"} /\ archived = FALSE
    /\ \E b \in BOOLEAN :
         /\ b => Creator \in Registered
         /\ seats = [w \in Windows |->
              IF w = Creator THEN [NoSeat EXCEPT !.state = "active", !.role = "owner",
                                                 !.bound = b]
              ELSE NoSeat]
    /\ grants \in IF visibility = "private" THEN {{}}
                  ELSE {g \in SUBSET Agents : AgentOf[Creator] \in g}
    /\ msgs = <<>> /\ acked = {} /\ count = 0
    /\ call = [c \in Calls |-> Idle]

-----------------------------------------------------------------------------
(* access()                                                                *)

Granted(w) == visibility = "project" /\ AgentOf[w] \in grants

ProjectOpen(w) == visibility = "private" \/ Granted(w)

(* A bound seat is not visible to a caller with the agent's token.         *)
SeatOf(w, cred) == IF seats[w].bound /\ ~cred THEN NoSeat ELSE seats[w]

CanRead(w, cred) ==
    ProjectOpen(w) /\ (Granted(w) \/ SeatOf(w, cred).state \in {"active", "invited"})

CanReadMessages(w, cred) ==
    ProjectOpen(w) /\ (Granted(w) \/ SeatOf(w, cred).state = "active")

Sits(s, roles) == s.state = "active" /\ s.role \in roles

CanSend(w, cred) ==
    ProjectOpen(w) /\ Sits(SeatOf(w, cred), {"owner", "moderator", "participant"})

CanModerate(w, cred) ==
    ProjectOpen(w) /\ Sits(SeatOf(w, cred), {"owner", "moderator"})

(* The rows an open send holds: the conversation, the sender's seat, the   *)
(* grants of the sender and of the recipients.                             *)
Sending == {c \in Calls : call[c].pc = "open"}
ThreadLocked == Sending # {}
SeatLocked(w) == \E c \in Sending : call[c].who = w

(* Mutant: the grants a message rests on are not locked.                   *)
GrantNeverLocked(a) == a \notin Agents

GrantLocked(a) ==
    \E c \in Sending : \E w \in call[c].to \cup {call[c].who} :
        visibility = "project" /\ AgentOf[w] = a

-----------------------------------------------------------------------------
(* Calls                                                                   *)

(* A session credential belongs to a registered window; otherwise the      *)
(* caller carries its agent's token and the window's label.                *)
Holds(w, cred) == cred => w \in Registered

(* require_window: the agent's token does not take a registered label.     *)
RequireWindow(w, cred) == w \in Registered => cred

(* A call that takes effect uses up the bound; one that does not gives it  *)
(* back when it returns.                                                   *)
Counted == count < MaxCalls /\ count' = count + 1

Admit(c, k) ==
    /\ call[c] = Idle /\ Holds(k.who, k.cred) /\ Counted
    /\ call' = [call EXCEPT ![c] = k]
    /\ UNCHANGED <<visibility, archived, seats, grants, msgs, acked>>

(* The call is over: answered, refused or failed; nothing more is written. *)
Return(c) ==
    /\ call[c] # Idle
    /\ call' = [call EXCEPT ![c] = Idle] /\ count' = count - 1
    /\ UNCHANGED <<visibility, archived, seats, grants, msgs, acked>>

At(c, op, pc) == call[c].op = op /\ call[c].pc = pc

Request(op, w, cred) ==
    [Idle EXCEPT !.op = op, !.pc = "admitted", !.who = w, !.cred = cred]

(* invite, remove_member, archive_conversation: up to BEGIN.  Whether the  *)
(* thread is archived is not asked again by invite.                        *)
InviteAdmit(c, w, cred, t, role, all) ==
    /\ CanModerate(w, cred) /\ ~archived
    /\ Admit(c, [Request("invite", w, cred) EXCEPT
                    !.tgt = t, !.role = role, !.all = all])

RemoveAdmit(c, w, cred, t) ==
    /\ CanModerate(w, cred) /\ t # w
    /\ Admit(c, [Request("remove", w, cred) EXCEPT !.tgt = t])

ArchiveAdmit(c, w, cred) ==
    CanModerate(w, cred) /\ Admit(c, Request("archive", w, cred))

(* transfer_membership: to another window of the same agent only.          *)
TransferAdmit(c, w, cred, t) ==
    /\ CanRead(w, cred) /\ SeatOf(w, cred).state = "active"
    /\ AgentOf[t] = AgentOf[w] /\ t # w
    /\ Admit(c, [Request("transfer", w, cred) EXCEPT !.tgt = t])

(* The caller's own row, under lock; its binding is not looked at again.   *)
ModeratesNow(w) == ProjectOpen(w) /\ Sits(seats[w], {"owner", "moderator"})

Open(s) == s.state \in {"active", "invited"}

(* Mutant: an invitation may demote an owner.                              *)
MayInviteOver(k) ==
    k.op = "remove" /\ Open(seats[k.tgt]) /\ seats[k.tgt].role = "owner"
        => seats[k.who].role = "owner"

(* An owner's seat is only an owner's to change.                           *)
MayChange(k) ==
    Open(seats[k.tgt]) /\ seats[k.tgt].role = "owner" => seats[k.who].role = "owner"

(* Mutant: a full-history grant is not clamped to the inviter's floor.     *)
UnclampedFloor(k) ==
    IF k.all /\ seats[k.tgt].state # "removed" THEN 0 ELSE LastSeq

(* The floor an offer carries.                                             *)
OfferedFloor(k) ==
    IF k.all /\ seats[k.tgt].state # "removed" THEN seats[k.who].floor ELSE LastSeq

(* INSERT ... ON CONFLICT DO UPDATE: an open seat changes its role only.   *)
Invited(k) ==
    LET old == seats[k.tgt] IN
    IF Open(old) THEN [old EXCEPT !.role = k.role]
    ELSE [old EXCEPT !.state = "invited", !.role = k.role, !.floor = OfferedFloor(k),
                     !.bound = FALSE, !.offer = "invite"]

InviteCommit(c) ==
    LET k == call[c] IN
    /\ At(c, "invite", "admitted") /\ ~ThreadLocked
    /\ ModeratesNow(k.who)
    /\ Cardinality({w \in Windows : seats[w].state # "none"}) < MaxMembers
    /\ MayChange(k)
    /\ seats' = [seats EXCEPT ![k.tgt] = Invited(k)]
    /\ call' = [call EXCEPT ![c] = Idle]
    /\ UNCHANGED <<visibility, archived, grants, msgs, acked, count>>

RemoveCommit(c) ==
    LET k == call[c] IN
    /\ At(c, "remove", "admitted") /\ ~ThreadLocked
    /\ ModeratesNow(k.who) /\ Open(seats[k.tgt]) /\ MayChange(k)
    /\ seats' = [seats EXCEPT ![k.tgt].state = "removed"]
    /\ call' = [call EXCEPT ![c] = Idle]
    /\ UNCHANGED <<visibility, archived, grants, msgs, acked, count>>

(* The grant is checked again, the caller's role is not.                   *)
ArchiveCommit(c) ==
    /\ At(c, "archive", "admitted") /\ ~ThreadLocked /\ ProjectOpen(call[c].who)
    /\ archived' = TRUE
    /\ call' = [call EXCEPT ![c] = Idle]
    /\ UNCHANGED <<visibility, seats, grants, msgs, acked, count>>

(* Only a window with no seat, or one that left, is offered the seat.      *)
TransferCommit(c) ==
    LET k == call[c] IN
    /\ At(c, "transfer", "admitted") /\ ~ThreadLocked
    /\ ProjectOpen(k.who)
    /\ seats[k.who].state = "active" /\ seats[k.tgt].state \in {"none", "left"}
    /\ seats' = [seats EXCEPT
         ![k.tgt] = [@ EXCEPT !.state = "invited", !.role = seats[k.who].role,
                              !.floor = seats[k.who].floor, !.from = k.who,
                              !.bound = FALSE, !.offer = "transfer"],
         ![k.who].superseded = FALSE]
    /\ call' = [call EXCEPT ![c] = Idle]
    /\ UNCHANGED <<visibility, archived, grants, msgs, acked, count>>

(* supersede_predecessor: the seat this one was offered, if it is still    *)
(* active and was not superseded.                                          *)
Predecessor(w) ==
    {p \in Windows \ {w} : /\ seats[w].from = p /\ AgentOf[p] = AgentOf[w]
                           /\ seats[p].state = "active" /\ ~seats[p].superseded}

(* join: the seat is bound to the credential that accepted it.             *)
Join(w, cred) ==
    /\ Counted /\ Holds(w, cred) /\ RequireWindow(w, cred)
    /\ ProjectOpen(w) /\ seats[w].state = "invited"
    /\ \A p \in Predecessor(w) : ~SeatLocked(p)
    /\ seats' = [p \in Windows |->
         CASE p = w -> [seats[w] EXCEPT !.state = "active",
                                        !.bound = cred, !.from = NoWindow]
           [] p \in Predecessor(w) -> [seats[p] EXCEPT !.state = "left",
                                                       !.superseded = TRUE]
           [] OTHER -> seats[p]]
    /\ UNCHANGED <<visibility, archived, grants, msgs, acked, call>>

Leave(w) ==
    /\ Counted /\ Open(seats[w]) /\ ~SeatLocked(w)
    /\ seats' = [seats EXCEPT ![w].state = "left"]
    /\ UNCHANGED <<visibility, archived, grants, msgs, acked, call>>

(* set_project_access: the caller's own grant decides, under lock.         *)
Grant(w, a) ==
    /\ Counted /\ Granted(w) /\ ~GrantLocked(AgentOf[w]) /\ a \notin grants
    /\ grants' = grants \cup {a}
    /\ UNCHANGED <<visibility, archived, seats, msgs, acked, call>>

Revoke(w, a) ==
    /\ Counted /\ Granted(w) /\ ~GrantLocked(AgentOf[w]) /\ a # AgentOf[w]
    /\ a \in grants /\ ~GrantLocked(a)
    /\ grants' = grants \ {a}
    /\ UNCHANGED <<visibility, archived, seats, msgs, acked, call>>

-----------------------------------------------------------------------------
(* Messages                                                                *)

SendAdmit(c, w, cred, r) ==
    /\ CanSend(w, cred) /\ ~archived
    /\ Admit(c, [Request("send", w, cred) EXCEPT !.req = r])

Sent(r) == \E s \in 1..LastSeq : msgs[s].req = r

(* Everyone active but the sender, and in a project thread only those who  *)
(* hold the grant.                                                         *)
Recipients(w) ==
    {m \in Windows \ {w} : seats[m].state = "active" /\ ProjectOpen(m)}

(* The thread is locked and everything decided again; a repeated           *)
(* request_id is answered with the message it made, which is Return.       *)
SendWrite(c) ==
    LET k == call[c] IN
    /\ At(c, "send", "admitted") /\ ~ThreadLocked
    /\ ~archived /\ CanSend(k.who, k.cred) /\ ~Sent(k.req)
    /\ call' = [call EXCEPT ![c].pc = "open", ![c].to = Recipients(k.who)]
    /\ UNCHANGED <<visibility, archived, seats, grants, msgs, acked, count>>

SendCommit(c) ==
    LET k == call[c] IN
    /\ At(c, "send", "open")
    /\ msgs' = Append(msgs, [from |-> k.who, req |-> k.req, to |-> k.to])
    /\ call' = [call EXCEPT ![c] = Idle]
    /\ UNCHANGED <<visibility, archived, seats, grants, acked, count>>

AckAdmit(c, w, cred, s) ==
    /\ s \in 1..LastSeq
    /\ CanRead(w, cred) /\ SeatOf(w, cred).state = "active"
    /\ Admit(c, [Request("ack", w, cred) EXCEPT !.rows = {s}])

(* Only a recipient has a receipt, and only while it is active.            *)
AckCommit(c) ==
    LET k == call[c] IN
    /\ At(c, "ack", "admitted") /\ ProjectOpen(k.who)
    /\ seats[k.who].state = "active" /\ \A s \in k.rows : k.who \in msgs[s].to
    /\ acked' = acked \cup (k.rows \X {k.who})
    /\ call' = [call EXCEPT ![c] = Idle]
    /\ UNCHANGED <<visibility, archived, seats, grants, msgs, count>>

(* read: admission and floor, the page, the second check, the answer.      *)
ReadAdmit(c, w, cred) ==
    /\ CanReadMessages(w, cred)
    /\ Admit(c, [Request("read", w, cred) EXCEPT !.floor = SeatOf(w, cred).floor])

ReadFetch(c) ==
    /\ At(c, "read", "admitted")
    /\ call' = [call EXCEPT ![c].pc = "fetched",
                            ![c].rows = {s \in 1..LastSeq : s > call[c].floor}]
    /\ UNCHANGED <<visibility, archived, seats, grants, msgs, acked, count>>

(* get_message finds the row first.                                        *)
GetFetch(c, w, cred, s) ==
    /\ s \in 1..LastSeq
    /\ Admit(c, [Request("get", w, cred) EXCEPT !.pc = "fetched", !.rows = {s}])

(* Mutant: the rows are served on the first check.                         *)
ServeOnAdmission(c) ==
    /\ call[c].pc = "fetched"
    /\ call[c].op = "get" => CanReadMessages(call[c].who, call[c].cred)
    /\ call' = [call EXCEPT ![c].pc = "served"]
    /\ UNCHANGED <<visibility, archived, seats, grants, msgs, acked, count>>

Serve(c) ==
    LET k == call[c] IN
    /\ k.pc = "fetched" /\ CanReadMessages(k.who, k.cred)
    /\ k.op = "get" => \A s \in k.rows : s > SeatOf(k.who, k.cred).floor
    /\ call' = [call EXCEPT ![c].pc = "served"]
    /\ UNCHANGED <<visibility, archived, seats, grants, msgs, acked, count>>

-----------------------------------------------------------------------------
ConversationsNext ==
    \/ \E c \in Calls, w \in Windows, cred \in BOOLEAN :
         \/ \E t \in Windows, role \in InviteRoles, all \in BOOLEAN :
              InviteAdmit(c, w, cred, t, role, all)
         \/ \E t \in Windows : RemoveAdmit(c, w, cred, t) \/ TransferAdmit(c, w, cred, t)
         \/ ArchiveAdmit(c, w, cred)
         \/ \E r \in RequestIds : SendAdmit(c, w, cred, r)
         \/ \E s \in Seqs : AckAdmit(c, w, cred, s) \/ GetFetch(c, w, cred, s)
         \/ ReadAdmit(c, w, cred)
    \/ \E c \in Calls :
         \/ InviteCommit(c) \/ RemoveCommit(c) \/ ArchiveCommit(c) \/ TransferCommit(c)
         \/ SendWrite(c) \/ SendCommit(c) \/ AckCommit(c)
         \/ ReadFetch(c) \/ Serve(c) \/ Return(c)
    \/ \E w \in Windows :
         \/ \E cred \in BOOLEAN : Join(w, cred)
         \/ Leave(w)
         \/ \E a \in Agents : Grant(w, a) \/ Revoke(w, a)

ConversationsSpec == ConversationsInit /\ [][ConversationsNext]_vars

-----------------------------------------------------------------------------
(* Properties                                                              *)

Reach(s) == \E w \in Windows : Open(seats[w]) /\ seats[w].floor < s

(* History that no seat of a thread reaches any more (everyone who had it  *)
(* left or was removed) comes back with no invitation, re-admission or     *)
(* transfer: an offer never carries more than the offering seat has.       *)
LostHistoryStaysLost ==
    [][\A s \in 1..LastSeq : ~Reach(s) => ~Reach(s)']_vars

(* An owner's open seat is demoted or removed only by a call whose own     *)
(* seat is an active owner's, with the project open, when it commits,      *)
(* whatever it was at admission; otherwise the owner left or handed it on. *)
OwnersChangedByOwners ==
    [][\A w \in Windows :
         Open(seats[w]) /\ seats[w].role = "owner"
            /\ (seats'[w].role # "owner" \/ seats'[w].state = "removed")
         => \E c \in Calls :
              /\ call[c].op \in {"invite", "remove"} /\ call'[c] = Idle
              /\ Sits(seats[call[c].who], {"owner"}) /\ ProjectOpen(call[c].who)]_vars

(* A message is stored only while its sender holds an active seat that may *)
(* post, with the project open to it, in a thread that is not archived;    *)
(* and nobody whose grant is gone is owed it.                              *)
StoredFromASeat ==
    [][LastSeq' > LastSeq =>
         LET m == msgs'[LastSeq'] IN
         /\ ~archived /\ ProjectOpen(m.from)
         /\ Sits(seats[m.from], {"owner", "moderator", "participant"})
         /\ \A w \in m.to : ProjectOpen(w)]_vars

(* An answer with messages is given only to a window that has an active    *)
(* seat, or the grant of a project thread, after they were fetched.        *)
ServedToMembers ==
    [][\A c \in Calls :
         call[c].pc = "fetched" /\ call'[c].pc = "served" =>
            /\ ProjectOpen(call[c].who)
            /\ Granted(call[c].who) \/ seats[call[c].who].state = "active"]_vars
=============================================================================
