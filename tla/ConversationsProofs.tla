------------------------ MODULE ConversationsProofs ------------------------
(***************************************************************************)
(* Proofs about module Conversations, for any number of windows, agents,   *)
(* calls and messages.                                                     *)
(***************************************************************************)
EXTENDS Conversations, TLAPS

(* The types, with history floors that any thread may have.                *)
SeatRow == [state : States, role : Roles, floor : Nat, bound : BOOLEAN,
            from : Windows \cup {NoWindow}, superseded : BOOLEAN,
            offer : {"invite", "transfer"}]

Ops == {"invite", "remove", "transfer", "archive", "send", "ack", "read", "get"}

CallRow == [op : Ops \cup {"none"},
            pc : {"idle", "admitted", "open", "fetched", "served"},
            who : Windows \cup {NoWindow}, cred : BOOLEAN,
            tgt : Windows \cup {NoWindow}, role : Roles, all : BOOLEAN,
            req : RequestIds \cup {NoWindow}, to : SUBSET Windows,
            floor : Nat, rows : SUBSET Nat]

(* A call that is under way names its window, and an offer its target.     *)
Named(k) ==
    /\ k.op # "none" => k.who \in Windows
    /\ k.op \in {"invite", "remove", "transfer"} => k.tgt \in Windows
    /\ k.op = "send" => k.req \in RequestIds
    /\ k.pc = "open" => k.op = "send"

TypeInv ==
    /\ visibility \in {"private", "project"} /\ archived \in BOOLEAN
    /\ seats \in [Windows -> SeatRow] /\ grants \subseteq Agents
    /\ msgs \in Seq(Message)
    /\ call \in [Calls -> CallRow] /\ \A c \in Calls : Named(call[c])

(* What an open send rests on, and that there is one at a time.            *)
OpenSend ==
    /\ \A c, d \in Sending : c = d
    /\ \A c \in Sending :
         /\ ~archived /\ ProjectOpen(call[c].who)
         /\ Sits(seats[call[c].who], {"owner", "moderator", "participant"})
         /\ \A w \in call[c].to : ProjectOpen(w)

Inv == TypeInv /\ OpenSend

(* Every request record is a call of its window.                           *)
LEMMA RequestFields ==
    ASSUME NEW op \in Ops, NEW w \in Windows, NEW cred \in BOOLEAN
    PROVE  /\ Request(op, w, cred) \in CallRow
           /\ Request(op, w, cred).op = op /\ Request(op, w, cred).who = w
           /\ Request(op, w, cred).pc = "admitted"
BY DEF Request, Idle, CallRow, Ops, Roles

(* The fields of a caller slot with no call in it.                         *)
LEMMA IdleFields ==
    Idle \in CallRow /\ Named(Idle) /\ Idle.pc = "idle" /\ Idle.op = "none"
BY DEF Idle, CallRow, Ops, Roles, Named

(* create_conversation: the first seat, with no call open, satisfies Inv.  *)
LEMMA InitInv == ConversationsInit => Inv
<1> SUFFICES ASSUME ConversationsInit PROVE Inv
  OBVIOUS
<1>1. NoSeat \in SeatRow
  BY DEF NoSeat, SeatRow, States, Roles
<1>2. seats \in [Windows -> SeatRow]
  <2>1. PICK b \in BOOLEAN : seats = [w \in Windows |->
              IF w = Creator THEN [NoSeat EXCEPT !.state = "active", !.role = "owner",
                                                 !.bound = b]
              ELSE NoSeat]
    BY DEF ConversationsInit
  <2>2. [NoSeat EXCEPT !.state = "active", !.role = "owner", !.bound = b] \in SeatRow
    BY DEF NoSeat, SeatRow, States, Roles
  <2> QED BY <1>1, <2>1, <2>2
<1>3. call \in [Calls -> CallRow] /\ \A c \in Calls : Named(call[c]) /\ call[c].pc = "idle"
  BY IdleFields DEF ConversationsInit
<1>4. grants \subseteq Agents
  BY DEF ConversationsInit
<1>5. msgs \in Seq(Message)
  BY DEF ConversationsInit
<1>6. visibility \in {"private", "project"} /\ archived \in BOOLEAN
  BY DEF ConversationsInit
<1> QED BY <1>2, <1>3, <1>4, <1>5, <1>6 DEF Inv, TypeInv, OpenSend, Sending

-----------------------------------------------------------------------------
(* Steps that only start or end a call                                     *)

(* Replacing a call by one that is not an open send opens no send.         *)
LEMMA CallReplaced ==
    ASSUME TypeInv, NEW c \in Calls, NEW k \in CallRow, Named(k), k.pc # "open",
           call' = [call EXCEPT ![c] = k]
    PROVE  /\ call' \in [Calls -> CallRow] /\ \A d \in Calls : Named(call'[d])
           /\ Sending' \subseteq Sending
           /\ \A d \in Sending' : call'[d] = call[d]
<1>1. \A d \in Calls : call'[d] = IF d = c THEN k ELSE call[d]
  BY DEF TypeInv
<1>2. call' \in [Calls -> CallRow]
  BY DEF TypeInv
<1>3. \A d \in Calls : Named(call'[d])
  BY <1>1 DEF TypeInv
<1>4. \A d \in Sending' : d \in Sending /\ call'[d] = call[d]
  BY <1>1 DEF Sending
<1> QED BY <1>2, <1>3, <1>4

(* A call's first, unlocked check fills an idle slot and disturbs nothing  *)
(* else.                                                                   *)
LEMMA AdmitKeeps ==
    ASSUME Inv, NEW c \in Calls, NEW k \in CallRow, Named(k), k.pc # "open",
           Admit(c, k)
    PROVE  Inv'
<1>1. /\ call' \in [Calls -> CallRow] /\ \A d \in Calls : Named(call'[d])
      /\ Sending' \subseteq Sending /\ \A d \in Sending' : call'[d] = call[d]
  BY CallReplaced DEF Inv, Admit
<1>2. TypeInv'
  BY <1>1 DEF Inv, TypeInv, Admit
<1>3. OpenSend'
  BY <1>1 DEF Inv, OpenSend, Admit, ProjectOpen, Granted, Sits
<1> QED BY <1>2, <1>3 DEF Inv

(* A call that is answered, refused or lost empties its slot and drops its *)
(* locks.                                                                  *)
LEMMA ReturnKeeps ==
    ASSUME Inv, NEW c \in Calls, Return(c)
    PROVE  Inv'
<1>1. /\ call' \in [Calls -> CallRow] /\ \A d \in Calls : Named(call'[d])
      /\ Sending' \subseteq Sending /\ \A d \in Sending' : call'[d] = call[d]
  BY CallReplaced, IdleFields DEF Inv, Return
<1>2. TypeInv'
  BY <1>1 DEF Inv, TypeInv, Return
<1>3. OpenSend'
  BY <1>1 DEF Inv, OpenSend, Return, ProjectOpen, Granted, Sits
<1> QED BY <1>2, <1>3 DEF Inv

(* Every admission starts a well-formed call.                              *)
LEMMA AdmissionsKeep ==
    ASSUME Inv, ConversationsConstants,
           NEW c \in Calls, NEW w \in Windows, NEW cred \in BOOLEAN,
           \/ \E t \in Windows, role \in InviteRoles, all \in BOOLEAN :
                InviteAdmit(c, w, cred, t, role, all)
           \/ \E t \in Windows : RemoveAdmit(c, w, cred, t) \/ TransferAdmit(c, w, cred, t)
           \/ ArchiveAdmit(c, w, cred)
           \/ \E r \in RequestIds : SendAdmit(c, w, cred, r)
           \/ \E s \in Seqs : AckAdmit(c, w, cred, s) \/ GetFetch(c, w, cred, s)
           \/ ReadAdmit(c, w, cred)
    PROVE  Inv'
<1>1. ASSUME NEW t \in Windows, NEW role \in InviteRoles, NEW all \in BOOLEAN,
             InviteAdmit(c, w, cred, t, role, all)
      PROVE  Inv'
  <2> DEFINE k == [Request("invite", w, cred) EXCEPT !.tgt = t, !.role = role, !.all = all]
  <2>0. role \in Roles
    BY DEF ConversationsConstants, Roles
  <2>1. k \in CallRow /\ Named(k) /\ k.pc # "open"
    <3>1. k \in CallRow
      BY <2>0 DEF Request, Idle, CallRow, Ops
    <3>2. k.op = "invite" /\ k.who = w /\ k.tgt = t /\ k.pc = "admitted"
      BY <2>0, RequestFields DEF CallRow, Ops
    <3> QED BY <3>1, <3>2 DEF Named
  <2>2. Admit(c, k)
    BY <1>1 DEF InviteAdmit
  <2> QED BY <2>1, <2>2, AdmitKeeps
<1>2. ASSUME NEW t \in Windows, RemoveAdmit(c, w, cred, t) PROVE Inv'
  <2> DEFINE k == [Request("remove", w, cred) EXCEPT !.tgt = t]
  <2>1. k \in CallRow /\ Named(k) /\ k.pc # "open"
    BY RequestFields DEF CallRow, Named, Ops
  <2>2. Admit(c, k)
    BY <1>2 DEF RemoveAdmit
  <2> QED BY <2>1, <2>2, AdmitKeeps
<1>3. ASSUME NEW t \in Windows, TransferAdmit(c, w, cred, t) PROVE Inv'
  <2> DEFINE k == [Request("transfer", w, cred) EXCEPT !.tgt = t]
  <2>1. k \in CallRow /\ Named(k) /\ k.pc # "open"
    BY RequestFields DEF CallRow, Named, Ops
  <2>2. Admit(c, k)
    BY <1>3 DEF TransferAdmit
  <2> QED BY <2>1, <2>2, AdmitKeeps
<1>4. ASSUME ArchiveAdmit(c, w, cred) PROVE Inv'
  <2>1. /\ Request("archive", w, cred) \in CallRow /\ Named(Request("archive", w, cred))
        /\ Request("archive", w, cred).pc # "open"
    BY RequestFields DEF Named, Ops
  <2>2. Admit(c, Request("archive", w, cred))
    BY <1>4 DEF ArchiveAdmit
  <2> QED BY <2>1, <2>2, AdmitKeeps
<1>5. ASSUME NEW r \in RequestIds, SendAdmit(c, w, cred, r) PROVE Inv'
  <2> DEFINE k == [Request("send", w, cred) EXCEPT !.req = r]
  <2>1. k \in CallRow /\ Named(k) /\ k.pc # "open"
    BY RequestFields DEF CallRow, Named, Ops
  <2>2. Admit(c, k)
    BY <1>5 DEF SendAdmit
  <2> QED BY <2>1, <2>2, AdmitKeeps
<1>6. ASSUME NEW s, AckAdmit(c, w, cred, s) PROVE Inv'
  <2> DEFINE k == [Request("ack", w, cred) EXCEPT !.rows = {s}]
  <2>0. s \in Nat
    BY <1>6 DEF AckAdmit, LastSeq, Inv, TypeInv
  <2>1. k \in CallRow /\ Named(k) /\ k.pc # "open"
    BY <2>0, RequestFields DEF CallRow, Named, Ops
  <2>2. Admit(c, k)
    BY <1>6 DEF AckAdmit
  <2> QED BY <2>1, <2>2, AdmitKeeps
<1>7. ASSUME NEW s, GetFetch(c, w, cred, s) PROVE Inv'
  <2> DEFINE k == [Request("get", w, cred) EXCEPT !.pc = "fetched", !.rows = {s}]
  <2>0. s \in Nat
    <3>1. s \in 1..LastSeq
      BY <1>7 DEF GetFetch
    <3>2. LastSeq \in Nat
      BY DEF LastSeq, Inv, TypeInv
    <3> QED BY <3>1, <3>2
  <2>1. k \in CallRow /\ Named(k) /\ k.pc # "open"
    <3>1. k \in CallRow
      BY <2>0 DEF Request, Idle, CallRow, Ops, Roles
    <3>2. k.op = "get" /\ k.who = w /\ k.pc = "fetched"
      BY <2>0, RequestFields DEF CallRow, Ops
    <3> QED BY <3>1, <3>2 DEF Named
  <2>2. Admit(c, k)
    BY <1>7 DEF GetFetch
  <2> QED BY <2>1, <2>2, AdmitKeeps
<1>8. ASSUME ReadAdmit(c, w, cred) PROVE Inv'
  <2> DEFINE f == SeatOf(w, cred).floor
             k == [Request("read", w, cred) EXCEPT !.floor = f]
  <2>0. f \in Nat
    BY DEF SeatOf, NoSeat, Inv, TypeInv, SeatRow
  <2> HIDE DEF f
  <2>1. k \in CallRow /\ Named(k) /\ k.pc # "open"
    BY <2>0, RequestFields DEF CallRow, Named, Ops
  <2>2. Admit(c, k)
    BY <1>8 DEF ReadAdmit, f
  <2> QED BY <2>1, <2>2, AdmitKeeps
<1> QED BY <1>1, <1>2, <1>3, <1>4, <1>5, <1>6, <1>7, <1>8

-----------------------------------------------------------------------------
(* Steps that change seats, grants or the thread                           *)

(* A transaction that took the thread found no send open, and leaves none. *)
LEMMA ThreadTaken ==
    ASSUME TypeInv, NEW c \in Calls, ~ThreadLocked, call' = [call EXCEPT ![c] = Idle]
    PROVE  /\ call' \in [Calls -> CallRow] /\ \A d \in Calls : Named(call'[d])
           /\ OpenSend'
<1>1. /\ call' \in [Calls -> CallRow] /\ \A d \in Calls : Named(call'[d])
      /\ Sending' \subseteq Sending
  BY CallReplaced, IdleFields
<1>2. Sending' = {}
  BY <1>1 DEF ThreadLocked
<1> QED BY <1>1, <1>2 DEF OpenSend

(* The COMMIT of invite writes one seat, and waits for an open send.       *)
LEMMA InviteKeeps ==
    ASSUME Inv, NEW c \in Calls, InviteCommit(c)
    PROVE  Inv'
<1> DEFINE k == call[c]
<1>1. k \in CallRow /\ k.who \in Windows /\ k.tgt \in Windows
  BY DEF Inv, TypeInv, Named, InviteCommit, At
<1>2. seats[k.tgt] \in SeatRow /\ OfferedFloor(k) \in Nat
  BY <1>1 DEF Inv, TypeInv, SeatRow, OfferedFloor, LastSeq
<1>3. Invited(k) \in SeatRow
  <2>1. CASE Open(seats[k.tgt])
    BY <1>1, <1>2, <2>1 DEF Invited, SeatRow, CallRow
  <2>2. CASE ~Open(seats[k.tgt])
    BY <1>1, <1>2, <2>2 DEF Invited, SeatRow, CallRow, States
  <2> QED BY <2>1, <2>2
<1>4. seats' = [seats EXCEPT ![k.tgt] = Invited(k)]
  BY DEF InviteCommit
<1>5. seats' \in [Windows -> SeatRow]
  BY <1>3, <1>4 DEF Inv, TypeInv
<1>6. /\ call' \in [Calls -> CallRow] /\ \A d \in Calls : Named(call'[d])
      /\ OpenSend'
  BY ThreadTaken DEF Inv, InviteCommit
<1> QED BY <1>5, <1>6 DEF Inv, TypeInv, InviteCommit

(* The COMMIT of remove_member ends one seat, and waits for an open send.  *)
LEMMA RemoveKeeps ==
    ASSUME Inv, NEW c \in Calls, RemoveCommit(c)
    PROVE  Inv'
<1>1. call[c].tgt \in Windows
  BY DEF Inv, TypeInv, Named, RemoveCommit, At
<1>2. seats' \in [Windows -> SeatRow]
  <2>1. [seats[call[c].tgt] EXCEPT !.state = "removed"] \in SeatRow
    BY <1>1 DEF Inv, TypeInv, SeatRow, States
  <2>2. seats' = [seats EXCEPT ![call[c].tgt] = [seats[call[c].tgt] EXCEPT !.state = "removed"]]
    BY DEF RemoveCommit
  <2> QED BY <2>1, <2>2 DEF Inv, TypeInv
<1>3. /\ call' \in [Calls -> CallRow] /\ \A d \in Calls : Named(call'[d])
      /\ OpenSend'
  BY ThreadTaken DEF Inv, RemoveCommit
<1> QED BY <1>2, <1>3 DEF Inv, TypeInv, RemoveCommit

(* The COMMIT of archive_conversation, which waits for an open send.       *)
LEMMA ArchiveKeeps ==
    ASSUME Inv, NEW c \in Calls, ArchiveCommit(c)
    PROVE  Inv'
<1>1. /\ call' \in [Calls -> CallRow] /\ \A d \in Calls : Named(call'[d])
      /\ OpenSend'
  BY ThreadTaken DEF Inv, ArchiveCommit
<1>2. archived' \in BOOLEAN
  BY DEF ArchiveCommit
<1> QED BY <1>1, <1>2 DEF Inv, TypeInv, ArchiveCommit

(* The two seats a transfer writes.                                        *)
LEMMA TransferSeats ==
    ASSUME Inv, NEW c \in Calls, TransferCommit(c)
    PROVE  /\ call[c].who \in Windows /\ call[c].tgt \in Windows
           /\ seats' \in [Windows -> SeatRow]
           /\ seats'[call[c].tgt].floor = seats[call[c].who].floor
           /\ seats'[call[c].who] = [seats[call[c].who] EXCEPT !.superseded = FALSE]
           /\ \A w \in Windows \ {call[c].who, call[c].tgt} : seats'[w] = seats[w]
<1> DEFINE u == call[c].who
           t == call[c].tgt
           offered == [seats[t] EXCEPT !.state = "invited", !.role = seats[u].role,
                              !.floor = seats[u].floor, !.from = u,
                              !.bound = FALSE, !.offer = "transfer"]
           source == [seats[u] EXCEPT !.superseded = FALSE]
<1>1. u \in Windows /\ t \in Windows
  BY DEF Inv, TypeInv, Named, TransferCommit, At
<1>2. u # t /\ seats[u] \in SeatRow /\ seats[t] \in SeatRow
  BY <1>1 DEF TransferCommit, Inv, TypeInv
<1>3. offered \in SeatRow /\ offered.floor = seats[u].floor
  BY <1>1, <1>2 DEF SeatRow, States
<1>4. source \in SeatRow
  BY <1>2 DEF SeatRow
<1>5. seats' = [seats EXCEPT ![t] = offered, ![u] = source]
  BY <1>1, <1>2 DEF TransferCommit, Inv, TypeInv
<1> HIDE DEF offered, source
<1>6. /\ seats' \in [Windows -> SeatRow] /\ seats'[t] = offered /\ seats'[u] = source
      /\ \A w \in Windows \ {u, t} : seats'[w] = seats[w]
  BY <1>1, <1>2, <1>3, <1>4, <1>5 DEF Inv, TypeInv
<1> QED BY <1>1, <1>3, <1>6 DEF source

(* The COMMIT of transfer_membership writes the offered seat and the       *)
(* offering one.                                                           *)
LEMMA TransferKeeps ==
    ASSUME Inv, NEW c \in Calls, TransferCommit(c)
    PROVE  Inv'
<1>1. seats' \in [Windows -> SeatRow]
  BY TransferSeats
<1>2. /\ call' \in [Calls -> CallRow] /\ \A d \in Calls : Named(call'[d])
      /\ OpenSend'
  BY ThreadTaken DEF Inv, TransferCommit
<1> QED BY <1>1, <1>2 DEF Inv, TypeInv, TransferCommit

(* What a join does to each seat.                                          *)
LEMMA JoinSeats ==
    ASSUME Inv, NEW w \in Windows, NEW cred \in BOOLEAN, Join(w, cred)
    PROVE  /\ seats' \in [Windows -> SeatRow]
           /\ seats[w].state = "invited" /\ seats'[w].floor = seats[w].floor
           /\ seats'[w].role = seats[w].role
           /\ \A p \in Windows \ {w} :
                \/ seats'[p] = seats[p]
                \/ /\ p \in Predecessor(w) /\ seats'[p].state = "left"
                   /\ seats'[p].role = seats[p].role
<1> DEFINE mine == [seats[w] EXCEPT !.state = "active", !.bound = cred, !.from = NoWindow]
           ended(p) == [seats[p] EXCEPT !.state = "left", !.superseded = TRUE]
<1>1. seats' = [p \in Windows |->
         CASE p = w -> mine
           [] p \in Predecessor(w) -> ended(p)
           [] OTHER -> seats[p]]
  BY DEF Join
<1>2. mine \in SeatRow /\ mine.floor = seats[w].floor /\ mine.role = seats[w].role
  BY DEF Inv, TypeInv, SeatRow, States
<1>3. \A p \in Windows : /\ seats[p] \in SeatRow /\ ended(p) \in SeatRow
                         /\ ended(p).state = "left" /\ ended(p).role = seats[p].role
  BY DEF Inv, TypeInv, SeatRow, States
<1>4. w \notin Predecessor(w)
  BY DEF Predecessor
<1> HIDE DEF mine, ended
<1>5. seats' \in [Windows -> SeatRow]
  BY <1>1, <1>2, <1>3, <1>4
<1>6. seats'[w] = mine
  BY <1>1, <1>4
<1>7. \A p \in Windows \ {w} :
        seats'[p] = seats[p] \/ (p \in Predecessor(w) /\ seats'[p] = ended(p))
  BY <1>1
<1>8. seats[w].state = "invited"
  BY DEF Join
<1> QED BY <1>2, <1>3, <1>5, <1>6, <1>7, <1>8

(* join activates a seat and closes the predecessor it names.              *)
LEMMA JoinKeeps ==
    ASSUME Inv, NEW w \in Windows, NEW cred \in BOOLEAN, Join(w, cred)
    PROVE  Inv'
<1>1. TypeInv'
  BY JoinSeats DEF Inv, TypeInv, Join
<1>2. Sending' = Sending /\ \A p \in Windows : ProjectOpen(p)' = ProjectOpen(p)
  BY DEF Join, Sending, ProjectOpen, Granted
<1>3. ASSUME NEW d \in Sending PROVE seats'[call[d].who] = seats[call[d].who]
  <2>1. call[d].who \in Windows
    BY DEF Sending, Inv, TypeInv, Named
  <2>2. seats[call[d].who].state = "active" /\ call[d].who # w
    BY JoinSeats DEF Inv, OpenSend, Sits
  <2>3. call[d].who \notin Predecessor(w)
    BY DEF Join, SeatLocked
  <2> QED BY <2>1, <2>2, <2>3, JoinSeats
<1>4. \A d \in Sending : call[d].who \in Windows /\ call[d].to \subseteq Windows
  BY DEF Sending, Inv, TypeInv, Named, CallRow
<1>5. OpenSend'
  BY <1>2, <1>3, <1>4, ZenonT(30) DEF OpenSend, Inv, Join, Sits
<1> QED BY <1>1, <1>5 DEF Inv

(* leave ends the caller's own seat.                                       *)
LEMMA LeaveKeeps ==
    ASSUME Inv, NEW w \in Windows, Leave(w)
    PROVE  Inv'
<1>1. seats' \in [Windows -> SeatRow]
  <2>1. [seats[w] EXCEPT !.state = "left"] \in SeatRow
    BY DEF Inv, TypeInv, SeatRow, States
  <2>2. seats' = [seats EXCEPT ![w] = [seats[w] EXCEPT !.state = "left"]]
    BY DEF Leave
  <2> QED BY <2>1, <2>2 DEF Inv, TypeInv
<1>2. TypeInv'
  BY <1>1 DEF Inv, TypeInv, Leave
<1>3. Sending' = Sending /\ \A p \in Windows : ProjectOpen(p)' = ProjectOpen(p)
  BY DEF Leave, Sending, ProjectOpen, Granted
<1>4. ASSUME NEW d \in Sending
      PROVE  /\ call[d].who \in Windows /\ call[d].to \subseteq Windows
             /\ seats'[call[d].who] = seats[call[d].who]
  BY DEF Leave, SeatLocked, Sending, Inv, TypeInv, Named, CallRow
<1>5. OpenSend'
  <2>1. UNCHANGED <<archived, call>>
    BY DEF Leave
  <2>2. ASSUME NEW d \in Sending
        PROVE  /\ ~archived' /\ ProjectOpen(call[d].who)'
               /\ Sits(seats'[call[d].who], {"owner", "moderator", "participant"})
               /\ \A p \in call[d].to : ProjectOpen(p)'
    <3>1. /\ ~archived /\ ProjectOpen(call[d].who) /\ \A p \in call[d].to : ProjectOpen(p)
          /\ Sits(seats[call[d].who], {"owner", "moderator", "participant"})
      BY DEF Inv, OpenSend
    <3>2. ProjectOpen(call[d].who)' /\ \A p \in call[d].to : ProjectOpen(p)'
      BY <1>4, <2>1, <3>1 DEF Leave, ProjectOpen, Granted
    <3> QED BY <1>4, <2>1, <3>1, <3>2
  <2>3. \A c, d \in Sending' : c = d
    BY <1>3 DEF Inv, OpenSend
  <2> QED BY <1>3, <2>1, <2>2, <2>3 DEF OpenSend, Sits
<1> QED BY <1>2, <1>5 DEF Inv

(* set_project_access, in both directions; a revocation waits for the      *)
(* grants a send has locked.                                               *)
LEMMA GrantKeeps ==
    ASSUME Inv, NEW w \in Windows, NEW a \in Agents, Grant(w, a)
    PROVE  Inv'
<1>1. TypeInv'
  BY DEF Inv, TypeInv, Grant
<1>2. Sending' = Sending /\ \A p \in Windows : ProjectOpen(p) => ProjectOpen(p)'
  BY DEF Grant, Sending, ProjectOpen, Granted
<1>3. \A d \in Sending : call[d].who \in Windows /\ call[d].to \subseteq Windows
  BY DEF Sending, Inv, TypeInv, Named, CallRow
<1>4. OpenSend'
  BY <1>2, <1>3 DEF OpenSend, Inv, Grant, Sits
<1> QED BY <1>1, <1>4 DEF Inv

(* A revocation waits for the sends that rest on the grant.                *)
LEMMA RevokeKeeps ==
    ASSUME Inv, NEW w \in Windows, NEW a \in Agents, Revoke(w, a)
    PROVE  Inv'
<1>1. TypeInv'
  BY DEF Inv, TypeInv, Revoke
<1>2. Sending' = Sending
  BY DEF Revoke, Sending
<1>3. \A d \in Sending : call[d].who \in Windows /\ call[d].to \subseteq Windows
  BY DEF Sending, Inv, TypeInv, Named, CallRow
<1>4. ASSUME NEW d \in Sending, NEW p \in call[d].to \cup {call[d].who}, ProjectOpen(p)
      PROVE  ProjectOpen(p)'
  <2>1. visibility = "project" => AgentOf[p] # a
    BY DEF Revoke, GrantLocked
  <2> QED BY <1>4, <2>1 DEF Revoke, ProjectOpen, Granted, Inv, TypeInv
<1>5. OpenSend'
  BY <1>2, <1>3, <1>4 DEF OpenSend, Inv, Revoke, Sits
<1> QED BY <1>1, <1>5 DEF Inv

-----------------------------------------------------------------------------
(* Sends, acknowledgements and reads                                       *)

(* send's INSERT opens the one send, with the locks on the sender's seat   *)
(* and grants.                                                             *)
LEMMA SendWriteKeeps ==
    ASSUME Inv, NEW c \in Calls, SendWrite(c)
    PROVE  Inv'
<1> DEFINE k == [call[c] EXCEPT !.pc = "open", !.to = Recipients(call[c].who)]
<1>1. call[c] \in CallRow /\ call[c].who \in Windows /\ call[c].op = "send"
  BY DEF Inv, TypeInv, Named, SendWrite, At
<1>2. Recipients(call[c].who) \subseteq Windows
  BY DEF Recipients
<1>3. /\ k \in CallRow /\ k.op = "send" /\ k.who = call[c].who /\ k.req = call[c].req
      /\ k.pc = "open" /\ k.to = Recipients(call[c].who)
  BY <1>1, <1>2 DEF CallRow
<1>4. Named(k)
  BY <1>1, <1>3 DEF Named, Inv, TypeInv
<1>5. call' = [call EXCEPT ![c] = k]
  BY <1>1 DEF SendWrite
<1> HIDE DEF k
<1>6. \A d \in Calls : call'[d] = IF d = c THEN k ELSE call[d]
  BY <1>5 DEF Inv, TypeInv
<1>7. TypeInv'
  <2>1. call' \in [Calls -> CallRow]
    BY <1>3, <1>5 DEF Inv, TypeInv
  <2>2. \A d \in Calls : Named(call'[d])
    BY <1>4, <1>6 DEF Inv, TypeInv
  <2> QED BY <2>1, <2>2 DEF Inv, TypeInv, SendWrite
<1>8. Sending' = {c}
  BY <1>3, <1>6, ZenonT(30) DEF Sending, SendWrite, ThreadLocked
<1>9. /\ ~archived /\ ProjectOpen(k.who)
      /\ Sits(seats[k.who], {"owner", "moderator", "participant"})
      /\ \A w \in k.to : ProjectOpen(w)
  <2>1. CanSend(k.who, call[c].cred) /\ ~archived
    BY <1>3 DEF SendWrite
  <2>2. SeatOf(k.who, call[c].cred).state = "active"
    BY <2>1 DEF CanSend, Sits
  <2>3. SeatOf(k.who, call[c].cred) = seats[k.who]
    BY <2>2 DEF SeatOf, NoSeat
  <2> QED BY <1>3, <2>1, <2>3 DEF CanSend, Recipients
<1>10. OpenSend'
  <2>1. call'[c] = k /\ archived' = archived /\ seats' = seats
    BY <1>6 DEF SendWrite
  <2>2. \A w : ProjectOpen(w)' = ProjectOpen(w)
    BY DEF SendWrite, ProjectOpen, Granted
  <2> QED BY <1>8, <1>9, <2>1, <2>2 DEF OpenSend, Sits
<1> QED BY <1>7, <1>10 DEF Inv

(* send's COMMIT stores the message and closes the send.                   *)
LEMMA SendCommitKeeps ==
    ASSUME Inv, NEW c \in Calls, SendCommit(c)
    PROVE  Inv'
<1>1. /\ call' \in [Calls -> CallRow] /\ \A d \in Calls : Named(call'[d])
      /\ Sending' \subseteq Sending /\ \A d \in Sending' : call'[d] = call[d]
  BY CallReplaced, IdleFields DEF Inv, SendCommit
<1>2. [from |-> call[c].who, req |-> call[c].req, to |-> call[c].to] \in Message
  BY DEF Message, Inv, TypeInv, Named, CallRow, SendCommit, At
<1>3. msgs' \in Seq(Message)
  BY <1>2 DEF SendCommit, Inv, TypeInv
<1>4. TypeInv'
  BY <1>1, <1>3 DEF Inv, TypeInv, SendCommit
<1>5. OpenSend'
  BY <1>1 DEF Inv, OpenSend, SendCommit, ProjectOpen, Granted, Sits
<1> QED BY <1>4, <1>5 DEF Inv

(* ack writes receipts only.                                               *)
LEMMA AckKeeps ==
    ASSUME Inv, NEW c \in Calls, AckCommit(c)
    PROVE  Inv'
<1>1. /\ call' \in [Calls -> CallRow] /\ \A d \in Calls : Named(call'[d])
      /\ Sending' \subseteq Sending /\ \A d \in Sending' : call'[d] = call[d]
  BY CallReplaced, IdleFields DEF Inv, AckCommit
<1>2. TypeInv'
  BY <1>1 DEF Inv, TypeInv, AckCommit
<1>3. OpenSend'
  BY <1>1 DEF Inv, OpenSend, AckCommit, ProjectOpen, Granted, Sits
<1> QED BY <1>2, <1>3 DEF Inv

(* The steps of read and get_message change only their own call.           *)
LEMMA ReadsKeep ==
    ASSUME Inv, NEW c \in Calls, ReadFetch(c) \/ Serve(c)
    PROVE  Inv'
<1>1. PICK k \in CallRow : Named(k) /\ k.pc # "open" /\ call' = [call EXCEPT ![c] = k]
  <2>0. call[c] \in CallRow /\ Named(call[c])
    BY DEF Inv, TypeInv
  <2>1. CASE ReadFetch(c)
    <3> DEFINE rows == {s \in 1..LastSeq : s > call[c].floor}
               k == [call[c] EXCEPT !.pc = "fetched", !.rows = rows]
    <3>1. rows \subseteq Nat
      BY DEF LastSeq, Inv, TypeInv
    <3> HIDE DEF rows
    <3>2. /\ k \in CallRow /\ k.pc = "fetched" /\ k.op = call[c].op /\ k.who = call[c].who
          /\ k.tgt = call[c].tgt /\ k.req = call[c].req
      BY <2>0, <3>1 DEF CallRow
    <3>3. call' = [call EXCEPT ![c] = k]
      BY <2>1 DEF ReadFetch, rows
    <3>4. Named(k) /\ k.pc # "open"
      BY <2>0, <3>2 DEF Named
    <3> QED BY <3>2, <3>3, <3>4
  <2>2. CASE Serve(c)
    <3> DEFINE k == [call[c] EXCEPT !.pc = "served"]
    <3>1. /\ k \in CallRow /\ k.pc = "served" /\ k.op = call[c].op /\ k.who = call[c].who
          /\ k.tgt = call[c].tgt /\ k.req = call[c].req
      BY <2>0 DEF CallRow
    <3>2. call' = [call EXCEPT ![c] = k]
      BY <2>2 DEF Serve
    <3>3. Named(k) /\ k.pc # "open"
      BY <2>0, <3>1 DEF Named
    <3> QED BY <3>1, <3>2, <3>3
  <2> QED BY <2>1, <2>2
<1>2. /\ call' \in [Calls -> CallRow] /\ \A d \in Calls : Named(call'[d])
      /\ Sending' \subseteq Sending /\ \A d \in Sending' : call'[d] = call[d]
  BY <1>1, CallReplaced DEF Inv
<1>3. UNCHANGED <<visibility, archived, seats, grants, msgs>>
  BY DEF ReadFetch, Serve
<1>4. TypeInv'
  BY <1>2, <1>3 DEF Inv, TypeInv
<1>5. OpenSend'
  BY <1>2, <1>3 DEF Inv, OpenSend, ProjectOpen, Granted, Sits
<1> QED BY <1>4, <1>5 DEF Inv

-----------------------------------------------------------------------------
(* Theorems                                                                *)

(* Every step of the conversation preserves Inv, one case per action.      *)
LEMMA StepKeeps == Inv /\ [ConversationsNext]_vars => Inv'
<1> SUFFICES ASSUME Inv, [ConversationsNext]_vars PROVE Inv'
  OBVIOUS
<1>1. CASE UNCHANGED vars
  BY <1>1 DEF vars, Inv, TypeInv, OpenSend, Sending, ProjectOpen, Granted, Sits
<1>2. ASSUME NEW c \in Calls, NEW w \in Windows, NEW cred \in BOOLEAN,
             \/ \E t \in Windows, role \in InviteRoles, all \in BOOLEAN :
                  InviteAdmit(c, w, cred, t, role, all)
             \/ \E t \in Windows : RemoveAdmit(c, w, cred, t) \/ TransferAdmit(c, w, cred, t)
             \/ ArchiveAdmit(c, w, cred)
             \/ \E r \in RequestIds : SendAdmit(c, w, cred, r)
             \/ \E s \in Seqs : AckAdmit(c, w, cred, s) \/ GetFetch(c, w, cred, s)
             \/ ReadAdmit(c, w, cred)
      PROVE  Inv'
  BY <1>2, AdmissionsKeep, ConversationsConstants
<1>3. ASSUME NEW c \in Calls,
             \/ InviteCommit(c) \/ RemoveCommit(c) \/ ArchiveCommit(c) \/ TransferCommit(c)
             \/ SendWrite(c) \/ SendCommit(c) \/ AckCommit(c)
             \/ ReadFetch(c) \/ Serve(c) \/ Return(c)
      PROVE  Inv'
  BY <1>3, InviteKeeps, RemoveKeeps, ArchiveKeeps, TransferKeeps, SendWriteKeeps,
     SendCommitKeeps, AckKeeps, ReadsKeep, ReturnKeeps
<1>4. ASSUME NEW w \in Windows,
             \/ \E cred \in BOOLEAN : Join(w, cred)
             \/ Leave(w)
             \/ \E a \in Agents : Grant(w, a) \/ Revoke(w, a)
      PROVE  Inv'
  BY <1>4, JoinKeeps, LeaveKeeps, GrantKeeps, RevokeKeeps
<1> QED BY <1>1, <1>2, <1>3, <1>4 DEF ConversationsNext

(* The types and what an open send rests on hold in every reachable state. *)
THEOREM Invariant == ConversationsSpec => []Inv
<1>1. ConversationsInit => Inv
  BY InitInv
<1>2. Inv /\ [ConversationsNext]_vars => Inv'
  BY StepKeeps
<1> QED BY <1>1, <1>2, PTL DEF ConversationsSpec

(* Which steps write a seat or a message at all.                           *)
LEMMA WritingSteps ==
    ASSUME ConversationsNext
    PROVE  \/ UNCHANGED <<seats, msgs>>
           \/ \E c \in Calls : \/ InviteCommit(c) \/ RemoveCommit(c) \/ TransferCommit(c)
                              \/ SendCommit(c)
           \/ \E w \in Windows : (\E cred \in BOOLEAN : Join(w, cred)) \/ Leave(w)
<1>1. ASSUME NEW c \in Calls, NEW w \in Windows, NEW cred \in BOOLEAN,
             \/ \E t \in Windows, role \in InviteRoles, all \in BOOLEAN :
                  InviteAdmit(c, w, cred, t, role, all)
             \/ \E t \in Windows : RemoveAdmit(c, w, cred, t) \/ TransferAdmit(c, w, cred, t)
             \/ ArchiveAdmit(c, w, cred)
             \/ \E r \in RequestIds : SendAdmit(c, w, cred, r)
             \/ \E s \in Seqs : AckAdmit(c, w, cred, s) \/ GetFetch(c, w, cred, s)
             \/ ReadAdmit(c, w, cred)
      PROVE  UNCHANGED <<seats, msgs>>
  BY <1>1, Zenon DEF InviteAdmit, RemoveAdmit, TransferAdmit, ArchiveAdmit, SendAdmit,
     AckAdmit, GetFetch, ReadAdmit, Admit
<1>2. ASSUME NEW c \in Calls,
             \/ ArchiveCommit(c) \/ SendWrite(c) \/ AckCommit(c)
             \/ ReadFetch(c) \/ Serve(c) \/ Return(c)
      PROVE  UNCHANGED <<seats, msgs>>
  BY <1>2 DEF ArchiveCommit, SendWrite, AckCommit, ReadFetch, Serve, Return
<1>3. ASSUME NEW w \in Windows, NEW a \in Agents, Grant(w, a) \/ Revoke(w, a)
      PROVE  UNCHANGED <<seats, msgs>>
  BY <1>3 DEF Grant, Revoke
<1> QED BY <1>1, <1>2, <1>3 DEF ConversationsNext

(* send's locks carry what it checked to its COMMIT: a message is stored   *)
(* from an active seat that may post, with the project open to its sender  *)
(* and to everyone it is owed to.                                          *)
THEOREM MessagesComeFromSeats == ConversationsSpec => StoredFromASeat
<1> DEFINE Good == LastSeq' > LastSeq =>
         LET m == msgs'[LastSeq'] IN
         /\ ~archived /\ ProjectOpen(m.from)
         /\ Sits(seats[m.from], {"owner", "moderator", "participant"})
         /\ \A w \in m.to : ProjectOpen(w)
<1>1. Inv /\ [ConversationsNext]_vars => [Good]_vars
  <2> SUFFICES ASSUME Inv, ConversationsNext, LastSeq' > LastSeq PROVE Good
    BY DEF Good
  <2>1. msgs' # msgs
    BY DEF LastSeq, Inv, TypeInv
  <2>2. PICK c \in Calls : SendCommit(c)
    BY <2>1, WritingSteps DEF InviteCommit, RemoveCommit, TransferCommit, Join, Leave
  <2> DEFINE m == [from |-> call[c].who, req |-> call[c].req, to |-> call[c].to]
  <2>3. m \in Message
    BY <2>2 DEF Message, Inv, TypeInv, Named, CallRow, SendCommit, At
  <2>4. msgs'[LastSeq'] = m
    BY <2>2, <2>3 DEF SendCommit, LastSeq, Inv, TypeInv
  <2>5. m.from = call[c].who /\ m.to = call[c].to
    OBVIOUS
  <2>6. c \in Sending
    BY <2>2 DEF SendCommit, At, Sending
  <2> HIDE DEF m
  <2> QED BY <2>4, <2>5, <2>6 DEF Inv, OpenSend
<1>2. ConversationsSpec => [][Good]_vars
  BY <1>1, Invariant, PTL DEF ConversationsSpec
<1> QED BY <1>2 DEF StoredFromASeat

(* An open seat is the only source of a floor: a step that opens a seat    *)
(* gives it the floor of an open one, or the end of the thread.            *)
LEMMA FloorsAreHandedOn ==
    ASSUME Inv, ConversationsNext, NEW w \in Windows, Open(seats'[w])
    PROVE  \/ \E v \in Windows : Open(seats[v]) /\ seats'[w].floor = seats[v].floor
           \/ seats'[w].floor = LastSeq
<1>0. seats \in [Windows -> SeatRow]
  BY DEF Inv, TypeInv
<1>1. CASE seats'[w] = seats[w]
  BY <1>1 DEF Open
<1>2. ASSUME NEW c \in Calls, InviteCommit(c), seats'[w] # seats[w]
      PROVE  \/ \E v \in Windows : Open(seats[v]) /\ seats'[w].floor = seats[v].floor
             \/ seats'[w].floor = LastSeq
  <2> DEFINE k == call[c]
  <2>1. k.who \in Windows /\ k.tgt \in Windows
    BY <1>2 DEF Inv, TypeInv, Named, InviteCommit, At
  <2>2. w = k.tgt /\ seats'[w] = Invited(k)
    BY <1>0, <1>2, <2>1 DEF InviteCommit
  <2>3. Open(seats[k.who])
    BY <1>2 DEF InviteCommit, ModeratesNow, Sits, Open
  <2>4. CASE Open(seats[w])
    <3>1. seats'[w].floor = seats[w].floor
      BY <1>0, <2>2, <2>4 DEF Invited, SeatRow
    <3> QED BY <2>4, <3>1
  <2>5. CASE ~Open(seats[w])
    <3>1. seats'[w].floor = OfferedFloor(k)
      BY <1>0, <2>2, <2>5 DEF Invited, SeatRow
    <3> QED BY <2>1, <2>3, <3>1 DEF OfferedFloor
  <2> QED BY <2>4, <2>5
<1>3. ASSUME NEW c \in Calls, RemoveCommit(c) PROVE seats'[w] = seats[w]
  <2>1. call[c].tgt \in Windows
    BY <1>3 DEF Inv, TypeInv, Named, RemoveCommit, At
  <2>2. seats'[call[c].tgt].state = "removed"
    BY <1>0, <1>3, <2>1 DEF RemoveCommit, SeatRow
  <2>3. w # call[c].tgt
    BY <2>2 DEF Open
  <2> QED BY <1>0, <1>3, <2>1, <2>3 DEF RemoveCommit
<1>4. ASSUME NEW c \in Calls, TransferCommit(c)
      PROVE  \E v \in Windows : Open(seats[v]) /\ seats'[w].floor = seats[v].floor
  <2>1. Open(seats[call[c].who])
    BY <1>4 DEF TransferCommit, Open
  <2>2. seats'[call[c].who].floor = seats[call[c].who].floor
    <3>1. /\ seats'[call[c].who] = [seats[call[c].who] EXCEPT !.superseded = FALSE]
          /\ call[c].who \in Windows
      BY <1>4, TransferSeats
    <3> QED BY <1>0, <3>1 DEF SeatRow
  <2> QED BY <1>4, <2>1, <2>2, TransferSeats DEF Open
<1>5. ASSUME NEW p \in Windows, NEW cred \in BOOLEAN, Join(p, cred)
      PROVE  \E v \in Windows : Open(seats[v]) /\ seats'[w].floor = seats[v].floor
  <2>1. CASE w = p
    BY <1>5, <2>1, JoinSeats DEF Open
  <2>2. CASE w # p
    <3>1. seats'[w] = seats[w]
      BY <1>5, <2>2, JoinSeats DEF Open
    <3> QED BY <3>1 DEF Open
  <2> QED BY <2>1, <2>2
<1>6. ASSUME NEW p \in Windows, Leave(p) PROVE seats'[w] = seats[w]
  <2>1. w # p
    BY <1>0, <1>6 DEF Leave, Open, SeatRow
  <2> QED BY <1>0, <1>6, <2>1 DEF Leave
<1>7. ASSUME NEW c \in Calls, SendCommit(c) PROVE seats'[w] = seats[w]
  BY <1>7 DEF SendCommit
<1> QED BY <1>1, <1>2, <1>3, <1>4, <1>5, <1>6, <1>7, WritingSteps

(* History that no open seat reaches is out of reach for good, whatever    *)
(* invitations, re-admissions, transfers and departures follow.            *)
THEOREM HistoryIsNotRegained == ConversationsSpec => LostHistoryStaysLost
<1> DEFINE Good == \A s \in 1..LastSeq : ~Reach(s) => ~Reach(s)'
<1>1. Inv /\ [ConversationsNext]_vars => [Good]_vars
  <2> SUFFICES ASSUME Inv, ConversationsNext, NEW s \in 1..LastSeq, Reach(s)'
               PROVE  Reach(s)
    BY DEF Good
  <2>1. PICK w \in Windows : Open(seats'[w]) /\ seats'[w].floor < s
    BY DEF Reach, Open
  <2>2. ~(seats'[w].floor = LastSeq)
    BY <2>1 DEF LastSeq, Inv, TypeInv
  <2>3. PICK v \in Windows : Open(seats[v]) /\ seats'[w].floor = seats[v].floor
    BY <2>1, <2>2, FloorsAreHandedOn
  <2> QED BY <2>1, <2>3 DEF Reach
<1>2. ConversationsSpec => [][Good]_vars
  BY <1>1, Invariant, PTL DEF ConversationsSpec
<1> QED BY <1>2 DEF LostHistoryStaysLost

(* Only an owner's call demotes or removes an owner, judged by the         *)
(* caller's seat and grant when it commits; otherwise the owner left or    *)
(* handed its seat on.                                                     *)
THEOREM OwnersAnswerToOwners == ConversationsSpec => OwnersChangedByOwners
<1> DEFINE Unseated(w) == /\ Open(seats[w]) /\ seats[w].role = "owner"
                          /\ seats'[w].role # "owner" \/ seats'[w].state = "removed"
           ByOwner == \E c \in Calls :
              /\ call[c].op \in {"invite", "remove"} /\ call'[c] = Idle
              /\ Sits(seats[call[c].who], {"owner"}) /\ ProjectOpen(call[c].who)
           Good == \A w \in Windows :
              Open(seats[w]) /\ seats[w].role = "owner"
                 /\ (seats'[w].role # "owner" \/ seats'[w].state = "removed")
              => \E c \in Calls :
                   /\ call[c].op \in {"invite", "remove"} /\ call'[c] = Idle
                   /\ Sits(seats[call[c].who], {"owner"}) /\ ProjectOpen(call[c].who)
<1>1. Inv /\ [ConversationsNext]_vars => [Good]_vars
  <2> SUFFICES ASSUME Inv, ConversationsNext, NEW w \in Windows, Unseated(w)
               PROVE  ByOwner
    BY DEF Good
  <2>0. /\ seats \in [Windows -> SeatRow] /\ seats[w] \in SeatRow /\ seats[w].state # "removed"
        /\ call \in [Calls -> CallRow]
    BY DEF Inv, TypeInv, Open
  <2>1. ASSUME NEW c \in Calls, InviteCommit(c) \/ RemoveCommit(c)
        PROVE  ByOwner
    <3>1. call[c].tgt \in Windows /\ call[c].op \in {"invite", "remove"}
      BY <2>1 DEF Inv, TypeInv, Named, InviteCommit, RemoveCommit, At
    <3>2. w = call[c].tgt
      <4>1. \A v \in Windows \ {call[c].tgt} : seats'[v] = seats[v]
        BY <2>0, <2>1, <3>1 DEF InviteCommit, RemoveCommit
      <4> QED BY <2>0, <4>1
    <3>3. ModeratesNow(call[c].who) /\ MayChange(call[c])
      BY <2>1 DEF InviteCommit, RemoveCommit
    <3>4. Sits(seats[call[c].who], {"owner"}) /\ ProjectOpen(call[c].who)
      BY <3>2, <3>3 DEF ModeratesNow, MayChange, Sits
    <3>5. call'[c] = Idle
      BY <2>0, <2>1 DEF InviteCommit, RemoveCommit
    <3> QED BY <3>1, <3>4, <3>5
  <2>2. ASSUME NEW c \in Calls, TransferCommit(c) PROVE FALSE
    <3>1. w # call[c].tgt
      BY <2>2 DEF TransferCommit, Open
    <3>2. CASE w = call[c].who
      <4>1. seats'[w] = [seats[w] EXCEPT !.superseded = FALSE]
        BY <2>2, <3>2, TransferSeats
      <4>2. seats'[w].role = seats[w].role /\ seats'[w].state = seats[w].state
        BY <2>0, <4>1 DEF SeatRow
      <4> QED BY <2>0, <4>2
    <3>3. CASE w # call[c].who
      BY <2>0, <2>2, <3>1, <3>3, TransferSeats
    <3> QED BY <3>2, <3>3
  <2>3. ASSUME NEW p \in Windows, NEW cred \in BOOLEAN, Join(p, cred) PROVE FALSE
    <3>1. CASE w = p
      <4>1. seats'[w].state = "active"
        BY <2>0, <2>3, <3>1 DEF Join, SeatRow
      <4> QED BY <2>3, <3>1, <4>1, JoinSeats
    <3>2. CASE w # p
      BY <2>0, <2>3, <3>2, JoinSeats
    <3> QED BY <3>1, <3>2
  <2>4. ASSUME NEW p \in Windows, Leave(p) PROVE FALSE
    <3>1. CASE w = p
      <4>1. seats'[w] = [seats[w] EXCEPT !.state = "left"]
        BY <2>0, <2>4, <3>1 DEF Leave
      <4>2. seats'[w].role = seats[w].role /\ seats'[w].state = "left"
        BY <2>0, <4>1 DEF SeatRow
      <4> QED BY <4>2
    <3>2. CASE w # p
      BY <2>0, <2>4, <3>2 DEF Leave
    <3> QED BY <3>1, <3>2
  <2>5. ASSUME UNCHANGED seats PROVE FALSE
    BY <2>0, <2>5
  <2>6. ASSUME NEW c \in Calls, SendCommit(c) PROVE FALSE
    BY <2>5, <2>6 DEF SendCommit
  <2> HIDE DEF Unseated, ByOwner
  <2> QED BY <2>1, <2>2, <2>3, <2>4, <2>5, <2>6, WritingSteps
<1>2. ConversationsSpec => [][Good]_vars
  BY <1>1, Invariant, PTL DEF ConversationsSpec
<1> QED BY <1>2 DEF OwnersChangedByOwners

(* Of all steps, only the answer itself takes a call from its fetched rows *)
(* to served.                                                              *)
LEMMA OnlyServeAnswers ==
    ASSUME Inv, ConversationsNext, NEW c \in Calls,
           call[c].pc = "fetched", call'[c].pc = "served"
    PROVE  Serve(c)
<1>0. call \in [Calls -> CallRow]
  BY DEF Inv, TypeInv
<1>1. ASSUME NEW d \in Calls, NEW k, Admit(d, k) PROVE FALSE
  BY <1>0, <1>1, IdleFields DEF Admit
<1>2. ASSUME NEW d \in Calls, call[d].pc # "fetched" \/ call'[d].pc # "served",
             \A e \in Calls : e # d => call'[e] = call[e]
      PROVE  FALSE
  BY <1>2
<1>3. ASSUME NEW d \in Calls,
             \/ InviteCommit(d) \/ RemoveCommit(d) \/ ArchiveCommit(d) \/ TransferCommit(d)
             \/ SendCommit(d) \/ AckCommit(d) \/ Return(d)
      PROVE  FALSE
  <2>1. call' = [call EXCEPT ![d] = Idle]
    BY <1>3 DEF InviteCommit, RemoveCommit, ArchiveCommit, TransferCommit, SendCommit, AckCommit,
                Return
  <2>2. call'[d].pc = "idle" /\ \A e \in Calls : e # d => call'[e] = call[e]
    BY <1>0, <2>1, IdleFields
  <2> QED BY <1>2, <2>2
<1>4. ASSUME NEW d \in Calls, SendWrite(d) \/ ReadFetch(d) PROVE FALSE
  <2>1. call[d].pc = "admitted"
    BY <1>4 DEF SendWrite, ReadFetch, At
  <2>2. \A e \in Calls : e # d => call'[e] = call[e]
    BY <1>0, <1>4 DEF SendWrite, ReadFetch
  <2> QED BY <1>2, <2>1, <2>2
<1>5. ASSUME NEW d \in Calls, Serve(d) PROVE d = c
  <2>1. \A e \in Calls : e # d => call'[e] = call[e]
    BY <1>0, <1>5 DEF Serve
  <2> QED BY <2>1
<1>6. ASSUME UNCHANGED call PROVE FALSE
  BY <1>6
<1>7. ASSUME NEW d \in Calls, NEW w \in Windows, NEW cred \in BOOLEAN,
             \/ \E t \in Windows, role \in InviteRoles, all \in BOOLEAN :
                  InviteAdmit(d, w, cred, t, role, all)
             \/ \E t \in Windows : RemoveAdmit(d, w, cred, t) \/ TransferAdmit(d, w, cred, t)
             \/ ArchiveAdmit(d, w, cred)
             \/ \E r \in RequestIds : SendAdmit(d, w, cred, r)
             \/ \E s \in Seqs : AckAdmit(d, w, cred, s) \/ GetFetch(d, w, cred, s)
             \/ ReadAdmit(d, w, cred)
      PROVE  FALSE
  <2>1. \E k : Admit(d, k)
    BY <1>7 DEF InviteAdmit, RemoveAdmit, TransferAdmit, ArchiveAdmit, SendAdmit, AckAdmit,
                GetFetch, ReadAdmit
  <2> QED BY <1>1, <2>1
<1>8. ASSUME NEW w \in Windows,
             \/ \E cred \in BOOLEAN : Join(w, cred)
             \/ Leave(w)
             \/ \E a \in Agents : Grant(w, a) \/ Revoke(w, a)
      PROVE  FALSE
  BY <1>6, <1>8 DEF Join, Leave, Grant, Revoke
<1> QED BY <1>3, <1>4, <1>5, <1>7, <1>8 DEF ConversationsNext

(* read and get_message check again after the rows were fetched: whoever   *)
(* is given messages has the seat, or the grant of the project, then, and  *)
(* not only when the call was admitted.                                    *)
THEOREM AnswersGoToMembers == ConversationsSpec => ServedToMembers
<1> DEFINE Good == \A c \in Calls :
         call[c].pc = "fetched" /\ call'[c].pc = "served" =>
            /\ ProjectOpen(call[c].who)
            /\ Granted(call[c].who) \/ seats[call[c].who].state = "active"
<1>1. Inv /\ [ConversationsNext]_vars => [Good]_vars
  <2> SUFFICES ASSUME Inv, ConversationsNext, NEW c \in Calls,
                      call[c].pc = "fetched", call'[c].pc = "served"
               PROVE  /\ ProjectOpen(call[c].who)
                      /\ Granted(call[c].who) \/ seats[call[c].who].state = "active"
    BY DEF Good
  <2>1. CanReadMessages(call[c].who, call[c].cred)
    BY OnlyServeAnswers DEF Serve
  <2>2. NoSeat.state = "none"
    BY DEF NoSeat
  <2> QED BY <2>1, <2>2 DEF CanReadMessages, SeatOf
<1>2. ConversationsSpec => [][Good]_vars
  BY <1>1, Invariant, PTL DEF ConversationsSpec
<1> QED BY <1>2 DEF ServedToMembers
=============================================================================
