------------------------------ MODULE Messages ------------------------------
(***************************************************************************)
(* Posting and reading of one scope by one window: store/messaging.rs.     *)
(*                                                                         *)
(* A message takes its id from a BIGSERIAL when it is INSERTED and can be  *)
(* read when its transaction COMMITS, attachments and all, so ids and      *)
(* commits may come in different orders.  A read is three statements with  *)
(* no transaction around them, and a window may have several under way.    *)
(***************************************************************************)
EXTENDS Integers, FiniteSets, FiniteSetsExt

CONSTANTS Msgs,       \* messages posted in a behaviour
          Reads,      \* concurrent read_messages calls of the window
          PageLimit   \* limit of read_messages, after the clamp

ASSUME MessagesConstants == PageLimit \in Nat \ {0}

VARIABLES
    post,      \* "none", "open" (inserted) or "done" (committed)
    id,        \* its id once inserted, else 0
    nextId,    \* the sequence
    cursor,    \* read_cursors.last_message_id
    rpc,       \* where each read is: "idle", "cursor" or "page"
    rsince,    \* the cursor it read
    page,      \* the page it fetched
    returned,  \* history: messages some answer returned
    late       \* history: committed after a message with a higher id

messageVars == <<post, id, nextId, cursor, rpc, rsince, page, returned, late>>
messageWrites == <<post, id, nextId, late>>

Committed == {m \in Msgs : post[m] = "done"}

MessagesTypeOK ==
    /\ post \in [Msgs -> {"none", "open", "done"}]
    /\ id \in [Msgs -> Nat] /\ nextId \in Nat /\ cursor \in 0..(nextId - 1)
    /\ rpc \in [Reads -> {"idle", "cursor", "page"}]
    /\ rsince \in [Reads -> Nat] /\ page \in [Reads -> SUBSET Msgs]
    /\ returned \subseteq Msgs /\ late \subseteq Msgs

MessagesInit ==
    /\ post = [m \in Msgs |-> "none"] /\ id = [m \in Msgs |-> 0]
    /\ nextId = 1 /\ cursor = 0
    /\ rpc = [r \in Reads |-> "idle"] /\ rsince = [r \in Reads |-> 0]
    /\ page = [r \in Reads |-> {}]
    /\ returned = {} /\ late = {}

(* post_message: guard and INSERT ... RETURNING id.                        *)
PostInsert(m) ==
    /\ post[m] = "none"
    /\ post' = [post EXCEPT ![m] = "open"]
    /\ id' = [id EXCEPT ![m] = nextId]
    /\ nextId' = nextId + 1
    /\ UNCHANGED <<cursor, rpc, rsince, page, returned, late>>

(* The attachments are in, COMMIT.                                         *)
PostCommit(m) ==
    /\ post[m] = "open"
    /\ post' = [post EXCEPT ![m] = "done"]
    /\ late' = IF \E n \in Committed : id[n] > id[m] THEN late \cup {m} ELSE late
    /\ UNCHANGED <<id, nextId, cursor, rpc, rsince, page, returned>>

(* read_messages(only_new): the cursor.                                    *)
ReadCursor(r) ==
    /\ rpc[r] = "idle"
    /\ rpc' = [rpc EXCEPT ![r] = "cursor"]
    /\ rsince' = [rsince EXCEPT ![r] = cursor]
    /\ UNCHANGED <<messageWrites, cursor, page, returned>>

Ahead(r) == {m \in Committed : id[m] > rsince[r]}

(* Mutant: the newest page, as a history read takes it.                    *)
NewestPage(r) ==
    {m \in Ahead(r) : Cardinality({n \in Ahead(r) : id[n] > id[m]}) < PageLimit}

(* ORDER BY id ASC LIMIT.                                                  *)
PageOf(r) ==
    {m \in Ahead(r) : Cardinality({n \in Ahead(r) : id[n] < id[m]}) < PageLimit}

ReadPage(r) ==
    /\ rpc[r] = "cursor"
    /\ rpc' = [rpc EXCEPT ![r] = "page"]
    /\ page' = [page EXCEPT ![r] = PageOf(r)]
    /\ UNCHANGED <<messageWrites, cursor, rsince, returned>>

(* The upsert: GREATEST(old, new), left out when the page was empty.       *)
NewCursor(r) == Max({cursor} \cup {id[m] : m \in page[r]})

(* The guarded transaction on the cursor, then the answer.                 *)
ReadCommit(r) ==
    /\ rpc[r] = "page"
    /\ cursor' = NewCursor(r)
    /\ returned' = returned \cup page[r]
    /\ rpc' = [rpc EXCEPT ![r] = "idle"]
    /\ rsince' = [rsince EXCEPT ![r] = 0]
    /\ page' = [page EXCEPT ![r] = {}]
    /\ UNCHANGED messageWrites

(* A statement fails, or the guard refuses the cursor: nothing is moved.   *)
ReadFails(r) ==
    /\ rpc[r] # "idle"
    /\ rpc' = [rpc EXCEPT ![r] = "idle"]
    /\ rsince' = [rsince EXCEPT ![r] = 0]
    /\ page' = [page EXCEPT ![r] = {}]
    /\ UNCHANGED <<messageWrites, cursor, returned>>

MessagesNext ==
    \/ \E m \in Msgs : PostInsert(m) \/ PostCommit(m)
    \/ \E r \in Reads : ReadCursor(r) \/ ReadPage(r) \/ ReadCommit(r) \/ ReadFails(r)

MessagesSpec == MessagesInit /\ [][MessagesNext]_messageVars

-----------------------------------------------------------------------------
(* read_messages: the cursor passes a committed message without returning  *)
(* it only when that message committed after one with a higher id.         *)
OnlyLateCommitsSkipped ==
    \A m \in Committed : id[m] <= cursor => m \in returned \cup late
=============================================================================
