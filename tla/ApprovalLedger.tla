--------------------------- MODULE ApprovalLedger ---------------------------
(***************************************************************************)
(* The durable half of the secretary: conversations, their stored          *)
(* messages, and the ledger of approvals (the proposed replies).  Every    *)
(* operation below is one database transaction of the repository layer     *)
(* (app/db/repositories.py), the approval service (app/approvals/*.py),    *)
(* the admin service or a handler that writes these tables.  The handlers  *)
(* run on one asyncio loop and never await inside a transaction, so a      *)
(* transaction is one atomic step.                                         *)
(*                                                                         *)
(* Who calls which operation, and when, is not decided here: SendPipeline  *)
(* composes the callers.  The ledger asks one thing of them, written in    *)
(* ApprovalNext: mark_sent, mark_uncertain and mark_failed_before_send are *)
(* called for an approval that is being sent.                              *)
(*                                                                         *)
(* The definitions whose comment starts with "Slip:" are faulty variants   *)
(* of the definition that follows them; no specification uses them.        *)
(***************************************************************************)
EXTENDS ConversationStates, Naturals

CONSTANTS
    Conversations,   \* private chats of the one configured owner
    MessageIds,      \* Telegram message ids inside a chat
    Bodies,          \* texts of messages and of proposed replies
    Approvals,       \* primary keys of the approvals table
    Targets,         \* conversation states the owner has a button for
    MaxRevision      \* bound on the revision that events from outside may reach

ASSUME LedgerAssumption ==
    /\ MaxRevision \in Nat
    /\ Conversations # {}
    /\ Bodies # {}
    /\ Targets \subseteq States

VARIABLES
    revision,    \* Conversation.revision; 0 while the chat has no row
    convState,   \* Conversation.state
    excluded,    \* Contact.is_excluded of the chat's contact
    rows,        \* the stored messages of each chat, by Telegram id
    status,      \* Approval.status; UNUSED while the key has no row
    chat,        \* Approval.conversation_id
    bound,       \* Approval.conversation_revision
    candidate,   \* Approval.candidate_response
    overdue,     \* approvals whose expires_at has passed
    basis        \* ghost: the conversation as it was when the reply was drafted

chatVars == <<revision, convState, excluded, rows>>
draftVars == <<chat, bound, candidate, basis>>
ledgerVars == <<chatVars, status, draftVars, overdue>>

-----------------------------------------------------------------------------
Resolved == {"SENT", "UNCERTAIN", "FAILED", "REJECTED", "STALE", "SUPERSEDED", "EXPIRED"}

Statuses == {"UNUSED", "PENDING", "SENDING"} \cup Resolved

NoRow == [author |-> "NONE"]

Row == [author : {"CONTACT", "OWNER"}, body : Bodies, deleted : BOOLEAN]

\* What a reply is written against: the stored messages and the state of the chat.
Views == [rows : [MessageIds -> Row \cup {NoRow}], state : States]

View(c) == [rows |-> rows[c], state |-> convState[c]]

LedgerTypeOK ==
    /\ revision \in [Conversations -> Nat]
    /\ convState \in [Conversations -> States]
    /\ excluded \in [Conversations -> BOOLEAN]
    /\ rows \in [Conversations -> [MessageIds -> Row \cup {NoRow}]]
    /\ status \in [Approvals -> Statuses]
    /\ chat \in [Approvals -> Conversations]
    /\ bound \in [Approvals -> Nat]
    /\ candidate \in [Approvals -> Bodies]
    /\ basis \in [Approvals -> Views]
    /\ overdue \subseteq Approvals

\* What a row of `approvals` holds before it is written is irrelevant; one fixed
\* choice keeps the initial state unique.
AnyConversation == CHOOSE c \in Conversations : TRUE
AnyBody == CHOOSE b \in Bodies : TRUE

\* An empty database: no chat is known and no reply was ever proposed.
LedgerInit ==
    /\ revision = [c \in Conversations |-> 0]
    /\ convState = [c \in Conversations |-> "AI_APPROVAL"]
    /\ excluded = [c \in Conversations |-> FALSE]
    /\ rows = [c \in Conversations |-> [m \in MessageIds |-> NoRow]]
    /\ status = [a \in Approvals |-> "UNUSED"]
    /\ chat = [a \in Approvals |-> AnyConversation]
    /\ bound = [a \in Approvals |-> 0]
    /\ candidate = [a \in Approvals |-> AnyBody]
    /\ basis = [a \in Approvals |-> View(AnyConversation)]
    /\ overdue = {}

-----------------------------------------------------------------------------
(* Helpers shared by the transactions.                                     *)

Known(c) == revision[c] # 0

Stored(c, m) == rows[c][m] # NoRow

\* MaxRevision caps what the outside world does to a chat, never what the
\* secretary does in answer to it.
Room(c) == revision[c] < MaxRevision

\* Slip: a writer that forgets the revision.
NoBump(c) == UNCHANGED revision

Bump(c) == revision' = [revision EXCEPT ![c] = @ + 1]

\* Slip: drafts left as they are.
InvalidatedNone(c, to) == status

\* ApprovalRepository.invalidate_pending
Invalidated(c, to) ==
    [a \in Approvals |->
        IF chat[a] = c /\ status[a] = "PENDING" THEN to ELSE status[a]]

\* ConversationRepository.append_outgoing: nothing happens for a known id.
AppendOutgoing(c, m, b) ==
    IF Stored(c, m)
    THEN UNCHANGED chatVars
    ELSE /\ rows' = [rows EXCEPT ![c][m] =
                        [author |-> "OWNER", body |-> b, deleted |-> FALSE]]
         /\ Bump(c)
         /\ UNCHANGED <<convState, excluded>>

-----------------------------------------------------------------------------
(* Telegram updates.                                                       *)

\* Slip: a further message of a known chat is stored without a new revision.
IngestQuietly(c, m, b, defaultState) ==
    /\ Room(c)
    /\ ~Stored(c, m)
    /\ rows' = [rows EXCEPT ![c][m] =
                    [author |-> "CONTACT", body |-> b, deleted |-> FALSE]]
    /\ revision' = [revision EXCEPT ![c] = IF Known(c) THEN @ ELSE 2]
    /\ convState' = [convState EXCEPT ![c] = IF Known(c) THEN @ ELSE defaultState]
    /\ UNCHANGED <<excluded, status, draftVars, overdue>>

\* ConversationRepository.ingest_business_message for an id not seen before (a
\* known id is returned as a duplicate and changes nothing).  The first message
\* creates the chat's row at revision 1 and then bumps it like any other.
Ingest(c, m, b, defaultState) ==
    /\ Room(c)
    /\ ~Stored(c, m)
    /\ rows' = [rows EXCEPT ![c][m] =
                    [author |-> "CONTACT", body |-> b, deleted |-> FALSE]]
    /\ revision' = [revision EXCEPT ![c] = IF Known(c) THEN @ + 1 ELSE 2]
    /\ convState' = [convState EXCEPT ![c] = IF Known(c) THEN @ ELSE defaultState]
    /\ UNCHANGED <<excluded, status, draftVars, overdue>>

\* ConversationRepository.mark_edited for a stored message.
MarkEdited(c, m, b) ==
    /\ Room(c)
    /\ Stored(c, m)
    /\ rows' = [rows EXCEPT ![c][m].body = b]
    /\ Bump(c)
    /\ status' = Invalidated(c, "STALE")
    /\ UNCHANGED <<convState, excluded, draftVars, overdue>>

\* ConversationRepository.mark_deleted: one update names several messages.
MarkDeleted(c, ms) ==
    /\ Room(c)
    /\ \E m \in ms : Stored(c, m)
    /\ rows' = [rows EXCEPT ![c] =
                    [m \in MessageIds |->
                        IF m \in ms /\ Stored(c, m)
                        THEN [rows[c][m] EXCEPT !.deleted = TRUE]
                        ELSE rows[c][m]]]
    /\ Bump(c)
    /\ status' = Invalidated(c, "STALE")
    /\ UNCHANGED <<convState, excluded, draftVars, overdue>>

\* A message the owner wrote by hand, or a one-time reply that was delivered:
\* older drafts give way to it and it becomes part of the history.
OwnerSpoke(c, m, b) ==
    /\ Known(c)
    /\ status' = Invalidated(c, "SUPERSEDED")
    /\ AppendOutgoing(c, m, b)
    /\ UNCHANGED <<draftVars, overdue>>

\* A sent message that is recorded without touching the drafts.
RecordOutgoing(c, m, b) ==
    /\ Known(c)
    /\ AppendOutgoing(c, m, b)
    /\ UNCHANGED <<status, draftVars, overdue>>

-----------------------------------------------------------------------------
(* The state of a conversation.                                            *)

\* admin/service.py set_conversation_state, for a change of state.
SetConversationState(c, target) ==
    /\ Room(c)
    /\ Known(c)
    /\ convState[c] # target
    /\ CanTransition(convState[c], target)
    /\ convState' = [convState EXCEPT ![c] = target]
    /\ excluded' = [excluded EXCEPT ![c] = (target = "EXCLUDED")]
    /\ status' = IF target \in BlockedStates THEN Invalidated(c, "STALE") ELSE status
    /\ Bump(c)
    /\ UNCHANGED <<rows, draftVars, overdue>>

\* A custom intent of the owner hands the chat over (_route_message_to_automation).
HandoffByIntent(c) ==
    /\ Room(c)
    /\ Known(c)
    /\ status' = Invalidated(c, "SUPERSEDED")
    /\ convState' = [convState EXCEPT ![c] = "HUMAN_TAKEOVER"]
    /\ Bump(c)
    /\ UNCHANGED <<excluded, rows, draftVars, overdue>>

\* The customer menu and a finished flow hand the chat over without a look at the
\* drafts: those lose their currency through the revision alone.
HandoffInPlace(c) ==
    /\ Room(c)
    /\ Known(c)
    /\ convState' = [convState EXCEPT ![c] = "HUMAN_TAKEOVER"]
    /\ Bump(c)
    /\ UNCHANGED <<excluded, rows, status, draftVars, overdue>>

-----------------------------------------------------------------------------
(* The life of an approval.                                                *)

\* create_approval: the caller drafted body b against `view` and, where it worked
\* from a snapshot, found the chat's revision unchanged in this same transaction.
CreateApproval(c, a, b, view) ==
    /\ Known(c)
    /\ status[a] = "UNUSED"
    /\ status' = [Invalidated(c, "SUPERSEDED") EXCEPT ![a] = "PENDING"]
    /\ chat' = [chat EXCEPT ![a] = c]
    /\ bound' = [bound EXCEPT ![a] = revision[c]]
    /\ candidate' = [candidate EXCEPT ![a] = b]
    /\ basis' = [basis EXCEPT ![a] = view]
    /\ UNCHANGED <<chatVars, overdue>>

\* approvals/editing.py update_approval_candidate: the owner rewords a draft.
UpdateCandidate(a, b) ==
    /\ status[a] = "PENDING"
    /\ candidate' = [candidate EXCEPT ![a] = b]
    /\ UNCHANGED <<chatVars, status, chat, bound, basis, overdue>>

\* Time passes expires_at.
Lapse(a) ==
    /\ status[a] = "PENDING"
    /\ a \notin overdue
    /\ overdue' = overdue \cup {a}
    /\ UNCHANGED <<chatVars, status, draftVars>>

\* Slip: the claim trusts the draft's age and status alone.
ClaimableAtAnyRevision(a) == status[a] = "PENDING" /\ a \notin overdue

\* Slip: the claim without its compare-and-set, so that a second click gets it too.
ClaimableTwice(a) ==
    /\ status[a] \in {"PENDING", "SENDING"}
    /\ a \notin overdue
    /\ bound[a] = revision[chat[a]]

\* The conditions of ApprovalRepository.claim_for_send.
Claimable(a) ==
    /\ status[a] = "PENDING"
    /\ a \notin overdue
    /\ bound[a] = revision[chat[a]]

\* claim_for_send grants the one claim of a current draft.
GrantClaim(a) ==
    /\ Claimable(a)
    /\ status' = [status EXCEPT ![a] = "SENDING"]
    /\ UNCHANGED <<chatVars, draftVars, overdue>>

\* claim_for_send refuses: a draft past its time or its revision is resolved on
\* the spot, any other approval stays as it is.
RefuseClaim(a) ==
    /\ status[a] # "UNUSED"
    /\ ~Claimable(a)
    /\ status' = IF status[a] # "PENDING" THEN status
                 ELSE [status EXCEPT ![a] = IF a \in overdue THEN "EXPIRED" ELSE "STALE"]
    /\ UNCHANGED <<chatVars, draftVars, overdue>>

\* A conditional UPDATE ... WHERE status = `from`.
CompareAndSet(a, from, to) ==
    status' = [status EXCEPT ![a] = IF @ = from THEN to ELSE @]

\* mark_sent: the message id is stored and the reply joins the history with the
\* text the row holds now.
MarkSent(a, m) ==
    /\ CompareAndSet(a, "SENDING", "SENT")
    /\ AppendOutgoing(chat[a], m, candidate[a])
    /\ UNCHANGED <<draftVars, overdue>>

\* Slip: a send that raised is taken for a send that did not happen.
MarkUncertainAsFailed(a) ==
    /\ CompareAndSet(a, "SENDING", "FAILED")
    /\ UNCHANGED <<chatVars, draftVars, overdue>>

\* Slip: the exception is logged and nothing is written.
MarkNothing(a) == UNCHANGED ledgerVars

\* mark_uncertain: the outcome of the send is unknown.
MarkUncertain(a) ==
    /\ CompareAndSet(a, "SENDING", "UNCERTAIN")
    /\ UNCHANGED <<chatVars, draftVars, overdue>>

\* Slip: the name of the audit action written as the status.
MarkBlockedBeforeSend(a) ==
    /\ status' = [status EXCEPT ![a] = "BLOCKED"]
    /\ UNCHANGED <<chatVars, draftVars, overdue>>

\* mark_failed_before_send assigns the status whatever it was.
MarkFailedBeforeSend(a) ==
    /\ status' = [status EXCEPT ![a] = "FAILED"]
    /\ UNCHANGED <<chatVars, draftVars, overdue>>

\* reject, from the card or the list of pending drafts.
Reject(a) ==
    /\ status[a] # "UNUSED"
    /\ CompareAndSet(a, "PENDING", "REJECTED")
    /\ UNCHANGED <<chatVars, draftVars, overdue>>

-----------------------------------------------------------------------------
(* The ledger under every order of calls.                                  *)

UpdateNext(c) ==
    \/ \E m \in MessageIds, b \in Bodies, s \in {"AI_AUTO", "AI_APPROVAL"} : Ingest(c, m, b, s)
    \/ \E m \in MessageIds, b \in Bodies : MarkEdited(c, m, b)
    \/ \E ms \in SUBSET MessageIds : MarkDeleted(c, ms)
    \/ \E m \in MessageIds, b \in Bodies : OwnerSpoke(c, m, b)
    \/ \E m \in MessageIds, b \in Bodies : RecordOutgoing(c, m, b)

StateNext(c) ==
    \/ \E s \in Targets : SetConversationState(c, s)
    \/ HandoffByIntent(c)
    \/ HandoffInPlace(c)

ApprovalNext(a) ==
    \/ \E c \in Conversations, b \in Bodies : CreateApproval(c, a, b, View(c))
    \/ \E b \in Bodies : UpdateCandidate(a, b)
    \/ Lapse(a)
    \/ GrantClaim(a)
    \/ RefuseClaim(a)
    \/ \E m \in MessageIds : status[a] = "SENDING" /\ MarkSent(a, m)
    \/ status[a] = "SENDING" /\ MarkUncertain(a)
    \/ status[a] = "SENDING" /\ MarkFailedBeforeSend(a)
    \/ Reject(a)

LedgerNext ==
    \/ \E c \in Conversations : UpdateNext(c) \/ StateNext(c)
    \/ \E a \in Approvals : ApprovalNext(a)

LedgerSpec == LedgerInit /\ [][LedgerNext]_ledgerVars

-----------------------------------------------------------------------------
(* What the ledger guarantees to every caller.                             *)

\* A chat never has two open drafts, however proposals, events and owner actions
\* interleave (ApprovalRepository.create supersedes the ones before it).
OnePendingPerChat ==
    \A a1, a2 \in Approvals :
        /\ status[a1] = "PENDING" /\ status[a2] = "PENDING"
        /\ chat[a1] = chat[a2]
        => a1 = a2

\* The revision is a sound stand-in for the conversation: while a draft's bound
\* revision is the chat's revision, no message was added, edited or deleted and
\* the state did not change since the draft was written, whoever wrote the chat.
CurrentMeansUnchanged ==
    \A a \in Approvals :
        status[a] = "PENDING" /\ bound[a] = revision[chat[a]] => basis[a] = View(chat[a])

\* claim_for_send is the only door to SENDING, and it opens only for a draft that
\* was pending, has not lapsed and whose chat is what it was when it was drafted.
ClaimsAreCurrent ==
    [][\A a \in Approvals :
          status[a] # "SENDING" /\ status'[a] = "SENDING" =>
              /\ status[a] = "PENDING"
              /\ a \notin overdue
              /\ basis[a] = View(chat[a])]_ledgerVars

\* No late callback revives an approval: what was sent, left uncertain, failed,
\* rejected, superseded, expired or made stale stays so, whichever buttons of an
\* old card the owner still presses.
ResolvedIsFinal ==
    [][\A a \in Approvals : status[a] \in Resolved => status'[a] = status[a]]_ledgerVars

\* From the claim on, what the claim snapshot holds is what the row holds: neither
\* the text nor the chat of an approval that is being or was sent can change, so
\* the history and the audit name what really went out.
ClaimedIsFrozen ==
    [][\A a \in Approvals :
          status[a] \in {"SENDING"} \cup Resolved =>
              /\ candidate'[a] = candidate[a]
              /\ chat'[a] = chat[a]
              /\ bound'[a] = bound[a]]_ledgerVars

-----------------------------------------------------------------------------
(* The ledger implements the contract of replies.                          *)

PhaseOf(s) ==
    CASE s = "UNUSED" -> "unused"
      [] s = "PENDING" -> "open"
      [] s = "SENDING" -> "committed"
      [] s \in {"SENT", "UNCERTAIN", "FAILED"} -> "settled"
      [] OTHER -> "void"

Contract == INSTANCE ReplyContract WITH
    Chats <- Conversations,
    Replies <- Approvals,
    Texts <- Bodies,
    Contents <- Views,
    content <- [c \in Conversations |-> View(c)],
    phase <- [a \in Approvals |-> PhaseOf(status[a])],
    target <- chat,
    text <- candidate,
    seen <- basis

\* Read through PhaseOf, every transaction is a step of ReplyContract or leaves it
\* alone: revisions, expiry and compare-and-set together keep the promise.
ContractSpec == Contract!Spec
=============================================================================
