---------------------------- MODULE SendPipeline ----------------------------
(***************************************************************************)
(* The live half of the secretary: the asyncio jobs that read and write    *)
(* the ledger between their awaits, and Telegram on the other side of      *)
(* those awaits.  Translated from app/telegram/bootstrap.py, admin_ui.py,  *)
(* approval_edit_ui.py, behavior_ui.py, interface_ui.py and debounce.py.   *)
(*                                                                         *)
(* A job is one running handler or debounced task.  One action is one      *)
(* stretch of a job between two awaits; a stretch that commits two         *)
(* transactions is two actions, and no other job runs between them         *)
(* (LoopFree), but the process may die there.                              *)
(*                                                                         *)
(* The definitions whose comment starts with "Slip:" are faulty variants   *)
(* of the definition that follows them; no specification uses them.        *)
(***************************************************************************)
EXTENDS ApprovalLedger, Policy

CONSTANTS
    Connections,    \* business connection ids of the owner's account
    Incoming,       \* ids of messages that people write
    Receipts,       \* ids Telegram gives to the replies it is sent
    Media,          \* the messages that are not text
    Clicks,         \* slots for running "send" callbacks of the owner
    Handlers,       \* slots for message handlers that await something
    OneTimes,       \* slots for one-time replies the owner is sending
    ModeChoices,    \* global modes the owner turns to
    MaxCrashes      \* bound on crashes of the process

\* A reply that was sent without a row of `approvals` (approval_id is None).
NoApproval == "NONE"

\* ESCALATED is a state nobody can choose: admin_ui offers no button for it.
ASSUME PipelineAssumption ==
    /\ Incoming \cup Receipts \subseteq MessageIds
    /\ Incoming \cap Receipts = {}
    /\ Media \subseteq Incoming
    /\ ModeChoices \subseteq Modes
    /\ MaxCrashes \in Nat
    /\ Connections # {}
    /\ NoApproval \notin Approvals
    /\ "ESCALATED" \notin Targets

VARIABLES
    mode,       \* Owner.default_mode
    active,     \* the connection that Telegram delivers updates on
    canReply,   \* whether the active connection has the reply right now
    link,       \* Conversation.business_connection_id
    job,        \* what every job is doing
    outbox,     \* the replies that left for Telegram, by the id it has for them
    accepted,   \* those of them that Telegram accepted: the customer reads them
    crashes     \* how often the process died

telegramVars == <<active, canReply, outbox, accepted>>
pipeVars == <<telegramVars, mode, link, job, crashes>>
vars == <<ledgerVars, pipeVars>>

-----------------------------------------------------------------------------
(* Jobs.                                                                   *)

\* The debounce registry has one task per connection and chat.
Workers == Connections \X Conversations

Jobs == Workers \cup Clicks \cup Handlers \cup OneTimes

\* What a sender holds: the claim snapshot (ApprovalClaim), or a direct reply that
\* no approval stands for.
Replies == [approval : Approvals \cup {NoApproval}, conn : Connections,
            chat : Conversations, body : Bodies]

NoReply == [approval |-> "NOTHING"]

Idle == [pc |-> "idle"]

JobStates ==
    {Idle}
    \cup [pc : {"wait"}, msg : Incoming]
    \cup [pc : {"analyse"}, msg : Incoming, rev : Nat, view : Views, state : States]
    \cup [pc : {"claim"}, approval : Approvals]
    \cup [pc : {"route", "card", "notify"}, conn : Connections, chat : Conversations]
    \cup [pc : {"check"}, approval : Approvals, conn : Connections]
    \cup [pc : {"permit"}, reply : Replies]
    \cup [pc : {"send"}, reply : Replies, receipt : Receipts]

\* No job is in the middle of a stretch: another one may run.
LoopFree == \A j \in Jobs : job[j].pc \notin {"claim", "route"}

\* Telegram lets a connection speak for the owner.
MayReply(k) == k = active /\ canReply

\* debouncer.schedule at the end of a handler: older work for the key is cancelled.
Wait(m) == [pc |-> "wait", msg |-> m]

\* The job j ends; a message handler cancels the debounced work of its key first.
Ended(j) ==
    IF j \in Handlers
    THEN LET key == IF "reply" \in DOMAIN job[j]
                    THEN <<job[j].reply.conn, job[j].reply.chat>>
                    ELSE <<job[j].conn, job[j].chat>>
         IN  [job EXCEPT ![j] = Idle, ![key] = Idle]
    ELSE [job EXCEPT ![j] = Idle]

PipeTypeOK ==
    /\ LedgerTypeOK
    /\ mode \in Modes
    /\ active \in Connections
    /\ canReply \in BOOLEAN
    /\ link \in [Conversations -> Connections]
    /\ job \in [Jobs -> JobStates]
    /\ outbox \in [Receipts -> Replies \cup {NoReply}]
    /\ accepted \subseteq Receipts
    /\ crashes \in Nat

Init ==
    /\ LedgerInit
    /\ mode \in ModeChoices
    /\ active \in Connections
    /\ canReply = TRUE
    /\ link = [c \in Conversations |-> active]
    /\ job = [j \in Jobs |-> Idle]
    /\ outbox = [r \in Receipts |-> NoReply]
    /\ accepted = {}
    /\ crashes = 0

-----------------------------------------------------------------------------
(* Messages arrive.  on_business_message ingests and, without an await in  *)
(* between, routes the text or schedules a debounced worker.               *)

DefaultState == IF mode = "AUTO" THEN "AI_AUTO" ELSE "AI_APPROVAL"

CustomerWrote(c, m, b) ==
    /\ LoopFree
    /\ m \in Incoming
    /\ Ingest(c, m, b, DefaultState)
    /\ link' = [link EXCEPT ![c] = active]
    /\ UNCHANGED <<telegramVars, mode, crashes>>

\* Text that no custom intent matches, a photo, voice, audio or document.
CustomerWrites(c, m, b) ==
    /\ CustomerWrote(c, m, b)
    /\ job' = [job EXCEPT ![<<active, c>>] = Wait(m)]

\* A sticker, a video, a location: stored, and nobody is asked to look at it.
CustomerSendsOther(c, m, b) ==
    /\ CustomerWrote(c, m, b)
    /\ m \in Media
    /\ UNCHANGED job

\* Text that a custom intent matches; room is left for a handoff.
CustomerWritesMatched(h, c, m, b) ==
    /\ CustomerWrote(c, m, b)
    /\ revision[c] + 1 < MaxRevision
    /\ m \notin Media
    /\ job[h] = Idle
    /\ job' = [job EXCEPT ![h] =
                  [pc |-> "route", conn |-> active, chat |-> c]]

\* The owner writes in the chat by hand.
OwnerWrites(c, m, b) ==
    /\ LoopFree
    /\ Room(c)
    /\ m \in Incoming
    /\ ~Stored(c, m)
    /\ OwnerSpoke(c, m, b)
    /\ job' = [job EXCEPT ![<<active, c>>] = Idle]
    /\ UNCHANGED <<telegramVars, mode, link, crashes>>

\* on_edited_business_message: pending work is cancelled and, for the text of a
\* customer, scheduled anew.
MessageEdited(c, m, b) ==
    /\ LoopFree
    /\ m \in Incoming
    /\ MarkEdited(c, m, b)
    /\ job' = [job EXCEPT ![<<active, c>>] =
                  IF rows[c][m].author = "CONTACT" /\ m \notin Media THEN Wait(m) ELSE Idle]
    /\ UNCHANGED <<telegramVars, mode, link, crashes>>

\* on_deleted_business_messages.
MessageDeleted(c, m) ==
    /\ LoopFree
    /\ MarkDeleted(c, {m})
    /\ job' = [job EXCEPT ![<<active, c>>] = Idle]
    /\ UNCHANGED <<telegramVars, mode, link, crashes>>

\* An edit or a deletion of a message older than the secretary: the ledger has
\* nothing to change, but the pending work of the chat is cancelled all the same.
UnknownMessageTouched(c) ==
    /\ LoopFree
    /\ job[<<active, c>>] # Idle
    /\ job' = [job EXCEPT ![<<active, c>>] = Idle]
    /\ UNCHANGED <<ledgerVars, telegramVars, mode, link, crashes>>

-----------------------------------------------------------------------------
(* A matched text (_route_message_to_automation).                          *)

\* DRAFT_RESPONSE: the configured text becomes a draft, whatever the state.
RouteToDraft(h, a, b) ==
    /\ job[h].pc = "route"
    /\ CreateApproval(job[h].chat, a, b, View(job[h].chat))
    /\ job' = [job EXCEPT ![h].pc = "card"]
    /\ UNCHANGED <<telegramVars, mode, link, crashes>>

\* HANDOFF.
RouteToHandoff(h) ==
    /\ job[h].pc = "route"
    /\ HandoffByIntent(job[h].chat)
    /\ job' = [job EXCEPT ![h].pc = "notify"]
    /\ UNCHANGED <<telegramVars, mode, link, crashes>>

\* The owner got the card of the draft; the handler ends.
CardDelivered(h) ==
    /\ LoopFree
    /\ job[h].pc = "card"
    /\ job' = Ended(h)
    /\ UNCHANGED <<ledgerVars, telegramVars, mode, link, crashes>>

\* The owner knows of the handoff; the customer is to get an acknowledgement.
HandoffNotified(h) ==
    /\ LoopFree
    /\ job[h].pc = "notify"
    /\ \E b \in Bodies :
          job' = [job EXCEPT ![h] =
                    [pc |-> "permit",
                     reply |-> [approval |-> NoApproval, conn |-> job[h].conn,
                                chat |-> job[h].chat, body |-> b]]]
    /\ UNCHANGED <<ledgerVars, telegramVars, mode, link, crashes>>

\* The owner cannot be reached, retries included: the exception ends the handler
\* before it cancels anything.
OwnerUnreachable(h) ==
    /\ LoopFree
    /\ job[h].pc \in {"card", "notify"}
    /\ job' = [job EXCEPT ![h] = Idle]
    /\ UNCHANGED <<ledgerVars, telegramVars, mode, link, crashes>>

-----------------------------------------------------------------------------
(* A debounced worker (_process_text/photo/media_for_approval).            *)

KindOf(m) == IF m \in Media THEN "MEDIA" ELSE "TEXT"

\* _load_text_work drops a deleted message; the media workers do not look.
Workable(c, m) == m \in Media \/ ~rows[c][m].deleted

\* The debounce delay is over: the worker reads what it needs and asks the model.
WorkerLoads(w) ==
    LET c == w[2]
        state == effective_state_for_global_mode(mode, convState[c])
    IN  /\ LoopFree
        /\ job[w].pc = "wait"
        /\ IF Workable(c, job[w].msg) /\ state \notin BlockedStates
           THEN job' = [job EXCEPT ![w] =
                          [pc |-> "analyse", msg |-> job[w].msg, rev |-> revision[c],
                           view |-> View(c), state |-> state]]
           ELSE job' = Ended(w)
        /\ UNCHANGED <<ledgerVars, telegramVars, mode, link, crashes>>

\* Slip: the answer of the model is used whatever happened meanwhile.
CurrentOrNot(w) == TRUE

\* _conversation_is_current, and the same test again before the draft is written.
StillCurrent(w) == job[w].rev = revision[w[2]]

\* The model failed, the chat moved on, or the decision is not to answer.
WorkerGivesUp(w) ==
    /\ LoopFree
    /\ job[w].pc = "analyse"
    /\ job' = Ended(w)
    /\ UNCHANGED <<ledgerVars, telegramVars, mode, link, crashes>>

\* The model answered in time with a reply of this disposition.
WorkerProposes(w, a, b, disposition) ==
    /\ LoopFree
    /\ job[w].pc = "analyse"
    /\ StillCurrent(w)
    /\ disposition \in Dispositions[KindOf(job[w].msg)][job[w].state]
    /\ CreateApproval(w[2], a, b, job[w].view)
    /\ UNCHANGED <<telegramVars, mode, link, crashes>>

\* A draft for the owner; the card that follows changes nothing here.
WorkerDrafts(w, a, b) ==
    /\ WorkerProposes(w, a, b, "REQUIRE_APPROVAL")
    /\ job' = Ended(w)

\* A safe automatic reply goes through the ledger too.
WorkerAutoDrafts(w, a, b) ==
    /\ WorkerProposes(w, a, b, "AUTO_REPLY")
    /\ job' = [job EXCEPT ![w] = [pc |-> "claim", approval |-> a]]

\* The claim snapshot of approval a, with the chat's connection of this moment.
ClaimOf(a) == [approval |-> a, conn |-> link[chat[a]], chat |-> chat[a], body |-> candidate[a]]

\* claim_for_send in the same stretch: nothing can have come in between.
WorkerClaims(w) ==
    /\ job[w].pc = "claim"
    /\ GrantClaim(job[w].approval)
    /\ job' = [job EXCEPT ![w] = [pc |-> "permit", reply |-> ClaimOf(job[w].approval)]]
    /\ UNCHANGED <<telegramVars, mode, link, crashes>>

\* The request to send `reply` leaves; r will be its id if Telegram accepts it.
Leaves(j, reply, r) ==
    /\ outbox[r] = NoReply
    /\ outbox' = [outbox EXCEPT ![r] = reply]
    /\ job' = [job EXCEPT ![j] = [pc |-> "send", reply |-> reply, receipt |-> r]]

-----------------------------------------------------------------------------
(* The owner presses "send" on a card (approval_callbacks).                *)

\* preview_claim found a pending draft: ask Telegram about its connection.
OwnerClicksSend(j, a) ==
    /\ LoopFree
    /\ job[j] = Idle
    /\ status[a] = "PENDING"
    /\ job' = [job EXCEPT ![j] = [pc |-> "check", approval |-> a, conn |-> link[chat[a]]]]
    /\ UNCHANGED <<ledgerVars, telegramVars, mode, link, crashes>>

\* The connection may reply: claim, and send what was claimed.
ClickClaims(j, r) ==
    /\ LoopFree
    /\ job[j].pc = "check"
    /\ MayReply(job[j].conn)
    /\ GrantClaim(job[j].approval)
    /\ Leaves(j, ClaimOf(job[j].approval), r)
    /\ UNCHANGED <<active, canReply, accepted, mode, link, crashes>>

\* The draft lapsed, went stale or was taken during the check.
ClickComesTooLate(j) ==
    /\ LoopFree
    /\ job[j].pc = "check"
    /\ MayReply(job[j].conn)
    /\ RefuseClaim(job[j].approval)
    /\ job' = Ended(j)
    /\ UNCHANGED <<telegramVars, mode, link, crashes>>

\* No answer about the connection, or no right to reply: the draft stays.
ClickCheckFails(j) ==
    /\ LoopFree
    /\ job[j].pc = "check"
    /\ job' = Ended(j)
    /\ UNCHANGED <<ledgerVars, telegramVars, mode, link, crashes>>

-----------------------------------------------------------------------------
(* Sending, for every kind of job.                                         *)

\* one_time_reply_send: the owner dictates a reply; no approval is involved.
OwnerSendsOnce(j, c, b) ==
    /\ LoopFree
    /\ Room(c)
    /\ Known(c)
    /\ job[j] = Idle
    /\ job' = [job EXCEPT ![j] =
                  [pc |-> "permit",
                   reply |-> [approval |-> NoApproval, conn |-> link[c], chat |-> c, body |-> b]]]
    /\ UNCHANGED <<ledgerVars, telegramVars, mode, link, crashes>>

\* _live_reply_permission says yes and the send request leaves.
PermitGranted(j, r) ==
    /\ LoopFree
    /\ job[j].pc = "permit"
    /\ MayReply(job[j].reply.conn)
    /\ Leaves(j, job[j].reply, r)
    /\ UNCHANGED <<ledgerVars, active, canReply, accepted, mode, link, crashes>>

\* It says no, or does not answer: nothing is sent.
PermitRefused(j) ==
    /\ LoopFree
    /\ job[j].pc = "permit"
    /\ LET a == job[j].reply.approval
       IN  IF a # NoApproval THEN MarkFailedBeforeSend(a) ELSE UNCHANGED ledgerVars
    /\ job' = Ended(j)
    /\ UNCHANGED <<telegramVars, mode, link, crashes>>

\* Telegram accepts a message, be it that its sender gave up or died meanwhile.
Accepts(r) ==
    /\ LoopFree
    /\ r \notin accepted
    /\ outbox[r] # NoReply
    /\ MayReply(outbox[r].conn)
    /\ accepted' = accepted \cup {r}
    /\ UNCHANGED <<ledgerVars, active, canReply, outbox, mode, link, job, crashes>>

\* The answer reaches the job, which writes down what was sent.
Confirmed(j) ==
    /\ LoopFree
    /\ job[j].pc = "send"
    /\ job[j].receipt \in accepted
    /\ LET reply == job[j].reply
           r == job[j].receipt
       IN  IF reply.approval # NoApproval THEN MarkSent(reply.approval, r)
           ELSE IF j \in Handlers THEN RecordOutgoing(reply.chat, r, reply.body)
           ELSE OwnerSpoke(reply.chat, r, reply.body)
    /\ job' = Ended(j)
    /\ UNCHANGED <<telegramVars, mode, link, crashes>>

\* Slip: the reply joins the history although nobody confirmed it.
UnconfirmedButRecorded(j) ==
    /\ LoopFree
    /\ job[j].pc = "send"
    /\ LET reply == job[j].reply
       IN  IF reply.approval # NoApproval THEN MarkUncertain(reply.approval)
           ELSE RecordOutgoing(reply.chat, job[j].receipt, reply.body)
    /\ job' = Ended(j)
    /\ UNCHANGED <<telegramVars, mode, link, crashes>>

\* The request failed, timed out or its answer was lost: it may have been accepted,
\* and may still be.
Unconfirmed(j) ==
    /\ LoopFree
    /\ job[j].pc = "send"
    /\ LET a == job[j].reply.approval
       IN  IF a # NoApproval THEN MarkUncertain(a) ELSE UNCHANGED ledgerVars
    /\ job' = Ended(j)
    /\ UNCHANGED <<telegramVars, mode, link, crashes>>

-----------------------------------------------------------------------------
(* Everything else the owner, the customer, time and Telegram do.          *)

LedgerEvent(A) ==
    /\ LoopFree
    /\ A
    /\ UNCHANGED pipeVars

OwnerSetsState(c, s) == LedgerEvent(SetConversationState(c, s))
OwnerRewords(a, b) == LedgerEvent(UpdateCandidate(a, b))
OwnerRejects(a) == LedgerEvent(Reject(a))
DraftLapses(a) == LedgerEvent(Lapse(a))

\* The customer taps a HANDOFF button of the menu (customer_menu_action).
CustomerTapsHandoff(c) == LedgerEvent(HandoffInPlace(c))

\* admin_ui set_global_mode, behavior_ui behavior_set.
OwnerSetsMode(m) ==
    /\ LoopFree
    /\ m # mode
    /\ mode' = m
    /\ UNCHANGED <<ledgerVars, telegramVars, link, job, crashes>>

\* The owner grants or revokes the reply right in Telegram.
ReplyRightChanges ==
    /\ LoopFree
    /\ canReply' = ~canReply
    /\ UNCHANGED <<ledgerVars, active, outbox, accepted, mode, link, job, crashes>>

\* The owner connects the bot anew: updates come on another connection.
Reconnects(k) ==
    /\ LoopFree
    /\ k # active
    /\ active' = k
    /\ UNCHANGED <<ledgerVars, canReply, outbox, accepted, mode, link, job, crashes>>

\* The process dies and starts again: every job is gone, the ledger stays.
Crash ==
    /\ crashes < MaxCrashes
    /\ crashes' = crashes + 1
    /\ job' = [j \in Jobs |-> Idle]
    /\ UNCHANGED <<ledgerVars, telegramVars, mode, link>>

-----------------------------------------------------------------------------
\* What a job does on its own; the loop and Telegram see to it that it goes on.
WorkerStep(w) ==
    \/ WorkerLoads(w)
    \/ WorkerGivesUp(w)
    \/ \E a \in Approvals, b \in Bodies : WorkerDrafts(w, a, b) \/ WorkerAutoDrafts(w, a, b)
    \/ WorkerClaims(w)

HandlerStep(h) ==
    \/ \E a \in Approvals, b \in Bodies : RouteToDraft(h, a, b)
    \/ RouteToHandoff(h)
    \/ CardDelivered(h)
    \/ HandoffNotified(h)
    \/ OwnerUnreachable(h)

ClickStep(j) ==
    \/ \E r \in Receipts : ClickClaims(j, r)
    \/ ClickComesTooLate(j)
    \/ ClickCheckFails(j)

SendStep(j) ==
    \/ \E r \in Receipts : PermitGranted(j, r)
    \/ PermitRefused(j)
    \/ Confirmed(j)
    \/ Unconfirmed(j)

JobStep(j) ==
    \/ SendStep(j)
    \/ j \in Workers /\ WorkerStep(j)
    \/ j \in Handlers /\ HandlerStep(j)
    \/ j \in Clicks /\ ClickStep(j)

ChatEvent(c) ==
    \/ \E m \in Incoming, b \in Bodies :
          \/ CustomerWrites(c, m, b)
          \/ CustomerSendsOther(c, m, b)
          \/ \E h \in Handlers : CustomerWritesMatched(h, c, m, b)
          \/ OwnerWrites(c, m, b)
          \/ MessageEdited(c, m, b)
    \/ \E m \in MessageIds : MessageDeleted(c, m)
    \/ UnknownMessageTouched(c)
    \/ CustomerTapsHandoff(c)
    \/ \E s \in Targets : OwnerSetsState(c, s)
    \/ \E j \in OneTimes, b \in Bodies : OwnerSendsOnce(j, c, b)

ApprovalEvent(a) ==
    \/ \E j \in Clicks : OwnerClicksSend(j, a)
    \/ \E b \in Bodies : OwnerRewords(a, b)
    \/ OwnerRejects(a)
    \/ DraftLapses(a)

Next ==
    \/ \E j \in Jobs : JobStep(j)
    \/ \E c \in Conversations : ChatEvent(c)
    \/ \E a \in Approvals : ApprovalEvent(a)
    \/ \E r \in Receipts : Accepts(r)
    \/ \E m \in ModeChoices : OwnerSetsMode(m)
    \/ ReplyRightChanges
    \/ \E k \in Connections : Reconnects(k)
    \/ Crash

\* asyncio resumes a job whose await is over, every await on Telegram or the model
\* ends by an answer or a timeout, and nothing else is promised.
Fairness == \A j \in Jobs : WF_vars(JobStep(j))

Spec == Init /\ [][Next]_vars

FairSpec == Spec /\ Fairness

-----------------------------------------------------------------------------
(* What the composition guarantees.                                        *)

Delivered(a) == {r \in accepted : outbox[r].approval = a}

Holders(a) == {j \in Jobs : "reply" \in DOMAIN job[j] /\ job[j].reply.approval = a}

\* Double clicks, a click that races an automatic reply, edits, deletions, takeovers
\* and restarts never get an approved reply delivered twice.
AtMostOnceDelivery ==
    \A a \in Approvals : \A r1, r2 \in Delivered(a) : r1 = r2

\* What Telegram accepted is never on record as failed, rejected, stale or still
\* open, and it is the text and the chat of the row, even if its answer was lost or
\* Telegram accepted it after the sender had given up.
DeliveredIsOnRecord ==
    \A a \in Approvals : \A r \in Delivered(a) :
        /\ status[a] \in {"SENDING", "SENT", "UNCERTAIN"}
        /\ outbox[r].body = candidate[a]
        /\ outbox[r].chat = chat[a]

\* SENT is never a guess: the reply was accepted, and the history of its chat has it
\* under the accepted id with the text the customer got.
SentIsTrue ==
    /\ \A a \in Approvals : status[a] = "SENT" =>
          \E r \in Delivered(a) : Stored(chat[a], r)
    /\ \A c \in Conversations, r \in Receipts : Stored(c, r) =>
          r \in accepted /\ outbox[r].chat = c /\ outbox[r].body = rows[c][r].body

\* A claim has at most one holder, and a holder never works on an approval that
\* someone else resolved.
ClaimsAreExclusive ==
    \A a \in Approvals :
        /\ \A j1, j2 \in Holders(a) : j1 = j2
        /\ Holders(a) # {} => status[a] = "SENDING"

\* The jobs together use the ledger as it wants to be used: every draft is bound to
\* the conversation it was written against although the model was asked seconds
\* ago, and every mark falls on an approval that is being sent.
UsesLedger == LedgerSpec

\* At the moment an automatic reply is claimed its conversation is in AI_AUTO: a
\* takeover, a pause or an exclusion during the model's answer is never overlooked.
AutoClaimsInAutoChat ==
    [][\A w \in Workers :
          job[w].pc = "claim" /\ job'[w].pc = "permit" => convState[w[2]] = "AI_AUTO"]_vars

\* docs/DECISIONS.md, ADR-034: no request to send leaves on a connection that
\* Telegram did not just confirm for replies, even if the chat moved to another
\* connection while the answer was on its way.
SendsOnConfirmedConnection ==
    [][\A j \in Jobs :
          job[j].pc # "send" /\ job'[j].pc = "send" => MayReply(job'[j].reply.conn)]_vars

\* Once the owner's click has claimed a draft, its outcome is recorded.
ClickedClaimResolves ==
    \A a \in Approvals :
        (Holders(a) \cap Clicks # {}) ~> (status[a] \in {"SENT", "UNCERTAIN"})

-----------------------------------------------------------------------------
(* What the documents say and the code does not do.                        *)

\* docs/SECURITY.md:57: a customer send that is not confirmed becomes UNCERTAIN.
SendsGetAnOutcome ==
    \A a \in Approvals : (status[a] = "SENDING") ~> (status[a] # "SENDING")
=============================================================================
