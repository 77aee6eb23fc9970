-------------------------- MODULE SendPipelineProofs --------------------------
(***************************************************************************)
(* Proofs about the pipeline, for any number of chats, drafts, jobs,       *)
(* connections, requests and crashes.                                      *)
(*                                                                         *)
(* The argument has two halves.  Freshness: what a job remembers of a chat *)
(* is true while the revision it remembers is the chat's (Snapshots,       *)
(* ClaimsAreReady, ChecksKnow), because whatever changes the chat or its   *)
(* connection raises the revision; so the jobs call the ledger as it wants *)
(* to be called.  Custody: from its claim on an approval is in the hands   *)
(* of one job (HoldersHold), which makes at most one request of it         *)
(* (PermitsUnsent, RequestsOnRecord), and what the ledger says of the      *)
(* approval afterwards is true of that request.                            *)
(***************************************************************************)
EXTENDS SendPipeline, ApprovalLedgerProofs

\* At most one job is between two commits of a stretch.
OneStretch ==
    \A i, j \in Jobs : job[i].pc \in {"claim", "route"} /\ job[j].pc \in {"claim", "route"} => i = j

NoEscalation == \A c \in Conversations : convState[c] # "ESCALATED"

\* What a worker took along to the model is its chat as long as the revision is.
Snapshots ==
    \A w \in Workers : job[w].pc = "analyse" =>
        /\ job[w].rev <= revision[w[2]]
        /\ job[w].rev = revision[w[2]] => job[w].view = View(w[2])
        /\ job[w].state = "AI_AUTO" => job[w].view.state = "AI_AUTO"
        /\ job[w].state # "ESCALATED"

\* Only a draft that was written has an age.
OverdueExists == \A a \in overdue : status[a] # "UNUSED"

\* An automatic reply that was just drafted can be claimed, and may be.
ClaimsAreReady ==
    \A w \in Workers : job[w].pc = "claim" =>
        /\ Claimable(job[w].approval)
        /\ convState[w[2]] = "AI_AUTO"

\* The connection that a click asks Telegram about is the one of the chat, unless
\* the draft cannot be claimed any more.
ChecksKnow ==
    \A j \in Jobs : job[j].pc = "check" =>
        LET a == job[j].approval
        IN  /\ status[a] # "UNUSED"
            /\ status[a] = "PENDING" /\ bound[a] = revision[chat[a]] =>
                  job[j].conn = link[chat[a]]

\* A claimed approval is in the hands of one job, which has its text and its chat.
HoldersHold ==
    \A a \in Approvals : \A j \in Holders(a) :
        /\ status[a] = "SENDING"
        /\ job[j].reply.body = candidate[a]
        /\ job[j].reply.chat = chat[a]
        /\ \A i \in Holders(a) : i = j

\* The requests that ever left for an approval.
Requests(a) == {r \in Receipts : outbox[r] # NoReply /\ outbox[r].approval = a}

\* Before it has the permission, a holder has asked for nothing.
PermitsUnsent ==
    \A a \in Approvals : \A j \in Holders(a) : job[j].pc = "permit" => Requests(a) = {}

RequestsOnRecord ==
    \A a \in Approvals : \A r \in Requests(a) :
        /\ status[a] \in {"SENDING", "SENT", "UNCERTAIN"}
        /\ outbox[r].body = candidate[a]
        /\ outbox[r].chat = chat[a]
        /\ \A q \in Requests(a) : q = r

\* Whoever waits for an answer has asked for what it remembers.
SendersSent == \A j \in Jobs : job[j].pc = "send" => outbox[job[j].receipt] = job[j].reply

\* Telegram accepts nothing that was not sent.
AcceptedLeft == \A r \in accepted : outbox[r] # NoReply

Freshness ==
    /\ OneStretch
    /\ NoEscalation
    /\ Snapshots
    /\ OverdueExists
    /\ ClaimsAreReady
    /\ ChecksKnow

Custody ==
    /\ HoldersHold
    /\ PermitsUnsent
    /\ RequestsOnRecord
    /\ SendersSent
    /\ AcceptedLeft
    /\ SentIsTrue

PipeInv == PipeTypeOK /\ LedgerInv /\ Freshness /\ Custody

-----------------------------------------------------------------------------
(* Jobs.                                                                   *)

LEMMA JobShapes ==
    ASSUME NEW x \in JobStates
    PROVE  /\ x.pc = "idle" <=> x = Idle
           /\ x.pc = "wait" => x \in [pc : {"wait"}, msg : Incoming]
           /\ x.pc = "analyse" =>
                 x \in [pc : {"analyse"}, msg : Incoming, rev : Nat, view : Views, state : States]
           /\ x.pc = "claim" => x \in [pc : {"claim"}, approval : Approvals]
           /\ x.pc \in {"route", "card", "notify"} =>
                 x \in [pc : {"route", "card", "notify"}, conn : Connections, chat : Conversations]
           /\ x.pc = "check" => x \in [pc : {"check"}, approval : Approvals, conn : Connections]
           /\ x.pc = "permit" => x \in [pc : {"permit"}, reply : Replies]
           /\ x.pc = "send" => x \in [pc : {"send"}, reply : Replies, receipt : Receipts]
           /\ "reply" \in DOMAIN x <=> x.pc \in {"permit", "send"}
  BY DEF JobStates, Idle

\* The jobs that hold an approval are those that ask for permission or send.
LEMMA HoldersAre ==
    ASSUME job \in [Jobs -> JobStates], NEW a \in Approvals
    PROVE  Holders(a) =
              {j \in Jobs : job[j].pc \in {"permit", "send"} /\ job[j].reply.approval = a}
  BY JobShapes DEF Holders

Resting == {Idle} \cup [pc : {"wait"}, msg : Incoming]

LEMMA EndedRests ==
    ASSUME job \in [Jobs -> JobStates], NEW j \in Jobs
    PROVE  /\ Ended(j) \in [Jobs -> JobStates]
           /\ Ended(j)[j] = Idle
           /\ \A i \in Jobs : Ended(j)[i] = job[i] \/ Ended(j)[i] = Idle
<1>1. Idle \in JobStates
  BY DEF JobStates
<1>2. CASE j \notin Handlers
  BY <1>1, <1>2 DEF Ended
<1>3. CASE j \in Handlers
  <2>1. PICK key : Ended(j) = [job EXCEPT ![j] = Idle, ![key] = Idle]
    BY <1>3 DEF Ended
  <2> QED BY <1>1, <2>1
<1> QED BY <1>2, <1>3

-----------------------------------------------------------------------------
(* How a step moves the jobs.                                              *)

\* No job gets anywhere: some end, some start to wait.
Fades ==
    /\ job' \in [Jobs -> JobStates]
    /\ \A i \in Jobs : job'[i] = job[i] \/ job'[i] \in Resting
    /\ UNCHANGED outbox

\* The job j gets to its next await.
Enters(j) ==
    \/ j \in Workers /\ WorkerLoads(j)
    \/ j \in Workers /\ \E a \in Approvals, b \in Bodies : WorkerAutoDrafts(j, a, b)
    \/ j \in Workers /\ WorkerClaims(j)
    \/ j \in Handlers /\ \E c \in Conversations, m \in Incoming, b \in Bodies :
                            CustomerWritesMatched(j, c, m, b)
    \/ j \in Handlers /\ \E a \in Approvals, b \in Bodies : RouteToDraft(j, a, b)
    \/ j \in Handlers /\ RouteToHandoff(j)
    \/ j \in Handlers /\ HandoffNotified(j)
    \/ j \in Clicks /\ \E a \in Approvals : OwnerClicksSend(j, a)
    \/ j \in Clicks /\ \E r \in Receipts : ClickClaims(j, r)
    \/ j \in OneTimes /\ \E c \in Conversations, b \in Bodies : OwnerSendsOnce(j, c, b)
    \/ \E r \in Receipts : PermitGranted(j, r)

LEMMA JobStepMoves ==
    ASSUME PipeTypeOK, NEW j \in Jobs, JobStep(j)
    PROVE  Fades \/ Enters(j)
<1> USE DEF PipeTypeOK
<1>1. ASSUME job' = Ended(j), UNCHANGED outbox
      PROVE  Fades
  BY <1>1, EndedRests DEF Fades, Resting
<1>2. CASE SendStep(j)
  BY <1>1, <1>2 DEF SendStep, PermitRefused, Confirmed, Unconfirmed, Enters, telegramVars
<1>3. CASE j \in Workers /\ WorkerStep(j)
  BY <1>1, <1>3 DEF WorkerStep, WorkerGivesUp, WorkerDrafts, WorkerProposes, Enters, telegramVars
<1>4. CASE j \in Handlers /\ HandlerStep(j)
  <2>1. ASSUME OwnerUnreachable(j) PROVE Fades
    BY <2>1 DEF OwnerUnreachable, Fades, Resting, JobStates, telegramVars
  <2> QED
    BY <1>1, <1>4, <2>1 DEF HandlerStep, CardDelivered, Enters, telegramVars
<1>5. CASE j \in Clicks /\ ClickStep(j)
  BY <1>1, <1>5 DEF ClickStep, ClickComesTooLate, ClickCheckFails, Enters, telegramVars
<1> QED BY <1>2, <1>3, <1>4, <1>5 DEF JobStep

LEMMA ChatEventMoves ==
    ASSUME PipeTypeOK, NEW c \in Conversations, ChatEvent(c)
    PROVE  Fades \/ \E j \in Jobs : Enters(j)
<1> USE DEF PipeTypeOK
<1>1. <<active, c>> \in Jobs
  BY DEF Jobs, Workers
<1>2. ASSUME NEW x \in Resting, job' = [job EXCEPT ![<<active, c>>] = x], UNCHANGED outbox
      PROVE  Fades
  BY <1>1, <1>2 DEF Fades, Resting, JobStates
<1>3. ASSUME job' = job, UNCHANGED outbox PROVE Fades
  BY <1>3 DEF Fades
<1>4. ASSUME NEW m \in Incoming, NEW b \in Bodies,
             \/ CustomerWrites(c, m, b) \/ CustomerSendsOther(c, m, b)
             \/ OwnerWrites(c, m, b) \/ MessageEdited(c, m, b)
      PROVE  Fades
  <2>1. Wait(m) \in Resting /\ Idle \in Resting
    BY DEF Wait, Resting
  <2> QED
    BY <1>2, <1>3, <1>4, <2>1
       DEF CustomerWrites, CustomerSendsOther, CustomerWrote, OwnerWrites, MessageEdited,
           telegramVars
<1>5. ASSUME NEW m \in Incoming, NEW b \in Bodies, NEW h \in Handlers,
             CustomerWritesMatched(h, c, m, b)
      PROVE  h \in Jobs /\ Enters(h)
  BY <1>5 DEF Enters, Jobs
<1>6. ASSUME \/ \E m \in MessageIds : MessageDeleted(c, m)
             \/ UnknownMessageTouched(c)
      PROVE  Fades
  BY <1>2, <1>6 DEF MessageDeleted, UnknownMessageTouched, telegramVars, Resting
<1>7. ASSUME CustomerTapsHandoff(c) \/ \E s \in Targets : OwnerSetsState(c, s)
      PROVE  Fades
  BY <1>3, <1>7 DEF CustomerTapsHandoff, OwnerSetsState, LedgerEvent, pipeVars, telegramVars
<1>8. ASSUME NEW j \in OneTimes, NEW b \in Bodies, OwnerSendsOnce(j, c, b)
      PROVE  j \in Jobs /\ Enters(j)
  BY <1>8 DEF Enters, Jobs
<1> QED BY <1>4, <1>5, <1>6, <1>7, <1>8 DEF ChatEvent

\* A step lets one job go on, or none.
LEMMA NextMoves ==
    ASSUME PipeTypeOK, Next
    PROVE  Fades \/ \E j \in Jobs : Enters(j)
<1> USE DEF PipeTypeOK
<1>1. ASSUME job' = job, UNCHANGED outbox PROVE Fades
  BY <1>1 DEF Fades
<1>2. ASSUME NEW a \in Approvals, ApprovalEvent(a)
      PROVE  Fades \/ \E j \in Jobs : Enters(j)
  BY <1>1, <1>2 DEF ApprovalEvent, OwnerRewords, OwnerRejects, DraftLapses, LedgerEvent, pipeVars,
                    telegramVars, Enters, Jobs
<1>3. ASSUME \/ \E r \in Receipts : Accepts(r)
             \/ \E m \in ModeChoices : OwnerSetsMode(m)
             \/ ReplyRightChanges
             \/ \E k \in Connections : Reconnects(k)
      PROVE  Fades
  BY <1>1, <1>3 DEF Accepts, OwnerSetsMode, ReplyRightChanges, Reconnects, telegramVars
<1>4. ASSUME Crash PROVE Fades
  BY <1>4 DEF Crash, Fades, Resting, JobStates, telegramVars
<1> QED BY <1>2, <1>3, <1>4, JobStepMoves, ChatEventMoves DEF Next

-----------------------------------------------------------------------------
(* Every step is a step of the ledger.                                     *)

\* The approval of a holder is being sent; its receipt is an id of a message.
LEMMA HolderCalls ==
    ASSUME PipeTypeOK, HoldersHold, NEW j \in Jobs, job[j].pc \in {"permit", "send"}
    PROVE  /\ job[j].reply \in Replies
           /\ job[j].reply.approval # NoApproval =>
                 /\ job[j].reply.approval \in Approvals
                 /\ j \in Holders(job[j].reply.approval)
                 /\ status[job[j].reply.approval] = "SENDING"
           /\ job[j].pc = "send" => job[j].receipt \in Receipts \cap MessageIds
<1>1. job[j] \in JobStates /\ job \in [Jobs -> JobStates]
  BY DEF PipeTypeOK
<1>2. job[j].reply \in Replies /\ (job[j].pc = "send" => job[j].receipt \in Receipts)
  BY <1>1, JobShapes
<1>3. job[j].reply.approval # NoApproval => job[j].reply.approval \in Approvals
  BY <1>2 DEF Replies
<1> QED BY <1>1, <1>2, <1>3, HoldersAre, PipelineAssumption DEF HoldersHold

LEMMA SendStepCalls ==
    ASSUME PipeTypeOK, HoldersHold, NEW j \in Jobs, SendStep(j)
    PROVE  [LedgerNext]_ledgerVars
<1>1. ASSUME NEW a \in Approvals, status[a] = "SENDING",
             \/ MarkFailedBeforeSend(a) \/ MarkUncertain(a)
             \/ \E m \in MessageIds : MarkSent(a, m)
      PROVE  LedgerNext
  BY <1>1 DEF LedgerNext, ApprovalNext
<1>2. CASE \E r \in Receipts : PermitGranted(j, r)
  BY <1>2 DEF PermitGranted
<1>3. CASE PermitRefused(j)
  BY <1>1, <1>3, HolderCalls DEF PermitRefused
<1>4. CASE Unconfirmed(j)
  BY <1>1, <1>4, HolderCalls DEF Unconfirmed
<1>5. CASE Confirmed(j)
  <2>1. /\ job[j].reply \in Replies /\ job[j].receipt \in MessageIds
        /\ job[j].reply.approval # NoApproval =>
              job[j].reply.approval \in Approvals /\ status[job[j].reply.approval] = "SENDING"
    BY <1>5, HolderCalls DEF Confirmed
  <2>2. job[j].reply.chat \in Conversations /\ job[j].reply.body \in Bodies
    BY <2>1 DEF Replies
  <2>3. CASE job[j].reply.approval # NoApproval
    BY <1>1, <1>5, <2>1, <2>3 DEF Confirmed
  <2>4. CASE job[j].reply.approval = NoApproval
    BY <1>5, <2>1, <2>2, <2>4 DEF Confirmed, LedgerNext, UpdateNext
  <2> QED BY <2>3, <2>4
<1> QED BY <1>2, <1>3, <1>4, <1>5 DEF SendStep

\* A worker that finds the revision it remembers drafts against the chat as it is.
LEMMA ProposalIsFresh ==
    ASSUME PipeTypeOK, Snapshots, NEW w \in Workers, NEW a \in Approvals, NEW b \in Bodies,
           NEW d, WorkerProposes(w, a, b, d)
    PROVE  /\ w[2] \in Conversations
           /\ job[w].view = View(w[2])
           /\ CreateApproval(w[2], a, b, View(w[2]))
  BY DEF WorkerProposes, StillCurrent, Snapshots, Workers

LEMMA WorkerStepCalls ==
    ASSUME PipeTypeOK, Snapshots, NEW w \in Workers, WorkerStep(w)
    PROVE  [LedgerNext]_ledgerVars
<1>1. ASSUME NEW a \in Approvals, NEW b \in Bodies, WorkerDrafts(w, a, b) \/ WorkerAutoDrafts(w, a, b)
      PROVE  LedgerNext
  BY <1>1, ProposalIsFresh DEF WorkerDrafts, WorkerAutoDrafts, LedgerNext, ApprovalNext
<1>2. ASSUME WorkerClaims(w) PROVE LedgerNext
  <2>1. job[w].approval \in Approvals
    BY <1>2, JobShapes DEF WorkerClaims, PipeTypeOK, Jobs
  <2> QED BY <1>2, <2>1 DEF WorkerClaims, LedgerNext, ApprovalNext
<1> QED BY <1>1, <1>2 DEF WorkerStep, WorkerLoads, WorkerGivesUp

LEMMA HandlerStepCalls ==
    ASSUME PipeTypeOK, NEW h \in Handlers, HandlerStep(h)
    PROVE  [LedgerNext]_ledgerVars
<1>1. job[h] \in JobStates
  BY DEF PipeTypeOK, Jobs
<1>2. job[h].pc = "route" => job[h].chat \in Conversations
  BY <1>1, JobShapes
<1> QED BY <1>2 DEF HandlerStep, RouteToDraft, RouteToHandoff, CardDelivered, HandoffNotified,
                   OwnerUnreachable, LedgerNext, ApprovalNext, StateNext

LEMMA ClickStepCalls ==
    ASSUME PipeTypeOK, NEW j \in Clicks, ClickStep(j)
    PROVE  [LedgerNext]_ledgerVars
<1>1. job[j] \in JobStates
  BY DEF PipeTypeOK, Jobs
<1>2. job[j].pc = "check" => job[j].approval \in Approvals
  BY <1>1, JobShapes
<1> QED BY <1>2 DEF ClickStep, ClickClaims, ClickComesTooLate, ClickCheckFails, LedgerNext,
                   ApprovalNext

LEMMA ChatEventCalls ==
    ASSUME PipeTypeOK, NEW c \in Conversations, ChatEvent(c)
    PROVE  [LedgerNext]_ledgerVars
<1>1. Incoming \subseteq MessageIds
  BY PipelineAssumption
<1>2. DefaultState \in {"AI_AUTO", "AI_APPROVAL"}
  BY DEF DefaultState
<1>3. ASSUME NEW m \in Incoming, NEW b \in Bodies, CustomerWrote(c, m, b)
      PROVE  LedgerNext
  BY <1>1, <1>2, <1>3 DEF CustomerWrote, LedgerNext, UpdateNext
<1>4. ASSUME NEW m \in Incoming, NEW b \in Bodies, OwnerWrites(c, m, b) \/ MessageEdited(c, m, b)
      PROVE  LedgerNext
  BY <1>1, <1>4 DEF OwnerWrites, MessageEdited, LedgerNext, UpdateNext
<1>5. ASSUME NEW m \in MessageIds, MessageDeleted(c, m)
      PROVE  LedgerNext
  <2>1. {m} \in SUBSET MessageIds
    OBVIOUS
  <2> QED BY <1>5, <2>1 DEF MessageDeleted, LedgerNext, UpdateNext
<1>6. ASSUME CustomerTapsHandoff(c) \/ \E s \in Targets : OwnerSetsState(c, s)
      PROVE  LedgerNext
  BY <1>6 DEF CustomerTapsHandoff, OwnerSetsState, LedgerEvent, LedgerNext, StateNext
<1> QED BY <1>3, <1>4, <1>5, <1>6
       DEF ChatEvent, CustomerWrites, CustomerSendsOther, CustomerWritesMatched,
           UnknownMessageTouched, OwnerSendsOnce

LEMMA StepCalls ==
    ASSUME PipeTypeOK, HoldersHold, Snapshots, [Next]_vars
    PROVE  [LedgerNext]_ledgerVars
<1>1. ASSUME NEW a \in Approvals, ApprovalEvent(a) PROVE [LedgerNext]_ledgerVars
  BY <1>1 DEF ApprovalEvent, OwnerClicksSend, OwnerRewords, OwnerRejects, DraftLapses, LedgerEvent,
              LedgerNext, ApprovalNext
<1>2. ASSUME \/ \E r \in Receipts : Accepts(r)
             \/ \E m \in ModeChoices : OwnerSetsMode(m)
             \/ ReplyRightChanges
             \/ \E k \in Connections : Reconnects(k)
             \/ Crash
      PROVE  UNCHANGED ledgerVars
  BY <1>2 DEF Accepts, OwnerSetsMode, ReplyRightChanges, Reconnects, Crash
<1>3. CASE UNCHANGED vars
  BY <1>3 DEF vars
<1> QED BY <1>1, <1>2, <1>3, SendStepCalls, WorkerStepCalls, HandlerStepCalls, ClickStepCalls,
          ChatEventCalls DEF Next, JobStep

-----------------------------------------------------------------------------
(* Types.                                                                  *)

LEMMA ClaimOfType ==
    ASSUME PipeTypeOK, NEW a \in Approvals
    PROVE  ClaimOf(a) \in Replies /\ ClaimOf(a).approval = a
  BY DEF ClaimOf, Replies, PipeTypeOK, LedgerTypeOK

\* The job that gets on takes a legal place, and no other job moves but to its end.
LEMMA EntersTyped ==
    ASSUME PipeTypeOK, NEW j \in Jobs, Enters(j)
    PROVE  /\ job' \in [Jobs -> JobStates]
           /\ \A i \in Jobs : i # j => job'[i] = job[i] \/ job'[i] = Idle
           /\ outbox' \in [Receipts -> Replies \cup {NoReply}]
<1> USE DEF PipeTypeOK
<1>1. ASSUME NEW x \in JobStates, job' = [job EXCEPT ![j] = x]
      PROVE  /\ job' \in [Jobs -> JobStates]
             /\ \A i \in Jobs : i # j => job'[i] = job[i]
  BY <1>1
<1>2. ASSUME NEW a \in Approvals PROVE link[chat[a]] \in Connections
  BY DEF LedgerTypeOK
<1>3. CASE j \in Workers /\ WorkerLoads(j)
  <2>1. DEFINE x == [pc |-> "analyse", msg |-> job[j].msg, rev |-> revision[j[2]],
                     view |-> View(j[2]),
                     state |-> effective_state_for_global_mode(mode, convState[j[2]])]
  <2>2. j[2] \in Conversations /\ job[j].msg \in Incoming
    BY <1>3, JobShapes DEF Workers, WorkerLoads
  <2>3. effective_state_for_global_mode(mode, convState[j[2]]) \in States
    BY <2>2 DEF effective_state_for_global_mode, LedgerTypeOK, States
  <2>4. View(j[2]) \in Views
    BY <2>2 DEF View, Views, LedgerTypeOK
  <2>5. x \in JobStates
    BY <2>2, <2>3, <2>4 DEF JobStates, LedgerTypeOK
  <2> QED BY <1>1, <1>3, <2>5, EndedRests DEF WorkerLoads, telegramVars
<1>4. CASE j \in Workers /\ \E a \in Approvals, b \in Bodies : WorkerAutoDrafts(j, a, b)
  BY <1>1, <1>4 DEF WorkerAutoDrafts, WorkerProposes, JobStates, telegramVars
<1>5. CASE j \in Workers /\ WorkerClaims(j)
  <2>1. job[j].approval \in Approvals
    BY <1>5, JobShapes DEF WorkerClaims
  <2>2. [pc |-> "permit", reply |-> ClaimOf(job[j].approval)] \in JobStates
    BY <2>1, ClaimOfType DEF JobStates
  <2> QED BY <1>1, <1>5, <2>2 DEF WorkerClaims, telegramVars
<1>6. ASSUME j \in Handlers, NEW c \in Conversations, NEW m \in Incoming, NEW b \in Bodies,
             CustomerWritesMatched(j, c, m, b)
      PROVE  /\ job' \in [Jobs -> JobStates]
             /\ \A i \in Jobs : i # j => job'[i] = job[i]
             /\ UNCHANGED outbox
  <2>1. [pc |-> "route", conn |-> active, chat |-> c] \in JobStates
    BY DEF JobStates
  <2> QED BY <1>1, <1>6, <2>1 DEF CustomerWritesMatched, CustomerWrote, telegramVars
<1>7. ASSUME j \in Handlers, RouteToHandoff(j) \/ \E a \in Approvals, b \in Bodies : RouteToDraft(j, a, b)
      PROVE  /\ job' \in [Jobs -> JobStates]
             /\ \A i \in Jobs : i # j => job'[i] = job[i]
             /\ UNCHANGED outbox
  <2>1. job[j].pc = "route"
    BY <1>7 DEF RouteToDraft, RouteToHandoff
  <2>2. job[j] \in [pc : {"route", "card", "notify"}, conn : Connections, chat : Conversations]
    BY <2>1, JobShapes
  <2>3. PICK p \in {"card", "notify"} : job' = [job EXCEPT ![j].pc = p]
    BY <1>7 DEF RouteToDraft, RouteToHandoff
  <2>4. [job[j] EXCEPT !.pc = p] \in JobStates
    BY <2>2 DEF JobStates
  <2> QED BY <1>1, <1>7, <2>3, <2>4 DEF RouteToDraft, RouteToHandoff, telegramVars
<1>8. ASSUME NEW b \in Bodies, NEW k \in Connections, NEW c \in Conversations
      PROVE  [pc |-> "permit",
              reply |-> [approval |-> NoApproval, conn |-> k, chat |-> c, body |-> b]] \in JobStates
  BY DEF JobStates, Replies
<1>9. CASE j \in Handlers /\ HandoffNotified(j)
  <2>1. job[j].conn \in Connections /\ job[j].chat \in Conversations
    BY <1>9, JobShapes DEF HandoffNotified
  <2> QED BY <1>1, <1>8, <1>9, <2>1 DEF HandoffNotified, telegramVars
<1>10. ASSUME NEW c \in Conversations, NEW b \in Bodies, OwnerSendsOnce(j, c, b)
       PROVE  /\ job' \in [Jobs -> JobStates]
              /\ \A i \in Jobs : i # j => job'[i] = job[i]
              /\ UNCHANGED outbox
  BY <1>1, <1>8, <1>10 DEF OwnerSendsOnce, telegramVars
<1>11. ASSUME NEW a \in Approvals, OwnerClicksSend(j, a)
       PROVE  /\ job' \in [Jobs -> JobStates]
              /\ \A i \in Jobs : i # j => job'[i] = job[i]
              /\ UNCHANGED outbox
  BY <1>1, <1>2, <1>11 DEF OwnerClicksSend, JobStates, telegramVars
<1>12. ASSUME NEW reply \in Replies, NEW r \in Receipts, Leaves(j, reply, r)
       PROVE  /\ job' \in [Jobs -> JobStates]
              /\ \A i \in Jobs : i # j => job'[i] = job[i]
              /\ outbox' \in [Receipts -> Replies \cup {NoReply}]
  BY <1>1, <1>12 DEF Leaves, JobStates
<1>13. ASSUME NEW r \in Receipts, ClickClaims(j, r)
       PROVE  job[j].approval \in Approvals /\ Leaves(j, ClaimOf(job[j].approval), r)
  BY <1>13, JobShapes DEF ClickClaims
<1>14. ASSUME NEW r \in Receipts, PermitGranted(j, r)
       PROVE  job[j].reply \in Replies /\ Leaves(j, job[j].reply, r)
  BY <1>14, JobShapes DEF PermitGranted
<1> QED BY <1>3, <1>4, <1>5, <1>6, <1>7, <1>9, <1>10, <1>11, <1>12, <1>13, <1>14, ClaimOfType
       DEF Enters

\* The connection of a chat moves only with a message, and so with the revision.
LEMMA LinkMoves ==
    ASSUME PipeTypeOK, Next
    PROVE  /\ link' \in [Conversations -> Connections]
           /\ \A c \in Conversations : link'[c] = link[c] \/ revision'[c] > revision[c]
<1> USE DEF PipeTypeOK
<1>1. ASSUME NEW c \in Conversations, NEW m \in Incoming, NEW b \in Bodies, CustomerWrote(c, m, b)
      PROVE  /\ link' \in [Conversations -> Connections]
             /\ \A d \in Conversations : link'[d] = link[d] \/ revision'[d] > revision[d]
  BY <1>1 DEF CustomerWrote, Ingest, LedgerTypeOK, Known
<1>2. ASSUME NEW j \in Jobs, JobStep(j) PROVE UNCHANGED link
  BY <1>2 DEF JobStep, SendStep, WorkerStep, HandlerStep, ClickStep, PermitGranted, PermitRefused,
              Confirmed, Unconfirmed, WorkerLoads, WorkerGivesUp, WorkerDrafts, WorkerAutoDrafts,
              WorkerProposes, WorkerClaims, RouteToDraft, RouteToHandoff, CardDelivered,
              HandoffNotified, OwnerUnreachable, ClickClaims, ClickComesTooLate, ClickCheckFails
<1>3. ASSUME NEW a \in Approvals, ApprovalEvent(a) PROVE UNCHANGED link
  BY <1>3 DEF ApprovalEvent, OwnerClicksSend, OwnerRewords, OwnerRejects, DraftLapses, LedgerEvent,
              pipeVars
<1>4. ASSUME NEW c \in Conversations, ChatEvent(c)
      PROVE  /\ link' \in [Conversations -> Connections]
             /\ \A d \in Conversations : link'[d] = link[d] \/ revision'[d] > revision[d]
  BY <1>1, <1>4
     DEF ChatEvent, CustomerWrites, CustomerSendsOther, CustomerWritesMatched, OwnerWrites,
         MessageEdited, MessageDeleted, UnknownMessageTouched, CustomerTapsHandoff,
         OwnerSetsState, LedgerEvent, pipeVars, OwnerSendsOnce
<1>5. ASSUME \/ \E r \in Receipts : Accepts(r)
             \/ \E m \in ModeChoices : OwnerSetsMode(m)
             \/ ReplyRightChanges
             \/ \E k \in Connections : Reconnects(k)
             \/ Crash
      PROVE  UNCHANGED link
  BY <1>5 DEF Accepts, OwnerSetsMode, ReplyRightChanges, Reconnects, Crash
<1> QED BY <1>2, <1>3, <1>4, <1>5 DEF Next

\* What only Telegram, the owner's switches and a crash move.
LEMMA WorldMoves ==
    ASSUME PipeTypeOK, Next
    PROVE  /\ mode' \in Modes
           /\ active' \in Connections
           /\ canReply' \in BOOLEAN
           /\ crashes' \in Nat
           /\ accepted' \subseteq Receipts
           /\ accepted \subseteq accepted'
           /\ \A r \in accepted' : r \in accepted \/ outbox[r] # NoReply
<1> USE DEF PipeTypeOK
<1>1. ASSUME NEW j \in Jobs, JobStep(j) PROVE UNCHANGED <<mode, active, canReply, accepted, crashes>>
  BY <1>1 DEF JobStep, SendStep, WorkerStep, HandlerStep, ClickStep, PermitGranted, PermitRefused,
              Confirmed, Unconfirmed, WorkerLoads, WorkerGivesUp, WorkerDrafts, WorkerAutoDrafts,
              WorkerProposes, WorkerClaims, RouteToDraft, RouteToHandoff, CardDelivered,
              HandoffNotified, OwnerUnreachable, ClickClaims, ClickComesTooLate, ClickCheckFails,
              telegramVars
<1>2. ASSUME NEW a \in Approvals, ApprovalEvent(a)
      PROVE  UNCHANGED <<mode, active, canReply, accepted, crashes>>
  BY <1>2 DEF ApprovalEvent, OwnerClicksSend, OwnerRewords, OwnerRejects, DraftLapses, LedgerEvent,
              pipeVars, telegramVars
<1>3. ASSUME NEW c \in Conversations, ChatEvent(c)
      PROVE  UNCHANGED <<mode, active, canReply, accepted, crashes>>
  BY <1>3
     DEF ChatEvent, CustomerWrites, CustomerSendsOther, CustomerWritesMatched, CustomerWrote,
         OwnerWrites, MessageEdited, MessageDeleted, UnknownMessageTouched, CustomerTapsHandoff,
         OwnerSetsState, LedgerEvent, pipeVars, OwnerSendsOnce, telegramVars
<1>4. ASSUME \/ \E m \in ModeChoices : OwnerSetsMode(m)
             \/ \E k \in Connections : Reconnects(k)
             \/ Crash
      PROVE  /\ mode' \in Modes /\ active' \in Connections /\ UNCHANGED <<canReply, accepted>>
             /\ crashes' \in Nat
  BY <1>4, PipelineAssumption DEF OwnerSetsMode, Reconnects, Crash, telegramVars
<1>5. ASSUME NEW r \in Receipts, Accepts(r)
      PROVE  /\ UNCHANGED <<mode, active, canReply, crashes>>
             /\ accepted' = accepted \cup {r} /\ outbox[r] # NoReply
  BY <1>5 DEF Accepts
<1>6. ASSUME ReplyRightChanges
      PROVE  canReply' \in BOOLEAN /\ UNCHANGED <<mode, active, accepted, crashes>>
  BY <1>6 DEF ReplyRightChanges
<1> QED BY <1>1, <1>2, <1>3, <1>4, <1>5, <1>6 DEF Next

LEMMA TypesStay ==
    ASSUME PipeTypeOK, HoldersHold, Snapshots, LedgerInv, [Next]_vars
    PROVE  PipeTypeOK' /\ LedgerInv'
<1>1. LedgerInv'
  BY StepCalls, LedgerStepInv
<1>2. CASE UNCHANGED vars
  BY <1>1, <1>2 DEF vars, pipeVars, telegramVars, PipeTypeOK, LedgerInv
<1>3. CASE Next
  <2>1. job' \in [Jobs -> JobStates] /\ outbox' \in [Receipts -> Replies \cup {NoReply}]
    <3>1. ASSUME Fades
          PROVE  job' \in [Jobs -> JobStates] /\ outbox' \in [Receipts -> Replies \cup {NoReply}]
      BY <3>1 DEF Fades, PipeTypeOK
    <3> QED BY <1>3, <3>1, NextMoves, EntersTyped
  <2> QED BY <1>1, <1>3, <2>1, LinkMoves, WorldMoves DEF PipeTypeOK, LedgerInv
<1> QED BY <1>1, <1>2, <1>3

-----------------------------------------------------------------------------
(* Freshness.                                                              *)

\* A revision never falls, and while it stands its chat and connection stand.
LEMMA LedgerRevises ==
    ASSUME LedgerInv, [LedgerNext]_ledgerVars
    PROVE  \A c \in Conversations :
              /\ revision'[c] >= revision[c]
              /\ revision'[c] = revision[c] => View(c)' = View(c)
<1> USE DEF LedgerInv
<1>1. \A c \in Conversations : revision[c] \in Nat
  BY DEF LedgerTypeOK
<1>2. CASE UNCHANGED ledgerVars
  BY <1>1, <1>2 DEF ledgerVars, chatVars, View
<1>3. ASSUME NEW d \in Conversations, UpdateNext(d) \/ StateNext(d)
      PROVE  \A c \in Conversations :
                /\ revision'[c] >= revision[c]
                /\ revision'[c] = revision[c] => View(c)' = View(c)
  BY <1>1, <1>3, ChatStepMoves DEF ChatMoves, View
<1>4. ASSUME NEW a \in Approvals, ApprovalNext(a)
      PROVE  \A c \in Conversations :
                /\ revision'[c] >= revision[c]
                /\ revision'[c] = revision[c] => View(c)' = View(c)
  <2>1. CASE \E c \in Conversations, b \in Bodies : CreateApproval(c, a, b, View(c))
    BY <1>1, <2>1 DEF CreateApproval, chatVars, View
  <2>2. CASE \E m \in MessageIds : status[a] = "SENDING" /\ MarkSent(a, m)
    <3>1. \A c \in Conversations :
             /\ revision'[c] >= revision[c]
             /\ convState'[c] = convState[c]
             /\ rows'[c] = rows[c] \/ revision'[c] > revision[c]
      BY <2>2, MarkSentMoves DEF LedgerTypeOK
    <3> QED BY <1>1, <3>1 DEF View
  <2>3. CASE OwnStep(a)
    BY <1>1, <2>3, OwnStepTypes DEF OnlyOwnStatus, chatVars, View
  <2> QED BY <1>4, <2>1, <2>2, <2>3, ApprovalNextSplit
<1> QED BY <1>2, <1>3, <1>4 DEF LedgerNext

\* A draft that was written stays bound to its chat and revision, and none becomes
\* pending again.
LEMMA LedgerKeeps ==
    ASSUME LedgerInv, [LedgerNext]_ledgerVars
    PROVE  \A a \in Approvals :
              status[a] # "UNUSED" =>
                 /\ status'[a] # "UNUSED"
                 /\ chat'[a] = chat[a]
                 /\ bound'[a] = bound[a]
                 /\ status'[a] = "PENDING" => status[a] = "PENDING"
<1> USE DEF LedgerInv
<1>1. CASE UNCHANGED ledgerVars
  BY <1>1 DEF ledgerVars, draftVars
<1>2. ASSUME LedgerNext, NEW a \in Approvals, status[a] # "UNUSED"
      PROVE  /\ status'[a] # "UNUSED"
             /\ chat'[a] = chat[a]
             /\ bound'[a] = bound[a]
             /\ status'[a] = "PENDING" => status[a] = "PENDING"
  <2>1. CASE OwnStep(a)
    <3>1. OnlyOwnStatus(a)
      BY <2>1, OwnStepTypes
    <3> QED BY <3>1 DEF OnlyOwnStatus
  <2> QED BY <1>2, <2>1, StepsOfOne
<1> QED BY <1>1, <1>2

LEMMA LedgerStates ==
    ASSUME LedgerTypeOK, NoEscalation, [LedgerNext]_ledgerVars
    PROVE  NoEscalation'
<1>2. ASSUME UNCHANGED convState PROVE NoEscalation'
  BY <1>2 DEF NoEscalation
<1>3. ASSUME NEW c \in Conversations, UpdateNext(c) PROVE NoEscalation'
  BY <1>3 DEF UpdateNext, Ingest, MarkEdited, MarkDeleted, OwnerSpoke, RecordOutgoing,
              AppendOutgoing, chatVars, NoEscalation, LedgerTypeOK
<1>4. ASSUME NEW c \in Conversations, StateNext(c) PROVE NoEscalation'
  BY <1>4, PipelineAssumption
     DEF StateNext, SetConversationState, HandoffByIntent, HandoffInPlace, NoEscalation, LedgerTypeOK
<1>5. ASSUME NEW a \in Approvals, ApprovalNext(a) PROVE UNCHANGED convState
  BY <1>5 DEF ApprovalNext, CreateApproval, UpdateCandidate, Lapse, GrantClaim, RefuseClaim,
              MarkSent, AppendOutgoing, MarkUncertain, MarkFailedBeforeSend, Reject, chatVars
<1> QED BY <1>2, <1>3, <1>4, <1>5 DEF LedgerNext, ledgerVars, chatVars

LEMMA LedgerAges ==
    ASSUME LedgerInv, OverdueExists, [LedgerNext]_ledgerVars
    PROVE  OverdueExists'
<1>1. overdue \subseteq Approvals
  BY DEF LedgerInv, LedgerTypeOK
<1>2. UNCHANGED overdue \/ \E a \in Approvals : Lapse(a)
  <2>1. ASSUME NEW c \in Conversations, UpdateNext(c) \/ StateNext(c) PROVE UNCHANGED overdue
    BY <2>1, ChatStepMoves DEF ChatMoves, LedgerInv
  <2>2. ASSUME NEW a \in Approvals, ApprovalNext(a) PROVE UNCHANGED overdue \/ Lapse(a)
    BY <2>2 DEF ApprovalNext, CreateApproval, UpdateCandidate, GrantClaim, RefuseClaim,
                MarkSent, MarkUncertain, MarkFailedBeforeSend, Reject
  <2> QED BY <2>1, <2>2 DEF LedgerNext, ledgerVars
<1>3. \A a \in overdue' : status[a] # "UNUSED" /\ a \in Approvals
  BY <1>1, <1>2 DEF OverdueExists, Lapse
<1> QED BY <1>3, LedgerKeeps DEF OverdueExists

\* Which action leads to an await.
LEMMA Entering ==
    ASSUME PipeTypeOK, NEW j \in Jobs, Enters(j)
    PROVE  /\ job'[j].pc = "analyse" => j \in Workers /\ WorkerLoads(j)
           /\ job'[j].pc = "claim" =>
                 j \in Workers /\ \E a \in Approvals, b \in Bodies : WorkerAutoDrafts(j, a, b)
           /\ job'[j].pc = "check" => \E a \in Approvals : OwnerClicksSend(j, a)
           /\ job'[j].pc = "send" =>
                 \E r \in Receipts : ClickClaims(j, r) \/ PermitGranted(j, r)
           /\ job'[j].pc = "permit" =>
                 \/ WorkerClaims(j)
                 \/ job'[j].reply.approval = NoApproval
<1> USE DEF PipeTypeOK
<1>1. CASE j \in Workers /\ WorkerLoads(j)
  <2>1. job'[j].pc \in {"analyse", "idle"}
    BY <1>1, EndedRests DEF WorkerLoads, Idle
  <2> QED BY <1>1, <2>1
<1>2. CASE j \in Workers /\ \E a \in Approvals, b \in Bodies : WorkerAutoDrafts(j, a, b)
  <2>1. job'[j].pc = "claim"
    BY <1>2 DEF WorkerAutoDrafts
  <2> QED BY <1>2, <2>1
<1>3. CASE j \in Workers /\ WorkerClaims(j)
  <2>1. job'[j].pc = "permit"
    BY <1>3 DEF WorkerClaims
  <2> QED BY <1>3, <2>1
<1>4. CASE \/ \E c \in Conversations, m \in Incoming, b \in Bodies : CustomerWritesMatched(j, c, m, b)
           \/ \E a \in Approvals, b \in Bodies : RouteToDraft(j, a, b)
           \/ RouteToHandoff(j)
  <2>1. job[j].pc = "route" =>
           job[j] \in [pc : {"route", "card", "notify"}, conn : Connections, chat : Conversations]
    BY JobShapes
  <2>2. job'[j].pc \in {"route", "card", "notify"}
    BY <1>4, <2>1 DEF CustomerWritesMatched, RouteToDraft, RouteToHandoff
  <2> QED BY <2>2
<1>5. CASE HandoffNotified(j) \/ \E c \in Conversations, b \in Bodies : OwnerSendsOnce(j, c, b)
  BY <1>5 DEF HandoffNotified, OwnerSendsOnce
<1>6. CASE \E a \in Approvals : OwnerClicksSend(j, a)
  <2>1. job'[j].pc = "check"
    BY <1>6 DEF OwnerClicksSend
  <2> QED BY <1>6, <2>1
<1>7. CASE \E r \in Receipts : ClickClaims(j, r) \/ PermitGranted(j, r)
  <2>1. job'[j].pc = "send"
    BY <1>7 DEF ClickClaims, PermitGranted, Leaves
  <2> QED BY <1>7, <2>1
<1> QED BY <1>1, <1>2, <1>3, <1>4, <1>5, <1>6, <1>7 DEF Enters

\* A job that is at an await after a step was there before, or has just come there.
LEMMA WasOrEnters ==
    ASSUME PipeTypeOK, Next, NEW i \in Jobs, job'[i].pc \notin {"idle", "wait"}
    PROVE  job'[i] = job[i] \/ Enters(i)
  BY NextMoves, EntersTyped DEF Fades, Resting, Idle

\* Between the commits of a stretch nothing else happens, but for a crash.
LEMMA StretchAlone ==
    ASSUME Next
    PROVE  \/ LoopFree
           \/ Crash
           \/ \E j \in Jobs :
                 \/ j \in Workers /\ WorkerClaims(j)
                 \/ j \in Handlers /\ \E a \in Approvals, b \in Bodies : RouteToDraft(j, a, b)
                 \/ j \in Handlers /\ RouteToHandoff(j)
<1>1. ASSUME NEW j \in Jobs, JobStep(j)
      PROVE  \/ LoopFree
             \/ j \in Workers /\ WorkerClaims(j)
             \/ j \in Handlers /\ \E a \in Approvals, b \in Bodies : RouteToDraft(j, a, b)
             \/ j \in Handlers /\ RouteToHandoff(j)
  BY <1>1 DEF JobStep, SendStep, WorkerStep, HandlerStep, ClickStep, PermitGranted, PermitRefused,
              Confirmed, Unconfirmed, WorkerLoads, WorkerGivesUp, WorkerDrafts, WorkerAutoDrafts,
              WorkerProposes, CardDelivered, HandoffNotified, OwnerUnreachable, ClickClaims,
              ClickComesTooLate, ClickCheckFails
<1>2. ASSUME NEW c \in Conversations, ChatEvent(c) PROVE LoopFree
  BY <1>2
     DEF ChatEvent, CustomerWrites, CustomerSendsOther, CustomerWritesMatched, CustomerWrote,
         OwnerWrites, MessageEdited, MessageDeleted, UnknownMessageTouched, CustomerTapsHandoff,
         OwnerSetsState, LedgerEvent, OwnerSendsOnce
<1>3. ASSUME NEW a \in Approvals, ApprovalEvent(a) PROVE LoopFree
  BY <1>3 DEF ApprovalEvent, OwnerClicksSend, OwnerRewords, OwnerRejects, DraftLapses, LedgerEvent
<1> QED BY <1>1, <1>2, <1>3 DEF Next, Accepts, OwnerSetsMode, ReplyRightChanges, Reconnects

LEMMA OneStretchStays ==
    ASSUME PipeTypeOK, OneStretch, Next
    PROVE  OneStretch'
<1> DEFINE Between(x) == x.pc \in {"claim", "route"}
<1>1. ASSUME LoopFree, NEW i \in Jobs, NEW j \in Jobs, Between(job'[i]), Between(job'[j])
      PROVE  i = j
  <2>1. ~Between(job[i]) /\ ~Between(job[j])
    BY <1>1 DEF LoopFree
  <2>2. Enters(i) /\ Enters(j)
    BY <1>1, <2>1, WasOrEnters
  <2>3. i # j => job'[j] = job[j] \/ job'[j] = Idle
    BY <2>2, EntersTyped
  <2> QED BY <1>1, <2>1, <2>3 DEF Idle
<1>2. CASE Crash
  BY <1>2 DEF Crash, OneStretch, Idle
<1>3. ASSUME NEW h \in Jobs,
             \/ WorkerClaims(h)
             \/ \E a \in Approvals, b \in Bodies : RouteToDraft(h, a, b)
             \/ RouteToHandoff(h)
      PROVE  OneStretch'
  <2>1. job[h].pc = "route" =>
           job[h] \in [pc : {"route", "card", "notify"}, conn : Connections, chat : Conversations]
    BY JobShapes DEF PipeTypeOK
  <2>2. Between(job[h]) /\ ~Between(job'[h])
    BY <1>3, <2>1 DEF WorkerClaims, RouteToDraft, RouteToHandoff, PipeTypeOK
  <2>3. \A i \in Jobs : i # h => job'[i] = job[i]
    BY <1>3 DEF WorkerClaims, RouteToDraft, RouteToHandoff, PipeTypeOK
  <2> QED BY <2>2, <2>3 DEF OneStretch
<1> QED BY <1>1, <1>2, <1>3, StretchAlone DEF OneStretch

\* The global mode never makes a chat more automatic than it is.
LEMMA EffectiveStates ==
    ASSUME NEW m, NEW t \in States, t # "ESCALATED"
    PROVE  /\ effective_state_for_global_mode(m, t) # "ESCALATED"
           /\ effective_state_for_global_mode(m, t) = "AI_AUTO" => t = "AI_AUTO"
  BY DEF effective_state_for_global_mode

\* The only state a worker answers by itself in.
LEMMA AutoNeedsAutoState ==
    ASSUME NEW k \in Kinds, NEW t \in States, t # "ESCALATED", "AUTO_REPLY" \in Dispositions[k][t]
    PROVE  t = "AI_AUTO"
<1>1. Dispositions[k][t] = {Disposition(k, "AUTO", t, x) : x \in Signals}
  BY DEF Dispositions
<1>2. PICK x \in Signals : Disposition(k, "AUTO", t, x) = "AUTO_REPLY"
  BY <1>1
<1>3. t \notin BlockedStates /\ choose_action(t, x) = "AUTO_REPLY"
  BY <1>2 DEF Disposition, effective_state_for_global_mode
<1> QED BY <1>3 DEF choose_action, States, BlockedStates

LEMMA SnapshotsStay ==
    ASSUME PipeTypeOK, LedgerInv, NoEscalation, Snapshots, Next, PipeTypeOK',
           [LedgerNext]_ledgerVars
    PROVE  Snapshots'
<1> SUFFICES ASSUME NEW w \in Workers, job'[w].pc = "analyse"
             PROVE  /\ job'[w].rev <= revision'[w[2]]
                    /\ job'[w].rev = revision'[w[2]] => job'[w].view = View(w[2])'
                    /\ job'[w].state = "AI_AUTO" => job'[w].view.state = "AI_AUTO"
                    /\ job'[w].state # "ESCALATED"
  BY DEF Snapshots
<1>1. w \in Jobs /\ w[2] \in Conversations
  BY DEF Jobs, Workers
<1>2. /\ revision[w[2]] \in Nat /\ revision'[w[2]] \in Nat
      /\ revision'[w[2]] >= revision[w[2]]
      /\ revision'[w[2]] = revision[w[2]] => View(w[2])' = View(w[2])
      /\ job'[w].rev \in Nat
  <2>1. job'[w] \in JobStates
    BY <1>1 DEF PipeTypeOK
  <2> QED BY <1>1, <2>1, LedgerRevises, JobShapes DEF PipeTypeOK, LedgerTypeOK
<1>3. CASE job'[w] = job[w]
  BY <1>1, <1>2, <1>3 DEF Snapshots
<1>4. CASE Enters(w)
  <2>1. WorkerLoads(w)
    BY <1>1, <1>4, Entering
  <2>2. job[w].pc = "wait"
    BY <2>1 DEF WorkerLoads
  <2>3. job'[w] = [pc |-> "analyse", msg |-> job[w].msg, rev |-> revision[w[2]],
                   view |-> View(w[2]),
                   state |-> effective_state_for_global_mode(mode, convState[w[2]])]
    BY <1>1, <2>1, EndedRests DEF WorkerLoads, PipeTypeOK, Idle
  <2>4. convState[w[2]] \in States /\ convState[w[2]] # "ESCALATED"
    BY <1>1 DEF PipeTypeOK, LedgerTypeOK, NoEscalation
  <2>5. View(w[2]).state = convState[w[2]]
    BY DEF View
  <2>6. UNCHANGED ledgerVars
    BY <2>1 DEF WorkerLoads
  <2>7. View(w[2])' = View(w[2]) /\ revision' = revision
    BY <2>6 DEF View, ledgerVars, chatVars
  <2> QED BY <1>2, <2>3, <2>4, <2>5, <2>7, EffectiveStates
<1> QED BY <1>1, <1>3, <1>4, WasOrEnters

LEMMA ClaimsStayReady ==
    ASSUME PipeTypeOK, LedgerInv, Freshness, Next, PipeTypeOK'
    PROVE  ClaimsAreReady'
<1> USE DEF Freshness
<1> SUFFICES ASSUME NEW w \in Workers, job'[w].pc = "claim"
             PROVE  Claimable(job[w].approval)' /\ convState'[w[2]] = "AI_AUTO"
  BY DEF ClaimsAreReady
<1>1. w \in Jobs /\ w[2] \in Conversations
  BY DEF Jobs, Workers
<1>2. job[w].pc # "claim"
  <2> SUFFICES ASSUME job[w].pc = "claim" PROVE FALSE
    OBVIOUS
  <2>1. job'[w] # Idle
    BY DEF Idle
  <2>2. ~LoopFree /\ ~Crash
    BY <1>1, <2>1 DEF LoopFree, Crash
  <2>3. PICK j \in Jobs : \/ j \in Workers /\ WorkerClaims(j)
                          \/ \E a \in Approvals, b \in Bodies : RouteToDraft(j, a, b)
                          \/ RouteToHandoff(j)
    BY <2>2, StretchAlone
  <2>4. job[j].pc \in {"claim", "route"}
    BY <2>3 DEF WorkerClaims, RouteToDraft, RouteToHandoff
  <2>5. j = w
    BY <1>1, <2>4 DEF OneStretch
  <2>6. WorkerClaims(w)
    BY <2>3, <2>5 DEF RouteToDraft, RouteToHandoff
  <2> QED BY <1>1, <2>6 DEF WorkerClaims, PipeTypeOK
<1>3. Enters(w)
  BY <1>1, <1>2, WasOrEnters
<1>4. PICK a \in Approvals, b \in Bodies : WorkerAutoDrafts(w, a, b)
  BY <1>1, <1>3, Entering
<1>5. /\ CreateApproval(w[2], a, b, View(w[2]))
      /\ job[w].view = View(w[2])
      /\ job'[w].approval = a
  BY <1>1, <1>4, ProposalIsFresh DEF WorkerAutoDrafts, PipeTypeOK
<1>6. Claimable(a)'
  BY <1>1, <1>5 DEF CreateApproval, Claimable, PipeTypeOK, LedgerTypeOK, OverdueExists, chatVars,
                    Invalidated
<1>7. convState'[w[2]] = "AI_AUTO"
  <2>1. /\ job[w].pc = "analyse"
        /\ "AUTO_REPLY" \in Dispositions[KindOf(job[w].msg)][job[w].state]
    BY <1>4 DEF WorkerAutoDrafts, WorkerProposes
  <2>2. job[w].state \in States /\ job[w].state # "ESCALATED"
    BY <1>1, <2>1, JobShapes DEF PipeTypeOK, Snapshots
  <2>3. KindOf(job[w].msg) \in Kinds
    BY DEF KindOf, Kinds
  <2>4. job[w].view.state = "AI_AUTO"
    BY <2>1, <2>2, <2>3, AutoNeedsAutoState DEF Snapshots
  <2> QED BY <1>5, <2>4 DEF View, CreateApproval, chatVars
<1> QED BY <1>5, <1>6, <1>7 DEF Claimable

LEMMA ChecksStayKnown ==
    ASSUME PipeTypeOK, LedgerInv, ChecksKnow, Next, PipeTypeOK', [LedgerNext]_ledgerVars
    PROVE  ChecksKnow'
<1> SUFFICES ASSUME NEW j \in Jobs, job'[j].pc = "check",
                    NEW a, a = job'[j].approval
             PROVE  /\ status'[a] # "UNUSED"
                    /\ status'[a] = "PENDING" /\ bound'[a] = revision'[chat'[a]] =>
                          job'[j].conn = link'[chat'[a]]
  BY DEF ChecksKnow
<1>1. a \in Approvals
  <2>1. job'[j] \in JobStates
    BY DEF PipeTypeOK
  <2> QED BY <2>1, JobShapes
<1>2. CASE job'[j] = job[j]
  <2>1. /\ status[a] # "UNUSED"
        /\ status[a] = "PENDING" /\ bound[a] = revision[chat[a]] => job[j].conn = link[chat[a]]
    BY <1>2 DEF ChecksKnow
  <2>2. /\ status'[a] # "UNUSED" /\ chat'[a] = chat[a] /\ bound'[a] = bound[a]
        /\ status'[a] = "PENDING" => status[a] = "PENDING"
    BY <1>1, <2>1, LedgerKeeps
  <2>3. chat[a] \in Conversations /\ bound[a] \in Nat /\ bound[a] <= revision[chat[a]]
    BY <1>1, <2>1 DEF LedgerInv, LedgerTypeOK, BoundsHold
  <2>4. /\ revision[chat[a]] \in Nat /\ revision'[chat[a]] \in Nat
        /\ revision'[chat[a]] >= revision[chat[a]]
        /\ link'[chat[a]] = link[chat[a]] \/ revision'[chat[a]] > revision[chat[a]]
    BY <2>3, LedgerRevises, LinkMoves DEF PipeTypeOK, LedgerTypeOK
  <2> QED BY <1>2, <2>1, <2>2, <2>3, <2>4
<1>3. CASE Enters(j)
  <2>1. PICK b \in Approvals : OwnerClicksSend(j, b)
    BY <1>3, Entering
  <2>2. a = b /\ job'[j].conn = link[chat[b]] /\ status[b] = "PENDING"
    BY <2>1 DEF OwnerClicksSend, PipeTypeOK
  <2> QED BY <2>1, <2>2 DEF OwnerClicksSend, ledgerVars, draftVars
<1> QED BY <1>2, <1>3, WasOrEnters

LEMMA FreshnessStays ==
    ASSUME PipeTypeOK, LedgerInv, HoldersHold, Freshness, [Next]_vars
    PROVE  Freshness'
<1>1. CASE UNCHANGED vars
  BY <1>1 DEF vars, pipeVars, ledgerVars, chatVars, draftVars, Freshness, OneStretch, NoEscalation,
              Snapshots, OverdueExists, ClaimsAreReady, ChecksKnow, Claimable, View
<1>2. CASE Next
  BY <1>2, TypesStay, StepCalls, OneStretchStays, LedgerStates, LedgerAges, SnapshotsStay,
     ClaimsStayReady, ChecksStayKnown DEF Freshness, LedgerInv
<1> QED BY <1>1, <1>2

-----------------------------------------------------------------------------
(* Custody.                                                                *)

\* The steps that touch a claim, a request or its outcome.
Handles(j) ==
    \/ WorkerClaims(j)
    \/ \E r \in Receipts : ClickClaims(j, r)
    \/ \E r \in Receipts : PermitGranted(j, r)
    \/ PermitRefused(j)
    \/ Confirmed(j)
    \/ Unconfirmed(j)

\* What no other step does to the ledger: it leaves alone the approvals that were
\* claimed, and the messages that Telegram gave a receipt for stay as they are.
LeavesSent ==
    /\ \A a \in Approvals :
          /\ status[a] \in {"SENDING", "SENT", "UNCERTAIN"} =>
                status'[a] = status[a] /\ chat'[a] = chat[a] /\ candidate'[a] = candidate[a]
          /\ status'[a] = "SENT" => status[a] = "SENT"
    /\ \A c \in Conversations, r \in Receipts :
          /\ Stored(c, r)' <=> Stored(c, r)
          /\ Stored(c, r) => rows'[c][r].body = rows[c][r].body

LEMMA NothingLeavesSent ==
    ASSUME UNCHANGED ledgerVars
    PROVE  LeavesSent
  BY DEF ledgerVars, chatVars, draftVars, LeavesSent, Stored

LEMMA ChatLeavesSent ==
    ASSUME LedgerTypeOK, NEW c \in Conversations,
           \/ \E m \in Incoming, b \in Bodies :
                 \/ \E t \in {"AI_AUTO", "AI_APPROVAL"} : Ingest(c, m, b, t)
                 \/ MarkEdited(c, m, b)
                 \/ OwnerSpoke(c, m, b)
           \/ \E m \in MessageIds : MarkDeleted(c, {m})
           \/ StateNext(c)
    PROVE  LeavesSent
<1>1. Incoming \subseteq MessageIds /\ Receipts \subseteq MessageIds /\ Incoming \cap Receipts = {}
  BY PipelineAssumption
<1>2. UpdateNext(c) \/ StateNext(c)
  BY <1>1 DEF UpdateNext
<1>3. \A a \in Approvals :
         /\ status[a] \in {"SENDING", "SENT", "UNCERTAIN"} =>
               status'[a] = status[a] /\ chat'[a] = chat[a] /\ candidate'[a] = candidate[a]
         /\ status'[a] = "SENT" => status[a] = "SENT"
  BY <1>2, ChatStepMoves DEF ChatMoves, draftVars
<1>4. ASSUME NEW m \in Incoming, NEW d \in Conversations, NEW r \in Receipts,
             \/ \E x : rows' = [rows EXCEPT ![c][m] = x]
             \/ rows' = rows
      PROVE  rows'[d][r] = rows[d][r]
  <2>1. r # m /\ m \in MessageIds /\ r \in MessageIds
    BY <1>1
  <2>2. rows \in [Conversations -> [MessageIds -> Row \cup {NoRow}]]
    BY DEF LedgerTypeOK
  <2> QED BY <1>4, <2>1, <2>2
<1>5. ASSUME NEW d \in Conversations, NEW r \in Receipts, rows'[d][r] = rows[d][r]
      PROVE  /\ Stored(d, r)' <=> Stored(d, r)
             /\ Stored(d, r) => rows'[d][r].body = rows[d][r].body
  BY <1>5 DEF Stored
<1>6. CASE \E m \in Incoming, b \in Bodies :
              \/ \E t \in {"AI_AUTO", "AI_APPROVAL"} : Ingest(c, m, b, t)
              \/ MarkEdited(c, m, b)
              \/ OwnerSpoke(c, m, b)
  <2>1. PICK m \in Incoming, b \in Bodies :
              \/ \E t \in {"AI_AUTO", "AI_APPROVAL"} : Ingest(c, m, b, t)
              \/ MarkEdited(c, m, b)
              \/ OwnerSpoke(c, m, b)
    BY <1>6
  <2>2. \/ \E x : rows' = [rows EXCEPT ![c][m] = x]
        \/ rows' = rows
    BY <2>1 DEF Ingest, MarkEdited, OwnerSpoke, AppendOutgoing, chatVars
  <2>3. \A d \in Conversations, r \in Receipts : rows'[d][r] = rows[d][r]
    BY <1>4, <2>2
  <2> QED BY <1>3, <1>5, <2>3 DEF LeavesSent
<1>7. CASE \E m \in MessageIds : MarkDeleted(c, {m})
  <2>1. PICK m \in MessageIds : MarkDeleted(c, {m})
    BY <1>7
  <2>2. ASSUME NEW d \in Conversations, NEW r \in Receipts
        PROVE  /\ Stored(d, r)' <=> Stored(d, r)
               /\ Stored(d, r) => rows'[d][r].body = rows[d][r].body
    <3>1. rows[d][r] \in Row \cup {NoRow} /\ r \in MessageIds
      BY <1>1 DEF LedgerTypeOK
    <3>2. \/ rows'[d][r] = rows[d][r]
          \/ Stored(d, r) /\ rows'[d][r] = [rows[d][r] EXCEPT !.deleted = TRUE]
      BY <2>1, <3>1 DEF MarkDeleted, LedgerTypeOK, Stored
    <3>3. CASE Stored(d, r) /\ rows'[d][r] = [rows[d][r] EXCEPT !.deleted = TRUE]
      <4>1. rows[d][r] \in Row
        BY <3>1, <3>3 DEF Stored
      <4>2. rows'[d][r].author = rows[d][r].author /\ rows'[d][r].body = rows[d][r].body
        BY <3>3, <4>1 DEF Row
      <4> QED BY <3>3, <4>1, <4>2 DEF Stored, Row, NoRow
    <3> QED BY <1>5, <3>2, <3>3
  <2> QED BY <1>3, <2>2 DEF LeavesSent
<1>8. CASE StateNext(c)
  BY <1>3, <1>5, <1>8 DEF StateNext, SetConversationState, HandoffByIntent, HandoffInPlace, LeavesSent
<1> QED BY <1>6, <1>7, <1>8

LEMMA DraftLeavesSent ==
    ASSUME LedgerTypeOK, NEW a \in Approvals,
           \/ \E c \in Conversations, b \in Bodies, v \in Views : CreateApproval(c, a, b, v)
           \/ \E b \in Bodies : UpdateCandidate(a, b)
           \/ Lapse(a)
           \/ RefuseClaim(a)
           \/ Reject(a)
    PROVE  LeavesSent
<1>1. UNCHANGED chatVars
  BY DEF CreateApproval, UpdateCandidate, Lapse, RefuseClaim, Reject
<1>2. \A c \in Conversations, r \in Receipts :
         /\ Stored(c, r)' <=> Stored(c, r)
         /\ Stored(c, r) => rows'[c][r].body = rows[c][r].body
  BY <1>1 DEF chatVars, Stored
<1>3. ASSUME NEW x \in Approvals
      PROVE  /\ status[x] \in {"SENDING", "SENT", "UNCERTAIN"} =>
                   status'[x] = status[x] /\ chat'[x] = chat[x] /\ candidate'[x] = candidate[x]
             /\ status'[x] = "SENT" => status[x] = "SENT"
  <2>1. CASE \E c \in Conversations, b \in Bodies, v \in Views : CreateApproval(c, a, b, v)
    BY <2>1 DEF CreateApproval, Invalidated, LedgerTypeOK
  <2>2. CASE \/ \E b \in Bodies : UpdateCandidate(a, b)
             \/ Lapse(a)
    BY <2>2 DEF UpdateCandidate, Lapse, LedgerTypeOK, draftVars
  <2>3. CASE RefuseClaim(a) \/ Reject(a)
    BY <2>3 DEF RefuseClaim, Reject, CompareAndSet, LedgerTypeOK, draftVars
  <2> QED BY <2>1, <2>2, <2>3
<1> QED BY <1>2, <1>3 DEF LeavesSent

\* A job that holds no approval and waits for no answer of Telegram.
Unburdened(x) ==
    \/ x.pc \notin {"permit", "send"}
    \/ x.pc = "permit" /\ x.reply.approval = NoApproval

\* A step that handles no claim.
Aside ==
    /\ \A i \in Jobs : job'[i] = job[i] \/ Unburdened(job'[i])
    /\ UNCHANGED outbox
    /\ LeavesSent

LEMMA JobStepIsAside ==
    ASSUME PipeTypeOK, NEW j \in Jobs, JobStep(j), ~Handles(j)
    PROVE  LeavesSent /\ UNCHANGED outbox
<1> USE DEF PipeTypeOK
<1>1. job[j] \in JobStates
  OBVIOUS
<1>2. CASE SendStep(j)
  BY <1>2 DEF SendStep, Handles
<1>3. CASE j \in Workers /\ WorkerStep(j)
  <2>1. ASSUME NEW a \in Approvals, NEW b \in Bodies, WorkerDrafts(j, a, b) \/ WorkerAutoDrafts(j, a, b)
        PROVE  LeavesSent /\ UNCHANGED outbox
    <3>1. CreateApproval(j[2], a, b, job[j].view) /\ UNCHANGED outbox /\ job[j].pc = "analyse"
      BY <2>1 DEF WorkerDrafts, WorkerAutoDrafts, WorkerProposes, telegramVars
    <3>2. job[j].view \in Views /\ j[2] \in Conversations
      BY <1>1, <1>3, <3>1, JobShapes DEF Workers
    <3> QED BY <3>1, <3>2, DraftLeavesSent
  <2> QED BY <1>3, <2>1, NothingLeavesSent
         DEF WorkerStep, WorkerLoads, WorkerGivesUp, Handles, telegramVars
<1>4. CASE j \in Handlers /\ HandlerStep(j)
  <2>1. ASSUME job[j].pc = "route", HandoffByIntent(job[j].chat)
        PROVE  LeavesSent
    <3>1. job[j].chat \in Conversations
      BY <1>1, <2>1, JobShapes
    <3> QED BY <2>1, <3>1, ChatLeavesSent DEF StateNext
  <2>2. ASSUME NEW a \in Approvals, NEW b \in Bodies, RouteToDraft(j, a, b)
        PROVE  LeavesSent
    <3>1. job[j].chat \in Conversations
      BY <1>1, <2>2, JobShapes DEF RouteToDraft
    <3>2. View(job[j].chat) \in Views
      BY <3>1 DEF View, Views, LedgerTypeOK
    <3> QED BY <2>2, <3>1, <3>2, DraftLeavesSent DEF RouteToDraft
  <2> QED BY <1>4, <2>1, <2>2, NothingLeavesSent
         DEF HandlerStep, RouteToDraft, RouteToHandoff, CardDelivered, HandoffNotified,
             OwnerUnreachable, telegramVars
<1>5. CASE j \in Clicks /\ ClickStep(j)
  <2>1. job[j].pc = "check" => job[j].approval \in Approvals
    BY <1>1, JobShapes
  <2> QED BY <1>5, <2>1, NothingLeavesSent, DraftLeavesSent
         DEF ClickStep, ClickComesTooLate, ClickCheckFails, Handles, telegramVars
<1> QED BY <1>2, <1>3, <1>4, <1>5 DEF JobStep

LEMMA ChatEventIsAside ==
    ASSUME PipeTypeOK, NEW c \in Conversations, ChatEvent(c)
    PROVE  LeavesSent /\ UNCHANGED outbox
<1> USE DEF PipeTypeOK
<1>1. DefaultState \in {"AI_AUTO", "AI_APPROVAL"}
  BY DEF DefaultState
<1>2. ASSUME NEW m \in Incoming, NEW b \in Bodies, CustomerWrote(c, m, b)
      PROVE  LeavesSent /\ UNCHANGED outbox
  BY <1>1, <1>2, ChatLeavesSent DEF CustomerWrote, telegramVars
<1>3. ASSUME NEW m \in Incoming, NEW b \in Bodies, OwnerWrites(c, m, b) \/ MessageEdited(c, m, b)
      PROVE  LeavesSent /\ UNCHANGED outbox
  BY <1>3, ChatLeavesSent DEF OwnerWrites, MessageEdited, telegramVars
<1>4. ASSUME NEW m \in MessageIds, MessageDeleted(c, m)
      PROVE  LeavesSent /\ UNCHANGED outbox
  BY <1>4, ChatLeavesSent DEF MessageDeleted, telegramVars
<1>5. ASSUME CustomerTapsHandoff(c) \/ \E s \in Targets : OwnerSetsState(c, s)
      PROVE  LeavesSent /\ UNCHANGED outbox
  BY <1>5, ChatLeavesSent
     DEF CustomerTapsHandoff, OwnerSetsState, LedgerEvent, StateNext, pipeVars, telegramVars
<1>6. ASSUME UnknownMessageTouched(c) \/ \E j \in OneTimes, b \in Bodies : OwnerSendsOnce(j, c, b)
      PROVE  LeavesSent /\ UNCHANGED outbox
  BY <1>6, NothingLeavesSent DEF UnknownMessageTouched, OwnerSendsOnce, telegramVars
<1> QED BY <1>2, <1>3, <1>4, <1>5, <1>6
       DEF ChatEvent, CustomerWrites, CustomerSendsOther, CustomerWritesMatched

LEMMA NextIsAside ==
    ASSUME PipeTypeOK, Next, \A j \in Jobs : ~Handles(j)
    PROVE  Aside
<1>1. LeavesSent /\ UNCHANGED outbox
  <2>1. ASSUME NEW a \in Approvals, ApprovalEvent(a)
        PROVE  LeavesSent /\ UNCHANGED outbox
    BY <2>1, DraftLeavesSent, NothingLeavesSent
       DEF ApprovalEvent, OwnerClicksSend, OwnerRewords, OwnerRejects, DraftLapses, LedgerEvent,
           pipeVars, telegramVars, PipeTypeOK
  <2>2. ASSUME \/ \E r \in Receipts : Accepts(r)
               \/ \E m \in ModeChoices : OwnerSetsMode(m)
               \/ ReplyRightChanges
               \/ \E k \in Connections : Reconnects(k)
               \/ Crash
        PROVE  LeavesSent /\ UNCHANGED outbox
    BY <2>2, NothingLeavesSent
       DEF Accepts, OwnerSetsMode, ReplyRightChanges, Reconnects, Crash, telegramVars
  <2> QED BY <2>1, <2>2, JobStepIsAside, ChatEventIsAside DEF Next
<1>2. ASSUME NEW i \in Jobs PROVE job'[i] = job[i] \/ Unburdened(job'[i])
  BY WasOrEnters, Entering DEF Handles, Unburdened
<1> QED BY <1>1, <1>2 DEF Aside

LEMMA AsideKeepsCustody ==
    ASSUME PipeTypeOK, PipeTypeOK', Custody, Aside,
           accepted \subseteq accepted', \A r \in accepted' : r \in accepted \/ outbox[r] # NoReply
    PROVE  Custody'
<1> USE DEF Custody
<1>1. /\ job \in [Jobs -> JobStates] /\ job' \in [Jobs -> JobStates]
      /\ chat \in [Approvals -> Conversations]
  BY DEF PipeTypeOK, LedgerTypeOK
<1>2. UNCHANGED outbox /\ LeavesSent
  BY DEF Aside
<1>3. ASSUME NEW a \in Approvals, NEW i \in Holders(a)'
      PROVE  i \in Holders(a) /\ job'[i] = job[i]
  <2>1. i \in Jobs /\ job'[i].pc \in {"permit", "send"} /\ job'[i].reply.approval = a
    BY <1>1, JobShapes DEF Holders
  <2>2. a # NoApproval
    BY PipelineAssumption
  <2> QED BY <1>1, <2>1, <2>2, HoldersAre DEF Aside, Unburdened
<1>4. HoldersHold'
  BY <1>2, <1>3 DEF HoldersHold, LeavesSent
<1>5. \A a \in Approvals : Requests(a)' = Requests(a)
  BY <1>2 DEF Requests
<1>6. PermitsUnsent'
  BY <1>3, <1>5 DEF PermitsUnsent
<1>7. RequestsOnRecord'
  BY <1>2, <1>5 DEF RequestsOnRecord, LeavesSent
<1>8. SendersSent'
  BY <1>2 DEF Aside, Unburdened, SendersSent
<1>9. AcceptedLeft'
  BY <1>2 DEF AcceptedLeft
<1>10. SentIsTrue'
  <2>1. ASSUME NEW a \in Approvals, status'[a] = "SENT"
        PROVE  \E r \in Delivered(a)' : Stored(chat[a], r)' /\ chat'[a] = chat[a]
    <3>1. status[a] = "SENT" /\ chat'[a] = chat[a] /\ chat[a] \in Conversations
      BY <1>1, <1>2, <2>1 DEF LeavesSent
    <3>2. PICK r \in Delivered(a) : Stored(chat[a], r)
      BY <3>1 DEF SentIsTrue
    <3>3. r \in Receipts /\ r \in Delivered(a)'
      BY <1>2, <3>2 DEF Delivered, PipeTypeOK
    <3> QED BY <1>2, <3>1, <3>2, <3>3 DEF LeavesSent
  <2>2. ASSUME NEW c \in Conversations, NEW r \in Receipts, Stored(c, r)'
        PROVE  r \in accepted' /\ outbox'[r].chat = c /\ outbox'[r].body = rows'[c][r].body
    <3>1. Stored(c, r) /\ rows'[c][r].body = rows[c][r].body
      BY <1>2, <2>2 DEF LeavesSent
    <3> QED BY <1>2, <3>1 DEF SentIsTrue
  <2> QED BY <2>1, <2>2 DEF SentIsTrue, Stored
<1> QED BY <1>4, <1>6, <1>7, <1>8, <1>9, <1>10

\* The job that held an approval lets it go: whatever happened is on record.
LEMMA LetsGo ==
    ASSUME PipeTypeOK, PipeTypeOK', Custody, NEW j \in Jobs, job[j].pc \in {"permit", "send"},
           job' = Ended(j), UNCHANGED <<outbox, accepted, chat, candidate>>,
           \A x \in Approvals :
              status[x] \in {"SENDING", "SENT", "UNCERTAIN"} /\ x # job[j].reply.approval =>
                 status'[x] = status[x],
           \A x \in Approvals :
              x = job[j].reply.approval =>
                 \/ status'[x] \in {"SENT", "UNCERTAIN"}
                 \/ Requests(x) = {}
    PROVE  HoldersHold' /\ PermitsUnsent' /\ RequestsOnRecord' /\ SendersSent' /\ AcceptedLeft'
<1> USE DEF Custody
<1>1. job \in [Jobs -> JobStates] /\ job' \in [Jobs -> JobStates]
  BY DEF PipeTypeOK
<1>2. job'[j] = Idle /\ \A i \in Jobs : job'[i] = job[i] \/ job'[i] = Idle
  BY <1>1, EndedRests
<1>3. ASSUME NEW a \in Approvals, NEW i \in Holders(a)'
      PROVE  i \in Holders(a) /\ job'[i] = job[i] /\ a # job[j].reply.approval
  <2>1. i \in Jobs /\ job'[i].pc \in {"permit", "send"} /\ job'[i].reply.approval = a
    BY <1>1, JobShapes DEF Holders
  <2>2. i # j /\ job'[i] = job[i]
    BY <1>2, <2>1 DEF Idle
  <2>3. i \in Holders(a)
    BY <1>1, <2>1, <2>2, HoldersAre
  <2>4. a = job[j].reply.approval => j \in Holders(a)
    BY <1>1, HoldersAre
  <2> QED BY <2>2, <2>3, <2>4 DEF HoldersHold
<1>4. \A a \in Approvals : Requests(a)' = Requests(a)
  BY DEF Requests
<1>5. HoldersHold'
  BY <1>3 DEF HoldersHold
<1>6. PermitsUnsent'
  BY <1>3, <1>4 DEF PermitsUnsent
<1>7. RequestsOnRecord'
  BY <1>4 DEF RequestsOnRecord
<1>8. SendersSent'
  BY <1>2 DEF SendersSent, Idle
<1> QED BY <1>5, <1>6, <1>7, <1>8 DEF AcceptedLeft

\* A holder that has no permission yet has asked for nothing.
LEMMA RefusedKeepsCustody ==
    ASSUME PipeTypeOK, PipeTypeOK', Custody, NEW j \in Jobs, PermitRefused(j)
    PROVE  Custody'
<1> USE DEF Custody
<1>1. /\ job[j].pc = "permit" /\ job' = Ended(j)
      /\ UNCHANGED <<outbox, accepted, chat, candidate, rows>>
  BY DEF PermitRefused, MarkFailedBeforeSend, ledgerVars, draftVars, chatVars, telegramVars
<1>2. \A x \in Approvals :
         /\ x # job[j].reply.approval => status'[x] = status[x]
         /\ x = job[j].reply.approval => status'[x] = "FAILED" /\ Requests(x) = {}
  <2>1. \A x \in Approvals : x = job[j].reply.approval => Requests(x) = {}
    BY <1>1, HoldersAre DEF PermitsUnsent, PipeTypeOK
  <2> QED BY <2>1, PipelineAssumption
         DEF PermitRefused, MarkFailedBeforeSend, ledgerVars, PipeTypeOK, LedgerTypeOK
<1>3. HoldersHold' /\ PermitsUnsent' /\ RequestsOnRecord' /\ SendersSent' /\ AcceptedLeft'
  BY <1>1, <1>2, LetsGo
<1>4. SentIsTrue'
  BY <1>1, <1>2 DEF SentIsTrue, Stored, Delivered
<1> QED BY <1>3, <1>4

\* Nobody knows what became of the request: UNCERTAIN is right in either case.
LEMMA UnconfirmedKeepsCustody ==
    ASSUME PipeTypeOK, PipeTypeOK', Custody, NEW j \in Jobs, Unconfirmed(j)
    PROVE  Custody'
<1> USE DEF Custody
<1>1. /\ job[j].pc = "send" /\ job' = Ended(j)
      /\ UNCHANGED <<outbox, accepted, chat, candidate, rows>>
  BY DEF Unconfirmed, MarkUncertain, ledgerVars, draftVars, chatVars, telegramVars
<1>2. \A x \in Approvals :
         /\ x # job[j].reply.approval => status'[x] = status[x]
         /\ x = job[j].reply.approval => status'[x] = "UNCERTAIN"
  <2>1. \A x \in Approvals : x = job[j].reply.approval => status[x] = "SENDING"
    BY <1>1, HolderCalls, PipelineAssumption
  <2> QED BY <2>1, PipelineAssumption
         DEF Unconfirmed, MarkUncertain, CompareAndSet, ledgerVars, PipeTypeOK, LedgerTypeOK
<1>3. HoldersHold' /\ PermitsUnsent' /\ RequestsOnRecord' /\ SendersSent' /\ AcceptedLeft'
  BY <1>1, <1>2, LetsGo
<1>4. SentIsTrue'
  BY <1>1, <1>2 DEF SentIsTrue, Stored, Delivered
<1> QED BY <1>3, <1>4

\* What a job writes down under the id that Telegram gave is what it had asked for.
LEMMA Records ==
    ASSUME PipeTypeOK, SendersSent, SentIsTrue, NEW j \in Jobs, job[j].pc = "send",
           job[j].receipt \in accepted, job[j].reply.body \in Bodies,
           AppendOutgoing(job[j].reply.chat, job[j].receipt, job[j].reply.body),
           UNCHANGED <<outbox, accepted>>
    PROVE  /\ \A c \in Conversations, r \in Receipts : Stored(c, r) => Stored(c, r)'
           /\ rows'[job[j].reply.chat][job[j].receipt] # NoRow
           /\ \A c \in Conversations, r \in Receipts : Stored(c, r)' =>
                 r \in accepted' /\ outbox'[r].chat = c /\ outbox'[r].body = rows'[c][r].body
<1> DEFINE d == job[j].reply.chat
           m == job[j].receipt
           new == [author |-> "OWNER", body |-> job[j].reply.body, deleted |-> FALSE]
<1>1. /\ d \in Conversations /\ m \in MessageIds /\ m \in Receipts
      /\ outbox[m] = job[j].reply
      /\ rows \in [Conversations -> [MessageIds -> Row \cup {NoRow}]]
  <2>1. job[j].reply \in Replies /\ m \in Receipts
    BY JobShapes DEF PipeTypeOK
  <2> QED BY <2>1, PipelineAssumption DEF Replies, SendersSent, PipeTypeOK, LedgerTypeOK
<1>2. CASE Stored(d, m)
  BY <1>2 DEF AppendOutgoing, chatVars, Stored, SentIsTrue
<1>3. CASE ~Stored(d, m)
  <2>1. rows' = [rows EXCEPT ![d][m] = new] /\ new # NoRow /\ new.body = job[j].reply.body
    BY <1>3 DEF AppendOutgoing, NoRow
  <2>2. rows'[d][m] = new
    BY <1>1, <2>1
  <2>3. \A c \in Conversations, r \in Receipts : ~(c = d /\ r = m) => rows'[c][r] = rows[c][r]
    BY <1>1, <2>1, PipelineAssumption
  <2>4. \A c \in Conversations, r \in Receipts : Stored(c, r) => Stored(c, r)'
    BY <2>1, <2>2, <2>3 DEF Stored
  <2>5. ASSUME NEW c \in Conversations, NEW r \in Receipts, Stored(c, r)'
        PROVE  r \in accepted' /\ outbox'[r].chat = c /\ outbox'[r].body = rows'[c][r].body
    BY <1>1, <2>1, <2>2, <2>3, <2>5 DEF Stored, SentIsTrue
  <2> QED BY <2>1, <2>2, <2>4, <2>5 DEF Stored
<1> QED BY <1>2, <1>3

LEMMA ConfirmedKeepsCustody ==
    ASSUME PipeTypeOK, PipeTypeOK', Custody, NEW j \in Jobs, Confirmed(j)
    PROVE  Custody'
<1> USE DEF Custody
<1> DEFINE reply == job[j].reply
<1>1. /\ job[j].pc = "send" /\ job' = Ended(j) /\ job[j].receipt \in accepted
      /\ UNCHANGED <<outbox, accepted, chat, candidate>>
  BY DEF Confirmed, MarkSent, RecordOutgoing, OwnerSpoke, draftVars, telegramVars
<1>2. /\ reply \in Replies /\ reply.body \in Bodies /\ reply.chat \in Conversations
      /\ job[j].receipt \in Receipts /\ outbox[job[j].receipt] = reply
      /\ reply.approval # NoApproval =>
            /\ reply.approval \in Approvals
            /\ status[reply.approval] = "SENDING"
            /\ reply.body = candidate[reply.approval]
            /\ reply.chat = chat[reply.approval]
  BY <1>1, HolderCalls DEF HoldersHold, Replies, SendersSent
<1>3. /\ AppendOutgoing(reply.chat, job[j].receipt, reply.body)
      /\ \A x \in Approvals :
            /\ status[x] \in {"SENDING", "SENT", "UNCERTAIN"} /\ x # reply.approval =>
                  status'[x] = status[x]
            /\ x # reply.approval /\ status'[x] = "SENT" => status[x] = "SENT"
            /\ x = reply.approval => status'[x] = "SENT"
  <2>1. CASE reply.approval # NoApproval
    BY <1>2, <2>1 DEF Confirmed, MarkSent, CompareAndSet, PipeTypeOK, LedgerTypeOK
  <2>2. CASE reply.approval = NoApproval
    BY <1>2, <2>2, PipelineAssumption
       DEF Confirmed, RecordOutgoing, OwnerSpoke, Invalidated, PipeTypeOK, LedgerTypeOK
  <2> QED BY <2>1, <2>2
<1>4. HoldersHold' /\ PermitsUnsent' /\ RequestsOnRecord' /\ SendersSent' /\ AcceptedLeft'
  BY <1>1, <1>3, LetsGo
<1>5. /\ \A c \in Conversations, r \in Receipts : Stored(c, r) => Stored(c, r)'
      /\ rows'[reply.chat][job[j].receipt] # NoRow
      /\ \A c \in Conversations, r \in Receipts : Stored(c, r)' =>
            r \in accepted' /\ outbox'[r].chat = c /\ outbox'[r].body = rows'[c][r].body
  BY <1>1, <1>2, <1>3, Records
<1>6. ASSUME NEW a \in Approvals, status'[a] = "SENT"
      PROVE  \E r \in Delivered(a)' : Stored(chat[a], r)'
  <2>1. CASE a = reply.approval
    BY <1>1, <1>2, <1>5, <2>1, PipelineAssumption DEF Delivered, Stored
  <2>2. CASE a # reply.approval
    <3>1. PICK r \in Delivered(a) : Stored(chat[a], r)
      BY <1>3, <1>6, <2>2 DEF SentIsTrue
    <3>2. r \in Receipts /\ chat[a] \in Conversations /\ r \in Delivered(a)'
      BY <1>1, <3>1 DEF Delivered, PipeTypeOK, LedgerTypeOK
    <3> QED BY <1>1, <1>5, <3>1, <3>2 DEF Stored
  <2> QED BY <2>1, <2>2
<1>7. SentIsTrue'
  BY <1>1, <1>5, <1>6 DEF SentIsTrue, Stored
<1> QED BY <1>4, <1>7

\* A request leaves for an approval that is in nobody else's hands and for which
\* none had left, or for no approval.
LEMMA LeavesKeepsCustody ==
    ASSUME PipeTypeOK, PipeTypeOK', Custody, NEW j \in Jobs, NEW reply \in Replies,
           NEW r \in Receipts, Leaves(j, reply, r),
           UNCHANGED <<accepted, chat, candidate, rows>>,
           \A x \in Approvals : x # reply.approval => j \notin Holders(x) /\ status'[x] = status[x],
           \A x \in Approvals : x = reply.approval =>
              /\ status'[x] = "SENDING"
              /\ Requests(x) = {}
              /\ Holders(x) \subseteq {j}
              /\ reply.body = candidate[x]
              /\ reply.chat = chat[x]
    PROVE  Custody'
<1> USE DEF Custody
<1> DEFINE sending == [pc |-> "send", reply |-> reply, receipt |-> r]
<1>1. /\ job \in [Jobs -> JobStates] /\ job' \in [Jobs -> JobStates]
      /\ job' = [job EXCEPT ![j] = sending]
      /\ outbox \in [Receipts -> Replies \cup {NoReply}]
      /\ outbox[r] = NoReply /\ outbox' = [outbox EXCEPT ![r] = reply]
  BY DEF PipeTypeOK, Leaves
<1>2. reply # NoReply
  BY DEF Replies, NoReply
<1>3. job'[j] = sending /\ \A i \in Jobs : i # j => job'[i] = job[i]
  BY <1>1
<1>4. outbox'[r] = reply /\ \A q \in Receipts : q # r => outbox'[q] = outbox[q]
  BY <1>1
<1>5. ASSUME NEW a \in Approvals, NEW i \in Holders(a)'
      PROVE  \/ i = j /\ a = reply.approval
             \/ i \in Holders(a) /\ i # j /\ job'[i] = job[i] /\ a # reply.approval
  <2>1. i \in Jobs /\ job'[i].pc \in {"permit", "send"} /\ job'[i].reply.approval = a
    BY <1>1, JobShapes DEF Holders
  <2>2. CASE i = j
    BY <1>3, <2>1, <2>2
  <2>3. CASE i # j
    BY <1>1, <1>3, <2>1, <2>3, HoldersAre
  <2> QED BY <2>2, <2>3
<1>6. HoldersHold'
  BY <1>3, <1>5 DEF HoldersHold
<1>7. ASSUME NEW a \in Approvals
      PROVE  Requests(a)' = IF a = reply.approval THEN {r} ELSE Requests(a)
  <2>1. Requests(a)' \subseteq Receipts /\ Requests(a) \subseteq Receipts
    BY DEF Requests
  <2>2. CASE a = reply.approval
    BY <1>2, <1>4, <2>1, <2>2 DEF Requests
  <2>3. CASE a # reply.approval
    BY <1>1, <1>4, <2>1, <2>3 DEF Requests
  <2> QED BY <2>2, <2>3
<1>8. PermitsUnsent'
  BY <1>3, <1>5, <1>7 DEF PermitsUnsent
<1>9. RequestsOnRecord'
  <2>1. ASSUME NEW a \in Approvals, NEW q \in Requests(a)'
        PROVE  /\ status'[a] \in {"SENDING", "SENT", "UNCERTAIN"}
               /\ outbox'[q].body = candidate'[a]
               /\ outbox'[q].chat = chat'[a]
               /\ \A p \in Requests(a)' : p = q
    <3>1. CASE a = reply.approval
      BY <1>4, <1>7, <2>1, <3>1
    <3>2. CASE a # reply.approval
      <4>1. q \in Requests(a) /\ q # r /\ q \in Receipts
        BY <1>1, <1>7, <2>1, <3>2 DEF Requests
      <4> QED BY <1>4, <1>7, <3>2, <4>1 DEF RequestsOnRecord
    <3> QED BY <3>1, <3>2
  <2> QED BY <2>1 DEF RequestsOnRecord
<1>10. SendersSent'
  <2>1. ASSUME NEW i \in Jobs, i # j, job[i].pc = "send"
        PROVE  outbox'[job[i].receipt] = job[i].reply
    <3>1. job[i].receipt \in Receipts /\ job[i].reply \in Replies
      BY <1>1, <2>1, JobShapes
    <3>2. job[i].reply # NoReply /\ outbox[job[i].receipt] = job[i].reply
      BY <2>1, <3>1 DEF SendersSent, Replies, NoReply
    <3> QED BY <1>1, <1>4, <3>1, <3>2
  <2> QED BY <1>3, <1>4, <2>1 DEF SendersSent
<1>11. \A q \in accepted : q \in Receipts /\ q # r /\ outbox'[q] = outbox[q]
  BY <1>1, <1>4 DEF AcceptedLeft, PipeTypeOK
<1>12. AcceptedLeft'
  BY <1>11 DEF AcceptedLeft
<1>13. SentIsTrue'
  <2>1. \A a \in Approvals : status'[a] = "SENT" => status[a] = "SENT"
    OBVIOUS
  <2>2. \A a \in Approvals : Delivered(a)' = Delivered(a)
    BY <1>11 DEF Delivered
  <2> QED BY <1>11, <2>1, <2>2 DEF SentIsTrue, Stored
<1> QED BY <1>6, <1>8, <1>9, <1>10, <1>12, <1>13

LEMMA GrantedKeepsCustody ==
    ASSUME PipeTypeOK, PipeTypeOK', Custody, NEW j \in Jobs, NEW r \in Receipts, PermitGranted(j, r)
    PROVE  Custody'
<1> USE DEF Custody
<1>1. /\ job[j].pc = "permit" /\ Leaves(j, job[j].reply, r) /\ job[j].reply \in Replies
      /\ UNCHANGED ledgerVars /\ UNCHANGED accepted /\ job \in [Jobs -> JobStates]
  BY HolderCalls DEF PermitGranted, PipeTypeOK
<1>2. ASSUME NEW x \in Approvals, x = job[j].reply.approval
      PROVE  j \in Holders(x)
  BY <1>1, <1>2, HoldersAre
<1>3. ASSUME NEW x \in Approvals, x # job[j].reply.approval
      PROVE  j \notin Holders(x)
  BY <1>1, <1>3, HoldersAre
<1> QED BY <1>1, <1>2, <1>3, LeavesKeepsCustody
       DEF ledgerVars, chatVars, draftVars, HoldersHold, PermitsUnsent

\* An approval that can be claimed is in nobody's hands, and nothing left for it.
LEMMA ClaimableIsFree ==
    ASSUME HoldersHold, RequestsOnRecord, NEW a \in Approvals, GrantClaim(a)
    PROVE  Holders(a) = {} /\ Requests(a) = {}
  BY DEF GrantClaim, Claimable, HoldersHold, RequestsOnRecord

LEMMA ClickClaimsKeepsCustody ==
    ASSUME PipeTypeOK, PipeTypeOK', Custody, NEW j \in Jobs, NEW r \in Receipts, ClickClaims(j, r)
    PROVE  Custody'
<1> USE DEF Custody
<1> DEFINE a == job[j].approval
<1>1. /\ job[j].pc = "check" /\ a \in Approvals /\ job \in [Jobs -> JobStates]
      /\ GrantClaim(a) /\ Leaves(j, ClaimOf(a), r) /\ UNCHANGED accepted
  BY JobShapes DEF ClickClaims, PipeTypeOK
<1>2. ClaimOf(a) \in Replies /\ ClaimOf(a).approval = a
  BY <1>1, ClaimOfType
<1>3. \A x \in Approvals : j \notin Holders(x)
  BY <1>1, HoldersAre
<1>4. /\ UNCHANGED <<chat, candidate, rows>>
      /\ \A x \in Approvals : status'[x] = IF x = a THEN "SENDING" ELSE status[x]
  BY <1>1 DEF GrantClaim, chatVars, draftVars, PipeTypeOK, LedgerTypeOK
<1>5. ClaimOf(a).body = candidate[a] /\ ClaimOf(a).chat = chat[a]
  BY DEF ClaimOf
<1> QED BY <1>1, <1>2, <1>3, <1>4, <1>5, ClaimableIsFree, LeavesKeepsCustody

LEMMA WorkerClaimsKeepsCustody ==
    ASSUME PipeTypeOK, PipeTypeOK', Custody, NEW w \in Jobs, WorkerClaims(w)
    PROVE  Custody'
<1> USE DEF Custody
<1> DEFINE a == job[w].approval
           asking == [pc |-> "permit", reply |-> ClaimOf(a)]
<1>1. /\ job[w].pc = "claim" /\ a \in Approvals /\ job \in [Jobs -> JobStates]
      /\ job' \in [Jobs -> JobStates] /\ GrantClaim(a)
      /\ job' = [job EXCEPT ![w] = asking]
      /\ UNCHANGED <<outbox, accepted>>
  BY JobShapes DEF WorkerClaims, PipeTypeOK, telegramVars
<1>2. /\ ClaimOf(a).approval = a /\ ClaimOf(a).body = candidate[a] /\ ClaimOf(a).chat = chat[a]
  BY DEF ClaimOf
<1>3. /\ UNCHANGED <<chat, candidate, rows>>
      /\ \A x \in Approvals : status'[x] = IF x = a THEN "SENDING" ELSE status[x]
  BY <1>1 DEF GrantClaim, chatVars, draftVars, PipeTypeOK, LedgerTypeOK
<1>4. job'[w] = asking /\ \A i \in Jobs : i # w => job'[i] = job[i]
  BY <1>1
<1>5. Holders(a) = {} /\ Requests(a) = {}
  BY <1>1, ClaimableIsFree
<1>6. ASSUME NEW x \in Approvals, NEW i \in Holders(x)'
      PROVE  \/ i = w /\ x = a
             \/ i \in Holders(x) /\ i # w /\ job'[i] = job[i] /\ x # a
  <2>1. i \in Jobs /\ job'[i].pc \in {"permit", "send"} /\ job'[i].reply.approval = x
    BY <1>1, JobShapes DEF Holders
  <2> QED BY <1>1, <1>2, <1>4, <1>5, <2>1, HoldersAre
<1>7. HoldersHold'
  BY <1>2, <1>3, <1>4, <1>6 DEF HoldersHold
<1>8. \A x \in Approvals : Requests(x)' = Requests(x)
  BY <1>1 DEF Requests
<1>9. PermitsUnsent'
  BY <1>5, <1>6, <1>8 DEF PermitsUnsent
<1>10. RequestsOnRecord'
  BY <1>1, <1>3, <1>8 DEF RequestsOnRecord
<1>11. SendersSent'
  BY <1>1, <1>4 DEF SendersSent
<1>12. AcceptedLeft' /\ SentIsTrue'
  BY <1>1, <1>3 DEF AcceptedLeft, SentIsTrue, Stored, Delivered
<1> QED BY <1>7, <1>9, <1>10, <1>11, <1>12

LEMMA CustodyStays ==
    ASSUME PipeTypeOK, PipeTypeOK', Custody, [Next]_vars
    PROVE  Custody'
<1>1. CASE UNCHANGED vars
  BY <1>1 DEF vars, pipeVars, telegramVars, ledgerVars, chatVars, draftVars, Custody, HoldersHold,
              PermitsUnsent, RequestsOnRecord, SendersSent, AcceptedLeft, SentIsTrue, Holders,
              Requests, Delivered, Stored
<1>2. ASSUME NEW j \in Jobs, Handles(j) PROVE Custody'
  BY <1>2, WorkerClaimsKeepsCustody, ClickClaimsKeepsCustody, GrantedKeepsCustody,
     RefusedKeepsCustody, ConfirmedKeepsCustody, UnconfirmedKeepsCustody DEF Handles
<1>3. CASE Next /\ \A j \in Jobs : ~Handles(j)
  BY <1>3, NextIsAside, WorldMoves, AsideKeepsCustody
<1> QED BY <1>1, <1>2, <1>3

-----------------------------------------------------------------------------
(* The invariant.                                                          *)

LEMMA InitPipe ==
    ASSUME Init
    PROVE  PipeInv
<1>1. LedgerInv
  BY LedgerInitInv DEF Init
<1>2. Idle \in JobStates /\ \A j \in Jobs : job[j] = Idle
  BY DEF Init, JobStates
<1>3. PipeTypeOK
  BY <1>1, <1>2, PipelineAssumption DEF Init, PipeTypeOK, LedgerInv
<1>4. Freshness
  <2>1. NoEscalation /\ OverdueExists
    BY DEF Init, LedgerInit, NoEscalation, OverdueExists
  <2>2. \A j \in Jobs : job[j].pc = "idle"
    BY <1>2 DEF Idle
  <2>3. Workers \subseteq Jobs
    BY DEF Jobs
  <2> QED BY <2>1, <2>2, <2>3 DEF Freshness, OneStretch, Snapshots, ClaimsAreReady, ChecksKnow
<1>5. Custody
  <2>1. \A a \in Approvals : Holders(a) = {} /\ Requests(a) = {} /\ status[a] = "UNUSED"
    BY <1>2 DEF Holders, Requests, Idle, Init, LedgerInit
  <2>2. SendersSent /\ AcceptedLeft
    BY <1>2 DEF SendersSent, AcceptedLeft, Idle, Init
  <2>3. \A c \in Conversations, r \in Receipts : ~Stored(c, r)
    BY PipelineAssumption DEF Init, LedgerInit, Stored
  <2>4. SentIsTrue
    BY <2>1, <2>3 DEF SentIsTrue
  <2> QED BY <2>1, <2>2, <2>4 DEF Custody, HoldersHold, PermitsUnsent, RequestsOnRecord
<1> QED BY <1>1, <1>3, <1>4, <1>5 DEF PipeInv

LEMMA NextPipe ==
    ASSUME PipeInv, [Next]_vars
    PROVE  PipeInv'
<1>1. HoldersHold /\ Snapshots
  BY DEF PipeInv, Freshness, Custody
<1> QED BY <1>1, TypesStay, FreshnessStays, CustodyStays DEF PipeInv

\* Freshness and custody hold in every reachable state: whatever chats, owner,
\* Telegram and crashes do between the awaits of the jobs.
THEOREM PipelineInvariant == Spec => []PipeInv
  BY InitPipe, NextPipe, PTL DEF Spec

\* Every job is at one of its awaits with the data that await is reached with, and
\* every table keeps its types.
THEOREM PipelineTypesAreCorrect == Spec => []PipeTypeOK
  BY PipelineInvariant, PTL DEF PipeInv

\* No approved reply reaches the customer twice.
THEOREM DeliveriesAreUnique == Spec => []AtMostOnceDelivery
<1>1. PipeInv => AtMostOnceDelivery
  BY DEF PipeInv, Custody, PipeTypeOK, AcceptedLeft, RequestsOnRecord, Requests,
         AtMostOnceDelivery, Delivered
<1> QED BY <1>1, PipelineInvariant, PTL

\* What reached the customer is what the approvals table says went out, or may have.
THEOREM DeliveriesAreOnRecord == Spec => []DeliveredIsOnRecord
<1>1. PipeInv => DeliveredIsOnRecord
  BY DEF PipeInv, Custody, PipeTypeOK, AcceptedLeft, RequestsOnRecord, Requests,
         DeliveredIsOnRecord, Delivered
<1> QED BY <1>1, PipelineInvariant, PTL

\* SENT and the stored history name only what Telegram accepted.
THEOREM SentIsNeverAGuess == Spec => []SentIsTrue
  BY PipelineInvariant, PTL DEF PipeInv, Custody

\* An approval is in the hands of one job at most, and only while it is SENDING.
THEOREM ClaimsHaveOneHolder == Spec => []ClaimsAreExclusive
<1>1. PipeInv => ClaimsAreExclusive
  BY DEF PipeInv, Custody, HoldersHold, ClaimsAreExclusive
<1> QED BY <1>1, PipelineInvariant, PTL

\* The claim that follows an automatic draft in the same stretch is never refused: the
\* worker needs no branch for a refusal, and has none here.
THEOREM AutomaticClaimsAreReady == Spec => []ClaimsAreReady
  BY PipelineInvariant, PTL DEF PipeInv, Freshness

-----------------------------------------------------------------------------
(* What a step of the composition may never do.                            *)

\* Whatever the jobs do to the tables is a transaction of the ledger, called as the
\* ledger asks: a draft is bound to the chat it was written against, and a mark falls
\* on an approval that is being sent.
THEOREM JobsUseLedger == Spec => UsesLedger
<1>1. Init => LedgerInit
  BY DEF Init
<1>2. PipeInv /\ [Next]_vars => [LedgerNext]_ledgerVars
  BY StepCalls DEF PipeInv, Freshness, Custody
<1> QED BY <1>1, <1>2, PipelineInvariant, PTL DEF Spec, UsesLedger, LedgerSpec

\* So the running secretary, and not the ledger alone, keeps the contract of replies.
THEOREM SecretaryKeepsContract == Spec => ContractSpec
  BY JobsUseLedger, LedgerImplementsContract DEF UsesLedger

\* An automatic reply is claimed only while its chat is in AI_AUTO.
THEOREM AutomaticClaimsAreAllowed == Spec => AutoClaimsInAutoChat
<1>1. PipeInv /\ [Next]_vars =>
        [\A w \in Workers :
            job[w].pc = "claim" /\ job'[w].pc = "permit" => convState[w[2]] = "AI_AUTO"]_vars
  BY DEF PipeInv, Freshness, ClaimsAreReady
<1> QED BY <1>1, PipelineInvariant, PTL DEF Spec, AutoClaimsInAutoChat

LEMMA SendStarts ==
    ASSUME PipeInv, Next, NEW j \in Jobs, job[j].pc # "send", job'[j].pc = "send"
    PROVE  MayReply(job'[j].reply.conn)
<1> USE DEF PipeInv
<1>1. job'[j] # job[j]
  OBVIOUS
<1>2. PICK r \in Receipts : ClickClaims(j, r) \/ PermitGranted(j, r)
  BY <1>1, WasOrEnters, Entering
<1>3. job \in [Jobs -> JobStates]
  BY DEF PipeTypeOK
<1>4. CASE PermitGranted(j, r)
  BY <1>3, <1>4 DEF PermitGranted, Leaves
<1>5. CASE ClickClaims(j, r)
  <2> DEFINE a == job[j].approval
  <2>1. /\ job[j].pc = "check" /\ MayReply(job[j].conn) /\ Claimable(a)
        /\ job'[j].reply = ClaimOf(a)
    BY <1>3, <1>5 DEF ClickClaims, GrantClaim, Leaves
  <2>2. job[j].conn = link[chat[a]]
    BY <2>1 DEF Freshness, ChecksKnow, Claimable
  <2>3. ClaimOf(a).conn = link[chat[a]]
    BY DEF ClaimOf
  <2> QED BY <2>1, <2>2, <2>3
<1> QED BY <1>2, <1>4, <1>5

\* A request leaves only on a connection that Telegram has just confirmed, even for a
\* click whose chat moved to another connection during the question: such a chat has a
\* new revision, and its draft cannot be claimed.
THEOREM SendsAreConfirmed == Spec => SendsOnConfirmedConnection
<1>1. PipeInv /\ [Next]_vars =>
        [\A j \in Jobs :
            job[j].pc # "send" /\ job'[j].pc = "send" => MayReply(job'[j].reply.conn)]_vars
  BY SendStarts
<1> QED BY <1>1, PipelineInvariant, PTL DEF Spec, SendsOnConfirmedConnection
=============================================================================
