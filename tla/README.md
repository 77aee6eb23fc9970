# A verification project for TelegramAISecretary

The secretary is a Telegram bot that speaks for its owner in the owner's private
business chats. It stores what customers write, asks a language model for a
reply, and either sends the reply at once or shows it to the owner as a draft.
What makes it correct is seldom inside one function: a model answers seconds
after it was asked, the owner presses a button hours after a draft was written,
Telegram accepts a message whose answer is lost, and meanwhile the conversation
goes on. This directory holds TLA+ modules of that behaviour, the TLC
configurations that check them on small instances, and theorems about them that
TLAPS proves for every value of the constants.

All paths below are under `app/` of the repository.

## 1. Inventory

### Components, their state and their operations

| Component | State | Operations | Correct when |
| --- | --- | --- | --- |
| Approval ledger (`approvals/service.py`, `approvals/editing.py`, `db/repositories.py`) | tables `conversations`, `messages`, `approvals` | ingest, mark edited, mark deleted, append outgoing, create, invalidate, reword, claim, mark sent / uncertain / failed, reject | one open draft per chat; a draft is claimed at most once, and only while its chat is what it was drafted against; outcomes are final and true |
| Conversation states (`conversations/state_machine.py`, `admin/service.py`) | `Conversation.state`, `Contact.is_excluded`, `Owner.default_mode` | the owner's state and mode buttons, handoffs; a stop by the owner also invalidates the draft and cancels the flow of the chat, in one transaction | a chat the owner took over, paused or excluded is not answered; exclusion is left by the owner alone |
| Reply policy (`ai/policy.py`, `conversations/context.py`) | none | `choose_action`, the ceiling of the global mode, the gates of the workers | a reply leaves without the owner only after every gate; weaker evidence or a stricter mode never gets further |
| Business updates and debounced workers (`telegram/bootstrap.py`, `telegram/debounce.py`) | the registry of pending tasks, by connection and chat | message, edit, deletion; text, photo and media workers | an answer to an old conversation is not used; newer work is not lost |
| Owner callbacks (`telegram/bootstrap.py`, `admin_ui.py`, `approval_edit_ui.py`) | the cards in the owner's chat | send, reject, reword, one-time reply, state, mode | old cards and double clicks are harmless |
| Connections (`telegram/bootstrap.py`) | `business_connections`; the link of a conversation | persist, live permission check | nothing is sent on a connection that was not just confirmed |
| Flows (`flows/engine.py`, `flows/service.py`) | flow definitions and versions, sessions | start, submit, cancel, publish, archive | one active session per chat; the owner's stop ends it for good; a session keeps the definition it started with |
| Customer menus (`interface/service.py`, `telegram/interface_ui.py`) | menu versions and items | draft, publish, tap | a button of an older version does nothing |
| Custom intents (`intents/*.py`) | intents | match a text, act on it | the action respects the state of the chat |
| Reminders (`schedules/service.py`, `schedules/runner.py`) | `schedules`; the loop's batch of claims | claim due, deliver, release | none is lost; a second delivery happens only after a failure |
| Payments (`payments/service.py`, `telegram/payment_ui.py`) | orders | create, pre-checkout, record success | one charge pays one order, once |
| Knowledge (`knowledge/*.py`, the owner's screens for it) | entries, versions, batches; the owner's dialog; analyses under way | add, edit, delete, turn the level, bulk import, undo, retrieve | an undone import leaves nothing that can be used, versions made of it included; one version of an entry is in force |
| Contact memory (`memory/*.py`, `brain/service.py`, `telegram/memory_ui.py`) | one row of memory per contact, suggestions, the consent; the owner's dialog; extractions under way | write a section, turn sharing and consent, clear, extract, approve, reject | what is stored has the source it claims; only the newest suggestion can be approved; what is cleared does not come back; everything ends |
| Feedback (`feedback/service.py`) | one rating per reply | rate | the last rating counts |
| Business brain (`brain/*.py`) | the owner's profile | edit, save | — |
| Providers (`ai/deepseek.py`, `vision/*`, `media/*`) | none | one request each | external |
| Configuration, logs, health, audit | — | — | — |

### How they interact

Everything runs in one process on one asyncio loop. Telegram's updates, the
owner's button presses and the debounced tasks are coroutines; they meet in the
database. Transactions are synchronous: no coroutine awaits inside one, so a
transaction is atomic, and so is the whole stretch of a coroutine between two
awaits, except for a crash between two of its commits. All interference happens
at the awaits: the model's answer (seconds), the permission check, the send, the
card to the owner.

Three mechanisms hold this together, and the project is about whether they do:
the **revision** of a conversation, which every writer raises and every draft is
bound to; the **claim**, a conditional update that takes a draft from PENDING to
SENDING for one sender; and **cancellation** of a chat's debounced task by its
next event, which the code calls an optimization only.

### What is hard here

* state that was read before an await and is used after it (the model's answer,
  the permission check, the connection of a chat, the global mode);
* two senders of one draft; a draft reworded while it is claimed;
* a send whose outcome is unknown: timeout, exception, crash, cancelled task;
* late buttons of old cards and old menu versions;
* handlers that write a state without looking at the one before;
* leases and redelivered updates (reminders, payments).

`PROJECT.json` lists each of these at its line as a hazard, with the properties
that would catch it.

## 2. Modules

```
ConversationStates   Policy ------- Decisions ------ DecisionsProofs
        |               |               \---- MCPolicy
        |               |
   ApprovalLedger ------+----- SendPipeline ---- MCPipeline
        |      \                    |
        |       \-- MCLedger        |
   ReplyContract (INSTANCE)         |
        |                           |
   ApprovalLedgerProofs --- SendPipelineProofs

   FlowSessions ---- MCFlows     Reminders ---- RemindersProofs
        \---- FlowSessionsProofs
   (EXTENDS ConversationStates)  MenuPayments ---- MenuPaymentsProofs
                                     \
                                 PaymentContract (INSTANCE)
   KnowledgeBase ---- KnowledgeBaseProofs
   ContactMemory ---- MCMemory
        \---- ContactMemoryProofs
```

* **ConversationStates** — the enumerations of `db/enums.py`, the blocked states
  and `can_transition`.
* **Policy** — `choose_action` with its gates in the order of the code,
  `effective_state_for_global_mode`, and what the text, photo and media workers
  make of the chosen action. Confidences are tenths.
* **Decisions** — the policy as a machine: the owner turns mode and state while
  the evidence varies. It carries the three properties of the policy.
* **ApprovalLedger** — one action per transaction that writes conversations,
  messages or approvals. `revision`, `convState`, `excluded`, `rows`, `status`,
  `chat`, `bound` and `candidate` are columns; `overdue` is the set of approvals
  whose `expires_at` has passed; `basis` is a ghost, the conversation as it was
  when the reply was drafted. A claim that is refused resolves an expired or
  stale draft in the same transaction, as the code does.
* **ReplyContract** — the abstract promise, with no revisions, expiry or status
  codes: a reply is committed at most once, only while its chat is what it was
  written against, with the text it then has, and never after it was voided.
  `ApprovalLedger!ContractSpec` is the refinement.
* **SendPipeline** — the live half. A job is a debounced worker, a running send
  callback, a routed message or a one-time reply; `job[j].pc` says at which await
  it stands and the record holds the local variables that survive the await.
  One action is one stretch between two awaits. A stretch with two commits
  (create and claim of an automatic reply; ingest and routing) is two actions,
  and `LoopFree` keeps other jobs out in between, while `Crash` may strike.
  `outbox` and `accepted` are Telegram's side: a request that left can be accepted
  now, later, or never, whatever became of its sender.

* **FlowSessions** — guided flows in one conversation. `session` holds the rows of
  `flow_sessions` (the flow, the step, which questions were answered, the
  status), `keyboards` the sessions whose choice buttons the customer has, `job`
  the handlers between the commit of an answer and the delivery of the next
  prompt. The definition a session was started with is `Steps` of its flow;
  `flowStatus` is what publishing and archiving change. A handler waits in
  `answer` (callback answer and the removal of the keyboard), `send` (reply right
  and prompt) and `arrived` (Telegram has the prompt, the bot does not know).
  The process may die while handlers wait (`Crash`) or right after the commit of a
  start or an answer (`CrashAfterCommit`): the rows stay as committed, and nothing
  makes up for the prompt, the owner's message or the handover that was to follow.
  There are three ways to stop the chat. `OwnerSetsState` cancels the running session
  (`CancelsActive`), at whatever await a handler of it is; a handoff at the end of a
  flow finds its own session completed; and the customer's HANDOFF button
  (`HandsOver`) writes the state with no look at the flow, which stays active.
  `stopped` is a ghost, the sessions that were active at a stop by the owner. A
  session left active is cancelled by the next text or press in the stopped chat
  (`MeetsBlock`).
* **Reminders** — the owner's reminders, the loop that claims and sends them, the
  lease on a claim and the retries of `ResilientOwnerBot`. `row` is enabled
  (WAITING) or not (DONE); `age` is the time since `last_run_at` in ticks, cut off
  beyond the lease.
* **MenuPayments** — the drafts and published versions of the customer menu with
  one payment button, the handler that turns a tap into an order and an invoice
  link, and Telegram's three steps of a payment: the question before
  (`PreCheckout`), the charge, the report afterwards (`Report`), which may come
  again after a crash. `purchase[q].stage` says where an attempt to pay stands.
* **PaymentContract** — the abstract promise, without menus, links, handlers, status
  codes or crashes: money is taken only for an order that was open when the payment was
  allowed, one payment pays an order, the customer is told once, and a payment is done
  with when it paid or the owner knows of it. A payment whose report was lost stays
  taken. `MenuPayments!KeepsPaymentContract` is the refinement.
* **KnowledgeBase** — what the owner teaches the secretary: `items` and `batches`
  are the tables, `dialog` the owner's FSM context (`at` is its state, the other
  fields its data), `job` the analyses of sources that the model has not answered
  yet. All screens of the owner share the one dialog; buttons of old screens work on
  it and on the table as they are when pressed. Only the analysis awaits anything
  between the reading of the dialog and its use.
* **ContactMemory** — what the secretary remembers about people. `memory` is the
  table of rows: `content` stands for the summary, the facts and the preferences,
  each entry by who wrote it (the owner, or a suggestion), and `provenance` for the
  record of sources that is stored beside them and written separately.
  `suggestions` is the table of what the model proposed, `allowed` the consents,
  `dialog` what the owner is editing, `job` the extractions that wait for the
  model. `cleared` is a ghost: the suggestions from before a contact's memory was
  cleared. `ForAI` is what a prompt is given.

In `SendPipeline`:

| `pc` | the coroutine stands at | code |
| --- | --- | --- |
| `wait` | the debounce delay | `debounce.py` `schedule` |
| `analyse` | the model's answer | `_process_text/photo/media_for_approval` |
| `claim` | (not an await) between two commits | `create_approval`, `claim_for_send` |
| `check` | the permission check of a click | `approval_callbacks` |
| `permit` | the permission check of any other sender | `_live_reply_permission` |
| `send` | the send request | `adapter.send_text` |
| `route` | (not an await) between two commits | `on_business_message`, `_route_message_to_automation` |
| `card`, `notify` | the message to the owner | `_route_message_to_automation` |

Definitions whose comment begins with "Slip:" are faulty variants of the
definition that follows them. No specification uses them; they exist to show
that each property fails when the code is wrong in that way.

## 3. What is checked

| Run | Asks | Properties |
| --- | --- | --- |
| `policy` | Is every automatic reply earned, the mode a ceiling, and the policy monotone in its evidence? | AutoIsEarned, ModeIsCeiling, EvidenceIsMonotone |
| `ledger` | Do the transactions, in any order, keep their promises and the contract? | LedgerTypeOK, OnePendingPerChat, CurrentMeansUnchanged, ContractSpec |
| `sending` | Two clicks and an automatic reply race over two drafts; rewording, revoked rights, reconnection, one crash | PipeTypeOK, AtMostOnceDelivery, DeliveredIsOnRecord, ClaimsAreExclusive |
| `drafting` | A worker, a routed message and a one-time reply against edits, deletions, media, takeovers and a mode switch | UsesLedger, AutoClaimsInAutoChat, SentIsTrue |
| `live` | Does a click that claimed a draft end with a recorded outcome, and does every request leave on a connection just confirmed? | ClickedClaimResolves, SendsOnConfirmedConnection |
| `flows` | Do flows stay whole while texts, buttons, late handlers, editions, handoffs, the owner's stops and crashes race? | TypeOK, OneActiveSession, CompletedIsWhole, EndedIsEnded, StoppedChatIsLeftAlone, CompletionIsTold |
| `reminders` | Does every reminder arrive, and how often, under losses, retries, crashes and leases? | TypeOK, RepeatsCostALoss, DoneWasReceived, OverIsOver, EveryReminderArrives |
| `payments` | Is money recorded once, delivered at most once and never swallowed, and is a published menu left alone? | TypeOK, PublishedIsFrozen, FailedIsNeverCharged, DeliveredOnce, KeepsPaymentContract, ChargedIsPaid |
| `knowledge` | Is an undone import out of reach, and is there one version in force, whatever wizards, old lists and imports overlap? | TypeOK, UndoneLeavesNothing, OneVersionInForce |
| `memory` | Is what is remembered about a person what the owner typed or approved, and does it end, whatever extractions, cards, clearings and dialogs overlap? | TypeOK, SourcesAreTrue, OnlyNewestIsOpen, EverythingEnds |
| `lost_send`, `flow_resumes` | Two statements of the documents and comments that the code does not keep | one each, violated |

`UsesLedger` is the composition: every behaviour of the pipeline, seen through
the ledger's variables, is a behaviour of `LedgerSpec`. Since `CreateApproval` of
the ledger drafts against the chat as it *is*, while a worker drafts against the
snapshot it took before it asked the model, the property says that the
two agree: no answer to an old conversation becomes a current draft. It also
carries the ledger's theorems over to the pipeline. It is checked here and proved
below (`JobsUseLedger`).

### The bounds and why they are enough

* `Conversations = {c1}`: no operation reads one chat and writes another; the
  ledger theorems below hold for any number.
* Two approvals: every claim about more than one draft is about two (a draft and
  the one that supersedes it; two open drafts). Two receipts so that a second
  delivery is possible; two clicks so that a double click is.
* Two messages: one to answer and one that interferes, before, during or after.
  `sending` uses one message and two bodies (rewording), `drafting` two messages
  and one body.
* `MaxRevision` 3 or 4 bounds only what comes from outside (`Room`): three or four
  events per chat, so that an event can fall into each await of a job. What the
  secretary does in answer is never cut off.
* `Connections = {k1, k2}` in `live`, for a chat that changes connection while a
  click waits for the first; the other pipeline runs need one.
* `MaxCrashes = 1`: a job that dies leaves only the ledger, and a second crash
  meets the same kind of state.
* Symmetry over ids where nothing distinguishes them; not in `live`, where a
  liveness property is checked.
* `Tenths = {6, 7}`: the threshold of the policy is 0.7 and nothing else compares
  confidences. The theorems hold for every set of tenths.

* `flows`: two flows, one the edition of the other, with the three kinds of steps;
  two sessions (one that ended and the next) and two handlers in flight. The
  owner's states are AI_AUTO and HUMAN_TAKEOVER: flows tell states apart only by
  whether they block.
* `reminders`: three reminders and batches of two, so that a batch is full and one
  waits; `MaxLosses = 2` bounds lost requests and crashes together, and one retry
  stands for any number. It is also the assumption behind `EveryReminderArrives`:
  Telegram does not lose every request for ever.
* `payments`: three menu versions (one archived, one in force, one draft), one order
  (no step reads one order and writes another; `MenuPaymentsProofs` is about any
  number), three attempts to pay it, one crash. A version gets one payment button.
* `knowledge`: three items, so that an import of two can be edited once, or an edit
  be edited again; two imports of the one source, so that it can be imported again
  after the first was undone; one analysis under way. The owner chooses PUBLIC or
  loses the choice (INTERNAL); PRIVATE comes from the button that turns a level.
  Sources meet only in the comparison of their hash.
* `memory`: one person, because no operation reads the rows of two, but the one dialog
  serves all (the theorems hold for any number of people); a summary and a fact, so
  that one section is replaced while another stays; two extractions, which overlap,
  and two suggestions, of which the second supersedes the first.

Deadlock is checked in every run but `payments`, which stops when all orders and
attempts are used up. In `SendPipeline` that is itself a statement:
the claim right after the creation of an automatic draft has no refusal branch
in the model, so a state in which it could be refused would stop the model there
(`AutomaticClaimsAreReady` proves that there is none).

### Fairness

`FairSpec` adds weak fairness of `JobStep(j)` for each job: asyncio resumes a
coroutine whose await is over, and every await ends by itself, because the
Telegram client and the model client have timeouts. Nothing is assumed about
the customer, the owner, Telegram's acceptance or crashes. `live` runs without
crashes: after a crash an approval stays SENDING (the code has no recovery pass;
`docs/DECISIONS.md` prefers no second delivery).

In `FlowSessions` the steps of a handler are weakly fair for the same reason. In
`Reminders` the clock, the poll, the arrival and the answer of a request are; the
loop sleeps a few seconds and polls again (`schedules/runner.py:58`), and one
process runs it (`docs/RUNBOOK.md:151`). In `MenuPayments` only the report of a
payment is: Telegram keeps it until the bot polls.

### What the code does otherwise than documented

* **`lost_send`** — an automatic reply is sent inside the debounced task. An edit,
  a deletion, an owner message or a newer message cancels that task while it
  awaits Telegram; `CancelledError` passes by `except Exception`
  (`telegram/bootstrap.py:1109`), so the approval stays SENDING for ever,
  though `docs/SECURITY.md:57` promises UNCERTAIN.
* **`flow_resumes`** — `docs/CONSTANTS.md:50` says that any active flow stops when the
  chat is taken over. The owner's buttons do that (`admin/service.py:178`). The
  HANDOFF button of the customer's menu (`telegram/interface_ui.py:815`) sets
  HUMAN_TAKEOVER and leaves the session active; the owner's takeover button then
  meets an unchanged state and cancels nothing (`admin/service.py:168`). If the
  customer writes during the takeover, the session is cancelled; if the owner gives
  the chat back before that, the flow goes on, and takes the next message as an
  answer. The property says that a question that was open in an active session of a
  stopped chat is never answered; TLC's trace goes through `HandsOver`.

Seen while modelling, listed as hazards, with no run of their own: both handoffs
assign HUMAN_TAKEOVER without looking at the state, so a customer's tap takes a
chat out of EXCLUDED (`docs/MASTER_SPEC.md:239`); the level of an import is read
again when it is confirmed, and is INTERNAL if any other screen was opened
while the model read the source, whatever the preview shows; a takeover
or a switch of the mode between the last look at the chat and the send of an
automatic reply does not stop it; an error of Telegram in the right place
loses the answers of a completed flow or the confirmation of a payment; a process
that dies between the last answer of a flow and the handover it leads to leaves the
chat automatic; the handler of a routed message ends with `debouncer.cancel(key)`
(`telegram/bootstrap.py:1606`) after long awaits, and cancels the work of a message
that came later; a consent that is withdrawn while the model reads the chat stops
neither the suggestion nor its approval (`docs/M8_MEMORY_INTELLIGENCE.md:27`),
though what is approved is not given to the model until the consent is back.

## 4. What is proved

The assumptions are the named ones on the constants (`LedgerAssumption`,
`TenthsNat`, `PipelineAssumption` and those of the other modules), which TLC evaluates in the runs.

**ApprovalLedgerProofs.** `LedgerInvariant` proves `LedgerSpec => []LedgerInv`, with

    LedgerInv = LedgerTypeOK /\ OnePendingPerChat /\ BoundsHold /\ CurrentMeansUnchanged

`CurrentMeansUnchanged` is not inductive alone: a step that raises a revision
could, for all it says, raise it *to* the bound of an old draft. `BoundsHold`
rules that out: no open draft is bound to a revision its chat has not reached.
With it, every change of a chat raises the revision past all bounds and makes the
premise false; every other step leaves chat and draft alone. The lemmas of the
module say this once, for any step that moves a chat, and the proof of each
action only shows that the action is such a step. From the invariant follow
`OneDraftPerChat`, `CurrentDraftsAreFresh`, and for steps `ClaimsAreAlwaysCurrent`
(claiming needs the invariant: equality of revisions is turned into equality of
conversations), `ResolvedStaysResolved` and `ClaimedStaysFrozen`.

`LedgerImplementsContract` proves `LedgerSpec => ContractSpec`: initial states map to
initial states, and each transaction maps to a step of the contract or a stutter. Only
the claim needs the invariant for that.

**SendPipelineProofs.** For every number of chats, messages, drafts, workers, clicks,
handlers, connections, requests and crashes `PipelineInvariant` proves
`Spec => []PipeInv`, with

    PipeInv = PipeTypeOK /\ LedgerInv /\ Freshness /\ Custody

*Freshness* is what the jobs know about the chats. `Snapshots`: what a worker took
along to the model is its chat for as long as the revision it took is the chat's.
`ChecksKnow`: the connection a click asks Telegram about is the chat's, unless the
draft cannot be claimed any more. `ClaimsAreReady`: between the creation and the claim
of an automatic reply the draft can be claimed and its chat is in AI_AUTO; nothing
disturbs this, because no other stretch runs in between (`OneStretch`) and a new draft
has no age (`OverdueExists`). The steps all use one fact, proved once
(`LedgerRevises`, `LinkMoves`): a revision never falls, and a step that leaves it alone
leaves messages, state and connection of the chat alone. `NoEscalation` is there
because a chat in ESCALATED would pass the gates of the policy like one in AI_AUTO.

*Custody* is what becomes of a claim. `HoldersHold`: an approval in the hands of a job
is SENDING, has that job alone, and the job has its text and chat. `PermitsUnsent`: a
job that waits for the permission has asked for nothing; this is why FAILED before the
send is true. `RequestsOnRecord`: at most one request ever leaves for an approval, with
its text and chat, and the row never says FAILED, stale or open afterwards.
`AtMostOnceDelivery` and `DeliveredIsOnRecord` speak of what Telegram accepted and are
not inductive: a request can be accepted long after its sender is gone, so the
invariant has to bound the requests that left. `SendersSent` connects the receipt a job
is given with what it had asked for, which is what `SentIsTrue` needs when the answer
comes. Every step is either one of the six that handle a claim (`Handles`), with a
lemma each, or leaves claims, requests and receipts alone (`NextIsAside`).

From the invariant follow `PipelineTypesAreCorrect`, `DeliveriesAreUnique`,
`DeliveriesAreOnRecord`, `SentIsNeverAGuess`, `ClaimsHaveOneHolder` and
`AutomaticClaimsAreReady`; for steps `AutomaticClaimsAreAllowed` and
`SendsAreConfirmed`; and `JobsUseLedger`, the refinement `Spec => UsesLedger`, which
with `LedgerImplementsContract` gives `SecretaryKeepsContract`: the running secretary,
not the ledger alone, keeps the contract of replies.

`PipelineAssumption` asks two things that the code gives: an approval's key is never
the None that stands for a reply without an approval, and the owner has no button that
sets ESCALATED (`telegram/admin_ui.py`).

**DecisionsProofs.** `AutoIsAlwaysEarned`, `ModeIsAlwaysCeiling` and
`EvidenceIsAlwaysMonotone`, for every set of confidences.

**RemindersProofs.** For every number of reminders, batch size, lease, number of
retries and bound on losses. `RepetitionsAreBounded`, `DoneMeansReceived` and
`OverStaysOver` rest on

    RemindersInv = TypeOK /\ SendsWhileClaimed /\ ClaimsOpen /\ AbsentUnreceived
                   /\ ArrivedReceived /\ DoneWasReceived /\ Paid

`received[r] <= 1 + losses` is not inductive: the next arrival would break it
without a loss. `Paid` is its strengthening: while a reminder is outstanding, the
owner has it at most `losses` times, and only the try whose message has arrived, or
a reminder that is over, may be one ahead. An arrival uses up that one; a
confirmation is allowed to forget it because it takes the reminder out of the batch
and switches the row off; anything else that sends again is a loss and pays for it.
`ClaimsOpen` (no claim is on a row that was switched off) makes `OverStaysOver` a
fact about single steps. `Least` shows that the reminder the loop takes first, a
`CHOOSE` in the model, is one of its batch.

**ContactMemoryProofs.** For every number of people, keys, extractions and
suggestions `MemoryInvariant` proves `Spec => []MemoryInv`, with

    MemoryInv = TypeOK /\ SourcesAreTrue /\ OnlyNewestIsOpen /\ FilledRowsEnd

`SourcesAreTrue` is kept because suggestions only ever gain a final status and rows
of the table keep their place: an entry of an approved suggestion stays true until
its contact is cleared, and then it is gone. `OnlyNewestIsOpen` is what makes an
approval after a clearing impossible, and with it the only step that could write an
entry of a cleared suggestion. `EverythingEnds` speaks of what the model is given;
inductive is `FilledRowsEnd`, which speaks of the row whether it is shared or not,
because sharing and consent may come later than the content. The theorems are
`MemoryTypes`, `SourcesAreAlwaysTrue`, `OneOpenSuggestion`, `NothingIsKeptForEver`.

**KnowledgeBaseProofs.** For every number of items, imports, sources and analyses
`KnowledgeInvariant` proves `Spec => []KnowledgeInv`, with

    KnowledgeInv = TypeOK /\ RowsReferToRows /\ VersionsStayTogether
                   /\ ActiveImports /\ OneVersionInForce

`UndoneLeavesNothing` follows through versions of any depth, but the undo looks at one
column only: the import an item names. `VersionsStayTogether` (a version names the
import of the item it replaces) is why that is enough, `ActiveImports` (what is in
force names no undone import) is what the undo establishes and no later edit breaks,
and `RowsReferToRows` keeps both about rows that exist.

**FlowSessionsProofs.** For every number of flows, sessions and handlers, and flows of
any length, `FlowsInvariant` proves `Spec => []FlowsInv`, with

    FlowsInv = TypeOK /\ AllWholly /\ JobsHaveSessions /\ OneActiveSession

`CompletedIsWhole` says nothing of a session before its last answer and so is not
inductive. `AllWholly` is: a session at step k has the answers to all steps before k,
and is active only at a question. `SessionMoves` lists the four ways in which a step
changes a session (it stays, begins where none is active, takes an answer while
active, or is given up: by the customer, by the owner's stop, by a late or failed
handler). That the owner's stop is such a step needs `OneActiveSession`: it cancels
the newest active session, so none is left (`CancelsMoves`). `EndedStaysEnded`
follows from the list. `StoppedStaysAlone` needs one more invariant,
`StoppedHaveEnded`: what the owner stopped has ended, so it is not resumed when the
chat is given back. `FlowsAssumption` lets a chain end at its handoff, because the
engine never gets past a HANDOFF step.

**MenuPaymentsProofs.** For every number of menus, taps, orders, attempts and crashes
`PaymentInvariant` proves `Spec => []PaymentInv`, with

    PaymentInv = TypeOK /\ OrdersExist /\ SeenIsPublished /\ ApprovedIsHeld
                 /\ RecordedHasCharge /\ SettledHasCharge /\ DeliveredOnce

`ApprovedIsHeld` makes `FailedIsNeverCharged` a fact: an order that passed the question
before the charge can no longer become FAILED, though it may expire while the customer
pays. `RecordedHasCharge` ties the attempt that is recorded, and only that one, to the
charge of its order, with nothing delivered yet; so the success message that follows is
the first. `SeenIsPublished` (a keyboard in a customer's hands is of a published menu with a
payment button) gives every tap on an old keyboard a price. `PublishedStaysFrozen` needs
the types alone: each screen that ends late looks at the scope of its menu again.
`OrderKeeps` says once what no step does to an order.

`BotKeepsPaymentContract` proves `Spec => KeepsPaymentContract`: read through
`AccountsNow`, `MoneyNow` and `Credited`, every step is one of `PaymentContract` or
changes nothing. A crash changes nothing, because a report that is handled again finds
its order paid by the same charge. The step needs two facts more than `PaymentInv`:
`ChargesAreReal` (a paid order names an attempt to pay it, so no new attempt is born
credited) and `UnmatchedPaysNothing` (what the owner hears of as unmatched did not
pay). `NoMoneyIsSwallowed` is the part of the contract that holds of single states.

Only model-checked is liveness (`EveryReminderArrives`, `ChargedIsPaid`,
`CompletionIsTold` and `ClickedClaimResolves`), which is out of the prover's reach;
every other property of a passing run is a theorem.

## 5. Simplifications and what is not modelled

* One owner. The enabled flag of a connection and updates redelivered under a new
  connection are not modelled.
* In the pipeline one update deletes one message; in `ledger` it deletes a set.
* Cards that workers show to the owner change nothing in the model.
* Telegram accepts a message when the connection it goes to is the active one and
  has the reply right (`MayReply`); this is the only thing the model knows of it.
* ESCALATED is left out of `Decisions`: no handler and no button sets it.
* `mark_sent` and its relatives do not check the status they find; the ledger
  calls them for approvals that are being sent, which `UsesLedger` discharges.
* `FlowSessions` is one conversation and one person in it. MESSAGE steps, which only
  lengthen a prompt, and the question types a text cannot get wrong differently are
  left out. The step it stores and the answers are committed before anything is sent.
* In `Reminders` a request is accepted while it is under way or never; in
  `MenuPayments` amounts and currencies are Telegram's copy of the invoice and so
  agree with the order, and the check of the payer is the part that can fail.
  The database does not fail.
* `KnowledgeBase` leaves out how matches are ranked, duplicates inside a source, dates
  of validity, and the wizards of other tables, which appear as screens that clear
  the dialog. The dialog is kept in memory (aiogram's default storage), so reading
  it never suspends a handler, and a crash loses it. Title and content of a new item
  are one message.
* `ContactMemory` treats a contact without a row like one with an empty row. What
  `memory/privacy.py` removes from a proposal is a free choice of its keys, the
  numbers of confidence are written together with the sources and left out, the
  export only reads, and a private note is read by nobody but the owner.
* Feedback is one rating per reply, overwritten by the next press; nothing else
  reads it but a screen.
* `Contact.is_excluded` and `ai_allowed` are stored and never read by the pipeline.
* Wording, prompts, parsing of model output, lists, help texts and audit rows
  are left out. Not modelled at all: providers, the business brain,
  configuration, observability.

## 6. Plan

Done: 1 ConversationStates, Policy, Decisions; 2 ApprovalLedger and ReplyContract;
3 SendPipeline; 4 the proofs about 1 and 2; 5 FlowSessions; 6 Reminders;
7 MenuPayments; 8 the proofs about 6; 9 KnowledgeBase; 10 ContactMemory; 11 the
proofs about 5, 7, 9 and 10; 12 crashes in FlowSessions, the proofs about 3,
PaymentContract and its refinement.

Next, in this order:

13. **Wizards and versions**: the owner's screens that write flows, intents, response
    policies and menus (`automation_ui.py`, `policy_manage_ui.py`, `interface_ui.py`),
    whose state lives in the shared dialog while other screens change the rows.
14. The composition of `FlowSessions` with `SendPipeline`: a takeover by a flow's
    handoff, an edit of an answer that schedules the model.
