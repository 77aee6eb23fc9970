---------------------------- MODULE FlowSessions ----------------------------
(***************************************************************************)
(* Guided flows in one conversation (app/flows/engine.py, flows/service.py *)
(* and the flow branches of telegram/bootstrap.py, interface_ui.py and     *)
(* automation_ui.py): the customer starts a published flow by a text or a  *)
(* menu button, answers its questions and may hand the chat over to the    *)
(* owner, while the owner stops the chat, gives it back, publishes         *)
(* editions and archives flows.                                            *)
(*                                                                         *)
(* A flow is a chain of steps; MESSAGE steps only lengthen the next prompt *)
(* and are left out.  A handler commits a customer's answer and then waits *)
(* for Telegram to send the next prompt; meanwhile other handlers run.     *)
(*                                                                         *)
(* The definitions whose comment starts with "Slip:" are faulty variants   *)
(* of the definition that follows them; no specification uses them.        *)
(***************************************************************************)
EXTENDS ConversationStates, Naturals, Sequences, FiniteSets

CONSTANTS
    Flows,         \* rows of `flows`
    Steps,         \* the steps of each: "TEXT" or "CHOICE", at last perhaps "HANDOFF"
    Supersedes,    \* the pairs <<edition, the flow it replaces>>
    Sessions,      \* the ids of flow sessions, in the order they are given
    Handlers,      \* slots for running handlers
    Targets        \* conversation states the owner has a button for

\* A chain ends at its handoff: the engine never gets past one.
ASSUME FlowsAssumption ==
    /\ Steps \in [Flows -> Seq({"TEXT", "CHOICE", "HANDOFF"})]
    /\ \A f \in Flows : \A k \in DOMAIN Steps[f] : Steps[f][k] = "HANDOFF" => k = Len(Steps[f])
    /\ Supersedes \subseteq Flows \X Flows
    /\ Sessions \subseteq Nat
    /\ Targets \subseteq States

VARIABLES
    state,         \* Conversation.state
    flowStatus,    \* Flow.status
    session,       \* the rows of `flow_sessions`
    keyboards,     \* sessions of which some keyboard reached the customer
    job,           \* what every handler is doing
    told,          \* sessions whose answers were sent to the owner
    stopped,       \* ghost: sessions that were active when the owner stopped the chat
    failed         \* ghost: completed sessions whose handler met an error or died

vars == <<state, flowStatus, session, keyboards, job, told, stopped, failed>>

-----------------------------------------------------------------------------
Unused == [status |-> "UNUSED"]

SessionRows ==
    {Unused} \cup [flow : Flows, step : Nat, answers : SUBSET Nat,
                   status : {"ACTIVE", "COMPLETED", "CANCELLED", "FAILED"}]

Idle == [pc |-> "idle"]

\* The turn a handler is to deliver: the session, the step it asks for (0 for a
\* closing message) and whether it ends or hands over the session.
Turns == [sid : Sessions, step : Nat, completed : BOOLEAN, handoff : BOOLEAN]

TypeOK ==
    /\ state \in States
    /\ flowStatus \in [Flows -> {"DRAFT", "PUBLISHED", "ARCHIVED"}]
    /\ session \in [Sessions -> SessionRows]
    /\ keyboards \subseteq Sessions
    /\ job \in [Handlers -> {Idle} \cup [pc : {"answer", "send", "arrived"}, turn : Turns]]
    /\ told \subseteq Sessions
    /\ stopped \subseteq Sessions
    /\ failed \subseteq Sessions

Init ==
    /\ state \in {"AI_AUTO", "AI_APPROVAL"}
    /\ flowStatus = [f \in Flows |-> "DRAFT"]
    /\ session = [s \in Sessions |-> Unused]
    /\ keyboards = {}
    /\ job = [h \in Handlers |-> Idle]
    /\ told = {}
    /\ stopped = {}
    /\ failed = {}

-----------------------------------------------------------------------------
Blocked == state \in BlockedStates

\* Slip: the session is looked up by its conversation alone.
LiveAnyStatus(s) == session[s] # Unused

\* The session active_flow_session finds.
Live(s) == session[s].status = "ACTIVE"

\* The question at step k of a session, by the definition it was started with.
QuestionOf(s) == Steps[session[s].flow][session[s].step]

\* Slip: the running session follows the edition that replaced its flow.
RowAtEdition(f, k, answers) ==
    LET editions == {g \in Flows : <<g, f>> \in Supersedes /\ flowStatus[g] = "PUBLISHED"}
        steps == IF editions = {} THEN Steps[f] ELSE Steps[CHOOSE g \in editions : TRUE]
    IN  [flow |-> f, step |-> k, answers |-> answers,
         status |-> IF k > Len(steps) \/ steps[k] = "HANDOFF" THEN "COMPLETED" ELSE "ACTIVE"]

\* Slip: a handoff gets a status of its own, which nothing reads.
RowAtHandedOver(f, k, answers) ==
    [flow |-> f, step |-> k, answers |-> answers,
     status |-> IF k > Len(Steps[f]) THEN "COMPLETED"
                ELSE IF Steps[f][k] = "HANDOFF" THEN "HANDED_OVER" ELSE "ACTIVE"]

\* _turn_for_runtime at step k of flow f: the session row and the turn it yields.
RowAt(f, k, answers) ==
    [flow |-> f, step |-> k, answers |-> answers,
     status |-> IF k > Len(Steps[f]) \/ Steps[f][k] = "HANDOFF" THEN "COMPLETED" ELSE "ACTIVE"]

TurnAt(s, f, k) ==
    LET handoff == k <= Len(Steps[f]) /\ Steps[f][k] = "HANDOFF"
        completed == handoff \/ k > Len(Steps[f])
    IN  [sid |-> s, step |-> IF completed THEN 0 ELSE k, completed |-> completed, handoff |-> handoff]

Ended(s, how) == session' = [session EXCEPT ![s].status = how]

\* Slip: the running flow is forgotten.
CancelsNothing == UNCHANGED session

\* cancel_active_flow: it ends the session that active_flow_session finds, the newest.
CancelsActive ==
    IF \E s \in Sessions : Live(s)
    THEN \E s \in Sessions :
            /\ Live(s)
            /\ \A r \in Sessions : Live(r) => r <= s
            /\ Ended(s, "CANCELLED")
    ELSE UNCHANGED session

\* _send_flow_turn until its first await, in a chat that is not stopped: a handoff
\* takes the chat over before anything is sent.
SendsTurn(h, turn) ==
    /\ job' = [job EXCEPT ![h] = [pc |-> "send", turn |-> turn]]
    /\ state' = IF turn.handoff THEN "HUMAN_TAKEOVER" ELSE state

-----------------------------------------------------------------------------
(* The owner.                                                              *)

\* set_conversation_state: a change to a state that stops automation cancels the
\* running flow, a button for the state the chat is in does nothing.
OwnerSetsState(to) ==
    /\ state # to
    /\ CanTransition(state, to)
    /\ state' = to
    /\ IF to \in BlockedStates
       THEN CancelsActive /\ stopped' = stopped \cup {s \in Sessions : Live(s)}
       ELSE UNCHANGED <<session, stopped>>
    /\ UNCHANGED <<flowStatus, keyboards, job, told, failed>>

\* publish_flow: an edition archives the flow it replaces.
PublishFlow(f) ==
    /\ flowStatus[f] # "ARCHIVED"
    /\ flowStatus' = [g \in Flows |->
                         IF <<f, g>> \in Supersedes THEN "ARCHIVED"
                         ELSE IF g = f THEN "PUBLISHED" ELSE flowStatus[g]]
    /\ UNCHANGED <<state, session, keyboards, job, told, stopped, failed>>

ArchiveFlow(f) ==
    /\ flowStatus' = [flowStatus EXCEPT ![f] = "ARCHIVED"]
    /\ UNCHANGED <<state, session, keyboards, job, told, stopped, failed>>

-----------------------------------------------------------------------------
(* The customer.                                                           *)

\* Slip: the check for a running session is left out.
MayAlwaysStart(f) == ~Blocked /\ flowStatus[f] = "PUBLISHED"

\* start_flow lets the flow begin.
MayStart(f) ==
    /\ ~Blocked
    /\ flowStatus[f] = "PUBLISHED"
    /\ \A s \in Sessions : ~Live(s)

\* The commit of start_flow: a new session at the first question.
Begins(f, s) ==
    /\ MayStart(f)
    /\ session[s] = Unused
    /\ \A r \in Sessions : r < s => session[r] # Unused
    /\ session' = [session EXCEPT ![s] = RowAt(f, 1, {})]

\* A matched text or a START_FLOW button begins the flow in a new session.
Start(h, f, s) ==
    /\ job[h] = Idle
    /\ Begins(f, s)
    /\ SendsTurn(h, TurnAt(s, f, 1))
    /\ UNCHANGED <<flowStatus, keyboards, told, stopped, failed>>

\* submit_flow_value takes an answer for the session.
Accepts(s) == Live(s) /\ ~Blocked

Submitted(s) ==
    session' = [session EXCEPT ![s] =
                   RowAt(@.flow, @.step + 1, @.answers \cup {@.step})]

NextTurn(s) == TurnAt(s, session[s].flow, session[s].step + 1)

\* A text that answers the current question: any text for TEXT, the words of an
\* option for CHOICE.  Storing it and the turn's first stretch are one step.
AnswersByText(h, s) ==
    /\ job[h] = Idle
    /\ Accepts(s)
    /\ Submitted(s)
    /\ SendsTurn(h, NextTurn(s))
    /\ UNCHANGED <<flowStatus, keyboards, told, stopped, failed>>

\* A text that is no option: the question is asked again.
AnswersWrongly(h, s) ==
    /\ job[h] = Idle
    /\ Accepts(s)
    /\ QuestionOf(s) = "CHOICE"
    /\ UNCHANGED <<flowStatus, session, keyboards, told, stopped, failed>>
    /\ SendsTurn(h, TurnAt(s, session[s].flow, session[s].step))

\* The customer writes "cancel".
CancelsByText(h, s) ==
    /\ job[h] = Idle
    /\ Accepts(s)
    /\ Ended(s, "CANCELLED")
    /\ SendsTurn(h, [sid |-> s, step |-> 0, completed |-> TRUE, handoff |-> FALSE])
    /\ UNCHANGED <<flowStatus, keyboards, told, stopped, failed>>

\* Text or a press in a chat where automation is stopped ends the session.
MeetsBlock(s) ==
    /\ Live(s)
    /\ Blocked
    /\ Ended(s, "CANCELLED")
    /\ UNCHANGED <<state, flowStatus, keyboards, job, told, stopped, failed>>

\* flow_choice_callback: a button names its session and the number of an option, so any
\* keyboard of the session answers whatever is asked now; then the callback is answered.
PressesChoice(h, s) ==
    /\ job[h] = Idle
    /\ Accepts(s)
    /\ s \in keyboards
    /\ QuestionOf(s) = "CHOICE"
    /\ Submitted(s)
    /\ job' = [job EXCEPT ![h] = [pc |-> "answer", turn |-> NextTurn(s)]]
    /\ UNCHANGED <<state, flowStatus, keyboards, told, stopped, failed>>

\* The HANDOFF button of the menu: its callback is answered first, and then the state
\* is set with no look at the old one or at the running flow.  (A text that a custom
\* intent hands over does the same, where no flow is running.)
HandsOver ==
    /\ state' = "HUMAN_TAKEOVER"
    /\ UNCHANGED <<flowStatus, session, keyboards, job, told, stopped, failed>>

-----------------------------------------------------------------------------
(* Delivering a turn (_send_flow_turn).                                    *)

\* After the callback was answered: the chat may have been stopped meanwhile.
EntersTurn(h) ==
    /\ job[h].pc = "answer"
    /\ LET turn == job[h].turn
       IN  IF Blocked /\ ~turn.handoff
           THEN /\ Ended(turn.sid, "CANCELLED")
                /\ job' = [job EXCEPT ![h] = Idle]
                /\ UNCHANGED state
           ELSE UNCHANGED session /\ SendsTurn(h, turn)
    /\ UNCHANGED <<flowStatus, keyboards, told, stopped, failed>>

\* An error while the callback is answered ends the handler: the answer was stored,
\* and nothing is sent for it.
AnswerFails(h) ==
    /\ job[h].pc = "answer"
    /\ failed' = IF job[h].turn.completed THEN failed \cup {job[h].turn.sid} ELSE failed
    /\ job' = [job EXCEPT ![h] = Idle]
    /\ UNCHANGED <<state, flowStatus, session, keyboards, told, stopped>>

\* No right to reply, or a send that failed or was not confirmed.
TurnFails(h) ==
    /\ job[h].pc \in {"send", "arrived"}
    /\ Ended(job[h].turn.sid, "FAILED")
    /\ job' = [job EXCEPT ![h] = Idle]
    /\ UNCHANGED <<state, flowStatus, keyboards, told, stopped, failed>>

\* The reply right was confirmed and Telegram accepts the prompt.
Arrives(h) ==
    /\ job[h].pc = "send"
    /\ job' = [job EXCEPT ![h].pc = "arrived"]
    /\ LET turn == job[h].turn
       IN  keyboards' = IF turn.step # 0 /\ Steps[session[turn.sid].flow][turn.step] = "CHOICE"
                        THEN keyboards \cup {turn.sid} ELSE keyboards
    /\ UNCHANGED <<state, flowStatus, session, told, stopped, failed>>

\* Slip: the owner is not told.
ConfirmedQuietly(h) ==
    /\ job[h].pc = "arrived"
    /\ job' = [job EXCEPT ![h] = Idle]
    /\ UNCHANGED <<state, flowStatus, session, keyboards, told, stopped, failed>>

\* The answer of Telegram: the prompt joins the history, and the owner gets the
\* answers of a session that ended.
Confirmed(h) ==
    /\ job[h].pc = "arrived"
    /\ told' = IF job[h].turn.completed THEN told \cup {job[h].turn.sid} ELSE told
    /\ job' = [job EXCEPT ![h] = Idle]
    /\ UNCHANGED <<state, flowStatus, session, keyboards, stopped, failed>>

\* The same, but the message to the owner fails for good.
OwnerNotReached(h) ==
    /\ job[h].pc = "arrived"
    /\ job[h].turn.completed
    /\ failed' = failed \cup {job[h].turn.sid}
    /\ job' = [job EXCEPT ![h] = Idle]
    /\ UNCHANGED <<state, flowStatus, session, keyboards, told, stopped>>

\* All handlers die.  Nothing sends again a prompt, or a message to the owner, that
\* was on its way.
Dies(completed) ==
    /\ failed' = failed \cup completed \cup
                    {job[h].turn.sid : h \in {g \in Handlers :
                        job[g] # Idle /\ job[g].turn.completed}}
    /\ job' = [h \in Handlers |-> Idle]

\* The process dies while its handlers wait.
Crash ==
    /\ Dies({})
    /\ UNCHANGED <<state, flowStatus, session, keyboards, told, stopped>>

\* It dies right after a session began or an answer was stored: a chat that the turn
\* was to hand over stays as it is.
CrashAfterCommit(s) ==
    /\ (\E f \in Flows : Begins(f, s)) \/ (Accepts(s) /\ Submitted(s))
    /\ Dies(IF session'[s].status = "COMPLETED" THEN {s} ELSE {})
    /\ UNCHANGED <<state, flowStatus, keyboards, told, stopped>>

-----------------------------------------------------------------------------
HandlerStep(h) ==
    \/ EntersTurn(h)
    \/ AnswerFails(h)
    \/ TurnFails(h)
    \/ Arrives(h)
    \/ Confirmed(h)
    \/ OwnerNotReached(h)

CustomerStep(s) ==
    \/ MeetsBlock(s)
    \/ \E h \in Handlers :
          \/ \E f \in Flows : Start(h, f, s)
          \/ AnswersByText(h, s)
          \/ AnswersWrongly(h, s)
          \/ CancelsByText(h, s)
          \/ PressesChoice(h, s)

OwnerStep ==
    \/ \E to \in Targets : OwnerSetsState(to)
    \/ \E f \in Flows : PublishFlow(f) \/ ArchiveFlow(f)

Next ==
    \/ \E h \in Handlers : HandlerStep(h)
    \/ \E s \in Sessions : CustomerStep(s)
    \/ HandsOver
    \/ OwnerStep
    \/ Crash
    \/ \E s \in Sessions : CrashAfterCommit(s)

\* asyncio resumes a handler whose await is over, and every request to Telegram ends
\* by an answer or a timeout.
Fairness == \A h \in Handlers : WF_vars(HandlerStep(h))

Spec == Init /\ [][Next]_vars

FairSpec == Spec /\ Fairness

-----------------------------------------------------------------------------
\* A conversation is in at most one flow, whichever buttons and texts race.
OneActiveSession == \A r, s \in Sessions : Live(r) /\ Live(s) => r = s

\* A session that completed answered every question of the definition it was started
\* with, also if an edition was published or the flow archived meanwhile.
CompletedIsWhole ==
    \A s \in Sessions : session[s].status = "COMPLETED" =>
        \A k \in 1..Len(Steps[session[s].flow]) :
            Steps[session[s].flow][k] \in {"TEXT", "CHOICE"} => k \in session[s].answers

\* A session that ended takes no further answer and never comes back to life,
\* whatever late handlers and old keyboards do to it, and whoever ended it: the
\* customer, a failed send, or the owner between a handler's awaits.
EndedIsEnded ==
    [][\A s \in Sessions :
          session[s].status \in {"COMPLETED", "CANCELLED", "FAILED"} =>
              /\ session'[s].status # "ACTIVE"
              /\ session'[s].answers = session[s].answers]_vars

\* No flow takes an answer or begins while the chat is stopped; and one that the owner
\* stopped takes none ever after, also when the chat was given back.
StoppedChatIsLeftAlone ==
    [][\A s \in Sessions : Blocked \/ s \in stopped =>
          \/ session'[s] = session[s]
          \/ session'[s].status \in {"CANCELLED", "FAILED"} /\
             session'[s].answers = session[s].answers]_vars

\* What a customer answered to the end reaches the owner, unless Telegram refused a
\* request of the last handler, the process died or the chat was stopped before; no
\* other handler or edition gets in between.
CompletionIsTold ==
    \A s \in Sessions :
        (session[s].status = "COMPLETED")
            ~> (s \in told \cup failed \/ session[s].status # "COMPLETED")

\* Question k was answered in session s.
HasAnswer(s, k) == session[s] # Unused /\ k \in session[s].answers

\* docs/CONSTANTS.md:50: an active flow stops at HUMAN_TAKEOVER, EXCLUDED, PAUSED and
\* OBSERVE_ONLY, whoever brought the chat there.  So what it had not asked by then is
\* never answered.
TakeoverStopsFlow ==
    \A s \in Sessions : \A k \in UNION {DOMAIN Steps[f] : f \in Flows} :
        [](Blocked /\ Live(s) /\ ~HasAnswer(s, k) => []~HasAnswer(s, k))
=============================================================================
