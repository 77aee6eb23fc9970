-------------------------- MODULE FlowSessionsProofs --------------------------
(***************************************************************************)
(* Proofs about guided flows, for any number of flows, sessions and        *)
(* handlers and flows of any length.                                       *)
(*                                                                         *)
(* The argument: a session changes in three ways only (SessionMoves): it   *)
(* begins where none is active, takes an answer while it is active, or is  *)
(* given up by the customer, the owner's stop or a late handler, which     *)
(* never makes it active.  A session has the answers to all questions      *)
(* before the one it is at (Wholly), so one that got to the end has them   *)
(* all.  The owner's stop leaves no session active, since there is one at  *)
(* most, and what has ended stays so (StoppedHaveEnded).                   *)
(***************************************************************************)
EXTENDS FlowSessions, SequenceTheorems, TLAPS

\* A session at step k has answered every step before k; it completed at the end of
\* its chain or at the handoff there.
Wholly(s) ==
    LET steps == Steps[session[s].flow]
    IN  /\ session[s].step \in 1..(Len(steps) + 1)
        /\ 1..(session[s].step - 1) \subseteq session[s].answers
        /\ session[s].status = "COMPLETED" =>
              \/ session[s].step = Len(steps) + 1
              \/ steps[session[s].step] = "HANDOFF"
        /\ session[s].status = "ACTIVE" =>
              session[s].step <= Len(steps) /\ steps[session[s].step] # "HANDOFF"

AllWholly == \A s \in Sessions : session[s] # Unused => Wholly(s)

\* A handler works for a session that exists.
JobsHaveSessions == \A h \in Handlers : job[h] # Idle => session[job[h].turn.sid] # Unused

FlowsInv ==
    /\ TypeOK
    /\ AllWholly
    /\ JobsHaveSessions
    /\ OneActiveSession

-----------------------------------------------------------------------------
(* The helpers.                                                            *)

Row == [flow : Flows, step : Nat, answers : SUBSET Nat,
        status : {"ACTIVE", "COMPLETED", "CANCELLED", "FAILED"}]

LEMMA RowsAndUnused ==
    ASSUME TypeOK, NEW s \in Sessions
    PROVE  /\ session[s] # Unused <=> session[s] \in Row
           /\ session[s] # Unused <=> session[s].status # "UNUSED"
           /\ session[s] # Unused => session[s].status \in {"ACTIVE", "COMPLETED", "CANCELLED", "FAILED"}
           /\ Live(s) => session[s] \in Row
BY DEF TypeOK, SessionRows, Unused, Row, Live

LEMMA StepsOf ==
    ASSUME NEW f \in Flows
    PROVE  /\ Steps[f] \in Seq({"TEXT", "CHOICE", "HANDOFF"})
           /\ Len(Steps[f]) \in Nat /\ DOMAIN Steps[f] = 1..Len(Steps[f])
           /\ \A k \in 1..Len(Steps[f]) :
                 /\ Steps[f][k] \in {"TEXT", "CHOICE", "HANDOFF"}
                 /\ Steps[f][k] = "HANDOFF" => k = Len(Steps[f])
<1>1. Steps[f] \in Seq({"TEXT", "CHOICE", "HANDOFF"})
  BY FlowsAssumption
<1>2. Len(Steps[f]) \in Nat /\ DOMAIN Steps[f] = 1..Len(Steps[f])
  BY <1>1, LenProperties
<1>3. \A k \in 1..Len(Steps[f]) : Steps[f][k] \in {"TEXT", "CHOICE", "HANDOFF"}
  BY <1>1, ElementOfSeq
<1> QED BY <1>1, <1>2, <1>3, FlowsAssumption

LEMMA RowAtIsRow ==
    ASSUME NEW f \in Flows, NEW k \in Nat, NEW A \in SUBSET Nat
    PROVE  /\ RowAt(f, k, A) \in Row
           /\ RowAt(f, k, A).flow = f /\ RowAt(f, k, A).step = k /\ RowAt(f, k, A).answers = A
           /\ RowAt(f, k, A).status \in {"ACTIVE", "COMPLETED"}
           /\ RowAt(f, k, A).status = "COMPLETED" <=> k > Len(Steps[f]) \/ Steps[f][k] = "HANDOFF"
BY DEF RowAt, Row

LEMMA TurnAtIsTurn ==
    ASSUME NEW s \in Sessions, NEW f, NEW k \in Nat
    PROVE  TurnAt(s, f, k) \in Turns /\ TurnAt(s, f, k).sid = s
BY DEF TurnAt, Turns

\* How the table of sessions changes.
Answered(s) == Accepts(s) /\ Submitted(s)

GivenUp(s) == session[s] # Unused /\ \E how \in {"CANCELLED", "FAILED"} : Ended(s, how)

SessionMoves ==
    \/ UNCHANGED session
    \/ \E f \in Flows, s \in Sessions : Begins(f, s)
    \/ \E s \in Sessions : Answered(s)
    \/ \E s \in Sessions : GivenUp(s)

-----------------------------------------------------------------------------
(* What each way of changing it keeps.                                     *)

LEMMA BeginsKeeps ==
    ASSUME FlowsInv, NEW f \in Flows, NEW s \in Sessions, Begins(f, s)
    PROVE  /\ session' \in [Sessions -> SessionRows]
           /\ \A r \in Sessions : session[r] # Unused => session'[r] # Unused
           /\ session'[s] # Unused
           /\ AllWholly' /\ OneActiveSession'
<1> DEFINE row == RowAt(f, 1, {})
<1>1. /\ row \in Row /\ row.flow = f /\ row.step = 1 /\ row.answers = {}
      /\ row.status \in {"ACTIVE", "COMPLETED"}
      /\ row.status = "COMPLETED" <=> 1 > Len(Steps[f]) \/ Steps[f][1] = "HANDOFF"
  BY RowAtIsRow
<1>2. session' = [session EXCEPT ![s] = row] /\ session[s] = Unused /\ \A r \in Sessions : ~Live(r)
  BY DEF Begins, MayStart
<1> HIDE DEF row
<1>3. session \in [Sessions -> SessionRows] /\ row \in SessionRows /\ row # Unused
  BY <1>1 DEF FlowsInv, TypeOK, SessionRows, Row, Unused
<1>4. session' \in [Sessions -> SessionRows] /\ session'[s] = row
      /\ \A r \in Sessions : r # s => session'[r] = session[r]
  BY <1>2, <1>3
<1>5. OneActiveSession'
  BY <1>2, <1>4 DEF OneActiveSession, Live
<1>6. Wholly(s)'
  <2>1. Len(Steps[f]) \in Nat
    BY StepsOf
  <2> QED BY <1>1, <1>4, <2>1 DEF Wholly
<1>7. AllWholly'
  BY <1>2, <1>4, <1>6 DEF FlowsInv, AllWholly, Wholly
<1> QED BY <1>3, <1>4, <1>5, <1>7

LEMMA AnsweredKeeps ==
    ASSUME FlowsInv, NEW s \in Sessions, Answered(s)
    PROVE  /\ session' \in [Sessions -> SessionRows]
           /\ \A r \in Sessions : session[r] # Unused => session'[r] # Unused
           /\ session'[s] # Unused
           /\ AllWholly' /\ OneActiveSession'
<1> DEFINE f == session[s].flow
           k == session[s].step
           A == session[s].answers
           row == RowAt(f, k + 1, A \cup {k})
<1>1. session[s] \in Row /\ session[s].status = "ACTIVE" /\ Live(s)
  BY RowsAndUnused DEF FlowsInv, Answered, Accepts, Live
<1>2. f \in Flows /\ k \in Nat /\ A \in SUBSET Nat
  BY <1>1 DEF Row
<1>3. /\ k \in 1..Len(Steps[f]) /\ Steps[f][k] # "HANDOFF" /\ 1..(k - 1) \subseteq A
  <2>1. session[s] # Unused
    BY <1>1, RowsAndUnused DEF FlowsInv
  <2>2. Wholly(s)
    BY <2>1 DEF FlowsInv, AllWholly
  <2>3. Len(Steps[f]) \in Nat
    BY <1>2, StepsOf
  <2> QED BY <1>1, <2>2, <2>3 DEF Wholly
<1>4. /\ row \in Row /\ row.flow = f /\ row.step = k + 1 /\ row.answers = A \cup {k}
      /\ row.status \in {"ACTIVE", "COMPLETED"}
      /\ row.status = "COMPLETED" <=> k + 1 > Len(Steps[f]) \/ Steps[f][k + 1] = "HANDOFF"
  <2>1. k + 1 \in Nat /\ A \cup {k} \in SUBSET Nat
    BY <1>2
  <2> QED BY <1>2, <2>1, RowAtIsRow
<1>5. session' = [session EXCEPT ![s] = row]
  <2>1. session \in [Sessions -> SessionRows]
    BY DEF FlowsInv, TypeOK
  <2> QED BY <2>1 DEF Answered, Submitted
<1> HIDE DEF row
<1>6. session \in [Sessions -> SessionRows] /\ row \in SessionRows /\ row # Unused
  BY <1>4 DEF FlowsInv, TypeOK, SessionRows, Row, Unused
<1>7. session' \in [Sessions -> SessionRows] /\ session'[s] = row
      /\ \A r \in Sessions : r # s => session'[r] = session[r]
  BY <1>5, <1>6
<1>8. OneActiveSession'
  BY <1>1, <1>7 DEF FlowsInv, OneActiveSession, Live
<1>9. Wholly(s)'
  <2>1. Len(Steps[f]) \in Nat
    BY <1>2, StepsOf
  <2>2. k + 1 \in 1..(Len(Steps[f]) + 1) /\ 1..(k + 1 - 1) \subseteq A \cup {k}
    BY <1>2, <1>3, <2>1
  <2>3. row.status = "COMPLETED" => k + 1 = Len(Steps[f]) + 1 \/ Steps[f][k + 1] = "HANDOFF"
    BY <1>2, <1>3, <1>4, <2>1
  <2>4. row.status = "ACTIVE" => k + 1 <= Len(Steps[f]) /\ Steps[f][k + 1] # "HANDOFF"
    BY <1>2, <1>4, <2>1
  <2>5. /\ session'[s].flow = f /\ session'[s].step = k + 1
        /\ session'[s].answers = A \cup {k} /\ session'[s].status = row.status
    BY <1>4, <1>7
  <2> HIDE DEF f, k, A
  <2> QED BY <1>2, <2>1, <2>2, <2>3, <2>4, <2>5 DEF Wholly
<1>10. AllWholly'
  BY <1>7, <1>9 DEF FlowsInv, AllWholly, Wholly
<1> QED BY <1>6, <1>7, <1>8, <1>10

LEMMA GivenUpKeeps ==
    ASSUME FlowsInv, NEW s \in Sessions, GivenUp(s)
    PROVE  /\ session' \in [Sessions -> SessionRows]
           /\ \A r \in Sessions : session[r] # Unused => session'[r] # Unused
           /\ AllWholly' /\ OneActiveSession'
<1>1. PICK how \in {"CANCELLED", "FAILED"} : Ended(s, how)
  BY DEF GivenUp
<1> DEFINE row == [session[s] EXCEPT !.status = how]
<1>2. session[s] \in Row /\ session[s] # Unused
  BY RowsAndUnused DEF FlowsInv, GivenUp
<1>3. /\ row \in Row /\ row.flow = session[s].flow /\ row.step = session[s].step
      /\ row.answers = session[s].answers /\ row.status = how
  BY <1>2 DEF Row
<1>4. session' = [session EXCEPT ![s] = row]
  BY <1>1 DEF Ended
<1> HIDE DEF row
<1>5. session \in [Sessions -> SessionRows] /\ row \in SessionRows /\ row # Unused
  BY <1>3 DEF FlowsInv, TypeOK, SessionRows, Row, Unused
<1>6. session' \in [Sessions -> SessionRows] /\ session'[s] = row
      /\ \A r \in Sessions : r # s => session'[r] = session[r]
  BY <1>4, <1>5
<1>7. OneActiveSession'
  BY <1>3, <1>6 DEF FlowsInv, OneActiveSession, Live
<1>8. Wholly(s)'
  BY <1>2, <1>3, <1>6 DEF FlowsInv, AllWholly, Wholly
<1>9. AllWholly'
  BY <1>6, <1>8 DEF FlowsInv, AllWholly, Wholly
<1> QED BY <1>5, <1>6, <1>7, <1>9

LEMMA MovesKeep ==
    ASSUME FlowsInv, SessionMoves
    PROVE  /\ session' \in [Sessions -> SessionRows]
           /\ \A r \in Sessions : session[r] # Unused => session'[r] # Unused
           /\ AllWholly' /\ OneActiveSession'
<1>1. CASE UNCHANGED session
  BY <1>1 DEF FlowsInv, TypeOK, AllWholly, Wholly, OneActiveSession, Live
<1> QED BY <1>1, BeginsKeeps, AnsweredKeeps, GivenUpKeeps DEF SessionMoves

-----------------------------------------------------------------------------
(* The handlers.                                                           *)

Busy == [pc : {"answer", "send", "arrived"}, turn : Turns]

\* A handler at work has a turn for a session that exists.
LEMMA BusyHandlers ==
    ASSUME FlowsInv, NEW h \in Handlers, job[h] # Idle
    PROVE  /\ job[h] \in Busy /\ job[h].turn \in Turns /\ job[h].turn.sid \in Sessions
           /\ session[job[h].turn.sid] # Unused
<1>1. job[h] \in Busy
  BY DEF FlowsInv, TypeOK, Busy
<1>2. job[h].turn \in Turns
  BY <1>1 DEF Busy
<1>3. job[h].turn.sid \in Sessions
  BY <1>2 DEF Turns
<1> QED BY <1>1, <1>2, <1>3 DEF FlowsInv, JobsHaveSessions

LEMMA IdleOrBusy ==
    ASSUME FlowsInv, NEW h \in Handlers, job[h].pc \in {"answer", "send", "arrived"}
    PROVE  job[h] # Idle
BY DEF Idle

\* A handler that begins to send a turn.
LEMMA SendsKeeps ==
    ASSUME FlowsInv, NEW h \in Handlers, NEW turn \in Turns, SendsTurn(h, turn),
           \A r \in Sessions : session[r] # Unused => session'[r] # Unused,
           session'[turn.sid] # Unused
    PROVE  /\ state' \in States
           /\ job' \in [Handlers -> {Idle} \cup Busy]
           /\ JobsHaveSessions'
<1> DEFINE new == [pc |-> "send", turn |-> turn]
<1>1. new \in Busy /\ new.turn = turn
  BY DEF Busy
<1>2. job' = [job EXCEPT ![h] = new]
  BY DEF SendsTurn
<1> HIDE DEF new
<1>3. job \in [Handlers -> {Idle} \cup Busy]
  BY DEF FlowsInv, TypeOK, Busy
<1>4. job' \in [Handlers -> {Idle} \cup Busy]
  BY <1>1, <1>2, <1>3
<1>5. ASSUME NEW g \in Handlers, job'[g] # Idle PROVE session'[job'[g].turn.sid] # Unused
  <2>1. CASE g = h
    BY <1>1, <1>2, <1>3, <2>1
  <2>2. CASE g # h
    <3>1. job'[g] = job[g]
      BY <1>2, <1>3, <2>2
    <3>2. job[g].turn.sid \in Sessions /\ session[job[g].turn.sid] # Unused
      BY <1>5, <3>1, BusyHandlers
    <3> QED BY <3>1, <3>2
  <2> QED BY <2>1, <2>2
<1>6. state' \in States
  BY DEF SendsTurn, States, FlowsInv, TypeOK
<1> QED BY <1>4, <1>5, <1>6 DEF JobsHaveSessions

\* A handler that goes on with its turn, or stops.
LEMMA GoesOn ==
    ASSUME FlowsInv, NEW h \in Handlers, NEW new,
           job' = [job EXCEPT ![h] = new],
           new = Idle \/ (job[h] # Idle /\ new \in Busy /\ new.turn = job[h].turn),
           \A r \in Sessions : session[r] # Unused => session'[r] # Unused
    PROVE  job' \in [Handlers -> {Idle} \cup Busy] /\ JobsHaveSessions'
<1>1. job \in [Handlers -> {Idle} \cup Busy]
  BY DEF FlowsInv, TypeOK, Busy
<1>2. job' \in [Handlers -> {Idle} \cup Busy]
  BY <1>1
<1>3. ASSUME NEW g \in Handlers, job'[g] # Idle PROVE session'[job'[g].turn.sid] # Unused
  <2>1. job[g] # Idle /\ job'[g].turn = job[g].turn
    BY <1>1, <1>3
  <2>2. job[g].turn.sid \in Sessions /\ session[job[g].turn.sid] # Unused
    BY <2>1, BusyHandlers
  <2> QED BY <2>1, <2>2
<1> QED BY <1>2, <1>3 DEF JobsHaveSessions

\* The handlers are left alone.
LEMMA JobsStay ==
    ASSUME FlowsInv, UNCHANGED job,
           \A r \in Sessions : session[r] # Unused => session'[r] # Unused
    PROVE  job' \in [Handlers -> {Idle} \cup Busy] /\ JobsHaveSessions'
<1>1. \A g \in Handlers : job[g] # Idle =>
         job[g].turn.sid \in Sessions /\ session[job[g].turn.sid] # Unused
  BY BusyHandlers
<1> QED BY <1>1 DEF FlowsInv, TypeOK, Busy, JobsHaveSessions

\* What is left to show of a step.
LEMMA StepKeeps ==
    ASSUME FlowsInv, SessionMoves,
           state' \in States,
           flowStatus' \in [Flows -> {"DRAFT", "PUBLISHED", "ARCHIVED"}],
           keyboards' \subseteq Sessions,
           job' \in [Handlers -> {Idle} \cup Busy], JobsHaveSessions',
           told' \subseteq Sessions, stopped' \subseteq Sessions, failed' \subseteq Sessions
    PROVE  FlowsInv'
<1>1. /\ session' \in [Sessions -> SessionRows]
      /\ AllWholly' /\ OneActiveSession'
  BY MovesKeep
<1>2. TypeOK'
  BY <1>1 DEF TypeOK, Busy
<1> QED BY <1>1, <1>2 DEF FlowsInv

-----------------------------------------------------------------------------
(* The steps.                                                              *)

\* The running session is given up, if there is one.
LEMMA CancelsMoves ==
    ASSUME FlowsInv, CancelsActive
    PROVE  /\ SessionMoves
           /\ \A s \in Sessions : Live(s) => Ended(s, "CANCELLED")
<1>1. CASE \E s \in Sessions : Live(s)
  <2>1. PICK s \in Sessions : Live(s) /\ Ended(s, "CANCELLED")
    BY <1>1 DEF CancelsActive
  <2>2. session[s] # Unused
    BY <2>1, RowsAndUnused DEF FlowsInv
  <2>3. \A r \in Sessions : Live(r) => r = s
    BY <2>1 DEF FlowsInv, OneActiveSession
  <2> QED BY <2>1, <2>2, <2>3 DEF SessionMoves, GivenUp
<1>2. CASE ~\E s \in Sessions : Live(s)
  BY <1>2 DEF CancelsActive, SessionMoves
<1> QED BY <1>1, <1>2

\* The owner's buttons and menus, and the customer's button that calls the owner.
LEMMA OwnerSteps ==
    ASSUME FlowsInv, OwnerStep \/ HandsOver
    PROVE  FlowsInv' /\ SessionMoves
<1>1. SessionMoves
  BY CancelsMoves DEF OwnerStep, OwnerSetsState, PublishFlow, ArchiveFlow, HandsOver, SessionMoves
<1>2. UNCHANGED <<keyboards, job, told, failed>>
  BY DEF OwnerStep, OwnerSetsState, PublishFlow, ArchiveFlow, HandsOver
<1>3. flowStatus' \in [Flows -> {"DRAFT", "PUBLISHED", "ARCHIVED"}]
  BY DEF OwnerStep, OwnerSetsState, PublishFlow, ArchiveFlow, HandsOver, FlowsInv, TypeOK
<1>4. state' \in States /\ stopped' \subseteq Sessions
  BY FlowsAssumption
     DEF OwnerStep, OwnerSetsState, PublishFlow, ArchiveFlow, HandsOver, States, FlowsInv, TypeOK
<1>5. job' \in [Handlers -> {Idle} \cup Busy] /\ JobsHaveSessions'
  BY <1>1, <1>2, MovesKeep, JobsStay
<1>6. keyboards' \subseteq Sessions /\ told' \subseteq Sessions /\ failed' \subseteq Sessions
  BY <1>2 DEF FlowsInv, TypeOK
<1> QED BY <1>1, <1>3, <1>4, <1>5, <1>6, StepKeeps

\* The next turn of a session that is active.
LEMMA NextTurnIsTurn ==
    ASSUME FlowsInv, NEW s \in Sessions, Live(s)
    PROVE  /\ NextTurn(s) \in Turns /\ NextTurn(s).sid = s
           /\ TurnAt(s, session[s].flow, session[s].step) \in Turns
           /\ TurnAt(s, session[s].flow, session[s].step).sid = s
           /\ session[s] # Unused
<1>1. session[s] \in Row /\ session[s] # Unused
  BY RowsAndUnused DEF FlowsInv
<1>2. session[s].step \in Nat /\ session[s].step + 1 \in Nat
  BY <1>1 DEF Row
<1> QED BY <1>1, <1>2, TurnAtIsTurn DEF NextTurn

LEMMA CustomerSteps ==
    ASSUME FlowsInv, NEW s \in Sessions, CustomerStep(s)
    PROVE  FlowsInv' /\ SessionMoves
<1>1. /\ state \in States /\ stopped \subseteq Sessions
      /\ flowStatus \in [Flows -> {"DRAFT", "PUBLISHED", "ARCHIVED"}]
      /\ keyboards \subseteq Sessions /\ told \subseteq Sessions /\ failed \subseteq Sessions
  BY DEF FlowsInv, TypeOK
<1>2. ASSUME MeetsBlock(s) PROVE FlowsInv' /\ SessionMoves
  <2>1. GivenUp(s)
    BY <1>2, RowsAndUnused DEF MeetsBlock, GivenUp, FlowsInv
  <2>2. SessionMoves
    BY <2>1 DEF SessionMoves
  <2>3. job' \in [Handlers -> {Idle} \cup Busy] /\ JobsHaveSessions'
    BY <1>2, <2>2, MovesKeep, JobsStay DEF MeetsBlock
  <2> QED BY <1>1, <1>2, <2>2, <2>3, StepKeeps DEF MeetsBlock
<1>3. ASSUME NEW h \in Handlers, NEW f \in Flows, Start(h, f, s) PROVE FlowsInv' /\ SessionMoves
  <2>1. Begins(f, s)
    BY <1>3 DEF Start
  <2>2. SessionMoves
    BY <2>1 DEF SessionMoves
  <2>3. session'[s] # Unused /\ TurnAt(s, f, 1) \in Turns /\ TurnAt(s, f, 1).sid = s
    BY <2>1, BeginsKeeps, TurnAtIsTurn
  <2>4. /\ state' \in States
        /\ job' \in [Handlers -> {Idle} \cup Busy] /\ JobsHaveSessions'
    BY <1>3, <2>2, <2>3, MovesKeep, SendsKeeps DEF Start
  <2> QED BY <1>1, <1>3, <2>2, <2>4, StepKeeps DEF Start
<1>4. ASSUME NEW h \in Handlers, AnswersByText(h, s) PROVE FlowsInv' /\ SessionMoves
  <2>1. Answered(s) /\ Live(s)
    BY <1>4 DEF AnswersByText, Answered, Accepts
  <2>2. SessionMoves
    BY <2>1 DEF SessionMoves
  <2>3. session'[s] # Unused /\ NextTurn(s) \in Turns /\ NextTurn(s).sid = s
    BY <2>1, AnsweredKeeps, NextTurnIsTurn
  <2>4. /\ state' \in States
        /\ job' \in [Handlers -> {Idle} \cup Busy] /\ JobsHaveSessions'
    BY <1>4, <2>2, <2>3, MovesKeep, SendsKeeps DEF AnswersByText
  <2> QED BY <1>1, <1>4, <2>2, <2>4, StepKeeps DEF AnswersByText
<1>5. ASSUME NEW h \in Handlers, AnswersWrongly(h, s) PROVE FlowsInv' /\ SessionMoves
  <2>1. UNCHANGED session /\ Live(s)
    BY <1>5 DEF AnswersWrongly, Accepts
  <2>2. SessionMoves
    BY <2>1 DEF SessionMoves
  <2> DEFINE turn == TurnAt(s, session[s].flow, session[s].step)
  <2>3. session'[s] # Unused /\ turn \in Turns /\ turn.sid = s
    BY <2>1, NextTurnIsTurn
  <2>4. SendsTurn(h, turn)
    BY <1>5 DEF AnswersWrongly
  <2> HIDE DEF turn
  <2>5. /\ state' \in States
        /\ job' \in [Handlers -> {Idle} \cup Busy] /\ JobsHaveSessions'
    BY <2>1, <2>3, <2>4, SendsKeeps
  <2> QED BY <1>1, <1>5, <2>2, <2>5, StepKeeps DEF AnswersWrongly
<1>6. ASSUME NEW h \in Handlers, CancelsByText(h, s) PROVE FlowsInv' /\ SessionMoves
  <2> DEFINE turn == [sid |-> s, step |-> 0, completed |-> TRUE, handoff |-> FALSE]
  <2>1. GivenUp(s)
    BY <1>6, RowsAndUnused DEF CancelsByText, Accepts, GivenUp, FlowsInv
  <2>2. SessionMoves
    BY <2>1 DEF SessionMoves
  <2>3. turn \in Turns /\ turn.sid = s
    BY DEF Turns
  <2>4. session'[s] # Unused
    BY <2>1, <2>2, MovesKeep DEF GivenUp
  <2>5. SendsTurn(h, turn)
    BY <1>6 DEF CancelsByText
  <2> HIDE DEF turn
  <2>6. /\ state' \in States
        /\ job' \in [Handlers -> {Idle} \cup Busy] /\ JobsHaveSessions'
    BY <2>2, <2>3, <2>4, <2>5, MovesKeep, SendsKeeps
  <2> QED BY <1>1, <1>6, <2>2, <2>6, StepKeeps DEF CancelsByText
<1>7. ASSUME NEW h \in Handlers, PressesChoice(h, s) PROVE FlowsInv' /\ SessionMoves
  <2> DEFINE new == [pc |-> "answer", turn |-> NextTurn(s)]
  <2>1. Answered(s) /\ Live(s)
    BY <1>7 DEF PressesChoice, Answered, Accepts
  <2>2. SessionMoves
    BY <2>1 DEF SessionMoves
  <2>3. session'[s] # Unused /\ NextTurn(s) \in Turns /\ NextTurn(s).sid = s
    BY <2>1, AnsweredKeeps, NextTurnIsTurn
  <2>4. new \in Busy /\ new.turn.sid = s
    BY <2>3 DEF Busy
  <2>5. job' = [job EXCEPT ![h] = new] /\ job \in [Handlers -> {Idle} \cup Busy]
    BY <1>7 DEF PressesChoice, FlowsInv, TypeOK, Busy
  <2> HIDE DEF new
  <2>6. job' \in [Handlers -> {Idle} \cup Busy]
    BY <2>4, <2>5
  <2>7. ASSUME NEW g \in Handlers, job'[g] # Idle PROVE session'[job'[g].turn.sid] # Unused
    <3>1. CASE g = h
      BY <2>3, <2>4, <2>5, <3>1
    <3>2. CASE g # h
      <4>1. job'[g] = job[g]
        BY <2>5, <3>2
      <4>2. job[g].turn.sid \in Sessions /\ session[job[g].turn.sid] # Unused
        BY <2>7, <4>1, BusyHandlers
      <4> QED BY <2>2, <4>1, <4>2, MovesKeep
    <3> QED BY <3>1, <3>2
  <2> QED BY <1>1, <1>7, <2>2, <2>6, <2>7, StepKeeps DEF PressesChoice, JobsHaveSessions
<1> QED BY <1>2, <1>3, <1>4, <1>5, <1>6, <1>7 DEF CustomerStep

\* A handler whose turn goes on without touching the table, or that stops.
LEMMA QuietStep ==
    ASSUME FlowsInv, NEW h \in Handlers, NEW new,
           job' = [job EXCEPT ![h] = new],
           new = Idle \/ (job[h] # Idle /\ new \in Busy /\ new.turn = job[h].turn),
           SessionMoves,
           UNCHANGED <<state, flowStatus, stopped>>,
           keyboards' \subseteq Sessions, told' \subseteq Sessions, failed' \subseteq Sessions
    PROVE  FlowsInv'
<1>1. job' \in [Handlers -> {Idle} \cup Busy] /\ JobsHaveSessions'
  BY MovesKeep, GoesOn
<1>2. /\ state' \in States /\ stopped' \subseteq Sessions
      /\ flowStatus' \in [Flows -> {"DRAFT", "PUBLISHED", "ARCHIVED"}]
  BY DEF FlowsInv, TypeOK
<1> QED BY <1>1, <1>2, StepKeeps

LEMMA HandlerSteps ==
    ASSUME FlowsInv, NEW h \in Handlers, HandlerStep(h)
    PROVE  FlowsInv' /\ SessionMoves
<1> DEFINE turn == job[h].turn
<1>1. /\ state \in States /\ stopped \subseteq Sessions
      /\ flowStatus \in [Flows -> {"DRAFT", "PUBLISHED", "ARCHIVED"}]
      /\ keyboards \subseteq Sessions /\ told \subseteq Sessions /\ failed \subseteq Sessions
  BY DEF FlowsInv, TypeOK
<1>2. job[h].pc \in {"answer", "send", "arrived"}
  BY DEF HandlerStep, EntersTurn, AnswerFails, TurnFails, Arrives, Confirmed, OwnerNotReached
<1>3. /\ job[h] # Idle /\ job[h] \in Busy /\ turn \in Turns /\ turn.sid \in Sessions
      /\ session[turn.sid] # Unused
  BY <1>2, BusyHandlers, IdleOrBusy
<1>4. CASE EntersTurn(h)
  <2>1. CASE Blocked /\ ~turn.handoff
    <3>1. /\ Ended(turn.sid, "CANCELLED") /\ job' = [job EXCEPT ![h] = Idle]
          /\ UNCHANGED <<state, flowStatus, keyboards, told, stopped, failed>>
      BY <1>4, <2>1 DEF EntersTurn
    <3>2. SessionMoves
      BY <1>3, <3>1 DEF SessionMoves, GivenUp
    <3> QED BY <1>1, <3>1, <3>2, QuietStep
  <2>2. CASE ~(Blocked /\ ~turn.handoff)
    <3>1. /\ UNCHANGED session /\ SendsTurn(h, turn)
          /\ UNCHANGED <<flowStatus, keyboards, told, stopped, failed>>
      BY <1>4, <2>2 DEF EntersTurn
    <3>2. SessionMoves
      BY <3>1 DEF SessionMoves
    <3> HIDE DEF turn
    <3>3. /\ state' \in States
          /\ job' \in [Handlers -> {Idle} \cup Busy] /\ JobsHaveSessions'
      BY <1>3, <3>1, SendsKeeps
    <3> QED BY <1>1, <3>1, <3>2, <3>3, StepKeeps
  <2> QED BY <2>1, <2>2
<1>5. CASE AnswerFails(h)
  <2>1. /\ job' = [job EXCEPT ![h] = Idle]
        /\ UNCHANGED <<state, flowStatus, session, keyboards, told, stopped>>
        /\ failed' \subseteq failed \cup {turn.sid}
    BY <1>5 DEF AnswerFails
  <2>2. SessionMoves
    BY <2>1 DEF SessionMoves
  <2> QED BY <1>1, <1>3, <2>1, <2>2, QuietStep
<1>6. CASE TurnFails(h)
  <2>1. /\ job' = [job EXCEPT ![h] = Idle] /\ Ended(turn.sid, "FAILED")
        /\ UNCHANGED <<state, flowStatus, keyboards, told, stopped, failed>>
    BY <1>6 DEF TurnFails
  <2>2. SessionMoves
    BY <1>3, <2>1 DEF SessionMoves, GivenUp
  <2> QED BY <1>1, <2>1, <2>2, QuietStep
<1>7. CASE Arrives(h)
  <2> DEFINE new == [job[h] EXCEPT !.pc = "arrived"]
  <2>1. new \in Busy /\ new.turn = turn
    BY <1>3 DEF Busy
  <2>2. /\ job' = [job EXCEPT ![h] = new]
        /\ UNCHANGED <<state, flowStatus, session, told, stopped, failed>>
        /\ keyboards' \subseteq keyboards \cup {turn.sid}
    BY <1>7 DEF Arrives
  <2>3. SessionMoves
    BY <2>2 DEF SessionMoves
  <2> HIDE DEF new
  <2> QED BY <1>1, <1>3, <2>1, <2>2, <2>3, QuietStep
<1>8. CASE Confirmed(h)
  <2>1. /\ job' = [job EXCEPT ![h] = Idle]
        /\ UNCHANGED <<state, flowStatus, session, keyboards, stopped, failed>>
        /\ told' \subseteq told \cup {turn.sid}
    BY <1>8 DEF Confirmed
  <2>2. SessionMoves
    BY <2>1 DEF SessionMoves
  <2> QED BY <1>1, <1>3, <2>1, <2>2, QuietStep
<1>9. CASE OwnerNotReached(h)
  <2>1. /\ job' = [job EXCEPT ![h] = Idle]
        /\ UNCHANGED <<state, flowStatus, session, keyboards, told, stopped>>
        /\ failed' \subseteq failed \cup {turn.sid}
    BY <1>9 DEF OwnerNotReached
  <2>2. SessionMoves
    BY <2>1 DEF SessionMoves
  <2> QED BY <1>1, <1>3, <2>1, <2>2, QuietStep
<1> QED BY <1>4, <1>5, <1>6, <1>7, <1>8, <1>9 DEF HandlerStep

\* A crash, whatever was committed last.
LEMMA DiesKeeps ==
    ASSUME FlowsInv, NEW completed \in SUBSET Sessions, Dies(completed), SessionMoves,
           UNCHANGED <<state, flowStatus, keyboards, told, stopped>>
    PROVE  FlowsInv'
<1>1. \A h \in Handlers : job[h] # Idle => job[h].turn.sid \in Sessions
  BY BusyHandlers
<1>2. failed' \subseteq Sessions
  BY <1>1 DEF Dies, FlowsInv, TypeOK
<1>3. job' \in [Handlers -> {Idle} \cup Busy] /\ JobsHaveSessions'
  BY DEF Dies, JobsHaveSessions
<1>4. /\ state' \in States /\ stopped' \subseteq Sessions
      /\ flowStatus' \in [Flows -> {"DRAFT", "PUBLISHED", "ARCHIVED"}]
      /\ keyboards' \subseteq Sessions /\ told' \subseteq Sessions
  BY DEF FlowsInv, TypeOK
<1> QED BY <1>2, <1>3, <1>4, StepKeeps

LEMMA Crashes ==
    ASSUME FlowsInv, Crash \/ \E s \in Sessions : CrashAfterCommit(s)
    PROVE  FlowsInv' /\ SessionMoves
<1>1. CASE Crash
  <2>1. SessionMoves
    BY <1>1 DEF Crash, SessionMoves
  <2> DEFINE none == {}
  <2>2. none \in SUBSET Sessions /\ Dies(none)
    BY <1>1 DEF Crash
  <2> HIDE DEF none
  <2> QED BY <1>1, <2>1, <2>2, DiesKeeps DEF Crash
<1>2. ASSUME NEW s \in Sessions, CrashAfterCommit(s) PROVE FlowsInv' /\ SessionMoves
  <2> DEFINE done == IF session'[s].status = "COMPLETED" THEN {s} ELSE {}
  <2>1. SessionMoves
    BY <1>2 DEF CrashAfterCommit, SessionMoves, Answered
  <2>2. done \in SUBSET Sessions /\ Dies(done)
    BY <1>2 DEF CrashAfterCommit
  <2>3. UNCHANGED <<state, flowStatus, keyboards, told, stopped>>
    BY <1>2 DEF CrashAfterCommit
  <2> HIDE DEF done
  <2>4. PICK completed \in SUBSET Sessions : Dies(completed)
    BY <2>2
  <2> QED BY <2>1, <2>3, <2>4, DiesKeeps
<1> QED BY <1>1, <1>2

LEMMA NextSteps ==
    ASSUME FlowsInv, Next
    PROVE  FlowsInv' /\ SessionMoves
BY OwnerSteps, CustomerSteps, HandlerSteps, Crashes DEF Next

-----------------------------------------------------------------------------
(* The theorems.                                                           *)

\* The invariant behind the ones below: every session has the answers up to where it
\* is, one is active at most, and every handler works for one that exists.
THEOREM FlowsInvariant == Spec => []FlowsInv
<1>1. Init => FlowsInv
  <2> SUFFICES ASSUME Init PROVE FlowsInv
    OBVIOUS
  <2>1. TypeOK
    BY DEF Init, TypeOK, SessionRows, States
  <2>2. \A s \in Sessions : ~Live(s)
    BY DEF Init, Live, Unused
  <2> QED BY <2>1, <2>2 DEF Init, FlowsInv, AllWholly, JobsHaveSessions, OneActiveSession
<1>2. FlowsInv /\ [Next]_vars => FlowsInv'
  <2> SUFFICES ASSUME FlowsInv, UNCHANGED vars PROVE FlowsInv'
    BY NextSteps
  <2> QED BY DEF vars, FlowsInv, TypeOK, AllWholly, Wholly, JobsHaveSessions,
                 OneActiveSession, Live
<1> QED BY <1>1, <1>2, PTL DEF Spec

\* Every state is well typed: no late handler writes a session that does not exist.
THEOREM FlowsTypes == Spec => []TypeOK
<1>1. FlowsInv => TypeOK
  BY DEF FlowsInv
<1> QED BY <1>1, FlowsInvariant, PTL

\* A conversation is in at most one flow, whichever buttons and texts race.
THEOREM AtMostOneActive == Spec => []OneActiveSession
<1>1. FlowsInv => OneActiveSession
  BY DEF FlowsInv
<1> QED BY <1>1, FlowsInvariant, PTL

\* A completed session has the answer to every question of the chain it began with,
\* however long, whatever was published or archived meanwhile.
THEOREM CompletedHasAllAnswers == Spec => []CompletedIsWhole
<1>1. FlowsInv => CompletedIsWhole
  <2> SUFFICES ASSUME FlowsInv, NEW s \in Sessions, session[s].status = "COMPLETED",
                      NEW k \in 1..Len(Steps[session[s].flow]),
                      Steps[session[s].flow][k] \in {"TEXT", "CHOICE"}
               PROVE  k \in session[s].answers
    BY DEF CompletedIsWhole
  <2> DEFINE f == session[s].flow
             step == session[s].step
  <2>1. session[s] \in Row /\ session[s] # Unused
    BY RowsAndUnused DEF FlowsInv
  <2>2. f \in Flows /\ step \in Nat
    BY <2>1 DEF Row
  <2>3. /\ step \in 1..(Len(Steps[f]) + 1) /\ 1..(step - 1) \subseteq session[s].answers
        /\ step = Len(Steps[f]) + 1 \/ Steps[f][step] = "HANDOFF"
    BY <2>1 DEF FlowsInv, AllWholly, Wholly
  <2>4. /\ Len(Steps[f]) \in Nat
        /\ \A i \in 1..Len(Steps[f]) : Steps[f][i] = "HANDOFF" => i = Len(Steps[f])
    BY <2>2, StepsOf
  <2>5. k # step
    BY <2>3, <2>4
  <2>6. k \in 1..(step - 1)
    BY <2>2, <2>3, <2>4, <2>5
  <2> QED BY <2>3, <2>6
<1> QED BY <1>1, FlowsInvariant, PTL

\* What one step does to a session.
LEMMA MovesOfOne ==
    ASSUME FlowsInv, SessionMoves, NEW s \in Sessions
    PROVE  \/ session'[s] = session[s]
           \/ session[s] = Unused /\ ~Blocked
           \/ Live(s) /\ ~Blocked
           \/ /\ session'[s].status \in {"CANCELLED", "FAILED"}
              /\ session'[s].answers = session[s].answers
<1>1. session \in [Sessions -> SessionRows]
  BY DEF FlowsInv, TypeOK
<1>2. ASSUME NEW f \in Flows, NEW r \in Sessions, Begins(f, r)
      PROVE  session'[s] = session[s] \/ (session[s] = Unused /\ ~Blocked)
  BY <1>1, <1>2 DEF Begins, MayStart
<1>3. ASSUME NEW r \in Sessions, Answered(r)
      PROVE  session'[s] = session[s] \/ (Live(s) /\ ~Blocked)
  BY <1>1, <1>3 DEF Answered, Accepts, Submitted
<1>4. ASSUME NEW r \in Sessions, GivenUp(r)
      PROVE  \/ session'[s] = session[s]
             \/ /\ session'[s].status \in {"CANCELLED", "FAILED"}
                /\ session'[s].answers = session[s].answers
  <2>1. PICK how \in {"CANCELLED", "FAILED"} : Ended(r, how)
    BY <1>4 DEF GivenUp
  <2>2. session[r] \in Row
    BY <1>4, RowsAndUnused DEF GivenUp, FlowsInv
  <2> DEFINE row == [session[r] EXCEPT !.status = how]
  <2>3. row.answers = session[r].answers /\ row.status = how
    BY <2>2 DEF Row
  <2>4. session' = [session EXCEPT ![r] = row]
    BY <2>1 DEF Ended
  <2> HIDE DEF row
  <2> QED BY <1>1, <2>3, <2>4
<1> QED BY <1>2, <1>3, <1>4 DEF SessionMoves

\* A session that ended stays ended with the answers it has.
THEOREM EndedStaysEnded == Spec => EndedIsEnded
<1>1. FlowsInv /\ [Next]_vars =>
         [\A s \in Sessions :
             session[s].status \in {"COMPLETED", "CANCELLED", "FAILED"} =>
                 /\ session'[s].status # "ACTIVE"
                 /\ session'[s].answers = session[s].answers]_vars
  <2> SUFFICES ASSUME FlowsInv, Next, NEW s \in Sessions,
                      session[s].status \in {"COMPLETED", "CANCELLED", "FAILED"}
               PROVE  session'[s].status # "ACTIVE" /\ session'[s].answers = session[s].answers
    OBVIOUS
  <2>1. session[s] # Unused /\ ~Live(s)
    BY RowsAndUnused DEF FlowsInv, Live
  <2> QED BY <2>1, NextSteps, MovesOfOne
<1> QED BY <1>1, FlowsInvariant, PTL DEF Spec, EndedIsEnded

\* What the owner stopped has ended.
StoppedHaveEnded ==
    \A s \in stopped : s \in Sessions /\ session[s] # Unused /\ ~Live(s)

\* Only the owner's stop marks sessions.
LEMMA MarksStopped ==
    ASSUME Next
    PROVE  \/ UNCHANGED stopped
           \/ CancelsActive /\ stopped' = stopped \cup {s \in Sessions : Live(s)}
<1>1. CASE \E h \in Handlers : HandlerStep(h)
  BY <1>1 DEF HandlerStep, EntersTurn, AnswerFails, TurnFails, Arrives, Confirmed, OwnerNotReached
<1>2. CASE \E s \in Sessions : CustomerStep(s)
  BY <1>2 DEF CustomerStep, MeetsBlock, Start, AnswersByText, AnswersWrongly, CancelsByText, PressesChoice
<1>3. CASE HandsOver \/ OwnerStep
  BY <1>3 DEF HandsOver, OwnerStep, OwnerSetsState, PublishFlow, ArchiveFlow
<1>4. CASE Crash \/ \E s \in Sessions : CrashAfterCommit(s)
  BY <1>4 DEF Crash, CrashAfterCommit
<1> QED BY <1>1, <1>2, <1>3, <1>4 DEF Next

\* What has ended stays so, and what was active when the owner stopped the chat ends.
LEMMA StoppedStayEnded ==
    ASSUME FlowsInv, Next, StoppedHaveEnded
    PROVE  StoppedHaveEnded'
<1>1. SessionMoves
  BY NextSteps
<1>2. ASSUME NEW s \in Sessions, session[s] # Unused, ~Live(s)
      PROVE  session'[s] # Unused /\ session'[s].status # "ACTIVE"
  BY <1>1, <1>2, MovesKeep, MovesOfOne DEF Live
<1>3. CASE UNCHANGED stopped
  BY <1>2, <1>3 DEF StoppedHaveEnded, Live
<1>4. CASE CancelsActive /\ stopped' = stopped \cup {s \in Sessions : Live(s)}
  <2>1. ASSUME NEW s \in Sessions, Live(s)
        PROVE  session'[s] # Unused /\ session'[s].status = "CANCELLED"
    <3>1. Ended(s, "CANCELLED") /\ session[s] \in Row /\ session[s] # Unused
      BY <1>4, <2>1, CancelsMoves, RowsAndUnused DEF FlowsInv
    <3>2. session \in [Sessions -> SessionRows]
      BY DEF FlowsInv, TypeOK
    <3>3. session'[s].status = "CANCELLED"
      BY <3>1, <3>2 DEF Ended, Row
    <3> QED BY <1>1, <3>1, <3>3, MovesKeep
  <2> QED BY <1>2, <1>4, <2>1 DEF StoppedHaveEnded, Live
<1> QED BY <1>3, <1>4, MarksStopped

\* While a chat is stopped no session of it begins or takes an answer, and one that the
\* owner stopped never does again.
THEOREM StoppedStaysAlone == Spec => StoppedChatIsLeftAlone
<1>1. Init => StoppedHaveEnded
  BY DEF Init, StoppedHaveEnded
<1>2. FlowsInv /\ StoppedHaveEnded /\ [Next]_vars => StoppedHaveEnded'
  <2> SUFFICES ASSUME StoppedHaveEnded, UNCHANGED vars PROVE StoppedHaveEnded'
    BY StoppedStayEnded
  <2> QED BY DEF vars, StoppedHaveEnded, Live
<1>3. FlowsInv /\ StoppedHaveEnded /\ [Next]_vars =>
         [\A s \in Sessions : Blocked \/ s \in stopped =>
             \/ session'[s] = session[s]
             \/ session'[s].status \in {"CANCELLED", "FAILED"} /\
                session'[s].answers = session[s].answers]_vars
  <2> SUFFICES ASSUME FlowsInv, StoppedHaveEnded, Next, NEW s \in Sessions,
                      Blocked \/ s \in stopped
               PROVE  \/ session'[s] = session[s]
                      \/ session'[s].status \in {"CANCELLED", "FAILED"} /\
                         session'[s].answers = session[s].answers
    OBVIOUS
  <2>1. Blocked \/ (session[s] # Unused /\ ~Live(s))
    BY DEF StoppedHaveEnded
  <2> QED BY <2>1, NextSteps, MovesOfOne
<1> QED BY <1>1, <1>2, <1>3, FlowsInvariant, PTL DEF Spec, StoppedChatIsLeftAlone
=============================================================================
