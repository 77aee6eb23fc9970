----------------------------- MODULE Decisions -----------------------------
(***************************************************************************)
(* Every situation a message can meet: the owner turns the global mode and *)
(* the state of the conversation, and the evidence about the message       *)
(* varies.  ESCALATED is left out: no handler and no button sets it.       *)
(***************************************************************************)
EXTENDS Policy

VARIABLES kind, mode, state, x

vars == <<kind, mode, state, x>>

ReachableStates == States \ {"ESCALATED"}

Init ==
    /\ kind \in Kinds
    /\ mode \in Modes
    /\ state \in ReachableStates
    /\ x \in Signals

OwnerSetsMode == mode' \in Modes /\ UNCHANGED <<kind, state, x>>

OwnerSetsState ==
    /\ \E s \in ReachableStates : CanTransition(state, s) /\ state' = s
    /\ UNCHANGED <<kind, mode, x>>

Next == OwnerSetsMode \/ OwnerSetsState

Spec == Init /\ [][Next]_vars

Now == Disposition(kind, mode, state, x)

-----------------------------------------------------------------------------
\* A reply leaves without the owner only for a text message, in a conversation
\* and under a global mode that both say AUTO, at LOW risk, with no confidence
\* under 0.7, without conflicting knowledge, and, unless the message is a
\* greeting or asks for the owner, on PUBLIC knowledge.
AutoIsEarned ==
    Now = "AUTO_REPLY" =>
        /\ kind = "TEXT"
        /\ mode = "AUTO"
        /\ state = "AI_AUTO"
        /\ x.risk = "LOW"
        /\ Confident(x)
        /\ ~x.conflict
        /\ x.intent \in Social \/ x.grounding = "PUBLIC"

\* The global mode is a ceiling: under a stricter mode the same message never
\* gets further, and OFF and OBSERVE suppress every reply and every draft.
ModeIsCeiling ==
    /\ \A m \in Modes :
          ModeStricter(m, mode) => Reach(Disposition(kind, m, state, x)) <= Reach(Now)
    /\ mode \in {"OFF", "OBSERVE"} => Reach(Now) = 0

\* Weaker evidence never gets a message further: the order of choose_action's
\* gates leaves no combination in which more risk, less confidence, less or more
\* contradictory knowledge turns a draft into a reply or silence into a draft.
EvidenceIsMonotone ==
    \A y \in Signals :
        WeakerEvidence(y, x) => Reach(Disposition(kind, mode, state, y)) <= Reach(Now)
=============================================================================
