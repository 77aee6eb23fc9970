------------------------------- MODULE Policy -------------------------------
(***************************************************************************)
(* The pure decision of the secretary: what may be done with a customer's  *)
(* message, given the owner's global mode, the state of the conversation   *)
(* and what the model said about the message.  Translated from             *)
(* app/ai/policy.py, app/conversations/context.py and the gates that the   *)
(* workers of app/telegram/bootstrap.py put before and after it.           *)
(*                                                                         *)
(* Confidences are tenths (the code compares floats with 0.7).  The        *)
(* definitions whose comment starts with "Slip:" are faulty variants of    *)
(* the definition that follows them; no specification uses them.           *)
(***************************************************************************)
EXTENDS ConversationStates, Naturals

CONSTANT Tenths   \* the confidences the model reports

ASSUME TenthsNat == Tenths \subseteq Nat

\* The kinds of work a debounced worker does.
Kinds == {"TEXT", "MEDIA"}

Social == {"GREETING", "REQUEST_OWNER"}

\* What the classifier and the retrieval say of one message.  INTERNAL grounding
\* is has_grounding without has_public_grounding.
Signals == [intent : Social \cup {"BUSINESS"},
            risk : {"LOW", "MEDIUM", "HIGH"},
            confIntent : Tenths, confAnswer : Tenths, confPolicy : Tenths,
            grounding : {"NONE", "INTERNAL", "PUBLIC"},
            conflict : BOOLEAN]

-----------------------------------------------------------------------------
\* Slip: OBSERVE treated like APPROVAL.
EffectiveWithoutObserve(mode, state) ==
    IF mode = "OFF" THEN "PAUSED"
    ELSE IF mode # "AUTO" /\ state = "AI_AUTO" THEN "AI_APPROVAL"
    ELSE state

\* The global mode is a ceiling over the state of the conversation.
effective_state_for_global_mode(mode, state) ==
    IF mode = "OFF" THEN "PAUSED"
    ELSE IF mode = "OBSERVE" THEN "OBSERVE_ONLY"
    ELSE IF mode = "APPROVAL" /\ state = "AI_AUTO" THEN "AI_APPROVAL"
    ELSE state

Confident(x) == x.confIntent >= 7 /\ x.confAnswer >= 7 /\ x.confPolicy >= 7

\* Slip: the HIGH risk gate forgotten.
ChooseWithoutHighRisk(state, x) ==
    IF state \in {"EXCLUDED", "HUMAN_TAKEOVER", "PAUSED"} THEN "SILENT"
    ELSE IF x.grounding = "NONE" /\ x.intent \notin Social THEN "ESCALATE"
    ELSE IF x.conflict \/ ~Confident(x) \/ state = "AI_APPROVAL" \/ x.risk = "MEDIUM"
    THEN "REQUIRE_APPROVAL"
    ELSE IF state = "OBSERVE_ONLY" THEN "SILENT"
    ELSE "AUTO_REPLY"

\* ai/policy.py choose_action: an ordered list of gates.
choose_action(state, x) ==
    IF state \in {"EXCLUDED", "HUMAN_TAKEOVER", "PAUSED"} THEN "SILENT"
    ELSE IF x.risk = "HIGH" THEN "ESCALATE"
    ELSE IF x.grounding = "NONE" /\ x.intent \notin Social THEN "ESCALATE"
    ELSE IF x.conflict THEN "REQUIRE_APPROVAL"
    ELSE IF ~Confident(x) THEN "REQUIRE_APPROVAL"
    ELSE IF state = "AI_APPROVAL" \/ x.risk = "MEDIUM" THEN "REQUIRE_APPROVAL"
    ELSE IF state = "OBSERVE_ONLY" THEN "SILENT"
    ELSE IF /\ state = "AI_AUTO"
            /\ x.intent \notin Social
            /\ x.grounding = "INTERNAL"
    THEN "REQUIRE_APPROVAL"
    ELSE "AUTO_REPLY"

\* Slip: a media worker that trusts the decision like the text worker does.
DispositionAnyKind(kind, mode, state, x) ==
    LET effective == effective_state_for_global_mode(mode, state)
    IN  IF effective \in BlockedStates THEN "SILENT" ELSE choose_action(effective, x)

\* What a worker does with a message: it stops in a blocked state before it asks
\* the model, and a media worker turns every reply into a draft.
Disposition(kind, mode, state, x) ==
    LET effective == effective_state_for_global_mode(mode, state)
        action == choose_action(effective, x)
    IN  IF effective \in BlockedStates THEN "SILENT"
        ELSE IF kind = "MEDIA" /\ action = "AUTO_REPLY" THEN "REQUIRE_APPROVAL"
        ELSE action

\* The dispositions that some message can get from a worker that found the chat
\* in this effective state.
Dispositions ==
    [kind \in Kinds |-> [effective \in States |->
        {Disposition(kind, "AUTO", effective, x) : x \in Signals}]]

\* How far a message gets on its own: to the customer, to a draft, or nowhere.
Reach(action) ==
    CASE action = "AUTO_REPLY" -> 2
      [] action = "REQUIRE_APPROVAL" -> 1
      [] OTHER -> 0

-----------------------------------------------------------------------------
(* Orders of caution.                                                      *)

\* `m` is at least as strict a global mode as `n`.
ModeStricter(m, n) ==
    LET rank == [AUTO |-> 0, APPROVAL |-> 1, OBSERVE |-> 2, OFF |-> 2]
    IN  rank[m] >= rank[n]

\* `x` gives no more reason than `y` to answer without the owner.
WeakerEvidence(x, y) ==
    LET risk == [LOW |-> 0, MEDIUM |-> 1, HIGH |-> 2]
        ground == [NONE |-> 0, INTERNAL |-> 1, PUBLIC |-> 2]
    IN  /\ x.intent = y.intent
        /\ risk[x.risk] >= risk[y.risk]
        /\ x.confIntent <= y.confIntent
        /\ x.confAnswer <= y.confAnswer
        /\ x.confPolicy <= y.confPolicy
        /\ ground[x.grounding] <= ground[y.grounding]
        /\ y.conflict => x.conflict
=============================================================================
