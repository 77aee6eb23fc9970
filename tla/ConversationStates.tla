-------------------------- MODULE ConversationStates --------------------------
(***************************************************************************)
(* The states of a conversation and the moves between them                 *)
(* (app/db/enums.py, app/conversations/state_machine.py).                  *)
(***************************************************************************)

Modes == {"AUTO", "APPROVAL", "OBSERVE", "OFF"}

States == {"AI_AUTO", "AI_APPROVAL", "OBSERVE_ONLY", "HUMAN_TAKEOVER",
           "ESCALATED", "PAUSED", "EXCLUDED"}

\* _AUTOMATION_BLOCKED_STATES: nothing is said on the secretary's behalf.
BlockedStates == {"HUMAN_TAKEOVER", "EXCLUDED", "PAUSED", "OBSERVE_ONLY"}

\* can_transition as the admin service calls it: explicit_unexclude is given
\* exactly when the conversation is EXCLUDED.
CanTransition(from, to) ==
    \/ from = to
    \/ from \in {"EXCLUDED", "AI_AUTO", "AI_APPROVAL"}
    \/ from \in {"OBSERVE_ONLY", "HUMAN_TAKEOVER", "PAUSED"} /\ to # "ESCALATED"
    \/ from = "ESCALATED" /\ to # "OBSERVE_ONLY"
=============================================================================
