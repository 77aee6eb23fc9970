-------------------------- MODULE DecisionsProofs --------------------------
(***************************************************************************)
(* Proofs about the policy, for every set of confidences.  Nothing changes *)
(* but the situation, so each property holds of the decision itself, in    *)
(* every well-typed situation; the proofs read choose_action gate by gate. *)
(***************************************************************************)
EXTENDS Decisions, TLAPS

SituationOK ==
    /\ kind \in Kinds
    /\ mode \in Modes
    /\ state \in ReachableStates
    /\ x \in Signals

LEMMA SituationsAreTyped == Spec => []SituationOK
<1>1. Init => SituationOK
  BY DEF Init, SituationOK
<1>2. SituationOK /\ [Next]_vars => SituationOK'
  BY DEF SituationOK, Next, OwnerSetsMode, OwnerSetsState, vars
<1> QED
  BY <1>1, <1>2, PTL DEF Spec

\* effective_state_for_global_mode is one of the states, and AI_AUTO only if both say so.
LEMMA EffectiveState ==
    ASSUME NEW m \in Modes, NEW s \in ReachableStates
    PROVE  /\ effective_state_for_global_mode(m, s) \in ReachableStates
           /\ effective_state_for_global_mode(m, s) = "AI_AUTO" => m = "AUTO" /\ s = "AI_AUTO"
           /\ m \in {"OFF", "OBSERVE"} => effective_state_for_global_mode(m, s) \in BlockedStates
  BY DEF effective_state_for_global_mode, Modes, ReachableStates, States, BlockedStates

\* The last gate of choose_action lets only earned replies through.
LEMMA AutoGates ==
    ASSUME NEW s \in ReachableStates \ BlockedStates, NEW y \in Signals,
           choose_action(s, y) = "AUTO_REPLY"
    PROVE  /\ s = "AI_AUTO"
           /\ y.risk = "LOW"
           /\ Confident(y)
           /\ ~y.conflict
           /\ y.intent \in Social \/ y.grounding = "PUBLIC"
  BY DEF choose_action, ReachableStates, States, BlockedStates, Signals, Social

\* A reply leaves without the owner only where every gate was passed.
THEOREM AutoIsAlwaysEarned == Spec => []AutoIsEarned
<1>1. SituationOK => AutoIsEarned
  BY EffectiveState, AutoGates
     DEF SituationOK, AutoIsEarned, Now, Disposition, Kinds
<1> QED
  BY <1>1, SituationsAreTyped, PTL

LEMMA ReachValues ==
    /\ Reach("AUTO_REPLY") = 2
    /\ Reach("REQUIRE_APPROVAL") = 1
    /\ Reach("SILENT") = 0
    /\ Reach("ESCALATE") = 0
  BY DEF Reach

\* In the two states that answer at all, AI_APPROVAL answers less.
LEMMA ApprovalStateIsStricter ==
    ASSUME NEW y \in Signals
    PROVE  /\ choose_action("AI_APPROVAL", y) \in {"ESCALATE", "REQUIRE_APPROVAL"}
           /\ choose_action("AI_AUTO", y) = "ESCALATE" => choose_action("AI_APPROVAL", y) = "ESCALATE"
           /\ choose_action("AI_AUTO", y) \in {"ESCALATE", "REQUIRE_APPROVAL", "AUTO_REPLY"}
  BY DEF choose_action, Signals, Social

\* A stricter global mode never lets a message get further.
THEOREM ModeIsAlwaysCeiling == Spec => []ModeIsCeiling
<1>1. ASSUME SituationOK, NEW m \in Modes, ModeStricter(m, mode)
      PROVE  Reach(Disposition(kind, m, state, x)) <= Reach(Now)
  <2>1. CASE m = mode
    <3>1. Reach(Now) \in Nat
      BY DEF Reach
    <3> QED
      BY <2>1, <3>1 DEF Now
  <2>2. CASE m \in {"OFF", "OBSERVE"}
    <3>1. Disposition(kind, m, state, x) = "SILENT"
      BY <1>1, <2>2, EffectiveState DEF Disposition, SituationOK
    <3>2. Reach(Now) \in Nat
      BY DEF Reach
    <3> QED
      BY <3>1, <3>2, ReachValues
  <2>3. CASE m = "APPROVAL" /\ mode = "AUTO"
    <3>1. CASE state = "AI_AUTO"
      BY <1>1, <2>3, <3>1, ApprovalStateIsStricter, ReachValues
         DEF SituationOK, Now, Disposition, effective_state_for_global_mode, BlockedStates, Kinds
    <3>2. CASE state # "AI_AUTO"
      <4>1. Disposition(kind, m, state, x) = Now
        BY <2>3, <3>2 DEF Now, Disposition, effective_state_for_global_mode
      <4>2. Reach(Now) \in Nat
        BY DEF Reach
      <4> QED
        BY <4>1, <4>2
    <3> QED
      BY <3>1, <3>2
  <2> QED
    BY <1>1, <2>1, <2>2, <2>3 DEF Modes, ModeStricter, SituationOK
<1>2. ASSUME SituationOK, mode \in {"OFF", "OBSERVE"}
      PROVE  Reach(Now) = 0
  BY <1>2, EffectiveState, ReachValues DEF SituationOK, Now, Disposition
<1>3. SituationOK => ModeIsCeiling
  BY <1>1, <1>2 DEF ModeIsCeiling
<1> QED
  BY <1>3, SituationsAreTyped, PTL

\* Weaker evidence passes no gate that stronger evidence does not pass.
LEMMA ActionIsMonotone ==
    ASSUME NEW s \in ReachableStates, NEW y \in Signals, NEW z \in Signals,
           WeakerEvidence(y, z)
    PROVE  /\ choose_action(s, y) = "AUTO_REPLY" => choose_action(s, z) = "AUTO_REPLY"
           /\ s \notin BlockedStates /\ choose_action(s, y) = "REQUIRE_APPROVAL" =>
                  choose_action(s, z) \in {"REQUIRE_APPROVAL", "AUTO_REPLY"}
<1>1. /\ y.intent = z.intent
      /\ Confident(y) => Confident(z)
      /\ z.conflict => y.conflict
  BY TenthsNat DEF WeakerEvidence, Confident, Signals
<1>2. /\ y.risk = "LOW" => z.risk = "LOW"
      /\ y.risk = "MEDIUM" => z.risk \in {"LOW", "MEDIUM"}
      /\ z.grounding = "NONE" => y.grounding = "NONE"
      /\ z.grounding = "INTERNAL" => y.grounding \in {"NONE", "INTERNAL"}
  BY DEF WeakerEvidence, Signals
<1> QED
  BY <1>1, <1>2 DEF choose_action, ReachableStates, States, BlockedStates, Signals, Social

\* Weaker evidence about a message never gets it further.
THEOREM EvidenceIsAlwaysMonotone == Spec => []EvidenceIsMonotone
<1>1. ASSUME SituationOK, NEW y \in Signals, WeakerEvidence(y, x)
      PROVE  Reach(Disposition(kind, mode, state, y)) <= Reach(Now)
  <2> DEFINE s == effective_state_for_global_mode(mode, state)
  <2>1. s \in ReachableStates
    BY <1>1, EffectiveState DEF SituationOK
  <2>2. x \in Signals
    BY <1>1 DEF SituationOK
  <2>3. CASE s \in BlockedStates
    BY <2>3, ReachValues DEF Disposition, Now
  <2>4. CASE s \notin BlockedStates
    <3>1. /\ choose_action(s, y) = "AUTO_REPLY" => choose_action(s, x) = "AUTO_REPLY"
          /\ choose_action(s, y) = "REQUIRE_APPROVAL" =>
                choose_action(s, x) \in {"REQUIRE_APPROVAL", "AUTO_REPLY"}
      BY <1>1, <2>1, <2>2, <2>4, ActionIsMonotone
    <3>2. choose_action(s, y) \in {"SILENT", "ESCALATE", "REQUIRE_APPROVAL", "AUTO_REPLY"}
      BY DEF choose_action
    <3>3. choose_action(s, x) \in {"SILENT", "ESCALATE", "REQUIRE_APPROVAL", "AUTO_REPLY"}
      BY DEF choose_action
    <3> QED
      BY <2>4, <3>1, <3>2, <3>3, ReachValues DEF Disposition, Now
  <2> QED
    BY <2>3, <2>4
<1>2. SituationOK => EvidenceIsMonotone
  BY <1>1 DEF EvidenceIsMonotone
<1> QED
  BY <1>2, SituationsAreTyped, PTL
=============================================================================
