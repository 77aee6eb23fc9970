------------------------ MODULE ApprovalLedgerProofs ------------------------
(***************************************************************************)
(* Proofs about the ledger, for every set of chats, messages, bodies and   *)
(* approvals and every bound on the revision.                              *)
(*                                                                         *)
(* The argument: whatever touches a chat either leaves its view alone or   *)
(* raises its revision, and never lowers a revision (ChatMoves).  A draft  *)
(* is bound to the revision of the moment (BoundsHold), so a bound that is *)
(* still current means a view that is still the one drafted against.       *)
(***************************************************************************)
EXTENDS ApprovalLedger, TLAPS

\* A bound revision was the chat's revision once: it is never ahead of it.
BoundsHold == \A a \in Approvals : status[a] # "UNUSED" => bound[a] <= revision[chat[a]]

LedgerInv ==
    /\ LedgerTypeOK
    /\ OnePendingPerChat
    /\ BoundsHold
    /\ CurrentMeansUnchanged

\* What every transaction on the chat c does, seen from the approvals.
ChatMoves(c) ==
    /\ UNCHANGED <<draftVars, overdue>>
    /\ \A a \in Approvals :
          \/ status'[a] = status[a]
          \/ /\ status[a] = "PENDING"
             /\ chat[a] = c
             /\ status'[a] \in {"STALE", "SUPERSEDED"}
    /\ \A d \in Conversations :
          /\ revision'[d] >= revision[d]
          /\ d # c => rows'[d] = rows[d] /\ convState'[d] = convState[d]
          /\ \/ rows'[d] = rows[d] /\ convState'[d] = convState[d]
             \/ revision'[d] > revision[d]

-----------------------------------------------------------------------------
(* What the helpers do.                                                    *)

LEMMA InvalidatedType ==
    ASSUME LedgerTypeOK, NEW c \in Conversations, NEW to \in {"STALE", "SUPERSEDED"}
    PROVE  /\ Invalidated(c, to) \in [Approvals -> Statuses]
           /\ \A a \in Approvals :
                \/ Invalidated(c, to)[a] = status[a]
                \/ /\ status[a] = "PENDING"
                   /\ chat[a] = c
                   /\ Invalidated(c, to)[a] \in {"STALE", "SUPERSEDED"}
           /\ \A a \in Approvals :
                chat[a] = c => Invalidated(c, to)[a] # "PENDING"
  BY DEF LedgerTypeOK, Invalidated, Statuses, Resolved

LEMMA BumpRaises ==
    ASSUME LedgerTypeOK, NEW c \in Conversations, Bump(c)
    PROVE  /\ revision' \in [Conversations -> Nat]
           /\ revision'[c] > revision[c]
           /\ \A d \in Conversations : revision'[d] >= revision[d]
  BY DEF LedgerTypeOK, Bump

LEMMA AppendOutgoingMoves ==
    ASSUME LedgerTypeOK, NEW c \in Conversations, NEW m \in MessageIds, NEW b \in Bodies,
           AppendOutgoing(c, m, b)
    PROVE  /\ revision' \in [Conversations -> Nat]
           /\ rows' \in [Conversations -> [MessageIds -> Row \cup {NoRow}]]
           /\ UNCHANGED <<convState, excluded>>
           /\ \A d \in Conversations :
                /\ revision'[d] >= revision[d]
                /\ d # c => rows'[d] = rows[d]
                /\ rows'[d] = rows[d] \/ revision'[d] > revision[d]
<1>1. CASE Stored(c, m)
  BY <1>1 DEF AppendOutgoing, LedgerTypeOK, chatVars
<1>2. CASE ~Stored(c, m)
  <2>1. /\ rows' = [rows EXCEPT ![c][m] = [author |-> "OWNER", body |-> b, deleted |-> FALSE]]
        /\ Bump(c)
        /\ UNCHANGED <<convState, excluded>>
    BY <1>2 DEF AppendOutgoing
  <2>2. [author |-> "OWNER", body |-> b, deleted |-> FALSE] \in Row
    BY DEF Row
  <2>3. rows' \in [Conversations -> [MessageIds -> Row \cup {NoRow}]]
    BY <2>1, <2>2 DEF LedgerTypeOK
  <2>4. \A d \in Conversations : d # c => rows'[d] = rows[d]
    BY <2>1 DEF LedgerTypeOK
  <2> QED
    BY <2>1, <2>3, <2>4, BumpRaises
<1> QED
  BY <1>1, <1>2

-----------------------------------------------------------------------------
(* Every transaction on a chat keeps the types and is a ChatMoves step.    *)

LEMMA IngestMoves ==
    ASSUME LedgerTypeOK, NEW c \in Conversations, NEW m \in MessageIds, NEW b \in Bodies,
           NEW s \in {"AI_AUTO", "AI_APPROVAL"}, Ingest(c, m, b, s)
    PROVE  LedgerTypeOK' /\ ChatMoves(c)
<1>1. [author |-> "CONTACT", body |-> b, deleted |-> FALSE] \in Row
  BY DEF Row
<1>2. /\ revision' \in [Conversations -> Nat]
      /\ convState' \in [Conversations -> States]
      /\ rows' \in [Conversations -> [MessageIds -> Row \cup {NoRow}]]
  BY <1>1 DEF Ingest, LedgerTypeOK, States
<1>3. LedgerTypeOK'
  BY <1>2 DEF LedgerTypeOK, Ingest, draftVars
<1>4. /\ \A d \in Conversations : d # c => rows'[d] = rows[d] /\ convState'[d] = convState[d]
      /\ revision'[c] > revision[c]
      /\ \A d \in Conversations : d # c => revision'[d] = revision[d]
  BY DEF Ingest, LedgerTypeOK, Known
<1> QED
  BY <1>3, <1>4 DEF ChatMoves, Ingest, LedgerTypeOK, draftVars

LEMMA MarkEditedMoves ==
    ASSUME LedgerTypeOK, NEW c \in Conversations, NEW m \in MessageIds, NEW b \in Bodies,
           MarkEdited(c, m, b)
    PROVE  LedgerTypeOK' /\ ChatMoves(c)
<1>1. rows[c][m] \in Row
  BY DEF LedgerTypeOK, MarkEdited, Stored
<1>2. [rows[c][m] EXCEPT !.body = b] \in Row
  BY <1>1 DEF Row
<1>3. /\ rows' \in [Conversations -> [MessageIds -> Row \cup {NoRow}]]
      /\ \A d \in Conversations : d # c => rows'[d] = rows[d]
  BY <1>2 DEF LedgerTypeOK, MarkEdited
<1>4. /\ revision' \in [Conversations -> Nat]
      /\ revision'[c] > revision[c]
      /\ \A d \in Conversations : revision'[d] >= revision[d]
  BY BumpRaises DEF MarkEdited
<1> QED
  BY <1>3, <1>4, InvalidatedType DEF ChatMoves, MarkEdited, LedgerTypeOK, draftVars

LEMMA MarkDeletedMoves ==
    ASSUME LedgerTypeOK, NEW c \in Conversations, NEW ms \in SUBSET MessageIds,
           MarkDeleted(c, ms)
    PROVE  LedgerTypeOK' /\ ChatMoves(c)
<1>1. ASSUME NEW m \in MessageIds, Stored(c, m)
      PROVE  [rows[c][m] EXCEPT !.deleted = TRUE] \in Row
  <2>1. rows[c][m] \in Row
    BY <1>1 DEF LedgerTypeOK, Stored
  <2> QED
    BY <2>1 DEF Row
<1>2. /\ rows' \in [Conversations -> [MessageIds -> Row \cup {NoRow}]]
      /\ \A d \in Conversations : d # c => rows'[d] = rows[d]
  BY <1>1 DEF LedgerTypeOK, MarkDeleted
<1>3. /\ revision' \in [Conversations -> Nat]
      /\ revision'[c] > revision[c]
      /\ \A d \in Conversations : revision'[d] >= revision[d]
  BY BumpRaises DEF MarkDeleted
<1> QED
  BY <1>2, <1>3, InvalidatedType DEF ChatMoves, MarkDeleted, LedgerTypeOK, draftVars

LEMMA OutgoingMoves ==
    ASSUME LedgerTypeOK, NEW c \in Conversations, NEW m \in MessageIds, NEW b \in Bodies,
           OwnerSpoke(c, m, b) \/ RecordOutgoing(c, m, b)
    PROVE  LedgerTypeOK' /\ ChatMoves(c)
<1>1. AppendOutgoing(c, m, b) /\ UNCHANGED <<draftVars, overdue>>
  BY DEF OwnerSpoke, RecordOutgoing
<1>2. status' = Invalidated(c, "SUPERSEDED") \/ status' = status
  BY DEF OwnerSpoke, RecordOutgoing
<1> QED
  BY <1>1, <1>2, AppendOutgoingMoves, InvalidatedType DEF ChatMoves, LedgerTypeOK, draftVars

LEMMA StateMoves ==
    ASSUME LedgerTypeOK, NEW c \in Conversations, StateNext(c)
    PROVE  LedgerTypeOK' /\ ChatMoves(c)
<1> DEFINE OnlyStateOfChat ==
        /\ convState' \in [Conversations -> States]
        /\ excluded' \in [Conversations -> BOOLEAN]
        /\ \A d \in Conversations : d # c => convState'[d] = convState[d]
<1>1. /\ Bump(c)
      /\ UNCHANGED <<rows, draftVars, overdue>>
      /\ \/ status' = status
         \/ status' = Invalidated(c, "STALE")
         \/ status' = Invalidated(c, "SUPERSEDED")
  BY DEF StateNext, SetConversationState, HandoffByIntent, HandoffInPlace
<1>2. OnlyStateOfChat
  <2>1. ASSUME NEW s \in Targets, SetConversationState(c, s)
        PROVE  OnlyStateOfChat
    <3>1. s \in States
      BY LedgerAssumption
    <3>2. (s = "EXCLUDED") \in BOOLEAN
      OBVIOUS
    <3> QED
      BY <2>1, <3>1, <3>2 DEF SetConversationState, LedgerTypeOK
  <2>2. ASSUME HandoffByIntent(c) \/ HandoffInPlace(c)
        PROVE  OnlyStateOfChat
    BY <2>2 DEF HandoffByIntent, HandoffInPlace, LedgerTypeOK, States
  <2> QED
    BY <2>1, <2>2 DEF StateNext
<1> QED
  BY <1>1, <1>2, BumpRaises, InvalidatedType DEF ChatMoves, LedgerTypeOK, draftVars

LEMMA ChatStepMoves ==
    ASSUME LedgerTypeOK, NEW c \in Conversations, UpdateNext(c) \/ StateNext(c)
    PROVE  LedgerTypeOK' /\ ChatMoves(c)
  BY IngestMoves, MarkEditedMoves, MarkDeletedMoves, OutgoingMoves, StateMoves DEF UpdateNext

-----------------------------------------------------------------------------
(* The steps of an approval.                                               *)

\* The steps that touch the approval a alone.
OwnStep(a) ==
    \/ \E b \in Bodies : UpdateCandidate(a, b)
    \/ Lapse(a)
    \/ GrantClaim(a)
    \/ RefuseClaim(a)
    \/ status[a] = "SENDING" /\ MarkUncertain(a)
    \/ status[a] = "SENDING" /\ MarkFailedBeforeSend(a)
    \/ Reject(a)

LEMMA ApprovalNextSplit ==
    ASSUME NEW a \in Approvals, ApprovalNext(a)
    PROVE  \/ \E c \in Conversations, b \in Bodies : CreateApproval(c, a, b, View(c))
           \/ \E m \in MessageIds : status[a] = "SENDING" /\ MarkSent(a, m)
           \/ OwnStep(a)
  BY DEF ApprovalNext, OwnStep

\* A step that only resolves, claims, rewords or ages the approval a.
OnlyOwnStatus(a) ==
    /\ UNCHANGED <<chatVars, chat, bound, basis>>
    /\ status[a] # "UNUSED"
    /\ status'[a] # "UNUSED"
    /\ status'[a] = "PENDING" => status[a] = "PENDING"
    /\ \A x \in Approvals : x # a => status'[x] = status[x]

LEMMA CreateTypes ==
    ASSUME LedgerTypeOK, NEW c \in Conversations, NEW a \in Approvals, NEW b \in Bodies,
           CreateApproval(c, a, b, View(c))
    PROVE  LedgerTypeOK'
<1>1. View(c) \in Views
  BY DEF View, Views, LedgerTypeOK
<1>2. status' \in [Approvals -> Statuses]
  <2>1. Invalidated(c, "SUPERSEDED") \in [Approvals -> Statuses]
    BY InvalidatedType
  <2>2. "PENDING" \in Statuses
    BY DEF Statuses
  <2> QED
    BY <2>1, <2>2 DEF CreateApproval
<1> QED
  BY <1>1, <1>2 DEF CreateApproval, LedgerTypeOK, chatVars

LEMMA MarkSentMoves ==
    ASSUME LedgerTypeOK, NEW a \in Approvals, NEW m \in MessageIds,
           status[a] = "SENDING", MarkSent(a, m)
    PROVE  /\ LedgerTypeOK'
           /\ status'[a] = "SENT"
           /\ \A x \in Approvals : x # a => status'[x] = status[x]
           /\ UNCHANGED draftVars
           /\ \A d \in Conversations :
                /\ revision'[d] >= revision[d]
                /\ d # chat[a] => rows'[d] = rows[d]
                /\ convState'[d] = convState[d]
                /\ rows'[d] = rows[d] \/ revision'[d] > revision[d]
<1>1. chat[a] \in Conversations /\ candidate[a] \in Bodies
  BY DEF LedgerTypeOK
<1>2. AppendOutgoing(chat[a], m, candidate[a])
  BY DEF MarkSent
<1>3. /\ status' \in [Approvals -> Statuses]
      /\ status'[a] = "SENT"
      /\ \A x \in Approvals : x # a => status'[x] = status[x]
  <2>1. "SENT" \in Statuses
    BY DEF Statuses, Resolved
  <2> QED
    BY <2>1 DEF MarkSent, CompareAndSet, LedgerTypeOK
<1> QED
  BY <1>1, <1>2, <1>3, AppendOutgoingMoves DEF LedgerTypeOK, MarkSent, draftVars

LEMMA OwnStepTypes ==
    ASSUME LedgerTypeOK, NEW a \in Approvals, OwnStep(a)
    PROVE  LedgerTypeOK' /\ OnlyOwnStatus(a)
<1> USE DEF LedgerTypeOK, OnlyOwnStatus, chatVars, draftVars
<1>1. CASE \E b \in Bodies : UpdateCandidate(a, b)
  BY <1>1 DEF UpdateCandidate
<1>2. CASE Lapse(a)
  BY <1>2 DEF Lapse
<1>3. CASE GrantClaim(a)
  BY <1>3 DEF GrantClaim, Claimable, Statuses
<1>4. CASE RefuseClaim(a)
  BY <1>4 DEF RefuseClaim, Statuses, Resolved
<1>5. CASE status[a] = "SENDING" /\ MarkUncertain(a)
  BY <1>5 DEF MarkUncertain, CompareAndSet, Statuses, Resolved
<1>6. CASE status[a] = "SENDING" /\ MarkFailedBeforeSend(a)
  BY <1>6 DEF MarkFailedBeforeSend, Statuses, Resolved
<1>7. CASE Reject(a)
  BY <1>7 DEF Reject, CompareAndSet, Statuses, Resolved
<1> QED
  BY <1>1, <1>2, <1>3, <1>4, <1>5, <1>6, <1>7 DEF OwnStep

-----------------------------------------------------------------------------
(* The inductive invariant.                                                *)

LEMMA LedgerInitInv == LedgerInit => LedgerInv
<1> SUFFICES ASSUME LedgerInit PROVE LedgerInv
  OBVIOUS
<1>1. AnyConversation \in Conversations /\ AnyBody \in Bodies
  BY LedgerAssumption DEF AnyConversation, AnyBody
<1>2. View(AnyConversation) \in Views
  BY <1>1 DEF View, Views, LedgerInit, States
<1>3. LedgerTypeOK
  BY <1>1, <1>2 DEF LedgerInit, LedgerTypeOK, States, Statuses
<1>4. \A a \in Approvals : status[a] = "UNUSED"
  BY DEF LedgerInit
<1> QED
  BY <1>3, <1>4 DEF LedgerInv, OnePendingPerChat, BoundsHold, CurrentMeansUnchanged

\* A draft that survives a step and is current after it was current before it,
\* and the step left its chat alone.
LEMMA StillFresh ==
    ASSUME LedgerInv, LedgerTypeOK', NEW a \in Approvals, status[a] = "PENDING",
           chat'[a] = chat[a], bound'[a] = bound[a], basis'[a] = basis[a],
           revision'[chat[a]] >= revision[chat[a]],
           \/ rows'[chat[a]] = rows[chat[a]] /\ convState'[chat[a]] = convState[chat[a]]
           \/ revision'[chat[a]] > revision[chat[a]],
           bound'[a] = revision'[chat'[a]]
    PROVE  basis'[a] = [rows |-> rows'[chat'[a]], state |-> convState'[chat'[a]]]
<1>1. /\ chat[a] \in Conversations
      /\ bound[a] \in Nat
      /\ bound[a] <= revision[chat[a]]
  BY DEF LedgerInv, LedgerTypeOK, BoundsHold
<1>2. revision[chat[a]] \in Nat /\ revision'[chat[a]] \in Nat
  BY <1>1 DEF LedgerInv, LedgerTypeOK
<1>3. revision'[chat[a]] = revision[chat[a]] /\ bound[a] = revision[chat[a]]
  BY <1>1, <1>2
<1>4. basis[a] = View(chat[a])
  BY <1>3 DEF LedgerInv, CurrentMeansUnchanged
<1> QED
  BY <1>2, <1>3, <1>4 DEF View

LEMMA ChatStepInv ==
    ASSUME LedgerInv, NEW c \in Conversations, UpdateNext(c) \/ StateNext(c)
    PROVE  LedgerInv'
<1>1. LedgerTypeOK' /\ ChatMoves(c)
  BY ChatStepMoves DEF LedgerInv
<1>2. \A a \in Approvals :
        /\ chat'[a] = chat[a] /\ bound'[a] = bound[a] /\ basis'[a] = basis[a]
        /\ status'[a] = "PENDING" => status[a] = "PENDING"
        /\ status'[a] # "UNUSED" => status[a] # "UNUSED"
        /\ chat[a] \in Conversations
  BY <1>1 DEF ChatMoves, draftVars, LedgerInv, LedgerTypeOK
<1>3. OnePendingPerChat'
  BY <1>2 DEF LedgerInv, OnePendingPerChat
<1>4. BoundsHold'
  BY <1>1, <1>2 DEF LedgerInv, LedgerTypeOK, BoundsHold, ChatMoves
<1>5. CurrentMeansUnchanged'
  BY <1>1, <1>2, StillFresh DEF ChatMoves, CurrentMeansUnchanged, View
<1> QED
  BY <1>1, <1>3, <1>4, <1>5 DEF LedgerInv

LEMMA CreateInv ==
    ASSUME LedgerInv, NEW c \in Conversations, NEW a \in Approvals, NEW b \in Bodies,
           CreateApproval(c, a, b, View(c))
    PROVE  LedgerInv'
<1>1. LedgerTypeOK'
  BY CreateTypes DEF LedgerInv
<1>2. /\ UNCHANGED chatVars
      /\ status'[a] = "PENDING" /\ chat'[a] = c
      /\ bound'[a] = revision[c] /\ basis'[a] = View(c)
      /\ \A x \in Approvals : x # a =>
            /\ chat'[x] = chat[x] /\ bound'[x] = bound[x] /\ basis'[x] = basis[x]
            /\ status'[x] = "PENDING" => status[x] = "PENDING" /\ chat[x] # c
            /\ status'[x] # "UNUSED" => status[x] # "UNUSED"
  <2>1. status' = [Invalidated(c, "SUPERSEDED") EXCEPT ![a] = "PENDING"]
    BY DEF CreateApproval
  <2>2. \A x \in Approvals : x # a =>
            /\ status'[x] = "PENDING" => status[x] = "PENDING" /\ chat[x] # c
            /\ status'[x] # "UNUSED" => status[x] # "UNUSED"
    BY <2>1, InvalidatedType DEF LedgerInv
  <2>3. status'[a] = "PENDING"
    BY <2>1, InvalidatedType DEF LedgerInv
  <2> QED
    BY <2>2, <2>3 DEF CreateApproval, LedgerInv, LedgerTypeOK
<1>3. OnePendingPerChat'
  BY <1>2 DEF LedgerInv, OnePendingPerChat
<1>4. BoundsHold'
  BY <1>2 DEF LedgerInv, LedgerTypeOK, BoundsHold, chatVars
<1>5. CurrentMeansUnchanged'
  BY <1>2 DEF LedgerInv, CurrentMeansUnchanged, View, chatVars
<1> QED
  BY <1>1, <1>3, <1>4, <1>5 DEF LedgerInv

LEMMA MarkSentInv ==
    ASSUME LedgerInv, NEW a \in Approvals, NEW m \in MessageIds,
           status[a] = "SENDING", MarkSent(a, m)
    PROVE  LedgerInv'
<1>1. LedgerTypeOK' /\ UNCHANGED draftVars /\ LedgerTypeOK
  BY MarkSentMoves DEF LedgerInv
<1>2. \A x \in Approvals :
        /\ chat'[x] = chat[x] /\ bound'[x] = bound[x] /\ basis'[x] = basis[x]
        /\ status'[x] = "PENDING" => status[x] = "PENDING"
        /\ status'[x] # "UNUSED" => status[x] # "UNUSED"
        /\ chat[x] \in Conversations
  BY MarkSentMoves DEF draftVars, LedgerInv, LedgerTypeOK
<1>3. \A d \in Conversations :
        /\ revision[d] \in Nat /\ revision'[d] \in Nat
        /\ revision'[d] >= revision[d]
        /\ \/ rows'[d] = rows[d] /\ convState'[d] = convState[d]
           \/ revision'[d] > revision[d]
  BY <1>1, MarkSentMoves DEF LedgerTypeOK
<1>4. OnePendingPerChat'
  BY <1>2 DEF LedgerInv, OnePendingPerChat
<1>5. BoundsHold'
  BY <1>2, <1>3 DEF LedgerInv, LedgerTypeOK, BoundsHold
<1>6. CurrentMeansUnchanged'
  BY <1>1, <1>2, <1>3, StillFresh DEF CurrentMeansUnchanged, View
<1> QED
  BY <1>1, <1>4, <1>5, <1>6 DEF LedgerInv

LEMMA OwnStepInv ==
    ASSUME LedgerInv, NEW a \in Approvals, LedgerTypeOK', OnlyOwnStatus(a)
    PROVE  LedgerInv'
<1>1. \A x \in Approvals :
        /\ status'[x] = "PENDING" => status[x] = "PENDING"
        /\ status'[x] # "UNUSED" => status[x] # "UNUSED"
  BY DEF OnlyOwnStatus
<1>2. OnePendingPerChat'
  BY <1>1 DEF LedgerInv, OnePendingPerChat, OnlyOwnStatus
<1>3. BoundsHold'
  BY <1>1 DEF LedgerInv, BoundsHold, OnlyOwnStatus, chatVars
<1>4. CurrentMeansUnchanged'
  BY <1>1 DEF LedgerInv, CurrentMeansUnchanged, OnlyOwnStatus, View, chatVars
<1> QED
  BY <1>2, <1>3, <1>4 DEF LedgerInv

LEMMA LedgerStepInv ==
    ASSUME LedgerInv, [LedgerNext]_ledgerVars
    PROVE  LedgerInv'
<1>1. CASE UNCHANGED ledgerVars
  BY <1>1 DEF LedgerInv, LedgerTypeOK, OnePendingPerChat, BoundsHold, CurrentMeansUnchanged,
              View, ledgerVars, chatVars, draftVars
<1>2. CASE \E c \in Conversations : UpdateNext(c) \/ StateNext(c)
  BY <1>2, ChatStepInv
<1>3. ASSUME NEW a \in Approvals, ApprovalNext(a)
      PROVE  LedgerInv'
  <2>1. CASE \E c \in Conversations, b \in Bodies : CreateApproval(c, a, b, View(c))
    BY <2>1, CreateInv
  <2>2. CASE \E m \in MessageIds : status[a] = "SENDING" /\ MarkSent(a, m)
    BY <2>2, MarkSentInv
  <2>3. CASE OwnStep(a)
    BY <2>3, OwnStepTypes, OwnStepInv DEF LedgerInv
  <2> QED
    BY <1>3, <2>1, <2>2, <2>3, ApprovalNextSplit
<1> QED
  BY <1>1, <1>2, <1>3 DEF LedgerNext

\* The invariant, of every reachable state of the ledger.
THEOREM LedgerInvariant == LedgerSpec => []LedgerInv
  BY LedgerInitInv, LedgerStepInv, PTL DEF LedgerSpec

\* Every table keeps its types: no handler writes a status code that no other
\* handler knows.
THEOREM LedgerTypesAreCorrect == LedgerSpec => []LedgerTypeOK
  BY LedgerInvariant, PTL DEF LedgerInv

\* A chat never has two open drafts.
THEOREM OneDraftPerChat == LedgerSpec => []OnePendingPerChat
  BY LedgerInvariant, PTL DEF LedgerInv

\* While a draft's revision is current, the conversation is the one it was written
\* against.
THEOREM CurrentDraftsAreFresh == LedgerSpec => []CurrentMeansUnchanged
  BY LedgerInvariant, PTL DEF LedgerInv

-----------------------------------------------------------------------------
(* What a step may never do.                                               *)

\* A step of the ledger, seen from the one approval x.
LEMMA StepsOfOne ==
    ASSUME LedgerTypeOK, NEW x \in Approvals, LedgerNext
    PROVE  \/ status'[x] = status[x] /\ UNCHANGED <<chat[x], bound[x], candidate[x]>>
           \/ /\ status[x] = "PENDING" /\ status'[x] \in {"STALE", "SUPERSEDED"}
              /\ UNCHANGED <<chat[x], bound[x], candidate[x]>>
           \/ status[x] = "UNUSED" /\ status'[x] = "PENDING"
           \/ status[x] = "SENDING" /\ status'[x] = "SENT"
              /\ UNCHANGED <<chat[x], bound[x], candidate[x]>>
           \/ OwnStep(x)
<1>1. ASSUME NEW c \in Conversations, UpdateNext(c) \/ StateNext(c)
      PROVE  /\ UNCHANGED <<chat[x], bound[x], candidate[x]>>
             /\ \/ status'[x] = status[x]
                \/ status[x] = "PENDING" /\ status'[x] \in {"STALE", "SUPERSEDED"}
  BY <1>1, ChatStepMoves DEF ChatMoves, draftVars
<1>2. ASSUME NEW a \in Approvals, NEW c \in Conversations, NEW b \in Bodies,
             CreateApproval(c, a, b, View(c))
      PROVE  \/ status[x] = "UNUSED" /\ status'[x] = "PENDING"
             \/ /\ UNCHANGED <<chat[x], bound[x], candidate[x]>>
                /\ \/ status'[x] = status[x]
                   \/ status[x] = "PENDING" /\ status'[x] \in {"STALE", "SUPERSEDED"}
  <2>1. status' = [Invalidated(c, "SUPERSEDED") EXCEPT ![a] = "PENDING"]
    BY <1>2 DEF CreateApproval
  <2>2. CASE x = a
    <3>1. status[x] = "UNUSED"
      BY <1>2, <2>2 DEF CreateApproval
    <3>2. status'[x] = "PENDING"
      BY <2>1, <2>2, InvalidatedType
    <3> QED
      BY <3>1, <3>2
  <2>3. CASE x # a
    <3>1. status'[x] = Invalidated(c, "SUPERSEDED")[x]
      BY <2>1, <2>3, InvalidatedType
    <3>2. UNCHANGED <<chat[x], bound[x], candidate[x]>>
      BY <1>2, <2>3 DEF CreateApproval, LedgerTypeOK
    <3> QED
      BY <3>1, <3>2, InvalidatedType
  <2> QED
    BY <2>2, <2>3
<1>3. ASSUME NEW a \in Approvals, NEW m \in MessageIds, status[a] = "SENDING", MarkSent(a, m)
      PROVE  /\ UNCHANGED <<chat[x], bound[x], candidate[x]>>
             /\ status'[x] = status[x] \/ (status[x] = "SENDING" /\ status'[x] = "SENT")
  BY <1>3, MarkSentMoves DEF draftVars
<1>4. ASSUME NEW a \in Approvals, a # x, OwnStep(a)
      PROVE  status'[x] = status[x] /\ UNCHANGED <<chat[x], bound[x], candidate[x]>>
  <2>1. status'[x] = status[x] /\ UNCHANGED <<chat, bound>>
    BY <1>4, OwnStepTypes DEF OnlyOwnStatus
  <2>2. candidate'[x] = candidate[x]
    BY <1>4 DEF OwnStep, UpdateCandidate, Lapse, GrantClaim, RefuseClaim, MarkUncertain,
                MarkFailedBeforeSend, Reject, draftVars, LedgerTypeOK
  <2> QED
    BY <2>1, <2>2
<1> QED
  BY <1>1, <1>2, <1>3, <1>4, ApprovalNextSplit DEF LedgerNext

\* What the steps of an approval do to it.
LEMMA OwnStepShape ==
    ASSUME LedgerTypeOK, NEW a \in Approvals, OwnStep(a)
    PROVE  /\ status[a] \in Resolved => status'[a] = status[a]
           /\ status[a] \in {"SENDING"} \cup Resolved =>
                  UNCHANGED <<chat[a], bound[a], candidate[a]>>
           /\ status[a] # "SENDING" /\ status'[a] = "SENDING" => GrantClaim(a)
<1>1. UNCHANGED <<chat, bound>>
  BY OwnStepTypes DEF OnlyOwnStatus
<1>2. CASE \E b \in Bodies : UpdateCandidate(a, b)
  BY <1>1, <1>2 DEF UpdateCandidate, Resolved
<1>3. CASE Lapse(a)
  BY <1>3 DEF Lapse, draftVars
<1>4. CASE GrantClaim(a)
  BY <1>4 DEF GrantClaim, Claimable, Resolved, draftVars
<1>5. CASE RefuseClaim(a)
  BY <1>5 DEF RefuseClaim, Resolved, draftVars, LedgerTypeOK
<1>6. CASE status[a] = "SENDING" /\ (MarkUncertain(a) \/ MarkFailedBeforeSend(a))
  BY <1>6 DEF MarkUncertain, MarkFailedBeforeSend, CompareAndSet, Resolved, draftVars, LedgerTypeOK
<1>7. CASE Reject(a)
  BY <1>7 DEF Reject, CompareAndSet, Resolved, draftVars, LedgerTypeOK
<1> QED
  BY <1>2, <1>3, <1>4, <1>5, <1>6, <1>7 DEF OwnStep

\* A claim is granted by claim_for_send alone, and to a fresh draft.
LEMMA ClaimStep ==
    ASSUME LedgerInv, NEW a \in Approvals, LedgerNext,
           status[a] # "SENDING", status'[a] = "SENDING"
    PROVE  status[a] = "PENDING" /\ a \notin overdue /\ basis[a] = View(chat[a])
<1>1. GrantClaim(a)
  BY StepsOfOne, OwnStepShape DEF LedgerInv
<1> QED
  BY <1>1 DEF GrantClaim, Claimable, LedgerInv, CurrentMeansUnchanged

\* Nothing revives a resolved approval.
LEMMA ResolvedStep ==
    ASSUME LedgerTypeOK, NEW a \in Approvals, LedgerNext, status[a] \in Resolved
    PROVE  status'[a] = status[a]
  BY StepsOfOne, OwnStepShape DEF Resolved

\* Nothing rewords or rebinds an approval that was claimed or resolved.
LEMMA FrozenStep ==
    ASSUME LedgerTypeOK, NEW a \in Approvals, LedgerNext,
           status[a] \in {"SENDING"} \cup Resolved
    PROVE  candidate'[a] = candidate[a] /\ chat'[a] = chat[a] /\ bound'[a] = bound[a]
  BY StepsOfOne, OwnStepShape DEF Resolved

\* Only a fresh pending draft is ever claimed.
THEOREM ClaimsAreAlwaysCurrent == LedgerSpec => ClaimsAreCurrent
<1>1. LedgerInv /\ [LedgerNext]_ledgerVars =>
        [\A a \in Approvals :
            status[a] # "SENDING" /\ status'[a] = "SENDING" =>
                /\ status[a] = "PENDING"
                /\ a \notin overdue
                /\ basis[a] = View(chat[a])]_ledgerVars
  BY ClaimStep
<1> QED
  BY <1>1, LedgerInvariant, PTL DEF LedgerSpec, ClaimsAreCurrent

\* A resolved approval stays as it was resolved.
THEOREM ResolvedStaysResolved == LedgerSpec => ResolvedIsFinal
<1>1. LedgerInv /\ [LedgerNext]_ledgerVars =>
        [\A a \in Approvals : status[a] \in Resolved => status'[a] = status[a]]_ledgerVars
  BY ResolvedStep DEF LedgerInv
<1> QED
  BY <1>1, LedgerInvariant, PTL DEF LedgerSpec, ResolvedIsFinal

\* What was claimed is what the row goes on to say.
THEOREM ClaimedStaysFrozen == LedgerSpec => ClaimedIsFrozen
<1>1. LedgerInv /\ [LedgerNext]_ledgerVars =>
        [\A a \in Approvals :
            status[a] \in {"SENDING"} \cup Resolved =>
                /\ candidate'[a] = candidate[a]
                /\ chat'[a] = chat[a]
                /\ bound'[a] = bound[a]]_ledgerVars
  BY FrozenStep DEF LedgerInv
<1> QED
  BY <1>1, LedgerInvariant, PTL DEF LedgerSpec, ClaimedIsFrozen

-----------------------------------------------------------------------------
(* The ledger implements the contract of replies: each transaction, read   *)
(* through PhaseOf and View, is a step of ReplyContract or changes nothing *)
(* there.  The one step that needs the invariant is the claim: the         *)
(* contract asks that the chat still holds what the reply was written      *)
(* against, the code compares revisions, and CurrentMeansUnchanged is the  *)
(* bridge.                                                                 *)

ContentNow == [c \in Conversations |-> View(c)]

PhasesNow == [a \in Approvals |-> PhaseOf(status[a])]

LEMMA PhaseValues ==
    /\ PhaseOf("UNUSED") = "unused"
    /\ PhaseOf("PENDING") = "open"
    /\ PhaseOf("SENDING") = "committed"
    /\ \A s \in {"SENT", "UNCERTAIN", "FAILED"} : PhaseOf(s) = "settled"
    /\ \A s \in {"REJECTED", "STALE", "SUPERSEDED", "EXPIRED"} : PhaseOf(s) = "void"
    /\ \A s \in Statuses : PhaseOf(s) \in Contract!Phases
    /\ \A s \in Statuses : PhaseOf(s) = "open" <=> s = "PENDING"
  BY DEF PhaseOf, Statuses, Resolved, Contract!Phases

LEMMA ViewsType ==
    ASSUME LedgerTypeOK
    PROVE  \A c \in Conversations : View(c) \in Views
  BY DEF LedgerTypeOK, View, Views

LEMMA InitRefines == LedgerInit => Contract!Init
<1> SUFFICES ASSUME LedgerInit PROVE Contract!Init
  OBVIOUS
<1>1. LedgerTypeOK
  BY LedgerInitInv DEF LedgerInv
<1>2. ContentNow \in [Conversations -> Views]
  BY <1>1, ViewsType DEF ContentNow
<1>3. PhasesNow = [r \in Approvals |-> "unused"]
  BY PhaseValues DEF PhasesNow, LedgerInit
<1> QED
  BY <1>1, <1>2, <1>3 DEF Contract!Init, LedgerTypeOK, ContentNow, PhasesNow

\* Whatever happens to a chat is a Change of it.
LEMMA ChatStepRefines ==
    ASSUME LedgerTypeOK, NEW c \in Conversations, UpdateNext(c) \/ StateNext(c)
    PROVE  Contract!Change(c)
<1>1. LedgerTypeOK' /\ ChatMoves(c)
  BY ChatStepMoves
<1>2. \A d \in Conversations : View(d)' \in Views
  BY <1>1 DEF LedgerTypeOK, View, Views
<1>3. \A d \in Conversations : d # c => View(d)' = View(d)
  BY <1>1 DEF ChatMoves, View
<1>4. Contract!Rewritten(c)
  BY <1>2, <1>3 DEF Contract!Rewritten
<1>5. /\ PhasesNow' \in [Approvals -> Contract!Phases]
      /\ \A a \in Approvals :
            \/ PhasesNow'[a] = PhasesNow[a]
            \/ a \in Contract!OpenIn(c) /\ PhasesNow'[a] = "void"
  BY <1>1, PhaseValues DEF PhasesNow, ChatMoves, LedgerTypeOK, Contract!OpenIn
<1> QED
  BY <1>1, <1>4, <1>5 DEF Contract!Change, PhasesNow, ChatMoves, draftVars

\* A proposal replaces the open one.
LEMMA CreateRefines ==
    ASSUME LedgerTypeOK, NEW c \in Conversations, NEW a \in Approvals, NEW b \in Bodies,
           CreateApproval(c, a, b, View(c))
    PROVE  Contract!Propose(a, c)
<1>1. /\ status[a] = "UNUSED"
      /\ status' = [Invalidated(c, "SUPERSEDED") EXCEPT ![a] = "PENDING"]
      /\ UNCHANGED chatVars
  BY DEF CreateApproval
<1>2. PhasesNow[a] = "unused"
  BY <1>1, PhaseValues DEF PhasesNow
<1>3. PhasesNow' = [q \in Approvals |->
                      IF q = a THEN "open"
                      ELSE IF q \in Contract!OpenIn(c) THEN "void" ELSE PhasesNow[q]]
  <2>1. status'[a] = "PENDING"
    BY <1>1, InvalidatedType
  <2>2. \A q \in Approvals : q # a =>
           status'[q] = IF chat[q] = c /\ status[q] = "PENDING" THEN "SUPERSEDED" ELSE status[q]
    BY <1>1 DEF Invalidated
  <2> QED
    BY <2>1, <2>2, PhaseValues DEF PhasesNow, Contract!OpenIn, LedgerTypeOK
<1>4. ContentNow' = ContentNow
  BY <1>1 DEF ContentNow, View, chatVars
<1>5. basis' = [basis EXCEPT ![a] = ContentNow[c]]
  BY DEF CreateApproval, ContentNow
<1>6. candidate' = [candidate EXCEPT ![a] = b] /\ candidate'[a] = b
  BY DEF CreateApproval, LedgerTypeOK
<1> QED
  BY <1>2, <1>3, <1>4, <1>5, <1>6
     DEF Contract!Propose, CreateApproval, ContentNow, PhasesNow, LedgerTypeOK

\* A step that resolves one approval and leaves the chats alone.
LEMMA OnePhase ==
    ASSUME LedgerTypeOK, NEW a \in Approvals, NEW s \in Statuses,
           status' = [status EXCEPT ![a] = s]
    PROVE  PhasesNow' = [PhasesNow EXCEPT ![a] = PhaseOf(s)]
  BY DEF PhasesNow, LedgerTypeOK

LEMMA ContentKept ==
    ASSUME UNCHANGED chatVars
    PROVE  ContentNow' = ContentNow
  BY DEF ContentNow, View, chatVars

\* A confirmed send settles the reply and writes it into its chat.
LEMMA MarkSentRefines ==
    ASSUME LedgerTypeOK, NEW a \in Approvals, NEW m \in MessageIds,
           status[a] = "SENDING", MarkSent(a, m)
    PROVE  Contract!Settle(a)
<1>1. chat[a] \in Conversations /\ UNCHANGED draftVars /\ LedgerTypeOK'
  BY MarkSentMoves DEF LedgerTypeOK
<1>2. \A d \in Conversations : View(d)' \in Views
  BY <1>1 DEF LedgerTypeOK, View, Views
<1>3. \A d \in Conversations : d # chat[a] => View(d)' = View(d)
  BY MarkSentMoves DEF View
<1>4. Contract!Rewritten(chat[a])
  BY <1>1, <1>2, <1>3 DEF Contract!Rewritten
<1>5. PhasesNow' = [PhasesNow EXCEPT ![a] = "settled"] /\ PhasesNow[a] = "committed"
  <2>1. status' = [status EXCEPT ![a] = "SENT"]
    BY DEF MarkSent, CompareAndSet, LedgerTypeOK
  <2>2. "SENT" \in Statuses
    BY DEF Statuses, Resolved
  <2> QED
    BY <2>1, <2>2, OnePhase, PhaseValues DEF PhasesNow
<1> QED
  BY <1>1, <1>4, <1>5 DEF Contract!Settle, PhasesNow, draftVars

\* Rewording, claiming, giving up and waiting.
LEMMA OwnStepRefines ==
    ASSUME LedgerInv, NEW a \in Approvals, OwnStep(a)
    PROVE  \/ Contract!Reword(a)
           \/ Contract!Commit(a)
           \/ Contract!Settle(a)
           \/ Contract!Void(a)
           \/ UNCHANGED Contract!vars
<1> USE DEF LedgerInv
<1>1. chat[a] \in Conversations /\ PhasesNow[a] = PhaseOf(status[a])
  BY DEF LedgerTypeOK, PhasesNow
<1>2. CASE \E b \in Bodies : UpdateCandidate(a, b)
  <2>1. PICK b \in Bodies : UpdateCandidate(a, b)
    BY <1>2
  <2>2. /\ status[a] = "PENDING"
        /\ candidate' = [candidate EXCEPT ![a] = b] /\ candidate'[a] = b
        /\ UNCHANGED <<chatVars, status, chat, basis>>
    BY <2>1 DEF UpdateCandidate, LedgerTypeOK
  <2>3. PhasesNow[a] = "open" /\ PhasesNow' = PhasesNow /\ ContentNow' = ContentNow
    BY <1>1, <2>2, PhaseValues, ContentKept DEF PhasesNow
  <2>4. Contract!Reword(a)
    BY <2>2, <2>3 DEF Contract!Reword, PhasesNow, ContentNow
  <2> QED
    BY <2>4
<1>3. CASE Lapse(a)
  BY <1>3, ContentKept DEF Lapse, draftVars, Contract!vars, ContentNow
<1>4. CASE GrantClaim(a)
  <2>1. /\ status[a] = "PENDING" /\ bound[a] = revision[chat[a]]
        /\ status' = [status EXCEPT ![a] = "SENDING"]
        /\ UNCHANGED <<chatVars, chat, candidate, basis>>
    BY <1>4 DEF GrantClaim, Claimable, draftVars
  <2>2. ContentNow[chat[a]] = basis[a]
    BY <1>1, <2>1 DEF CurrentMeansUnchanged, ContentNow
  <2>3. "SENDING" \in Statuses
    BY DEF Statuses
  <2>4. /\ PhasesNow[a] = "open"
        /\ PhasesNow' = [PhasesNow EXCEPT ![a] = "committed"]
        /\ ContentNow' = ContentNow
    BY <1>1, <2>1, <2>3, PhaseValues, OnePhase, ContentKept
  <2>5. Contract!Commit(a)
    BY <2>1, <2>2, <2>4 DEF Contract!Commit, PhasesNow, ContentNow
  <2> QED
    BY <2>5
<1>5. CASE status[a] = "SENDING" /\ (MarkUncertain(a) \/ MarkFailedBeforeSend(a))
  <2>1. PICK s \in {"UNCERTAIN", "FAILED"} : status' = [status EXCEPT ![a] = s]
    BY <1>5 DEF MarkUncertain, MarkFailedBeforeSend, CompareAndSet, LedgerTypeOK
  <2>2. UNCHANGED <<chatVars, chat, candidate, basis>>
    BY <1>5 DEF MarkUncertain, MarkFailedBeforeSend, draftVars
  <2>3. s \in Statuses
    BY <2>1 DEF Statuses, Resolved
  <2>4. /\ PhasesNow[a] = "committed"
        /\ PhasesNow' = [PhasesNow EXCEPT ![a] = "settled"]
        /\ ContentNow' = ContentNow
    <3>1. PhaseOf(s) = "settled"
      BY <2>1, PhaseValues
    <3>2. PhasesNow' = [PhasesNow EXCEPT ![a] = PhaseOf(s)]
      BY <2>1, <2>3, OnePhase
    <3> QED
      BY <1>1, <1>5, <2>2, <3>1, <3>2, PhaseValues, ContentKept
  <2>5. Contract!Rewritten(chat[a])
    <3>1. \A d \in Conversations : View(d)' = View(d)
      BY <2>2 DEF View, chatVars
    <3>2. \A d \in Conversations : View(d)' \in Views
      BY <3>1, ViewsType
    <3> QED
      BY <1>1, <3>1, <3>2 DEF Contract!Rewritten
  <2>6. Contract!Settle(a)
    BY <2>2, <2>4, <2>5 DEF Contract!Settle, PhasesNow
  <2> QED
    BY <2>6
<1>6. CASE RefuseClaim(a) \/ Reject(a)
  <2>1. UNCHANGED <<chatVars, chat, candidate, basis>> /\ ContentNow' = ContentNow
    BY <1>6, ContentKept DEF RefuseClaim, Reject, draftVars
  <2>2. CASE status[a] # "PENDING"
    <3>1. status' = status
      BY <1>6, <2>2 DEF RefuseClaim, Reject, CompareAndSet, LedgerTypeOK
    <3> QED
      BY <2>1, <3>1 DEF Contract!vars, ContentNow
  <2>3. CASE status[a] = "PENDING"
    <3>1. PICK s \in {"EXPIRED", "STALE", "REJECTED"} : status' = [status EXCEPT ![a] = s]
      BY <1>6, <2>3 DEF RefuseClaim, Reject, CompareAndSet, LedgerTypeOK
    <3>2. s \in Statuses
      BY <3>1 DEF Statuses, Resolved
    <3>3. PhasesNow[a] = "open" /\ PhasesNow' = [PhasesNow EXCEPT ![a] = "void"]
      <4>1. PhaseOf(s) = "void"
        BY <3>1, PhaseValues
      <4>2. PhasesNow' = [PhasesNow EXCEPT ![a] = PhaseOf(s)]
        BY <3>1, <3>2, OnePhase
      <4> QED
        BY <1>1, <2>3, <4>1, <4>2, PhaseValues
    <3>4. Contract!Void(a)
      BY <2>1, <3>3 DEF Contract!Void, PhasesNow, ContentNow
    <3> QED
      BY <3>4
  <2> QED
    BY <2>2, <2>3
<1> QED
  BY <1>2, <1>3, <1>4, <1>5, <1>6 DEF OwnStep

LEMMA StepRefines ==
    ASSUME LedgerInv, [LedgerNext]_ledgerVars
    PROVE  [Contract!Next]_(Contract!vars)
<1> USE DEF LedgerInv
<1>1. CASE UNCHANGED ledgerVars
  BY <1>1 DEF ledgerVars, chatVars, draftVars, Contract!vars, View
<1>2. ASSUME NEW c \in Conversations, UpdateNext(c) \/ StateNext(c)
      PROVE  Contract!Next
  BY <1>2, ChatStepRefines DEF Contract!Next
<1>3. ASSUME NEW a \in Approvals, ApprovalNext(a)
      PROVE  [Contract!Next]_(Contract!vars)
  <2>1. CASE \E c \in Conversations, b \in Bodies : CreateApproval(c, a, b, View(c))
    BY <2>1, CreateRefines DEF Contract!Next
  <2>2. CASE \E m \in MessageIds : status[a] = "SENDING" /\ MarkSent(a, m)
    BY <2>2, MarkSentRefines DEF Contract!Next
  <2>3. CASE OwnStep(a)
    BY <2>3, OwnStepRefines DEF Contract!Next
  <2> QED
    BY <1>3, <2>1, <2>2, <2>3, ApprovalNextSplit
<1> QED
  BY <1>1, <1>2, <1>3 DEF LedgerNext

\* Revisions, expiry and compare-and-set together keep the contract: a reply goes
\* out at most once, with the text it was committed with, into the conversation it
\* was written for, and a voided reply never.
THEOREM LedgerImplementsContract == LedgerSpec => ContractSpec
<1>1. LedgerInit => Contract!Init
  BY InitRefines
<1>2. LedgerInv /\ [LedgerNext]_ledgerVars => [Contract!Next]_(Contract!vars)
  BY StepRefines
<1> QED
  BY <1>1, <1>2, LedgerInvariant, PTL DEF LedgerSpec, ContractSpec, Contract!Spec
=============================================================================
