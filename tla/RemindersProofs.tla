--------------------------- MODULE RemindersProofs ---------------------------
(***************************************************************************)
(* Proofs about the reminders, for every number of reminders, every batch  *)
(* size, lease and number of retries, and every bound on the losses.       *)
(*                                                                         *)
(* The argument: while a reminder is still to be sent, each time the owner *)
(* got it was paid for by a loss; only the try whose message has arrived,  *)
(* or a reminder that is over, may be one ahead (Paid).  That no claim is  *)
(* ever held on a row that was switched off (ClaimsOpen) closes the circle. *)
(***************************************************************************)
EXTENDS Reminders, FiniteSetTheorems, TLAPS

\* The loop sends exactly while it holds claims.
SendsWhileClaimed ==
    /\ attempt = 0 <=> batch = {}
    /\ attempt = 0 => ~arrived

\* A claim is on a row that waits, or that the owner deleted meanwhile.
ClaimsOpen == \A r \in batch : row[r] \in {"WAITING", "DELETED"}

\* Nobody got a reminder that does not exist yet.
AbsentUnreceived == \A r \in Ids : row[r] = "ABSENT" => received[r] = 0

ArrivedReceived == arrived => received[Current] > 0

\* A send of r may follow, and its message has not arrived yet.
Outstanding(r) ==
    /\ row[r] = "WAITING" \/ r \in batch
    /\ ~(arrived /\ r = Current)

Paid == \A r \in Ids : received[r] <= losses + IF Outstanding(r) THEN 0 ELSE 1

RemindersInv ==
    /\ TypeOK
    /\ SendsWhileClaimed
    /\ ClaimsOpen
    /\ AbsentUnreceived
    /\ ArrivedReceived
    /\ DoneWasReceived
    /\ Paid

-----------------------------------------------------------------------------
(* The reminder whose send is under way is one of the batch.               *)

\* A set of natural numbers has a least member: of the intervals from 0 to a member,
\* one contains no other.
LEMMA Least ==
    ASSUME NEW S, S \subseteq Nat, S # {}
    PROVE  \E x \in S : \A y \in S : x <= y
<1> DEFINE Below == {0..x : x \in S}
<1>1. \A x \in Nat : IsFiniteSet(0..x) /\ 0..x \subseteq Nat
  BY FS_Interval
<1>2. Below \subseteq FiniteSubsetsOf(Nat) /\ Below # {}
  BY <1>1 DEF FiniteSubsetsOf
<1>3. PICK b \in Below : \A c \in Below : <<c, b>> \notin StrictSubsetOrdering(Nat)
  <2> HIDE DEF Below
  <2> QED BY <1>2, FS_StrictSubsetOrderingWellFounded, WFMin
<1>4. PICK x \in S : b = 0..x
  OBVIOUS
<1>5. ASSUME NEW y \in S, y < x PROVE FALSE
  <2>1. 0..y \in Below
    OBVIOUS
  <2>2. 0..y \subseteq 0..x /\ 0..y # 0..x
    BY <1>5
  <2>3. <<0..y, 0..x>> \in StrictSubsetOrdering(Nat)
    BY <1>1, <2>2 DEF StrictSubsetOrdering
  <2> QED BY <1>3, <1>4, <2>1, <2>3
<1>6. \A y \in S : x <= y
  BY <1>5
<1> QED BY <1>6

LEMMA CurrentInBatch ==
    ASSUME TypeOK, SendsWhileClaimed, attempt # 0
    PROVE  Current \in batch /\ Current \in Ids
<1>1. batch \subseteq Nat /\ batch # {}
  BY RemindersAssumption DEF TypeOK, SendsWhileClaimed, Ids
<1>2. \E r \in batch : \A q \in batch : r <= q
  BY <1>1, Least
<1> QED
  BY <1>2 DEF Current, TypeOK

-----------------------------------------------------------------------------
(* Every step keeps the invariant.                                         *)

\* The set in the assumption, member by member.
LEMMA Constants == Count \in Nat /\ Lease \in Nat /\ Retries \in Nat /\ MaxLosses \in Nat
<1>1. \A n \in {Count, Lease, Retries, MaxLosses} : n \in Nat
  BY RemindersAssumption
<1> QED
  BY <1>1

\* The loop that turns to other claims, and the count of losses, stay in their types.
LEMMA TurnsToTyped ==
    ASSUME NEW claims \in SUBSET Ids, TurnsTo(claims)
    PROVE  batch' \subseteq Ids /\ attempt' \in 0..Retries + 1 /\ arrived' \in BOOLEAN
<1>1. attempt' = 0 \/ attempt' = 1
  BY DEF TurnsTo
<1>2. attempt' \in 0..Retries + 1
  BY <1>1, Constants
<1>3. batch' \subseteq Ids /\ arrived' \in BOOLEAN
  BY DEF TurnsTo
<1> QED
  BY <1>2, <1>3

LEMMA LosesTyped ==
    ASSUME TypeOK, Loses
    PROVE  losses' \in 0..MaxLosses
  BY Constants DEF TypeOK, Loses

LEMMA InitInv == Init => RemindersInv
<1> SUFFICES ASSUME Init PROVE RemindersInv
  OBVIOUS
<1>1. TypeOK
  <2> USE DEF Init
  <2>1. row \in [Ids -> {"ABSENT", "WAITING", "DONE", "DELETED"}] /\ received \in [Ids -> Nat]
    OBVIOUS
  <2>2. age \in [Ids -> 0..Never]
    BY Constants DEF Never
  <2>3. attempt \in 0..Retries + 1 /\ losses \in 0..MaxLosses
    BY Constants
  <2> QED
    BY <2>1, <2>2, <2>3 DEF TypeOK
<1>2. SendsWhileClaimed /\ ClaimsOpen /\ AbsentUnreceived /\ ArrivedReceived
  BY DEF Init, SendsWhileClaimed, ClaimsOpen, AbsentUnreceived, ArrivedReceived
<1>3. DoneWasReceived /\ Paid
  BY DEF Init, DoneWasReceived, Paid, Outstanding
<1> QED
  BY <1>1, <1>2, <1>3 DEF RemindersInv

\* What the owner does to a row.
LEMMA CreateInv ==
    ASSUME RemindersInv, NEW r \in Ids, Create(r)
    PROVE  RemindersInv'
<1> USE DEF RemindersInv, Create, loopVars
<1>1. TypeOK' /\ SendsWhileClaimed' /\ AbsentUnreceived' /\ DoneWasReceived'
  BY DEF TypeOK, SendsWhileClaimed, AbsentUnreceived, DoneWasReceived
<1>2. r \notin batch
  BY DEF ClaimsOpen
<1>3. ClaimsOpen'
  BY <1>2 DEF ClaimsOpen, TypeOK
<1>4. Current' = Current
  BY DEF Current
<1>5. ArrivedReceived'
  BY <1>4 DEF ArrivedReceived
<1>6. received[r] = 0
  BY DEF AbsentUnreceived
<1>7. Paid'
  BY <1>4, <1>6 DEF Paid, Outstanding, TypeOK
<1> QED
  BY <1>1, <1>3, <1>5, <1>7

LEMMA DeleteInv ==
    ASSUME RemindersInv, NEW r \in Ids, Delete(r)
    PROVE  RemindersInv'
<1> USE DEF RemindersInv, Delete, loopVars
<1>1. TypeOK' /\ SendsWhileClaimed' /\ AbsentUnreceived' /\ DoneWasReceived'
  BY DEF TypeOK, SendsWhileClaimed, AbsentUnreceived, DoneWasReceived
<1>2. ClaimsOpen'
  BY DEF ClaimsOpen, TypeOK
<1>3. Current' = Current
  BY DEF Current
<1>4. ArrivedReceived'
  BY <1>3 DEF ArrivedReceived
<1>5. Paid'
  BY <1>3 DEF Paid, Outstanding, TypeOK
<1> QED
  BY <1>1, <1>2, <1>4, <1>5

\* The clock changes neither a row nor what the owner got.
LEMMA ClockInv ==
    ASSUME RemindersInv, Tick \/ \E r \in Ids : FallsDue(r)
    PROVE  RemindersInv'
<1> USE DEF RemindersInv, Tick, FallsDue, loopVars
<1>1. TypeOK'
  BY Constants DEF TypeOK, Never
<1>2. UNCHANGED <<row, batch, attempt, arrived, received, losses>>
  OBVIOUS
<1>3. Current' = Current
  BY <1>2 DEF Current
<1>4. SendsWhileClaimed' /\ ClaimsOpen' /\ AbsentUnreceived'
  BY <1>2 DEF SendsWhileClaimed, ClaimsOpen, AbsentUnreceived
<1>5. ArrivedReceived' /\ DoneWasReceived' /\ Paid'
  BY <1>2, <1>3 DEF ArrivedReceived, DoneWasReceived, Paid, Outstanding
<1> QED
  BY <1>1, <1>4, <1>5

\* Only waiting rows are claimed.
LEMMA PollInv ==
    ASSUME RemindersInv, Poll
    PROVE  RemindersInv'
<1> USE DEF RemindersInv, Poll, TurnsTo
<1>1. Picked \subseteq Ids /\ \A r \in Picked : row[r] = "WAITING"
  BY DEF Picked, Eligible
<1>2. TypeOK'
  <2>1. age' \in [Ids -> 0..Never]
    BY Constants DEF TypeOK, Never
  <2>2. batch' \subseteq Ids /\ attempt' \in 0..Retries + 1 /\ arrived' \in BOOLEAN
    <3>1. TurnsTo(Picked)
      OBVIOUS
    <3> QED
      BY <1>1, <3>1, TurnsToTyped
  <2> QED
    BY <2>1, <2>2 DEF TypeOK
<1>3. SendsWhileClaimed' /\ ClaimsOpen' /\ AbsentUnreceived' /\ ArrivedReceived'
  BY <1>1 DEF SendsWhileClaimed, ClaimsOpen, AbsentUnreceived, ArrivedReceived
<1>4. DoneWasReceived'
  BY DEF DoneWasReceived
<1>5. ~arrived
  BY DEF SendsWhileClaimed
<1>6. \A r \in Ids : Outstanding(r)' <=> Outstanding(r)
  BY <1>1, <1>5 DEF Outstanding
<1>7. Paid'
  BY <1>6 DEF Paid
<1> QED
  BY <1>2, <1>3, <1>4, <1>7

\* The owner gets the message under way, which was outstanding.
LEMMA ArrivesInv ==
    ASSUME RemindersInv, Arrives
    PROVE  RemindersInv'
<1> USE DEF RemindersInv, Arrives
<1>1. Current \in batch /\ Current \in Ids /\ Current' = Current
  BY CurrentInBatch DEF Current
<1>2. TypeOK' /\ SendsWhileClaimed' /\ ClaimsOpen'
  <2>1. received' \in [Ids -> Nat]
    BY <1>1 DEF TypeOK
  <2>2. arrived' \in BOOLEAN
    OBVIOUS
  <2> QED
    BY <2>1, <2>2 DEF TypeOK, SendsWhileClaimed, ClaimsOpen
<1>3. row[Current] \in {"WAITING", "DELETED"}
  BY <1>1 DEF ClaimsOpen
<1>4. AbsentUnreceived' /\ ArrivedReceived' /\ DoneWasReceived'
  BY <1>1, <1>3 DEF AbsentUnreceived, ArrivedReceived, DoneWasReceived, TypeOK
<1>5. Outstanding(Current) /\ ~Outstanding(Current)'
  BY <1>1 DEF Outstanding
<1>6. \A r \in Ids \ {Current} : Outstanding(r)' <=> Outstanding(r)
  BY <1>1 DEF Outstanding
<1>7. Paid'
  BY <1>1, <1>5, <1>6 DEF Paid, TypeOK
<1> QED
  BY <1>2, <1>4, <1>7

\* A confirmed reminder leaves the batch and is over.
LEMMA ConfirmedInv ==
    ASSUME RemindersInv, Confirmed
    PROVE  RemindersInv'
<1> USE DEF RemindersInv, Confirmed, TurnsTo
<1>1. Current \in batch /\ Current \in Ids
  BY CurrentInBatch
<1>2. TypeOK'
  <2>1. row' \in [Ids -> {"ABSENT", "WAITING", "DONE", "DELETED"}]
    BY DEF TypeOK
  <2>2. batch' \subseteq Ids /\ attempt' \in 0..Retries + 1 /\ arrived' \in BOOLEAN
    <3>1. batch \ {Current} \in SUBSET Ids /\ TurnsTo(batch \ {Current})
      BY DEF TypeOK
    <3> QED
      BY <3>1, TurnsToTyped
  <2> QED
    BY <2>1, <2>2 DEF TypeOK
<1>3. SendsWhileClaimed' /\ ClaimsOpen' /\ AbsentUnreceived' /\ ArrivedReceived'
  BY <1>1 DEF SendsWhileClaimed, ClaimsOpen, AbsentUnreceived, ArrivedReceived, TypeOK
<1>4. DoneWasReceived'
  BY DEF DoneWasReceived, ArrivedReceived, TypeOK
<1>5. ASSUME NEW r \in Ids
      PROVE  received'[r] <= losses' + IF Outstanding(r)' THEN 0 ELSE 1
  <2>1. received[r] <= losses + IF Outstanding(r) THEN 0 ELSE 1
    BY DEF Paid
  <2>2. CASE r = Current
    <3>1. ~(row'[r] = "WAITING" \/ r \in batch')
      BY <1>1, <2>2 DEF TypeOK
    <3>2. ~Outstanding(r)'
      BY <3>1 DEF Outstanding
    <3>3. ~Outstanding(r)
      BY <2>2 DEF Outstanding
    <3> QED
      BY <2>1, <3>2, <3>3
  <2>3. CASE r # Current
    <3>1. row'[r] = row[r] /\ (r \in batch' <=> r \in batch)
      BY <2>3 DEF TypeOK
    <3>2. Outstanding(r)' <=> Outstanding(r)
      BY <2>3, <3>1 DEF Outstanding
    <3> QED
      BY <2>1, <3>2
  <2> QED
    BY <2>2, <2>3
<1>6. Paid'
  BY <1>5 DEF Paid
<1> QED
  BY <1>2, <1>3, <1>4, <1>6

\* Whatever is lost pays for one message more than the owner may have by now.
LEMMA LossPays ==
    ASSUME RemindersInv, Loses, UNCHANGED received
    PROVE  Paid'
<1>1. \A r \in Ids : received[r] <= 1 + losses
  BY DEF RemindersInv, TypeOK, Paid
<1>2. losses' = losses + 1
  BY DEF Loses
<1> QED
  BY <1>1, <1>2 DEF RemindersInv, TypeOK, Paid

LEMMA RetriedInv ==
    ASSUME RemindersInv, Retried
    PROVE  RemindersInv'
<1> USE DEF RemindersInv, Retried, Loses
<1>1. TypeOK'
  <2>1. attempt' \in 0..Retries + 1
    BY Constants
  <2>2. arrived' \in BOOLEAN
    OBVIOUS
  <2> QED
    BY <2>1, <2>2, LosesTyped DEF TypeOK
<1>2. SendsWhileClaimed' /\ ClaimsOpen' /\ AbsentUnreceived' /\ ArrivedReceived'
  BY Constants
  DEF TypeOK, SendsWhileClaimed, ClaimsOpen, AbsentUnreceived, ArrivedReceived
<1>3. DoneWasReceived' /\ Paid'
  BY LossPays DEF DoneWasReceived
<1> QED
  BY <1>1, <1>2, <1>3

LEMMA FailedInv ==
    ASSUME RemindersInv, Failed
    PROVE  RemindersInv'
<1> USE DEF RemindersInv, Failed, Loses, TurnsTo
<1>1. TypeOK'
  <2>1. age' \in [Ids -> 0..Never]
    <3>1. Never \in 0..Never
      BY Constants DEF Never
    <3> QED
      BY <3>1 DEF TypeOK
  <2>2. batch' \subseteq Ids /\ attempt' \in 0..Retries + 1 /\ arrived' \in BOOLEAN
    <3>1. batch \ {Current} \in SUBSET Ids /\ TurnsTo(batch \ {Current})
      BY DEF TypeOK
    <3> QED
      BY <3>1, TurnsToTyped
  <2> QED
    BY <2>1, <2>2, LosesTyped DEF TypeOK
<1>2. SendsWhileClaimed' /\ ClaimsOpen' /\ AbsentUnreceived' /\ ArrivedReceived'
  BY DEF SendsWhileClaimed, ClaimsOpen, AbsentUnreceived, ArrivedReceived
<1>3. DoneWasReceived' /\ Paid'
  BY LossPays DEF DoneWasReceived
<1> QED
  BY <1>1, <1>2, <1>3

LEMMA CrashInv ==
    ASSUME RemindersInv, Crash
    PROVE  RemindersInv'
<1> USE DEF RemindersInv, Crash, Loses, TurnsTo
<1>1. TypeOK'
  <2>1. batch' \subseteq Ids /\ attempt' \in 0..Retries + 1 /\ arrived' \in BOOLEAN
    <3>1. {} \in SUBSET Ids /\ TurnsTo({})
      OBVIOUS
    <3> QED
      BY <3>1, TurnsToTyped
  <2> QED
    BY <2>1, LosesTyped DEF TypeOK
<1>2. SendsWhileClaimed' /\ ClaimsOpen' /\ AbsentUnreceived' /\ ArrivedReceived'
  BY DEF SendsWhileClaimed, ClaimsOpen, AbsentUnreceived, ArrivedReceived
<1>3. DoneWasReceived' /\ Paid'
  BY LossPays DEF DoneWasReceived
<1> QED
  BY <1>1, <1>2, <1>3

LEMMA StutterInv ==
    ASSUME RemindersInv, UNCHANGED vars
    PROVE  RemindersInv'
<1>1. Current' = Current
  BY DEF vars, Current
<1> QED
  BY <1>1
  DEF vars, RemindersInv, TypeOK, SendsWhileClaimed, ClaimsOpen, AbsentUnreceived,
      ArrivedReceived, DoneWasReceived, Paid, Outstanding

LEMMA StepInv ==
    ASSUME RemindersInv, [Next]_vars
    PROVE  RemindersInv'
<1>1. ASSUME NEW r \in Ids, Create(r) \/ Delete(r) \/ FallsDue(r)
      PROVE  RemindersInv'
  BY <1>1, CreateInv, DeleteInv, ClockInv
<1>2. CASE Tick
  BY <1>2, ClockInv
<1>3. CASE Poll
  BY <1>3, PollInv
<1>4. CASE Arrives
  BY <1>4, ArrivesInv
<1>5. CASE Confirmed
  BY <1>5, ConfirmedInv
<1>6. CASE Retried
  BY <1>6, RetriedInv
<1>7. CASE Failed
  BY <1>7, FailedInv
<1>8. CASE Crash
  BY <1>8, CrashInv
<1>9. CASE UNCHANGED vars
  BY <1>9, StutterInv
<1> QED
  BY <1>1, <1>2, <1>3, <1>4, <1>5, <1>6, <1>7, <1>8, <1>9 DEF Next

\* The invariant the theorems below rest on holds in every reachable state.
LEMMA AlwaysInv == Spec => []RemindersInv
<1> QED
  BY InitInv, StepInv, PTL DEF Spec

-----------------------------------------------------------------------------
(* What follows.                                                           *)

\* The state of the table and of the loop (app/schedules/service.py, runner.py) is
\* well-formed: the loop's try never exceeds the retries.
THEOREM RemindersTypes == Spec => []TypeOK
<1>1. RemindersInv => TypeOK
  BY DEF RemindersInv
<1> QED
  BY <1>1, AlwaysInv, PTL

\* The owner gets a reminder once, and once more at most for each request whose answer
\* was lost and each crash, however leases, batches and retries fall together.
THEOREM RepetitionsAreBounded == Spec => []RepeatsCostALoss
<1>1. RemindersInv => RepeatsCostALoss
  BY DEF RemindersInv, TypeOK, Paid, RepeatsCostALoss
<1> QED
  BY <1>1, AlwaysInv, PTL

\* mark_reminder_delivered never switches off a reminder that the owner did not get.
THEOREM DoneMeansReceived == Spec => []DoneWasReceived
<1>1. RemindersInv => DoneWasReceived
  BY DEF RemindersInv
<1> QED
  BY <1>1, AlwaysInv, PTL

\* What was delivered, or deleted outside the loop's batch, stays over: the one step
\* that reaches the owner is about a claimed row, and no claim is on a delivered one.
THEOREM OverStaysOver == Spec => OverIsOver
<1> DEFINE Over(r) == row[r] = "DONE" \/ (row[r] = "DELETED" /\ r \notin batch)
<1>1. ASSUME RemindersInv, Next, NEW r \in Ids, Over(r)
      PROVE  received'[r] = received[r]
  <2>1. CASE Arrives
    <3>1. Current \in batch /\ row[Current] \in {"WAITING", "DELETED"}
      BY <1>1, <2>1, CurrentInBatch DEF RemindersInv, Arrives, ClaimsOpen
    <3>2. r # Current
      BY <1>1, <3>1
    <3> QED
      BY <1>1, <2>1, <3>2 DEF Arrives, RemindersInv, TypeOK
  <2>2. CASE ~Arrives
    <3>1. UNCHANGED received
      BY <1>1, <2>2
      DEF Next, Create, Delete, FallsDue, Tick, Poll, Confirmed, Retried, Failed, Crash
    <3> QED
      BY <3>1
  <2> QED
    BY <2>1, <2>2
<1>2. RemindersInv /\ [Next]_vars =>
        [\A r \in Ids :
            row[r] = "DONE" \/ (row[r] = "DELETED" /\ r \notin batch)
                => received'[r] = received[r]]_vars
  BY <1>1
<1> QED
  BY <1>2, AlwaysInv, PTL DEF Spec, OverIsOver
=============================================================================
