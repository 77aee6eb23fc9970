------------------------------ MODULE Reminders ------------------------------
(***************************************************************************)
(* The owner's one-shot reminders (app/schedules/service.py, runner.py):   *)
(* one loop claims a batch of due reminders, sends them one after the      *)
(* other and switches off those whose delivery Telegram confirmed.  A      *)
(* claim is a lease, so that a claim of a process that died is recovered.  *)
(*                                                                         *)
(* The loop awaits nothing but its sends: an action is the stretch from    *)
(* one answer of Telegram to the next request.                             *)
(*                                                                         *)
(* The definitions whose comment starts with "Slip:" are faulty variants   *)
(* of the definition that follows them; no specification uses them.        *)
(***************************************************************************)
EXTENDS Naturals, FiniteSets

CONSTANTS
    Count,      \* how many reminders the owner creates at most
    Limit,      \* schedule_batch_size
    Lease,      \* schedule_claim_timeout_seconds, in ticks
    Retries,    \* owner_request_retries of the bot
    MaxLosses   \* bound on lost requests and crashes

ASSUME RemindersAssumption ==
    /\ {Count, Lease, Retries, MaxLosses} \subseteq Nat
    /\ Limit \in Nat \ {0}

VARIABLES
    row,        \* the row of `schedules`: WAITING is enabled, DONE is not
    due,        \* reminders whose run_at has passed
    age,        \* ticks since last_run_at; NEVER while that is NULL
    batch,      \* claims the loop still has to deliver
    attempt,    \* which try of the current send is under way, 0 for none
    arrived,    \* whether the owner got the message of that try
    received,   \* how often the owner got each reminder
    losses      \* requests that ended without an answer, and crashes

vars == <<row, due, age, batch, attempt, arrived, received, losses>>
loopVars == <<batch, attempt, arrived>>

-----------------------------------------------------------------------------
Ids == 1..Count

\* A NULL in last_run_at: older than any lease, and it does not age.
Never == Lease + 2

TypeOK ==
    /\ row \in [Ids -> {"ABSENT", "WAITING", "DONE", "DELETED"}]
    /\ due \subseteq Ids
    /\ age \in [Ids -> 0..Never]
    /\ batch \subseteq Ids
    /\ attempt \in 0..Retries + 1
    /\ arrived \in BOOLEAN
    /\ received \in [Ids -> Nat]
    /\ losses \in 0..MaxLosses

Init ==
    /\ row = [r \in Ids |-> "ABSENT"]
    /\ due = {}
    /\ age = [r \in Ids |-> Never]
    /\ batch = {}
    /\ attempt = 0
    /\ arrived = FALSE
    /\ received = [r \in Ids |-> 0]
    /\ losses = 0

-----------------------------------------------------------------------------
(* The owner and the clock.                                                *)

\* reminder_time, create_reminder: ids are given in order, run_at is in the future.
Create(r) ==
    /\ row[r] = "ABSENT"
    /\ \A q \in Ids : q < r => row[q] # "ABSENT"
    /\ row' = [row EXCEPT ![r] = "WAITING"]
    /\ UNCHANGED <<due, age, loopVars, received, losses>>

\* delete_reminder: also from an old list, also while the loop holds the claim.
Delete(r) ==
    /\ row[r] \in {"WAITING", "DONE"}
    /\ row' = [row EXCEPT ![r] = "DELETED"]
    /\ UNCHANGED <<due, age, loopVars, received, losses>>

FallsDue(r) ==
    /\ row[r] = "WAITING"
    /\ due' = due \cup {r}
    /\ UNCHANGED <<row, age, loopVars, received, losses>>

\* A tick of the clock; beyond the lease an age makes no difference.
Tick ==
    /\ age' = [r \in Ids |-> IF age[r] <= Lease THEN age[r] + 1 ELSE age[r]]
    /\ UNCHANGED <<row, due, loopVars, received, losses>>

-----------------------------------------------------------------------------
(* The loop (deliver_due_reminders).                                       *)

\* Slip: a claim is a lock, not a lease.
EligibleIfNeverClaimed == {r \in Ids : row[r] = "WAITING" /\ r \in due /\ age[r] = Never}

\* Slip: the selection forgets that a reminder can be switched off.
EligibleIfPresent ==
    {r \in Ids : row[r] \in {"WAITING", "DONE"} /\ r \in due /\ age[r] > Lease}

\* Enabled, due, and not claimed within the lease.
Eligible == {r \in Ids : row[r] = "WAITING" /\ r \in due /\ age[r] > Lease}

\* The oldest ones, at most Limit of them.
Picked == {r \in Eligible : Cardinality({q \in Eligible : q < r}) < Limit}

\* The reminder whose send is under way: a batch goes from the oldest on.
Current == CHOOSE r \in batch : \A q \in batch : r <= q

\* The loop takes up the claims in `claims`, or goes to sleep if there are none.
TurnsTo(claims) ==
    /\ batch' = claims
    /\ attempt' = IF claims = {} THEN 0 ELSE 1
    /\ arrived' = FALSE

\* claim_due_reminders commits and the first request leaves.
Poll ==
    /\ batch = {}
    /\ Eligible # {}
    /\ age' = [r \in Ids |-> IF r \in Picked THEN 0 ELSE age[r]]
    /\ TurnsTo(Picked)
    /\ UNCHANGED <<row, due, received, losses>>

\* Telegram accepts the message under way.
Arrives ==
    /\ attempt # 0
    /\ ~arrived
    /\ arrived' = TRUE
    /\ received' = [received EXCEPT ![Current] = @ + 1]
    /\ UNCHANGED <<row, due, age, batch, attempt, losses>>

\* Slip: the row is switched off before the outcome is known.
ConfirmedBlindly ==
    /\ attempt # 0
    /\ row' = [row EXCEPT ![Current] = IF @ = "WAITING" THEN "DONE" ELSE @]
    /\ TurnsTo(batch \ {Current})
    /\ UNCHANGED <<due, age, received, losses>>

\* Slip: a delivered reminder is left to its lease.
ConfirmedButLeft ==
    /\ attempt # 0
    /\ arrived
    /\ TurnsTo(batch \ {Current})
    /\ UNCHANGED <<row, due, age, received, losses>>

\* mark_reminder_delivered: nothing to mark if the row was deleted meanwhile.
Confirmed ==
    /\ attempt # 0
    /\ arrived
    /\ row' = [row EXCEPT ![Current] = IF @ = "WAITING" THEN "DONE" ELSE @]
    /\ TurnsTo(batch \ {Current})
    /\ UNCHANGED <<due, age, received, losses>>

Loses ==
    /\ losses < MaxLosses
    /\ losses' = losses + 1

\* Slip: the retries are not counted.
RetriedForever ==
    /\ Loses
    /\ attempt # 0
    /\ attempt' = attempt + 1
    /\ arrived' = FALSE
    /\ UNCHANGED <<row, due, age, batch, received>>

\* A network error: ResilientOwnerBot asks again, though the message may have
\* arrived.
Retried ==
    /\ Loses
    /\ attempt \in 1..Retries
    /\ attempt' = attempt + 1
    /\ arrived' = FALSE
    /\ UNCHANGED <<row, due, age, batch, received>>

\* Any other error, or no retry left: release_reminder_claim.
Failed ==
    /\ Loses
    /\ attempt # 0
    /\ age' = [age EXCEPT ![Current] = IF row[Current] = "WAITING" THEN Never ELSE @]
    /\ TurnsTo(batch \ {Current})
    /\ UNCHANGED <<row, due, received>>

\* The process dies and starts again: the claims stay in the table.
Crash ==
    /\ Loses
    /\ TurnsTo({})
    /\ UNCHANGED <<row, due, age, received>>

-----------------------------------------------------------------------------
Next ==
    \/ \E r \in Ids : Create(r) \/ Delete(r) \/ FallsDue(r)
    \/ Tick
    \/ Poll
    \/ Arrives
    \/ Confirmed
    \/ Retried
    \/ Failed
    \/ Crash

\* The clock goes on, the loop polls, and a request that is not lost is answered.
Fairness == WF_vars(Tick) /\ WF_vars(Poll) /\ WF_vars(Arrives) /\ WF_vars(Confirmed)

Spec == Init /\ [][Next]_vars

FairSpec == Spec /\ Fairness

-----------------------------------------------------------------------------
\* docs/USER_MANUAL_AR.md:289-291: a reminder arrives once; only a lost answer or a
\* crash costs a repetition, and each costs at most one.
RepeatsCostALoss == \A r \in Ids : received[r] <= 1 + losses

\* A reminder is switched off only when the owner has it: no failure, retry or
\* crash marks one that never arrived.
DoneWasReceived == \A r \in Ids : row[r] = "DONE" => received[r] > 0

\* A reminder whose delivery was confirmed does not come again, and neither does one
\* that was deleted before the loop claimed it, whatever leases run out later.
OverIsOver ==
    [][\A r \in Ids :
          row[r] = "DONE" \/ (row[r] = "DELETED" /\ r \notin batch)
              => received'[r] = received[r]]_vars

\* No due reminder is lost, neither by a crash between claim and delivery nor by a
\* failed send nor by the limit of a batch; only the owner's deletion excuses it.
EveryReminderArrives ==
    \A r \in Ids :
        (row[r] = "WAITING" /\ r \in due) ~> (received[r] > 0 \/ row[r] = "DELETED")
=============================================================================
