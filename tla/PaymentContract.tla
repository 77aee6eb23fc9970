--------------------------- MODULE PaymentContract ---------------------------
(***************************************************************************)
(* What the payment button promises, without menus, links, handlers,       *)
(* status codes or crashes: money is taken only for an order that was      *)
(* still open when the payment was allowed; one payment pays an order,     *)
(* even if the order was closed between the permission and the report; the *)
(* customer is told once and of a paid order only; and a payment is done   *)
(* with when it paid its order or the owner knows of it                    *)
(* (docs/SECURITY.md, Payments; docs/TELEGRAM_UI.md).                      *)
(***************************************************************************)
EXTENDS Naturals

CONSTANTS
    Orders,
    Payments     \* attempts to pay

VARIABLES
    account,     \* how each order stands
    money,       \* how far each payment has come, and for which order
    credited,    \* the payments that paid their orders
    told,        \* how often the customer was told of an order
    known        \* the payments the owner knows not to have paid anything

vars == <<account, money, credited, told, known>>

Nothing == [step |-> "nothing"]

Init ==
    /\ account = [o \in Orders |-> "none"]
    /\ money = [q \in Payments |-> Nothing]
    /\ credited = {}
    /\ told = [o \in Orders |-> 0]
    /\ known = {}

Offer(o) ==
    /\ account[o] = "none"
    /\ account' = [account EXCEPT ![o] = "open"]
    /\ UNCHANGED <<money, credited, told, known>>

\* The order expires or is given up: no further payment of it is allowed.
Close(o) ==
    /\ account[o] = "open"
    /\ account' = [account EXCEPT ![o] = "closed"]
    /\ UNCHANGED <<money, credited, told, known>>

\* The payment may go on.
Promise(q, o) ==
    /\ money[q] = Nothing
    /\ account[o] = "open"
    /\ money' = [money EXCEPT ![q] = [step |-> "promised", order |-> o]]
    /\ UNCHANGED <<account, credited, told, known>>

Withdraw(q) ==
    /\ money[q].step = "promised"
    /\ money' = [money EXCEPT ![q] = Nothing]
    /\ UNCHANGED <<account, credited, told, known>>

Take(q) ==
    /\ money[q].step = "promised"
    /\ money' = [money EXCEPT ![q].step = "taken"]
    /\ UNCHANGED <<account, credited, told, known>>

\* The order is paid by this payment, and by no other.
Credit(q) ==
    /\ money[q].step = "taken"
    /\ account[money[q].order] \in {"open", "closed"}
    /\ account' = [account EXCEPT ![money[q].order] = "paid"]
    /\ credited' = credited \cup {q}
    /\ UNCHANGED <<money, told, known>>

Tell(o) ==
    /\ account[o] = "paid"
    /\ told[o] = 0
    /\ told' = [told EXCEPT ![o] = 1]
    /\ UNCHANGED <<account, money, credited, known>>

\* Nothing is left to do for the payment.
Finish(q) ==
    /\ money[q].step = "taken"
    /\ money' = [money EXCEPT ![q].step = "done"]
    /\ known' = IF q \in credited THEN known ELSE known \cup {q}
    /\ UNCHANGED <<account, credited, told>>

Next ==
    \/ \E o \in Orders : Offer(o) \/ Close(o) \/ Tell(o)
    \/ \E q \in Payments, o \in Orders : Promise(q, o)
    \/ \E q \in Payments : Withdraw(q) \/ Take(q) \/ Credit(q) \/ Finish(q)

Spec == Init /\ [][Next]_vars
=============================================================================
