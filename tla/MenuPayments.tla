---------------------------- MODULE MenuPayments ----------------------------
(***************************************************************************)
(* The payment button of the customer menu and the Telegram Stars orders   *)
(* it creates (app/interface/service.py, payments/service.py and the       *)
(* handlers in telegram/interface_ui.py and payment_ui.py).                *)
(*                                                                         *)
(* The owner edits a draft menu and publishes it; a customer taps the      *)
(* button, gets an invoice link and pays it, perhaps twice, perhaps late.  *)
(* Telegram asks before it takes the money and reports it afterwards; its  *)
(* report comes again if the process died before acknowledging it.         *)
(*                                                                         *)
(* The definitions whose comment starts with "Slip:" are faulty variants   *)
(* of the definition that follows them; no specification uses them.        *)
(***************************************************************************)
EXTENDS Integers

CONSTANTS
    Profiles,      \* ids of `menu_profiles`, in the order they are given
    Prices,        \* amounts of stars the owner types
    Orders,        \* ids of `payment_orders`, in the order they are given
    Purchases,     \* attempts to pay an invoice
    Taps,          \* slots for handlers of a tap
    Customer,      \* the contact of the conversation
    Strangers,     \* others whom an invoice link is forwarded to
    MaxCrashes     \* bound on crashes of the process

ASSUME MenuAssumption ==
    /\ {1, 2} \subseteq Profiles
    /\ Profiles \cup Prices \cup Orders \cup {MaxCrashes} \subseteq Nat
    /\ 0 \notin Prices \cup Profiles \cup Orders
    /\ Customer \notin Strangers

VARIABLES
    scope,         \* MenuProfile.scope
    price,         \* the price on each profile's payment button
    wizard,        \* the profile whose button the owner is editing, 0 for none
    seen,          \* profiles whose keyboard some customer has
    tap,           \* what the handler of every tap is doing
    order,         \* the rows of `payment_orders`
    lapsed,        \* orders older than payment_order_ttl_minutes
    links,         \* orders whose invoice link the customer has
    purchase,      \* every attempt to pay, as Telegram and the bot see it
    delivered,     \* how often the success message of an order went out
    alerted,       \* purchases reported to the owner as not matching
    crashes

menuVars == <<scope, price, wizard, seen>>
payVars == <<lapsed, links, purchase, delivered, alerted>>
vars == <<menuVars, tap, order, payVars, crashes>>

-----------------------------------------------------------------------------
\* A profile without the button, and one whose button was deleted; the bound on
\* buttons is that a profile does not get a second one.
NoButton == 0
Deleted == -1

NoOrder == [status |-> "NONE"]

OrderRow == [status : {"CREATED", "PRECHECKOUT", "PAID", "EXPIRED", "FAILED"},
             price : Prices, charge : Purchases \cup {0}]

NoPurchase == [stage |-> "NONE"]

Attempt == [order : Orders, user : Strangers \cup {Customer},
            stage : {"asked", "refused", "approved", "charged", "recorded",
                     "unmatched", "delivered", "settled", "lost"}]

Idle == [pc |-> "idle"]

\* A handler between the callback's answer and the order, or with an order.
Tapped == [pc : {"accepted"}, price : Prices] \cup [pc : {"link", "send", "arrived"}, order : Orders]

TypeOK ==
    /\ scope \in [Profiles -> {"ABSENT", "DRAFT", "DEFAULT", "ARCHIVED"}]
    /\ price \in [Profiles -> Prices \cup {NoButton, Deleted}]
    /\ wizard \in Profiles \cup {0}
    /\ seen \subseteq Profiles
    /\ tap \in [Taps -> {Idle} \cup Tapped]
    /\ order \in [Orders -> {NoOrder} \cup OrderRow]
    /\ lapsed \subseteq Orders
    /\ links \subseteq Orders
    /\ purchase \in [Purchases -> {NoPurchase} \cup Attempt]
    /\ delivered \in [Orders -> Nat]
    /\ alerted \subseteq Purchases
    /\ crashes \in 0..MaxCrashes

\* The owner has opened the menu screen once: an empty menu and its draft.
Init ==
    /\ scope = [p \in Profiles |-> IF p = 1 THEN "DEFAULT" ELSE IF p = 2 THEN "DRAFT" ELSE "ABSENT"]
    /\ price = [p \in Profiles |-> NoButton]
    /\ wizard = 0
    /\ seen = {}
    /\ tap = [t \in Taps |-> Idle]
    /\ order = [o \in Orders |-> NoOrder]
    /\ lapsed = {}
    /\ links = {}
    /\ purchase = [q \in Purchases |-> NoPurchase]
    /\ delivered = [o \in Orders |-> 0]
    /\ alerted = {}
    /\ crashes = 0

-----------------------------------------------------------------------------
(* The owner's menu.                                                       *)

AddButton(p, amount) ==
    /\ scope[p] = "DRAFT"
    /\ price[p] = NoButton
    /\ price' = [price EXCEPT ![p] = amount]
    /\ wizard' = 0
    /\ UNCHANGED <<scope, seen, tap, order, payVars, crashes>>

\* interface_edit: the wizard keeps the id of the button over several messages.
EditButton(p) ==
    /\ scope[p] = "DRAFT"
    /\ price[p] \in Prices
    /\ wizard' = p
    /\ UNCHANGED <<scope, price, seen, tap, order, payVars, crashes>>

\* Slip: the draft is looked up when the wizard starts only.
EditableAnywhere(p) == price[p] # Deleted

\* get_owned_menu_item for the draft scope.
Editable(p) == scope[p] = "DRAFT" /\ price[p] # Deleted

\* _save_button at the end of an edit.
SaveButton(amount) ==
    /\ wizard # 0
    /\ price' = IF Editable(wizard) THEN [price EXCEPT ![wizard] = amount] ELSE price
    /\ wizard' = 0
    /\ UNCHANGED <<scope, seen, tap, order, payVars, crashes>>

DeleteButton(p) ==
    /\ price[p] \in Prices
    /\ Editable(p)
    /\ price' = [price EXCEPT ![p] = Deleted]
    /\ UNCHANGED <<scope, wizard, seen, tap, order, payVars, crashes>>

\* interface_publish_confirm: the draft takes the place of the menu in force, and
\* the next draft starts as its copy.
Publish(p, next) ==
    /\ scope[p] = "DRAFT"
    /\ scope[next] = "ABSENT"
    /\ \A q \in Profiles : q < next => scope[q] # "ABSENT"
    /\ scope' = [q \in Profiles |->
                    IF q = p THEN "DEFAULT" ELSE IF q = next THEN "DRAFT"
                    ELSE IF scope[q] = "DEFAULT" THEN "ARCHIVED" ELSE scope[q]]
    /\ price' = [price EXCEPT ![next] = IF price[p] \in Prices THEN price[p] ELSE NoButton]
    /\ UNCHANGED <<wizard, seen, tap, order, payVars, crashes>>

-----------------------------------------------------------------------------
(* From the button to the invoice link (customer_menu_action).             *)

\* A reply arrives with the menu in force.
MenuShown(p) ==
    /\ scope[p] = "DEFAULT"
    /\ price[p] \in Prices
    /\ seen' = seen \cup {p}
    /\ UNCHANGED <<scope, price, wizard, tap, order, payVars, crashes>>

\* The button must still be in the menu in force; then the callback is answered.
TapButton(t, p) ==
    /\ tap[t] = Idle
    /\ p \in seen
    /\ scope[p] = "DEFAULT"
    /\ tap' = [tap EXCEPT ![t] = [pc |-> "accepted", price |-> price[p]]]
    /\ UNCHANGED <<menuVars, order, payVars, crashes>>

\* create_stars_order, from the button that was read before the await.
CreateOrder(t, o) ==
    /\ tap[t].pc = "accepted"
    /\ order[o] = NoOrder
    /\ \A q \in Orders : q < o => order[q] # NoOrder
    /\ order' = [order EXCEPT ![o] = [status |-> "CREATED", price |-> tap[t].price, charge |-> 0]]
    /\ tap' = [tap EXCEPT ![t] = [pc |-> "link", order |-> o]]
    /\ UNCHANGED <<menuVars, payVars, crashes>>

LinkMade(t) ==
    /\ tap[t].pc = "link"
    /\ tap' = [tap EXCEPT ![t].pc = "send"]
    /\ UNCHANGED <<menuVars, order, payVars, crashes>>

OfferArrives(t) ==
    /\ tap[t].pc = "send"
    /\ links' = links \cup {tap[t].order}
    /\ tap' = [tap EXCEPT ![t].pc = "arrived"]
    /\ UNCHANGED <<menuVars, order, lapsed, purchase, delivered, alerted, crashes>>

OfferConfirmed(t) ==
    /\ tap[t].pc = "arrived"
    /\ tap' = [tap EXCEPT ![t] = Idle]
    /\ UNCHANGED <<menuVars, order, payVars, crashes>>

\* Slip: the order fails whatever became of it meanwhile.
FailedOrderAtOnce(o) == [order EXCEPT ![o].status = "FAILED"]

\* The order of an offer that could not be made or sent.
FailedOrder(o) ==
    [order EXCEPT ![o].status = IF @ = "CREATED" THEN "FAILED" ELSE @]

\* The link or the message failed, or the message arrived and its answer did not.
OfferFails(t) ==
    /\ tap[t].pc \in {"link", "send", "arrived"}
    /\ order' = FailedOrder(tap[t].order)
    /\ tap' = [tap EXCEPT ![t] = Idle]
    /\ UNCHANGED <<menuVars, payVars, crashes>>

Lapse(o) ==
    /\ order[o] # NoOrder
    /\ lapsed' = lapsed \cup {o}
    /\ UNCHANGED <<menuVars, tap, order, links, purchase, delivered, alerted, crashes>>

-----------------------------------------------------------------------------
(* Paying the invoice.                                                     *)

\* Somebody opens the link and confirms: Telegram sends a pre-checkout query.
PayInvoice(q, o, user) ==
    /\ purchase[q] = NoPurchase
    /\ o \in links
    /\ purchase' = [purchase EXCEPT ![q] = [order |-> o, user |-> user, stage |-> "asked"]]
    /\ UNCHANGED <<menuVars, tap, order, lapsed, links, delivered, alerted, crashes>>

PurchaseGoes(q, stage) == purchase' = [purchase EXCEPT ![q].stage = stage]

\* Slip: it is cancelled, a status that nothing reads.
CancelTooLate(o) == [order EXCEPT ![o].status = IF @ = "PAID" THEN @ ELSE "CANCELLED"]

\* What becomes of an order that is asked for too late.
Expire(o) == [order EXCEPT ![o].status = IF @ = "PAID" THEN @ ELSE "EXPIRED"]

\* validate_pre_checkout.
PreCheckout(q) ==
    /\ purchase[q].stage = "asked"
    /\ LET o == purchase[q].order
           open == order[o].status \in {"CREATED", "PRECHECKOUT"}
           ok == o \notin lapsed /\ open /\ purchase[q].user = Customer
       IN  /\ order' = IF o \in lapsed THEN Expire(o)
                       ELSE IF ok THEN [order EXCEPT ![o].status = "PRECHECKOUT"] ELSE order
           /\ PurchaseGoes(q, IF ok THEN "approved" ELSE "refused")
    /\ UNCHANGED <<menuVars, tap, lapsed, links, delivered, alerted, crashes>>

\* The answer is late, lost, or never given because the check itself failed.
PreCheckoutLost(q) ==
    /\ purchase[q].stage \in {"asked", "approved"}
    /\ PurchaseGoes(q, "refused")
    /\ UNCHANGED <<menuVars, tap, order, lapsed, links, delivered, alerted, crashes>>

\* Telegram takes the money.
Charge(q) ==
    /\ purchase[q].stage = "approved"
    /\ PurchaseGoes(q, "charged")
    /\ UNCHANGED <<menuVars, tap, order, lapsed, links, delivered, alerted, crashes>>

Matches(q) == purchase[q].user = Customer

\* Slip: a repeated report counts as the first one.
AnyReportIsFirst(q) ==
    LET o == purchase[q].order IN order[o].charge \in {0, q} /\ Matches(q)

\* Slip: only an order that is still open can be paid.
FirstReportIfOpen(q) ==
    LET o == purchase[q].order IN order[o].status \in {"CREATED", "PRECHECKOUT"} /\ Matches(q)

\* record_successful_payment takes the report as the first of its order.
FirstReport(q) ==
    LET o == purchase[q].order IN order[o].status # "PAID" /\ Matches(q)

\* Slip: every report on a paid order is taken as a repetition.
RepeatedOrSecond(q) ==
    LET o == purchase[q].order IN order[o].status = "PAID"

\* ... and as a repetition of the report that was recorded.
RepeatedReport(q) ==
    LET o == purchase[q].order IN order[o].status = "PAID" /\ order[o].charge = q

\* payment_success until its first await.
Report(q) ==
    /\ purchase[q].stage = "charged"
    /\ LET o == purchase[q].order
       IN  IF FirstReport(q)
           THEN /\ order' = [order EXCEPT ![o].status = "PAID", ![o].charge = q]
                /\ PurchaseGoes(q, "recorded")
           ELSE /\ PurchaseGoes(q, IF RepeatedReport(q) THEN "settled" ELSE "unmatched")
                /\ UNCHANGED order
    /\ UNCHANGED <<menuVars, tap, lapsed, links, delivered, alerted, crashes>>

\* The success message goes to the customer.
Deliver(q) ==
    /\ purchase[q].stage = "recorded"
    /\ delivered' = [delivered EXCEPT ![purchase[q].order] = @ + 1]
    /\ PurchaseGoes(q, "delivered")
    /\ UNCHANGED <<menuVars, tap, order, lapsed, links, alerted, crashes>>

\* The owner hears of a payment, or of a report that matched nothing.
TellOwner(q) ==
    /\ purchase[q].stage \in {"delivered", "unmatched"}
    /\ alerted' = IF purchase[q].stage = "unmatched" THEN alerted \cup {q} ELSE alerted
    /\ PurchaseGoes(q, "settled")
    /\ UNCHANGED <<menuVars, tap, order, lapsed, links, delivered, crashes>>

\* One of these messages fails; nothing tries again.
ReportFails(q) ==
    /\ purchase[q].stage \in {"recorded", "delivered", "unmatched"}
    /\ PurchaseGoes(q, "lost")
    /\ UNCHANGED <<menuVars, tap, order, lapsed, links, delivered, alerted, crashes>>

\* The process dies.  A report that is being handled comes again or, if Telegram
\* was polled since, is gone; a wizard and all taps are gone.
Crash(again) ==
    /\ crashes < MaxCrashes
    /\ crashes' = crashes + 1
    /\ wizard' = 0
    /\ tap' = [t \in Taps |-> Idle]
    /\ purchase' = [q \in Purchases |->
          IF purchase[q].stage \in {"recorded", "delivered", "unmatched"}
          THEN [purchase[q] EXCEPT !.stage = IF q \in again THEN "charged" ELSE "lost"]
          ELSE purchase[q]]
    /\ UNCHANGED <<scope, price, seen, order, lapsed, links, delivered, alerted>>

-----------------------------------------------------------------------------
OwnerStep ==
    \/ \E p \in Profiles, amount \in Prices : AddButton(p, amount)
    \/ \E p \in Profiles : EditButton(p) \/ DeleteButton(p)
    \/ \E amount \in Prices : SaveButton(amount)
    \/ \E p, next \in Profiles : Publish(p, next)

TapStep(t) ==
    \/ \E p \in Profiles : TapButton(t, p)
    \/ \E o \in Orders : CreateOrder(t, o)
    \/ LinkMade(t)
    \/ OfferArrives(t)
    \/ OfferConfirmed(t)
    \/ OfferFails(t)

PurchaseStep(q) ==
    \/ \E o \in Orders, user \in Strangers \cup {Customer} : PayInvoice(q, o, user)
    \/ PreCheckout(q)
    \/ PreCheckoutLost(q)
    \/ Charge(q)
    \/ Report(q)
    \/ Deliver(q)
    \/ TellOwner(q)
    \/ ReportFails(q)

Next ==
    \/ OwnerStep
    \/ \E p \in Profiles : MenuShown(p)
    \/ \E t \in Taps : TapStep(t)
    \/ \E o \in Orders : Lapse(o)
    \/ \E q \in Purchases : PurchaseStep(q)
    \/ \E again \in SUBSET Purchases : Crash(again)

Spec == Init /\ [][Next]_vars

\* Telegram delivers the reports it has, and the process polls.
FairSpec == Spec /\ \A q \in Purchases : WF_vars(Report(q))

-----------------------------------------------------------------------------
\* docs/TELEGRAM_UI.md, interface_ui.py:306: the owner edits drafts only; a menu that
\* customers see or saw stays as it was published, also for a wizard begun before.
PublishedIsFrozen ==
    [][\A p \in Profiles : scope[p] \in {"DEFAULT", "ARCHIVED"} => price'[p] = price[p]]_vars

\* An order that was given up as FAILED is never charged, even if its link reached
\* the customer before the failure was noticed.
FailedIsNeverCharged ==
    \A q \in Purchases :
        purchase[q].stage \notin {"NONE", "asked", "refused"} =>
            order[purchase[q].order].status # "FAILED"

\* docs/SECURITY.md:92-93: the success message goes out after a matching payment
\* only and at most once, however often Telegram reports it.
DeliveredOnce ==
    \A o \in Orders :
        /\ delivered[o] <= 1
        /\ delivered[o] = 1 => order[o].status = "PAID"

\* Every charge that the bot has dealt with is the recorded charge of its order or
\* was reported to the owner: a second payment of one link is not swallowed.
MoneyIsAccounted ==
    \A q \in Purchases :
        purchase[q].stage = "settled" => order[purchase[q].order].charge = q \/ q \in alerted

\* Money that Telegram took ends in a paid order, even if the order expired between
\* the approval and the report.
ChargedIsPaid ==
    \A q \in Purchases :
        \A o \in Orders :
            (purchase[q].stage = "charged" /\ purchase[q].order = o) ~> (order[o].status = "PAID")

-----------------------------------------------------------------------------
(* The bot keeps the contract of payments.                                 *)

AccountOf(status) ==
    CASE status = "NONE" -> "none"
      [] status \in {"CREATED", "PRECHECKOUT"} -> "open"
      [] status = "PAID" -> "paid"
      [] OTHER -> "closed"

\* Neither asking nor a refusal moves money; a report that is not dealt with, or was
\* lost, leaves it taken.
MoneyOf(p) ==
    CASE p.stage \in {"NONE", "asked", "refused"} -> [step |-> "nothing"]
      [] p.stage = "approved" -> [step |-> "promised", order |-> p.order]
      [] p.stage = "settled" -> [step |-> "done", order |-> p.order]
      [] OTHER -> [step |-> "taken", order |-> p.order]

HasCharge(q) ==
    /\ order[purchase[q].order].status = "PAID"
    /\ order[purchase[q].order].charge = q

AccountsNow == [o \in Orders |-> AccountOf(order[o].status)]

MoneyNow == [q \in Purchases |-> MoneyOf(purchase[q])]

Credited == {q \in Purchases : purchase[q] # NoPurchase /\ HasCharge(q)}

Contract == INSTANCE PaymentContract WITH
    Payments <- Purchases,
    account <- AccountsNow,
    money <- MoneyNow,
    credited <- Credited,
    told <- delivered,
    known <- alerted

\* Status codes, repeated reports and crashes keep the contract: money is taken only
\* for an order that was open when Telegram asked, one payment pays it, the customer
\* is told once, and no payment is done with that neither paid nor was reported.
KeepsPaymentContract == Contract!Spec
=============================================================================
