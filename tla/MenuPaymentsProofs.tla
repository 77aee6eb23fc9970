-------------------------- MODULE MenuPaymentsProofs --------------------------
(***************************************************************************)
(* Proofs about menus and payments, for any number of menus, orders,       *)
(* attempts to pay, taps and people.                                       *)
(*                                                                         *)
(* The argument: whatever happens to an order, it exists for good, stays   *)
(* as it is once it is paid, and does not fall back to an unpaid CREATED   *)
(* after a pre-checkout (OrderKeeps).  The attempt whose report was        *)
(* recorded holds the charge of its order (HasCharge), so of two attempts  *)
(* on one order only one may deliver, and it does so once.                 *)
(***************************************************************************)
EXTENDS MenuPayments, TLAPS

\* Whatever the customer has, or a handler works on, is about an order that exists.
OrdersExist ==
    /\ \A o \in links : order[o] # NoOrder
    /\ \A t \in Taps : tap[t].pc \in {"link", "send", "arrived"} => order[tap[t].order] # NoOrder
    /\ \A q \in Purchases : purchase[q] # NoPurchase => order[purchase[q].order] # NoOrder

\* A keyboard that a customer has came from a published menu with the button.
SeenIsPublished ==
    \A p \in seen : scope[p] \in {"DEFAULT", "ARCHIVED"} /\ price[p] \in Prices

Held == {"PRECHECKOUT", "PAID", "EXPIRED"}

\* An order that was approved once can no longer fail.
ApprovedIsHeld ==
    \A q \in Purchases :
        purchase[q].stage \notin {"NONE", "asked", "refused"} =>
            order[purchase[q].order].status \in Held

RecordedHasCharge ==
    \A q \in Purchases :
        /\ purchase[q].stage \in {"recorded", "delivered"} => HasCharge(q)
        /\ purchase[q].stage = "recorded" => delivered[purchase[q].order] = 0

SettledHasCharge ==
    \A q \in Purchases : purchase[q].stage = "settled" => HasCharge(q) \/ q \in alerted

PaymentInv ==
    /\ TypeOK
    /\ OrdersExist
    /\ SeenIsPublished
    /\ ApprovedIsHeld
    /\ RecordedHasCharge
    /\ SettledHasCharge
    /\ DeliveredOnce

\* A paid order names an attempt to pay it, and an attempt that matched nothing did not
\* pay: with these an order moves exactly as the contract of payments says.
ChargesAreReal ==
    \A o \in Orders :
        order[o].status = "PAID" =>
            LET q == order[o].charge
            IN  q \in Purchases /\ purchase[q] # NoPurchase /\ purchase[q].order = o

UnmatchedPaysNothing ==
    \A q \in Purchases : purchase[q].stage = "unmatched" => ~HasCharge(q)

ChargeInv == ChargesAreReal /\ UnmatchedPaysNothing

-----------------------------------------------------------------------------
(* What no step does to an order.                                          *)

OrderKeeps(o) ==
    /\ order[o] # NoOrder => order'[o] # NoOrder
    /\ order[o].status = "PAID" => order'[o] = order[o]
    /\ order[o].status \in Held => order'[o].status \in Held

\* A change of the status alone.
LEMMA StatusChange ==
    ASSUME TypeOK, NEW o \in Orders, order[o] # NoOrder,
           NEW st \in {"CREATED", "PRECHECKOUT", "PAID", "EXPIRED", "FAILED"}
    PROVE  /\ [order[o] EXCEPT !.status = st] \in OrderRow
           /\ [order[o] EXCEPT !.status = st].status = st
           /\ [order[o] EXCEPT !.status = st].charge = order[o].charge
<1>1. order[o] \in OrderRow
  BY DEF TypeOK
<1> QED BY <1>1 DEF OrderRow

LEMMA ExistingOrder ==
    ASSUME TypeOK, NEW o \in Orders
    PROVE  /\ order[o] # NoOrder <=> order[o] \in OrderRow
           /\ order[o] # NoOrder <=> order[o].status # "NONE"
           /\ order[o] # NoOrder =>
                 order[o].status \in {"CREATED", "PRECHECKOUT", "PAID", "EXPIRED", "FAILED"}
           /\ order[o] = NoOrder => order[o].status = "NONE"
BY DEF TypeOK, OrderRow, NoOrder

\* An attempt has an order; its absence has the stage NONE.
LEMMA ExistingAttempt ==
    ASSUME TypeOK, NEW q \in Purchases
    PROVE  /\ purchase[q].stage # "NONE" <=> purchase[q] \in Attempt
           /\ purchase[q].stage = "NONE" <=> purchase[q] = NoPurchase
           /\ purchase[q].stage # "NONE" => purchase[q].order \in Orders
BY DEF TypeOK, Attempt, NoPurchase

LEMMA ExistingTap ==
    ASSUME TypeOK, NEW t \in Taps, tap[t].pc \in {"link", "send", "arrived"}
    PROVE  /\ tap[t] \in [pc : {"link", "send", "arrived"}, order : Orders]
           /\ tap[t].order \in Orders
BY DEF TypeOK, Tapped, Idle

\* An attempt goes to another stage and keeps its order.
LEMMA StageChange ==
    ASSUME TypeOK, NEW q \in Purchases, purchase[q].stage # "NONE",
           NEW st \in {"asked", "refused", "approved", "charged", "recorded",
                       "unmatched", "delivered", "settled", "lost"},
           PurchaseGoes(q, st)
    PROVE  /\ purchase' \in [Purchases -> {NoPurchase} \cup Attempt]
           /\ purchase'[q].stage = st
           /\ purchase'[q].order = purchase[q].order
           /\ \A r \in Purchases : r # q => purchase'[r] = purchase[r]
<1>1. purchase[q] \in Attempt
  BY ExistingAttempt
<1>2. [purchase[q] EXCEPT !.stage = st] \in Attempt
  BY <1>1 DEF Attempt
<1> QED BY <1>1, <1>2 DEF TypeOK, PurchaseGoes, Attempt

-----------------------------------------------------------------------------
(* What the parts of the invariant need of a step.                         *)

\* The orders move, and no attempt does.
LEMMA OrdersOnly ==
    ASSUME PaymentInv, \A o \in Orders : OrderKeeps(o), UNCHANGED <<purchase, delivered, alerted>>
    PROVE  /\ \A q \in Purchases : purchase'[q] # NoPurchase => order'[purchase'[q].order] # NoOrder
           /\ ApprovedIsHeld' /\ RecordedHasCharge' /\ SettledHasCharge' /\ DeliveredOnce'
<1>1. ASSUME NEW q \in Purchases
      PROVE  /\ purchase[q].stage # "NONE" => purchase[q].order \in Orders
             /\ purchase[q].stage # "NONE" <=> purchase[q] # NoPurchase
  BY ExistingAttempt DEF PaymentInv
<1>2. \A q \in Purchases : purchase'[q] # NoPurchase => order'[purchase'[q].order] # NoOrder
  BY <1>1 DEF PaymentInv, OrdersExist, OrderKeeps
<1>3. ApprovedIsHeld'
  BY <1>1 DEF PaymentInv, ApprovedIsHeld, OrderKeeps
<1>4. \A q \in Purchases : purchase[q].stage # "NONE" /\ HasCharge(q) => HasCharge(q)'
  BY <1>1 DEF HasCharge, OrderKeeps
<1>5. RecordedHasCharge' /\ SettledHasCharge'
  BY <1>4 DEF PaymentInv, RecordedHasCharge, SettledHasCharge
<1>6. DeliveredOnce'
  BY DEF PaymentInv, DeliveredOnce, OrderKeeps
<1> QED BY <1>2, <1>3, <1>5, <1>6

\* One attempt moves, on an order that exists.
LEMMA AttemptMoves ==
    ASSUME PaymentInv, \A o \in Orders : OrderKeeps(o), NEW q \in Purchases,
           \A r \in Purchases : r # q => purchase'[r] = purchase[r],
           order'[purchase'[q].order] # NoOrder,
           UNCHANGED delivered,
           alerted \subseteq alerted',
           purchase'[q].stage \notin {"NONE", "asked", "refused"} =>
               order'[purchase'[q].order].status \in Held,
           purchase'[q].stage \in {"recorded", "delivered"} => HasCharge(q)',
           purchase'[q].stage = "recorded" => delivered[purchase'[q].order] = 0,
           purchase'[q].stage = "settled" => HasCharge(q)' \/ q \in alerted'
    PROVE  /\ \A r \in Purchases : purchase'[r] # NoPurchase => order'[purchase'[r].order] # NoOrder
           /\ ApprovedIsHeld' /\ RecordedHasCharge' /\ SettledHasCharge' /\ DeliveredOnce'
<1>1. ASSUME NEW r \in Purchases
      PROVE  /\ purchase[r].stage # "NONE" => purchase[r].order \in Orders
             /\ purchase[r].stage # "NONE" <=> purchase[r] # NoPurchase
  BY ExistingAttempt DEF PaymentInv
<1>2. \A r \in Purchases : purchase'[r] # NoPurchase => order'[purchase'[r].order] # NoOrder
  BY <1>1 DEF PaymentInv, OrdersExist, OrderKeeps
<1>3. ApprovedIsHeld'
  BY <1>1 DEF PaymentInv, ApprovedIsHeld, OrderKeeps
<1>4. \A r \in Purchases : r # q /\ purchase[r].stage # "NONE" /\ HasCharge(r) => HasCharge(r)'
  BY <1>1 DEF HasCharge, OrderKeeps
<1>5. RecordedHasCharge'
  BY <1>4 DEF PaymentInv, RecordedHasCharge
<1>6. SettledHasCharge'
  BY <1>4 DEF PaymentInv, SettledHasCharge
<1>7. DeliveredOnce'
  BY DEF PaymentInv, DeliveredOnce, OrderKeeps
<1> QED BY <1>2, <1>3, <1>5, <1>6, <1>7

\* Nothing happens to the orders.
LEMMA OrdersStay ==
    ASSUME UNCHANGED order
    PROVE  \A o \in Orders : OrderKeeps(o)
BY DEF OrderKeeps

\* The links and taps, if only the orders move.
LEMMA LinksAndTapsStay ==
    ASSUME PaymentInv, \A o \in Orders : OrderKeeps(o), UNCHANGED <<tap, links>>
    PROVE  /\ \A o \in links' : order'[o] # NoOrder
           /\ \A t \in Taps :
                 tap'[t].pc \in {"link", "send", "arrived"} => order'[tap'[t].order] # NoOrder
<1>1. \A o \in links' : order'[o] # NoOrder
  BY DEF PaymentInv, TypeOK, OrdersExist, OrderKeeps
<1>2. ASSUME NEW t \in Taps, tap[t].pc \in {"link", "send", "arrived"}
      PROVE  tap[t].order \in Orders
  BY <1>2, ExistingTap DEF PaymentInv
<1>3. \A t \in Taps :
         tap'[t].pc \in {"link", "send", "arrived"} => order'[tap'[t].order] # NoOrder
  BY <1>2 DEF PaymentInv, OrdersExist, OrderKeeps
<1> QED BY <1>1, <1>3

\* The keyboards, if the menus stay.
LEMMA MenusStay ==
    ASSUME PaymentInv, UNCHANGED menuVars
    PROVE  SeenIsPublished'
BY DEF PaymentInv, SeenIsPublished, menuVars

-----------------------------------------------------------------------------
(* The owner, the keyboards and the clock.                                 *)

\* A step of the menus alone.
LEMMA MenusOnly ==
    ASSUME PaymentInv, UNCHANGED <<tap, order, payVars, crashes>>,
           scope' \in [Profiles -> {"ABSENT", "DRAFT", "DEFAULT", "ARCHIVED"}],
           price' \in [Profiles -> Prices \cup {NoButton, Deleted}],
           wizard' \in Profiles \cup {0},
           seen' \subseteq Profiles,
           SeenIsPublished'
    PROVE  PaymentInv'
<1>1. TypeOK'
  BY DEF PaymentInv, TypeOK, payVars
<1>2. \A o \in Orders : OrderKeeps(o)
  BY OrdersStay
<1>3. OrdersExist'
  BY <1>2, OrdersOnly, LinksAndTapsStay DEF payVars, OrdersExist
<1> QED BY <1>1, <1>2, <1>3, OrdersOnly DEF PaymentInv, payVars

LEMMA OwnerSteps ==
    ASSUME PaymentInv, OwnerStep \/ \E p \in Profiles : MenuShown(p)
    PROVE  PaymentInv'
<1> USE MenuAssumption
<1>1. /\ scope \in [Profiles -> {"ABSENT", "DRAFT", "DEFAULT", "ARCHIVED"}]
      /\ price \in [Profiles -> Prices \cup {NoButton, Deleted}]
      /\ wizard \in Profiles \cup {0} /\ seen \subseteq Profiles
  BY DEF PaymentInv, TypeOK
<1>2. \A p \in seen : scope[p] \in {"DEFAULT", "ARCHIVED"} /\ price[p] \in Prices
  BY DEF PaymentInv, SeenIsPublished
<1>3. ASSUME NEW p \in Profiles, NEW amount \in Prices, AddButton(p, amount) PROVE PaymentInv'
  BY <1>1, <1>2, <1>3, MenusOnly DEF AddButton, SeenIsPublished
<1>4. ASSUME NEW p \in Profiles, EditButton(p) PROVE PaymentInv'
  BY <1>1, <1>2, <1>4, MenusOnly DEF EditButton, SeenIsPublished
<1>5. ASSUME NEW p \in Profiles, DeleteButton(p) PROVE PaymentInv'
  BY <1>1, <1>2, <1>5, MenusOnly DEF DeleteButton, Editable, SeenIsPublished
<1>6. ASSUME NEW amount \in Prices, SaveButton(amount) PROVE PaymentInv'
  BY <1>1, <1>2, <1>6, MenusOnly DEF SaveButton, Editable, SeenIsPublished
<1>7. ASSUME NEW p \in Profiles, NEW next \in Profiles, Publish(p, next) PROVE PaymentInv'
  <2>1. /\ scope' \in [Profiles -> {"ABSENT", "DRAFT", "DEFAULT", "ARCHIVED"}]
        /\ price' \in [Profiles -> Prices \cup {NoButton, Deleted}]
    BY <1>1, <1>7 DEF Publish
  <2>2. SeenIsPublished'
    BY <1>1, <1>2, <1>7 DEF Publish, SeenIsPublished
  <2> QED BY <1>1, <1>7, <2>1, <2>2, MenusOnly DEF Publish
<1>8. ASSUME NEW p \in Profiles, MenuShown(p) PROVE PaymentInv'
  BY <1>1, <1>2, <1>8, MenusOnly DEF MenuShown, SeenIsPublished
<1> QED BY <1>3, <1>4, <1>5, <1>6, <1>7, <1>8 DEF OwnerStep

LEMMA LapseStep ==
    ASSUME PaymentInv, NEW o \in Orders, Lapse(o)
    PROVE  PaymentInv'
<1>1. TypeOK'
  BY DEF PaymentInv, TypeOK, Lapse, menuVars
<1>2. \A p \in Orders : OrderKeeps(p)
  BY OrdersStay DEF Lapse
<1>3. OrdersExist'
  BY <1>2, OrdersOnly, LinksAndTapsStay DEF Lapse, OrdersExist
<1> QED BY <1>1, <1>2, <1>3, OrdersOnly, MenusStay DEF PaymentInv, Lapse

-----------------------------------------------------------------------------
(* From the button to the invoice link.                                    *)

\* A step of the taps that may make, offer or fail orders.
LEMMA TapsAndOrders ==
    ASSUME PaymentInv, UNCHANGED <<menuVars, lapsed, purchase, delivered, alerted, crashes>>,
           tap' \in [Taps -> {Idle} \cup Tapped],
           order' \in [Orders -> {NoOrder} \cup OrderRow],
           links' \subseteq Orders,
           \A o \in Orders : OrderKeeps(o),
           \A o \in links' : order'[o] # NoOrder,
           \A t \in Taps :
               tap'[t].pc \in {"link", "send", "arrived"} => order'[tap'[t].order] # NoOrder
    PROVE  PaymentInv'
<1>1. TypeOK'
  BY DEF PaymentInv, TypeOK, menuVars
<1>2. OrdersExist'
  BY OrdersOnly DEF OrdersExist
<1> QED BY <1>1, <1>2, OrdersOnly, MenusStay DEF PaymentInv

LEMMA TapSteps ==
    ASSUME PaymentInv, NEW t \in Taps, TapStep(t)
    PROVE  PaymentInv'
<1>1. /\ tap \in [Taps -> {Idle} \cup Tapped]
      /\ order \in [Orders -> {NoOrder} \cup OrderRow]
      /\ links \subseteq Orders
      /\ \A o \in links : order[o] # NoOrder
      /\ \A u \in Taps :
            tap[u].pc \in {"link", "send", "arrived"} => order[tap[u].order] # NoOrder
  BY DEF PaymentInv, TypeOK, OrdersExist
<1>2. \A u \in Taps : tap[u].pc \in {"link", "send", "arrived"} => tap[u].order \in Orders
  BY ExistingTap DEF PaymentInv
<1>3. ASSUME NEW p \in Profiles, TapButton(t, p) PROVE PaymentInv'
  <2>1. [pc |-> "accepted", price |-> price[p]] \in Tapped
    BY <1>3 DEF TapButton, PaymentInv, SeenIsPublished, Tapped
  <2>2. \A o \in Orders : OrderKeeps(o)
    BY <1>3, OrdersStay DEF TapButton
  <2> QED BY <1>1, <1>3, <2>1, <2>2, TapsAndOrders DEF TapButton, payVars
<1>4. ASSUME NEW o \in Orders, CreateOrder(t, o) PROVE PaymentInv'
  <2> DEFINE new == [status |-> "CREATED", price |-> tap[t].price, charge |-> 0]
  <2>1. tap[t].price \in Prices
    BY <1>1, <1>4 DEF CreateOrder, Tapped, Idle
  <2>2. new \in OrderRow /\ new # NoOrder
    BY <2>1 DEF OrderRow, NoOrder
  <2>3. [pc |-> "link", order |-> o] \in Tapped
    BY DEF Tapped
  <2>4. order' = [order EXCEPT ![o] = new]
    BY <1>4 DEF CreateOrder
  <2> HIDE DEF new
  <2>5. \A p \in Orders : OrderKeeps(p)
    BY <1>1, <1>4, <2>2, <2>4 DEF CreateOrder, OrderKeeps, NoOrder, Held
  <2>6. /\ \A p \in links' : order'[p] # NoOrder
        /\ \A u \in Taps :
              tap'[u].pc \in {"link", "send", "arrived"} => order'[tap'[u].order] # NoOrder
    BY <1>1, <1>2, <1>4, <2>2, <2>4, <2>5 DEF CreateOrder, payVars, OrderKeeps
  <2> QED BY <1>1, <1>4, <2>2, <2>3, <2>4, <2>5, <2>6, TapsAndOrders DEF CreateOrder, payVars
<1>5. ASSUME LinkMade(t) \/ OfferArrives(t) \/ OfferConfirmed(t) PROVE PaymentInv'
  <2>1. tap[t].pc \in {"link", "send", "arrived"} /\ UNCHANGED order
    BY <1>5 DEF LinkMade, OfferArrives, OfferConfirmed
  <2>2. \A pc \in {"link", "send", "arrived"} :
           /\ [tap[t] EXCEPT !.pc = pc] \in Tapped
           /\ [tap[t] EXCEPT !.pc = pc].order = tap[t].order
    BY <2>1, ExistingTap DEF PaymentInv, Tapped
  <2>3. /\ tap' \in [Taps -> {Idle} \cup Tapped]
        /\ \A u \in Taps :
              tap'[u].pc \in {"link", "send", "arrived"} => order'[tap'[u].order] # NoOrder
    <3>1. PICK at : /\ tap' = [tap EXCEPT ![t] = at]
                    /\ at = Idle \/ (at \in Tapped /\ at.order = tap[t].order)
      <4>1. CASE OfferConfirmed(t)
        BY <4>1 DEF OfferConfirmed
      <4>2. CASE LinkMade(t)
        BY <2>2, <4>2 DEF LinkMade
      <4>3. CASE OfferArrives(t)
        BY <2>2, <4>3 DEF OfferArrives
      <4> QED BY <1>5, <4>1, <4>2, <4>3
    <3>2. Idle.pc = "idle"
      BY DEF Idle
    <3>3. tap' \in [Taps -> {Idle} \cup Tapped]
      BY <1>1, <3>1
    <3>4. \A u \in Taps :
             tap'[u].pc \in {"link", "send", "arrived"} => order'[tap'[u].order] # NoOrder
      BY <1>1, <2>1, <3>1, <3>2
    <3> QED BY <3>3, <3>4
  <2>4. links' \subseteq Orders /\ \A o \in links' : order'[o] # NoOrder
    BY <1>1, <1>2, <1>5, <2>1 DEF LinkMade, OfferArrives, OfferConfirmed, payVars
  <2>5. UNCHANGED <<menuVars, lapsed, purchase, delivered, alerted, crashes>>
    BY <1>5 DEF LinkMade, OfferArrives, OfferConfirmed, payVars
  <2>6. \A o \in Orders : OrderKeeps(o)
    BY <2>1, OrdersStay
  <2> QED BY <1>1, <2>1, <2>3, <2>4, <2>5, <2>6, TapsAndOrders
<1>6. ASSUME OfferFails(t) PROVE PaymentInv'
  <2> DEFINE o == tap[t].order
             st == IF order[o].status = "CREATED" THEN "FAILED" ELSE order[o].status
  <2>1. o \in Orders /\ order[o] # NoOrder /\ order[o] \in OrderRow
    BY <1>1, <1>2, <1>6 DEF OfferFails
  <2>2. st \in {"CREATED", "PRECHECKOUT", "PAID", "EXPIRED", "FAILED"}
    BY <2>1 DEF OrderRow
  <2>3. order' = [order EXCEPT ![o] = [order[o] EXCEPT !.status = st]]
    BY <1>1, <1>6, <2>1 DEF OfferFails, FailedOrder
  <2> HIDE DEF o
  <2>4. /\ [order[o] EXCEPT !.status = st] \in OrderRow
        /\ [order[o] EXCEPT !.status = st].status = st
    BY <2>1, <2>2, StatusChange DEF PaymentInv
  <2>5. [order[o] EXCEPT !.status = st] # NoOrder
    BY <2>2, <2>4 DEF NoOrder
  <2>6. order[o].status = "PAID" => [order[o] EXCEPT !.status = st] = order[o]
    BY <2>1 DEF OrderRow
  <2>7. \A p \in Orders : OrderKeeps(p)
    BY <1>1, <2>1, <2>3, <2>4, <2>5, <2>6 DEF OrderKeeps, Held
  <2>8. order' \in [Orders -> {NoOrder} \cup OrderRow]
    BY <1>1, <2>3, <2>4
  <2>9. /\ tap' \in [Taps -> {Idle} \cup Tapped]
        /\ \A p \in links' : order'[p] # NoOrder
        /\ \A u \in Taps :
              tap'[u].pc \in {"link", "send", "arrived"} => order'[tap'[u].order] # NoOrder
    BY <1>1, <1>2, <1>6, <2>7 DEF OfferFails, payVars, OrderKeeps, Idle
  <2> QED BY <1>1, <1>6, <2>7, <2>8, <2>9, TapsAndOrders DEF OfferFails, payVars
<1> QED BY <1>3, <1>4, <1>5, <1>6 DEF TapStep

-----------------------------------------------------------------------------
(* Paying the invoice.                                                     *)

\* A step of the attempt q, on an order of which only the status and the charge move.
LEMMA AttemptStep ==
    ASSUME PaymentInv, NEW q \in Purchases,
           UNCHANGED <<menuVars, tap, lapsed, links, delivered, crashes>>,
           purchase' \in [Purchases -> {NoPurchase} \cup Attempt],
           order' \in [Orders -> {NoOrder} \cup OrderRow],
           alerted \subseteq alerted', alerted' \subseteq Purchases,
           \A o \in Orders : OrderKeeps(o),
           \A r \in Purchases : r # q => purchase'[r] = purchase[r],
           purchase'[q].order \in Orders, order[purchase'[q].order] # NoOrder,
           purchase'[q].stage \notin {"NONE", "asked", "refused"} =>
               order'[purchase'[q].order].status \in Held,
           purchase'[q].stage \in {"recorded", "delivered"} => HasCharge(q)',
           purchase'[q].stage = "recorded" => delivered[purchase'[q].order] = 0,
           purchase'[q].stage = "settled" => HasCharge(q)' \/ q \in alerted'
    PROVE  PaymentInv'
<1>1. TypeOK'
  BY DEF PaymentInv, TypeOK, menuVars
<1>2. order'[purchase'[q].order] # NoOrder
  BY DEF OrderKeeps
<1>3. OrdersExist'
  BY <1>2, AttemptMoves, LinksAndTapsStay DEF OrdersExist
<1> QED BY <1>1, <1>2, <1>3, AttemptMoves, MenusStay DEF PaymentInv

\* What the invariant says of an attempt that exists.
LEMMA AttemptFacts ==
    ASSUME PaymentInv, NEW q \in Purchases, purchase[q].stage # "NONE"
    PROVE  /\ purchase[q].order \in Orders
           /\ order[purchase[q].order] # NoOrder
           /\ order[purchase[q].order] \in OrderRow
           /\ purchase[q].stage \notin {"asked", "refused"} =>
                 order[purchase[q].order].status \in Held
           /\ purchase[q].stage \in {"recorded", "delivered"} => HasCharge(q)
           /\ purchase[q].stage = "recorded" => delivered[purchase[q].order] = 0
BY ExistingAttempt, ExistingOrder
   DEF PaymentInv, OrdersExist, ApprovedIsHeld, RecordedHasCharge

\* An attempt goes on, and no order moves.
LEMMA StageStep ==
    ASSUME PaymentInv, NEW q \in Purchases, purchase[q].stage # "NONE",
           NEW st \in {"asked", "refused", "approved", "charged", "recorded",
                       "unmatched", "delivered", "settled", "lost"},
           PurchaseGoes(q, st),
           UNCHANGED <<menuVars, tap, order, lapsed, links, delivered, crashes>>,
           alerted \subseteq alerted', alerted' \subseteq Purchases,
           st \in {"asked", "refused"} \/ purchase[q].stage \notin {"asked", "refused"},
           st # "recorded", st # "delivered",
           st = "settled" => HasCharge(q) \/ q \in alerted'
    PROVE  PaymentInv'
<1>1. /\ purchase' \in [Purchases -> {NoPurchase} \cup Attempt]
      /\ purchase'[q].stage = st
      /\ purchase'[q].order = purchase[q].order
      /\ \A r \in Purchases : r # q => purchase'[r] = purchase[r]
  BY StageChange DEF PaymentInv
<1>2. order' \in [Orders -> {NoOrder} \cup OrderRow]
  BY DEF PaymentInv, TypeOK
<1>3. HasCharge(q) => HasCharge(q)'
  BY <1>1 DEF HasCharge
<1>4. \A o \in Orders : OrderKeeps(o)
  BY OrdersStay
<1> QED BY <1>1, <1>2, <1>3, <1>4, AttemptFacts, AttemptStep

LEMMA PreCheckoutStep ==
    ASSUME PaymentInv, NEW q \in Purchases, PreCheckout(q)
    PROVE  PaymentInv'
<1> DEFINE o == purchase[q].order
           open == order[o].status \in {"CREATED", "PRECHECKOUT"}
           ok == o \notin lapsed /\ open /\ purchase[q].user = Customer
           to == IF o \in lapsed
                 THEN IF order[o].status = "PAID" THEN order[o].status ELSE "EXPIRED"
                 ELSE IF ok THEN "PRECHECKOUT" ELSE order[o].status
           st == IF ok THEN "approved" ELSE "refused"
<1>1. /\ o \in Orders /\ order[o] # NoOrder /\ order[o] \in OrderRow
      /\ purchase[q].stage = "asked"
  BY AttemptFacts DEF PreCheckout
<1>2. order \in [Orders -> {NoOrder} \cup OrderRow]
  BY DEF PaymentInv, TypeOK
<1>3. /\ PurchaseGoes(q, st)
      /\ order' = [order EXCEPT ![o] = [order[o] EXCEPT !.status = to]]
  <2>1. [order[o] EXCEPT !.status = order[o].status] = order[o]
    BY <1>1 DEF OrderRow
  <2> QED BY <1>1, <1>2, <2>1 DEF PreCheckout, Expire
<1>4. /\ to \in {"CREATED", "PRECHECKOUT", "PAID", "EXPIRED", "FAILED"}
      /\ order[o].status = "PAID" => to = "PAID"
      /\ order[o].status \in Held => to \in Held
      /\ st = "approved" => to \in Held
  BY <1>1 DEF OrderRow, Held
<1>5. st \in {"approved", "refused"}
  OBVIOUS
<1> HIDE DEF o, to, st
<1>6. /\ [order[o] EXCEPT !.status = to] \in OrderRow
      /\ [order[o] EXCEPT !.status = to].status = to
  BY <1>1, <1>4, StatusChange DEF PaymentInv
<1>7. [order[o] EXCEPT !.status = to] # NoOrder
  BY <1>4, <1>6 DEF NoOrder
<1>8. order[o].status = "PAID" => [order[o] EXCEPT !.status = to] = order[o]
  BY <1>1, <1>4 DEF OrderRow
<1>9. /\ \A p \in Orders : OrderKeeps(p)
      /\ order' \in [Orders -> {NoOrder} \cup OrderRow]
  BY <1>1, <1>2, <1>3, <1>4, <1>6, <1>7, <1>8 DEF OrderKeeps
<1>10. order'[o].status = to
  BY <1>1, <1>2, <1>3, <1>6
<1>11. /\ purchase' \in [Purchases -> {NoPurchase} \cup Attempt]
       /\ purchase'[q].stage = st
       /\ purchase'[q].order = o
       /\ \A r \in Purchases : r # q => purchase'[r] = purchase[r]
  BY <1>1, <1>3, <1>5, StageChange DEF PaymentInv, o
<1>12. UNCHANGED <<menuVars, tap, lapsed, links, delivered, alerted, crashes>>
  BY DEF PreCheckout
<1>13. alerted' \subseteq Purchases
  BY <1>12 DEF PaymentInv, TypeOK
<1> QED BY <1>1, <1>4, <1>5, <1>9, <1>10, <1>11, <1>12, <1>13, AttemptStep

LEMMA ReportStep ==
    ASSUME PaymentInv, NEW q \in Purchases, Report(q)
    PROVE  PaymentInv'
<1> DEFINE o == purchase[q].order
           paid == [order[o] EXCEPT !.status = "PAID", !.charge = q]
<1>1. /\ o \in Orders /\ order[o] # NoOrder /\ order[o] \in OrderRow
      /\ purchase[q].stage = "charged" /\ order[o].status \in Held
  BY AttemptFacts DEF Report
<1>2. order \in [Orders -> {NoOrder} \cup OrderRow] /\ alerted \subseteq Purchases
  BY DEF PaymentInv, TypeOK
<1>3. UNCHANGED <<menuVars, tap, lapsed, links, delivered, alerted, crashes>>
  BY DEF Report
<1>4. CASE FirstReport(q)
  <2>1. /\ order' = [order EXCEPT ![o] = paid]
        /\ PurchaseGoes(q, "recorded") /\ order[o].status # "PAID"
    BY <1>1, <1>2, <1>4 DEF Report, FirstReport
  <2>2. paid \in OrderRow /\ paid.status = "PAID" /\ paid.charge = q
    BY <1>1 DEF OrderRow
  <2> HIDE DEF paid
  <2>3. paid # NoOrder
    BY <2>2 DEF NoOrder
  <2>4. /\ \A p \in Orders : OrderKeeps(p)
        /\ order' \in [Orders -> {NoOrder} \cup OrderRow]
        /\ order'[o] = paid
    BY <1>1, <1>2, <2>1, <2>2, <2>3 DEF OrderKeeps, Held
  <2>5. /\ purchase' \in [Purchases -> {NoPurchase} \cup Attempt]
        /\ purchase'[q].stage = "recorded"
        /\ purchase'[q].order = o
        /\ \A r \in Purchases : r # q => purchase'[r] = purchase[r]
    BY <1>1, <2>1, StageChange DEF PaymentInv
  <2>6. HasCharge(q)'
    BY <2>2, <2>4, <2>5 DEF HasCharge
  <2>7. delivered[o] = 0
    BY <1>1, <2>1 DEF PaymentInv, TypeOK, DeliveredOnce
  <2> HIDE DEF o
  <2>8. order'[o].status \in Held
    BY <2>2, <2>4 DEF Held
  <2> QED BY <1>1, <1>2, <1>3, <2>4, <2>5, <2>6, <2>7, <2>8, AttemptStep
<1>5. CASE ~FirstReport(q)
  <2>1. /\ PurchaseGoes(q, IF RepeatedReport(q) THEN "settled" ELSE "unmatched")
        /\ UNCHANGED order
    BY <1>5 DEF Report
  <2>2. CASE RepeatedReport(q)
    <3>1. HasCharge(q) /\ PurchaseGoes(q, "settled")
      BY <2>1, <2>2 DEF RepeatedReport, HasCharge
    <3> QED BY <1>1, <1>2, <1>3, <2>1, <3>1, StageStep
  <2>3. CASE ~RepeatedReport(q)
    <3>1. PurchaseGoes(q, "unmatched")
      BY <2>1, <2>3
    <3> QED BY <1>1, <1>2, <1>3, <2>1, <3>1, StageStep
  <2> QED BY <2>2, <2>3
<1> QED BY <1>4, <1>5

\* The one step that delivers: no other attempt on the order is recorded.
LEMMA DeliverStep ==
    ASSUME PaymentInv, NEW q \in Purchases, Deliver(q)
    PROVE  PaymentInv'
<1> DEFINE o == purchase[q].order
<1>1. /\ o \in Orders /\ order[o] # NoOrder
      /\ purchase[q].stage = "recorded" /\ order[o].status \in Held
      /\ HasCharge(q) /\ delivered[o] = 0
  BY AttemptFacts DEF Deliver
<1>2. /\ UNCHANGED <<menuVars, tap, order, lapsed, links, alerted, crashes>>
      /\ delivered' = [delivered EXCEPT ![o] = @ + 1]
      /\ PurchaseGoes(q, "delivered")
  BY DEF Deliver
<1>3. /\ purchase' \in [Purchases -> {NoPurchase} \cup Attempt]
      /\ purchase'[q].stage = "delivered"
      /\ purchase'[q].order = o
      /\ \A r \in Purchases : r # q => purchase'[r] = purchase[r]
  BY <1>1, <1>2, StageChange DEF PaymentInv
<1>4. /\ delivered' \in [Orders -> Nat] /\ delivered'[o] = 1
      /\ \A p \in Orders : p # o => delivered'[p] = delivered[p]
  BY <1>1, <1>2 DEF PaymentInv, TypeOK
<1>5. \A p \in Orders : OrderKeeps(p)
  BY <1>2, OrdersStay
<1>6. TypeOK'
  BY <1>2, <1>3, <1>4 DEF PaymentInv, TypeOK, menuVars
<1>7. OrdersExist'
  <2>1. \A r \in Purchases : purchase'[r] # NoPurchase => order'[purchase'[r].order] # NoOrder
    BY <1>1, <1>2, <1>3 DEF PaymentInv, OrdersExist
  <2> QED BY <1>2, <1>5, <2>1, LinksAndTapsStay DEF OrdersExist
<1>8. ApprovedIsHeld'
  BY <1>1, <1>2, <1>3 DEF PaymentInv, ApprovedIsHeld
<1>9. \A r \in Purchases : HasCharge(r) => HasCharge(r)'
  BY <1>2, <1>3 DEF HasCharge
<1>10. ASSUME NEW r \in Purchases, r # q, purchase[r].stage = "recorded"
       PROVE  delivered'[purchase[r].order] = 0
  <2>1. HasCharge(r) /\ delivered[purchase[r].order] = 0 /\ purchase[r].order \in Orders
    BY <1>10, AttemptFacts
  <2>2. purchase[r].order # o
    BY <1>1, <1>10, <2>1 DEF HasCharge
  <2> QED BY <1>4, <2>1, <2>2
<1>11. RecordedHasCharge'
  BY <1>1, <1>3, <1>9, <1>10 DEF PaymentInv, RecordedHasCharge
<1>12. SettledHasCharge'
  BY <1>2, <1>3, <1>9 DEF PaymentInv, SettledHasCharge
<1>13. DeliveredOnce'
  BY <1>1, <1>2, <1>4 DEF PaymentInv, DeliveredOnce, HasCharge
<1>14. SeenIsPublished'
  BY <1>2, MenusStay
<1> QED BY <1>6, <1>7, <1>8, <1>11, <1>12, <1>13, <1>14 DEF PaymentInv

LEMMA PurchaseSteps ==
    ASSUME PaymentInv, NEW q \in Purchases, PurchaseStep(q)
    PROVE  PaymentInv'
<1>1. /\ order \in [Orders -> {NoOrder} \cup OrderRow]
      /\ purchase \in [Purchases -> {NoPurchase} \cup Attempt]
      /\ alerted \subseteq Purchases /\ links \subseteq Orders
      /\ \A o \in links : order[o] # NoOrder
  BY DEF PaymentInv, TypeOK, OrdersExist
<1>2. ASSUME NEW o \in Orders, NEW user \in Strangers \cup {Customer}, PayInvoice(q, o, user)
      PROVE  PaymentInv'
  <2> DEFINE new == [order |-> o, user |-> user, stage |-> "asked"]
  <2>1. new \in Attempt /\ new.stage = "asked" /\ new.order = o
    BY DEF Attempt
  <2>2. purchase' = [purchase EXCEPT ![q] = new]
    BY <1>2 DEF PayInvoice
  <2> HIDE DEF new
  <2>3. /\ purchase' \in [Purchases -> {NoPurchase} \cup Attempt]
        /\ purchase'[q].stage = "asked" /\ purchase'[q].order = o
        /\ \A r \in Purchases : r # q => purchase'[r] = purchase[r]
    BY <1>1, <2>1, <2>2
  <2>4. \A p \in Orders : OrderKeeps(p)
    BY <1>2, OrdersStay DEF PayInvoice
  <2> QED BY <1>1, <1>2, <2>3, <2>4, AttemptStep DEF PayInvoice
<1>3. CASE PreCheckoutLost(q)
  BY <1>1, <1>3, StageStep DEF PreCheckoutLost
<1>4. CASE Charge(q)
  BY <1>1, <1>4, StageStep DEF Charge
<1>5. CASE TellOwner(q)
  <2>1. purchase[q].stage = "delivered" => HasCharge(q)
    BY AttemptFacts
  <2>2. alerted \subseteq alerted' /\ alerted' \subseteq Purchases
    BY <1>1, <1>5 DEF TellOwner
  <2>3. HasCharge(q) \/ q \in alerted'
    BY <1>5, <2>1 DEF TellOwner
  <2> QED BY <1>1, <1>5, <2>2, <2>3, StageStep DEF TellOwner
<1>6. CASE ReportFails(q)
  BY <1>1, <1>6, StageStep DEF ReportFails
<1> QED
  BY <1>2, <1>3, <1>4, <1>5, <1>6, PreCheckoutStep, ReportStep, DeliverStep DEF PurchaseStep

LEMMA CrashStep ==
    ASSUME PaymentInv, NEW again \in SUBSET Purchases, Crash(again)
    PROVE  PaymentInv'
<1>1. ASSUME NEW q \in Purchases
      PROVE  /\ purchase'[q] \in {NoPurchase} \cup Attempt
             /\ \/ purchase'[q] = purchase[q]
                   /\ purchase[q].stage \notin {"recorded", "delivered", "unmatched"}
                \/ /\ purchase[q].stage \in {"recorded", "delivered", "unmatched"}
                   /\ purchase'[q].stage \in {"charged", "lost"}
                   /\ purchase'[q].order = purchase[q].order
                   /\ purchase'[q] # NoPurchase
  <2>1. CASE purchase[q].stage \in {"recorded", "delivered", "unmatched"}
    <3>1. purchase[q] \in Attempt
      BY <2>1, ExistingAttempt DEF PaymentInv
    <3>2. PICK st \in {"charged", "lost"} : purchase'[q] = [purchase[q] EXCEPT !.stage = st]
      BY <2>1 DEF Crash
    <3>3. /\ purchase'[q] \in Attempt /\ purchase'[q].stage = st
          /\ purchase'[q].order = purchase[q].order
      BY <3>1, <3>2 DEF Attempt
    <3> QED BY <2>1, <3>3 DEF NoPurchase
  <2>2. CASE purchase[q].stage \notin {"recorded", "delivered", "unmatched"}
    BY <2>2 DEF Crash, PaymentInv, TypeOK
  <2> QED BY <2>1, <2>2
<1>2. /\ UNCHANGED <<scope, price, seen, order, lapsed, links, delivered, alerted>>
      /\ wizard' = 0 /\ tap' = [t \in Taps |-> Idle]
      /\ crashes < MaxCrashes /\ crashes' = crashes + 1
  BY DEF Crash
<1>3. TypeOK'
  <2>1. purchase' \in [Purchases -> {NoPurchase} \cup Attempt]
    BY <1>1 DEF Crash
  <2>2. crashes' \in 0..MaxCrashes
    BY <1>2, MenuAssumption DEF PaymentInv, TypeOK
  <2> QED BY <1>2, <2>1, <2>2 DEF PaymentInv, TypeOK
<1>4. OrdersExist'
  <2>1. \A q \in Purchases : purchase[q].stage # "NONE" <=> purchase[q] # NoPurchase
    BY ExistingAttempt DEF PaymentInv
  <2>2. \A q \in Purchases : purchase'[q] # NoPurchase => order'[purchase'[q].order] # NoOrder
    BY <1>1, <1>2, <2>1 DEF PaymentInv, OrdersExist
  <2>3. \A t \in Taps : tap'[t].pc = "idle"
    BY <1>2 DEF Idle
  <2> QED BY <1>2, <2>2, <2>3 DEF PaymentInv, OrdersExist
<1>5. ApprovedIsHeld'
  BY <1>1, <1>2 DEF PaymentInv, ApprovedIsHeld
<1>6. RecordedHasCharge' /\ SettledHasCharge'
  BY <1>1, <1>2 DEF PaymentInv, RecordedHasCharge, SettledHasCharge, HasCharge
<1>7. DeliveredOnce' /\ SeenIsPublished'
  BY <1>2 DEF PaymentInv, DeliveredOnce, SeenIsPublished
<1> QED BY <1>3, <1>4, <1>5, <1>6, <1>7 DEF PaymentInv

-----------------------------------------------------------------------------
(* The contract of payments: every step, read through AccountsNow,         *)
(* MoneyNow and Credited, is a step of PaymentContract or changes nothing. *)

LEMMA AccountValues ==
    /\ AccountOf("NONE") = "none"
    /\ AccountOf("CREATED") = "open"
    /\ AccountOf("PRECHECKOUT") = "open"
    /\ AccountOf("PAID") = "paid"
    /\ AccountOf("EXPIRED") = "closed"
    /\ AccountOf("FAILED") = "closed"
BY DEF AccountOf

LEMMA MoneyValues ==
    ASSUME NEW p \in {NoPurchase} \cup Attempt
    PROVE  /\ p.stage \in {"NONE", "asked", "refused"} => MoneyOf(p) = Contract!Nothing
           /\ p.stage = "approved" => MoneyOf(p) = [step |-> "promised", order |-> p.order]
           /\ p.stage = "settled" => MoneyOf(p) = [step |-> "done", order |-> p.order]
           /\ p.stage \in {"charged", "recorded", "unmatched", "delivered", "lost"} =>
                 MoneyOf(p) = [step |-> "taken", order |-> p.order]
BY DEF MoneyOf, Contract!Nothing

\* One order changes its status.
LEMMA OneAccount ==
    ASSUME TypeOK, NEW o \in Orders, NEW row, order' = [order EXCEPT ![o] = row]
    PROVE  /\ AccountsNow' = [AccountsNow EXCEPT ![o] = AccountOf(row.status)]
           /\ AccountsNow[o] = AccountOf(order[o].status)
BY DEF TypeOK, AccountsNow

\* One attempt goes on.
LEMMA OneMoney ==
    ASSUME TypeOK, NEW q \in Purchases, NEW p, purchase' = [purchase EXCEPT ![q] = p]
    PROVE  MoneyNow' = [MoneyNow EXCEPT ![q] = MoneyOf(p)]
BY DEF TypeOK, MoneyNow

PaidStays(o) ==
    /\ order'[o].status = "PAID" <=> order[o].status = "PAID"
    /\ order[o].status = "PAID" => order'[o].charge = order[o].charge

AttemptStays(q) ==
    /\ purchase[q] # NoPurchase =>
          purchase'[q] # NoPurchase /\ purchase'[q].order = purchase[q].order
    /\ purchase'[q] # NoPurchase => purchase'[q].order \in Orders

\* No order is paid in the step: no attempt gets or loses the charge of one.
LEMMA CreditStays ==
    ASSUME PaymentInv, ChargeInv,
           \A o \in Orders : PaidStays(o),
           \A q \in Purchases : AttemptStays(q),
           \A q \in Purchases :
               purchase'[q].stage = "unmatched" => purchase[q] # NoPurchase /\ ~HasCharge(q)
    PROVE  ChargeInv' /\ Credited' = Credited
<1>1. ChargesAreReal'
  BY DEF ChargeInv, ChargesAreReal, PaidStays, AttemptStays
<1>2. ASSUME NEW q \in Purchases, purchase[q] # NoPurchase
      PROVE  HasCharge(q)' <=> HasCharge(q)
  BY <1>2 DEF HasCharge, PaidStays, AttemptStays
<1>3. ASSUME NEW q \in Purchases, purchase[q] = NoPurchase, purchase'[q] # NoPurchase
      PROVE  ~HasCharge(q)'
  <2>1. purchase'[q].order \in Orders
    BY <1>3 DEF AttemptStays
  <2> QED BY <1>3, <2>1 DEF HasCharge, PaidStays, ChargeInv, ChargesAreReal
<1>4. UnmatchedPaysNothing'
  BY <1>2 DEF UnmatchedPaysNothing
<1>5. \A q \in Purchases :
         (purchase'[q] # NoPurchase /\ HasCharge(q)') <=> (purchase[q] # NoPurchase /\ HasCharge(q))
  BY <1>2, <1>3 DEF AttemptStays
<1>6. Credited' = Credited
  BY <1>5 DEF Credited
<1> QED BY <1>1, <1>4, <1>6 DEF ChargeInv

LEMMA AllAttemptsStay ==
    ASSUME PaymentInv, UNCHANGED purchase
    PROVE  \A q \in Purchases : AttemptStays(q)
BY ExistingAttempt DEF PaymentInv, AttemptStays

\* Menus, keyboards, the clock, and the steps of a tap that leave the orders alone.
LEMMA NoOrderMoves ==
    ASSUME PaymentInv, ChargeInv, UNCHANGED <<order, purchase, delivered, alerted>>
    PROVE  ChargeInv' /\ UNCHANGED Contract!vars
<1>1. \A o \in Orders : PaidStays(o)
  BY DEF PaidStays
<1>2. \A q \in Purchases :
         purchase'[q].stage = "unmatched" => purchase[q] # NoPurchase /\ ~HasCharge(q)
  BY DEF ChargeInv, UnmatchedPaysNothing, NoPurchase
<1>3. ChargeInv' /\ Credited' = Credited
  BY <1>1, <1>2, AllAttemptsStay, CreditStays
<1>4. AccountsNow' = AccountsNow /\ MoneyNow' = MoneyNow
  BY DEF AccountsNow, MoneyNow
<1> QED BY <1>3, <1>4 DEF Contract!vars

\* An order that is not paid gets a status that is not PAID.
LEMMA UnpaidMoves ==
    ASSUME PaymentInv, ChargeInv, NEW o \in Orders, NEW row,
           order[o].status # "PAID", row.status # "PAID",
           order' = [order EXCEPT ![o] = row],
           \A q \in Purchases : AttemptStays(q),
           \A q \in Purchases :
               purchase'[q].stage = "unmatched" => purchase[q] # NoPurchase /\ ~HasCharge(q)
    PROVE  ChargeInv' /\ Credited' = Credited
<1>1. \A p \in Orders : PaidStays(p)
  BY DEF PaidStays, PaymentInv, TypeOK
<1> QED BY <1>1, CreditStays

\* An attempt goes to a stage other than unmatched, and no order moves.
LEMMA StageMoves ==
    ASSUME PaymentInv, ChargeInv, NEW q \in Purchases, purchase[q].stage # "NONE",
           NEW st \in {"asked", "refused", "approved", "charged", "recorded",
                       "unmatched", "delivered", "settled", "lost"},
           PurchaseGoes(q, st), UNCHANGED order,
           st = "unmatched" => ~HasCharge(q)
    PROVE  /\ ChargeInv' /\ Credited' = Credited /\ AccountsNow' = AccountsNow
           /\ \A r \in Purchases : AttemptStays(r)
           /\ purchase'[q] \in Attempt /\ purchase'[q].stage = st
           /\ purchase'[q].order = purchase[q].order
           /\ MoneyNow' = [MoneyNow EXCEPT ![q] = MoneyOf(purchase'[q])]
<1>1. /\ purchase' \in [Purchases -> {NoPurchase} \cup Attempt]
      /\ purchase'[q].stage = st
      /\ purchase'[q].order = purchase[q].order
      /\ \A r \in Purchases : r # q => purchase'[r] = purchase[r]
  BY StageChange DEF PaymentInv
<1>2. purchase[q] # NoPurchase /\ purchase[q].order \in Orders
  BY ExistingAttempt DEF PaymentInv
<1>3. purchase'[q] \in Attempt /\ purchase'[q] # NoPurchase
  BY <1>1 DEF NoPurchase
<1>4. \A r \in Purchases : AttemptStays(r)
  BY <1>1, <1>2, <1>3, ExistingAttempt DEF PaymentInv, AttemptStays
<1>5. \A r \in Purchases :
         purchase'[r].stage = "unmatched" => purchase[r] # NoPurchase /\ ~HasCharge(r)
  BY <1>1, <1>2 DEF ChargeInv, UnmatchedPaysNothing, NoPurchase
<1>6. \A o \in Orders : PaidStays(o)
  BY DEF PaidStays
<1>7. MoneyNow' = [MoneyNow EXCEPT ![q] = MoneyOf(purchase'[q])]
  BY <1>1 DEF MoneyNow
<1>8. AccountsNow' = AccountsNow
  BY DEF AccountsNow
<1> QED BY <1>1, <1>3, <1>4, <1>5, <1>6, <1>7, <1>8, CreditStays

LEMMA CreateOrderRefines ==
    ASSUME PaymentInv, ChargeInv, NEW t \in Taps, NEW o \in Orders, CreateOrder(t, o)
    PROVE  ChargeInv' /\ Contract!Offer(o)
<1> DEFINE row == [status |-> "CREATED", price |-> tap[t].price, charge |-> 0]
<1>1. /\ order[o] = NoOrder /\ order' = [order EXCEPT ![o] = row]
      /\ UNCHANGED <<purchase, delivered, alerted>>
  BY DEF CreateOrder, payVars
<1>2. order[o].status = "NONE" /\ row.status = "CREATED"
  BY <1>1 DEF NoOrder
<1> HIDE DEF row
<1>3. \A q \in Purchases :
         purchase'[q].stage = "unmatched" => purchase[q] # NoPurchase /\ ~HasCharge(q)
  BY <1>1 DEF ChargeInv, UnmatchedPaysNothing, NoPurchase
<1>4. ChargeInv' /\ Credited' = Credited
  BY <1>1, <1>2, <1>3, AllAttemptsStay, UnpaidMoves
<1>5. AccountsNow' = [AccountsNow EXCEPT ![o] = "open"] /\ AccountsNow[o] = "none"
  <2>1. /\ AccountsNow' = [AccountsNow EXCEPT ![o] = AccountOf(row.status)]
        /\ AccountsNow[o] = AccountOf(order[o].status)
    BY <1>1, <1>2, OneAccount DEF PaymentInv
  <2> QED BY <1>1, <1>2, <2>1, AccountValues
<1>6. MoneyNow' = MoneyNow
  BY <1>1 DEF MoneyNow
<1> QED BY <1>1, <1>4, <1>5, <1>6 DEF Contract!Offer

\* An offer fails after its order was paid, or is in a pre-checkout: nothing happens.
LEMMA OfferFailsRefines ==
    ASSUME PaymentInv, ChargeInv, NEW t \in Taps, OfferFails(t)
    PROVE  ChargeInv' /\ \/ \E o \in Orders : Contract!Close(o)
                         \/ UNCHANGED Contract!vars
<1> DEFINE o == tap[t].order
<1>1. o \in Orders /\ order[o] # NoOrder /\ order[o] \in OrderRow
  BY ExistingTap, ExistingOrder DEF PaymentInv, OrdersExist, OfferFails
<1>2. UNCHANGED <<purchase, delivered, alerted>> /\ order \in [Orders -> {NoOrder} \cup OrderRow]
  BY DEF OfferFails, payVars, PaymentInv, TypeOK
<1>3. CASE order[o].status = "CREATED"
  <2> DEFINE row == [order[o] EXCEPT !.status = "FAILED"]
  <2>1. order' = [order EXCEPT ![o] = row]
    BY <1>1, <1>2, <1>3 DEF OfferFails, FailedOrder
  <2>2. row.status = "FAILED"
    BY <1>1 DEF OrderRow
  <2> HIDE DEF row, o
  <2>3. \A q \in Purchases :
           purchase'[q].stage = "unmatched" => purchase[q] # NoPurchase /\ ~HasCharge(q)
    BY <1>2 DEF ChargeInv, UnmatchedPaysNothing, NoPurchase
  <2>4. ChargeInv' /\ Credited' = Credited
    BY <1>1, <1>2, <1>3, <2>1, <2>2, <2>3, AllAttemptsStay, UnpaidMoves
  <2>5. AccountsNow' = [AccountsNow EXCEPT ![o] = "closed"] /\ AccountsNow[o] = "open"
    <3>1. /\ AccountsNow' = [AccountsNow EXCEPT ![o] = AccountOf(row.status)]
          /\ AccountsNow[o] = AccountOf(order[o].status)
      BY <1>1, <1>3, <2>1, <2>2, OneAccount DEF PaymentInv
    <3> QED BY <1>1, <1>3, <2>1, <2>2, <3>1, AccountValues
  <2>6. MoneyNow' = MoneyNow
    BY <1>2 DEF MoneyNow
  <2>7. Contract!Close(o)
    BY <1>2, <2>4, <2>5, <2>6 DEF Contract!Close
  <2> QED BY <1>1, <2>4, <2>7
<1>4. CASE order[o].status # "CREATED"
  <2>1. [order[o] EXCEPT !.status = order[o].status] = order[o]
    BY <1>1 DEF OrderRow
  <2>2. UNCHANGED order
    BY <1>1, <1>2, <1>4, <2>1 DEF OfferFails, FailedOrder
  <2> QED BY <1>2, <2>2, NoOrderMoves
<1> QED BY <1>3, <1>4

LEMMA PayInvoiceRefines ==
    ASSUME PaymentInv, ChargeInv, NEW q \in Purchases, NEW o \in Orders,
           NEW user \in Strangers \cup {Customer}, PayInvoice(q, o, user)
    PROVE  ChargeInv' /\ UNCHANGED Contract!vars
<1> DEFINE new == [order |-> o, user |-> user, stage |-> "asked"]
<1>1. /\ new \in Attempt /\ new.stage = "asked" /\ new.order = o
      /\ purchase[q] = NoPurchase
      /\ purchase' = [purchase EXCEPT ![q] = new] /\ UNCHANGED <<order, delivered, alerted>>
  BY DEF Attempt, PayInvoice
<1> HIDE DEF new
<1>2. new # NoPurchase
  BY <1>1 DEF NoPurchase
<1>3. /\ purchase'[q] = new
      /\ \A r \in Purchases : r # q => purchase'[r] = purchase[r]
  BY <1>1 DEF PaymentInv, TypeOK
<1>4. \A r \in Purchases : AttemptStays(r)
  BY <1>1, <1>2, <1>3, ExistingAttempt DEF PaymentInv, AttemptStays
<1>5. \A r \in Purchases :
         purchase'[r].stage = "unmatched" => purchase[r] # NoPurchase /\ ~HasCharge(r)
  BY <1>1, <1>3 DEF ChargeInv, UnmatchedPaysNothing, NoPurchase
<1>6. \A p \in Orders : PaidStays(p)
  BY <1>1 DEF PaidStays
<1>7. ChargeInv' /\ Credited' = Credited
  BY <1>4, <1>5, <1>6, CreditStays
<1>8. AccountsNow' = AccountsNow
  BY <1>1 DEF AccountsNow
<1>9. MoneyNow' = MoneyNow
  <2>1. MoneyOf(new) = Contract!Nothing /\ MoneyOf(NoPurchase) = Contract!Nothing
    BY <1>1, MoneyValues DEF NoPurchase
  <2>2. \A r \in Purchases : MoneyOf(purchase'[r]) = MoneyOf(purchase[r])
    BY <1>1, <1>3, <2>1
  <2> QED BY <2>2 DEF MoneyNow
<1> QED BY <1>1, <1>7, <1>8, <1>9 DEF Contract!vars

\* A pre-checkout allows the payment of an open order, or closes one, or does nothing.
LEMMA PreCheckoutRefines ==
    ASSUME PaymentInv, ChargeInv, NEW q \in Purchases, PreCheckout(q)
    PROVE  ChargeInv' /\ \/ \E o \in Orders : Contract!Promise(q, o) \/ Contract!Close(o)
                         \/ UNCHANGED Contract!vars
<1> DEFINE o == purchase[q].order
           open == order[o].status \in {"CREATED", "PRECHECKOUT"}
           ok == o \notin lapsed /\ open /\ purchase[q].user = Customer
           st == IF ok THEN "approved" ELSE "refused"
<1>1. /\ o \in Orders /\ order[o] # NoOrder /\ order[o] \in OrderRow
      /\ purchase[q].stage = "asked" /\ purchase[q] \in Attempt
      /\ order \in [Orders -> {NoOrder} \cup OrderRow]
  BY AttemptFacts, ExistingAttempt DEF PreCheckout, PaymentInv, TypeOK
<1>2. UNCHANGED <<delivered, alerted>> /\ PurchaseGoes(q, st)
  BY DEF PreCheckout
<1>3. /\ purchase' \in [Purchases -> {NoPurchase} \cup Attempt]
      /\ purchase'[q].stage = st
      /\ purchase'[q].order = o
      /\ \A r \in Purchases : r # q => purchase'[r] = purchase[r]
  BY <1>1, <1>2, StageChange DEF PaymentInv
<1>4. purchase'[q] \in Attempt /\ purchase'[q] # NoPurchase /\ purchase[q] # NoPurchase
  BY <1>1, <1>3 DEF NoPurchase
<1>5. \A r \in Purchases : AttemptStays(r)
  BY <1>1, <1>3, <1>4, ExistingAttempt DEF PaymentInv, AttemptStays
<1>6. \A r \in Purchases :
         purchase'[r].stage = "unmatched" => purchase[r] # NoPurchase /\ ~HasCharge(r)
  BY <1>1, <1>3 DEF ChargeInv, UnmatchedPaysNothing, NoPurchase
<1>7. /\ MoneyOf(purchase[q]) = Contract!Nothing
      /\ MoneyNow' = [MoneyNow EXCEPT ![q] = MoneyOf(purchase'[q])]
      /\ MoneyNow[q] = Contract!Nothing
  BY <1>1, <1>3, MoneyValues DEF MoneyNow
<1>8. CASE ok
  <2> DEFINE row == [order[o] EXCEPT !.status = "PRECHECKOUT"]
  <2>1. order' = [order EXCEPT ![o] = row]
    BY <1>1, <1>8 DEF PreCheckout
  <2>2. row.status = "PRECHECKOUT" /\ order[o].status \in {"CREATED", "PRECHECKOUT"}
    BY <1>1, <1>8 DEF OrderRow
  <2>3. MoneyOf(purchase'[q]) = [step |-> "promised", order |-> o]
    BY <1>3, <1>4, <1>8, MoneyValues
  <2> HIDE DEF row, o, ok
  <2>4. ChargeInv' /\ Credited' = Credited
    BY <1>1, <1>5, <1>6, <2>1, <2>2, UnpaidMoves
  <2>5. AccountsNow[o] = "open" /\ AccountsNow' = AccountsNow
    <3>1. AccountsNow' = [AccountsNow EXCEPT ![o] = "open"] /\ AccountsNow[o] = "open"
      <4>1. /\ AccountsNow' = [AccountsNow EXCEPT ![o] = AccountOf(row.status)]
            /\ AccountsNow[o] = AccountOf(order[o].status)
        BY <1>1, <2>1, <2>2, OneAccount DEF PaymentInv
      <4> QED BY <1>1, <2>1, <2>2, <4>1, AccountValues
    <3> QED BY <3>1 DEF AccountsNow
  <2>6. Contract!Promise(q, o)
    BY <1>2, <1>7, <2>3, <2>4, <2>5 DEF Contract!Promise
  <2> QED BY <1>1, <2>4, <2>6
<1>9. CASE ~ok
  <2>1. MoneyNow' = MoneyNow
    <3>1. MoneyOf(purchase'[q]) = Contract!Nothing
      BY <1>3, <1>4, <1>9, MoneyValues
    <3> QED BY <1>7, <3>1 DEF MoneyNow
  <2>2. CASE o \in lapsed /\ order[o].status # "PAID"
    <3> DEFINE row == [order[o] EXCEPT !.status = "EXPIRED"]
    <3>1. order' = [order EXCEPT ![o] = row]
      BY <1>1, <2>2 DEF PreCheckout, Expire
    <3>2. row.status = "EXPIRED" /\ order[o].status \in {"CREATED", "PRECHECKOUT", "EXPIRED", "FAILED"}
      BY <1>1, <2>2 DEF OrderRow
    <3> HIDE DEF row, o, ok
    <3>3. ChargeInv' /\ Credited' = Credited
      BY <1>1, <1>5, <1>6, <3>1, <3>2, UnpaidMoves
    <3>4. /\ AccountsNow' = [AccountsNow EXCEPT ![o] = "closed"]
          /\ AccountsNow[o] \in {"open", "closed"}
      <4>1. /\ AccountsNow' = [AccountsNow EXCEPT ![o] = AccountOf(row.status)]
            /\ AccountsNow[o] = AccountOf(order[o].status)
        BY <1>1, <3>1, <3>2, OneAccount DEF PaymentInv
      <4> QED BY <1>1, <3>1, <3>2, <4>1, AccountValues
    <3>5. CASE AccountsNow[o] = "open"
      BY <1>1, <1>2, <2>1, <3>3, <3>4, <3>5 DEF Contract!Close
    <3>6. CASE AccountsNow[o] = "closed"
      <4>1. AccountsNow' = AccountsNow
        BY <3>4, <3>6 DEF AccountsNow
      <4> QED BY <1>2, <2>1, <3>3, <4>1 DEF Contract!vars
    <3> QED BY <3>4, <3>5, <3>6
  <2>3. CASE ~(o \in lapsed /\ order[o].status # "PAID")
    <3>1. [order[o] EXCEPT !.status = order[o].status] = order[o]
      BY <1>1 DEF OrderRow
    <3>2. UNCHANGED order
      BY <1>1, <1>9, <2>3, <3>1 DEF PreCheckout, Expire
    <3>3. \A p \in Orders : PaidStays(p)
      BY <3>2 DEF PaidStays
    <3>4. ChargeInv' /\ Credited' = Credited
      BY <1>5, <1>6, <3>3, CreditStays
    <3>5. AccountsNow' = AccountsNow
      BY <3>2 DEF AccountsNow
    <3> QED BY <1>2, <2>1, <3>4, <3>5 DEF Contract!vars
  <2> QED BY <2>2, <2>3
<1> QED BY <1>8, <1>9

\* Losing the answer of a pre-checkout takes back what it allowed, if it did.
LEMMA PreCheckoutLostRefines ==
    ASSUME PaymentInv, ChargeInv, NEW q \in Purchases, PreCheckoutLost(q)
    PROVE  ChargeInv' /\ (Contract!Withdraw(q) \/ UNCHANGED Contract!vars)
<1>1. /\ purchase[q].stage \in {"asked", "approved"} /\ purchase[q] \in Attempt
      /\ PurchaseGoes(q, "refused") /\ UNCHANGED <<order, delivered, alerted>>
  BY ExistingAttempt DEF PreCheckoutLost, PaymentInv
<1>2. /\ ChargeInv' /\ Credited' = Credited /\ AccountsNow' = AccountsNow
      /\ purchase'[q] \in Attempt /\ purchase'[q].stage = "refused"
      /\ MoneyNow' = [MoneyNow EXCEPT ![q] = MoneyOf(purchase'[q])]
  BY <1>1, StageMoves
<1>3. MoneyNow' = [MoneyNow EXCEPT ![q] = Contract!Nothing] /\ MoneyNow[q] = MoneyOf(purchase[q])
  BY <1>2, MoneyValues DEF MoneyNow
<1>4. CASE purchase[q].stage = "asked"
  <2>1. MoneyNow[q] = Contract!Nothing
    BY <1>1, <1>3, <1>4, MoneyValues
  <2>2. MoneyNow' = MoneyNow
    BY <1>3, <2>1 DEF MoneyNow
  <2> QED BY <1>1, <1>2, <2>2 DEF Contract!vars
<1>5. CASE purchase[q].stage = "approved"
  <2>1. MoneyNow[q].step = "promised"
    BY <1>1, <1>3, <1>5, MoneyValues
  <2> QED BY <1>1, <1>2, <1>3, <2>1 DEF Contract!Withdraw
<1> QED BY <1>1, <1>4, <1>5

\* Stages in which the money is with the bot and the payment is not done with.
Open == {"charged", "recorded", "unmatched", "delivered", "lost"}

\* The money stays where it is.
LEMMA MoneyStays ==
    ASSUME PaymentInv, NEW q \in Purchases, purchase[q].stage \in Open,
           purchase'[q] \in Attempt, purchase'[q].stage \in Open,
           purchase'[q].order = purchase[q].order,
           MoneyNow' = [MoneyNow EXCEPT ![q] = MoneyOf(purchase'[q])]
    PROVE  MoneyNow' = MoneyNow
<1>1. purchase[q] \in Attempt
  BY ExistingAttempt DEF PaymentInv, Open
<1>2. MoneyOf(purchase'[q]) = MoneyOf(purchase[q])
  BY <1>1, MoneyValues DEF Open
<1> QED BY <1>2 DEF MoneyNow

LEMMA ChargeRefines ==
    ASSUME PaymentInv, ChargeInv, NEW q \in Purchases, Charge(q)
    PROVE  ChargeInv' /\ Contract!Take(q)
<1>1. /\ purchase[q].stage = "approved" /\ purchase[q] \in Attempt
      /\ PurchaseGoes(q, "charged") /\ UNCHANGED <<order, delivered, alerted>>
  BY ExistingAttempt DEF Charge, PaymentInv
<1>2. /\ ChargeInv' /\ Credited' = Credited /\ AccountsNow' = AccountsNow
      /\ purchase'[q] \in Attempt /\ purchase'[q].stage = "charged"
      /\ purchase'[q].order = purchase[q].order
      /\ MoneyNow' = [MoneyNow EXCEPT ![q] = MoneyOf(purchase'[q])]
  BY <1>1, StageMoves
<1>3. MoneyNow[q] = [step |-> "promised", order |-> purchase[q].order]
  BY <1>1, MoneyValues DEF MoneyNow
<1>4. MoneyOf(purchase'[q]) = [step |-> "taken", order |-> purchase[q].order]
  BY <1>2, MoneyValues
<1>5. MoneyOf(purchase'[q]) = [MoneyNow[q] EXCEPT !.step = "taken"]
  BY <1>3, <1>4
<1> QED BY <1>1, <1>2, <1>3, <1>5 DEF Contract!Take

\* The payment is done with, by the owner's message or by a repeated report.
LEMMA SettleRefines ==
    ASSUME PaymentInv, ChargeInv, NEW q \in Purchases, purchase[q].stage \in Open,
           PurchaseGoes(q, "settled"), UNCHANGED <<order, delivered>>,
           alerted' = IF HasCharge(q) THEN alerted ELSE alerted \cup {q}
    PROVE  ChargeInv' /\ Contract!Finish(q)
<1>1. purchase[q] \in Attempt /\ purchase[q] # NoPurchase
  BY ExistingAttempt DEF PaymentInv, Open, NoPurchase
<1>2. /\ ChargeInv' /\ Credited' = Credited /\ AccountsNow' = AccountsNow
      /\ purchase'[q] \in Attempt /\ purchase'[q].stage = "settled"
      /\ purchase'[q].order = purchase[q].order
      /\ MoneyNow' = [MoneyNow EXCEPT ![q] = MoneyOf(purchase'[q])]
  BY StageMoves DEF Open
<1>3. MoneyNow[q] = [step |-> "taken", order |-> purchase[q].order]
  BY <1>1, MoneyValues DEF MoneyNow, Open
<1>4. MoneyOf(purchase'[q]) = [step |-> "done", order |-> purchase[q].order]
  BY <1>2, MoneyValues
<1>5. MoneyOf(purchase'[q]) = [MoneyNow[q] EXCEPT !.step = "done"]
  BY <1>3, <1>4
<1>6. q \in Credited <=> HasCharge(q)
  BY <1>1 DEF Credited
<1> QED BY <1>2, <1>3, <1>5, <1>6 DEF Contract!Finish

\* The first report pays the order, open or closed; a repeated one settles the payment;
\* any other leaves the money where it is until the owner is told.
LEMMA ReportRefines ==
    ASSUME PaymentInv, ChargeInv, NEW q \in Purchases, Report(q)
    PROVE  ChargeInv' /\ (Contract!Credit(q) \/ Contract!Finish(q) \/ UNCHANGED Contract!vars)
<1> DEFINE o == purchase[q].order
<1>1. /\ o \in Orders /\ order[o] \in OrderRow /\ purchase[q] \in Attempt
      /\ purchase[q].stage = "charged" /\ order[o].status \in Held
      /\ order \in [Orders -> {NoOrder} \cup OrderRow]
      /\ UNCHANGED <<delivered, alerted>> /\ purchase[q] # NoPurchase
  BY AttemptFacts, ExistingAttempt DEF Report, PaymentInv, TypeOK, NoPurchase
<1>2. CASE FirstReport(q)
  <2> DEFINE row == [order[o] EXCEPT !.status = "PAID", !.charge = q]
  <2>1. /\ order' = [order EXCEPT ![o] = row]
        /\ PurchaseGoes(q, "recorded") /\ order[o].status \in {"PRECHECKOUT", "EXPIRED"}
    BY <1>1, <1>2 DEF Report, FirstReport, Held
  <2>2. row.status = "PAID" /\ row.charge = q
    BY <1>1 DEF OrderRow
  <2> HIDE DEF row
  <2>3. /\ purchase'[q] \in Attempt
        /\ purchase'[q].stage = "recorded" /\ purchase'[q].order = o
        /\ \A r \in Purchases : r # q => purchase'[r] = purchase[r]
    <3>1. /\ purchase' \in [Purchases -> {NoPurchase} \cup Attempt]
          /\ purchase'[q].stage = "recorded" /\ purchase'[q].order = o
          /\ \A r \in Purchases : r # q => purchase'[r] = purchase[r]
      BY <1>1, <2>1, StageChange DEF PaymentInv
    <3> QED BY <3>1 DEF NoPurchase
  <2>4. purchase'[q] # NoPurchase
    BY <2>3 DEF NoPurchase
  <2>5. order'[o] = row /\ \A p \in Orders : p # o => order'[p] = order[p]
    BY <1>1, <2>1
  <2>6. MoneyNow' = MoneyNow /\ MoneyNow[q] = [step |-> "taken", order |-> o]
    <3>1. MoneyNow' = [MoneyNow EXCEPT ![q] = MoneyOf(purchase'[q])]
      BY <2>3 DEF MoneyNow
    <3>2. MoneyNow' = MoneyNow
      BY <1>1, <2>3, <3>1, MoneyStays DEF Open
    <3> QED BY <1>1, <3>2, MoneyValues DEF MoneyNow
  <2>7. /\ AccountsNow' = [AccountsNow EXCEPT ![o] = "paid"]
        /\ AccountsNow[o] \in {"open", "closed"}
    <3>1. /\ AccountsNow' = [AccountsNow EXCEPT ![o] = AccountOf(row.status)]
          /\ AccountsNow[o] = AccountOf(order[o].status)
      BY <1>1, <2>1, OneAccount DEF PaymentInv
    <3> QED BY <2>1, <2>2, <3>1, AccountValues
  <2>8. HasCharge(q)'
    BY <2>2, <2>3, <2>5 DEF HasCharge
  <2> HIDE DEF o
  <2>9. ASSUME NEW r \in Purchases, r # q, purchase[r] # NoPurchase
        PROVE  HasCharge(r)' <=> HasCharge(r)
    BY <2>1, <2>2, <2>3, <2>5, <2>9, ExistingAttempt DEF PaymentInv, HasCharge
  <2>10. ChargesAreReal'
    <3>1. ASSUME NEW p \in Orders, p # o, order'[p].status = "PAID"
          PROVE  /\ order'[p].charge \in Purchases
                 /\ purchase'[order'[p].charge] # NoPurchase
                 /\ purchase'[order'[p].charge].order = p
      BY <2>3, <2>4, <2>5, <3>1 DEF ChargeInv, ChargesAreReal, o
    <3> QED BY <2>2, <2>3, <2>4, <2>5, <3>1 DEF ChargesAreReal
  <2>11. UnmatchedPaysNothing'
    BY <2>3, <2>9 DEF ChargeInv, UnmatchedPaysNothing, NoPurchase
  <2>12. Credited' = Credited \cup {q}
    BY <2>3, <2>4, <2>8, <2>9 DEF Credited
  <2> QED BY <1>1, <2>6, <2>7, <2>10, <2>11, <2>12 DEF Contract!Credit, ChargeInv
<1>3. CASE ~FirstReport(q) /\ RepeatedReport(q)
  <2>1. HasCharge(q) /\ PurchaseGoes(q, "settled") /\ UNCHANGED order
    BY <1>3 DEF Report, RepeatedReport, HasCharge
  <2> QED BY <1>1, <2>1, SettleRefines DEF Open
<1>4. CASE ~FirstReport(q) /\ ~RepeatedReport(q)
  <2>1. ~HasCharge(q) /\ PurchaseGoes(q, "unmatched") /\ UNCHANGED order
    BY <1>4 DEF Report, RepeatedReport, HasCharge
  <2>2. /\ ChargeInv' /\ Credited' = Credited /\ AccountsNow' = AccountsNow
        /\ purchase'[q] \in Attempt /\ purchase'[q].stage = "unmatched"
        /\ purchase'[q].order = purchase[q].order
        /\ MoneyNow' = [MoneyNow EXCEPT ![q] = MoneyOf(purchase'[q])]
    BY <1>1, <2>1, StageMoves
  <2>3. MoneyNow' = MoneyNow
    BY <1>1, <2>2, MoneyStays DEF Open
  <2> QED BY <1>1, <2>2, <2>3 DEF Contract!vars
<1> QED BY <1>2, <1>3, <1>4

LEMMA DeliverRefines ==
    ASSUME PaymentInv, ChargeInv, NEW q \in Purchases, Deliver(q)
    PROVE  ChargeInv' /\ \E o \in Orders : Contract!Tell(o)
<1> DEFINE o == purchase[q].order
<1>1. /\ purchase[q].stage = "recorded" /\ o \in Orders /\ HasCharge(q) /\ delivered[o] = 0
      /\ PurchaseGoes(q, "delivered") /\ UNCHANGED <<order, alerted>>
      /\ delivered' = [delivered EXCEPT ![o] = @ + 1]
  BY AttemptFacts DEF Deliver
<1>2. /\ ChargeInv' /\ Credited' = Credited /\ AccountsNow' = AccountsNow
      /\ purchase'[q] \in Attempt /\ purchase'[q].stage = "delivered"
      /\ purchase'[q].order = purchase[q].order
      /\ MoneyNow' = [MoneyNow EXCEPT ![q] = MoneyOf(purchase'[q])]
  BY <1>1, StageMoves
<1>3. MoneyNow' = MoneyNow
  BY <1>1, <1>2, MoneyStays DEF Open
<1>4. AccountsNow[o] = "paid"
  BY <1>1, AccountValues DEF AccountsNow, HasCharge
<1>5. delivered' = [delivered EXCEPT ![o] = 1]
  BY <1>1 DEF PaymentInv, TypeOK
<1> HIDE DEF o
<1>6. Contract!Tell(o)
  BY <1>1, <1>2, <1>3, <1>4, <1>5 DEF Contract!Tell
<1> QED BY <1>1, <1>2, <1>6

LEMMA TellOwnerRefines ==
    ASSUME PaymentInv, ChargeInv, NEW q \in Purchases, TellOwner(q)
    PROVE  ChargeInv' /\ Contract!Finish(q)
<1>1. /\ purchase[q].stage \in {"delivered", "unmatched"} /\ PurchaseGoes(q, "settled")
      /\ UNCHANGED <<order, delivered>>
  BY DEF TellOwner
<1>2. HasCharge(q) <=> purchase[q].stage = "delivered"
  BY <1>1, AttemptFacts DEF ChargeInv, UnmatchedPaysNothing
<1>3. alerted' = IF HasCharge(q) THEN alerted ELSE alerted \cup {q}
  BY <1>1, <1>2 DEF TellOwner
<1> QED BY <1>1, <1>3, SettleRefines DEF Open

LEMMA ReportFailsRefines ==
    ASSUME PaymentInv, ChargeInv, NEW q \in Purchases, ReportFails(q)
    PROVE  ChargeInv' /\ UNCHANGED Contract!vars
<1>1. /\ purchase[q].stage \in {"recorded", "delivered", "unmatched"} /\ PurchaseGoes(q, "lost")
      /\ UNCHANGED <<order, delivered, alerted>>
  BY DEF ReportFails
<1>2. /\ ChargeInv' /\ Credited' = Credited /\ AccountsNow' = AccountsNow
      /\ purchase'[q] \in Attempt /\ purchase'[q].stage = "lost"
      /\ purchase'[q].order = purchase[q].order
      /\ MoneyNow' = [MoneyNow EXCEPT ![q] = MoneyOf(purchase'[q])]
  BY <1>1, StageMoves
<1>3. MoneyNow' = MoneyNow
  BY <1>1, <1>2, MoneyStays DEF Open
<1> QED BY <1>1, <1>2, <1>3 DEF Contract!vars

\* A report that was being handled is taken up again or lost; the money is where it was.
LEMMA CrashRefines ==
    ASSUME PaymentInv, ChargeInv, NEW again \in SUBSET Purchases, Crash(again)
    PROVE  ChargeInv' /\ UNCHANGED Contract!vars
<1>1. UNCHANGED <<order, delivered, alerted>>
  BY DEF Crash
<1>2. ASSUME NEW q \in Purchases
      PROVE  /\ AttemptStays(q)
             /\ purchase'[q].stage = "unmatched" => purchase[q] # NoPurchase /\ ~HasCharge(q)
             /\ MoneyOf(purchase'[q]) = MoneyOf(purchase[q])
  <2>1. CASE purchase[q].stage \in {"recorded", "delivered", "unmatched"}
    <3>1. purchase[q] \in Attempt
      BY <2>1, ExistingAttempt DEF PaymentInv
    <3>2. PICK st \in {"charged", "lost"} : purchase'[q] = [purchase[q] EXCEPT !.stage = st]
      BY <2>1 DEF Crash
    <3>3. /\ purchase'[q] \in Attempt /\ purchase'[q].stage = st
          /\ purchase'[q].order = purchase[q].order
      BY <3>1, <3>2 DEF Attempt
    <3>4. purchase'[q] # NoPurchase /\ purchase'[q].order \in Orders
      BY <3>1, <3>3 DEF NoPurchase, Attempt
    <3>5. MoneyOf(purchase'[q]) = MoneyOf(purchase[q])
      BY <2>1, <3>1, <3>3, MoneyValues
    <3> QED BY <3>3, <3>4, <3>5 DEF AttemptStays
  <2>2. CASE purchase[q].stage \notin {"recorded", "delivered", "unmatched"}
    <3>1. purchase'[q] = purchase[q]
      BY <2>2 DEF Crash
    <3> QED BY <2>2, <3>1, ExistingAttempt DEF PaymentInv, AttemptStays
  <2> QED BY <2>1, <2>2
<1>3. \A o \in Orders : PaidStays(o)
  BY <1>1 DEF PaidStays
<1>4. ChargeInv' /\ Credited' = Credited
  BY <1>2, <1>3, CreditStays
<1>5. AccountsNow' = AccountsNow /\ MoneyNow' = MoneyNow
  BY <1>1, <1>2 DEF AccountsNow, MoneyNow
<1> QED BY <1>1, <1>4, <1>5 DEF Contract!vars

LEMMA StepRefines ==
    ASSUME PaymentInv, ChargeInv, [Next]_vars
    PROVE  ChargeInv' /\ [Contract!Next]_(Contract!vars)
<1>1. CASE UNCHANGED vars \/ OwnerStep \/ (\E p \in Profiles : MenuShown(p))
           \/ \E o \in Orders : Lapse(o)
  <2>1. UNCHANGED <<order, purchase, delivered, alerted>>
    BY <1>1 DEF vars, payVars, OwnerStep, AddButton, EditButton, SaveButton, DeleteButton,
                Publish, MenuShown, Lapse
  <2> QED BY <2>1, NoOrderMoves
<1>2. ASSUME NEW t \in Taps, TapStep(t)
      PROVE  ChargeInv' /\ [Contract!Next]_(Contract!vars)
  <2>1. CASE (\E p \in Profiles : TapButton(t, p)) \/ LinkMade(t) \/ OfferArrives(t)
             \/ OfferConfirmed(t)
    <3>1. UNCHANGED <<order, purchase, delivered, alerted>>
      BY <2>1 DEF TapButton, LinkMade, OfferArrives, OfferConfirmed, payVars
    <3> QED BY <3>1, NoOrderMoves
  <2>2. CASE \E o \in Orders : CreateOrder(t, o)
    BY <2>2, CreateOrderRefines DEF Contract!Next
  <2>3. CASE OfferFails(t)
    BY <2>3, OfferFailsRefines DEF Contract!Next
  <2> QED BY <1>2, <2>1, <2>2, <2>3 DEF TapStep
<1>3. ASSUME NEW q \in Purchases, PurchaseStep(q)
      PROVE  ChargeInv' /\ [Contract!Next]_(Contract!vars)
  <2>1. CASE \E o \in Orders, user \in Strangers \cup {Customer} : PayInvoice(q, o, user)
    BY <2>1, PayInvoiceRefines
  <2>2. CASE PreCheckout(q)
    BY <2>2, PreCheckoutRefines DEF Contract!Next
  <2>3. CASE PreCheckoutLost(q)
    BY <2>3, PreCheckoutLostRefines DEF Contract!Next
  <2>4. CASE Charge(q)
    BY <2>4, ChargeRefines DEF Contract!Next
  <2>5. CASE Report(q)
    BY <2>5, ReportRefines DEF Contract!Next
  <2>6. CASE Deliver(q)
    BY <2>6, DeliverRefines DEF Contract!Next
  <2>7. CASE TellOwner(q)
    BY <2>7, TellOwnerRefines DEF Contract!Next
  <2>8. CASE ReportFails(q)
    BY <2>8, ReportFailsRefines
  <2> QED BY <1>3, <2>1, <2>2, <2>3, <2>4, <2>5, <2>6, <2>7, <2>8 DEF PurchaseStep
<1> QED BY <1>1, <1>2, <1>3, CrashRefines DEF Next

-----------------------------------------------------------------------------
(* The theorems.                                                           *)

\* The invariant behind the ones below holds from the first menu on, whatever the
\* owner publishes and however customers pay.
THEOREM PaymentInvariant == Spec => []PaymentInv
<1>1. Init => PaymentInv
  <2> SUFFICES ASSUME Init PROVE PaymentInv
    OBVIOUS
  <2>1. TypeOK
    BY MenuAssumption DEF Init, TypeOK
  <2> QED BY <2>1 DEF Init, PaymentInv, OrdersExist, SeenIsPublished, ApprovedIsHeld,
                      RecordedHasCharge, SettledHasCharge, DeliveredOnce, Idle, NoPurchase
<1>2. PaymentInv /\ [Next]_vars => PaymentInv'
  <2> SUFFICES ASSUME PaymentInv, [Next]_vars PROVE PaymentInv'
    OBVIOUS
  <2>1. CASE UNCHANGED vars
    BY <2>1 DEF vars, menuVars, payVars, PaymentInv, TypeOK, OrdersExist, SeenIsPublished,
                ApprovedIsHeld, RecordedHasCharge, SettledHasCharge, DeliveredOnce, HasCharge
  <2> QED BY <2>1, OwnerSteps, LapseStep, TapSteps, PurchaseSteps, CrashStep DEF Next
<1> QED BY <1>1, <1>2, PTL DEF Spec

\* Every state is well typed: no handler writes an order or an attempt out of shape.
THEOREM PaymentTypes == Spec => []TypeOK
<1>1. PaymentInv => TypeOK
  BY DEF PaymentInv
<1> QED BY <1>1, PaymentInvariant, PTL

\* An order that was given up is never charged: the failure of an offer comes too
\* late for an order that was approved.
THEOREM FailedStaysUncharged == Spec => []FailedIsNeverCharged
<1>1. PaymentInv => FailedIsNeverCharged
  BY DEF PaymentInv, ApprovedIsHeld, FailedIsNeverCharged, Held
<1> QED BY <1>1, PaymentInvariant, PTL

\* The success message of an order goes out at most once, and only for a paid order,
\* however many people pay and however often Telegram repeats its report.
THEOREM SuccessIsToldOnce == Spec => []DeliveredOnce
<1>1. PaymentInv => DeliveredOnce
  BY DEF PaymentInv
<1> QED BY <1>1, PaymentInvariant, PTL

\* No charge that was dealt with is swallowed: it is recorded or the owner knows.
THEOREM NoMoneyIsSwallowed == Spec => []MoneyIsAccounted
<1>1. PaymentInv => MoneyIsAccounted
  BY DEF PaymentInv, SettledHasCharge, HasCharge, MoneyIsAccounted
<1> QED BY <1>1, PaymentInvariant, PTL

\* A menu that was published is never edited again, whichever wizard ends late.
THEOREM PublishedStaysFrozen == Spec => PublishedIsFrozen
<1>1. TypeOK /\ [Next]_vars =>
         [\A p \in Profiles : scope[p] \in {"DEFAULT", "ARCHIVED"} => price'[p] = price[p]]_vars
  <2> SUFFICES ASSUME TypeOK, Next, NEW p \in Profiles, scope[p] \in {"DEFAULT", "ARCHIVED"}
               PROVE  price'[p] = price[p]
    OBVIOUS
  <2>1. CASE OwnerStep
    BY <2>1 DEF OwnerStep, TypeOK, AddButton, EditButton, DeleteButton, SaveButton, Publish,
                Editable
  <2>2. CASE \E q \in Profiles : MenuShown(q)
    BY <2>2 DEF MenuShown
  <2>3. CASE \E t \in Taps : TapStep(t)
    BY <2>3 DEF TapStep, TapButton, CreateOrder, LinkMade, OfferArrives, OfferConfirmed,
                OfferFails, menuVars
  <2>4. CASE \E o \in Orders : Lapse(o)
    BY <2>4 DEF Lapse, menuVars
  <2>5. CASE \E q \in Purchases : PurchaseStep(q)
    BY <2>5 DEF PurchaseStep, PayInvoice, PreCheckout, PreCheckoutLost, Charge, Report, Deliver,
                TellOwner, ReportFails, menuVars
  <2>6. CASE \E again \in SUBSET Purchases : Crash(again)
    BY <2>6 DEF Crash
  <2> QED BY <2>1, <2>2, <2>3, <2>4, <2>5, <2>6 DEF Next
<1> QED BY <1>1, PaymentTypes, PTL DEF Spec, PublishedIsFrozen

\* Orders, reports, repetitions and crashes keep the contract of payments: money is taken
\* for an order that was open when Telegram asked, one payment pays an order, the customer
\* is told once, and a payment is done with when it paid or the owner knows of it.
THEOREM BotKeepsPaymentContract == Spec => KeepsPaymentContract
<1>1. Init => ChargeInv /\ Contract!Init
  <2> SUFFICES ASSUME Init PROVE ChargeInv /\ Contract!Init
    OBVIOUS
  <2>1. /\ \A o \in Orders : order[o].status = "NONE"
        /\ \A q \in Purchases : purchase[q] = NoPurchase
    BY DEF Init, NoOrder
  <2>2. AccountsNow = [o \in Orders |-> "none"]
    BY <2>1, AccountValues DEF AccountsNow
  <2>3. MoneyOf(NoPurchase) = Contract!Nothing
    BY MoneyValues DEF NoPurchase
  <2>4. MoneyNow = [q \in Purchases |-> Contract!Nothing]
    BY <2>1, <2>3 DEF MoneyNow
  <2>5. Credited = {}
    BY <2>1 DEF Credited
  <2>6. ChargeInv
    BY <2>1 DEF ChargeInv, ChargesAreReal, UnmatchedPaysNothing, NoPurchase
  <2> QED BY <2>2, <2>4, <2>5, <2>6 DEF Init, Contract!Init
<1>2. PaymentInv /\ ChargeInv /\ [Next]_vars => ChargeInv' /\ [Contract!Next]_(Contract!vars)
  BY StepRefines
<1> QED BY <1>1, <1>2, PaymentInvariant, PTL DEF Spec, KeepsPaymentContract, Contract!Spec
=============================================================================
