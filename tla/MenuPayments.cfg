SPECIFICATION FairSpec
CONSTANTS
    Profiles = {1, 2, 3}
    Prices = {5, 7}
    Orders = {1}
    Purchases = {q1, q2, q3}
    Taps = {t1}
    Customer = customer
    Strangers = {stranger}
    MaxCrashes = 1
INVARIANTS
    TypeOK
    FailedIsNeverCharged
    DeliveredOnce
PROPERTIES
    PublishedIsFrozen
    KeepsPaymentContract
    ChargedIsPaid
CHECK_DEADLOCK FALSE
