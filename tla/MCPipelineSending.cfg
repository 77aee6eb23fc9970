SPECIFICATION Spec
CONSTANTS
    Conversations = {c1}
    MessageIds = {m1, m2, r1, r2}
    Bodies = {hello, bye}
    Approvals = {a1, a2}
    Targets = {"AI_AUTO", "HUMAN_TAKEOVER"}
    MaxRevision = 3
    Tenths <- MCTenths
    Connections = {k1}
    Incoming = {m1, m2}
    Receipts = {r1, r2}
    Media = {}
    Clicks = {j1, j2}
    Handlers = {}
    OneTimes = {}
    ModeChoices = {"AUTO"}
    MaxCrashes = 1
SYMMETRY Symmetry
INVARIANTS
    PipeTypeOK
    AtMostOnceDelivery
    DeliveredIsOnRecord
    ClaimsAreExclusive
