SPECIFICATION Spec
CONSTANTS
    Conversations = {c1}
    MessageIds = {m1, m2, r1}
    Bodies = {hello}
    Approvals = {a1, a2}
    Targets = {"AI_AUTO", "HUMAN_TAKEOVER"}
    MaxRevision = 4
    Tenths <- MCTenths
    Connections = {k1}
    Incoming = {m1, m2}
    Receipts = {r1}
    Media = {m2}
    Clicks = {}
    Handlers = {h1}
    OneTimes = {o1}
    ModeChoices = {"AUTO", "OFF"}
    MaxCrashes = 0
SYMMETRY Symmetry
PROPERTIES
    UsesLedger
    AutoClaimsInAutoChat
INVARIANTS
    SentIsTrue
