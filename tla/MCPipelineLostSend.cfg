SPECIFICATION FairSpec
CONSTANTS
    Conversations = {c1}
    MessageIds = {m1, m2, r1}
    Bodies = {hello}
    Approvals = {a1}
    Targets = {"AI_AUTO", "HUMAN_TAKEOVER"}
    MaxRevision = 4
    Tenths <- MCTenths
    Connections = {k1}
    Incoming = {m1, m2}
    Receipts = {r1}
    Media = {m2}
    Clicks = {}
    Handlers = {}
    OneTimes = {}
    ModeChoices = {"AUTO"}
    MaxCrashes = 0
PROPERTIES
    SendsGetAnOutcome
