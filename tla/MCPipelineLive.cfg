SPECIFICATION FairSpec
CONSTANTS
    Conversations = {c1}
    MessageIds = {m1, m2, r1}
    Bodies = {hello}
    Approvals = {a1}
    Targets = {"AI_AUTO", "HUMAN_TAKEOVER"}
    MaxRevision = 3
    Tenths <- MCTenths
    Connections = {k1, k2}
    Incoming = {m1, m2}
    Receipts = {r1}
    Media = {}
    Clicks = {j1}
    Handlers = {}
    OneTimes = {}
    ModeChoices = {"AUTO"}
    MaxCrashes = 0
PROPERTIES
    ClickedClaimResolves
    SendsOnConfirmedConnection
