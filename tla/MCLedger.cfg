SPECIFICATION LedgerSpec
CONSTANTS
    Conversations = {c1}
    MessageIds = {m1, m2}
    Bodies = {hello, bye}
    Approvals = {a1, a2}
    Targets = {"AI_APPROVAL", "HUMAN_TAKEOVER"}
    MaxRevision = 4
SYMMETRY Symmetry
INVARIANTS
    LedgerTypeOK
    OnePendingPerChat
    CurrentMeansUnchanged
PROPERTIES
    ContractSpec
