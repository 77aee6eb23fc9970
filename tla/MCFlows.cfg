SPECIFICATION FairSpec
CONSTANTS
    f1 = f1
    f2 = f2
    Flows <- MCFlowIds
    Steps <- MCSteps
    Supersedes <- MCSupersedes
    Sessions = {1, 2}
    Handlers = {h1, h2}
    Targets = {"AI_AUTO", "HUMAN_TAKEOVER"}
INVARIANTS
    TypeOK
    OneActiveSession
    CompletedIsWhole
PROPERTIES
    EndedIsEnded
    StoppedChatIsLeftAlone
    CompletionIsTold
