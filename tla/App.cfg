SPECIFICATION FairAppSpec
CONSTANTS
    c1 = c1
    Conversations = {c1}
    r1 = r1
    Runs = {r1}
    NoConversation = NoConversation
    Outcomes = {"complete", "cancelled", "error"}
    MaxSteps = 5
    CommandCapacity = 2
    MaxModelCalls = 2
    MaxTotal = 3
    MaxProgress = 2
    MaxTools = 2
    MaxRepeats = 1
    Actions = {"a"}
    Results = {"x"}
    Faults = {"queued", "tool"}
    MaxFaults = 1
    MaxStops = 1
    MaxRestarts = 1
    MaxUpsets = 2
CHECK_DEADLOCK FALSE
INVARIANTS EndIsRecognised StopReachesRequest LimitsKept
PROPERTIES StoreKept RunsEnd TurnsEnd
