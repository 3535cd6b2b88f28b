SPECIFICATION AppSpec
CONSTANTS
    c1 = c1
    Conversations = {c1}
    r1 = r1
    r2 = r2
    Runs = {r1, r2}
    NoConversation = NoConversation
    Outcomes = {"complete", "cancelled", "error"}
    MaxSteps = 2
    CommandCapacity = 2
    MaxModelCalls = 1
    MaxTotal = 2
    MaxProgress = 2
    MaxTools = 0
    MaxRepeats = 2
    Actions = {"a"}
    Results = {"x"}
    Faults = {"queued", "tool"}
    MaxFaults = 1
    MaxStops = 1
    MaxRestarts = 1
    MaxUpsets = 2
CHECK_DEADLOCK FALSE
INVARIANTS OneOutcome BusyOnlyWhenGivenUp RowsAgree
PROPERTIES EndedIsFinal
