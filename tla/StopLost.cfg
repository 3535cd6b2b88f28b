SPECIFICATION AppSpec
CONSTANTS
    c1 = c1
    Conversations = {c1}
    r1 = r1
    Runs = {r1}
    NoConversation = NoConversation
    Outcomes = {"complete", "cancelled", "error"}
    MaxSteps = 4
    CommandCapacity = 2
    MaxModelCalls = 2
    MaxTotal = 2
    MaxProgress = 1
    MaxTools = 1
    MaxRepeats = 2
    Actions = {"a"}
    Results = {"x"}
    Faults = {"queued", "tool"}
    MaxFaults = 1
    MaxStops = 1
    MaxRestarts = 1
    MaxUpsets = 2
CHECK_DEADLOCK FALSE
PROPERTIES StopIsTaken
