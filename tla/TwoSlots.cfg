SPECIFICATION Spec
CONSTANTS
    Requests = {1, 2}
    RegularCapacity = 2
    TerminalCapacity = 2
    Callers = {destroyer}
    SlotCount = 2
    QueueCapacity = 2
    MaxWork = 2
    MaxMetrics = 1
    Faults = {"token", "terminal", "cleanup"}
    MaxFaults = 1
INVARIANTS SequencesOwned DecodeOnLiveSequences EventsInOrder
PROPERTIES CancelIsHeeded ContractImplemented
