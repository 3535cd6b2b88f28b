SPECIFICATION Spec
CONSTANTS
    Requests = {1, 2, 3}
    RegularCapacity = 1
    TerminalCapacity = 2
    Callers = {destroyer}
    SlotCount = 1
    QueueCapacity = 1
    MaxWork = 1
    MaxMetrics = 1
    Faults = {"submit", "terminal"}
    MaxFaults = 1
INVARIANTS RequestsHeld NothingOwedAtDestroy
PROPERTIES AcceptedTerminates CloseReturns
