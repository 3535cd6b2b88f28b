SPECIFICATION Spec
CONSTANTS
    Requests = {1}
    RegularCapacity = 4
    TerminalCapacity = 2
    Callers = {destroyer}
    SlotCount = 1
    QueueCapacity = 1
    MaxWork = 1
    MaxMetrics = 0
    Faults = {"token"}
    MaxFaults = 1
PROPERTIES
    AcceptedTerminates
