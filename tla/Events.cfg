SPECIFICATION Spec
CONSTANTS
    Requests = {1, 2}
    Live = 2
    Permits = 2
    MaxOutstanding = 2
    RegularCapacity = 1
    MaxSaid = 1
CHECK_DEADLOCK FALSE
INVARIANTS CorrelationHeld  EndIsTrue CancelledOnce
PROPERTIES OverflowWithdraws EndIsHeard ShutdownEnds
