SPECIFICATION Spec
CONSTANTS
    Requests = {1, 2, 3}
    Live = 2
    Permits = 3
    MaxOutstanding = 2
    RegularCapacity = 1
    MaxSaid = 1
CHECK_DEADLOCK FALSE
INVARIANTS CorrelationHeld
