SPECIFICATION Spec
CONSTANTS
    Requests = {1, 2}
    RegularCapacity = 1
    TerminalCapacity = 2
    Callers = {t1, t2}
    MaxEvents = 4
INVARIANTS CompletionAccounting TerminalMatchesPermit StopQuiesces
PROPERTIES FlushIsBarrier PermitOutlivesCallback CallersReturn
