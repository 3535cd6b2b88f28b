SPECIFICATION Spec
CONSTANTS
    Cpu = cpu
    Backends = {cpu, cuda}
    None = none
    Calls = {c1, c2}
    Size = 2
    MaxSwitches = 2
    MaxCrashes = 1
    MaxFaults = 1
SYMMETRY Symmetry
CHECK_DEADLOCK FALSE
INVARIANTS ArchiveIsChecked OutcomeIsTrue PendingWasProbed 
