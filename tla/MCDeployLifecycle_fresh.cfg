CONSTANTS
    d1 = d1
    d2 = d2
    d3 = d3
    None = None
    Calls <- ThreeCalls
    Earlier = None
    Faults <- AllFaults
    ResumeLimit = 1
    MaxTouches = 1
    MaxCrashes = 1
SPECIFICATION Spec
INVARIANTS
    TypeOK
    SeenIsSettled
    RollbackIsJustified
PROPERTIES
    HistorySpec
SYMMETRY CallSymmetry
CHECK_DEADLOCK FALSE
