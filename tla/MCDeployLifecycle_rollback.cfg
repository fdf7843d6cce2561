CONSTANTS
    d1 = d1
    d2 = d2
    d3 = d3
    None = None
    Calls <- ThreeCalls
    Earlier <- FirstCall
    Faults <- NoFaults
    ResumeLimit = 2
    MaxTouches = 0
    MaxCrashes = 0
SPECIFICATION Spec
PROPERTIES
    NoStableVersionIsTrue
CHECK_DEADLOCK FALSE
