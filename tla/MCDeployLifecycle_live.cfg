CONSTANTS
    d1 = d1
    d2 = d2
    d3 = d3
    None = None
    Calls <- ThreeCalls
    Earlier <- FirstCall
    Faults <- TableWorks
    ResumeLimit = 2
    MaxTouches = 1
    MaxCrashes = 1
SPECIFICATION FairSpec
PROPERTIES
    SettlesUnlessTouched
CHECK_DEADLOCK FALSE
