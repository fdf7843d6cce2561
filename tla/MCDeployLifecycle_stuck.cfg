CONSTANTS
    d1 = d1
    d2 = d2
    d3 = d3
    None = None
    Calls <- TwoCalls
    Earlier <- FirstCall
    Faults <- NoFaults
    ResumeLimit = 2
    MaxTouches = 1
    MaxCrashes = 0
SPECIFICATION FairSpec
PROPERTIES
    DeploymentSettles
CHECK_DEADLOCK FALSE
