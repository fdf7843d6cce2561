CONSTANTS
    s1 = s1
    s2 = s2
    s3 = s3
    Sources <- TwoSources
    NumChunks = 2
    FAIL_THRESHOLD = 2
    Faults <- NoFaults
    MayAbort = FALSE
SPECIFICATION FairSpec
PROPERTIES
    DownloadReturns
CHECK_DEADLOCK FALSE
