CONSTANTS
    s1 = s1
    s2 = s2
    s3 = s3
    Sources <- TwoSources
    NumChunks = 2
    FAIL_THRESHOLD = 2
    Faults <- OnlyIO
    MayAbort = FALSE
SPECIFICATION Spec
INVARIANTS
    SuccessIsComplete
CHECK_DEADLOCK FALSE
