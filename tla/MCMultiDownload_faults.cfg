CONSTANTS
    s1 = s1
    s2 = s2
    s3 = s3
    Sources <- TwoSources
    NumChunks = 2
    FAIL_THRESHOLD = 2
    Faults <- AllFaults
    MayAbort = TRUE
SPECIFICATION FairSpec
INVARIANTS
    TypeOK
    ChunkHasOneOwner
    FailureHasACause
PROPERTIES
    QuietAfterReturn
    SettlesOrStarves
    AbortEndsDownload
CHECK_DEADLOCK FALSE
