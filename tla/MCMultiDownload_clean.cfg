CONSTANTS
    s1 = s1
    s2 = s2
    s3 = s3
    Sources <- ThreeSources
    NumChunks = 3
    FAIL_THRESHOLD = 2
    Faults <- OnlyStatus
    MayAbort = FALSE
SPECIFICATION Spec
INVARIANTS
    SuccessIsComplete
    StoredInPlace
PROPERTIES
    PromiseSpec
SYMMETRY SourceSymmetry
CHECK_DEADLOCK FALSE
