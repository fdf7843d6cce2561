CONSTANTS
    w1 = w1
    w2 = w2
    a = a
    b = b
    Deploys <- TwoDeploys
    Services <- TwoServices
    Before = Before
    None = None
    MaxTries = 4
    Faults <- AllFaults
SPECIFICATION Spec
INVARIANTS
    TypeOK
    RegisteredUnlessOverrun
PROPERTIES
    PromiseSpec
SYMMETRY Symmetry
CHECK_DEADLOCK FALSE
