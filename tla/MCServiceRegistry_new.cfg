CONSTANTS
    w1 = w1
    w2 = w2
    a = a
    b = b
    Deploys <- OneDeploy
    Services <- OneService
    Before = Before
    None = None
    MaxTries = 4
    Faults <- NoFaults
SPECIFICATION Spec
INVARIANTS
    DeployedIsRegistered
CHECK_DEADLOCK FALSE
