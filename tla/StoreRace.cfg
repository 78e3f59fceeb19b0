SPECIFICATION Spec
CONSTANTS
    jq = jq
    Formula = {jq}
    Sha = {jq1, jq2}
    Owner <- MCOwner
    Proc = {p1, p2}
    NoProc = NoProc
    Part = {x1, x2}
    Faults <- FaultKinds
    MaxOps = 3
    MaxNonce = 1
INVARIANTS TypeOK OneCollisionPerCrash OwnStoreHolds MaterializedIsWhole CleanupReclaims
PROPERTY BlobsAreAtomic
CHECK_DEADLOCK FALSE
