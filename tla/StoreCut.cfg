SPECIFICATION Spec
CONSTANTS
    jq = jq
    Formula = {jq}
    Sha = {jq1}
    Owner <- MCOwner
    Proc = {p1}
    NoProc = NoProc
    Part = {x1, x2}
    Faults = {"extract"}
    MaxOps = 2
    MaxNonce = 1
INVARIANT HitIsWhole
CHECK_DEADLOCK FALSE
