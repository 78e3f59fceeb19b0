SPECIFICATION FairSpec
CONSTANTS
    app = app
    lib = lib
    src = src
    Formula = {app, lib}
    KegOnly = {lib}
    Proc = {p1, p2}
    NoProc = NoProc
    Deps <- MCDeps
    SourceBuilt = {}
    PostInstall = {app}
    Limit = 2
    Faults <- FinalizeFaults
    MaxOps = 2
INVARIANTS NoOrphans HoldsLock
PROPERTIES MutatedUnderLock OperationsEnd
CHECK_DEADLOCK FALSE
