SPECIFICATION Spec
CONSTANTS
    app = app
    lib = lib
    src = src
    Formula = {app, lib}
    KegOnly = {}
    Proc = {p1, p2}
    NoProc = NoProc
    Deps <- MCDeps
    SourceBuilt = {}
    PostInstall = {app}
    Limit = 2
    Faults <- HandledFaults
    MaxOps = 2
PROPERTY MutatedUnderLock
CHECK_DEADLOCK FALSE
