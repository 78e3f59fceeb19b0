SPECIFICATION Spec
CONSTANTS
    app = app
    lib = lib
    src = src
    Formula = {app, lib}
    KegOnly = {}
    Proc = {p1}
    NoProc = NoProc
    Deps <- MCDeps
    SourceBuilt = {}
    PostInstall = {app}
    Limit = 2
    Faults <- NoThreadFaults
    MaxOps = 2
INVARIANT NoHalfInstalled
CHECK_DEADLOCK FALSE
