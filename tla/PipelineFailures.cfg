SPECIFICATION Spec
CONSTANTS
    app = app
    lib = lib
    src = src
    Formula = {app, lib, src}
    KegOnly = {}
    Proc = {p1}
    NoProc = NoProc
    Deps <- MCDeps
    SourceBuilt = {src}
    PostInstall = {lib}
    Limit = 2
    Faults <- HandledFaults
    MaxOps = 4
INVARIANTS ShownIsWhole DepsInstalled NeverLost FailedEntryClean
PROPERTY ImplementsLifecycle
CHECK_DEADLOCK FALSE
