SPECIFICATION Spec
CONSTANTS
    app = app
    lib = lib
    src = src
    Formula = {lib, src}
    KegOnly = {}
    Proc = {p1}
    NoProc = NoProc
    Deps <- MCDeps
    SourceBuilt = {src}
    PostInstall = {lib}
    Limit = 2
    Faults <- AllFaults
    MaxOps = 4
INVARIANTS TypeOK OkMeansInstalled ShownIsReady
PROPERTY OnlyUpgradeTouches
CHECK_DEADLOCK FALSE
