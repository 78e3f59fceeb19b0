SPECIFICATION Spec
CONSTANTS
    host_tag <- MCHost
    cellar_path = "/opt/homebrew/Cellar"
    XcodeMajor = 15
    Names = {"a", "b", "c", "x"}
    Catalogs <- MCCatalogs
    Replacements <- MCReplacements
    Requests <- MCRequests
    NoName = NoName
    MaxUpdates = 1
INVARIANTS InstallOrder CycleIsReal PlanIsComplete NeverMissing BottleFits
PROPERTY Terminates
CHECK_DEADLOCK FALSE
