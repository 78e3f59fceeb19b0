SPECIFICATION Spec
CONSTANTS
    formula_name = "foo"
    keg_path <- MCKegPath
    dependency = "dep"
    Captured = "$out"
    Attributes <- MCAttributes
    NoHook = NoHook
    Starts <- MCStarts
    Outputs <- MCOutputs
    OtherFile <- MCOtherFile
    MaxFaults = 2
INVARIANTS FailureLeavesPrefix UserFilesKept
PROPERTIES PreHookState HookConfined
CHECK_DEADLOCK FALSE
