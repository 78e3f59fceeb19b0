SPECIFICATION Spec
CONSTANTS
    Procs = {"p", "q"}
    Commands = {"update", "search", "outdated", "plan", "doctor"}
    Names = {"a"}
    Listed <- MCListed
    Last = 1
    MaxTime = 1
    MaxAge = 0
    DoctorAge = 0
    Faults = {"network", "save", "crash"}
    NoFile = NoFile
    Bare = Bare
    Unreadable = Unreadable
    NoEtag = NoEtag
INVARIANTS ReadIsFresh UpdateBrings
PROPERTY CatchesUp
