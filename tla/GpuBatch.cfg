CONSTANTS
    Programs <- UpToFour
    Weights = {"v", "w"}
    Key <- Fingerprints
    MaxResident = 1
    InitCap = 4
    Align = 2
    Parts = 2
SPECIFICATION FairSpec
INVARIANTS
    HostExact
    NothingLeftDeferred
PROPERTY BlockEnds
CHECK_DEADLOCK FALSE
