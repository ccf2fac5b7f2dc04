CONSTANTS
    Files = {1, 2, 3}
    Entry = 1
    Programs <- AllPrograms
    Words = {"f", "g", "main", "a"}
    None = "none"
    EntryPoints = {"main"}
    Number <- Digits
    MaxFrames = 2
SPECIFICATION FairSpec
INVARIANTS
    LeafFirst
    InterpFollowsText
    JitFollowsText
    MergeRefusesOnlyExterns
PROPERTY ResolutionDecides
CHECK_DEADLOCK FALSE
