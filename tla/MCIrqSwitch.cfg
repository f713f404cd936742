SPECIFICATION FairSpec
CONSTANTS
    NTASK = 3
INVARIANTS
    BodyIsExact
PROPERTIES
    WindowIsFatal
    StormEndsAll
