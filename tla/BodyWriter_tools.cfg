CONSTANTS
    Stream = {s1, s2}
    None = None
    Profiles <- AllToolProfiles
    IndexShares = TRUE
    EssenceShares = FALSE
    HandlerMetadata = FALSE
    Durations = {0, 1}
    Sized = {TRUE}
    Closes = {TRUE}
    Bodies = {0}
    UserEnds = FALSE
    LateStreams = FALSE
    MaxPartitions = 0
SPECIFICATION FairSpec
INVARIANTS ContentsTrue AllWritten IndexComplete
PROPERTIES
    Finishes
