CONSTANTS
    Stream = {s1, s2, s3}
    None = None
    Profiles <- IsolatedProfiles
    IndexShares = FALSE
    EssenceShares = TRUE
    HandlerMetadata = FALSE
    Durations = {0}
    Sized = {TRUE}
    Closes = {TRUE}
    Bodies = {0}
    UserEnds = FALSE
    LateStreams = FALSE
    MaxPartitions = 0
SPECIFICATION Spec
SYMMETRY Symmetry
INVARIANTS TakeTurns IsolatedInPlace ContentsTrue
