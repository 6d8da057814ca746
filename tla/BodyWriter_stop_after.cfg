CONSTANTS
    Stream = {s1, s2}
    None = None
    Profiles <- StopProfiles
    IndexShares = TRUE
    EssenceShares = FALSE
    HandlerMetadata = FALSE
    Durations = {0}
    Sized = {TRUE}
    Closes = {TRUE}
    Bodies = {0}
    UserEnds = FALSE
    LateStreams = FALSE
    MaxPartitions = 0
SPECIFICATION Spec
SYMMETRY Symmetry
INVARIANTS StopAfterObeyed
