CONSTANTS
    Stream = {s1, s2}
    None = None
    Profiles <- ApiProfiles
    IndexShares = TRUE
    EssenceShares = TRUE
    HandlerMetadata = TRUE
    Durations = {0, 1}
    Sized = {TRUE}
    Closes = {TRUE, FALSE}
    Bodies = {0, 1}
    UserEnds = TRUE
    LateStreams = TRUE
    MaxPartitions = 3
SPECIFICATION Spec
SYMMETRY Symmetry
INVARIANTS TypeOK EssenceInOrder BodyOffsetTrue OwnPartition
PROPERTIES WritesMuxedFile
