CONSTANTS
    Bodies = 1
    Sids = {0, 1}
    MaxScan <- LongScan
SPECIFICATION MCSpec
INVARIANTS AllFound TruncationTrue ObjectsTrue IdentityTrue
