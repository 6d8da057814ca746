CONSTANTS
    Scenes <- PassScenes
    PerPackage = 1
    Granularity = 4
    Values <- MCValues
    All = All
    Null = Null
SPECIFICATION MCSpec
INVARIANTS WrittenWhole ReadBack PackageTrue TrackNumberKept Predicted IndexTrue WellFormed
