CONSTANTS
    Scenes <- PassScenes
    Master = 1
    LogLimit = 2
    NegPreCharge = FALSE
    None = None
SPECIFICATION MCSpec
INVARIANTS LookupTrue AllFound CommittedTrue
