CONSTANTS
    preface = preface
    package = package
    track = track
    Set = {preface, package, track}
    None = None
    Refs <- TreeRefs
    Strong <- TreeStrong
    Targets <- TreeTargets
    alpha = alpha
    beta = beta
    gamma = gamma
    Unknown = Unknown
    Drops = TRUE
SPECIFICATION MCSpec
INVARIANTS RewriteInPlace
