CONSTANTS
    preface = preface
    package = package
    track = track
    Set = {preface, package, track}
    None = None
    Refs <- TreeRefs
    Strong <- TreeStrong
    Targets <- TreeTargets
    alpha = alpha
    beta = beta
    gamma = gamma
    Unknown = Unknown
    Drops = FALSE
SPECIFICATION MCSpec
INVARIANTS PartsOK LinksTrue WrittenOnce TagsTrue LayoutTrue DictionaryTrue
PROPERTIES CallsReturn
