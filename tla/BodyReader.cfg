CONSTANTS
    Scenes <- PassScenes
    JunkSize = 3
    MaxLog = 8
SPECIFICATION Spec
INVARIANTS Delivered Complete SeekTrue
PROPERTIES LoopEnds
