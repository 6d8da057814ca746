CONSTANTS
    Reader = {r1, r2}
    None = None
    Groups <- ThreeChannels
    ChannelCount = 3
    Shapes <- UpTo24Bits
    Lengths <- LengthOrNone
    Limits <- LimitOrNone
    MaxSamples = 4
    MaxChunk = 2
SPECIFICATION MCSpec
SYMMETRY Symmetry
INVARIANTS FilesTrue SamplesTrue BuffersTrue
