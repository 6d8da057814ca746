CONSTANTS
    Reader = {r1, r2}
    None = None
    Groups <- ThreeChannels
    ChannelCount = 3
    Shapes <- Wide
    Lengths <- NoneOnly
    Limits <- NoneOnly
    MaxSamples = 4
    MaxChunk = 2
SPECIFICATION MCSpec
INVARIANTS SamplesTrue
