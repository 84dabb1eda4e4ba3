SPECIFICATION FairSpec
CONSTANTS
    a = a
    b = b
    mix = mix
    NoName = NoName
    Track = {a, b}
    NeedsTranscode = {b}
    Picks <- MCPicks
    InitialCopies <- MCCopies
    Window = 1
    MaxKeys = 3
INVARIANTS
    RunAccounting
    ForwardedConserved
    NoPhantomCopy
    ReportedOnDevice
PROPERTIES
    RunningEnds
