SPECIFICATION Spec
CONSTANTS
    x = x
    y = y
    z = z
    tui = tui
    serve = serve
    vocals = vocals
    drums = drums
    instrumental = instrumental
    Source = Source
    Meta = Meta
    None = None
    Key = {x, y, z}
    Proc = {tui, serve}
    Stem = {vocals, drums}
    Inter = {instrumental}
    Passes <- HqPasses
    Cap = 4
    MaxStarts = 2
    MaxEdits = 1
    MaxFaults = 1
SYMMETRY Sym
INVARIANTS
    ServedIsCurrent
    CapHolds
PROPERTIES
    ShelfSpec
CHECK_DEADLOCK FALSE
