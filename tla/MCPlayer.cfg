SPECIFICATION Spec
CONSTANTS
    x = x
    y = y
    None = None
    Track = {x, y}
    Lists <- TwoLists
    Three = 1
    play_threshold = 1
    End = 2
    MaxKeys = 4
    MaxSplits = 3
    MaxFaults = 1
INVARIANTS
    ShownIsHeard
    StemsAreHeard
    PlaysHonest
PROPERTIES
    PlaysOut
CHECK_DEADLOCK FALSE
