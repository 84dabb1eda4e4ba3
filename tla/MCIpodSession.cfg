CONSTANTS
    plain = plain
    good = good
    bad = bad
    Song <- MCSong
    Cover <- MCCover
    BadCover = {bad}
    Name = {mix}
    Wrap = 8
    Old = plain
    Dbid <- MCDbid
    None = None
    MaxOps = 3
    MaxFaults = 2
    MaxPlays = 2
    MaxOpens = 3
SPECIFICATION Spec
INVARIANTS
    ImportedSurvives
    ListsRight
    CoversRight
    PlaysNotInvented
CHECK_DEADLOCK FALSE
