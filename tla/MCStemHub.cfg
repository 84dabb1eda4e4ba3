SPECIFICATION HubFairSpec
CONSTANTS
    x = x
    y = y
    p = p
    q = q
    HubTrack = {x, y}
    HttpClient = {p, q}
    MaxJobs = 2
    MaxCancels = 1
INVARIANTS
    OnlyCurrentWanted
    SeparatingIsAlive
