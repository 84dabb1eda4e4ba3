SPECIFICATION ZuneSpec
CONSTANTS
    who = who
    x = x
    y = y
    t = t
    u = u
    Artist = {who}
    Album = {x, y}
    Song = {t, u}
    ArtistOf <- MCArtistOf
    AlbumOf <- MCAlbumOf
    Room <- MCRoom
    Garbled = {u}
    Fits <- MCFits
    AlikeDir <- MCAlikeDir
    Taken <- MCTaken
    Stock <- MCStock
    None = None
    MaxHandle = 9
    MaxOps = 6
    MaxFaults = 1
    MaxForeign = 1
INVARIANTS
    
    NoDeadParent
    RemovalHits
    
CHECK_DEADLOCK FALSE
