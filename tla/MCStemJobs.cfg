SPECIFICATION FairSpec
CONSTANTS
    x = x
    y = y
    demucs = demucs
    roformer = roformer
    NoTrack = NoTrack
    Track = {x, y}
    Engine = {demucs, roformer}
    Album <- MCAlbum
    Installed0 = {demucs}
    MaxKeys = 3
    MaxJobs = 6
    MaxSyncs = 1
INVARIANTS
    OlderJobsTripped
    WorkDirOwned
    StemsMatchTrack
PROPERTIES
    SeparationEnds
