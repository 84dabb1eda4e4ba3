SPECIFICATION FairSpec
CONSTANTS
    Track = {a, b}
    DeviceHas = {a, b}
    AutoSync <- Videos
    MediaFiles = 2
    MaxKeys = 4
INVARIANTS
    DisconnectSticks
    ConnectedHasSession
    NoPhantomTrack
PROPERTIES
    ConnectAnswered
