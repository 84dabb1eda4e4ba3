CONSTANTS
    r1 = r1
    r2 = r2
    Release <- MCRelease
    First = r1
    Rows <- MCRows
    Position <- MCPosition
    flac = flac
    mp3 = mp3
    Ext <- MCExt
    Libraries <- MCLibraries
    Default = flac
    Cancel = Cancel
    Load = Load
    Sync = Sync
    Absent = Absent
    MaxEdits = 1
    MaxRips = 2
    MaxOther = 1
SPECIFICATION RipFairSpec
INVARIANTS
    OneCopyPerTrack
PROPERTIES
    OldFilesAsked
CHECK_DEADLOCK FALSE
