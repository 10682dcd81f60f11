\* Every import of a small file, and of some of each kind.
SPECIFICATION Spec
CONSTANTS
    Files <- MCFiles
    Shells = {"live", "tool", "demo"}
    DemoBars = 1
    Deltas = {0, 200}
    MaxMessages = 3
    Layouts = {"whole", "cut", "chunks", "casm", "large"}
    MaxSections = 32
    MaxTracks = 16
    MaxEvents = 65536
    MaxDelta = 1000000
    FileSize <- MCFileSize
    MaxFileSize = 1200
INVARIANTS ImportKeepsNotes TornFileRefused TracksFollowTheirSdec
CHECK_DEADLOCK FALSE
