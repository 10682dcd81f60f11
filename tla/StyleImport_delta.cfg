\* A delta of two bytes: the times the importer reads are not the file's.
SPECIFICATION Spec
CONSTANTS
    Files <- MCFiles
    Shells = {"live", "tool"}
    DemoBars = 1
    Deltas = {0, 200}
    MaxMessages = 1
    Layouts = {"whole"}
    MaxSections = 32
    MaxTracks = 16
    MaxEvents = 65536
    MaxDelta = 1000000
    FileSize <- MCFileSize
    MaxFileSize = 10485760
INVARIANT ImportKeepsTicks
CHECK_DEADLOCK FALSE
