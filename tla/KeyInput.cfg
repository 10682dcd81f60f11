\* Up to two packets, then one recorded note of each kind under their chord.
SPECIFICATION KeySpec
CONSTANTS
    Packets <- MCPackets
    MaxPackets = 2
    MaxOut = 64
    Notes <- MCNotes
    Rules <- MCRules
    Renderings <- MCRenderings
INVARIANTS EventsAreTheMessages AccompanimentFitsChord
CHECK_DEADLOCK FALSE
