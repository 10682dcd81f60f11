\* Keys, pedal, latch and sync start, with a restart and a style at any time.
SPECIFICATION Spec
CONSTANTS
  CMaj = CMaj
  F = F
  NoChord = NoChord
  StartChord = CMaj
  Notes <- ThreeNotes
  Lower <- LowerTwo
  Chords <- TwoChords
  Detect <- Scan
  MaxHeld = 2
  HoldModes = {TRUE, FALSE}
  LatchSamples = 2
  Steps = {0, 1}
  MaxSamples = 2
INVARIANTS
  PlayingIsRunning
  SyncStartArmsInSession
  HeldKeysStay
  ReleasedNotesLeave
  ChosenChordPlays
PROPERTIES
  NoFlicker
