\* The whole player at the style's tempo, without pressing Start while it plays.
SPECIFICATION Spec
CONSTANTS
  SectionTables <- OneStyle
  QueueArgs = {1, 5}
  Notes <- MCNotes
  MaxChannel = 1
  QueueCapacity = 20
  Chords = {"C", "F"}
  StartChord = "C"
  Sources = {"a", "b"}
  Voice <- MCVoice
  StyleTempo = 1
  Tempos = {1}
  TicksPerBeat = 4
  BeatsPerBar = 1
  Swings = {40}
  Steps = {1, 3}
  MaxSamples = 8
  MayRestart = FALSE
INVARIANTS
  TypeOK
  TrackedNotesMatchOutput
  OutputAlternates
  ActiveNotesWillEnd
PROPERTIES
  QueuedRunsAtNextBar
  AdvanceDeliversAllDue
