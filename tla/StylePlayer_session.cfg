\* Everything the session may do: two styles, tempo changes down to zero, restarts.
SPECIFICATION Spec
CONSTANTS
  SectionTables <- TwoStyles
  QueueArgs <- SomeIndices
  Notes <- MCNotes
  MaxChannel = 1
  QueueCapacity = 20
  Chords = {"C", "F"}
  StartChord = "C"
  Sources = {"a", "b"}
  Voice <- MCVoice
  StyleTempo = 1
  Tempos = {0, 2}
  TicksPerBeat = 4
  BeatsPerBar = 1
  Swings = {40}
  Steps = {1, 3}
  MaxSamples = 4
  MayRestart = TRUE
INVARIANTS
  TrackedNotesMatchOutput
  SilentWhenStopped
