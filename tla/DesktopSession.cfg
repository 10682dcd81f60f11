\* Saves, broken writes and launches, with the output device that is remembered.
SPECIFICATION Spec
CONSTANTS
  Settings <- SomeSettings
  StyleTempo = 15
  Apps <- SomeApps
  Cuts <- SomeCuts
  Styles <- SomeStyles
  Words <- SomeWords
  NoName <- EmptyName
  Lists <- SomeLists
INVARIANTS
  FileIsWholeOrRefused
  SessionComesBack
  StatusIsTrue
