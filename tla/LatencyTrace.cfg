\* Three producers, one collector and the report on what it collected.
SPECIFICATION Spec
CONSTANTS
  Capacity = 2
  OutputSlots = 1
  MaxRecords = 5
  MaxBefore = 1
  MaxChords = 2
  MaxInputs = 1
  MaxPanics = 1
  MaxScheduled = 1
  MinGateSamples = 1
  MaxLatency <- Limits
INVARIANTS
  CollectedOnceInOrder
  PassIsEarned
CHECK_DEADLOCK FALSE
