\* The ring with one producer and one consumer.
SPECIFICATION FairSpec
CONSTANTS
  Items = {i1, i2}
  Blank = Blank
  Capacity = 3
  MaxSent = 5
INVARIANTS
  NoSlotRace
PROPERTIES
  ImplementsFifo
  EverythingArrives
