SPECIFICATION FairSpec
CONSTANTS
  d1 = d1
  d2 = d2
  Devices = {d1}
  None = None
  FirstDevice = d1
  Hosts = {"live", "driver", "bridge", "korg"}
  Commands = {"Start", "SyncArm"}
  Capacity = 2
INVARIANTS
  SwapIsQuiet
  ClosedIsQuiet
  SnapshotIsCurrent
PROPERTIES
  HostReturns
  ScreenFollows
