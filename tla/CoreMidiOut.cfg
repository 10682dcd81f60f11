\* Two devices that come and go, one event in the queue; what it is makes no difference here.
SPECIFICATION OutputFairSpec
CONSTANTS
  d1 = d1
  d2 = d2
  n1 = n1
  n2 = n2
  Endpoints = {d1, d2}
  None = None
  Names = {n1, n2}
  NoName = NoName
  NameOf <- TwoNames
  Events = {"off"}
  QueueLimit = 1
  ProbeEvery = 1
  RunLoop = TRUE
INVARIANTS
  PortOutlivesSend
  ShutdownDrains
  AtMostOneStray
PROPERTIES
  ShutdownReturns
  Reconnects
