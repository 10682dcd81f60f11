\* Two read threads, two sinks, one source.
SPECIFICATION FairSpec
CONSTANTS
  Readers = {r1, r2}
  Sinks = {s1, s2}
  NoSink = NoSink
  Sources = {d1}
  NoSource = NoSource
  MaxMessages = 1
INVARIANTS
  SinkOutlivesCall
  PortOutlivesCall
PROPERTIES
  QuiesceReturns
