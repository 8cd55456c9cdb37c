\* Two connections, or a connection and a disconnection, of one viewer.
SPECIFICATION FairSpec
CONSTANTS
  Sizes = {s1, s2}
  Depths = {d1, d2}
  FirstSize = s1
  FirstDepth = d1
  None = None
  MaxPerTick = 2
  MaxCalls = 2
  MaxDepths = 2
  MaxResizes = 1
  MaxEvents = 2
CHECK_DEADLOCK FALSE
INVARIANTS OneWorker UpdatesFit EventsAreCurrent DecodedAsSent
PROPERTIES ConnectingEnds DepthIsApplied
