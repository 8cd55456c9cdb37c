\* One window at a time, each with its own bounds.
SPECIFICATION WindowsSpec
CONSTANTS
  Dirs = {a, b}
  Home = a
  Calls = 3
  Pending = 2
  None = None
  Orders = 4
  Drops = 2
  Terminals = {s1, s2}
  Losses = 1
  Workers = {w1, w2, w3}
  Requests = 2
  Jobs = 1
CHECK_DEADLOCK FALSE
INVARIANTS WindowsTypeOK StoppedStays
PROPERTIES WindowsSettle ViewerComesBack SessionsEnd
