\* A restored tab closed before its wave is connected afterwards.
SPECIFICATION Spec
CONSTANTS
  Conns = {c1, c2}
  Refreshes = {r1}
  Infos = {i1, i2, i3}
  Ops = {"restore", "close"}
  Overlap = FALSE
  None = None
INVARIANT ClosedTabHoldsNoSsh
CHECK_DEADLOCK FALSE
