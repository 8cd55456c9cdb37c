\* Everything at any time, and restored tabs that wait for their wave.
SPECIFICATION Spec
CONSTANTS
  Conns = {c1, c2, c3}
  Refreshes = {r1, r2}
  Infos = {i1, i2, i3, i4}
  Ops = {"restore", "refresh", "reload", "activate", "button", "ping", "close"}
  Overlap = TRUE
  None = None
INVARIANTS TypeOK LoadingHasTask
SYMMETRY Symmetry
CHECK_DEADLOCK FALSE
