\* One collection of a register whose sections all fail.
SPECIFICATION Spec
CONSTANTS
  Sections = {s1, s2}
  CashType = cash_type
  Runs = {r1}
  Workers = {w1, w2}
  Outcomes = {"COMPLETE", "SKIPPED", "ERROR"}
  OwnType = TRUE
  None = None
SYMMETRY Symmetry
CHECK_DEADLOCK FALSE
INVARIANT FailedIsNotCached
