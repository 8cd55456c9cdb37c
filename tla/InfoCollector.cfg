\* Two overlapping collections of one register, with answers, timeouts and
\* cancellations.  An ERROR takes the steps of a COMPLETE.
SPECIFICATION FairSpec
CONSTANTS
  Sections = {s1, s2}
  CashType = cash_type
  Runs = {r1, r2}
  Workers = {w1, w2}
  Outcomes = {"COMPLETE"}
  OwnType = TRUE
  None = None
CHECK_DEADLOCK FALSE
INVARIANTS ReturnedIsShown WavesHandOver CacheIsFinished
PROPERTIES CollectedStays RunEnds
