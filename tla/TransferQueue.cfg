\* Two jobs, two workers, every operation.
SPECIFICATION FairSpec
CONSTANTS
  Jobs = {j1, j2}
  Workers = {w1, w2}
  Ops = {"enqueue", "cancel", "retry", "remove"}
  MaxPending = 3
  NoJob = NoJob
CHECK_DEADLOCK FALSE
INVARIANTS NoLostJob RunningHasWorker
PROPERTY WaitingIsServed
