\* One operation at a time.
SPECIFICATION FairSpec
CONSTANTS
  Conns = {c1, c2, c3}
  Refreshes = {r1}
  Infos = {i1, i2, i3, i4}
  Ops = {"refresh", "reload", "activate", "ping", "close", "database"}
  Overlap = FALSE
  None = None
INVARIANTS ConnectionsHaveOwner CollectionIsFlagged
PROPERTIES PanelSettles RefreshReadsAgain
CHECK_DEADLOCK FALSE
