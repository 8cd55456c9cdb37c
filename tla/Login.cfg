\* Two SSH sessions and a database session of one register.
SPECIFICATION FairSpec
CONSTANTS
  SshSessions = {a, b}
  DbSessions = {d}
  Keys = {k1, k2}
  Configs <- MCConfigs
  p1 = p1
  p2 = p2
  MaxLogins = 2
  MaxReflash = 1
  MaxSaves = 1
  MaxLines = 2
  None = None
CHECK_DEADLOCK FALSE
INVARIANTS OpenIsOwned OpenIsVerified RefusedTriedAll
PROPERTY LoginEnds
