\* One part at a time, each with its own bounds.
SPECIFICATION PartsSpec
CONSTANTS
  Checks = {c1, c2}
  Registers = {r1, r2}
  HomeRegister = r1
  Uploads = {u1}
  Moves = 1
  Nobody = Nobody
  History = 2
  Bytes = 4
  CharacterEnds <- MCEnds
  Lines = 3
  Gestures = 2
  Layouts = {k1, k2}
  Default = k1
  Editors = {e1}
  Edits = 1
  KeyClicks = 2
  Places = {a1, a2}
  FirstAt = a1
  Windows = {w1, w2}
  Types = {t1}
  Sessions = 2
  Clicks = 2
  Keystores = {"dpapi", "keyring", "file"}
  Typings = 2
  Keys = 3
  CommandNames = {"restart", "own"}
  Builtin = {"restart"}
  Bodies = 2
  CommandSteps = 2
  Hosts = {h1, h2}
  Batch = 2
  Entries = 4
  Notices = {n1, n2}
  Seen = 1
  Notes = 4
  Collections = 3
  Cuts = 2
  Addresses = {d1, d2, d3}
  MaxTabs = 2
  Actions = {x1, x2}
  Steps = 5
  Databases = {b1, b2}
  First = b1
  Questions = 2
  Letters = {k}
  Shifts = {l, r}
  Waiting = 2
  Count = 2
  Dirs = {f1, f2}
  Home = f1
  Calls = 4
  Pending = 2
  None = None
  Cashes = {i1, i2}
  FirstCash = i1
  CashTypes = {"t1", "t2"}
  Features <- MCFeatures
  GatedBy = {"display"}
  GroupOf <- MCGroups
  Placeholders = {"system", "equipment", "other"}
  Loads = 2
  Browsers = {j1, j2}
  NoBrowser = NoBrowser
  Frames = 5
  EntryNames = {"a", "b"}
  TreeWorks = 2
  TreeChanges = 2
CHECK_DEADLOCK FALSE
INVARIANTS PartsTypeOK OwnThings EndedIsOver BothEndsAgree NothingStuck
PROPERTIES FilesAreOwn SettingsHold ShownIsCurrent
