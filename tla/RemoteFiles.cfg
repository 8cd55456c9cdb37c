\* One file with its renamed copy and one directory, a job and a save.
SPECIFICATION Spec
CONSTANTS
  Stems = {f, d}
  Dirs = {d}
  f = f
  Edited <- MCEdited
  Procs = {"job", "save"}
  Callers = {"gui", "drop", "cli"}
  MaxItems = 1
CHECK_DEADLOCK FALSE
INVARIANTS TypeOK PartsRemoved
PROPERTY FilesAsPromised
