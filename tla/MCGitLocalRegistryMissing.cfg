CONSTANTS
  t1 = t1
  t2 = t2
  Procs = {t1, t2}
  Dirs <- MCDirs
  None = None
  MaxCommands = 2
  MaxEvents = 1
SYMMETRY MCSymmetry
SPECIFICATION Spec
CHECK_DEADLOCK FALSE
INVARIANTS
  NearestScopeWins
