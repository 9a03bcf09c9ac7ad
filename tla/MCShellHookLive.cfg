CONSTANTS
  a = a
  b = b
  x = x
  y = y
  z = z
  Absent = Absent
  None = None
  Names = {x, y, z}
  UserVals = {user}
  Scopes = {a, b}
  SetNames <- MCSetNames
  UnsetNames <- MCUnsetNames
  MaxVersion = 1
  Shell = "zsh"
  Hazards = {"noOutput", "resource"}
SPECIFICATION FairSpec
INVARIANTS
  AtomicTransition
PROPERTIES
  LeavingClears
  EnteringActivates
  ImplementsLayer
