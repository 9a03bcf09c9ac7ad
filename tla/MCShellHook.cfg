CONSTANTS
  a = a
  b = b
  x = x
  y = y
  z = z
  Absent = Absent
  None = None
  Names = {x, y, z}
  UserVals = {user}
  Scopes = {a, b}
  SetNames <- MCSetNames
  UnsetNames <- MCUnsetNames
  MaxVersion = 0
  Shell = "bash"
  Hazards = {"noOutput", "decode", "interrupt", "resource", "child"}
SPECIFICATION Spec
INVARIANTS
  TypeOK
  AmbientKept
  NoMarkerNothingManaged
