CONSTANTS
  y1 = y1
  y2 = y2
  a = a
  o = o
  Procs = {t1, t2}
  YubiKeys = {y1, y2}
  AgeKeys = {a}
  Others = {o}
  Manifests <- MCManifests
  MaxCommands = 2
  MaxEvents = 2
SPECIFICATION Spec
INVARIANT RevokedStaysOut
