CONSTANTS
  y1 = y1
  y2 = y2
  a = a
  o = o
  Procs = {t1, t2}
  YubiKeys = {y1, y2}
  AgeKeys = {a}
  Others = {o}
  Manifests <- MCManifests
  MaxCommands = 2
  MaxEvents = 1
SPECIFICATION FairSpec
INVARIANTS
  TypeOK
  SourceAsTold
  NotLockedOut
  IdentitiesKept
  TemporaryDeletedUnlessKilled
PROPERTIES
  Enrols
