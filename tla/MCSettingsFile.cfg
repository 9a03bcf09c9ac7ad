CONSTANTS
  None = None
  Own = Own
  Procs = {p1, p2}
  Policies = {policy}
  Tools = {tool}
  Editors = {editor}
  MaxUpgrades = 2
  MaxCommands = 2
  MaxKills = 1
SPECIFICATION FairSpec
INVARIANTS
  TypeOK
  OnlyReviewedRuns
  KeptUnlessOverlapped
PROPERTIES
  BundledFollows
