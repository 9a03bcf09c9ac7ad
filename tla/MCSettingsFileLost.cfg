CONSTANTS
  None = None
  Own = Own
  Procs = {p1, p2}
  Policies = {policy}
  Tools = {tool}
  Editors = {editor}
  MaxUpgrades = 1
  MaxCommands = 1
  MaxKills = 0
SPECIFICATION Spec
INVARIANTS
  BindingSurvives
