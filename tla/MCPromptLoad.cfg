CONSTANTS
  Agents = {a1, a2}
  First = a1
  Clients = {t1, t2}
  Terminals = {t1, t2}
  Dead = Dead
  None = None
  MaxEvents = 3
SPECIFICATION FairSpec
INVARIANTS
  AnswersMatch
PROPERTIES
  PromptReturns
  LockTakesEffect
CHECK_DEADLOCK FALSE
