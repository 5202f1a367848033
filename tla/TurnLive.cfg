SPECIFICATION FairSpec
CONSTANTS
  c1 = c1
  c2 = c2
  Turns = {t1, t2}
  Clients = {c1, c2}
  Parents = {}
  NoTurn = NoTurn
  Requests <- Pausing
  MaxFailures = 0
  MaxCrashes = 0
CHECK_DEADLOCK FALSE
INVARIANTS
  AgentStopsWithTurn
  ActiveIsInterruptible
PROPERTIES
  InterruptEndsTurn
  RequestsAnswered
