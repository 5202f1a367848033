SPECIFICATION Spec
CONSTANTS
  c1 = c1
  c2 = c2
  Turns = {t1, t2}
  Clients = {c1, c2}
  Parents = {c2}
  NoTurn = NoTurn
  Requests <- Archiving
  MaxFailures = 2
  MaxCrashes = 1
SYMMETRY Interchangeable
CHECK_DEADLOCK FALSE
CONSTRAINT Replayable
INVARIANTS
  TypeOK
  InterruptWins
PROPERTIES
  ImplementsTurnRecord
