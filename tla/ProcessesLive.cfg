SPECIFICATION FairSpec
CONSTANTS
  Procs = {p, q}
  InTurn = {p}
  Timed = {q}
  Holders = {q}
  Disguised = {p}
  Tasks = {c}
  Jobs = {"turn", "pause", "archive", "delete", "kill", "interrupt", "shutdown"}
  Capacity = 1
  MaxFaults = 1
CHECK_DEADLOCK FALSE
INVARIANTS TypeOK CompleteIsTrue Tracked
PROPERTIES QueuedKillEnds TurnStops ForgottenEnds Answered ImplementsProcessRecord
