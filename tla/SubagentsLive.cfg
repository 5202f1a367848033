SPECIFICATION FairSpec
CONSTANTS
  a = a
  b = b
  c = c
  x = x
  other = other
  k = k
  Tasks = {a, b, c}
  Deps <- OneWaits
  Asks = {x}
  Asker <- AskedByA
  Externals = {other}
  Found = {other}
  MaxConcurrent = 2
  Clients = {k}
  Answers = {"approved"}
  Parent = Parent
  None = None
  MaxFaults = 1
CHECK_DEADLOCK FALSE
INVARIANTS TypeOK WithinSlots OneProxy NothingLeft
PROPERTIES TaskSettles ProxyIsDecided DecisionIsTold ImplementsTaskSchedule
