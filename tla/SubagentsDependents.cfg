SPECIFICATION FairSpec
CONSTANTS
  a = a
  b = b
  c = c
  x = x
  other = other
  k = k
  Tasks = {a, b}
  Deps <- OneWaits
  Asks = {x}
  Asker <- AskedByA
  Externals = {}
  Found = {}
  MaxConcurrent = 2
  Clients = {k}
  Answers = {"approved"}
  Parent = Parent
  None = None
  MaxFaults = 0
CHECK_DEADLOCK FALSE
PROPERTY DependentsRun
