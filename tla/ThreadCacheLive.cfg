SPECIFICATION FairSpec
CONSTANTS
  Tasks = {a, t, u}
  Agents = {a}
  Peekers = {}
  Runtimes = {r1, r2}
  Loads = {l1, l2, l3}
  None = None
  Parallel = FALSE
  AgentsStop = TRUE
  MaxFaults = 2
  MaxDrops = 0
CHECK_DEADLOCK FALSE
PROPERTY LoadAnswered
