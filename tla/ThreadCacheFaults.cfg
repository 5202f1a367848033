SPECIFICATION Spec
CONSTANTS
  Tasks = {a, b, t, p}
  Agents = {a, b}
  Peekers = {p}
  Runtimes = {r1, r2}
  Loads = {l1, l2, l3, l4}
  None = None
  Parallel = TRUE
  AgentsStop = FALSE
  MaxFaults = 2
  MaxDrops = 2
SYMMETRY Interchangeable
CHECK_DEADLOCK FALSE
INVARIANT TypeOK
PROPERTY ImplementsSoleRuntime
