SPECIFICATION FairSpec
CONSTANTS
  Writers = {a, p}
  Agents = {a}
  Clients = {c}
  Wanted <- NoSteps
  PageSize = 1
  Capacity = 2
  Warn = 1
  Limit = 1
  MaxEvents = 2
  MaxFaults = 2
INVARIANTS TypeOK NoLostWakeup MarkersAreEarned
PROPERTIES EventArrives ImplementsEventFeed
