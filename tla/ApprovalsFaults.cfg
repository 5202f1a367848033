SPECIFICATION FairSpec
CONSTANTS
  k1 = k1
  k2 = k2
  plain = plain
  strict = strict
  Calls = {k1, k2}
  Clients = {c1, c2}
  Rules = {plain, strict}
  RuleOf <- Alike
  Strict = {strict}
  Trusted = {plain}
  Policies = {"manual", "auto_deny"}
  Remembers = {TRUE}
  NoCall = NoCall
  MaxFaults = 2
INVARIANTS TypeOK NoneLeftPending
PROPERTIES ImplementsFirstDecision DecisionReachesCall DecideIsAnswered
CHECK_DEADLOCK FALSE
