SPECIFICATION Spec
CONSTANTS
  k1 = k1
  k2 = k2
  plain = plain
  strict = strict
  Calls = {k1}
  Clients = {c1, c2}
  Rules = {plain, strict}
  RuleOf <- Alone
  Strict = {strict}
  Trusted = {}
  Policies = {"manual"}
  Remembers = {TRUE, FALSE}
  NoCall = NoCall
  MaxFaults = 1
CHECK_DEADLOCK FALSE
INVARIANT DecidedOnce
