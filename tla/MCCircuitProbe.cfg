CONSTANTS
  Unkeyed = Unkeyed
  Senders = {c1, c2}
  Calls <- Probing
  Route <- WriteRoute
  Threshold = 1
  MaxFaults = 1
  MaxCrashes = 0
SPECIFICATION RequestsSpec
INVARIANTS ProbeFree
CHECK_DEADLOCK FALSE
