CONSTANTS
  Definition <- Library
  Listed <- Order
  Steps <- AllSteps
  Executions = {q}
  Processors = {p1, p2}
  MaxDepth = 4
  MaxEvents = 3
  MaxDeliveries = 2
  MaxReruns = 1
  MaxOps = 5
  MaxTurns = 60
  NoEvent = NoEvent
SPECIFICATION EngineSpec
INVARIANT CompletedIsWhole
CHECK_DEADLOCK FALSE
