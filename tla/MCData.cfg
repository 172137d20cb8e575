CONSTANTS
  Definition <- Library
  Listed <- Order
  Steps <- AllSteps
  Executions = {q}
  Processors = {p1, p2}
  MaxDepth = 4
  MaxEvents = 3
  MaxDeliveries = 2
  MaxReruns = 1
  MaxOps = 5
  MaxTurns = 60
  NoEvent = NoEvent
  r1 = r1  r2 = r2  ann = ann  root = root  u1 = u1  u2 = u2  bulk = bulk  del = del
  Records = {r1}
  Users = {ann, root}
  Admins = {root}
  Requests = {u1, u2, bulk, del}
  Op <- MixOp
  Actor <- MixActor
  Patch <- MixPatch
  Edit = Edit
  MaxRetries = 1
  RedisFails = TRUE
  NoOne = NoOne
  Gone = Gone
  Ids = {"o1", "l1", "l2", "l3", "l4", "n1"}
  SchemaOf <- Container
  RefOf <- Reference
  Forced = {"line"}
  Numbered = {"line", "note"}
  Present = {"o1", "l1", "n1"}
  Asked <- Requested
  MaxRuns = 2
  NoRef = "none"
  Mutation <- Changes
  StartRows <- Starts
  LocksFail = TRUE
  MaxArrayRuns = 2
  MaxMutations = 3
  NoMutation = "nobody"
  Saves <- ThreeCalls
  MaxAtOnce = 2
  NamesIndexed = TRUE
  Existing <- TwoContainers
SPECIFICATION DataSpec
SYMMETRY DataSym
INVARIANTS NoCallInTransaction EffectsOnce AllOrNothing HopsBounded
  CommittedIsReported NumbersOnce DeletedWasFree OnlyOverlapsDisagree
PROPERTIES AuditTellsWhatWasReplaced PolicyBeforeAndAfter RowsAreSerial
CHECK_DEADLOCK FALSE
