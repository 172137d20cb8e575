CONSTANTS
  Replicas = {r1, r2}
  Steady = {r1}
  Contents = {"a", "b", "off"}
  Revisions = {"A", "B"}
  Revision <- MCRevision
  NoRevision = "none"
  Fires <- MCFires
  NoContent = NoContent
  NoCursor = NoCursor
  Horizon = 1
  Batch = 1
  LastTick = 3
  MaxContainerEdits = 2
SPECIFICATION ScheduleFairSpec
INVARIANTS NoOccurrenceLost OncePerInstant
PROPERTIES NothingStaleIsWritten EventuallyCaughtUp
