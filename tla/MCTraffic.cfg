CONSTANTS
  HexTexts = {"a", "b"}
  Readers = {q1, q2}
  Writers = {w1}
  Containers <- Candidates
  Asks <- Questions
  Edits <- Docs
  Records = {1, 2}
  Written <- Start
  Creator <- Member
  MaxSaves = 1
  ReadsFail = TRUE
  NoToken = NoToken
  Malformed = Malformed
  Demands <- Presented
  Schemas <- Sets
  Integrations <- Robots
  Callers = {c1}
  Home = "p"
  Granted <- AtStart
  MaxWithdrawn = 2
  Unkeyed = Unkeyed
  Senders = {q1, q2}
  Calls <- KeyedWrites
  Route <- ShortRoute
  Threshold = 1
  MaxFaults = 2
  MaxCrashes = 1
  Servers = {s1, s2}
  Clients = {c1}
  Address <- AtNear
  Sources <- OneApart
  Projects = {p1, p2}
  MaxTurns = 3
  QueueSize = 1
  SendSize = 1
  Visits <- ThreeVisits
  MaxVisitors = 2
  NoSecret = ""
SPECIFICATION TrafficSpec
SYMMETRY TrafficSym
INVARIANTS OwnView WorkflowResultsFresh OnlyPermitted RunsOnce NoSilentGap AccountsKeepTheirWord
CHECK_DEADLOCK FALSE
