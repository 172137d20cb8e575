CONSTANTS
  Projects = {p1}
  Existing = {p1}
  Slugs = {s1, s2}
  Credentials = {}
  Shared = {}
  Requests = {r1}
  Ops = {"update"}
  MaxOps = 3
  MaxFaults = 0
  NoOne = NoOne
  Resolvers = {w1, w2}
  Ways = {"rest"}
  RedisFails = FALSE
SPECIFICATION SlugsSpec
INVARIANTS StopsResolving
CHECK_DEADLOCK FALSE
