CONSTANTS
  Projects = {p1, p2}
  Existing = {p1}
  Slugs = {s1, s2}
  Credentials = {c1}
  Shared = {}
  Requests = {r1, r2}
  Ops = {"create", "update", "delete", "grant", "promote", "disconnect", "revoke", "write"}
  MaxOps = 3
  MaxFaults = 1
  NoOne = NoOne
  Resolvers = {w1}
  Ways = {"rest", "ws"}
  RedisFails = TRUE
  Families = {1, 2}
  Tabs = {r1, r2}
  MaxExchanges = 2
  NoToken = NoToken
  Templates <- Sample
  Links <- Fields
  Records <- Things
  Pages = {"home", "list"}
  LinkSets <- SomeLinks
  Connections = {"k1", "k2"}
  Hosts = {"h1"}
  Allows <- OnlyK1
  AnyHost = AnyHost
  Editors = {r1, r2}
  MaxEdits = 2
  Nil = Nil
SPECIFICATION AccountsSpec
SYMMETRY AccountsSym
INVARIANTS GrantsEndWithProject NothingLeftBehind ServedWhileActive TokensAreOneChain ClosedEndsSessions CopyStandsAlone
PROPERTIES AccessEndsOnPurpose
CHECK_DEADLOCK FALSE
