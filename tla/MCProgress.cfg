CONSTANTS
  Docs = {1}
  Workers = {w1, w2}
  TxnKeys = {k}
  ExternalKeys = {x}
  PostWrites = {post}
  MaxAttempts = 3
  BatchLimit = 1
  w1 = w1
  w2 = w2
  NoJob = NoJob
  NoRun = NoRun
  Rows = {r1}
  Hashes = {h1, h2}
  NoHash = NoHash
  TextJobs = {j1}
  Translators = {w1, w2}
  Users = {u1}
  NoText = NoText
  MaxEdits = 1
  MaxSaves = 1
  MaxStops = 1
SPECIFICATION ProgressSpec
INVARIANTS DoneIsPerformed CurrentMatchesSource PublishedIsFresh
PROPERTIES EventuallyFinished TextsHaveTheirWriter EventuallyHandled
CHECK_DEADLOCK FALSE
