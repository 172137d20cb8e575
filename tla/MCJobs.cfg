\* Two submissions of one transactional key and two roots, two processors.
CONSTANTS
    Docs = {1, 2}
    Workers = {w1, w2}
    TxnKeys = {k}
    ExternalKeys = {}
    PostWrites = {}
    MaxAttempts = 2
    BatchLimit = 1
    w1 = w1
    w2 = w2
    NoJob = NoJob
    NoRun = NoRun
    Roots = {e1, e2}
    RootWorkers = {w1, w2}
    MaxRootAttempts = 2
    NoRoot = NoRoot
SPECIFICATION JobsSpec
SYMMETRY JobsSym
INVARIANTS TypeOK ExactlyOnce RootsCommitOnce RootsAreSerial
PROPERTIES ImplementsJobs RootsAreJobs
CHECK_DEADLOCK FALSE
