\* Three calls through a single worker, with failures and a crash.
CONSTANTS
    Calls = {c1, c2, c3}
    Entities = {e1}
    Fields = {f}
    Tracked = {f}
    Vals = {x}
    Modes = {"background"}
    Overrides = {Null}
    DefaultStrategy = "full"
    HybridInterval = 10
    NumWorkers = 1
    QueueSize = 2
    WALEnabled = FALSE
    ListLimit = 50
    MaxCrashes = 1
    Null = Null
SPECIFICATION HSpec
INVARIANT SubmissionOrder
PROPERTIES
    QueuedEnds
    UsesQueue
