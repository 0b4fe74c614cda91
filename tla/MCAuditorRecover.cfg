\* A crash after the WAL append, and Recover at startup.
CONSTANTS
    Calls = {c1}
    Entities = {e1}
    Fields = {f}
    Tracked = {f}
    Vals = {x}
    Modes = {"background"}
    Overrides = {Null}
    DefaultStrategy = "full"
    HybridInterval = 10
    NumWorkers = 1
    QueueSize = 1
    WALEnabled = TRUE
    ListLimit = 50
    MaxCrashes = 1
    Null = Null
SPECIFICATION Spec
INVARIANT InFlightRecovered
