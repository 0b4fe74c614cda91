\* Three logged background calls, two workers, crashes and recovery.
CONSTANTS
    Calls = {c1, c2, c3}
    Entities = {e1, e2}
    Fields = {f}
    Tracked = {f}
    Vals = {x}
    Modes = {"background"}
    Overrides = {Null}
    DefaultStrategy = "full"
    HybridInterval = 10
    NumWorkers = 2
    QueueSize = 1
    WALEnabled = TRUE
    ListLimit = 50
    MaxCrashes = 1
    Null = Null
SPECIFICATION Spec
SYMMETRY Symmetry
INVARIANTS
    NoSilentLoss
    ReportedIsStored
PROPERTY ImplementsAuditLog
