\* Three calls race on one entity, on two workers and on their own goroutines,
\* with storage failures at every step.  With a snapshot every second version
\* the second is a delta and the third a snapshot again.  The diff does not
\* see the ignored field g, the comparison of ValidateDelta does.
CONSTANTS
    Calls = {c1, c2, c3}
    Entities = {e1}
    Fields = {f, g}
    Tracked = {f}
    Vals = {x, y}
    Modes = {"sync", "background"}
    Overrides = {Null}
    DefaultStrategy = "hybrid"
    HybridInterval = 2
    NumWorkers = 2
    QueueSize = 1
    WALEnabled = FALSE
    ListLimit = 50
    MaxCrashes = 0
    Null = Null
SPECIFICATION Spec
SYMMETRY Symmetry
INVARIANTS
    VersionsGapless
    DeltaReplays
    ChainIntact
    SnapshotInReach
