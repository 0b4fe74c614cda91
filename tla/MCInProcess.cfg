\* Passes end: the registries are filled once.
SPECIFICATION MCSpec
SYMMETRY Symmetry
CONSTANTS
    Entries = {e1, e2, e3}
    MaxClock = 2
    MaxCrashes = 1
    MaxTorn = 1
    Ids <- MCIds
    Versions = {1, 2}
    Vals = {x, y}
    Capacity = 3
    Schema <- MCSchema
    Instances <- MCInstances
    Absent = Absent
    NaN = NaN
    Err = Err
    Panic = Panic
    Differs = {d1, d2, d3}
    Walks <- MCWalks
    MaxTypes = 2
    Callers = {c1, c2, c3}
    Structs <- MCStructs
    Strict = TRUE
    MaxBytes = 1
    Registrars = {g1, g2, g3}
    Migrators = {m1, m2}
    SchemaVersions = {1, 2}
    Nil = Nil
INVARIANTS LoggedIsReplayed AckedStaysAcked  RefusedOnlyWhenFull NilHoldsTheName MigratesEveryStep
PROPERTIES AckIsolated ImplementsRecency
CHECK_DEADLOCK FALSE
