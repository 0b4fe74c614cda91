SPECIFICATION Spec
CONSTANTS
    Txs = {t1, t2}
    Plain = {p1}
    Entities = {e1, e2}
    MaxOps = 2
    MaxFaults = 1
INVARIANTS VersionsGapless FoundedOnPrevious
PROPERTIES InsertReturns
