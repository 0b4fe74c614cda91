SPECIFICATION Spec
CONSTANTS
    Producers = {p1, p2}
    p1 = p1
    p2 = p2
    PerProducer <- MCPerProducer
    Closers = {c1, c2}
    BatchSize = 2
    MaxRetries = 1
    MaxFaults = 2
INVARIANTS Conserved SinkInOrder BoundedDuplicates CloseDrains
PROPERTIES EventuallySettled CloseEnds
