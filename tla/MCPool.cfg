\* Four calls on a queue of two and two workers: the queue fills, callers
\* block, and two goroutines shut the pool down meanwhile.  No symmetry:
\* liveness is checked too.
CONSTANTS
    Items = {i1, i2, i3, i4}
    Workers = {w1, w2}
    Stoppers = {s1, s2}
    QueueSize = 2
SPECIFICATION Spec
INVARIANTS
    ExactlyOnce
    GracefulDrain
    ClosedOnce
PROPERTIES
    AcceptedCompletes
    SubmitReturns
    WorkersExit
    ImplementsQueue
