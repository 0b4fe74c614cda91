CONSTANTS
    Items = {i1}
    Workers = {w1}
    Stoppers = {s1}
    QueueSize = 1
SPECIFICATION Spec
INVARIANT SubmitNeverPanics
