SPECIFICATION MCSpec
SYMMETRY Symmetry
CONSTANTS
    Fields = {email, age}
    StringFields = {email}
    Paths = {email, age, nofield}
    Vals = {1, 2, 3}
    Contents <- UniformContents
    Formats = {"json", "msgpack"}
    Callers = {k1, k2}
    Redactors = {r1}
    Compactors = {c1}
    ListLimit = 2
    MaxDeltaChain = 2
    Retention = 1
    MaxVersion = 3
    MaxTime = 3
    Redacted = Redacted
    Null = Null
INVARIANTS RedactionSticks ChainsStayShort VerifiedMeansVersioned AtTimeWithinOne
CHECK_DEADLOCK FALSE
