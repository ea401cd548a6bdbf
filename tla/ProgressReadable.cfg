SPECIFICATION ProgressSpec
CONSTANTS
    Keys = {k1}
    Requests = {q1}
    ControlCallers = {c1}
    ImportKeys = {i1}
    Paths = {p1}
    Contents = {a, b}
    ScanBounds = {1}
    ControlTtl = 1
    ControlClockBound = 0
    SequenceBound = 3
CHECK_DEADLOCK FALSE
INVARIANT ProgressIsReadable
