SPECIFICATION Spec
CONSTANTS
    TheResource = r1
    Jobs = {j1, j2}
    Resources = {r1}
    ResourceOf <- MCResourceOf
    Contents = {c1, c2}
    Workers = {w1, w2}
    None = None
    DispatchMaxGeneration = 2
    GenerationBound = 2
    ScanEpochBound = 2
CONSTRAINT ScheduledOnly
SYMMETRY Symmetry
INVARIANTS
    ExhaustedWorkDoesNotBlock
CHECK_DEADLOCK FALSE
