SPECIFICATION FileLivenessSpec
CONSTANTS
    TheResource = r1
    Jobs = {j1, j2}
    Resources = {r1}
    ResourceOf <- MCResourceOf
    Contents = {c1}
    Workers = {w1}
    None = None
    DispatchMaxGeneration = 2
    GenerationBound = 2
    ScanEpochBound = 2
    Paths = {1, 2, 3}
    Absent = Absent
    Scanners = {s1, s2}
    ScanBound = 2
    EditBound = 1
    PageBound = 5
CONSTRAINT ScheduledOnly
PROPERTIES
    ClaimedJobsSettle
    ScanningSettles
CHECK_DEADLOCK FALSE
