SPECIFICATION Spec
CONSTANTS
    TheResource = r1
    Jobs = {j1, j2}
    Resources = {r1}
    ResourceOf <- MCResourceOf
    Contents = {c1, c2}
    Workers = {w1, w2}
    None = None
    DispatchMaxGeneration = 2
    GenerationBound = 2
    ScanEpochBound = 2
CONSTRAINT DirectOrScheduled
SYMMETRY Symmetry
INVARIANTS
    RecoveryIsSound
    ActiveRevisionIsWhole
    OffboardedJobsAreOver
PROPERTIES
    OnlyTheLeaseHolderActs
    WithdrawnResourceIsFrozen
    NoEffectOfASupersededScan
CHECK_DEADLOCK FALSE
