CONSTANTS
    r1 = r1
    r2 = r2
    g1 = g1
    g2 = g2
    Readers = {r1, r2}
    Groups = {g1, g2}
    GroupsOf <- MCGroupsOf
    FileArticles = {file}
    file = file
    doc = doc
    Editors = {b1}
    BulkTargets <- MCBulkTargets
    FeishuArticles = {doc}
    TargetPolicies <- MCTargetPolicies
    DefaultPolicies <- MCDefaultPolicies
    SourcePolicies <- MCSourcePolicies
    Leavers = {}
    EpochBound = 4
    ClockBound = 2
    RevisionBound = 1
    VersionBound = 2
    MaxAge = 1
    Keys = {k1}
    Requests = {q1}
    ControlCallers = {c1}
    ImportKeys = {i1}
    Paths = {p1, p2}
    Contents = {a}
    ScanBounds = {1}
    ControlTtl = 1
    ControlClockBound = 1
    SequenceBound = 3
    o1 = o1
    o2 = o2
    Operators = {o1, o2}
    Resources = {paper}
    Profiles = {"twin", "qwen"}
    Contracts = {"v1"}
    EvidenceFiles = {"reviewed", "failing"}
    GatesOf <- MCGatesOf
    KeyVersions = {1}
    CallTtl = 1
    GrantTtl = 1
    PublicationBound = 2
    ReleaseClockBound = 1
    RunBound = 1
SPECIFICATION MCSpec
INVARIANTS
    PublishedIsMeet
    FeishuGrantsFollowObservation
    WatermarkReflectsVisibility
    PromotionsFormALine
PROPERTIES
    AccessLossAdvancesEpoch
    BulkChangesWereShown
CHECK_DEADLOCK FALSE
