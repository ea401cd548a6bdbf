CONSTANTS
    Decisions = {d1, d2}
    First = d1
    Second = d2
    RequestIds = {i1}
    EvidenceRefs = {e1}
    Operators = {"resident", "visitor"}
    OrgOfOperator <- MCOrgOfOperator
    EgressOf <- MCEgressOf
    Home = "home"
    LedgerClock = 2
    LedgerEpochs = 2
    HostSkew <- MCHostSkew
    Carriers <- MCCarriers
    CitationSkew = 1
    EvidenceTtl = 2
    PackageTtl = 2
    LocatorRetention = 2
    TicketTtl = 1
    GrantAttempts = 1
    NotSet = NotSet
    p1 = p1
    p2 = p2
    t1 = t1
    t2 = t2
    r1 = r1
    r2 = r2
    w1 = w1
    Paths = {1, 2}
    Contents = {a}
    Absent = absent
    BatchSize = 1
    FeishuDocuments = {p1, p2}
    Tokens = {t1, t2}
    NoToken = none
    StagedPageBytes = 3
    CumulativeBytes = 6
    PageLimit = 3
    NoProgressLimit = 1
    Runners = {r1, r2}
    Feeds <- MCFeeds
    LeaseTtl = 2
    GenerationBound = 2
    SupplyEpochBound = 2
    SupplyClockBound = 5
    NoopJobs = {j1}
    FileJobs = {f1}
    LeaseWorkers = {w1, w2}
    LeaseIssuers = {i1}
    TicksPerSecond = 2
    TokenTtl = 1
    LeaseClockBound = 3
    KeyVersionBound = 2
    GroupRefs = {"f1", "f2", "f3"}
    IdentityRefs = {"i1", "i2"}
    Unmapped = "unmapped"
    Unreadable = "unreadable"
    Pilots = {p1, p2}
    Cases = {c1}
    Citations = {e1}
    Curators = {o1, o2, o3}
    Elder = o1
    Younger = o2
    Twin = o3
    InstantOf <- MCInstantOf
    CorpusEditBound = 2
    AbsentFile = missing
    Torn = torn
SPECIFICATION MCSpec
INVARIANTS
    LedgerIsWhole
    ObservationsAreClosures
    ReportedBackupsAreWhole
PROPERTIES
    RunsAndReadsAreBacked
    AcceptedPagesFormAStream
    ReceiptsBelongToTheLastLease
    AdmittedSetsAreLocked
CHECK_DEADLOCK FALSE
