CONSTANTS
    r1 = r1
    r2 = r2
    g1 = g1
    file = file
    doc = doc
    q1 = q1
    q2 = q2
    Readers = {r1, r2}
    Groups = {g1}
    GroupsOf <- MCGroupsOf
    FileArticles = {file}
    FeishuArticles = {doc}
    TargetPolicies <- MCTargetPolicies
    DefaultPolicies = {}
    SourcePolicies <- MCSourcePolicies
    Leavers = {r1}
    EpochBound = 4
    ClockBound = 3
    RevisionBound = 2
    VersionBound = 1
    MaxAge = 0
    Requests = {q1, q2}
    ReaderOf <- MCReaderOf
    KindOf <- MCKindOf
    EgressOf <- MCEgressOf
    Links <- MCLinks
    PackageTtl = 1
    Refs = {1, 2, 3, 4, 5}
    Papers = {"p", "q", "s"}
    PaperOf <- MCPaperOf
    BytesOf <- MCBytesOf
    ScalarsOf <- MCScalarsOf
    OverlapOf <- MCOverlapOf
    QueryWords = 3
    QueryTokens = 2
    Hidden = {4}
    ServerBudget <- MCServerBudget
    RequestedBudgets <- MCRequestedBudgets
    Scopes = {{}, {"p", "q"}, {"p", "q", "s"}}
    Matches <- MCMatches
    DiscoveryLimit = 2
    LinkGraphs <- MCLinkGraphs
    SubmissionLimit = 4
    HopCeiling = 2
    PageLimit = 3
    EmbedDeadline = 1
    RankScale = 60
    Hops = {"h1", "h2"}
    HopGrants = {"g1", "g2"}
    Registered = {"rewrite", "rerank", "select"}
    HopClockBound = 2
    GrantedFor <- MCGrantedFor
    HopRequests <- MCHopRequests
    Profiles <- MCProfiles
    HopBudget <- MCHopBudget
    Outputs <- MCHopOutputs
SPECIFICATION MCSpec
INVARIANTS
    InferenceIsAccounted
    ProjectionsStayPermitted
    ProviderCallsAreCharged
    DeliveryIsBlindToRefusals
PROPERTIES
    DeliveredContentIsPermitted
    RedeemedGrantIsPermitted
CHECK_DEADLOCK FALSE
