CONSTANTS
    Bots = {b1}
    Turns = {t1}
    Operations = {"create_placeholder", "finalize_reply"}
    Texts = {x, y}
    Working = Working
    Payloads <- MCPayloads
    FinalEffect <- MCFinalEffect
    Attempts = {1, 2}
    Events = {1, 2}
    EpochBound = 2
    GrantBound = 2
    CrashBound = 1
    None = None
    ProviderEvents <- MCEvents
    IngressAge = 1
    IngressSkew = 1
    IngressLifetime = 2
    Documents <- MCDocuments
    PackageSpan = 2
    Openable = {"e1"}
    ProviderOutputs <- MCOutputs
    GenerateCalls = {c1, c2}
    BotSkew <- MCSkew
    GatewayClock = 2
    GatewayEpochs = 2
    CitationDocuments <- MCCitationDocuments
    ProcessLives = 2
    Tabs = {"left", "right"}
    UiContents = {"plain", "other", "rich"}
    RichContents = {"rich"}
    UiPolicies = {"private", "organization"}
    PreviewTtl = 1
    UiClockBound = 1
    UiEpochBound = 3
    UiMemberBound = 2
SPECIFICATION MCSpec
SYMMETRY Symmetry
INVARIANTS
    FinalFollowsPlaceholder
    DeliveredAnswersAreTraceable
    ModelCallsAreGranted
    AnswersCiteTheirPackage
    UiEffectsWerePreviewed
PROPERTIES
    UsesThePlane
CHECK_DEADLOCK FALSE
