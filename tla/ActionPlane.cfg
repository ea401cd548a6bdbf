CONSTANTS
    Bots = {b1, b2}
    Turns = {t1}
    Operations = {"create_placeholder"}
    Payloads = {x, y}
    Attempts = {a1, a2}
    EpochBound = 2
    None = None
SPECIFICATION FairPlaneSpec
INVARIANTS
    OneEffectPerOperation
    ReceiptsTellTheTruth
PROPERTIES
    EffectsFollowOpenAttempts
    BegunEffectsComeToRest
CHECK_DEADLOCK FALSE
