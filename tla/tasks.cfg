SPECIFICATION TaskSpec
CONSTANTS
    Task <- MCTask
    Scopes <- MCScopes
    Config <- MCConfig
    Script <- MCScript
    Goal <- MCGoal
    Routine <- Updating
    Value <- MCValue
    Unset = "unset"
    Books <- MCBooks
    MaxPool = 2
    MaxUpsets = 1
    ChainOrder <- MCChainOrder
    TokenOrder <- MCTokenOrder
    PassedOver = {}
    NamedTypes <- MCNamedTypes
    FeeTokens <- MCFeeTokens
    FeeTypeOrder <- MCFeeTypeOrder
INVARIANTS
    TaskTypeOK
    DoneMeansConfigured
    DryRunSendsNothing
    QuietWhenConfigured
    TargetNamesItsSource
    TransferArrives
PROPERTIES
    StaleUnmapHarmless
    Settles
