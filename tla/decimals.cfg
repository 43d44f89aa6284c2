SPECIFICATION Spec
CONSTANTS
    Chains <- ABR
    Relay = "R"
    Tokens = {t1}
    Callers = {u1}
    NoToken = NoToken
    NoMessage = NoMessage
    Scale <- MCScaleA
    Unit <- MCUnit2
    MAX_RATE_UNI = 2
    FromFee <- MCFromFee
    ToFee <- MCToFee
    BaseFee <- MCBaseFee
    FromCaller <- SomeCaller
    ToCaller <- NoCallerTo
    Mintable <- MintNowhere
    MessageFee <- MCMessageFee
    InitHeld <- MCHeld
    InitLiquidity <- MCLiquidity
    Amounts = {8, 9}
    Kinds = {"BRIDGE"}
    MaxNonce <- OneFromAB
    MaxAdmin = 0
    MAX_BASE_POINT = 3
    DistributeRate <- MCDistribute
    ExecutorAmounts = {9}
INVARIANTS
    TypeOK
    NoValueCreated
    QuotesAreKept
CHECK_DEADLOCK FALSE
