SPECIFICATION Spec
CONSTANTS
    Chains <- AR
    Relay = "R"
    Tokens = {t1}
    Callers = {u1}
    NoToken = NoToken
    NoMessage = NoMessage
    Scale <- MCScale1
    Unit <- MCUnit1
    MAX_RATE_UNI = 2
    FromFee <- MCFromFee
    ToFee <- MCToFee
    BaseFee <- MCBaseFee
    FromCaller <- NoCaller
    ToCaller <- NoCallerTo
    Mintable <- MintOnRelay
    MessageFee <- MCMessageFee
    InitHeld <- MCHeld
    InitLiquidity <- MCLiquidityR
    Amounts = {3, 6}
    Kinds = {"DEPOSIT", "BRIDGE"}
    MaxNonce <- OneFromA
    MaxAdmin = 0
    MAX_BASE_POINT = 3
    DistributeRate <- MCDistribute
    ExecutorAmounts = {9}
INVARIANTS
    ValueConserved
    VaultTracksLeaf
    SharesAreWorth
PROPERTIES
    SharePriceNeverFalls
CHECK_DEADLOCK FALSE
