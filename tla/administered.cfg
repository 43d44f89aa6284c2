SPECIFICATION Spec
CONSTANTS
    Chains <- ABR
    Relay = "R"
    Tokens = {t1}
    Callers = {u1}
    NoToken = NoToken
    NoMessage = NoMessage
    Scale <- MCScale1
    Unit <- MCUnit1
    MAX_RATE_UNI = 2
    FromFee <- MCFromFee
    ToFee <- MCToFee
    BaseFee <- MCBaseFee
    FromCaller <- NoCaller
    ToCaller <- NoCallerTo
    Mintable <- MintOnRelay
    MessageFee <- MCMessageFee
    InitHeld <- MCHeld
    InitLiquidity <- MCLiquidity
    Amounts = {12}
    Kinds = {"BRIDGE", "MESSAGE"}
    MaxNonce <- OneFromA
    MaxAdmin = 2
    MAX_BASE_POINT = 3
    DistributeRate <- MCDistribute
    ExecutorAmounts = {9}
INVARIANTS
    NoValueCreated
    VaultTracksLeaf
CHECK_DEADLOCK FALSE
