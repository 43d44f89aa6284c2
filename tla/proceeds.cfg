SPECIFICATION FeeSpec
CONSTANTS
    a = a
    b = b
    Tokens = {a, b}
    Amounts = {3}
    MaxReceived = 3
    ShareUpdates <- MCShareUpdates
    Claimants = {"DEV"}
    TokenLists <- TargetLast
    Targets = {b}
    SwapAmounts = {2}
INVARIANTS
    AccumulatedIsFees
CHECK_DEADLOCK FALSE
