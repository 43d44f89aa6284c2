SPECIFICATION FeeSpec
CONSTANTS
    a = a
    b = b
    Tokens = {a, b}
    Amounts = {2}
    MaxReceived = 4
    ShareUpdates <- MCShareUpdates
    Claimants = {"DEV"}
    TokenLists <- TargetFirst
    Targets = {a}
    SwapAmounts = {2}
INVARIANTS
    
    FeeTypeOK

    
    
CHECK_DEADLOCK FALSE
