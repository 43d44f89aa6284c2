SPECIFICATION NearSpec
CONSTANTS
    o1 = o1
    o2 = o2
    o3 = o3
    x1 = x1
    x2 = x2
    c1 = c1
    c2 = c2
    Order = {o1, o2, o3}
    Kind <- TransferKinds
    Request = {x1}
    Native = {x1}
    Swapped = {}
    Mintable = {}
    Core = {c1, c2}
    FirstCores = {c1}
    NoCore = NoCore
    NoRequest = NoRequest
    Amount = 2
    Fee = 1
    Wrapped = 2
    Reserve = 1
    MaxFails = 2
    MaxOwner = 1
INVARIANT
    NotStranded
PROPERTY
    PaysInTheEnd
CHECK_DEADLOCK FALSE
