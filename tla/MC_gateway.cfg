SPECIFICATION FairSpec
CONSTANTS
    a = a
    b = b
    d1 = d1
    NoThread = none
    Callers = {a, b}
    Uses <- CallsMade
    Devices = {d1}
    QueueMax = 1
    MaxCalls = 2
    MaxPushes = 1
    MaxLosses = 1
INVARIANTS GatewayInv LoginStatusTrue SuccessIsGranted
PROPERTIES CallsReturn YieldsEnd
CHECK_DEADLOCK FALSE
