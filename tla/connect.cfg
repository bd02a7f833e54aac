SPECIFICATION ConnectSpec
CONSTANTS
    a = a
    b = b
    x = x
    y = y
    s1 = s1
    s2 = s2
    ctx1 = ctx1
    ctx2 = ctx2
    None = None
    Callers = {a, b}
    Lookups = {x, y}
    MaxCalls = 1
    Digit <- DigitDef
    Lower <- LowerDef
    Configs <- ConfigsDef
    Addresses = 2
    Sockets = {s1, s2}
    Contexts = {ctx1, ctx2}
INVARIANTS ConnectInv RouteRight
PROPERTIES ConnectEnds
CHECK_DEADLOCK FALSE
