SPECIFICATION Spec
CONSTANTS
    Masters = {c1}
    NoIp = NoIp
    UnitAddress = UnitAddress
    AppTimeout = 2
    LibTimeout = 4
    ClockSize = 8
    MaxStall = 1
    MaxRequests = 2
    Prompt = TRUE
    MaxDelay = 2
    Refusals = TRUE
    SendMayFail = FALSE
INVARIANT TrueMeansAccepted
