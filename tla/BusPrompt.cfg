SPECIFICATION AnsweringSpec
CONSTANTS
    Masters = {c1}
    NoIp = NoIp
    UnitAddress = UnitAddress
    AppTimeout = 2
    LibTimeout = 4
    ClockSize = 8
    MaxStall = 1
    MaxRequests = 3
    Prompt = TRUE
    MaxDelay = 4
    Refusals = TRUE
    SendMayFail = TRUE
PROPERTIES KeepsContract ResponseForwarded
