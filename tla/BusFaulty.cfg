SPECIFICATION RunningSpec
CONSTANTS
    Masters = {c1}
    NoIp = NoIp
    UnitAddress = UnitAddress
    AppTimeout = 2
    LibTimeout = 4
    ClockSize = 8
    MaxStall = 1
    MaxRequests = 3
    Prompt = FALSE
    MaxDelay = 0
    Refusals = FALSE
    SendMayFail = TRUE
INVARIANTS TypeOK OneAnswerOneReceiver WaitIsBounded
PROPERTIES RightReceiver TrueMeansDone TimeCounts KeepsContract CallsReturn
