SPECIFICATION LoopingSpec
CONSTANTS
    RawClients = {r1, r2}
    VxiClients = {v1}
    None = None
    InCapacity = 2
    OutCapacity = 4
    LinkFirst = TRUE
    MaxItems = 3
    MaxInFlight = 1
INVARIANTS TypeOK RawGetsOwnAnswers LinesAreWhole
PROPERTIES SharesAsPromised RawIsDisabled DestroyReleases
