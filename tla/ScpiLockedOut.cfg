SPECIFICATION LoopingSpec
CONSTANTS
    RawClients = {r1}
    VxiClients = {v1}
    None = None
    InCapacity = 2
    OutCapacity = 4
    LinkFirst = TRUE
    MaxItems = 2
    MaxInFlight = 1
PROPERTIES ControlComesBack
