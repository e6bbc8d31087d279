SPECIFICATION LoopingSpec
CONSTANTS
    Clients = {c1, c2}
    None = None
    Ranges <- MCRanges
    KindsOnUDP <- MCKindsOnUDP
    KindsOnTCP <- MCKindsOnTCP
    MaxRequests = 3
    MaxWaiting = 1
INVARIANTS TypeOK FreshPortIsOpen
PROPERTIES OnePortIsForEver AnswersAreRight EveryPortHasItsTurn WaitingIsServed TcpIsRead
