SPECIFICATION LoopingSpec
CONSTANTS
    BufferWords = 3
    MaxData = 2
    Menu <- MCMenu
    MaxCalls = 3
    Window = 2
INVARIANTS TypeOK InStep
PROPERTIES KeepsContract EveryStepCounts EveryCallAnswered FreedInTheEnd
