SPECIFICATION Spec
CONSTANTS
    SupplyId = 60181
    Contents <- MCContents
    Amounts <- MCAmounts
    Choices <- MCChoices
    Dates <- MCDates
    Times <- MCTimes
    Changing <- MCChanging
    MaxChanges = 1
INVARIANT SetIsExact
