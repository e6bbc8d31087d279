SPECIFICATION Spec
CONSTANTS
    SupplyId = 60181
    Contents <- MCContents
    Amounts <- MCAmounts
    Choices <- MCChoices
    Dates <- MCDates
    Times <- MCTimes
    Changing <- MCChanging
    MaxChanges = 2
INVARIANTS TypeOK ReportsAreTrue SetThenRead SettingsStayLegal
