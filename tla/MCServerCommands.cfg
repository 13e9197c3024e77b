SPECIFICATION Spec
CONSTANTS
    Commands <- MCCommands
    Rows <- MCRows
    OthersPatch <- MCOthersPatch
    PageSize = 2
    MaxFaults = 1
    MaxOthers = 1
INVARIANTS TypeOK DoneAsAsked FoundUnlessShifted RefusedUnchanged UnknownUserKeepsFields
PROPERTIES OnlyAsked CollectedUnlessShifted RerunFinishes
CHECK_DEADLOCK FALSE
