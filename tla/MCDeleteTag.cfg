SPECIFICATION Spec
CONSTANTS
    Commands <- DeleteTagGiven
    Rows <- MCRows
    OthersPatch <- MCOthersPatch
    PageSize = 2
    MaxFaults = 1
    MaxOthers = 1
INVARIANT EveryReleaseDeleted
CHECK_DEADLOCK FALSE
