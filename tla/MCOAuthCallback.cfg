SPECIFICATION Spec
CONSTANTS
    Callback = {r1, r2, r3}
    State = {own, earlier}
    OwnState = own
CHECK_DEADLOCK FALSE
INVARIANTS
    TypeOK
    MismatchHasCause
PROPERTIES
    StateComesWithCode
    FlowEnds
