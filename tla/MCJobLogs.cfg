SPECIFICATION Spec
CONSTANTS
    Job = {1, 2}
    MaxPolls = 2
    Patience = 3
    MaxLines = 2
    MaxAttempts = 2
    MaxFaults = 1
INVARIANTS TypeOK PrintedIsLog CompletedIsWhole
PROPERTIES FollowEnds
CHECK_DEADLOCK FALSE
