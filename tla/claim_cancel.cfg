SPECIFICATION Spec
CONSTANTS
    Keys = {k1}
    Address = {0, 1, 2, 3}
    Genesis <- ControlledGenesis
    Messages <- VotingMessages
    Ambiguous = {}
    AuthorityActions <- ThresholdActions
    MAX_OWNER = 2
    MAX_TIME_LOCK = 1
    MAX_CPI_ACCOUNTS = 1
    MAX_INDEX = 1
    MaxClock = 0
    Err = Err
    NoFrame = NoFrame
INVARIANT ApprovedCanBeCancelled
CHECK_DEADLOCK FALSE
