SPECIFICATION Spec
CONSTANTS
    Keys = {k1}
    Address = {0, 1, 2}
    Genesis <- MistakeGenesis
    Messages <- VotingMessages
    Ambiguous <- VotingMessages
    AuthorityActions <- CollectorActions
    MAX_OWNER = 2
    MAX_TIME_LOCK = 1
    MAX_CPI_ACCOUNTS = 1
    MAX_INDEX = 1
    MaxClock = 0
    Err = Err
    NoFrame = NoFrame
INVARIANT ApprovedByTheThreshold
CHECK_DEADLOCK FALSE
