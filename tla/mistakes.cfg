SPECIFICATION Spec
CONSTANTS
    Keys = {k1}
    Address = {0, 1, 2}
    Genesis <- MistakeGenesis
    Messages <- MistakeMessages
    Ambiguous <- MistakeMessages
    AuthorityActions <- MistakeActions
    MAX_OWNER = 2
    MAX_TIME_LOCK = 1
    MAX_CPI_ACCOUNTS = 1
    MAX_INDEX = 2
    MaxClock = 0
    Err = Err
    NoFrame = NoFrame
INVARIANTS
    VotesNameTheirVoters
    SettledByItsOwnRules

    
CONSTRAINT OneMistake
CHECK_DEADLOCK FALSE
