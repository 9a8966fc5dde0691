SPECIFICATION Spec
CONSTANTS
    Keys = {k1}
    Address = {0, 1, 2, 3, 4}
    Genesis <- ReconfigureGenesis
    Messages <- ReconfigureMessages
    Ambiguous = {}
    AuthorityActions <- NoActions
    MAX_OWNER = 3
    MAX_TIME_LOCK = 1
    MAX_CPI_ACCOUNTS = 1
    MAX_INDEX = 2
    MaxClock = 0
    Err = Err
    NoFrame = NoFrame
INVARIANTS
    VotableUnderItsRules
    VotesNameTheirVoters
    SettledByItsOwnRules
    NoDeadBallot
PROPERTIES
    ImplementsElection
CONSTRAINT KindsKept
CHECK_DEADLOCK FALSE
