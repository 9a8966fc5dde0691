SPECIFICATION Spec
CONSTANTS
    Keys = {k1, k2}
    Address = {0, 1, 2, 3, 4}
    Genesis <- VotingGenesis
    Messages <- VotingMessages
    Ambiguous = {}
    AuthorityActions <- NoActions
    MAX_OWNER = 3
    MAX_TIME_LOCK = 1
    MAX_CPI_ACCOUNTS = 1
    MAX_INDEX = 1
    MaxClock = 0
    Err = Err
    NoFrame = NoFrame
INVARIANTS
    VotesNameTheirVoters
    SettledByItsOwnRules
    NoDeadBallot
SYMMETRY Symmetry
CONSTRAINT KindsKept
CHECK_DEADLOCK FALSE
