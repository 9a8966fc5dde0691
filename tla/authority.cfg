SPECIFICATION Spec
CONSTANTS
    Keys = {k1}
    Address = {0, 1, 2, 3, 4}
    Genesis <- AuthorityGenesis
    Messages <- AuthorityMessages
    Ambiguous = {}
    AuthorityActions <- AllActions
    MAX_OWNER = 3
    MAX_TIME_LOCK = 1
    MAX_CPI_ACCOUNTS = 1
    MAX_INDEX = 1
    MaxClock = 1
    Err = Err
    NoFrame = NoFrame
INVARIANTS
    TypeOK
    VoterCountExact
PROPERTIES
    
    TimeLockRespected
CONSTRAINT KindsKept
CHECK_DEADLOCK FALSE
