SPECIFICATION Spec
CONSTANTS
    Address = {0, 1, 5, 8}
    MAX_OWNER = 4
    MAX_TIME_LOCK = 1
    Err = Err
    W = 2
    BASE = 3
    BITS = 2
    Actions <- StorageActions
    Genesis <- StorageGenesis
    Message <- StoredMessage
    MaxIndex = 2
INVARIANTS
    SearchFindsOwners
    SameVerdicts
    CountersMatchBits
PROPERTIES
    ImplementsRecords
CHECK_DEADLOCK FALSE
