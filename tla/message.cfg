SPECIFICATION Spec
CONSTANTS
    BYTE = 8
    SYSTEM = 0
    PROGRAM = 4
    Tables = {6, 7}
    Listed = {3, 4}
    MaxTable = 2
    ClientMessages <- MCClientMessages
    MAX_CPI_ACCOUNTS = 5
    Err = Err
    None = None
INVARIANTS
    ParseIsTotal
    ClientAndProgramAgree
    NoSubstitution
    ClientAccountsServe
CHECK_DEADLOCK FALSE
