SPECIFICATION BufferSpec
CONSTANTS
    Keys = {k1}
    Address = {0, 1, 2}
    Genesis <- BufferGenesis
    Messages <- BufferMessages
    Ambiguous <- BufferMessages
    AuthorityActions <- BufferActions
    MAX_OWNER = 1
    MAX_TIME_LOCK = 1
    MAX_CPI_ACCOUNTS = 1
    MAX_INDEX = 2
    MaxClock = 0
    Err = Err
    NoFrame = NoFrame
    Cell = {0, 1}
    Compiled <- CompiledContents
    Commitments <- CommittedContents
    NoOwnerHashes <- BlankHashes
    BufferIndexes = {1}
    MAX_MESSAGE_SIZE = 2
    MaxUploads = 2
INVARIANTS
    BufferTypeOK
    UploadIntact
    OneProposalPerUpload
PROPERTIES
    CommittedBecomesProposal
    ProposedByRight
    ContentFixed
    FundedIndexBlocks
CONSTRAINT NoneMisread
CHECK_DEADLOCK FALSE
