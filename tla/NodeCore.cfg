CONSTANTS
    Block <- Blocks
    Anchor = 0
    Parent <- ParentOf
    Work <- WorkOf
    Height <- HeightOf
    CumWork <- CumWorkOf
    Ancestors <- AncestorsOf
    Connects <- Blocks
    NoBlock = NoBlock
    REORG_WINDOW = 2
    MTP_SPAN = 1
    KEY_EPOCH = 1
    KEY_DELAY = 1
    Caller = {c1}
    Workload <- Workloads
    Sizes <- SizeOf
    Jobs = {"targets", "locator", "serve"}
    Requests <- AnyRequest
    MAX_CORE_COMMANDS = 1
    MAX_CORE_COMMAND_BYTES = 5
    HEADER_VALIDATION_SLICE = 2
    MAX_HEADERS_PER_MESSAGE = 3
    MAX_LOCATOR_HASHES = 3
    DENSE_LOCATOR = 2
SPECIFICATION NodeFairSpec
INVARIANTS
    
    TargetsComplete
    ServedFollowOnBranch
PROPERTIES
    CommandsAnswered
CHECK_DEADLOCK FALSE
