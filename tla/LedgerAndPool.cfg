SPECIFICATION MempoolSpec
CONSTANTS
    Tx <- MCTx
    Inputs <- MCInputs
    Outputs <- MCOutputs
    Witness <- MCWitness
    Unverified <- MCUnverified
    TooLarge = {17}
    Block <- MCBlock
    BadRoot <- MCBadRoot
    COINBASE_MATURITY = 2
    FOUNDER_ALLOCATION = 4
    INITIAL_SUBSIDY = 4
    HALVING_INTERVAL = 1
    MAX_SUPPLY = 11
    MAX_HEIGHT = 4
    MAX_REORG = 2
    MAX_BRANCH = 2
    Bytes <- MCBytes
    max_entries = 4
    max_total_bytes = 5
    max_ancestors = 2
    max_descendants = 2
INVARIANTS
    LedgerIsReplay
    SupplyBound
    PoolIsMineable
    NoInternalError
PROPERTIES
    BlockRemovesNothingElse
