CONSTANTS
    Block <- LowBlocks
    Anchor = 0
    Parent <- LowParent
    Work <- LowWork
    Height <- LowHeight
    CumWork <- LowCumWork
    Ancestors <- LowAncestors
    Connects <- LowBlocks
    NoBlock = NoBlock
    REORG_WINDOW = 2
    MTP_SPAN = 1
    KEY_EPOCH = 1
    KEY_DELAY = 1
SPECIFICATION FairSpec
PROPERTIES
    HeaviestValidWins
