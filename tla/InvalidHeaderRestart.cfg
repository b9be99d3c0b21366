CONSTANTS
    Block <- WideBlocks
    Anchor = 0
    Parent <- WideParent
    Work <- WideEqualWork
    Height <- WideHeight
    CumWork <- WideEqualCumWork
    Ancestors <- WideAncestors
    Connects <- WideConnects
    NoBlock = NoBlock
    REORG_WINDOW = 2
    MTP_SPAN = 1
    KEY_EPOCH = 1
    KEY_DELAY = 1
SPECIFICATION Spec
INVARIANTS
    RestartSucceeds
