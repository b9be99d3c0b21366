CONSTANTS
    TARGETS = 4
    Peer = {p1, p2}
    MAX_IN_FLIGHT_BLOCKS_GLOBAL = 3
    MAX_IN_FLIGHT_BLOCKS_PEER = 2
    MAX_BUFFERED_BLOCKS = 2
    MAX_BLOCK_ATTEMPTS = 3
SPECIFICATION FairSpec
\* The scheduler has nothing to do once the plan is submitted.
CHECK_DEADLOCK FALSE
PROPERTY DoneOrSpent
