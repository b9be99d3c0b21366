SPECIFICATION FairSpec
CONSTANTS
    Task <- Tasks
    PeerOf <- PeersOfTasks
    Size = {1, 3}
    MAX_QUEUE_FRAMES_PEER = 2
    MAX_QUEUE_BYTES_PEER = 4
    MAX_QUEUE_BYTES_GLOBAL = 5
    CONTROL_RESERVED_FRAMES = 1
    CONTROL_RESERVED_BYTES = 1
    Key = {"headers", "a"}
    RESPONSE_START_TIMEOUT = 1
    EXPIRED_REQUEST_GRACE = 2
    MAX_RECENTLY_EXPIRED_REQUESTS_PER_PEER = 1
    PING_INTERVAL = 2
    PONG_TIMEOUT = 1
    IDLE_TIMEOUT = 4
    NonceModulus = 3
    MaxTime = 4
    MaxRequests = 2
    MaxFeedback = 1
    MaxPoints = 1
    HeaderCells = 2
    Length <- Lengths
    PayloadLimit = 2
    ReadNoProgress = 2
    ReadDeadline = 4
    WriteDeadline = 2
    MaxWire = 4
    MaxErrors = 2
    Peer = {p, q}
    Item = {x, y, z}
    MAX_KNOWN_INVENTORY_PER_PEER = 2
    MAX_RECENT_RELAY_CACHE = 2
    MaxNotes = 4
INVARIANTS
    NoLostWakeup
    
    
PROPERTIES
    ReservationEnds
    LateAnswerForgiven
    NoEcho
CHECK_DEADLOCK FALSE
