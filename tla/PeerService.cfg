SPECIFICATION FairSpec
CONSTANTS
    Node <- MCNode
    Hello <- MCHello
    KNOWN = {"blocks", "txs"}
    Conn = {1, 2, 3}
    Dialer <- MCDialer
    Acceptor <- MCAcceptor
    Faulty = {3}
    Coolable <- MCCoolable
    max_peers = 4
    max_outbound = 2
    max_inbound = 2
    MAX_PENDING_HANDSHAKES = 3
    MaxPeerId = 10
    MaxSends = 1
INVARIANTS
    TableIsLive
    NeverAccused
 
CHECK_DEADLOCK FALSE
