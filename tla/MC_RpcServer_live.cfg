CONSTANTS
    k1 = k1
    k2 = k2
    k3 = k3
    p1 = p1
    p2 = p2
    Conns <- MCConns
    Peers <- MCPeers
    PeerOf <- MCPeerOf
    ListenMayFail = TRUE
    AcceptMayFail = TRUE
    ResolveMayFail = TRUE

SPECIFICATION FairSpec

INVARIANT IncomingBacked
PROPERTY ServeLoopExitsAfterClose

CHECK_DEADLOCK FALSE
