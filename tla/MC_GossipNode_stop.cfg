CONSTANTS
    p1 = p1
    p2 = p2
    c1 = c1
    c2 = c2
    c3 = c3
    me = me
    None = None
    Peers <- MCPeers2
    BootstrapArg <- MCBootArg
    BootstrapFlag <- MCNoPeers
    Self = me
    Greater <- MCGreater2
    Slots <- MCSlots2
    MaxPeers = 1
    AllowStop = TRUE

SPECIFICATION FairSpec

PROPERTY ManageExitsAfterStop

CHECK_DEADLOCK FALSE
