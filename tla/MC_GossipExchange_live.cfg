CONSTANTS
    n1 = n1
    n2 = n2
    n3 = n3
    k1 = k1
    k2 = k2
    None = None
    Nodes <- MCNodes
    Rank <- MCRank
    Links <- MCLinks
    Keys <- MCKeys
    Publishers <- MCOwnKeys
    MaxTs = 2
    MaxFaults = 2
SPECIFICATION FairSpec
PROPERTY EventuallyConsistent LinkPersists
