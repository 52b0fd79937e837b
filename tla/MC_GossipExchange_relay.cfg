CONSTANTS
    n1 = n1
    n2 = n2
    n3 = n3
    k1 = k1
    k2 = k2
    None = None
    Nodes <- MCNodes3
    Rank <- MCRank3
    Links <- MCLinksTri
    Keys <- MCKey1
    Publishers <- MCOneKey
    MaxTs = 2
    MaxFaults = 2
SPECIFICATION FairSpec
INVARIANT WatermarksSound
PROPERTY EventuallyConsistent
