CONSTANTS
    n1 = n1
    n2 = n2
    r1 = r1
    r2 = r2
    q1 = q1
    None = None
SPECIFICATION FairSpec
PROPERTY DistRefinesKvDB
CHECK_DEADLOCK FALSE
