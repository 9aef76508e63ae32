SPECIFICATION Spec
CONSTANTS
    i1 = i1
    i2 = i2
    Threads <- MCThreads
    Instances = {i1, i2}
    Keys = {k1, k2}
    Kinds <- AllKinds
    None = None
    Found = Found
    Garbage = Garbage
    k1 = k1
    k2 = k2
    Calls <- MCCalls
    Mortal = {i2}
    MaxConnections = 2
    MaxFiles = 3
    PoolSize = 1
    Oversize = {k2}
INVARIANTS
    AnswersOwnKey
    ObjectRefsExact
CHECK_DEADLOCK FALSE
PROPERTIES
    PutTaskEnds
