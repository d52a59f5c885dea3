\* Host lists of one, two and three nodes in arrays of two; append may leave
\* no room or room for one more.
CONSTANTS
    NodeCount <- MCNodeCount
    Settings <- MCSettings
    Capacity = 2
    MaxSpare = 1
    MainnetPortBase = 0
    TestnetPortBase = 0
    MainnetRTPortBase = 0
    TestnetRTPortBase = 0
SPECIFICATION Spec
INVARIANTS
    HostsListed
    ListsOfOwnPool
    OwnHostsKept
    LostToLaterOnly
    DefaultsApart
