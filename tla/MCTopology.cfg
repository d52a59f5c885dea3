\* With one peer MainNetRelays dials three of four relays, with two it panics.
CONSTANTS
    published = published
    own = own
    r1 = r1
    r2 = r2
    twin = twin
    mine = mine
    Default <- MCDefault
    PoolNodes <- MCPoolNodes
    Public <- MCPublic
    OwnRelays <- MCOwnRelays
    Key <- MCKey
    Roles <- MCRoles
    PeerCounts = {1, 2}
    MaxCrashes = 1
SPECIFICATION Spec
INVARIANTS
    TypeOK
    PoolAlwaysKnown
    ProducerIsolated
    FileUsableDuringSearch
    SearchKeepsItsWord
PROPERTY
    ImplementsCall
