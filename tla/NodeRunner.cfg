\* Two nodes of each role, good and bad ids, the program is started twice.
CONSTANTS
    Count = 2
    Ids = {0, 2, 3}
    MaxStarts = 2
SPECIFICATION Spec
INVARIANTS
    TypeOK
    ErrorsAccountedFor
    BadIdHarmless
    ProducerNotAnnounced
    SocketFresh
PROPERTIES
    DatabaseKept
    ImplementsRunner
