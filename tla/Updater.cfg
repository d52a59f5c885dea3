\* The name of the second of twelve relays is the start of two others.
CONSTANTS
    Count = 12
    Powers = {10, 100}
    Ports <- MCPorts
SPECIFICATION Spec
INVARIANTS
    AnnouncesItself
PROPERTY
    TriesAgain
