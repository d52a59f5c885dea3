\* Three lines on each stream, pipes of two lines.
CONSTANTS
    MaxLines = 3
    PipeCap = 2
SPECIFICATION Spec
INVARIANTS
    JoinedStreamPrinted
PROPERTIES
    ImplementsExec
    WriteCompletes
