\* The loss of output, on the smallest streams.
CONSTANTS
    MaxLines = 1
    PipeCap = 1
SPECIFICATION Spec
INVARIANT AllOutputProcessed
