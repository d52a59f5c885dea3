\* One node, started once, whose commands end well.
CONSTANTS
    Count = 1
    Ids = {0}
    MaxStarts = 1
SPECIFICATION Spec
PROPERTY CleanExitReturns
