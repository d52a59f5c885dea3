\* Both monitors, started three times with one of two configurations.
CONSTANTS
    Kinds = {"prometheus", "rtview"}
    Confs <- MCConfs
    MaxStarts = 3
SPECIFICATION Spec
INVARIANTS
    EveryNodeWatched
PROPERTY
    ImplementsRunner
