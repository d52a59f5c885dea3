\* TestLatencyWithPing on two relays: the race on err.
CONSTANTS
    Candidates = {r1, r2}
    WithPing = TRUE
    MaxLatency = 1
SPECIFICATION Spec
INVARIANT FailedNeverRanked
