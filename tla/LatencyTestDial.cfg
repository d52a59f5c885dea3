\* TestLatency on three relays and two distinct latencies.
CONSTANTS
    Candidates = {r1, r2, r3}
    WithPing = FALSE
    MaxLatency = 2
SPECIFICATION Spec
INVARIANTS
    FailedNeverRanked
PROPERTIES
    ImplementsContract
