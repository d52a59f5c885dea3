\* TestLatencyWithPing on three relays and two distinct latencies.
CONSTANTS
    Candidates = {r1, r2, r3}
    WithPing = TRUE
    MaxLatency = 2
SPECIFICATION Spec
INVARIANTS
    EarlyReturnComplete
    ResultIsRanking
    LostListSound
    SilenceRanksNobody
PROPERTIES
    ImplementsContract
    NoGoroutineLeak
