\* Two workers, three jobs on two streams, one permit each; one halt, one failed
\* call, all jobs within CLAIM_STALE_MS.
CONSTANTS
    j1 = j1
    j2 = j2
    k1 = k1
    Job <- MCJob
    StreamOf <- MCStreamOf
    Worker = {w1, w2}
    Nobody = Nobody
    Concurrency = 1
    ReadCount = 1
    MaxDeliveries = 3
    MaxHalts = 1
    MaxFaults = 1
    Overrun = FALSE
    GroupAtStart = TRUE
SPECIFICATION QFairSpec
INVARIANTS NothingLost
PROPERTIES AckedNeverRedelivered ImplementsAtLeastOnce
\* When every job is acknowledged the workers only poll, which is stuttering.
CHECK_DEADLOCK FALSE
