\* A fresh deployment: the API may enqueue before the first worker starts.
CONSTANTS
    j1 = j1
    j2 = j2
    k1 = k1
    Job <- MCJob
    StreamOf <- MCStreamOf
    Worker = {w1, w2}
    Nobody = Nobody
    Concurrency = 1
    ReadCount = 1
    MaxDeliveries = 1
    MaxHalts = 0
    MaxFaults = 0
    Overrun = FALSE
    GroupAtStart = FALSE
SPECIFICATION QSpec
INVARIANTS NothingSkipped
\* When every job is acknowledged the workers only poll, which is stuttering.
CHECK_DEADLOCK FALSE
