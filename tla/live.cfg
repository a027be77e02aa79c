\* A page that watches a test of two subtasks, on the adapter that the worker has
\* or on one that it has not, and may lose its connection twice; the worker, with
\* one permit, may crash or be shut down once and is started again.
CONSTANTS
    j1 = j1
    j2 = j2
    t1 = t1
    openssl = openssl
    nss = nss
    Job = {j1, j2}
    StreamOf <- MCStreamOf
    Worker = {w1}
    Nobody = Nobody
    Concurrency = 1
    ReadCount = 2
    MaxDeliveries = 2
    MaxHalts = 1
    MaxFaults = 0
    Overrun = FALSE
    GroupAtStart = TRUE
    Test = {t1}
    TestOf <- MCTestOf
    Adapter = {openssl, nss}
    Configured <- OpensslOnly
    GroupKnown = {j1}
    SigKnown = {j1}
    Outcomes <- Fickle
    Watched = t1
    MaxDrops = 2
SPECIFICATION LFairSpec
INVARIANTS LastEventAgrees DoneIsStored QuietPageAgrees
PROPERTIES EveryTestSettles PageFillsIn
\* When every job is acknowledged the workers only poll, which is stuttering.
CHECK_DEADLOCK FALSE
