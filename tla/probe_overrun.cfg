\* A job outlasts CLAIM_STALE_MS and one worker crashes.
CONSTANTS
    j1 = j1
    j2 = j2
    t1 = t1
    openssl = openssl
    nss = nss
    Job = {j1, j2}
    StreamOf <- MCStreamOf
    Worker = {w1, w2}
    Nobody = Nobody
    Concurrency = 2
    ReadCount = 2
    MaxDeliveries = 2
    MaxHalts = 1
    MaxFaults = 0
    Overrun = TRUE
    GroupAtStart = TRUE
    Test = {t1}
    TestOf <- MCTestOf
    Adapter = {openssl, nss}
    Configured <- OpensslOnly
    GroupKnown = {j1}
    SigKnown = {j1}
    Outcomes <- AnyOutcome
SPECIFICATION Spec
INVARIANTS NoStuckRunning
\* When every job is acknowledged the workers only poll, which is stuttering.
CHECK_DEADLOCK FALSE
