\* A test of an adapter that the worker does not have, and a page that is opened at
\* any time.
CONSTANTS
    j1 = j1
    j2 = j2
    t1 = t1
    openssl = openssl
    nss = nss
    Job = {j1}
    StreamOf <- MCStreamOf
    Worker = {w1}
    Nobody = Nobody
    Concurrency = 1
    ReadCount = 2
    MaxDeliveries = 1
    MaxHalts = 0
    MaxFaults = 0
    Overrun = FALSE
    GroupAtStart = TRUE
    Test = {t1}
    TestOf <- MCTestOf
    Adapter = {openssl, nss}
    Configured <- OpensslOnly
    GroupKnown = {j1}
    SigKnown = {j1}
    Outcomes <- Fickle
    Watched = t1
    MaxDrops = 0
SPECIFICATION LSpec
INVARIANTS UnlistedIsDisabled
CHECK_DEADLOCK FALSE
