\* A test of two subtasks on one worker with two permits; one failed call
\* anywhere and jobs that may outlast CLAIM_STALE_MS, so that two handlers of
\* one subtask run side by side.
CONSTANTS
    j1 = j1
    j2 = j2
    t1 = t1
    openssl = openssl
    nss = nss
    Job = {j1, j2}
    StreamOf <- MCStreamOf
    Worker = {w1}
    Nobody = Nobody
    Concurrency = 2
    ReadCount = 2
    MaxDeliveries = 2
    MaxHalts = 0
    MaxFaults = 1
    Overrun = TRUE
    GroupAtStart = TRUE
    Test = {t1}
    TestOf <- MCTestOf
    Adapter = {openssl, nss}
    Configured <- OpensslOnly
    GroupKnown = {j1}
    SigKnown = {j1}
    Outcomes <- AnyOutcome
SPECIFICATION Spec
INVARIANTS ClosedHasResults EventCountsAddUp EventsTellTheTruth AllAckedIsClosed LossBoundedByFaults
PROPERTIES ClosedStaysClosed
\* When every job is acknowledged the workers only poll, which is stuttering.
CHECK_DEADLOCK FALSE
