\* A page that watches a library run, one worker with two permits that may halt
\* once, one failed call anywhere and a job that may outlast CLAIM_STALE_MS, so
\* that two handlers of the run write to the same console and their publishes cross.
CONSTANTS
    lib = lib
    grp = grp
    pri = pri
    openssl = openssl
    nss = nss
    Job = {lib}
    StreamOf <- MCStreamOf
    Worker = {w1}
    Nobody = Nobody
    Concurrency = 2
    ReadCount = 2
    MaxDeliveries = 2
    MaxHalts = 1
    MaxFaults = 1
    Overrun = TRUE
    GroupAtStart = TRUE
    ModeOf <- MCModeOf
    Adapter = {openssl, nss}
    Configured = {openssl}
    Column <- MCColumn3
    Advertised = {1}
    MaxHeaders = 1
    MaxRounds = 2
    MaxCuts = 1
SPECIFICATION LSpec
INVARIANTS LogContiguous EndedHasVerdict MatrixSound ShownIsStored
\* When every job is acknowledged the workers only poll, which is stuttering.
CHECK_DEADLOCK FALSE
