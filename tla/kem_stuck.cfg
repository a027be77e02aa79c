\* One worker crashes once.
CONSTANTS
    lib = lib
    grp = grp
    pri = pri
    openssl = openssl
    nss = nss
    Job = {grp}
    StreamOf <- MCStreamOf
    Worker = {w1}
    Nobody = Nobody
    Concurrency = 1
    ReadCount = 2
    MaxDeliveries = 2
    MaxHalts = 1
    MaxFaults = 0
    Overrun = FALSE
    GroupAtStart = TRUE
    ModeOf <- MCModeOf
    Adapter = {openssl, nss}
    Configured = {openssl}
    Column <- MCColumn
    Advertised = {1}
    MaxHeaders = 1
    MaxRounds = 2
SPECIFICATION Spec
INVARIANTS AckedIsEnded
\* When every job is acknowledged the workers only poll, which is stuttering.
CHECK_DEADLOCK FALSE
