\* A page that posts a library run and a priority run, one after the other, and may
\* lose one reply or connection; one worker that may crash or be shut down once and
\* is started again.
CONSTANTS
    lib = lib
    grp = grp
    pri = pri
    openssl = openssl
    nss = nss
    Job = {lib, pri}
    StreamOf <- MCStreamOf
    Worker = {w1}
    Nobody = Nobody
    Concurrency = 1
    ReadCount = 2
    MaxDeliveries = 2
    MaxHalts = 1
    MaxFaults = 0
    Overrun = FALSE
    GroupAtStart = TRUE
    ModeOf <- MCModeOf
    Adapter = {openssl, nss}
    Configured = {openssl}
    Column <- MCColumn
    Advertised = {1}
    MaxHeaders = 1
    MaxRounds = 0
    MaxCuts = 1
SPECIFICATION LFairSpec
INVARIANTS OneVerdict ShownIsStored DoneShowsAll
PROPERTIES EveryRunEnds PageStops
\* When every job is acknowledged the workers only poll, which is stuttering.
CHECK_DEADLOCK FALSE
