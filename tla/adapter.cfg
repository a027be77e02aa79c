\* A test of up to four cells and the probe of any of them, or any probe of a KEM run
\* with up to two groups: every backend, a server that may do anything at any time;
\* the outer timeout is one unit longer than that of the request.
CONSTANTS
    p256 = p256
    x25519 = x25519
    mlkem768 = mlkem768
    hybrid = hybrid
    frodo = frodo
    ed25519 = ed25519
    mldsa65 = mldsa65
    None = None
    Blank = Blank
    NoJob = NoJob
    KemProbe = KemProbe
    Group = {p256, x25519, mlkem768, hybrid, frodo}
    Classical = {p256, x25519}
    Known = {p256, x25519, mlkem768, hybrid}
    Default <- MCDefault
    DH = DH
    Requests <- MCRequests
    Timeout = 2
    Outer = 3
    Name <- MCName
    SeedFile <- MCSeedFile
    Posts <- MCPosts
    MaxSubtasks = 4
    DefaultAdapter = "openssl"
    MaxSeedings = 1
    CliList <- MCCliList
    Aliased = {p256}
    SigList <- MCSigList
SPECIFICATION CFairSpec
INVARIANTS NoFalseGreen PinnedGroup RedOnlyByTimeout OuterBoundForWedged GreenCell MatrixAsSelected
PROPERTIES EveryProbeAnswers
\* A probe ends.
CHECK_DEADLOCK FALSE
