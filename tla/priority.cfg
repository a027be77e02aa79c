\* Every server preference over five groups and every selection; aliases, failing
\* handshakes and answers that were not offered.
CONSTANTS
    x25519 = x25519
    secp256r1 = secp256r1
    prime256v1 = prime256v1
    mlkem512 = mlkem512
    mlkem768 = mlkem768
    mlkem1024 = mlkem1024
    Group = {x25519, secp256r1, mlkem512, mlkem768, mlkem1024}
    Name = {x25519, secp256r1, prime256v1, mlkem512, mlkem768, mlkem1024}
    Reported <- OpensslNames
    pq_level <- MCLevel
    Unstable = TRUE
    Rogue = TRUE
SPECIFICATION FairSpec
INVARIANTS RecoversPreference FindingsRight
PROPERTIES Terminates
\* A run ends.
CHECK_DEADLOCK FALSE
