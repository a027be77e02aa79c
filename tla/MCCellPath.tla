----------------------------- MODULE MCCellPath -----------------------------
(* A small instance of CellPath. Groups: a classical one, which the Go adapter *)
(* has under two names, a post-quantum one, two that clients prefer by        *)
(* themselves and one that no stack has. Signature algorithms: one that the   *)
(* adapters advertise and one that they do not. The requests select up to two *)
(* of each, once or twice, with and without spaces, in either order, with     *)
(* blanks, and with a name that is not in the catalogue of groups.            *)
EXTENDS CellPath

CONSTANTS p256, x25519, mlkem768, hybrid, frodo, ed25519, mldsa65

\* Nobody asks for x25519, which wolfSSL prefers.
Asked == Group \ {x25519}
MCRequests == {<< >>} \cup [1 .. 1 -> Asked]
              \cup {r \in [1 .. 2 -> Asked] : r[1] # r[2]}
MCDefault == [b \in Backend |-> IF b = "wolfssl" THEN {p256, x25519} ELSE {hybrid}]

MCName == Group \cup {ed25519, mldsa65}
MCSeedFile == <<<<"kem_group", p256>>, <<"sig_alg", ed25519>>, <<"sig_alg", mldsa65>>,
                <<"kem_group", frodo>>, <<"kem_group", mlkem768>>>>

N(n) == <<n, FALSE>>
Padded(n) == <<n, TRUE>>
MCGroups == {<< >>, <<N(Blank)>>, <<Padded(Blank), N(p256)>>, <<N(frodo)>>, <<N(ed25519)>>,
             <<N(frodo), N(p256), Padded(frodo)>>, <<N(p256), N(mlkem768)>>}
MCSigAlgs == {<<N(ed25519)>>, <<N(mldsa65), N(ed25519)>>, <<Padded(Blank)>>}
MCPosts == [target_ok : {TRUE}, plugin : Plugin \ {"bo"}, groups : MCGroups, sig_algs : MCSigAlgs]
           \cup {[target_ok |-> FALSE, plugin |-> "bo", groups |-> <<N(p256)>>, sig_algs |-> <<N(ed25519)>>],
                 [target_ok |-> TRUE, plugin |-> "bo", groups |-> <<N(p256), N(mlkem768), N(frodo)>>,
                  sig_algs |-> <<N(mldsa65), N(ed25519)>>]}

MCCliList == [b \in Backend \ {"go"} |-> IF b = "wolfssl" THEN {mlkem768} ELSE {p256, mlkem768, hybrid}]
MCSigList == [b \in Backend |-> {ed25519}]

=============================================================================
