--------------------------- MODULE MCCavpSession ---------------------------
(* A small instance of CavpSession: a pack of two keyGen cases, seeded again  *)
(* with other vectors and then as a pack of sigVer cases; files of up to two  *)
(* tests, for any of the packs or for none.                                   *)
EXTENDS CavpSession

CONSTANTS a, b

KeyGen(x, y) == <<[tc_id |-> 1, want |-> [pk |-> x, sk |-> y]],
                  [tc_id |-> 2, want |-> [pk |-> y, sk |-> x]]>>
SigVer == <<[tc_id |-> 1, want |-> [testPassed |-> "true"]],
            [tc_id |-> 2, want |-> [testPassed |-> "false"]]>>

MCSeeds == <<[vs_id |-> 21, mode |-> "keyGen", parameter_set |-> "ML-DSA-65", cases |-> KeyGen(a, b)],
             [vs_id |-> 22, mode |-> "keyGen", parameter_set |-> "ML-DSA-65", cases |-> KeyGen(b, a)],
             [vs_id |-> 23, mode |-> "sigVer", parameter_set |-> "ML-DSA-65", cases |-> SigVer]>>

KeyTests == [tc_id : {1, 2}, given : [{"pk", "sk"} -> {a, b, "bad_length"}]]
Answers == {t \in KeyTests : t.given.pk # t.given.sk}
SigTests == [tc_id : {1, 2, Absent}, given : [{"testPassed"} -> Truth]]
File(V, M, T) == [vs_id : V, mode : M, tests : T]
MCFiles ==
    File({21, 22, 23}, {"keyGen"}, {<< >>, Absent} \cup [1 .. 1 -> KeyTests])
    \cup File({21, 22}, {"keyGen", Absent}, [1 .. 2 -> Answers])
    \cup File({Absent, 23}, {Absent, "sigVer"}, [1 .. 1 -> KeyTests \cup SigTests])
    \cup File({23}, {"sigVer"}, [1 .. 2 -> SigTests])

=============================================================================
