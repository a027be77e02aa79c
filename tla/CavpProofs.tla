---------------------------- MODULE CavpProofs -----------------------------
(***************************************************************************)
(* Proofs about CavpSession, for every sequence of seeds and every set of  *)
(* files.                                                                  *)
(***************************************************************************)
EXTENDS CavpSession, WellFoundedInduction, TLAPS

\* The versions of the pack are the numbers of the deployments.
LEMMA VersionType == /\ Len(Seeds) \in Nat \ {0}
                     /\ Version \subseteq Nat
                     /\ DOMAIN Seeds = Version \ {0}
<1>1. PICK S : Seeds \in Seq(S) /\ Seeds # << >>
  BY SeedsAssumption
<1>2. Len(Seeds) \in Nat /\ DOMAIN Seeds = 1 .. Len(Seeds) /\ Len(Seeds) # 0
  BY <1>1
<1>3. QED BY <1>2 DEF Version

\* Every version of the pack has an integer for its vsId.
LEMMA VsIdType == ASSUME NEW v \in DOMAIN Seeds PROVE Seeds[v].vs_id \in Int
<1> DEFINE Cases == Seq([tc_id : Int, want : UNION {[F -> Hex \cup Truth] :
                           F \in SUBSET {"pk", "sk", "signature", "testPassed"}}])
           Pack == [vs_id : Int, mode : STRING, parameter_set : STRING, cases : Cases]
<1>1. Seeds \in Seq(Pack)
  BY SeedsAssumption
<1> HIDE DEF Cases, Pack
<1>2. Seeds[v] \in Pack
  BY <1>1
<1>3. QED BY <1>2 DEF Pack

-----------------------------------------------------------------------------
(***************************************************************************)
(* Versions only grow along a submission.                                  *)
(***************************************************************************)

\* Each step keeps the types and the order of the versions.
LEMMA VersionsStep ==
    ASSUME TypeOK, VersionsGrow, [Next]_vars
    PROVE  TypeOK' /\ VersionsGrow'
<1> USE VersionType
<1>1. CASE seed
  BY <1>1 DEF seed, TypeOK, VersionsGrow, Version, request
<1>2. CASE revalidate
  BY <1>2 DEF revalidate, TypeOK, VersionsGrow, Version, request
<1>3. CASE load_page
  BY <1>3 DEF load_page, TypeOK, VersionsGrow, Version, request
<1>4. ASSUME NEW file, click(file) PROVE TypeOK' /\ VersionsGrow'
  BY <1>4 DEF click, TypeOK, VersionsGrow, Version, NoSession, None
<1>5. CASE fetch_pack
  BY <1>5 DEF fetch_pack, TypeOK, VersionsGrow, Version
<1>6. CASE create_session
  BY <1>6 DEF create_session, TypeOK, VersionsGrow, Version, None
<1>7. CASE fetch_key
  BY <1>7 DEF fetch_key, TypeOK, VersionsGrow, Version
<1>8. CASE validate_session
  <2>1. validate(sent, key).version = key
    BY DEF validate
  <2>2. /\ session'.version = session.version
        /\ session'.page = session.page
        /\ session'.validation.version = key
    BY <1>8, <2>1 DEF validate_session
  <2>3. QED BY <1>8, <2>2 DEF validate_session, Returns, TypeOK, VersionsGrow, Version
<1>9. CASE reject \/ call_fails
  BY <1>9 DEF reject, call_fails, Returns, TypeOK, VersionsGrow, Version
<1>10. CASE UNCHANGED vars
  BY <1>10 DEF vars, request, TypeOK, VersionsGrow
<1>11. QED
  BY <1>1, <1>2, <1>3, <1>4, <1>5, <1>6, <1>7, <1>8, <1>9, <1>10 DEF Next

\* The first page is rendered from the first seed.
LEMMA VersionsInit == Init => TypeOK /\ VersionsGrow
BY VersionType DEF Init, TypeOK, VersionsGrow, Version, NoSession, None

\* Every reachable state is well typed.
THEOREM TypeCorrect == Spec => []TypeOK
<1>1. TypeOK /\ VersionsGrow /\ [Next]_vars => (TypeOK /\ VersionsGrow)'
  BY VersionsStep
<1>2. QED BY VersionsInit, <1>1, PTL DEF Spec

-----------------------------------------------------------------------------
(***************************************************************************)
(* A file is graded on the pack that it was written for.                   *)
(***************************************************************************)

\* The only step that grades: the vsId of the file is that of the key, so the
\* key is that of the page, and with it every version in between.
LEMMA GradeStep ==
    ASSUME TypeOK, VersionsGrow, validate_session
    PROVE  GradedOnOwnPack'
<1> SUFFICES ASSUME DistinctIds, sent.vs_id = Seeds[session.page].vs_id
             PROVE  key = session.page /\ key = session.version
  <2>1. validate(sent, key).version = key
    BY DEF validate
  <2>2. /\ session'.version = session.version
        /\ session'.page = session.page
        /\ session'.submitted = sent
        /\ session'.validation.version = key
    BY <2>1 DEF validate_session
  <2>3. DistinctIds' <=> DistinctIds
    BY DEF DistinctIds
  <2>4. QED BY <2>2, <2>3 DEF GradedOnOwnPack
<1>1. /\ session.page = loaded
      /\ loaded \in Nat \ {0}
      /\ loaded <= session.version
      /\ session.version <= key
      /\ key <= pack
      /\ session.version \in Nat
      /\ key \in Nat
      /\ pack \in Version
  BY VersionType DEF validate_session, VersionsGrow, TypeOK
<1>2. session.page \in DOMAIN Seeds /\ key \in DOMAIN Seeds
  BY <1>1, VersionType DEF Version
<1>3. sent.vs_id \in {Absent, Seeds[key].vs_id}
  BY DEF validate_session, Accepts
<1>4. sent.vs_id # Absent
  BY <1>2, VsIdType, SeedsAssumption
<1>5. key = session.page
  BY <1>2, <1>3, <1>4 DEF DistinctIds
<1>6. QED BY <1>1, <1>5

\* A file that names the vectors of its page is graded against them, whatever
\* is seeded while it is under way.
THEOREM GradedOnOwnPackCorrect == Spec => []GradedOnOwnPack
<1>1. Init => GradedOnOwnPack
  BY DEF Init, GradedOnOwnPack, Graded, NoSession, None
<1>2. TypeOK /\ VersionsGrow /\ GradedOnOwnPack /\ [Next]_vars => GradedOnOwnPack'
  <2> SUFFICES ASSUME TypeOK, VersionsGrow, GradedOnOwnPack, [Next]_vars
               PROVE  GradedOnOwnPack'
    OBVIOUS
  <2>1. ASSUME session' = session PROVE GradedOnOwnPack'
    BY <2>1 DEF GradedOnOwnPack, Graded, DistinctIds
  <2>2. ASSUME session'.validation.version = 0 PROVE GradedOnOwnPack'
    BY <2>2 DEF GradedOnOwnPack, Graded
  <2>3. ASSUME NEW file, click(file) PROVE session'.validation.version = 0
    BY <2>3 DEF click, NoSession, None
  <2>4. CASE create_session
    BY <2>2, <2>4 DEF create_session, None
  <2>5. ASSUME seed \/ revalidate \/ load_page \/ fetch_pack \/ fetch_key \/ reject
               \/ call_fails \/ UNCHANGED vars
        PROVE  session' = session
    BY <2>5 DEF seed, revalidate, load_page, fetch_pack, fetch_key, reject, call_fails, vars
  <2>6. QED BY <2>1, <2>2, <2>3, <2>4, <2>5, GradeStep DEF Next
<1>3. TypeOK /\ VersionsGrow /\ [Next]_vars => (TypeOK /\ VersionsGrow)'
  BY VersionsStep
<1>4. QED BY VersionsInit, <1>1, <1>2, <1>3, PTL DEF Spec

-----------------------------------------------------------------------------
(***************************************************************************)
(* The grade is right.                                                     *)
(***************************************************************************)

Less == {p \in Nat \X Nat : p[1] < p[2]}

\* Least finds the least number of a set that is not empty.
LEMMA LeastMember ==
    ASSUME NEW S, S \subseteq Nat, S # {}
    PROVE  Least(S) \in S /\ \A m \in S : Least(S) <= m
<1>1. OpToRel(<, Nat) = Less
  BY Zenon DEF OpToRel, Less
<1>2. IsWellFoundedOn(Less, Nat)
  BY <1>1, NatLessThanWellFounded, Zenon
<1>3. PICK n \in S : \A m \in S : <<m, n>> \notin Less
  BY <1>2, WFMin
<1>4. ASSUME NEW m \in S PROVE n <= m
  <2>1. m \in Nat /\ n \in Nat
    OBVIOUS
  <2>2. m < n => <<m, n>> \in Less
    BY <2>1 DEF Less
  <2>3. QED BY <1>3, <2>1, <2>2
<1>5. \E l \in S : \A m \in S : l <= m
  BY <1>4
<1>6. QED BY <1>5, Zenon DEF Least

\* A test has the value that the key wants for a field, if it wants one.
Right(c, test, f) == f \in DOMAIN c.want => Given(test, f) = c.want[f]

\* The fields that a mode is graded on are numbered.
LEMMA FieldsType == ASSUME NEW mode \in DOMAIN Fields PROVE DOMAIN Fields[mode] \subseteq Nat \ {0}
<1>1. DOMAIN <<"pk", "sk">> \subseteq Nat \ {0}
  OBVIOUS
<1>2. DOMAIN <<"signature">> \subseteq Nat \ {0} /\ DOMAIN <<"testPassed">> \subseteq Nat \ {0}
  OBVIOUS
<1>3. mode \in {"keyGen", "sigGen", "sigVer"}
  BY DEF Fields
<1>4. CASE mode = "keyGen"
  BY <1>1, <1>4 DEF Fields
<1>5. CASE mode = "sigGen"
  BY <1>2, <1>5 DEF Fields
<1>6. CASE mode = "sigVer"
  BY <1>2, <1>6 DEF Fields
<1>7. QED BY <1>3, <1>4, <1>5, <1>6

\* check_field accepts exactly the value that is wanted.
LEMMA CheckField ==
    ASSUME NEW c, NEW test, NEW f \in DOMAIN c.want, c.want[f] \in WellFormed(f)
    PROVE  /\ check_field(c.want[f], test, f) = "correct" <=> Right(c, test, f)
           /\ check_field(c.want[f], test, f) = "incorrect" <=>
                 (~Right(c, test, f) /\ Given(test, f) \in WellFormed(f))
BY DEF check_field, Right

\* compare_case: correct means that every value that the key wants is there, and
\* incorrect that the first one that is wrong has the right form.
LEMMA CompareCase ==
    ASSUME NEW c, NEW test, NEW mode \in DOMAIN Fields,
           \A f \in DOMAIN c.want : c.want[f] \in WellFormed(f)
    PROVE  /\ compare_case(c, test, mode) \in {"correct", "incorrect", "malformed"}
           /\ compare_case(c, test, mode) = "correct" <=>
                 \A m \in DOMAIN Fields[mode] : Right(c, test, Fields[mode][m])
           /\ compare_case(c, test, mode) = "incorrect" <=>
                 \E m \in DOMAIN Fields[mode] :
                    /\ ~Right(c, test, Fields[mode][m])
                    /\ Given(test, Fields[mode][m]) \in WellFormed(Fields[mode][m])
                    /\ \A k \in 1 .. m - 1 : Right(c, test, Fields[mode][k])
<1> DEFINE f == Fields[mode]
           bad == {i \in DOMAIN f : /\ f[i] \in DOMAIN c.want
                                   /\ check_field(c.want[f[i]], test, f[i]) # "correct"}
           l == Least(bad)
<1>1. compare_case(c, test, mode) =
        IF bad = {} THEN "correct" ELSE check_field(c.want[f[l]], test, f[l])
  BY DEF compare_case
<1>2. DOMAIN f \subseteq Nat \ {0} /\ \E n \in Nat : DOMAIN f = 1 .. n
  <2>1. mode \in {"keyGen", "sigGen", "sigVer"}
    BY DEF Fields
  <2>2. f \in {<<"pk", "sk">>, <<"signature">>, <<"testPassed">>}
    BY <2>1 DEF Fields
  <2>3. DOMAIN f \in {1 .. 2, 1 .. 1}
    BY <2>2
  <2>4. QED BY <2>3, FieldsType
<1> HIDE DEF f
<1>3. ASSUME NEW i \in DOMAIN f PROVE i \in bad <=> ~Right(c, test, f[i])
  <2>1. CASE f[i] \in DOMAIN c.want
    BY <2>1, CheckField
  <2>2. CASE f[i] \notin DOMAIN c.want
    BY <2>2 DEF Right
  <2>3. QED BY <2>1, <2>2
<1>4. bad \subseteq DOMAIN f
  OBVIOUS
<1>5. ASSUME bad # {}
      PROVE  /\ l \in bad
             /\ \A m \in bad : l <= m
  BY <1>2, <1>4, <1>5, LeastMember
<1>6. ASSUME bad # {}
      PROVE  /\ check_field(c.want[f[l]], test, f[l]) = "incorrect" <=>
                   Given(test, f[l]) \in WellFormed(f[l])
             /\ check_field(c.want[f[l]], test, f[l]) \in {"incorrect", "malformed"}
  <2>1. l \in DOMAIN f /\ f[l] \in DOMAIN c.want /\ ~Right(c, test, f[l])
    BY <1>3, <1>5, <1>6
  <2>2. check_field(c.want[f[l]], test, f[l]) \in {"correct", "incorrect", "malformed"}
    BY DEF check_field
  <2>3. QED BY <2>1, <2>2, CheckField
<1> HIDE DEF bad, l
<1>7. CASE bad = {}
  BY <1>1, <1>3, <1>7 DEF f
<1>8. CASE bad # {}
  <2>1. l \in DOMAIN f /\ ~Right(c, test, f[l])
    BY <1>3, <1>4, <1>5, <1>8
  <2>2. \A k \in 1 .. l - 1 : Right(c, test, f[k])
    <3>1. ASSUME NEW k \in 1 .. l - 1 PROVE k \in DOMAIN f /\ k \notin bad
      BY <1>2, <1>5, <1>8, <2>1
    <3>2. QED BY <1>3, <3>1
  <2>3. ASSUME NEW m \in DOMAIN f, ~Right(c, test, f[m]), \A k \in 1 .. m - 1 : Right(c, test, f[k])
        PROVE  m = l
    <3>1. m \in bad /\ l <= m
      BY <1>3, <1>5, <1>8, <2>3
    <3>2. l \notin 1 .. m - 1
      BY <2>1, <2>3
    <3>3. QED BY <1>2, <2>1, <3>1, <3>2
  <2>4. QED BY <1>1, <1>6, <1>8, <2>1, <2>2, <2>3 DEF f
<1>9. QED BY <1>7, <1>8

\* The cases of a pack are numbered, and have a number each.
LEMMA CasesType ==
    ASSUME NEW v \in DOMAIN Seeds
    PROVE  /\ IsSequence(Seeds[v].cases)
           /\ DOMAIN Seeds[v].cases \subseteq Nat
           /\ \A n \in DOMAIN Seeds[v].cases : Seeds[v].cases[n].tc_id \in Int
<1> DEFINE Wants == UNION {[F -> Hex \cup Truth] :
                             F \in SUBSET {"pk", "sk", "signature", "testPassed"}}
           Case == [tc_id : Int, want : Wants]
           Pack == [vs_id : Int, mode : STRING, parameter_set : STRING, cases : Seq(Case)]
<1>1. Seeds \in Seq(Pack)
  BY SeedsAssumption
<1> HIDE DEF Pack
<1>2. Seeds[v] \in Pack
  BY <1>1
<1> HIDE DEF Case
<1>3. Seeds[v].cases \in Seq(Case)
  BY <1>2 DEF Pack
<1>4. ASSUME NEW cases \in Seq(Case)
      PROVE  /\ IsSequence(cases)
             /\ DOMAIN cases \subseteq Nat
             /\ \A n \in DOMAIN cases : cases[n] \in Case
  BY <1>4 DEF IsSequence
<1> HIDE DEF Wants
<1>5. \A c \in Case : c.tc_id \in Int
  BY DEF Case
<1>6. QED BY <1>3, <1>4, <1>5

\* What a session with a grade holds: the file, and its grade by the key.
GradeInv ==
    /\ at # "idle" => (sent.tests = Absent \/ IsSequence(sent.tests))
    /\ Graded => /\ session.validation.version \in DOMAIN Seeds
                 /\ IsSequence(session.submitted.tests)
                 /\ session.validation = validate(session.submitted, session.validation.version)

\* The page's own file is one, and so is any that a student submits.
LEMMA SkeletonIsFile ==
    ASSUME NEW v \in DOMAIN Seeds
    PROVE  IsSequence(buildResultsSkeleton(v).tests)
<1> DEFINE cases == Seeds[v].cases
           tests == buildResultsSkeleton(v).tests
<1>1. DOMAIN tests = DOMAIN cases
  BY DEF buildResultsSkeleton
<1>2. IsSequence(cases)
  BY CasesType
<1>3. tests = [i \in DOMAIN tests |-> tests[i]]
  BY DEF buildResultsSkeleton
<1> HIDE DEF tests, cases
<1>4. PICK n \in Nat : DOMAIN cases = 1 .. n
  BY <1>2 DEF IsSequence
<1> DEFINE T == {tests[i] : i \in DOMAIN tests}
<1>5. tests \in [1 .. n -> T]
  BY <1>1, <1>3, <1>4
<1> HIDE DEF T
<1>6. tests \in Seq(T)
  BY <1>4, <1>5
<1>7. IsSequence(tests)
  BY <1>6 DEF IsSequence, T
<1>8. QED BY <1>7 DEF tests

\* Only validate_session grades, and it keeps the file beside the grade.
LEMMA GradeInvStep ==
    ASSUME TypeOK, VersionsGrow, GradeInv, [Next]_vars
    PROVE  GradeInv'
<1>1. ASSUME session' = session, UNCHANGED <<at, sent>> \/ at' = "idle" PROVE GradeInv'
  BY <1>1 DEF GradeInv, Graded
<1>2. ASSUME session'.validation.version = 0,
             at' # "idle" => (sent'.tests = Absent \/ IsSequence(sent'.tests))
      PROVE  GradeInv'
  BY <1>2 DEF GradeInv, Graded
<1>3. CASE seed \/ revalidate \/ load_page \/ reject \/ call_fails \/ UNCHANGED vars
  BY <1>1, <1>3 DEF seed, revalidate, load_page, reject, call_fails, Returns, vars, request
<1>4. CASE loaded # 0 /\ click(buildResultsSkeleton(loaded))
  <2>1. loaded \in DOMAIN Seeds
    BY <1>4, VersionType DEF TypeOK
  <2>2. IsSequence(sent'.tests)
    BY <1>4, <2>1, SkeletonIsFile DEF click
  <2>3. QED BY <1>2, <1>4, <2>2 DEF click, NoSession, None
<1>5. ASSUME NEW file \in Files, click(file) PROVE GradeInv'
  BY <1>2, <1>5, FilesAssumption DEF click, NoSession, None
<1>6. CASE fetch_pack \/ fetch_key
  BY <1>6 DEF fetch_pack, fetch_key, GradeInv, Graded
<1>7. CASE create_session
  BY <1>2, <1>7 DEF create_session, None, GradeInv
<1>8. CASE validate_session
  <2>1. /\ session'.submitted = sent
        /\ session'.validation = validate(sent, key)
        /\ sent.tests # Absent
        /\ at' = "idle" /\ at = "grade"
    BY <1>8 DEF validate_session, Accepts, Returns
  <2>2. validate(sent, key).version = key
    BY DEF validate
  <2>3. key \in DOMAIN Seeds
    <3>1. loaded # 0 /\ loaded <= session.version /\ session.version <= key
      BY <2>1 DEF VersionsGrow
    <3>2. loaded \in Nat /\ session.version \in Nat /\ key \in Version /\ key \in Nat
      BY VersionType DEF TypeOK
    <3>3. QED BY <3>1, <3>2, VersionType
  <2>4. IsSequence(sent.tests)
    BY <2>1 DEF GradeInv
  <2>5. QED BY <2>1, <2>2, <2>3, <2>4 DEF GradeInv
<1>9. QED BY <1>3, <1>4, <1>5, <1>6, <1>7, <1>8 DEF Next

\* The case of the key is graded on the first test with its number.
LEMMA ValidateCase ==
    ASSUME NEW file, NEW v \in DOMAIN Seeds, IsSequence(file.tests),
           NEW n \in DOMAIN Seeds[v].cases
    PROVE  /\ (\A i \in DOMAIN file.tests : file.tests[i].tc_id # Seeds[v].cases[n].tc_id) =>
                 validate(file, v).cases[n] = "missing"
           /\ \A i \in DOMAIN file.tests :
                 (/\ file.tests[i].tc_id = Seeds[v].cases[n].tc_id
                  /\ \A k \in 1 .. i - 1 : file.tests[k].tc_id # file.tests[i].tc_id) =>
                     validate(file, v).cases[n] =
                        compare_case(Seeds[v].cases[n], file.tests[i], Seeds[v].mode)
           /\ (\E i \in DOMAIN file.tests : file.tests[i].tc_id = Seeds[v].cases[n].tc_id) =>
                 \E i \in DOMAIN file.tests :
                    /\ file.tests[i].tc_id = Seeds[v].cases[n].tc_id
                    /\ \A k \in 1 .. i - 1 : file.tests[k].tc_id # file.tests[i].tc_id
<1> DEFINE c == Seeds[v].cases[n]
           tests == file.tests
           Entries == {i \in collect_cases(file) : tests[i].tc_id = c.tc_id}
           Hits == {i \in DOMAIN tests : tests[i].tc_id = c.tc_id}
<1>1. c.tc_id # Absent
  BY CasesType, SeedsAssumption
<1>2. Entries = Hits
  BY <1>1 DEF collect_cases
<1>3. validate(file, v).cases[n] =
        IF Entries = {} THEN "missing" ELSE compare_case(c, tests[Least(Entries)], Seeds[v].mode)
  BY DEF validate
<1>4. PICK len \in Nat : DOMAIN tests = 1 .. len
  BY DEF IsSequence
<1> HIDE DEF Entries, c, tests
<1>5. ASSUME Hits # {}
      PROVE  Least(Hits) \in Hits /\ \A m \in Hits : Least(Hits) <= m
  <2>1. Hits \subseteq Nat
    BY <1>4
  <2>2. QED BY <1>5, <2>1, LeastMember
<1>6. ASSUME NEW i \in DOMAIN tests, tests[i].tc_id = c.tc_id,
             \A k \in 1 .. i - 1 : tests[k].tc_id # tests[i].tc_id
      PROVE  Hits # {} /\ Least(Hits) = i
  <2>1. i \in Hits
    BY <1>6
  <2>2. Least(Hits) \in Hits /\ Least(Hits) <= i
    BY <1>5, <2>1
  <2>3. Least(Hits) \notin 1 .. i - 1
    BY <1>6, <2>2
  <2> HIDE DEF Hits
  <2>4. QED BY <1>4, <2>1, <2>2, <2>3 DEF Hits
<1>7. ASSUME Hits # {}
      PROVE  \E i \in DOMAIN tests : /\ tests[i].tc_id = c.tc_id
                                     /\ \A k \in 1 .. i - 1 : tests[k].tc_id # tests[i].tc_id
  <2>1. PICK i \in Hits : \A m \in Hits : i <= m
    BY <1>5, <1>7
  <2>2. ASSUME NEW k \in 1 .. i - 1 PROVE tests[k].tc_id # tests[i].tc_id
    <3>1. k \in DOMAIN tests /\ ~(i <= k)
      BY <1>4, <2>1, <2>2
    <3>2. QED BY <2>1, <3>1
  <2>3. QED BY <2>1, <2>2
<1>8. QED BY <1>2, <1>3, <1>6, <1>7 DEF c, tests

\* The grade is that of the test with the number of the case, on every field that
\* the key wants, for every pack and every file that uses no number twice.
THEOREM GradeIsRightCorrect == Spec => []GradeIsRight
<1>1. Init => GradeInv
  BY DEF Init, GradeInv, Graded, NoSession, None
<1>2. TypeOK /\ VersionsGrow /\ GradeInv /\ [Next]_vars => (TypeOK /\ VersionsGrow /\ GradeInv)'
  BY VersionsStep, GradeInvStep
<1>3. GradeInv => GradeIsRight
  <2> DEFINE v == session.validation.version
             p == Seeds[v]
             file == session.submitted
             tests == file.tests
             order == Fields[p.mode]
  <2> SUFFICES ASSUME GradeInv, Graded, p.mode \in DOMAIN Fields, DistinctNumbers(tests),
                      NEW n \in DOMAIN p.cases
               PROVE  /\ session.validation.cases[n] = "missing" <=>
                            \A i \in DOMAIN tests : tests[i].tc_id # p.cases[n].tc_id
                      /\ \A i \in DOMAIN tests :
                           tests[i].tc_id = p.cases[n].tc_id =>
                              /\ session.validation.cases[n] = "correct" <=>
                                   \A m \in DOMAIN order : Right(p.cases[n], tests[i], order[m])
                              /\ session.validation.cases[n] = "incorrect" <=>
                                   \E m \in DOMAIN order :
                                      /\ ~Right(p.cases[n], tests[i], order[m])
                                      /\ Given(tests[i], order[m]) \in WellFormed(order[m])
                                      /\ \A k \in 1 .. m - 1 : Right(p.cases[n], tests[i], order[k])
    BY Zenon DEF GradeIsRight, Right
  <2>1. v \in DOMAIN Seeds /\ IsSequence(tests) /\ session.validation = validate(file, v)
    BY DEF GradeInv
  <2>2. \A f \in DOMAIN p.cases[n].want : p.cases[n].want[f] \in WellFormed(f)
    BY <2>1, PacksAssumption
  <2>3. ASSUME NEW i \in DOMAIN tests
        PROVE  /\ compare_case(p.cases[n], tests[i], p.mode) # "missing"
               /\ compare_case(p.cases[n], tests[i], p.mode) = "correct" <=>
                    \A m \in DOMAIN order : Right(p.cases[n], tests[i], order[m])
               /\ compare_case(p.cases[n], tests[i], p.mode) = "incorrect" <=>
                    \E m \in DOMAIN order :
                       /\ ~Right(p.cases[n], tests[i], order[m])
                       /\ Given(tests[i], order[m]) \in WellFormed(order[m])
                       /\ \A k \in 1 .. m - 1 : Right(p.cases[n], tests[i], order[k])
    BY <2>2, CompareCase
  <2>4. p.cases[n].tc_id # Absent
    BY <2>1, CasesType, SeedsAssumption
  <2> HIDE DEF v, p, order, file, tests
  <2>5. ASSUME NEW i \in DOMAIN tests, tests[i].tc_id = p.cases[n].tc_id
        PROVE  \A k \in 1 .. i - 1 : tests[k].tc_id # tests[i].tc_id
    <3>1. PICK len \in Nat : DOMAIN tests = 1 .. len
      BY <2>1 DEF IsSequence
    <3>2. QED BY <2>4, <2>5, <3>1 DEF DistinctNumbers
  <2>6. QED BY <2>1, <2>3, <2>5, ValidateCase DEF p, tests
<1>4. QED BY VersionsInit, <1>1, <1>2, <1>3, PTL DEF Spec

=============================================================================
