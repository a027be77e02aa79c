---------------------------- MODULE CavpSession ----------------------------
(***************************************************************************)
(* The CAVP practice station: a page shows a question pack, the student    *)
(* submits a results file, the API opens a session and grades the file     *)
(* against the answer key (cavp-workbench.tsx, lib/cavp.ts, routes/cavp.rs, *)
(* crates/cavp-validate), while the packs may be seeded again (seed.rs).   *)
(*                                                                         *)
(* A file is what its JSON holds: vs_id and mode, if given, and the tests  *)
(* of all its groups in one sequence. A test has a tc_id, if given, and a  *)
(* value for some fields: a hex string of the length the parameter set     *)
(* prescribes (spaces around it and case do not matter), a truth value, or *)
(* one of Garbage.                                                         *)
(***************************************************************************)
EXTENDS Integers, Sequences

CONSTANTS
    Seeds,  \* the pack in the seed files of each deployment, in their order
    Hex,    \* hex strings of the right length
    Files,  \* what a student may submit
    Absent  \* what a file leaves out, or an array that is not there

Garbage == {"blank", "not_hex", "bad_length"}
Truth == {"true", "false"}

\* The fields that a mode is graded on, in their order.
Fields == [keyGen |-> <<"pk", "sk">>, sigGen |-> <<"signature">>, sigVer |-> <<"testPassed">>]
ParameterSets == {"ML-DSA-44", "ML-DSA-65", "ML-DSA-87"}

\* A value of the right form for a field.
WellFormed(f) == IF f = "testPassed" THEN Truth ELSE Hex

ASSUME SeedsAssumption ==
    /\ Seeds \in Seq([vs_id : Int, mode : STRING, parameter_set : STRING, cases : Seq(
                        [tc_id : Int, want : UNION {[F -> Hex \cup Truth] :
                           F \in SUBSET {"pk", "sk", "signature", "testPassed"}}])])
    /\ Seeds # << >>
    /\ Absent \notin Int \cup Hex \cup Truth
    /\ Hex \cap Garbage = {}

\* Packs as tools/gen-cavp-vectors.mjs writes them: the prompt asks for the
\* cases of the key, which are numbered and have what the mode is graded on.
ASSUME PacksAssumption ==
    \A v \in DOMAIN Seeds : \A n \in DOMAIN Seeds[v].cases :
        LET want == Seeds[v].cases[n].want
        IN /\ \A k \in DOMAIN Seeds[v].cases :
                 Seeds[v].cases[k].tc_id = Seeds[v].cases[n].tc_id => k = n
           /\ \A f \in DOMAIN want : want[f] \in WellFormed(f)
           /\ Seeds[v].mode \in DOMAIN Fields =>
                 \A i \in DOMAIN Fields[Seeds[v].mode] : Fields[Seeds[v].mode][i] \in DOMAIN want

IsSequence(s) == s \in Seq({s[i] : i \in DOMAIN s})

ASSUME FilesAssumption == \A file \in Files : file.tests = Absent \/ IsSequence(file.tests)

VARIABLES
    pack,     \* the deployment whose seed the row of the pack is from
    cache,    \* the one that the web server has in its cache
    loaded,   \* the one that the page was rendered from, 0 for no page
    at,       \* the next call of the page's validate()
    sent,     \* the file that is being submitted
    fetched,  \* the version that create_session has read
    session,  \* the row of the session of the last click; earlier ones stay as they are
    key,      \* the version of the answer key that was read
    report    \* the version that the report on the page is about, 0 for no report

request == <<at, sent, fetched, key>>
vars == <<pack, cache, loaded, request, session, report>>

None == [version |-> 0, cases |-> << >>]
NoSession == [version |-> 0, page |-> 0, submitted |-> Absent, validation |-> None]

Init ==
    /\ pack = 1
    /\ cache = 1
    /\ loaded = 0
    /\ at = "idle"
    /\ sent = Absent
    /\ fetched = 0
    /\ key = 0
    /\ session = NoSession
    /\ report = 0

-----------------------------------------------------------------------------
(***************************************************************************)
(* Grading                                                                 *)
(***************************************************************************)

Least(S) == CHOOSE n \in S : \A m \in S : n <= m

\* Tests without a number are skipped.
collect_cases(file) == {i \in DOMAIN file.tests : file.tests[i].tc_id # Absent}

Given(test, f) == IF f \in DOMAIN test.given THEN test.given[f] ELSE Absent

\* check_hex, and its counterpart for testPassed.
check_field(want, test, f) ==
    LET got == Given(test, f) IN
    IF got \notin WellFormed(f) THEN "malformed" ELSE IF got = want THEN "correct" ELSE "incorrect"

\* Defect: the fields are graded one by one and the last complaint is kept.
compare_case_last(expected, test, mode) ==
    LET f == Fields[mode]
        bad == {i \in DOMAIN f : /\ f[i] \in DOMAIN expected.want
                                /\ check_field(expected.want[f[i]], test, f[i]) # "correct"}
        last == CHOOSE n \in bad : \A m \in bad : m <= n
    IN IF bad = {} THEN "correct" ELSE check_field(expected.want[f[last]], test, f[last])

\* The first field that is not right decides; fields that the key does not
\* have are not graded.
compare_case(expected, test, mode) ==
    IF mode \notin DOMAIN Fields THEN "malformed"
    ELSE LET f == Fields[mode]
             bad == {i \in DOMAIN f : /\ f[i] \in DOMAIN expected.want
                                     /\ check_field(expected.want[f[i]], test, f[i]) # "correct"}
         IN IF bad = {} THEN "correct"
            ELSE check_field(expected.want[f[Least(bad)]], test, f[Least(bad)])

\* Defect: the set of vectors the file is for is not looked at.
AcceptsAnyVsId(file, p) ==
    /\ p.parameter_set \in ParameterSets
    /\ file.mode \in {Absent, p.mode}
    /\ file.tests # Absent

\* The structural checks that reject a file as a whole.
Accepts(file, p) ==
    /\ p.parameter_set \in ParameterSets
    /\ file.mode \in {Absent, p.mode}
    /\ file.vs_id \in {Absent, p.vs_id}
    /\ file.tests # Absent

\* Every case of the key is graded on the first test with its number.
validate(file, v) ==
    LET Entries(c) == {i \in collect_cases(file) : file.tests[i].tc_id = c.tc_id}
        Status(c) == IF Entries(c) = {} THEN "missing"
                     ELSE compare_case(c, file.tests[Least(Entries(c))], Seeds[v].mode)
    IN [version |-> v,
        cases |-> [n \in DOMAIN Seeds[v].cases |-> Status(Seeds[v].cases[n])]]

-----------------------------------------------------------------------------
(***************************************************************************)
(* The packs                                                               *)
(***************************************************************************)

\* The next deployment is seeded: an upsert by slug, which keeps the id that
\* sessions refer to. Seeding the same file again changes nothing.
seed ==
    /\ pack < Len(Seeds)
    /\ pack' = pack + 1
    /\ UNCHANGED <<cache, loaded, request, session, report>>

\* The web server's copy of the pack is renewed (revalidate: 60).
revalidate ==
    /\ cache' = pack
    /\ UNCHANGED <<pack, loaded, request, session, report>>

-----------------------------------------------------------------------------
(***************************************************************************)
(* The page                                                                *)
(***************************************************************************)

load_page ==
    /\ at = "idle"
    /\ loaded' = cache
    /\ report' = 0
    /\ UNCHANGED <<pack, cache, request, session>>

\* The answer to case 1 is handed out with the prompt.
example_answer(p, n) == p.cases[n].tc_id = 1

\* The file that the page starts from: the example is filled in.
buildResultsSkeleton(v) ==
    LET p == Seeds[v]
        Blank(f) == IF f = "testPassed" THEN Absent ELSE "blank"
        Graded == {Fields[p.mode][i] : i \in DOMAIN Fields[p.mode]}
    IN [vs_id |-> p.vs_id, mode |-> p.mode,
        tests |-> [n \in DOMAIN p.cases |->
                     [tc_id |-> p.cases[n].tc_id,
                      given |-> IF example_answer(p, n) THEN p.cases[n].want
                                ELSE [f \in Graded |-> Blank(f)]]]]

\* The button is disabled while a submission is under way. What the student
\* types later is not part of it.
click(file) ==
    /\ loaded # 0
    /\ at = "idle"
    /\ sent' = file
    /\ session' = NoSession
    /\ at' = "fetch"
    /\ UNCHANGED <<pack, cache, loaded, fetched, key, report>>

\* create_session: two SELECTs (by slug), then the INSERT.
fetch_pack ==
    /\ at = "fetch"
    /\ fetched' = pack
    /\ at' = "insert"
    /\ UNCHANGED <<pack, cache, loaded, sent, key, session, report>>

create_session ==
    /\ at = "insert"
    /\ session' = [version |-> fetched, page |-> loaded, submitted |-> Absent,
                   validation |-> None]
    /\ at' = "key"
    /\ UNCHANGED <<pack, cache, loaded, sent, fetched, key, report>>

\* validate_session: the answer key of the pack as it is now.
fetch_key ==
    /\ at = "key"
    /\ key' = pack
    /\ at' = "grade"
    /\ UNCHANGED <<pack, cache, loaded, sent, fetched, session, report>>

\* The locals of the page's and of the API's handlers end with them.
Returns == at' = "idle" /\ sent' = Absent /\ fetched' = 0 /\ key' = 0

\* The file is graded, the row updated and the report returned, unless the
\* answer is lost.
validate_session ==
    /\ at = "grade"
    /\ Accepts(sent, Seeds[key])
    /\ session' = [version |-> session.version, page |-> session.page,
                   submitted |-> sent, validation |-> validate(sent, key)]
    /\ report' \in {key, report}
    /\ Returns
    /\ UNCHANGED <<pack, cache, loaded>>

\* 400: the row stays as it is, and so does the report of an earlier file.
reject ==
    /\ at = "grade"
    /\ ~Accepts(sent, Seeds[key])
    /\ Returns
    /\ UNCHANGED <<pack, cache, loaded, session, report>>

\* A call to the API or to the database fails: validate() ends in its catch.
\* A session that was inserted stays without a grade.
call_fails ==
    /\ at # "idle"
    /\ Returns
    /\ UNCHANGED <<pack, cache, loaded, session, report>>

Next ==
    \/ seed
    \/ revalidate
    \/ load_page
    \/ loaded # 0 /\ click(buildResultsSkeleton(loaded))
    \/ \E file \in Files : click(file)
    \/ fetch_pack
    \/ create_session
    \/ fetch_key
    \/ validate_session
    \/ reject
    \/ call_fails

Spec == Init /\ [][Next]_vars

-----------------------------------------------------------------------------
(***************************************************************************)
(* Properties                                                              *)
(***************************************************************************)

Version == 0 .. Len(Seeds)

TypeOK ==
    /\ pack \in Version \ {0}
    /\ cache \in Version \ {0}
    /\ loaded \in Version
    /\ at \in {"idle", "fetch", "insert", "key", "grade"}
    /\ fetched \in Version
    /\ key \in Version
    /\ session.version \in Version
    /\ session.page \in Version
    /\ session.validation.version \in Version
    /\ report \in Version

DistinctIds ==
    \A v, w \in DOMAIN Seeds : Seeds[v].vs_id = Seeds[w].vs_id => v = w

Graded == session.validation.version # 0

\* While no two deployments use one vsId for different packs, a file that says
\* which vectors it is for is graded against the pack that its page showed,
\* which is also the one in the session, however the seeding falls between
\* rendering, creating the session and reading the key.
GradedOnOwnPack ==
    (Graded /\ DistinctIds /\ session.submitted.vs_id = Seeds[session.page].vs_id) =>
        /\ session.validation.version = session.page
        /\ session.validation.version = session.version

\* What GradedOnOwnPack rests on: versions only grow along a submission.
VersionsGrow ==
    /\ cache <= pack
    /\ loaded <= cache
    /\ at # "idle" => loaded # 0
    /\ at = "insert" => loaded <= fetched /\ fetched <= pack
    /\ at \in {"key", "grade"} =>
          /\ session.page = loaded
          /\ loaded <= session.version
          /\ session.version <= pack
    /\ at = "grade" => session.version <= key /\ key <= pack

\* No number is given to two tests of the file. The grading does not insist on it
\* and takes the first test with a number.
DistinctNumbers(tests) ==
    \A i, k \in DOMAIN tests : (tests[i].tc_id = tests[k].tc_id /\ tests[i].tc_id # Absent) => i = k

\* The grade of a file with at most one test per number is right: a case counts as
\* correct exactly when the test with its number gives every value the key wants,
\* as missing exactly when there is none, and as incorrect exactly when the first
\* wrong value is well formed.
GradeIsRight ==
    LET p == Seeds[session.validation.version]
        tests == session.submitted.tests
        Right(c, i, f) == f \in DOMAIN c.want => Given(tests[i], f) = c.want[f]
        order == Fields[p.mode]
    IN (Graded /\ p.mode \in DOMAIN Fields /\ DistinctNumbers(tests)) => \A n \in DOMAIN p.cases :
        LET c == p.cases[n]
            status == session.validation.cases[n]
        IN /\ status = "missing" <=> \A i \in DOMAIN tests : tests[i].tc_id # c.tc_id
           /\ \A i \in DOMAIN tests : tests[i].tc_id = c.tc_id =>
                 /\ status = "correct" <=> \A m \in DOMAIN order : Right(c, i, order[m])
                 /\ status = "incorrect" <=>
                       \E m \in DOMAIN order :
                          /\ ~Right(c, i, order[m])
                          /\ Given(tests[i], order[m]) \in WellFormed(order[m])
                          /\ \A k \in 1 .. m - 1 : Right(c, i, order[k])

=============================================================================
