------------------------------- MODULE NewTest -------------------------------
(***************************************************************************)
(* The New Test form's request (routes/tests.rs) and the catalogue it is   *)
(* checked against, which the seeder (seed.rs) fills row by row.           *)
(*                                                                         *)
(* A name in a request is a pair: what is left of it after trimming, Blank *)
(* if nothing is, and whether there was anything to trim. Of a row of the  *)
(* catalogue only its key matters here: nothing reads `enabled`.           *)
(***************************************************************************)
EXTENDS Integers, Sequences, FiniteSets, SequencesExt

CONSTANTS
    Name,           \* names of groups and of signature algorithms
    Blank,
    SeedFile,       \* the <<kind, name>> of algorithms.json in their order
    Posts,          \* requests for a test
    MaxSubtasks,    \* MAX_SUBTASKS_PER_TEST
    DefaultAdapter,
    MaxSeedings     \* bound on runs of the seeder

Kind == {"kem_group", "sig_alg"}
Plugin == {"bq", "bo", "wo", "go", "open", "other"}
Value == (Name \cup {Blank}) \X BOOLEAN

ASSUME NewTestAssumption ==
    /\ Blank \notin Name
    /\ SeedFile \in Seq(Kind \X Name)
    /\ Posts \subseteq [target_ok : BOOLEAN, plugin : Plugin,
                        groups : Seq(Value), sig_algs : Seq(Value)]
    /\ MaxSubtasks \in Nat
    /\ MaxSeedings \in Nat

VARIABLES
    algorithms,  \* the keys in the table
    row,         \* the row the seeder is at, 0 when it is not running
    seedings,    \* how often it has been started
    step,        \* the next call of create_test
    body,        \* its request
    subtasks,    \* the rows of the test
    jobs         \* the probe jobs that were queued

catalogue == <<algorithms, row, seedings>>
nvars == <<catalogue, step, body, subtasks, jobs>>

NoPost == [target_ok |-> FALSE, plugin |-> "other", groups |-> << >>, sig_algs |-> << >>]

NInit ==
    /\ algorithms = {}
    /\ row = 0
    /\ seedings = 0
    /\ step = "idle"
    /\ body = NoPost
    /\ subtasks = {}
    /\ jobs = {}

-----------------------------------------------------------------------------
(***************************************************************************)
(* The seeder: one statement per row, no transaction around them.          *)
(***************************************************************************)

seed_starts ==
    /\ row = 0
    /\ seedings < MaxSeedings
    /\ row' = 1
    /\ seedings' = seedings + 1
    /\ UNCHANGED <<algorithms, step, body, subtasks, jobs>>

\* An upsert; nothing is ever deleted.
seed_row ==
    /\ row \in DOMAIN SeedFile
    /\ algorithms' = algorithms \cup {SeedFile[row]}
    /\ row' = row + 1
    /\ UNCHANGED <<seedings, step, body, subtasks, jobs>>

\* After the last row, or wherever a statement fails or the container dies.
seed_ends ==
    /\ row # 0
    /\ row' = 0
    /\ UNCHANGED <<algorithms, seedings, step, body, subtasks, jobs>>

-----------------------------------------------------------------------------
(***************************************************************************)
(* create_test                                                             *)
(***************************************************************************)

\* The names that are not skipped, each where it comes first.
Firsts(names, skipped) ==
    LET kept[i \in 0 .. Len(names)] ==
            IF i = 0 THEN << >>
            ELSE IF names[i] \in skipped \cup Range(kept[i - 1]) THEN kept[i - 1]
            ELSE Append(kept[i - 1], names[i])
    IN kept[Len(names)]

\* Defect: names are compared before they are trimmed.
dedupe_raw(values) ==
    LET kept == Firsts(values, {Blank} \X BOOLEAN) IN [i \in DOMAIN kept |-> kept[i][1]]

\* Names are compared after they are trimmed; nothing is made of blanks.
dedupe(values) == Firsts([i \in DOMAIN values |-> values[i][1]], {Blank})

groups == dedupe(body.groups)
sig_algs == dedupe(body.sig_algs)

\* The checks that need no database. The lists must not be empty, which says
\* nothing of what dedupe leaves of them.
Refuses(post) ==
    \/ ~post.target_ok
    \/ post.groups = << >>
    \/ post.sig_algs = << >>
    \/ Len(dedupe(post.groups)) * Len(dedupe(post.sig_algs)) > MaxSubtasks

Done == step' = "done" /\ body' = NoPost

post_test(post) ==
    /\ step = "idle"
    /\ IF Refuses(post) THEN Done ELSE step' = "groups" /\ body' = post
    /\ UNCHANGED <<catalogue, subtasks, jobs>>

\* Whether an algorithm is enabled does not matter here.
Unknown(kind, names) == {n \in Range(names) : <<kind, n>> \notin algorithms}

reject_unknown(kind, names, next) ==
    /\ IF Unknown(kind, names) # {} THEN Done ELSE step' = next /\ UNCHANGED body
    /\ UNCHANGED <<catalogue, subtasks, jobs>>

check_groups == step = "groups" /\ reject_unknown("kem_group", groups, "sig_algs")
check_sig_algs == step = "sig_algs" /\ reject_unknown("sig_alg", sig_algs, "insert")

\* Row-major, as the matrix reads and the drawer walks.
ordinal(g, s) == (g - 1) * Len(sig_algs) + s - 1

\* The id stands for the UUID that the database gives a row.
Rows == {[id |-> <<g, s>>, ordinal |-> ordinal(g, s), group |-> groups[g], sig |-> sig_algs[s]] :
           g \in DOMAIN groups, s \in DOMAIN sig_algs}

\* The transaction: the test and all of its subtasks, or nothing.
insert_test ==
    /\ step = "insert"
    /\ subtasks' = Rows
    /\ step' = "queue"
    /\ UNCHANGED <<catalogue, body, jobs>>

\* Defect: the rows that RETURNING gives are paired with the names by position.
Jobs_by_position(returned) ==
    {[subtask |-> returned[i].id,
      group |-> (CHOOSE r \in subtasks : r.ordinal = i - 1).group,
      sig |-> (CHOOSE r \in subtasks : r.ordinal = i - 1).sig] : i \in DOMAIN returned}

\* "Carry the identifying columns back out": whatever order RETURNING has.
Jobs(returned) ==
    {[subtask |-> returned[i].id, group |-> returned[i].group, sig |-> returned[i].sig] :
       i \in DOMAIN returned}

\* The prefix of the plugin's name decides.
adapter_for(plugin) ==
    CASE plugin \in {"bq", "bo"} -> "boringssl"
      [] plugin = "wo" -> "wolfssl"
      [] plugin = "go" -> "go"
      [] plugin = "open" -> "openssl"
      [] plugin = "other" -> DefaultAdapter

\* The jobs of the rows, or, when the API or Redis fails half way, some of them.
enqueue_probes ==
    /\ step = "queue"
    /\ \E returned \in SetToSeqs(subtasks) : \E sent \in SUBSET Jobs(returned) :
          jobs' = {[adapter |-> adapter_for(body.plugin), subtask |-> j.subtask,
                    group |-> j.group, sig |-> j.sig] : j \in sent}
    /\ Done
    /\ UNCHANGED <<catalogue, subtasks>>

\* A query fails, or the API dies: a transaction that is open is rolled back.
create_fails ==
    /\ step \in {"groups", "sig_algs", "insert"}
    /\ Done
    /\ UNCHANGED <<catalogue, subtasks, jobs>>

-----------------------------------------------------------------------------
(***************************************************************************)
(* get_matrix                                                              *)
(***************************************************************************)

\* SELECT ... ORDER BY ordinal
ByOrdinal == CHOOSE rows \in SetToSeqs(subtasks) :
                \A i, k \in DOMAIN rows : i < k => rows[i].ordinal <= rows[k].ordinal

\* The names of a column, each where it comes first.
MatrixGroups == Firsts([i \in DOMAIN ByOrdinal |-> ByOrdinal[i].group], {})
MatrixSigAlgs == Firsts([i \in DOMAIN ByOrdinal |-> ByOrdinal[i].sig], {})

-----------------------------------------------------------------------------

NNext ==
    \/ seed_starts
    \/ seed_row
    \/ seed_ends
    \/ \E post \in Posts : post_test(post)
    \/ check_groups
    \/ check_sig_algs
    \/ insert_test
    \/ enqueue_probes
    \/ create_fails

NSpec == NInit /\ [][NNext]_nvars

-----------------------------------------------------------------------------
(***************************************************************************)
(* Properties                                                              *)
(***************************************************************************)

First(values, n) == CHOOSE i \in DOMAIN values :
    values[i][1] = n /\ \A k \in 1 .. i - 1 : values[k][1] # n

\* The axis shows what was selected: every name once, in the order in which
\* the names come first in the request.
AxisIs(axis, values) ==
    /\ Range(axis) = {values[i][1] : i \in DOMAIN values} \ {Blank}
    /\ \A i, k \in DOMAIN axis : i < k => First(values, axis[i]) < First(values, axis[k])

\* "Axis order comes from the ordinal, which preserves what the student
\* selected": the axes that get_matrix gets back from the rows are those of
\* the request, with one cell for each pair, unless one of them is all blank.
MatrixAsSelected ==
    (step = "queue" /\ subtasks # {}) =>
        /\ AxisIs(MatrixGroups, body.groups)
        /\ AxisIs(MatrixSigAlgs, body.sig_algs)
        /\ {<<r.group, r.sig>> : r \in subtasks} = Range(MatrixGroups) \X Range(MatrixSigAlgs)
        /\ {r.ordinal : r \in subtasks} = 0 .. Len(MatrixGroups) * Len(MatrixSigAlgs) - 1

=============================================================================
