------------------------------ MODULE CellPath ------------------------------
(***************************************************************************)
(* One cell of the matrix from the request to its colour: create_test      *)
(* (NewTest) queues the jobs, probe::handle takes one, has the adapter     *)
(* probe the server (AdapterProbe), asks the registry what the adapter     *)
(* advertises (adapters.rs) and classifies the answer (pqcas-domain).      *)
(* KEM runs send their lists of groups through the same adapters.          *)
(***************************************************************************)
EXTENDS AdapterProbe, NewTest

CONSTANTS
    CliList,  \* ADAPTER_KEM_GROUPS of the CLI images
    Aliased,  \* groups that the Go adapter has under two spellings
    SigList,  \* the signature algorithms that each adapter advertises
    NoJob,
    KemProbe  \* a probe of a KEM run

\* The catalogue lists groups as groups; no name is that of a group and of a
\* signature algorithm.
ASSUME CellAssumption ==
    /\ Group \subseteq Name
    /\ \A i \in DOMAIN SeedFile : SeedFile[i][2] \in Group <=> SeedFile[i][1] = "kem_group"
    /\ DefaultAdapter \in Backend
    /\ CliList \in [Backend \ {"go"} -> SUBSET Group]
    /\ Aliased \subseteq Known
    /\ SigList \in [Backend -> SUBSET (Name \ Group)]

VARIABLES
    job,      \* what is being probed
    cache,    \* the registry's entry for the adapter: none, or one list
    asking,   \* the handler has missed the cache
    others,   \* so has another handler of the same worker
    verdict   \* result_status of the subtask

cvars == <<job, cache, asking, others, verdict>>
allvars == <<vars, nvars, cvars>>

CInit ==
    /\ NInit
    /\ Fresh
    /\ backend = DefaultAdapter
    /\ kem_groups = << >>
    /\ job = NoJob
    /\ cache = {}
    /\ asking = FALSE
    /\ others = FALSE
    /\ verdict = "pending"

-----------------------------------------------------------------------------
(***************************************************************************)
(* Who probes                                                              *)
(***************************************************************************)

Probe(b, list) ==
    /\ job = NoJob
    /\ backend' = b
    /\ kem_groups' = list
    /\ UNCHANGED <<phase, net, time, lost, answer>>
    /\ UNCHANGED <<catalogue, step, body, subtasks, cache, asking, others, verdict>>

\* probe::handle; the other jobs of the test go to other handlers.
handle(j) ==
    /\ j \in jobs
    /\ Probe(j.adapter, <<j.group>>)
    /\ job' = j
    /\ jobs' = {}

\* Independent of any test, so there need not be one.
kem_handle ==
    /\ step = "idle"
    /\ \E b \in Backend, list \in Requests : Probe(b, list)
    /\ job' = KemProbe
    /\ UNCHANGED jobs

-----------------------------------------------------------------------------
(***************************************************************************)
(* AdapterRegistry::capabilities and classify                              *)
(***************************************************************************)

\* The groups of /capabilities that are listed under the catalogue's name. The Go
\* adapter lists each curve once, under either of its names, as the iteration
\* over a map happens to find them.
Lists == IF backend = "go" THEN {Known \ A : A \in SUBSET Aliased} ELSE {CliList[backend]}

\* Unsupported when the adapter advertises neither of the two algorithms.
classify(list) ==
    IF {job.group, job.sig} \cap (list \cup SigList[backend]) = {} THEN "unsupported"
    ELSE IF answer.handshake_success THEN "passed" ELSE "failed"

Classifying == job \notin {NoJob, KemProbe} /\ phase = "done" /\ verdict = "pending"

cached ==
    /\ Classifying /\ ~asking
    /\ \E list \in cache : verdict' = classify(list)
    /\ UNCHANGED <<vars, nvars, job, cache, asking, others>>

missed ==
    /\ Classifying /\ ~asking
    /\ cache = {}
    /\ asking' = TRUE
    /\ UNCHANGED <<vars, nvars, job, cache, others, verdict>>

\* The handler uses what it has got itself, and puts it into the cache over
\* whatever another one has put there in the meantime.
fetched ==
    /\ asking
    /\ \E list \in Lists : cache' = {list} /\ verdict' = classify(list)
    /\ asking' = FALSE
    /\ UNCHANGED <<vars, nvars, job, others>>

\* "Falling back to raw outcome"; the cache only keeps answers.
fetch_fails ==
    /\ asking
    /\ verdict' = IF answer.handshake_success THEN "passed" ELSE "failed"
    /\ asking' = FALSE
    /\ UNCHANGED <<vars, nvars, job, cache, others>>

other_missed ==
    /\ job # NoJob
    /\ cache = {} /\ ~others
    /\ others' = TRUE
    /\ UNCHANGED <<vars, nvars, job, cache, asking, verdict>>

other_fetched ==
    /\ others
    /\ others' = FALSE
    /\ \E entry \in {{list} : list \in Lists} \cup {cache} : cache' = entry
    /\ UNCHANGED <<vars, nvars, job, asking, verdict>>

-----------------------------------------------------------------------------

\* The steps of create_test and of the seeder do not meet those of a probe, so
\* it does no harm that they are over when the probe begins.
CNext ==
    \/ job = NoJob /\ NNext /\ UNCHANGED <<vars, cvars>>
    \/ \E j \in jobs : handle(j)
    \/ kem_handle
    \/ job # NoJob /\ Next /\ UNCHANGED <<nvars, cvars>>
    \/ cached
    \/ missed
    \/ fetched
    \/ fetch_fails
    \/ other_missed
    \/ other_fetched

CSpec == CInit /\ [][CNext]_allvars

\* The handler goes on, and its GET ends one way or the other.
CFairSpec ==
    /\ CSpec
    /\ Fairness
    /\ WF_allvars(cached \/ missed)
    /\ WF_allvars(fetched \/ fetch_fails)

-----------------------------------------------------------------------------
(***************************************************************************)
(* Properties                                                              *)
(***************************************************************************)

\* The row of the subtask that is being probed.
Cell == CHOOSE r \in subtasks : r.id = job.subtask

\* A green cell means what its row says: a handshake was completed with the
\* server, and with no group but that of the row; if a group is shown with it,
\* that one. This takes create_test's pairing of rows and names, the adapters'
\* pinning of the group and their reading of the output. It does not say that
\* the group was used: wolfSSL does not pin classical groups, and openssl and
\* bssl may fall back to TLS 1.2 without a group.
GreenCell ==
    verdict = "passed" =>
        /\ HandshakeDone
        /\ answer.group \in {group, None}
        /\ (backend = "wolfssl" => Cell.group \notin Classical) =>
              group \in {Cell.group} \cup Groupless

\* Every probe gets its answer and every probed cell its verdict, whatever the
\* server, the adapter and the registry do.
EveryProbeAnswers ==
    job # NoJob ~> (phase = "done" /\ (job # KemProbe => verdict # "pending"))

=============================================================================
