# A TLA+ model of PQ-CAS

PQ-CAS is a laboratory for post-quantum TLS. A web page asks an API for a *test*
(one handshake per pair of key exchange group and signature algorithm) or for a
*KEM DEMO run*; the API stores rows in Postgres and puts jobs on Redis streams;
workers take the jobs, ask TLS adapters for handshakes, write verdicts and publish
events. This directory models that pipeline in TLA+, checks it with TLC on small
instances and proves the central safety properties with TLAPS.

Paths below are relative to the repository.

## 1. Inventory

| Component | State | Operations | Interacts with |
|---|---|---|---|
| Job queue (`services/worker/src/stream.rs`, `main.rs`, `services/api/src/queue.rs`) | two Redis streams, the consumer group's position, its pending list; per worker a semaphore and spawned tasks | XADD, group creation, XREADGROUP, XAUTOCLAIM, spawn, XACK, shutdown, restart | API (producer), handlers (called by tasks) |
| Probe tasks (`api routes/tests.rs`, `worker probe.rs`, `store.rs`) | `tests.status`, `subtasks.exec_status / result_status / report_status`, reports | `create_test`; the calls of `probe::handle`; `finish_test_if_done` | queue, adapters, event channels |
| KEM runs (`api routes/kem.rs`, `worker kem.rs`) | `kem_runs.status`, numbered `kem_run_logs`, `kem_matrix_cells`, `Console.seq` in the process | `create_run`; `Console::log / cell / finish`; three modes | queue, adapters, event channels |
| Priority test (`worker kem.rs`) | the offer that remains, the order found, the running minimum of `evaluate_order` | one handshake per round; one loop over the order | adapter, server under test |
| Adapter registry (`worker adapters.rs`) | cached capabilities | `capabilities`, `probe` | adapters over HTTP |
| Live view of a test (`api routes/sse.rs`, `test-matrix.tsx`) | the page's copy of the matrix, events under way | snapshot, subscribe, merge an event, lose and renew the connection | API, Redis pub/sub |
| Live view of a KEM run (`kem-runner.tsx`) | the console and the matrix on the page, events under way | click and reply, subscribe, handle an event, lose the connection or leave | API, Redis pub/sub |
| CAVP (`crates/cavp-validate`, `api routes/cavp.rs`, `cavp-workbench.tsx`, `lib/cavp.ts`) | packs, sessions and their grade, the page's report, the web server's cache | render, create a session, validate a submission | Postgres, seeding |
| Catalogue and seeding (`catalog.rs`, `seed.rs`) | algorithms, endpoints, packs | upserts at every bring-up, row by row | Postgres, `create_test` |
| Adapters (`adapters/cli`, `adapters/go`) | none that outlives a request: the client, its connection, a deadline | run a TLS client, parse its output, answer | worker, server under test |
| Web application, health pages, deployment | none of their own | | |

What is hard in this code: several workers and many tasks share rows; jobs are
redelivered after a crash and, when they are slow, even without one; a handler is a
row of separate database and Redis calls any of which may fail or be the last before
a crash; a test is closed from counts that were read earlier; a console is numbered by
a process and stored under a key that outlives it; a page combines a snapshot with events
that are not replayed; a submission spans several requests during which the answer key may
be replaced. `PROJECT.json` lists these hazards
at their lines.

What makes each component correct:

* queue: every accepted job is handled and acknowledged, none is lost, none comes back
  after its acknowledgement;
* probe tasks: rows, events and the status of the test agree in the end; a closed test
  is complete and stays closed;
* KEM runs: the console is complete and numbered without holes, ends with one verdict,
  and the status of the run matches it;
* priority test: it ends, finds the server's order and flags exactly the misplaced groups;
* adapters: success is reported only of completed handshakes, never with another group than the
  one that was asked for, and every probe gets an answer in time;
* request for a test: the matrix has the cells that were selected, in their order, each with
  its own verdict;
* live views: a page never shows what is not stored, and converges to the rows; the page
  of a run comes to an end;
* CAVP: every case gets the status its answer deserves, against the pack the student saw;
* seeding: idempotent, and harmless to requests that are handled meanwhile.

## 2. Modules

| Module | Models | Used by |
|---|---|---|
| `AtLeastOnce` | abstract: jobs are submitted, handled, settled, in that order, and settled in the end | `WorkerQueue` (refinement) |
| `WorkerQueue` | streams, consumer group, worker processes and their tasks | extended by the two below |
| `ProbeTask` | tests, subtasks and `probe::handle` on top of the queue | `LiveMatrix` |
| `KemRun` | KEM runs and `kem::handle` on top of the queue | `LiveRun` |
| `PriorityOrder` | the probing loop of the priority mode and `evaluate_order` | |
| `LiveMatrix` | a page that watches a test: snapshot, event stream, merge; composed with `ProbeTask` | |
| `LiveRun` | the page of the KEM DEMO: click, reply, event stream without snapshot; composed with `KemRun` | |
| `CavpSession` | the CAVP station: grading, packs, sessions, the page and its cache, re-seeding | |
| `AdapterProbe` | one probe: the worker's HTTP call, the adapter, its TLS client, the server, the timeouts | `CellPath` |
| `NewTest` | the request for a test, its checks against the catalogue, the rows and jobs, the axes of the matrix; the seeder of the catalogue | `CellPath` |
| `CellPath` | one cell from the request to its colour: `NewTest`, `AdapterProbe`, the registry's cache of capabilities and `classify` | |
| `QueueProofs`, `ProbeProofs`, `LiveProofs`, `KemProofs`, `LiveRunProofs`, `PriorityProofs`, `CavpProofs`, `AdapterProofs` | theorems about these | |
| `MCWorkerQueue`, `MCProbeTask`, `MCLiveMatrix`, `MCKemRun`, `MCLiveRun`, `MCPriorityOrder`, `MCCavpSession`, `MCCellPath` | small instances for TLC | |

Operators whose comment begins with "Defect" are deliberately wrong variants of the
definition that follows them. They are not part of any specification; substituting one
for its original must break the property `PROJECT.json` pairs it with.

### WorkerQueue

A stream is a sequence (`log`) with the place where the group was created (`base`), the
group's last-delivered position (`cursor`) and a pending list (`pel`). Every delivery of
a job is an *attempt* `<<job, n>>`, `n` being Redis' delivery counter; `pc` says whether
it is in the batch of a tick, in its handler, about to be acknowledged, or over, and
`owner` which process runs it. `StartWorker` is `main` up to its loop (both
`ensure_group` calls in one step), `Read` and `Autoclaim` are the two halves of `tick`,
`Spawn` takes a permit for the next delivery in reply order, `Ack` is the end of the
spawned task. A worker reads again only when its whole batch has been spawned.

Failure is part of the model: `Crash` kills a process at any point, `Shutdown` drops the
tick and lets spawned tasks finish (`Exit`), a reply may be lost after Redis has acted
(second disjunct of `Receive`), `AckFails` leaves a handled job pending. Redis only knows
how long ago an entry was delivered; the constant `Overrun` says whether a *live* attempt
may exceed `CLAIM_STALE_MS` and be claimed by another task. `GroupAtStart` tells a
running deployment from a fresh one. `Concurrency` is positive by assumption; the configuration
(`main.rs:43`) would accept 0, and such a worker reads one batch and waits for ever.

### ProbeTask

A job and its subtask share a name. `create_test` commits the rows and fixes the adapter of
the test (`adapter_for` maps names in the request to one); the XADDs of the
pipeline follow one at a time and may stop (`ApiFails`). Each attempt then steps through
the calls of `probe::handle`: `mark_test_running`, `mark_subtask_running`,
`mark_subtask_error` or `save_report` (with `classify` and the report status), `publish`,
the SELECT and the UPDATE of `finish_test_if_done` as two steps, the TestFinished event,
and the return. `HandleErr` is the `?` after any of them. What an adapter answers is a
choice: handshake or not, messages or not, capabilities or not (`Outcomes`, all of them or a part). Report bodies, texts and
timestamps are left out. `shown` is the last event of each subtask, `closed` the counts
of the TestFinished events, as a client subscribed from the start sees them.

### LiveMatrix

A step of `ProbeTask` goes together with `Relay`: an event of `probe::handle` enters the
stream of the page if it is connected and is lost otherwise. The page is rendered from one
SELECT (`get_matrix`), connects (`subscribe`), merges events in order (`onmessage`) and may
lose the connection with all it carries (`onerror`); the browser's EventSource connects again
without a new snapshot. `missed` is a history variable: the cells whose last event never
arrived, which is the exact extent of what the page can be wrong about. TestFinished events
are ignored by the page and left out.

### CavpSession

A file is its vsId and mode, if given, and the tests of its groups in one sequence; a value
is a well-formed hex string or truth value, or one of the kinds of garbage that `check_hex`
tells apart. The `algorithm` of a file is left out because the code does not look at it.
`pack` numbers the deployments whose seed the row holds; `cache`, `loaded`, `fetched`,
`session.version` and `key` are the versions seen by the web server, the page,
`create_session` and `validate_session`, since each reads the row at another time. A click
on validate runs through the two requests, any of which may fail (`call_fails`); the
answer may be lost after the UPDATE. Only the session of the last click is kept in the state.

### AdapterProbe

What `ProbeTask` and `KemRun` take as a choice, one answer of an adapter, is modelled here in
full. `phase` follows the call of `AdapterRegistry::probe` (`send` to `done`) through the
adapter: for the CLI adapter `spawn`, the life of its command, `exit` and `parse`; for the Go
adapter the calls of `probe`. `reached` and `group` are the truth about the connection, which
no participant sees as such; `answer` is what is reported about it. `Offered` is what each
client puts on the wire for a request. The server may accept, reject, answer, close or fall
silent at any point, a process may die or hang (`lost`), and time passes in steps (`Tick`)
against the deadline of the adapter and the timeout of the worker. `Timeout` is positive,
because zero means 15 seconds to the Go adapter and an immediate timeout to the CLI adapter.

A handshake uses a group that the client offers and the stack knows, or none (`Groupless`): the
requests ask for TLS 1.3 and 1.2, so with openssl a server may fall back to RSA or finite-field
Diffie-Hellman, with bssl to RSA. wolfSSL is run with 1.3 and crypto/tls has only ECDHE by default.

What a command prints is an `Outputs` record: for each label that the parsers look for, the
values behind it, line by line. It is external and leaves open whatever the parsers allow for:
placeholders instead of a cipher or a group (`openssl_failed`), a session block or not, either of
two labels and both forms of the key line, wolfSSL's line about a KEM that was offered and not
used, alerts that are recognised and others. The parsers read it as the code does:
`value_after`, `or_else` in the order of the code, `filter` for placeholders, `strip_key_size`,
`handshake_success` from a cipher or an HTTP answer. Two things are assumed of the output: a
client names a cipher suite that is not a placeholder, and prints an HTTP status, only for a
handshake that was completed; and the body of the HTTP answer has none of the labels in it.
Left out: the mock backend, certificates, byte counts, signature algorithms, texts.

### KemRun

Same structure for `kem::handle`. The console is a set of `<<seq, kind>>`: the number and
whether the line is the run's verdict (`result`), the report of an error (`run_failed`,
which the code logs at level "result" as well) or any other. `Console::log` is one step
(`console_log`) for the INSERT, which takes the next number *before* it, and one for the PUBLISH
(`publish`), and so is `Console::cell`: between the two `event` holds what the handler has to publish
next, and another handler may write or publish, or the process may die. If the number exists the
primary key rejects it (`log_conflict`), and INSERT, upsert or PUBLISH may fail (`log_fails`,
`cell_fails`, `publish_fails`); each ends the body and leads to the error line. `After` is the control flow of
the three modes: cells one after the other for the library mode; the number of lines that
depends on the answer for the group mode; one line per recovered group and the findings for
the priority mode. The 6 x 8 matrix is the sequence `Column` of the adapters of its cells.

### LiveRun

The page creates the runs of `KemRun` itself: a click (`run`) goes together with `create_run`,
the reply (`created`) opens the event source, `subscribe` is the moment the API listens on the
channel. `Tell` is a PUBLISH (`publish` of a line or a cell, `announce` of the end) with the event it carries; it reaches the
page if the page is subscribed to that run and is lost otherwise. `onmessage` appends a line,
replaces a cell or ends the run on the page; `onerror` closes the source for good, since the
component does not let the browser connect again; `run_refused`, `ApiErr` and `reply_lost` are
the `catch` of `run()`, `unmount` the cleanup of the effect. A new click while an old run is
still being handled is part of the model, as are several handlers of one run. `missed` is a
history variable: the types of events that passed between the request and the subscription.
The selection of groups on the form is left out.

### NewTest

`post_test` to `enqueue_probes` are the steps of `create_test` between which the catalogue may
change: the checks without database, the two calls of `reject_unknown`, the transaction, the
jobs. A name is what `trim` leaves of it and whether there was anything to trim. `dedupe` and
`ordinal` are computed as in the code; `enqueue_probes` takes the rows in any order (RETURNING
promises none) and may stop after some of them. A row has an `id`, which stands for its UUID and is
how a job names it, and an `ordinal`. `MatrixGroups` and `MatrixSigAlgs` are the axes that
`get_matrix` gets back from the rows in the order of their ordinals; like `dedupe` it keeps each
name where it comes first (`Firsts`). `seed_row` is one upsert of the seeder, which has no
transaction and may stop anywhere (`seed_ends`).

### CellPath

A job of `NewTest`, or a probe of a KEM run, starts `AdapterProbe`; when it has ended, the
handler asks the registry for the adapter's list (`cached`, or `missed` and then `fetched` or
`fetch_fails`) and classifies. Another handler of the same worker may miss the cache at the same
time and overwrite it. What an adapter lists is a constant for the CLI adapters, whose list is an
environment variable of the image and not derived from the client, and depends on the iteration
over a map for the Go adapter (`Lists`).

### PriorityOrder

`pref` is the (external) server: an order of preference that `Init` picks freely, as it
picks the run's selection of groups. A round records the reported name and withdraws it
from the offer; `Reported` may map a group to another name. `evaluate_group` is one
iteration of `evaluate_order`, with 0 for the classical `None` of `pq_level`; names that
differ only in case are one name. The history variable `plain` remembers whether the server
has always answered with its favourite of the groups on offer (no failing handshake, no
answer that was not offered); `RecoversPreference` is about such servers. `Told` is how far the
rounds can get: a group that is reported by another name is recorded under that name, is not
withdrawn, and ends the loop. In the offer of a run without a selection secp256r1 may be such a group.

## 3. Runs

| Run | Instance | Shows |
|---|---|---|
| `queue` | 3 jobs on both streams, 2 workers with one permit, reads of one entry, 1 halt, 1 fault | `NothingLost`, `AckedNeverRedelivered`; refinement of `AtLeastOnce` with its fairness, which says that every job is settled |
| `probe_chaos` | a test of 2 subtasks (one unsupported) on a configured or a missing adapter, 1 worker with 2 permits, overruns, 1 fault | `ClosedHasResults`, `EventCountsAddUp`, `EventsTellTheTruth`, `AllAckedIsClosed`, `LossBoundedByFaults`, `ClosedStaysClosed` |
| `live` | a page on the same test, 1 worker with 1 permit, 1 halt, 2 lost connections | `LastEventAgrees`, `DoneIsStored`, `QuietPageAgrees`, `EveryTestSettles`, `PageFillsIn` |
| `kem_chaos` | a page on a library run, 1 worker with 2 permits, overruns, 1 halt, 1 fault, 1 lost connection | `LogContiguous`, `EndedHasVerdict`, `MatrixSound`, `ShownIsStored` |
| `kem_live` | a page that posts a library and a priority run, 1 worker with 1 permit, 1 halt, 1 lost reply or connection | `OneVerdict`, `ShownIsStored`, `DoneShowsAll`, `EveryRunEnds`, `PageStops` |
| `priority` | all preferences over 5 groups (levels 0, 0, 1, 3, 5), all selections, an alias, failing handshakes, answers not on offer | `RecoversPreference`, `FindingsRight`, `Terminates` |
| `cavp` | a pack of 2 cases seeded three times (two keyGen, one sigVer), files of up to 2 tests with garbage and missing parts | `GradedOnOwnPack`, `GradeIsRight` |
| `adapter` | a test of up to 4 cells (names repeated, padded, blank, of the wrong kind or not yet seeded) and the probe of one of them, or any probe of a KEM run with up to 2 of 4 groups (classical, post-quantum, hybrid, unknown); 4 clients and all their outputs, timeouts 2 and 3 | `NoFalseGreen`, `PinnedGroup`, `RedOnlyByTimeout`, `OuterBoundForWedged`, `GreenCell`, `MatrixAsSelected`, `EveryProbeAnswers` |

Runs that are expected to be violated; each states what a comment or document says and
TLC returns a behaviour of the code that contradicts it (`findings` in `PROJECT.json`
quotes the lines):

| Run | Says | The code |
|---|---|---|
| `queue_fresh` | at-least-once delivery | the group starts at `$`: jobs queued before the first worker are skipped |
| `probe_overrun` | no subtask is stuck on running | it is, when a duplicate handler dies after the first has acknowledged |
| `live_unlisted` | adapters that are not listed are reported as disabled rather than failed | only the event says so; a page that is opened later shows failed, as the row does |
| `kem_stuck` | failures are recorded before the acknowledgement | a redelivered run collides with its own console and stays on running |

Further disagreements between comments and code that the models follow the code in, and
that have no run of their own:

* `kem.rs:393-394`, `kem.rs:417` and `kem.rs:430-431` say the server's whole order is recovered,
  each round removing exactly the group it chose; a group reported under another name
  (`kem.rs:40-41`) removes nothing and ends the loop, and what the server likes less is not in the
  order. `RecoversPreference` says where the order ends (`Told`).
* `cavp-validate/src/lib.rs:7-8` lists a matching `algorithm` and one entry per `tcId` among the
  structural checks; the algorithm is not read, of several entries the first counts, and a
  file without vsId or mode is accepted for any pack (`Accepts`, `validate`). `GradeIsRight` is
  about files that use no number twice.
* `lib/cavp.ts:7-8` says that editing values alone cannot yield "malformed"; values left
  blank, or of the wrong length, do (`check_field`), and the skeleton itself has such blanks.
* `cavp-workbench.tsx:79` clears the error of an earlier submission but not its report, so
  a rejected file is shown next to the report of an earlier one (`reject`).
* `stream.rs:56` speaks of entries "pending on a dead consumer"; the age of the delivery
  alone decides, so a slow live task loses its entry as well (constant `Overrun`).
* `README.md:70` says a cell is unsupported when the algorithm was never advertised; for a
  test cell one advertised algorithm of the pair is enough for failed
  (`crates/pqcas-domain/src/lib.rs:31`), and in the KEM matrix an adapter that cannot be
  reached makes a cell unsupported too (`kem.rs:248`).
* `store.rs:46-47` calls a report complete only when the flow was finished; any message of
  a failed handshake suffices (`ReportOf`).
* `store.rs:155-156` counts "adapter down" among the errors that fail a task; an adapter
  that is configured but down yields finished subtasks and a finished test (`ProbeOutcome`,
  `finish_test`).
* `main.rs:109-110` acknowledges because failures are recorded; after a failed database or
  Redis call they need not be (`HandleErr`). `LossBoundedByFaults` says that this costs one verdict
  per failed call and never more; for runs `kem_stuck` shows it.
* `adapters/cli/src/main.rs:3-4` says the clients "can be pinned to a specific group and made to
  talk TLS 1.3"; the adapter does the second only if 1.3 is the only version asked for, so openssl and
  bssl may complete a TLS 1.2 handshake without any (`Groupless`), and the cell of a group is
  green then. `PinnedGroup` and `GreenCell` exclude another group, not the absence of one.
* `routes/kem.rs:26-27` says the priority mode ignores the selected groups; they are its
  offer (`Offer`).
* `test-matrix.tsx:13-15` says a running task fills in live instead of needing a refresh; an
  update between the snapshot and the subscription is never replayed (`missed`, which
  `QuietPageAgrees` and `PageFillsIn` exclude).
* `backend.rs:487-489` says a working key exchange must not become a red cell; the timeout of
  the command drops its output, so one followed by a server that keeps the connection open
  does (`cli_times_out`, `RedOnlyByTimeout`). In the Go adapter it does not.
* `adapters.rs:20-21` calls the worker's timeout a bound for wedged containers; the Go adapter
  may use its timeout twice, and KEM requests carry 15 s whatever `PROBE_TIMEOUT_MS` is, so it
  also hits adapters that work (`OuterBoundForWedged` says when).
* `adapters.rs:39-40` says capabilities change only when an image is rebuilt; the Go adapter
  lists one alias per curve, chosen by map iteration (`main.go:133`), so a cell may be greyed
  out that a restart of the adapter would colour (`Aliased`, `Lists`).
* `kem-runner.tsx:42` says that reopening a finished run replays the lines the student saw live;
  that holds of what was seen (`ShownIsStored`), but the page starts without a snapshot, so lines
  published before its subscription are never seen, and if the Finished event is among them the
  page runs until its connection breaks (`DoneShowsAll` and `PageStops` exclude it by `missed`).
* `tests.rs:60-62` asks for at least one group and one signature algorithm, but looks before names
  are trimmed: a selection of blanks passes and becomes a test without subtasks that no job ever
  closes (`Refuses`, `dedupe`).
* A connection that is refused is a `tcp` failure of the Go adapter and a `tls_handshake`
  failure of the CLI adapter (`refused`, `parse`).
* wolfSSL offers its defaults for a classical group (`backend.rs:262-265` says so) and only
  the first of several groups, while the report lists all of them as offered
  (`client_hello`).

**Bounds.** `MaxHalts`, `MaxFaults` and `MaxDeliveries` bound crashes, failed calls and
redeliveries. Every safety property at stake needs at most one redelivery of a job next to
one other handler, so two deliveries, two subtasks and two workers (or one worker with
two permits, where duplicates arise by overrun) contain the interleavings that could break
it; `queue` goes to three deliveries so that `MaxDeliveries` never blocks a claim with
one halt and one fault. In `probe_chaos` there are no halts because an overrun already gives the
second handler; `kem_chaos` has one, for a worker that dies between a row and its event. It has
one run, the library run, since runs share nothing but the worker. In `kem_live` `MaxRounds = 0`
leaves the priority run with its head, its offer, one finding or none and its result, so that both
runs and the page fit.
`MaxCuts = 1` lets the page lose one reply or connection, or be left, and start the other run while
the first is handled. `MaxDrops = 2` lets a page lose its connection, miss an event, connect again and
lose the next one as well. `live` has one permit, so the two subtasks are handled one after the
other; that they may settle at the same time is covered by `AllAckedIsClosed` in `probe_chaos`. Its
`Fickle` adapter completes the handshake or does not, so a redelivery may find another verdict. In `adapter` `MaxSubtasks = 4` lets a request exceed the limit and `MaxSeedings = 1` fills the catalogue
from nothing, in parts if it stops: a second seeding only upserts what is there. The worker's timeout exceeds the request's by one
unit, so the Go adapter can outlast it after one unit of connecting and the CLI adapter cannot.
Deadlock checking is off where a system comes to rest: when all work is done the workers
only poll, which changes nothing.

**Fairness.** A live process keeps ticking and its tasks keep running (weak fairness of
`Read`, `Autoclaim`, `Spawn`, each handler step, `Ack`, `Exit`): the loop of `main` never
stops by itself and every adapter call has a timeout. A process that is down is started
again (`deploy/compose.yml`, `restart: unless-stopped`). The API sends the jobs it has
committed (otherwise a test stays pending for ever: there is no retry, see the hazards).
A browser that shows the page connects, connects again after an error and handles what
arrives (`LFairSpec`); it need not open the page. The page of a run gets the reply to its POST, is subscribed and
reads what arrives (`created`, `subscribe`, `onmessage` in `LiveRun`); nobody need click.
`EveryRunEnds` starts from runs that were queued, since nothing retries a failed XADD. In
`AdapterProbe` processes go on, time passes and timers that are due fire; the server need not do
anything. In `CellPath` the handler goes on after the probe and its GET ends one way or the other. Crashes, faults and further requests are never assumed to happen.

## 4. Proofs

Every safety invariant and every action property of the passing runs is stated by a theorem. Type
invariants are proved too, for every module that has variables except `AtLeastOnce`; for `LiveRun`
it is `ViewOK`, a part of `Faithful`, and for `NewTest` and `CellPath` what the proofs need of
it is a part of `CellInv` and `Selected`.

All theorems hold for every value of the constants that satisfies the assumptions of the modules,
with crashes, lost replies, failed calls and overruns up to any bound. `QueueAssumption`,
`ProbeAssumption`, `LiveAssumption`, `KemAssumption`, `CutsAssumption`, `PriorityAssumption`,
`AdapterAssumption`, `NewTestAssumption` and `SeedsAssumption` say of what kind the constants are.
Three say more:

* `PacksAssumption`: in a pack the cases are numbered without repetition, their values are well
  formed and they have the fields that the mode is graded on. `tools/gen-cavp-vectors.mjs` writes
  them like that; the grading relies on it and does not look.
* `FilesAssumption`: the tests of a submitted file, if it has any, are a sequence.
* `CellAssumption`: no name of `algorithms.json` is both a group and a signature algorithm, which
  `classify` takes for granted when it looks for both in one list.

What a loop or a recursive function computes is proved without induction rules over operators: a
claim about all lengths that failed would fail at a least one (`LeastMember`, from the
well-foundedness of the numbers), and `StepsExist` unfolds the function that `Firsts` defines.

* `QueueProofs`. `QTypeCorrect`. `NothingLostCorrect` needs `LogSound` (the group stays
  within the streams, entries are on the stream of their job): without it a read could
  advance past entries it did not return. The lemma `OneAttemptCorrect` (without overruns no job is in the
  hands of two tasks), which other proofs rest on, needs `DeliveredInOrder`: an
  attempt number above the delivery counter has not started, and a job that has been
  delivered is behind the cursor, so a read returns only jobs without attempts.
  `ImplementsSafe` maps `submitted` to the entries of the streams and `settled` to the
  acknowledged jobs; it needs `InOrder` (a task acknowledges only after its handler).
  `AckedCorrect` needs `AckedApart`: an acknowledged job is behind the cursor and no longer
  pending, so neither a read nor a claim can return it, even when a second task of it still runs.
  `NothingSkippedCorrect` is about a group that exists before the first job (`GroupAtStart`); that it
  fails otherwise is what `queue_fresh` shows.
* `ProbeProofs`. `ImplementsQueue`: every step of the system is a step of `WorkerQueue` or
  leaves it alone, so the theorems above carry over. `ClosedHasResultsCorrect` and
  `EventCountsCorrect` rest on `RowsSound` (a settled row has a counted verdict) and
  `CountsSound` (a handler between its SELECT and its UPDATE holds counts of rows that all
  had a verdict, and verdicts are never withdrawn): that is why the stale counts do no harm.
  `ClosedStaysClosedCorrect` is an action property. With `Orderly` (no failed calls, no overruns)
  the last event of an acknowledged job says what its row says, if its adapter is on all workers
  (`LastEventAgreesCorrect`), and no row is left on running (`NoStuckRunningCorrect`): by
  `OneAttemptCorrect` and `NoneLeft` (an acknowledged job has no task left) a handler that runs is the
  only one of its job, so `Honest` (what the place of a handler says of its row and its event)
  cannot be disturbed by another. `LossBoundedCorrect` counts: a job whose handler is through without a
  verdict (`Hurt`) has had a call of its own fail, because a handler that is past its record call
  has stored a verdict (`Recorded`) and no step takes one away. `AllAckedIsClosedCorrect` rests on
  `LastCloses`: once all rows of a test are settled, it has been announced or one of its handlers has yet
  to look or to act on what it found; whoever looks last finds nothing outstanding.
  `EventsTellTheTruthCorrect` rests on `FirstWrite`: while no
  job was delivered twice, a settled row stays as it is, so counts cannot get stale.
* `LiveProofs`. `ImplementsProbe`: the page leaves the tests alone, so the theorems above hold
  of what it watches. `DoneIsStoredCorrect` needs `VerdictsAreStored` (a handler that is about to
  publish, and every event under way, speak of rows that have a verdict): an event may be
  arbitrarily late, so the state of the row when it arrives says nothing by itself.
  `QuietPageAgreesCorrect` (`Orderly`) rests on `StreamTold` (the last event under way of a subtask is
  the last one published) and `CellsFresh`: whoever has written the row and not yet published owes
  the page an event, and pays it before the job is acknowledged. So a page whose snapshot is newer
  than the events agrees with the rows as well as one whose events are newer.
* `CavpProofs`. `GradedOnOwnPackCorrect` rests on `VersionsGrow`: along a submission the versions
  read by cache, page, session and key never decrease, so if the vsId makes the first and the
  last equal, they are all equal. `GradeIsRightCorrect` rests on `GradeInv` (a
  grade is `validate` of the file stored with it, by the key of its version) and on lemmas about
  `validate`: the test that answers a case and what makes a case pass.
* `AdapterProofs`. One inductive invariant, `IndInv`: types, `TimersHold` (nobody waits beyond
  its deadline, and the deadline is `Timeout` after the start, or after connecting in Go),
  `Agreed` (what each phase says about the connection: the group was on offer or there is none, a
  client that runs was not refused) and the two properties about green and red, which need each
  other's case split over the ways a probe ends. `GroupPinned` and `OuterBound` follow from it.
  The step that parses rests on `ReadRight`, one lemma per client (`ReadOpenssl`, `ReadBoringssl`,
  `ReadWolfssl`): of any output in `Outputs` the parser finds a cipher exactly if the handshake was
  completed, and then the group of the handshake or none.
  For a cell, `CellInv` adds `Checked` (what `create_test` found in the catalogue, which only grows,
  and the row of each job), `Handling` (the probe is the one of the job; what is cached
  is a list of the adapter) and `Coloured`. It gives `CellProbeCorrect` (the four properties
  above hold of a probe that is part of the path), and `GreenCellCorrect`: a green cell is a handshake with no group but that of its own row, because
  jobs carry the id of the row they were made from, whatever the order of RETURNING.
  `MatrixAsSelectedCorrect` rests on `Selected` and on what the operators compute: `Firsts`
  returns each name once, in the order of its first place (`FirstsAre`); the ordinals are the
  numbers below the product, each once (`OrdinalOnce`, `OrdinalOf`); so the rows sorted by
  ordinal are row-major (`ByOrdinalIs`) and their names, each where it comes first, are the
  selection again (`AxisAgain`).
* `KemProofs`. `LogContiguousCorrect` rests on `CountedLinesExist`: whatever number a
  handler has counted, some handler has inserted, because a rejected INSERT proves the
  number exists. `EndedHasVerdictCorrect` rests on `VerdictBeforeFinish`.
  `MatrixSoundCorrect` rests on `Written`: all handlers of a run start at number 1, so only the one
  whose INSERT of the first line succeeds ever gets to the cells; it fills them from the first
  on, and a cell that is filled was classified by it. That the console refuses a second
  handler is thus what protects the matrix. `CellsNeverChangeCorrect` follows: the upsert never meets
  a row. `OneVerdictCorrect` (no failed call, no overrun) rests on `Engaged` (a handler that
  has begun belongs to a task that has not ended) and `Settled`: past its first line a handler knows
  that the console has no verdict, and one that is about to report an error finds either its
  number taken or, again, no verdict. `FirstDeliveryEnds`: without failed calls, a run whose job was
  delivered once and acknowledged has ended (`FirstHandler`: such a handler has written all there
  is, so no number is taken). What `kem_stuck` shows therefore takes a redelivery.
* `LiveRunProofs`. `ImplementsRun`: the page leaves the runs alone except for creating them.
  `ShownIsStoredCorrect` rests on `Pending` (what waits for its PUBLISH is stored, and no two handlers of
  a run wait with the same line), `News` (such a line is not on the page nor under way) and
  `Faithful`: the lines on the page followed by those under way are stored lines, no number twice and,
  while handlers come one after the other, in increasing order; the cells under way have the
  stored verdicts, which by `CellsNeverChangeCorrect` they keep. `DoneShowsAllCorrect` rests on `AllTold`:
  for a page that missed nothing of a run delivered once, each stored line and cell is on the page
  or under way, the `Finished` event comes last and, once it is under way, nobody writes any more
  (`Handled`). That needs `Untouched` (nothing is written before the run is inserted, so nothing
  precedes the click) and `Closing` (the end is announced after the verdict).
* `PriorityProofs`. `RoundsBoundedCorrect` rests on `OfferShrinks` (rounds made plus names
  left never exceed the offer). `FindingsRightCorrect` is the loop invariant of
  `evaluate_order`: the flag and the minimum sum up the prefix that has been read.
  `RecoversPreferenceCorrect` rests on `RecoveryInv`: the order found holds the server's preferences among
  the names withdrawn, in their order, and all of them come before those that remain; a round that
  is answered by another name adds that name and is the last (`AliasStep`).

Only model-checked, because the prover knows neither fairness nor ENABLED: the liveness
properties `EveryTestSettles`, `EveryRunEnds`, `PageStops`, `Terminates`, `PageFillsIn` and
`EveryProbeAnswers`, and the fair refinement `ImplementsAtLeastOnce`, whose safety part is
`ImplementsSafe`.

## 5. Not modelled, and the plan

Left out for good: page layout and translations, health and metrics, read-only endpoints,
deployment files and generators of test data, the TLS clients themselves. The mock backend
answers from a table and keeps no state. Endpoints are seeded like algorithms and only looked
up; `create_endpoint` is one INSERT. Computing CAVP answers in the browser is cryptography.

What could still be proved: the complete type invariants of `NewTest` and `CellPath`; that
`MatrixSound` and `OneVerdict` survive in `LiveRun` under their own names, as the properties of
the queue do in `ProbeTask`; and, as steps towards the liveness properties, that the states in
which each handler waits have the step that the fairness is about.
