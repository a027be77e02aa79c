------------------------------- MODULE KemRun -------------------------------
(***************************************************************************)
(* A KEM DEMO run from its creation to its end: the API inserts the run    *)
(* and queues one job (api routes/kem.rs); a worker runs kem::handle,      *)
(* which writes a numbered console to kem_run_logs, the cells of the       *)
(* compatibility matrix and finally the status of the run                  *)
(* (worker kem.rs). Console::log and Console::cell write a row and then    *)
(* publish it: two calls, two steps.                                       *)
(*                                                                         *)
(* A job and the run it is for have the same name here. The texts of the   *)
(* console are left out; a line is its number and what kind of line it is. *)
(***************************************************************************)
EXTENDS WorkerQueue

CONSTANTS
    ModeOf,      \* the mode of each run
    Adapter,     \* TLS stacks
    Configured,  \* the adapters in the workers' ADAPTERS list
    Column,      \* the adapter of each matrix cell, in the order they are tried
    Advertised,  \* cells whose KEM the adapter's /capabilities lists
    MaxHeaders,  \* bound: headers of the HTTP response a group run prints
    MaxRounds    \* bound: groups a priority run recovers

Mode == {"library_compat", "group_compat", "priority"}
Cell == DOMAIN Column

ASSUME KemAssumption ==
    /\ \A j \in Job : StreamOf[j] = STREAM_KEM
    /\ ModeOf \in [Job -> Mode]
    /\ Configured \subseteq Adapter
    /\ Column \in Seq(Adapter)
    /\ Advertised \subseteq Cell
    /\ MaxHeaders \in Nat
    /\ MaxRounds \in Nat

VARIABLES
    status,  \* kem_runs.status, "none" before the row exists
    outbox,  \* runs create_run has inserted and not yet queued
    lines,   \* kem_run_logs: the <<seq, kind>> of each run
    cells,   \* kem_matrix_cells: the verdicts of each run
    at,      \* the next call of each attempt's handler
    seq,     \* Console.seq of each attempt
    event,   \* the row it has written and not yet published, or Silence
    left,    \* the cell the handler is at, or the lines it has still to print
    told     \* runs whose Finished event has been published

db == <<status, outbox, lines, cells>>
local == <<at, seq, event, left>>
kvars == <<db, local, told>>
vars == <<qvars, kvars>>

RunStatus == {"none", "pending", "running", "finished", "failed"}
Verdict == {"none", "passed", "failed", "unsupported", "disabled"}
Kind == {"info", "result", "run_failed"}

\* The calls of kem::handle that log a line in the body of a mode, and all.
BodyLog == {"head", "offer", "lines", "no_caps", "cell_line", "result"}
Call == BodyLog \cup {"start", "cell", "cell_no_caps", "run_failed",
                      "finish", "finish_failed", "announce", "return"}

\* An event is its type and what it carries: a line, or a cell and its verdict.
Silence == <<"none", << >>>>
Event == ({"log"} \X (Nat \X Kind)) \cup ({"cell"} \X (Nat \X Verdict))

Numbers(j) == {l[1] : l \in lines[j]}
Has(j, kind) == \E l \in lines[j] : l[2] = kind

Init ==
    /\ QInit
    /\ status = [j \in Job |-> "none"]
    /\ outbox = {}
    /\ lines = [j \in Job |-> {}]
    /\ cells = [j \in Job |-> [c \in Cell |-> "none"]]
    /\ at = [a \in Attempt |-> "start"]
    /\ seq = [a \in Attempt |-> 0]
    /\ event = [a \in Attempt |-> Silence]
    /\ left = [a \in Attempt |-> 0]
    /\ told = {}

-----------------------------------------------------------------------------
(***************************************************************************)
(* The API. Requests that fail validation change nothing.                  *)
(***************************************************************************)

create_run(j) ==
    /\ status[j] = "none"
    /\ status' = [status EXCEPT ![j] = "pending"]
    /\ outbox' = outbox \cup {j}
    /\ UNCHANGED <<qvars, lines, cells, local, told>>

enqueue_kem(j) ==
    /\ j \in outbox
    /\ outbox' = outbox \ {j}
    /\ Enqueue(j)
    /\ UNCHANGED <<status, lines, cells, local, told>>

\* The API process dies, times out or loses Redis before the XADD.
ApiFails(j) ==
    /\ j \in outbox
    /\ outbox' = outbox \ {j}
    /\ UNCHANGED <<qvars, status, lines, cells, local, told>>

-----------------------------------------------------------------------------
(***************************************************************************)
(* kem::handle                                                             *)
(***************************************************************************)

\* The handler is about to make one of the calls C.
In(a, C) == /\ pc[a] = "run"
            /\ event[a] = Silence
            /\ at[a] \in C

\* The handler goes on to call c with counter n.
GoTo(a, c, n) == /\ at' = [at EXCEPT ![a] = c]
                 /\ left' = [left EXCEPT ![a] = n]

\* group_compat and priority give up at once when no adapter is configured.
preferred_adapter(j) == ModeOf[j] = "library_compat" \/ Configured # {}

\* Defect: a redelivered run continues the numbering of its console.
start_resume(a) ==
    LET j == a[1]
        top == IF Numbers(j) = {} THEN 0
               ELSE CHOOSE n \in Numbers(j) : \A m \in Numbers(j) : m <= n
    IN
    /\ In(a, {"start"})
    /\ status' = [status EXCEPT ![j] = "running"]
    /\ seq' = [seq EXCEPT ![a] = top]
    /\ GoTo(a, IF preferred_adapter(j) THEN "head" ELSE "run_failed", 0)
    /\ UNCHANGED <<qvars, outbox, lines, cells, event, told>>

\* The UPDATE is unconditional, and the new Console counts from zero: a
\* redelivered run starts over, whatever it has written before.
start(a) ==
    /\ In(a, {"start"})
    /\ status' = [status EXCEPT ![a[1]] = "running"]
    /\ seq' = [seq EXCEPT ![a] = 0]
    /\ GoTo(a, IF preferred_adapter(a[1]) THEN "head" ELSE "run_failed", 0)
    /\ UNCHANGED <<qvars, outbox, lines, cells, event, told>>

\* Defect: the loop over the cells stops one short.
NextCellShort(c) == IF c + 1 < Len(Column) THEN <<"cell", c + 1>> ELSE <<"result", 0>>

NextCell(c) == IF c < Len(Column) THEN <<"cell", c + 1>> ELSE <<"result", 0>>

\* Lines a group run prints between the offer and its result: none for a
\* handshake without HTTP, one when it failed, the header block otherwise.
GroupLines == {0, 1} \cup {4 + h : h \in 0 .. MaxHeaders}

\* Lines of a priority run: one per recovered group, then one per misplaced
\* group (never the first) or the one that says there is none.
PriorityLines ==
    UNION {{r + f : f \in {1} \cup 1 .. (r - 1)} : r \in 0 .. MaxRounds}

Printing(n) == IF n > 0 THEN <<"lines", n>> ELSE <<"result", 0>>

\* Where the body may go once the line it is at is written. What the adapters
\* answer before the next call is a choice; a priority run fails when
\* /capabilities cannot be had.
After(a) ==
    LET mode == ModeOf[a[1]] IN
    CASE at[a] = "head" /\ mode = "library_compat" -> {NextCell(0)}
      [] at[a] = "head" /\ mode # "library_compat" -> {<<"offer", 0>>}
      [] at[a] = "offer" /\ mode = "group_compat" -> {Printing(n) : n \in GroupLines}
      [] at[a] = "offer" /\ mode # "group_compat" ->
            {Printing(n) : n \in PriorityLines} \cup {<<"run_failed", 0>>}
      [] at[a] = "lines" -> {Printing(left[a] - 1)}
      [] at[a] = "no_caps" -> {<<"cell_no_caps", left[a]>>}
      [] at[a] = "cell_line" -> {NextCell(left[a])}
      [] at[a] = "result" -> {<<"finish", 0>>}
      [] at[a] = "run_failed" -> {<<"finish_failed", 0>>}

KindOf(c) == IF c \in {"result", "run_failed"} THEN c ELSE "info"

\* The number the next line gets, and the row it becomes. The number is taken
\* before the INSERT, so a failed INSERT uses it up.
Number(a) == seq[a] + 1
Taken(a) == Number(a) \in Numbers(a[1])
Count(a) == seq' = [seq EXCEPT ![a] = @ + 1]
Line(a) == <<Number(a), KindOf(at[a])>>
Insert(a) == lines' = [lines EXCEPT ![a[1]] = @ \cup {Line(a)}]

\* The row is written; its event is the next thing the handler has to do.
Writes(a, e) == event' = [event EXCEPT ![a] = e]

\* Console::log: the INSERT.
console_log(a) ==
    /\ In(a, BodyLog \cup {"run_failed"})
    /\ ~Taken(a)
    /\ Count(a)
    /\ Insert(a)
    /\ Writes(a, <<"log", Line(a)>>)
    /\ \E d \in After(a) : GoTo(a, d[1], d[2])
    /\ UNCHANGED <<qvars, status, outbox, cells, told>>

\* Defect: ON CONFLICT DO NOTHING, and the line is published all the same.
log_conflict_ignored(a) ==
    /\ In(a, BodyLog)
    /\ Taken(a)
    /\ Count(a)
    /\ Writes(a, <<"log", Line(a)>>)
    /\ \E d \in After(a) : GoTo(a, d[1], d[2])
    /\ UNCHANGED <<qvars, db, told>>

\* Defect: a run whose console fails is closed without a last line.
log_conflict_silent(a) ==
    /\ In(a, BodyLog)
    /\ Taken(a)
    /\ Count(a)
    /\ GoTo(a, "finish_failed", 0)
    /\ UNCHANGED <<qvars, db, event, told>>

\* The number is in use (primary key run_id, seq): the body ends with an error
\* and the handler tries to log that.
log_conflict(a) ==
    /\ In(a, BodyLog)
    /\ Taken(a)
    /\ Count(a)
    /\ GoTo(a, "run_failed", 0)
    /\ UNCHANGED <<qvars, db, event, told>>

\* The INSERT fails, or only its reply is lost.
log_fails(a) ==
    /\ In(a, BodyLog)
    /\ CallFails(a)
    /\ Count(a)
    /\ \/ UNCHANGED lines
       \/ ~Taken(a) /\ Insert(a)
    /\ GoTo(a, "run_failed", 0)
    /\ UNCHANGED <<status, outbox, cells, event, told>>

IsConfigured(c) == Column[c] \in Configured

\* The adapter does not answer; the cell that follows the line is unsupported.
capabilities_err(a) ==
    /\ In(a, {"cell"})
    /\ IsConfigured(left[a])
    /\ GoTo(a, "no_caps", left[a])
    /\ UNCHANGED <<qvars, db, seq, event, told>>

\* The verdicts the cell at hand can get.
CellVerdict(a) ==
    CASE ~IsConfigured(left[a]) -> {"disabled"}
      [] IsConfigured(left[a]) /\ (at[a] = "cell_no_caps" \/ left[a] \notin Advertised)
            -> {"unsupported"}
      [] IsConfigured(left[a]) /\ at[a] # "cell_no_caps" /\ left[a] \in Advertised
            -> {"passed", "failed"}

Upsert(a, v) == cells' = [cells EXCEPT ![a[1]][left[a]] = v]

\* Defect: the cells of the matrix are counted like lines of the console.
console_cell_counts(a) ==
    /\ In(a, {"cell", "cell_no_caps"})
    /\ \E v \in CellVerdict(a) :
         LET d == IF v \in {"passed", "failed"} THEN <<"cell_line", left[a]>>
                  ELSE NextCell(left[a])
         IN /\ Upsert(a, v)
            /\ Writes(a, <<"cell", <<left[a], v>>>>)
            /\ GoTo(a, d[1], d[2])
    /\ Count(a)
    /\ UNCHANGED <<qvars, status, outbox, lines, told>>

\* Console::cell: the upsert; a probed cell also gets a line.
console_cell(a) ==
    /\ In(a, {"cell", "cell_no_caps"})
    /\ \E v \in CellVerdict(a) :
         LET d == IF v \in {"passed", "failed"} THEN <<"cell_line", left[a]>>
                  ELSE NextCell(left[a])
         IN /\ Upsert(a, v)
            /\ Writes(a, <<"cell", <<left[a], v>>>>)
            /\ GoTo(a, d[1], d[2])
    /\ UNCHANGED <<qvars, status, outbox, lines, seq, told>>

\* The upsert fails, or only its reply is lost.
cell_fails(a) ==
    /\ In(a, {"cell", "cell_no_caps"})
    /\ CallFails(a)
    /\ \/ UNCHANGED cells
       \/ \E v \in CellVerdict(a) : Upsert(a, v)
    /\ GoTo(a, "run_failed", 0)
    /\ UNCHANGED <<status, outbox, lines, seq, event, told>>

\* Console::log and Console::cell: the PUBLISH, and the handler goes on.
publish(a) ==
    /\ pc[a] = "run"
    /\ event[a] # Silence
    /\ event' = [event EXCEPT ![a] = Silence]
    /\ UNCHANGED <<qvars, db, at, seq, left, told>>

\* The PUBLISH fails: the row stays, the body ends with an error.
publish_fails(a) ==
    /\ event[a] # Silence
    /\ at[a] # "finish_failed"
    /\ CallFails(a)
    /\ event' = [event EXCEPT ![a] = Silence]
    /\ GoTo(a, "run_failed", 0)
    /\ UNCHANGED <<db, seq, told>>

\* Console::finish: an unconditional UPDATE, then the event.
finish(a) ==
    /\ In(a, {"finish", "finish_failed"})
    /\ status' = [status EXCEPT ![a[1]] =
                    IF at[a] = "finish" THEN "finished" ELSE "failed"]
    /\ GoTo(a, "announce", 0)
    /\ UNCHANGED <<qvars, outbox, lines, cells, seq, event, told>>

\* Defect: nobody is told of a run that failed.
announce_finished(a) ==
    /\ In(a, {"announce"})
    /\ told' = IF status[a[1]] = "finished" THEN told \cup {a[1]} ELSE told
    /\ GoTo(a, "return", 0)
    /\ UNCHANGED <<qvars, db, seq, event>>

announce(a) ==
    /\ In(a, {"announce"})
    /\ told' = told \cup {a[1]}
    /\ GoTo(a, "return", 0)
    /\ UNCHANGED <<qvars, db, seq, event>>

\* The handler returns: at its end, or with an error when even the line that
\* reports the error collides with one of an earlier attempt.
HandleEnds(a) ==
    /\ event[a] = Silence
    /\ \/ at[a] = "return"
       \/ at[a] = "run_failed" /\ Taken(a)
    /\ HandlerReturns(a)
    /\ UNCHANGED kvars

\* A call outside the body fails, the INSERT (or only its reply) and the PUBLISH
\* of the line that reports an error included: `?` ends the handler.
HandleErr(a) ==
    /\ \/ In(a, {"start", "run_failed", "finish", "finish_failed", "announce"})
       \/ event[a] # Silence /\ at[a] = "finish_failed"
    /\ HandlerErrs(a)
    /\ \/ UNCHANGED lines
       \/ at[a] = "run_failed" /\ ~Taken(a) /\ Insert(a)
    /\ UNCHANGED <<status, outbox, cells, local, told>>

\* A step of the queue alone. The Console of a handler ends with its task.
Elsewhere ==
    /\ at' = [a \in Attempt |-> IF pc'[a] = "over" THEN "start" ELSE at[a]]
    /\ seq' = [a \in Attempt |-> IF pc'[a] = "over" THEN 0 ELSE seq[a]]
    /\ event' = [a \in Attempt |-> IF pc'[a] = "over" THEN Silence ELSE event[a]]
    /\ left' = [a \in Attempt |-> IF pc'[a] = "over" THEN 0 ELSE left[a]]
    /\ UNCHANGED <<db, told>>

-----------------------------------------------------------------------------

ApiStep == \E j \in Job : create_run(j) \/ enqueue_kem(j) \/ ApiFails(j)

HandlerStep(a) ==
    \/ start(a)
    \/ console_log(a)
    \/ log_conflict(a)
    \/ capabilities_err(a)
    \/ console_cell(a)
    \/ publish(a)
    \/ finish(a)
    \/ announce(a)
    \/ HandleEnds(a)

HandlerFault(a) ==
    \/ log_fails(a)
    \/ cell_fails(a)
    \/ publish_fails(a)
    \/ HandleErr(a)

QueueStep ==
    /\ \/ \E w \in Worker : WorkerStep(w)
       \/ \E a \in Attempt : Ack(a) \/ AckFails(a)
    /\ Elsewhere

Next ==
    \/ ApiStep
    \/ \E a \in Attempt : HandlerStep(a) \/ HandlerFault(a)
    \/ QueueStep

Spec == Init /\ [][Next]_vars

\* As in WorkerQueue; the API queues the run it has inserted.
Fairness ==
    /\ \A j \in Job : WF_vars(enqueue_kem(j))
    /\ \A w \in Worker :
          /\ WF_vars(StartWorker(w) /\ Elsewhere)
          /\ WF_vars(Read(w) /\ Elsewhere)
          /\ WF_vars(Autoclaim(w) /\ Elsewhere)
          /\ WF_vars((\E a \in Attempt : Spawn(w, a)) /\ Elsewhere)
          /\ WF_vars(Exit(w) /\ Elsewhere)
    /\ \A a \in Attempt : WF_vars(HandlerStep(a)) /\ WF_vars(Ack(a) /\ Elsewhere)

FairSpec == Spec /\ Fairness

-----------------------------------------------------------------------------
(***************************************************************************)
(* Properties                                                              *)
(***************************************************************************)

KTypeOK ==
    /\ status \in [Job -> RunStatus]
    /\ outbox \subseteq Job
    /\ lines \in [Job -> SUBSET (Nat \X Kind)]
    /\ cells \in [Job -> [Cell -> Verdict]]
    /\ at \in [Attempt -> Call]
    /\ seq \in [Attempt -> Nat]
    /\ event \in [Attempt -> Event \cup {Silence}]
    /\ left \in [Attempt -> Nat]
    /\ told \subseteq Job

TypeOK == QTypeOK /\ KTypeOK

Ended(j) == status[j] \in {"finished", "failed"}

\* The console of a run has no holes: without failed calls its lines are
\* numbered 1, 2, 3, ..., even when crashes and overruns make several handlers
\* write to it, each counting from one (Console::log and the primary key).
LogContiguous ==
    faults = 0 => \A j \in Job : \A m \in Numbers(j) : 1 .. m \subseteq Numbers(j)

\* What LogContiguous rests on: a handler has only counted numbers that exist.
CountedLinesExist ==
    faults = 0 => \A a \in Attempt : 1 .. seq[a] \subseteq Numbers(a[1])

\* A run that has ended tells how: its console has the line its status was set
\* after, through crashes, duplicate handlers and failed calls.
EndedHasVerdict ==
    \A j \in Job : /\ status[j] = "finished" => Has(j, "result")
                   /\ status[j] = "failed" => Has(j, "run_failed")

\* What is about to be published is stored, as it is published.
EventsAreStored ==
    \A a \in Attempt : \/ event[a] = Silence
                       \/ event[a][1] = "log" /\ event[a][2] \in lines[a[1]]
                       \/ /\ event[a][1] = "cell" /\ event[a][2][1] \in Cell
                          /\ cells[a[1]][event[a][2][1]] = event[a][2][2]

\* What EndedHasVerdict rests on: the last line precedes the UPDATE.
VerdictBeforeFinish ==
    \A a \in Attempt : /\ at[a] = "finish" => Has(a[1], "result")
                       /\ at[a] = "finish_failed" => Has(a[1], "run_failed")

\* Redelivery never gives a run a second verdict: without failed calls and
\* overruns its console holds at most one line that says how it ended.
OneVerdict ==
    (faults = 0 /\ ~Overrun) =>
        \A j \in Job : \A l, m \in lines[j] :
            l[2] # "info" /\ m[2] # "info" => l = m

\* A finished library run has a verdict in every cell of its matrix: disabled
\* exactly for adapters that are not configured ("rather than as failures",
\* kem.rs), passed or failed only where the adapter advertises the KEM.
MatrixSound ==
    \A j \in Job : (ModeOf[j] = "library_compat" /\ status[j] = "finished") =>
        \A c \in Cell : /\ cells[j][c] # "none"
                        /\ cells[j][c] = "disabled" <=> ~IsConfigured(c)
                        /\ cells[j][c] \in {"passed", "failed"} => c \in Advertised

\* Every run the API has queued ends for good and its watchers are told, unless
\* a worker halts on the way (or a call fails).
EveryRunEnds ==
    \A j \in Job : j \in Enqueued ~>
        [](Ended(j) /\ j \in told) \/ halts + faults > 0

\* main.rs acknowledges either way because "failures are already recorded on
\* the subtask/run row": an acknowledged run has ended.
AckedIsEnded == \A j \in acked : Ended(j)

=============================================================================
