----------------------------- MODULE ProbeTask -----------------------------
(***************************************************************************)
(* A PQ-CAS test from its creation to its end: the API commits a test with *)
(* one subtask per cell of the matrix and queues a job for each            *)
(* (routes/tests.rs, queue.rs); the workers take the jobs from the queue   *)
(* of module WorkerQueue and run probe::handle, one step per database or   *)
(* Redis call (probe.rs, store.rs), any of which may fail.                 *)
(*                                                                         *)
(* A job and the subtask it is for have the same name here.                *)
(***************************************************************************)
EXTENDS WorkerQueue

CONSTANTS
    Test,
    TestOf,      \* the test of each subtask
    Adapter,     \* TLS stacks
    Configured,  \* the adapters in each worker's ADAPTERS list
    GroupKnown,  \* subtasks whose group the adapter advertises
    SigKnown,    \* subtasks whose signature algorithm it advertises
    Outcomes     \* what the adapter may answer to the probe of each subtask

\* What an adapter tells the worker: whether the handshake worked, whether any
\* handshake message was seen, whether /capabilities could be had. An adapter
\* that cannot be reached is a failed handshake without messages.
ProbeOutcome == [handshake_success : BOOLEAN, messages : BOOLEAN, capabilities : BOOLEAN]

ASSUME ProbeAssumption ==
    /\ IsFiniteSet(Job)
    /\ \A j \in Job : StreamOf[j] = STREAM_PROBE
    /\ TestOf \in [Job -> Test]
    /\ Configured \in [Worker -> SUBSET Adapter]
    /\ GroupKnown \subseteq Job
    /\ SigKnown \subseteq Job
    /\ Outcomes \in [Job -> (SUBSET ProbeOutcome) \ {{}}]

VARIABLES
    status,   \* tests.status, "none" before the row exists
    outbox,   \* jobs create_test has yet to XADD
    adapter,  \* the adapter in the jobs of each test
    exec,     \* subtasks.exec_status
    result,   \* subtasks.result_status
    report,   \* subtasks.report_status
    at,       \* the next call of each attempt's handler
    verdict,  \* what the handler is about to publish
    counts,   \* what the handler's SELECT in finish_test_if_done returned
    shown,    \* the last SubtaskUpdated event of each subtask
    closed    \* the <<passed, failed>> of each test's TestFinished events

db == <<status, outbox, adapter, exec, result, report>>
local == <<at, verdict, counts>>
events == <<shown, closed>>
pvars == <<db, local, events>>
vars == <<qvars, pvars>>

Subtasks(t) == {j \in Job : TestOf[j] = t}

TestStatus == {"none", "pending", "running", "finished", "failed"}
ExecStatus == {"queued", "running", "finished", "error"}
ResultStatus == {"pending", "passed", "failed", "unsupported", "disabled"}
ReportStatus == {"missing", "partial", "complete"}

\* The calls of probe::handle in their order; `return` is its Ok(()).
Call == {"mark_test", "mark_subtask", "record", "publish", "select", "update",
         "announce", "return"}

NoAdapter == "none"
NoEvent == <<"queued", "pending">>
NoCounts == [passed |-> 0, failed |-> 0, errored |-> 0]

Init ==
    /\ QInit
    /\ status = [t \in Test |-> "none"]
    /\ outbox = [t \in Test |-> {}]
    /\ adapter = [t \in Test |-> NoAdapter]
    /\ exec = [j \in Job |-> "queued"]
    /\ result = [j \in Job |-> "pending"]
    /\ report = [j \in Job |-> "missing"]
    /\ at = [a \in Attempt |-> "mark_test"]
    /\ verdict = [a \in Attempt |-> NoEvent]
    /\ counts = [a \in Attempt |-> NoCounts]
    /\ shown = [j \in Job |-> NoEvent]
    /\ closed = [t \in Test |-> {}]

-----------------------------------------------------------------------------
(***************************************************************************)
(* The API: rows first, in one transaction, then the jobs.                 *)
(***************************************************************************)

\* adapter_for picks the adapter from the names in the request.
create_test(t) ==
    /\ status[t] = "none"
    /\ \E ad \in Adapter : adapter' = [adapter EXCEPT ![t] = ad]
    /\ status' = [status EXCEPT ![t] = "pending"]
    /\ outbox' = [outbox EXCEPT ![t] = Subtasks(t)]
    /\ UNCHANGED <<qvars, exec, result, report, local, events>>

\* One XADD of the pipeline, which is not a transaction.
enqueue_probes(j) ==
    /\ j \in outbox[TestOf[j]]
    /\ outbox' = [outbox EXCEPT ![TestOf[j]] = @ \ {j}]
    /\ Enqueue(j)
    /\ UNCHANGED <<status, adapter, exec, result, report, local, events>>

\* The API process dies, times out or loses Redis with jobs still to send; the
\* rows stay as they are and nothing sends the rest.
ApiFails(t) ==
    /\ outbox[t] # {}
    /\ MaxFaults > 0
    /\ outbox' = [outbox EXCEPT ![t] = {}]
    /\ UNCHANGED <<qvars, status, adapter, exec, result, report, local, events>>

-----------------------------------------------------------------------------
(***************************************************************************)
(* probe::handle                                                           *)
(***************************************************************************)

\* The attempt's handler is at call c and goes on to call d.
Step(a, c, d) == /\ pc[a] = "run"
                 /\ at[a] = c
                 /\ at' = [at EXCEPT ![a] = d]
                 /\ UNCHANGED qvars

\* Defect: the UPDATE without its status condition.
mark_test_running_always(a) ==
    LET t == TestOf[a[1]] IN
    /\ Step(a, "mark_test", "mark_subtask")
    /\ status' = [status EXCEPT ![t] = "running"]
    /\ UNCHANGED <<outbox, adapter, exec, result, report, verdict, counts, events>>

mark_test_running(a) ==
    LET t == TestOf[a[1]] IN
    /\ Step(a, "mark_test", "mark_subtask")
    /\ status' = [status EXCEPT ![t] = IF @ = "pending" THEN "running" ELSE @]
    /\ UNCHANGED <<outbox, adapter, exec, result, report, verdict, counts, events>>

\* Defect: starting a subtask also clears its result.
mark_subtask_running_reset(a) ==
    /\ Step(a, "mark_subtask", "record")
    /\ exec' = [exec EXCEPT ![a[1]] = "running"]
    /\ result' = [result EXCEPT ![a[1]] = "pending"]
    /\ UNCHANGED <<status, outbox, adapter, report, verdict, counts, events>>

\* Not conditional on the current status: a redelivered subtask runs again.
mark_subtask_running(a) ==
    /\ Step(a, "mark_subtask", "record")
    /\ exec' = [exec EXCEPT ![a[1]] = "running"]
    /\ UNCHANGED <<status, outbox, adapter, result, report, verdict, counts, events>>

is_configured(a) == adapter[TestOf[a[1]]] \in Configured[owner[a]]

mark_subtask_error(a) ==
    /\ Step(a, "record", "publish")
    /\ ~is_configured(a)
    /\ exec' = [exec EXCEPT ![a[1]] = "error"]
    /\ result' = [result EXCEPT ![a[1]] = "failed"]
    /\ report' = [report EXCEPT ![a[1]] = "missing"]
    /\ verdict' = [verdict EXCEPT ![a] = <<"error", "disabled">>]
    /\ UNCHANGED <<status, outbox, adapter, counts, events>>

\* Unsupported only when neither of the two offered algorithms is advertised.
classify(j, ok) ==
    CASE j \notin GroupKnown \cup SigKnown -> "unsupported"
      [] j \in GroupKnown \cup SigKnown /\ ok -> "passed"
      [] j \in GroupKnown \cup SigKnown /\ ~ok -> "failed"

ResultOf(j, o) ==
    IF o.capabilities THEN classify(j, o.handshake_success)
    ELSE IF o.handshake_success THEN "passed" ELSE "failed"

ReportOf(o) == IF o.handshake_success \/ o.messages THEN "complete" ELSE "partial"

\* Defect: the report is stored but the subtask row is not updated.
save_report_no_row(a) ==
    /\ Step(a, "record", "publish")
    /\ is_configured(a)
    /\ \E o \in Outcomes[a[1]] :
         /\ report' = [report EXCEPT ![a[1]] = ReportOf(o)]
         /\ verdict' = [verdict EXCEPT ![a] = <<"finished", ResultOf(a[1], o)>>]
    /\ UNCHANGED <<status, outbox, adapter, exec, result, counts, events>>

\* Defect: the handler forgets to publish the update.
save_report_no_event(a) ==
    /\ Step(a, "record", "select")
    /\ is_configured(a)
    /\ \E o \in Outcomes[a[1]] :
         /\ result' = [result EXCEPT ![a[1]] = ResultOf(a[1], o)]
         /\ report' = [report EXCEPT ![a[1]] = ReportOf(o)]
         /\ verdict' = [verdict EXCEPT ![a] = <<"finished", ResultOf(a[1], o)>>]
    /\ exec' = [exec EXCEPT ![a[1]] = "finished"]
    /\ UNCHANGED <<status, outbox, adapter, counts, events>>

\* adapters.probe, classify and the transaction of store::save_report.
save_report(a) ==
    /\ Step(a, "record", "publish")
    /\ is_configured(a)
    /\ \E o \in Outcomes[a[1]] :
         /\ result' = [result EXCEPT ![a[1]] = ResultOf(a[1], o)]
         /\ report' = [report EXCEPT ![a[1]] = ReportOf(o)]
         /\ verdict' = [verdict EXCEPT ![a] = <<"finished", ResultOf(a[1], o)>>]
    /\ exec' = [exec EXCEPT ![a[1]] = "finished"]
    /\ UNCHANGED <<status, outbox, adapter, counts, events>>

publish(a) ==
    /\ Step(a, "publish", "select")
    /\ shown' = [shown EXCEPT ![a[1]] = verdict[a]]
    /\ UNCHANGED <<db, verdict, counts, closed>>

\* Defect: unsupported cells are counted on neither side.
FailedOnly(t) == {j \in Subtasks(t) : result[j] = "failed"}

\* Defect: a subtask that ended in an error counts as outstanding.
OutstandingUnfinished(t) == {j \in Subtasks(t) : exec[j] # "finished"}

Outstanding(t) == {j \in Subtasks(t) : exec[j] \in {"queued", "running"}}
Passed(t) == {j \in Subtasks(t) : result[j] = "passed"}
Failed(t) == {j \in Subtasks(t) : result[j] \in {"failed", "unsupported"}}
Errored(t) == {j \in Subtasks(t) : exec[j] = "error"}

\* finish_test_if_done, first half: one SELECT; nothing more to do while a
\* subtask is outstanding.
select_progress(a) ==
    LET t == TestOf[a[1]] IN
    \/ /\ Outstanding(t) # {}
       /\ Step(a, "select", "return")
       /\ UNCHANGED <<db, verdict, counts, events>>
    \/ /\ Outstanding(t) = {}
       /\ Step(a, "select", "update")
       /\ counts' = [counts EXCEPT ![a] = [passed |-> Cardinality(Passed(t)),
                                           failed |-> Cardinality(Failed(t)),
                                           errored |-> Cardinality(Errored(t))]]
       /\ UNCHANGED <<db, verdict, events>>

\* Defect: only a test that is still pending is closed.
finish_test_pending(a) ==
    LET t == TestOf[a[1]] IN
    /\ Step(a, "update", "announce")
    /\ status' = [status EXCEPT ![t] =
                    IF @ # "pending" THEN @
                    ELSE IF counts[a].errored = Cardinality(Subtasks(t))
                         THEN "failed" ELSE "finished"]
    /\ UNCHANGED <<outbox, adapter, exec, result, report, verdict, counts, events>>

\* Second half: an unconditional UPDATE from the counts read before.
finish_test(a) ==
    LET t == TestOf[a[1]] IN
    /\ Step(a, "update", "announce")
    /\ status' = [status EXCEPT ![t] =
                    IF counts[a].errored = Cardinality(Subtasks(t))
                    THEN "failed" ELSE "finished"]
    /\ UNCHANGED <<outbox, adapter, exec, result, report, verdict, counts, events>>

\* Defect: the counts change places.
announce_swapped(a) ==
    LET t == TestOf[a[1]] IN
    /\ Step(a, "announce", "return")
    /\ closed' = [closed EXCEPT ![t] = @ \cup {<<counts[a].failed, counts[a].passed>>}]
    /\ UNCHANGED <<db, verdict, counts, shown>>

announce(a) ==
    LET t == TestOf[a[1]] IN
    /\ Step(a, "announce", "return")
    /\ closed' = [closed EXCEPT ![t] = @ \cup {<<counts[a].passed, counts[a].failed>>}]
    /\ UNCHANGED <<db, verdict, counts, shown>>

HandleOk(a) == /\ at[a] = "return"
               /\ HandlerReturns(a)
               /\ UNCHANGED pvars

\* Any of the calls fails: `?` skips the rest of the handler.
HandleErr(a) == /\ at[a] # "return"
                /\ HandlerErrs(a)
                /\ UNCHANGED pvars

\* A step of the queue alone. The locals of a handler end with its task.
Elsewhere ==
    /\ at' = [a \in Attempt |-> IF pc'[a] = "over" THEN "mark_test" ELSE at[a]]
    /\ verdict' = [a \in Attempt |-> IF pc'[a] = "over" THEN NoEvent ELSE verdict[a]]
    /\ counts' = [a \in Attempt |-> IF pc'[a] = "over" THEN NoCounts ELSE counts[a]]
    /\ UNCHANGED <<db, events>>

-----------------------------------------------------------------------------

ApiStep == \/ \E t \in Test : create_test(t) \/ ApiFails(t)
           \/ \E j \in Job : enqueue_probes(j)

HandlerStep(a) ==
    \/ mark_test_running(a)
    \/ mark_subtask_running(a)
    \/ mark_subtask_error(a)
    \/ save_report(a)
    \/ publish(a)
    \/ select_progress(a)
    \/ finish_test(a)
    \/ announce(a)
    \/ HandleOk(a)

Next ==
    \/ ApiStep
    \/ \E a \in Attempt : HandlerStep(a) \/ HandleErr(a)
    \/ /\ \/ \E w \in Worker : WorkerStep(w)
          \/ \E a \in Attempt : Ack(a) \/ AckFails(a)
       /\ Elsewhere

Spec == Init /\ [][Next]_vars

\* As in WorkerQueue; the API sends the jobs of a test it has committed.
Fairness ==
    /\ \A j \in Job : WF_vars(enqueue_probes(j))
    /\ \A w \in Worker :
          /\ WF_vars(StartWorker(w) /\ Elsewhere)
          /\ WF_vars(Read(w) /\ Elsewhere)
          /\ WF_vars(Autoclaim(w) /\ Elsewhere)
          /\ WF_vars((\E a \in Attempt : Spawn(w, a)) /\ Elsewhere)
          /\ WF_vars(Exit(w) /\ Elsewhere)
    /\ \A a \in Attempt : WF_vars(HandlerStep(a)) /\ WF_vars(Ack(a) /\ Elsewhere)

FairSpec == Spec /\ Fairness

-----------------------------------------------------------------------------
(***************************************************************************)
(* Properties                                                              *)
(***************************************************************************)

PTypeOK ==
    /\ status \in [Test -> TestStatus]
    /\ outbox \in [Test -> SUBSET Job]
    /\ adapter \in [Test -> Adapter \cup {NoAdapter}]
    /\ exec \in [Job -> ExecStatus]
    /\ result \in [Job -> ResultStatus]
    /\ report \in [Job -> ReportStatus]
    /\ at \in [Attempt -> Call]
    /\ verdict \in [Attempt -> ExecStatus \X ResultStatus]
    /\ counts \in [Attempt -> [passed : Nat, failed : Nat, errored : Nat]]
    /\ shown \in [Job -> ExecStatus \X ResultStatus]
    /\ closed \in [Test -> SUBSET (Nat \X Nat)]

TypeOK == QTypeOK /\ PTypeOK

Closed(t) == status[t] \in {"finished", "failed"}
Settled(j) == exec[j] \in {"finished", "error"}

\* What the two properties below rest on: a settled row has one of the verdicts
\* that are counted, and a handler that found nothing outstanding holds counts
\* of rows that all had a verdict, and still have one.
RowsSound ==
    \A j \in Job : /\ result[j] # "disabled"
                   /\ Settled(j) => result[j] # "pending"

CountsSound ==
    \A a \in Attempt : at[a] \in {"update", "announce"} =>
        /\ \A j \in Subtasks(TestOf[a[1]]) : result[j] # "pending"
        /\ counts[a].passed + counts[a].failed = Cardinality(Subtasks(TestOf[a[1]]))

\* A closed test has a result in every cell, whatever crashes, redeliveries,
\* duplicate handlers and failed calls came before: finish_test_if_done closes
\* it from counts read earlier, and no later step takes a result away.
ClosedHasResults ==
    \A t \in Test : Closed(t) => \A j \in Subtasks(t) : result[j] # "pending"

\* The passed and failed counts of a TestFinished event add up to the subtasks
\* of the test: every verdict that can be stored is counted on one side.
EventCountsAddUp ==
    \A t \in Test : \A c \in closed[t] : c[1] + c[2] = Cardinality(Subtasks(t))

\* The worker never undoes the closing of a test: mark_test_running spares a
\* closed one even when a job is redelivered after the end.
ClosedStaysClosed == [][\A t \in Test : Closed(t) => Closed(t)']_vars

\* main.rs acknowledges a job whether or not its handler failed, so a call that
\* fails may leave an acknowledged subtask without a verdict for good. That is
\* all it can cost: no more subtasks than failed calls end this way, whatever
\* crashes, redeliveries and second handlers happen around them.
Unrecorded == {j \in acked : result[j] = "pending"}
LossBoundedByFaults == Cardinality(Unrecorded) <= faults

\* stream.rs: a dead worker's job is picked up again "instead of leaving a
\* subtask stuck on running forever": a running row has a live attempt or an
\* entry that can still be claimed.
NoStuckRunning ==
    \A j \in Job : exec[j] = "running" =>
        j \in pel \/ \E n \in 1 .. MaxDeliveries : Live(<<j, n>>)

\* Every worker has the adapter of the test.
OnAll(t) == \A w \in Worker : adapter[t] \in Configured[w]

\* A client that was subscribed from the start ends up with the verdict in the
\* database: while no call fails and no job outlasts CLAIM_STALE_MS, the last
\* SubtaskUpdated event of an acknowledged job of a configured adapter carries
\* the two statuses of the row, through crashes between the write and the
\* publish of probe.rs and redeliveries that find another verdict.
LastEventAgrees ==
    \A j \in acked : OnAll(TestOf[j]) => shown[j] = <<exec[j], result[j]>>

\* Without redeliveries, every TestFinished event of a test tells the final
\* counts, although several handlers may each read, close and announce it.
EventsTellTheTruth ==
    (\A j \in Job : deliv[j] <= 1) =>
        \A t \in Test :
            closed[t] \subseteq {<<Cardinality(Passed(t)), Cardinality(Failed(t))>>}

\* The last two subtasks may settle at the same time, and each handler counts
\* what is outstanding only after it has written its own row: at least one of
\* them finds nothing left. Without redeliveries and failed calls, a test whose
\* jobs are all acknowledged is closed, and the page was told its counts.
AllAckedIsClosed ==
    ((\A j \in Job : deliv[j] <= 1) /\ faults = 0) =>
        \A t \in Test : Subtasks(t) # {} /\ Subtasks(t) \subseteq acked =>
            Closed(t) /\ closed[t] # {}

\* A test the API has committed is eventually closed for good, with every
\* subtask settled, through crashes and restarts of the workers.
EveryTestSettles ==
    \A t \in Test : status[t] = "pending" ~>
        [](Closed(t) /\ \A j \in Subtasks(t) : Settled(j))

=============================================================================
