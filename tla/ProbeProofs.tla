---------------------------- MODULE ProbeProofs ----------------------------
(***************************************************************************)
(* Proofs about ProbeTask, for every number of tests, subtasks, adapters   *)
(* and workers, with crashes, redeliveries, handlers of one subtask side   *)
(* by side (Overrun) and failed calls.                                     *)
(***************************************************************************)
EXTENDS ProbeTask, QueueProofs

-----------------------------------------------------------------------------
(***************************************************************************)
(* The queue below the tests is the queue of WorkerQueue.                  *)
(***************************************************************************)

\* A step of the handlers, the API or the queue is a step of the queue or
\* leaves it alone.
LEMMA QueueStep == [Next]_vars => [QNext]_qvars
<1> SUFFICES ASSUME Next PROVE QNext \/ UNCHANGED qvars
  BY DEF vars
<1>1. CASE ApiStep
  <2>1. ASSUME NEW t \in Test, create_test(t) \/ ApiFails(t) PROVE UNCHANGED qvars
    BY <2>1 DEF create_test, ApiFails
  <2>2. ASSUME NEW j \in Job, enqueue_probes(j) PROVE QNext
    BY <2>2 DEF enqueue_probes, QNext
  <2>3. QED BY <1>1, <2>1, <2>2 DEF ApiStep
<1>2. ASSUME NEW a \in Attempt, HandlerStep(a) PROVE QNext \/ UNCHANGED qvars
  <2>1. CASE HandleOk(a)
    BY <2>1 DEF HandleOk, QNext
  <2>2. ASSUME NEW c, NEW d, Step(a, c, d) PROVE UNCHANGED qvars
    BY <2>2 DEF Step
  <2>3. QED
    BY <1>2, <2>1, <2>2 DEF HandlerStep, mark_test_running, mark_subtask_running,
       mark_subtask_error, save_report, publish, select_progress, finish_test, announce
<1>3. ASSUME NEW a \in Attempt, HandleErr(a) PROVE QNext
  BY <1>3 DEF HandleErr, QNext
<1>4. CASE (\E w \in Worker : WorkerStep(w)) \/ \E a \in Attempt : Ack(a) \/ AckFails(a)
  BY <1>4 DEF QNext
<1>5. QED BY <1>1, <1>2, <1>3, <1>4 DEF Next

\* Whatever is proved of the queue holds of the tests that use it.
THEOREM ImplementsQueue == Spec => QSpec
<1>1. Init => QInit
  BY DEF Init
<1>2. QED BY <1>1, QueueStep, PTL DEF Spec, QSpec

-----------------------------------------------------------------------------
(***************************************************************************)
(* Types                                                                   *)
(***************************************************************************)

\* The verdicts classify and its fallback can give.
LEMMA ResultType ==
    ASSUME NEW j \in Job, NEW o \in ProbeOutcome
    PROVE  ResultOf(j, o) \in {"passed", "failed", "unsupported"}
<1>1. o.handshake_success \in BOOLEAN /\ o.capabilities \in BOOLEAN
  BY DEF ProbeOutcome
<1>2. classify(j, o.handshake_success) \in {"passed", "failed", "unsupported"}
  BY <1>1 DEF classify
<1>3. QED BY <1>1, <1>2 DEF ResultOf

\* What save_report writes comes from an answer the adapter may give.
LEMMA SavedOutcome ==
    ASSUME NEW a \in Attempt, save_report(a)
    PROVE  \E o \in ProbeOutcome :
              /\ result' = [result EXCEPT ![a[1]] = ResultOf(a[1], o)]
              /\ report' = [report EXCEPT ![a[1]] = ReportOf(o)]
              /\ verdict' = [verdict EXCEPT ![a] = <<"finished", ResultOf(a[1], o)>>]
<1>1. Outcomes[a[1]] \subseteq ProbeOutcome
  BY AttemptParts, ProbeAssumption
<1>2. QED BY <1>1 DEF save_report

\* The counts of a SELECT are natural numbers.
LEMMA CountsType ==
    ASSUME NEW t \in Test
    PROVE  [passed |-> Cardinality(Passed(t)), failed |-> Cardinality(Failed(t)),
            errored |-> Cardinality(Errored(t))]
              \in [passed : Nat, failed : Nat, errored : Nat]
<1>1. /\ Passed(t) \subseteq Job
      /\ Failed(t) \subseteq Job
      /\ Errored(t) \subseteq Job
  BY DEF Passed, Failed, Errored, Subtasks
<1>2. /\ IsFiniteSet(Passed(t))
      /\ IsFiniteSet(Failed(t))
      /\ IsFiniteSet(Errored(t))
  BY <1>1, FS_Subset, ProbeAssumption
<1>3. QED BY <1>2, FS_CardinalityType

\* A step of the queue alone keeps the types of the locals.
LEMMA ElsewhereType == ASSUME PTypeOK, Elsewhere PROVE PTypeOK'
BY DEF PTypeOK, Elsewhere, db, events, Call, NoEvent, NoCounts, ExecStatus, ResultStatus

\* Types are kept by each call of the handler.
LEMMA HandlerType ==
    ASSUME PTypeOK, NEW a \in Attempt, HandlerStep(a)
    PROVE  PTypeOK'
<1>0. a[1] \in Job /\ TestOf[a[1]] \in Test
  BY AttemptParts, ProbeAssumption
<1>1. ASSUME NEW c, NEW d \in Call, Step(a, c, d) PROVE at' \in [Attempt -> Call]
  BY <1>1 DEF Step, PTypeOK
<1>2. CASE mark_test_running(a)
  BY <1>0, <1>1, <1>2 DEF mark_test_running, PTypeOK, events, TestStatus, Call
<1>3. CASE mark_subtask_running(a)
  BY <1>0, <1>1, <1>3 DEF mark_subtask_running, PTypeOK, events, ExecStatus, Call
<1>4. CASE mark_subtask_error(a)
  BY <1>0, <1>1, <1>4 DEF mark_subtask_error, PTypeOK, events, ExecStatus, ResultStatus,
     ReportStatus, Call
<1>5. CASE save_report(a)
  <2>1. PICK o \in ProbeOutcome :
           /\ result' = [result EXCEPT ![a[1]] = ResultOf(a[1], o)]
           /\ report' = [report EXCEPT ![a[1]] = ReportOf(o)]
           /\ verdict' = [verdict EXCEPT ![a] = <<"finished", ResultOf(a[1], o)>>]
    BY <1>5, SavedOutcome
  <2>2. ResultOf(a[1], o) \in ResultStatus /\ ReportOf(o) \in ReportStatus
    BY <1>0, ResultType DEF ResultStatus, ReportOf, ReportStatus
  <2>3. at' \in [Attempt -> Call]
    BY <1>1, <1>5 DEF save_report, Call
  <2>4. QED
    BY <1>0, <1>5, <2>1, <2>2, <2>3 DEF save_report, PTypeOK, events, ExecStatus
<1>6. CASE publish(a)
  BY <1>0, <1>1, <1>6 DEF publish, PTypeOK, db, Call
<1>7. CASE select_progress(a)
  <2>1. at' \in [Attempt -> Call]
    BY <1>1, <1>7 DEF select_progress, Call
  <2>2. counts' \in [Attempt -> [passed : Nat, failed : Nat, errored : Nat]]
    BY <1>0, <1>7, CountsType DEF select_progress, PTypeOK
  <2>3. QED BY <1>7, <2>1, <2>2 DEF select_progress, PTypeOK, db, events
<1>8. CASE finish_test(a)
  BY <1>0, <1>1, <1>8 DEF finish_test, PTypeOK, events, TestStatus, Call
<1>9. CASE announce(a)
  <2>1. <<counts[a].passed, counts[a].failed>> \in Nat \X Nat
    BY DEF PTypeOK
  <2>2. at' \in [Attempt -> Call]
    BY <1>1, <1>9 DEF announce, Call
  <2>3. QED BY <1>0, <1>9, <2>1, <2>2 DEF announce, PTypeOK, db
<1>10. CASE HandleOk(a)
  BY <1>10 DEF HandleOk, pvars, db, local, events, PTypeOK
<1>11. QED
  BY <1>2, <1>3, <1>4, <1>5, <1>6, <1>7, <1>8, <1>9, <1>10 DEF HandlerStep

\* Every reachable state of the whole system is well typed.
THEOREM TypeCorrect == Spec => []TypeOK
<1>1. Init => PTypeOK
  BY DEF Init, PTypeOK, TestStatus, ExecStatus, ResultStatus, ReportStatus, Call,
     NoEvent, NoCounts
<1>2. PTypeOK /\ [Next]_vars => PTypeOK'
  <2> SUFFICES ASSUME PTypeOK, [Next]_vars PROVE PTypeOK'
    OBVIOUS
  <2>1. ASSUME NEW t \in Test, create_test(t) \/ ApiFails(t) PROVE PTypeOK'
    <3>1. ASSUME NEW ad \in Adapter, adapter' = [adapter EXCEPT ![t] = ad]
          PROVE  adapter' \in [Test -> Adapter \cup {NoAdapter}]
      BY <3>1 DEF PTypeOK
    <3>2. CASE create_test(t)
      <4>1. adapter' \in [Test -> Adapter \cup {NoAdapter}]
        BY <3>1, <3>2 DEF create_test
      <4>2. QED BY <3>2, <4>1 DEF create_test, PTypeOK, local, events, TestStatus, Subtasks
    <3>3. CASE ApiFails(t)
      BY <3>3 DEF ApiFails, PTypeOK, local, events
    <3>4. QED BY <2>1, <3>2, <3>3
  <2>2. ASSUME NEW j \in Job, enqueue_probes(j) PROVE PTypeOK'
    BY <2>2, ProbeAssumption DEF enqueue_probes, PTypeOK, local, events
  <2>3. ASSUME NEW a \in Attempt, HandleErr(a) PROVE PTypeOK'
    BY <2>3 DEF HandleErr, pvars, db, local, events, PTypeOK
  <2>4. CASE UNCHANGED vars
    BY <2>4 DEF vars, pvars, db, local, events, PTypeOK
  <2>5. QED
    BY <2>1, <2>2, <2>3, <2>4, HandlerType, ElsewhereType DEF Next, ApiStep
<1>3. QED BY <1>1, <1>2, ImplementsQueue, QTypeCorrect, PTL DEF Spec, TypeOK

-----------------------------------------------------------------------------
(***************************************************************************)
(* A closed test has a verdict in every cell, and its counts add up.       *)
(***************************************************************************)

\* When every subtask has a verdict, passed and failed split them.
LEMMA VerdictsAddUp ==
    ASSUME PTypeOK, RowsSound, NEW t \in Test,
           \A j \in Subtasks(t) : result[j] # "pending"
    PROVE  Cardinality(Passed(t)) + Cardinality(Failed(t)) = Cardinality(Subtasks(t))
<1>1. Passed(t) \cup Failed(t) = Subtasks(t)
  BY DEF Passed, Failed, Subtasks, RowsSound, PTypeOK, ResultStatus
<1>2. Passed(t) \cap Failed(t) = {}
  BY DEF Passed, Failed
<1>3. IsFiniteSet(Passed(t)) /\ IsFiniteSet(Failed(t))
  <2>1. Passed(t) \subseteq Job /\ Failed(t) \subseteq Job
    BY DEF Passed, Failed, Subtasks
  <2>2. QED BY <2>1, FS_Subset, ProbeAssumption
<1>4. Cardinality(Subtasks(t)) = Cardinality(Passed(t)) + Cardinality(Failed(t))
                                 - Cardinality({})
  BY <1>1, <1>2, <1>3, FS_Union
<1>5. /\ Cardinality({}) = 0
      /\ Cardinality(Passed(t)) \in Nat
      /\ Cardinality(Failed(t)) \in Nat
  BY <1>3, FS_EmptySet, FS_CardinalityType
<1>6. QED BY <1>4, <1>5

\* What any step may do to the rows: a verdict is never withdrawn, and a row
\* that settles gets one.
LEMMA RowsStep ==
    ASSUME PTypeOK, RowsSound, [Next]_vars
    PROVE  /\ RowsSound'
           /\ \A j \in Job : result[j] # "pending" => result'[j] # "pending"
<1> DEFINE Kept == /\ RowsSound'
                   /\ \A j \in Job : result[j] # "pending" => result'[j] # "pending"
<1>1. ASSUME UNCHANGED <<exec, result>> PROVE Kept
  BY <1>1 DEF RowsSound, Settled
<1>2. ASSUME NEW a \in Attempt, mark_subtask_running(a) PROVE Kept
  BY <1>2, AttemptParts DEF mark_subtask_running, RowsSound, Settled, PTypeOK
<1>3. ASSUME NEW a \in Attempt, mark_subtask_error(a) PROVE Kept
  BY <1>3, AttemptParts DEF mark_subtask_error, RowsSound, Settled, PTypeOK
<1>4. ASSUME NEW a \in Attempt, save_report(a) PROVE Kept
  <2>1. a[1] \in Job
    BY AttemptParts
  <2>2. PICK r \in {"passed", "failed", "unsupported"} :
           result' = [result EXCEPT ![a[1]] = r]
    BY <1>4, <2>1, SavedOutcome, ResultType
  <2>3. exec' = [exec EXCEPT ![a[1]] = "finished"]
    BY <1>4 DEF save_report
  <2>4. QED BY <2>1, <2>2, <2>3 DEF RowsSound, Settled, PTypeOK
<1>5. ASSUME ApiStep \/ Elsewhere \/ UNCHANGED vars PROVE UNCHANGED <<exec, result>>
  BY <1>5 DEF ApiStep, create_test, ApiFails, enqueue_probes, Elsewhere, vars, pvars, db
<1>6. ASSUME NEW a \in Attempt,
             \/ mark_test_running(a) \/ publish(a) \/ select_progress(a)
             \/ finish_test(a) \/ announce(a) \/ HandleOk(a) \/ HandleErr(a)
      PROVE  UNCHANGED <<exec, result>>
  BY <1>6 DEF mark_test_running, publish, select_progress, finish_test, announce,
     HandleOk, HandleErr, pvars, db
<1>7. Kept
  <2> HIDE DEF Kept
  <2>1. QED BY <1>1, <1>2, <1>3, <1>4, <1>5, <1>6 DEF Next, HandlerStep
<1>8. QED BY <1>7

\* A handler gets to the UPDATE only with counts of settled rows.
LEMMA CountsStep ==
    ASSUME PTypeOK, RowsSound, CountsSound, [Next]_vars
    PROVE  CountsSound'
<1> DEFINE Sound(a) == /\ \A j \in Subtasks(TestOf[a[1]]) : result[j] # "pending"
                       /\ counts[a].passed + counts[a].failed
                             = Cardinality(Subtasks(TestOf[a[1]]))
<1>0. \A j \in Job : result[j] # "pending" => result'[j] # "pending"
  BY RowsStep
<1>1. ASSUME NEW a \in Attempt,
             at'[a] \in {"update", "announce"} =>
                at[a] \in {"update", "announce"} /\ counts'[a] = counts[a]
      PROVE  at'[a] \in {"update", "announce"} => Sound(a)'
  BY <1>0, <1>1 DEF CountsSound, Subtasks
<1>2. ASSUME NEW a \in Attempt, select_progress(a) PROVE CountsSound'
  <2>0. a[1] \in Job /\ TestOf[a[1]] \in Test
    BY AttemptParts, ProbeAssumption
  <2>1. result' = result
    BY <1>2 DEF select_progress, db
  <2>2. ASSUME NEW b \in Attempt, b # a
        PROVE  at'[b] = at[b] /\ counts'[b] = counts[b]
    BY <1>2, <2>2 DEF select_progress, Step, PTypeOK
  <2>3. CASE Outstanding(TestOf[a[1]]) = {}
    <3>1. \A j \in Subtasks(TestOf[a[1]]) : result[j] # "pending"
      BY <2>3 DEF Outstanding, RowsSound, Settled, PTypeOK, ExecStatus, Subtasks
    <3>2. /\ counts'[a].passed = Cardinality(Passed(TestOf[a[1]]))
          /\ counts'[a].failed = Cardinality(Failed(TestOf[a[1]]))
      BY <1>2, <2>3 DEF select_progress, PTypeOK
    <3>3. Sound(a)'
      BY <2>0, <2>1, <3>1, <3>2, VerdictsAddUp DEF Subtasks
    <3>4. QED BY <1>1, <2>2, <3>3 DEF CountsSound
  <2>4. CASE Outstanding(TestOf[a[1]]) # {}
    <3>1. at'[a] = "return"
      BY <1>2, <2>4 DEF select_progress, Step, PTypeOK
    <3>2. QED BY <1>1, <2>2, <3>1 DEF CountsSound
  <2>5. QED BY <2>3, <2>4
<1>3. ASSUME NEW a \in Attempt, HandlerStep(a), ~select_progress(a) PROVE CountsSound'
  <2>1. counts' = counts
    BY <1>3 DEF HandlerStep, mark_test_running, mark_subtask_running, mark_subtask_error,
       save_report, publish, finish_test, announce, HandleOk, pvars, local
  <2>2. \A b \in Attempt : at'[b] \in {"update", "announce"} =>
                              at[b] \in {"update", "announce"}
    BY <1>3 DEF HandlerStep, mark_test_running, mark_subtask_running, mark_subtask_error,
       save_report, publish, finish_test, announce, HandleOk, Step, pvars, local, PTypeOK
  <2>3. QED BY <1>1, <2>1, <2>2 DEF CountsSound
<1>4. ASSUME Elsewhere PROVE CountsSound'
  BY <1>1, <1>4 DEF Elsewhere, CountsSound
<1>5. ASSUME ApiStep \/ UNCHANGED vars \/ \E a \in Attempt : HandleErr(a)
      PROVE  CountsSound'
  <2>1. UNCHANGED <<at, counts>>
    BY <1>5 DEF ApiStep, create_test, ApiFails, enqueue_probes, HandleErr, vars, pvars, local
  <2>2. QED BY <1>1, <2>1 DEF CountsSound
<1>6. QED BY <1>2, <1>3, <1>4, <1>5 DEF Next

\* Only the UPDATE of finish_test_if_done closes a test.
LEMMA StatusStep ==
    ASSUME PTypeOK, [Next]_vars, NEW t \in Test
    PROVE  \/ Closed(t)' = Closed(t)
           \/ /\ Closed(t)'
              /\ \E a \in Attempt : at[a] = "update" /\ TestOf[a[1]] = t
<1>1. ASSUME status'[t] = status[t] PROVE Closed(t)' = Closed(t)
  BY <1>1 DEF Closed
<1>2. ASSUME NEW a \in Attempt, mark_test_running(a) PROVE Closed(t)' = Closed(t)
  BY <1>2 DEF mark_test_running, Closed, PTypeOK
<1>3. ASSUME NEW a \in Attempt, finish_test(a)
      PROVE  \/ status'[t] = status[t]
             \/ Closed(t)' /\ at[a] = "update" /\ TestOf[a[1]] = t
  BY <1>3 DEF finish_test, Step, Closed, PTypeOK
<1>4. ASSUME NEW u \in Test, create_test(u) PROVE Closed(t)' = Closed(t)
  BY <1>4 DEF create_test, Closed, PTypeOK
<1>5. ASSUME NEW a \in Attempt, HandlerStep(a), ~mark_test_running(a), ~finish_test(a)
      PROVE  status'[t] = status[t]
  BY <1>5 DEF HandlerStep, mark_subtask_running, mark_subtask_error, save_report, publish,
     select_progress, announce, HandleOk, pvars, db
<1>6. ASSUME \/ \E u \in Test : ApiFails(u)
             \/ \E j \in Job : enqueue_probes(j)
             \/ \E a \in Attempt : HandleErr(a)
             \/ Elsewhere
             \/ UNCHANGED vars
      PROVE  status'[t] = status[t]
  BY <1>6 DEF ApiFails, enqueue_probes, HandleErr, Elsewhere, vars, pvars, db
<1>7. QED BY <1>1, <1>2, <1>3, <1>4, <1>5, <1>6 DEF Next, ApiStep

\* A test is closed only from sound counts, and stays complete.
LEMMA ClosedStep ==
    ASSUME PTypeOK, RowsSound, CountsSound, ClosedHasResults, [Next]_vars
    PROVE  ClosedHasResults'
<1> SUFFICES ASSUME NEW t \in Test, Closed(t)', NEW j \in Subtasks(t)
             PROVE  result'[j] # "pending"
  BY DEF ClosedHasResults, Subtasks
<1>1. j \in Job
  BY DEF Subtasks
<1>2. result[j] # "pending"
  <2>1. CASE Closed(t)
    BY <2>1 DEF ClosedHasResults
  <2>2. CASE ~Closed(t)
    <3>1. PICK a \in Attempt : at[a] = "update" /\ TestOf[a[1]] = t
      BY <2>2, StatusStep
    <3>2. QED BY <3>1 DEF CountsSound
  <2>3. QED BY <2>1, <2>2
<1>3. QED BY <1>1, <1>2, RowsStep

\* A TestFinished event carries sound counts.
LEMMA EventStep ==
    ASSUME PTypeOK, CountsSound, EventCountsAddUp, [Next]_vars
    PROVE  EventCountsAddUp'
<1>1. ASSUME NEW a \in Attempt, announce(a) PROVE EventCountsAddUp'
  <2>1. TestOf[a[1]] \in Test
    BY AttemptParts, ProbeAssumption
  <2>2. counts[a].passed + counts[a].failed = Cardinality(Subtasks(TestOf[a[1]]))
    BY <1>1 DEF announce, Step, CountsSound
  <2>3. closed' = [closed EXCEPT ![TestOf[a[1]]] =
                     @ \cup {<<counts[a].passed, counts[a].failed>>}]
    BY <1>1 DEF announce
  <2>4. ASSUME NEW t \in Test, NEW c \in closed'[t]
        PROVE  c[1] + c[2] = Cardinality(Subtasks(t))
    <3>1. CASE c \in closed[t]
      BY <3>1 DEF EventCountsAddUp
    <3>2. CASE c \notin closed[t]
      <4>1. t = TestOf[a[1]] /\ c = <<counts[a].passed, counts[a].failed>>
        BY <2>1, <2>3, <2>4, <3>2 DEF PTypeOK
      <4>2. QED BY <2>2, <4>1
    <3>3. QED BY <3>1, <3>2
  <2>5. QED BY <2>4 DEF EventCountsAddUp, Subtasks
<1>2. ASSUME closed' = closed PROVE EventCountsAddUp'
  BY <1>2 DEF EventCountsAddUp, Subtasks
<1>3. ASSUME NEW a \in Attempt, HandlerStep(a), ~announce(a) PROVE closed' = closed
  BY <1>3 DEF HandlerStep, mark_test_running, mark_subtask_running, mark_subtask_error,
     save_report, publish, select_progress, finish_test, HandleOk, pvars, events
<1>4. ASSUME ApiStep \/ Elsewhere \/ UNCHANGED vars \/ \E a \in Attempt : HandleErr(a)
      PROVE  closed' = closed
  BY <1>4 DEF ApiStep, create_test, ApiFails, enqueue_probes, Elsewhere, HandleErr, vars,
     pvars, events
<1>5. QED BY <1>1, <1>2, <1>3, <1>4 DEF Next

\* The inductive invariant behind the two theorems that follow.
LEMMA VerdictInvariant ==
    Spec => [](PTypeOK /\ RowsSound /\ CountsSound /\ ClosedHasResults /\ EventCountsAddUp)
<1>1. Init => RowsSound /\ CountsSound /\ ClosedHasResults /\ EventCountsAddUp
  BY DEF Init, RowsSound, CountsSound, ClosedHasResults, EventCountsAddUp, Settled, Closed
<1>2. /\ PTypeOK /\ RowsSound /\ CountsSound /\ ClosedHasResults /\ EventCountsAddUp
      /\ [Next]_vars
      => (RowsSound /\ CountsSound /\ ClosedHasResults /\ EventCountsAddUp)'
  BY RowsStep, CountsStep, ClosedStep, EventStep
<1>3. TypeOK => PTypeOK
  BY DEF TypeOK
<1>4. QED BY <1>1, <1>2, <1>3, TypeCorrect, PTL DEF Spec

\* A closed test has a result in every cell: no crash, redelivery, duplicate
\* handler or failed call makes finish_test_if_done close a test too early, and
\* nothing takes a result away afterwards.
THEOREM ClosedHasResultsCorrect == Spec => []ClosedHasResults
BY VerdictInvariant, PTL

\* Every TestFinished event accounts for every subtask of its test.
THEOREM EventCountsCorrect == Spec => []EventCountsAddUp
BY VerdictInvariant, PTL

\* No step reopens a closed test, a redelivery after the end included.
THEOREM ClosedStaysClosedCorrect == Spec => ClosedStaysClosed
<1>1. PTypeOK /\ [Next]_vars => [\A t \in Test : Closed(t) => Closed(t)']_vars
  <2> SUFFICES ASSUME PTypeOK, [Next]_vars
               PROVE  \A t \in Test : Closed(t) => Closed(t)'
    OBVIOUS
  <2>1. QED BY StatusStep
<1>2. QED BY <1>1, VerdictInvariant, PTL DEF Spec, ClosedStaysClosed

-----------------------------------------------------------------------------
(***************************************************************************)
(* What an acknowledged job leaves behind when no call fails and no job    *)
(* outlasts CLAIM_STALE_MS.                                                *)
(***************************************************************************)

Orderly == ~Overrun /\ MaxFaults = 0

\* The row of a subtask, as its last event should tell it.
Row(j) == <<exec[j], IF exec[j] = "error" THEN "disabled" ELSE result[j]>>

\* What the place of a handler says of its task, its row and its event.
Honest(a) ==
    /\ at[a] # "mark_test" => pc[a] \in {"run", "ack"}
    /\ pc[a] = "ack" => at[a] = "return"
    /\ at[a] \in {"publish", "select", "update", "announce", "return"} => Settled(a[1])
    /\ at[a] = "publish" => verdict[a] = Row(a[1])
    /\ at[a] \in {"select", "update", "announce", "return"} => shown[a[1]] = Row(a[1])

AckedHonest == \A j \in acked : Settled(j) /\ shown[j] = Row(j)

AllHonest == AckedHonest /\ \A a \in Attempt : Honest(a)

\* A handler that runs is the only one of its job, which is not acknowledged.
LEMMA OnlyHandler ==
    ASSUME OneAttemptAtATime, NoneLeft, ~Overrun, \A b \in Attempt : Honest(b),
           NEW a \in Attempt, pc[a] = "run"
    PROVE  /\ a[1] \notin acked
           /\ \A b \in Attempt : b # a /\ b[1] = a[1] =>
                 at[b] = "mark_test" /\ pc[b] # "ack"
<1>1. PICK j \in Job, n \in 1 .. MaxDeliveries : a = <<j, n>>
  BY DEF Attempt
<1>2. Live(<<j, n>>)
  BY <1>1 DEF Live
<1>3. ASSUME NEW b \in Attempt, b # a, b[1] = a[1]
      PROVE  at[b] = "mark_test" /\ pc[b] # "ack"
  <2>1. PICK k \in Job, m \in 1 .. MaxDeliveries : b = <<k, m>>
    BY DEF Attempt
  <2>2. k = j /\ m # n
    BY <1>1, <1>3, <2>1
  <2>3. ~Live(<<j, m>>)
    BY <1>2, <2>2 DEF OneAttemptAtATime
  <2>4. pc[b] \notin {"run", "ack"}
    BY <2>1, <2>2, <2>3 DEF Live
  <2>5. QED BY <2>4 DEF Honest
<1>4. QED BY <1>1, <1>2, <1>3 DEF NoneLeft

\* A call of a handler touches its own job only.
LEMMA HandlerFrame ==
    ASSUME QTypeOK, PTypeOK, NEW a \in Attempt, HandlerStep(a)
    PROVE  /\ pc[a] = "run"
           /\ UNCHANGED <<acked, log, deliv>>
           /\ \A b \in Attempt : b # a =>
                 /\ at'[b] = at[b] /\ verdict'[b] = verdict[b] /\ counts'[b] = counts[b]
                 /\ pc'[b] = pc[b]
           /\ \A j \in Job : j # a[1] =>
                 exec'[j] = exec[j] /\ result'[j] = result[j] /\ shown'[j] = shown[j]
<1>0. a[1] \in Job
  BY AttemptParts
<1>1. CASE HandleOk(a)
  BY <1>1 DEF HandleOk, HandlerReturns, ToAck, pvars, db, local, events, QTypeOK
<1>2. ASSUME NEW c, NEW d, Step(a, c, d)
      PROVE  /\ pc[a] = "run"
             /\ UNCHANGED <<acked, log, deliv, pc>>
             /\ \A b \in Attempt : b # a => at'[b] = at[b]
  BY <1>2 DEF Step, qvars, PTypeOK
<1>3. CASE mark_test_running(a) \/ finish_test(a)
  BY <1>2, <1>3 DEF mark_test_running, finish_test, events
<1>4. CASE mark_subtask_running(a)
  BY <1>0, <1>2, <1>4 DEF mark_subtask_running, events, PTypeOK
<1>5. CASE mark_subtask_error(a)
  BY <1>0, <1>2, <1>5 DEF mark_subtask_error, events, PTypeOK
<1>6. CASE save_report(a)
  <2>1. PICK o \in ProbeOutcome :
           /\ result' = [result EXCEPT ![a[1]] = ResultOf(a[1], o)]
           /\ verdict' = [verdict EXCEPT ![a] = <<"finished", ResultOf(a[1], o)>>]
    BY <1>6, SavedOutcome
  <2>2. QED BY <1>0, <1>2, <1>6, <2>1 DEF save_report, events, PTypeOK
<1>7. CASE publish(a) \/ announce(a)
  BY <1>0, <1>2, <1>7 DEF publish, announce, db, PTypeOK
<1>8. CASE select_progress(a)
  BY <1>2, <1>8 DEF select_progress, db, events, PTypeOK
<1>9. QED
  BY <1>1, <1>3, <1>4, <1>5, <1>6, <1>7, <1>8 DEF HandlerStep

\* Each call leaves its handler where its place says.
LEMMA HonestCall ==
    ASSUME QTypeOK, PTypeOK, NEW a \in Attempt, Honest(a), HandlerStep(a)
    PROVE  Honest(a)'
<1>0. a[1] \in Job /\ pc[a] = "run"
  BY AttemptParts, HandlerFrame
<1>1. CASE HandleOk(a)
  BY <1>0, <1>1 DEF HandleOk, HandlerReturns, ToAck, pvars, db, local, events, QTypeOK, Honest,
     Row, Settled
<1>2. ASSUME NEW c, NEW d, Step(a, c, d)
      PROVE  at[a] = c /\ at'[a] = d /\ pc'[a] = "run"
  BY <1>2 DEF Step, qvars, PTypeOK
<1>3. CASE mark_test_running(a)
  BY <1>2, <1>3 DEF mark_test_running, Honest
<1>4. CASE mark_subtask_running(a)
  BY <1>2, <1>4 DEF mark_subtask_running, Honest
<1>5. CASE mark_subtask_error(a)
  BY <1>0, <1>2, <1>5 DEF mark_subtask_error, PTypeOK, Honest, Row, Settled
<1>6. CASE save_report(a)
  <2>1. PICK o \in ProbeOutcome :
           /\ result' = [result EXCEPT ![a[1]] = ResultOf(a[1], o)]
           /\ verdict' = [verdict EXCEPT ![a] = <<"finished", ResultOf(a[1], o)>>]
    BY <1>6, SavedOutcome
  <2>2. exec'[a[1]] = "finished" /\ at'[a] = "publish" /\ pc'[a] = "run"
    BY <1>0, <1>2, <1>6 DEF save_report, PTypeOK
  <2>3. verdict'[a] = <<"finished", result'[a[1]]>>
    BY <1>0, <2>1 DEF PTypeOK
  <2>4. QED BY <2>2, <2>3 DEF Honest, Row, Settled
<1>7. CASE publish(a)
  <2>1. UNCHANGED <<exec, result>> /\ shown'[a[1]] = verdict[a]
    BY <1>0, <1>7 DEF publish, db, PTypeOK
  <2>2. QED BY <1>2, <1>7, <2>1 DEF publish, Honest, Row, Settled
<1>8. CASE select_progress(a) \/ announce(a)
  BY <1>2, <1>8 DEF select_progress, announce, db, events, Honest, Row, Settled
<1>9. CASE finish_test(a)
  BY <1>2, <1>9 DEF finish_test, events, Honest, Row, Settled
<1>10. QED
  BY <1>1, <1>3, <1>4, <1>5, <1>6, <1>7, <1>8, <1>9 DEF HandlerStep

\* A step of the queue alone ends tasks, or acknowledges what has been told.
LEMMA HonestElsewhere ==
    ASSUME QTypeOK, DeliveredInOrder, AllHonest, [QNext]_qvars, Elsewhere,
           \/ \E w \in Worker : WorkerStep(w)
           \/ \E a \in Attempt : Ack(a) \/ AckFails(a)
    PROVE  AllHonest'
<1> USE QueueAssumption
<1>1. ASSUME NEW a \in Attempt, pc'[a] = "ack" PROVE pc[a] = "ack"
  <2>1. ASSUME NEW D, NEW w, Receive(D, w) PROVE pc[a] = "ack"
    BY <1>1, <2>1 DEF Receive, Deliver
  <2>2. QED
    BY <1>1, <2>1 DEF WorkerStep, StartWorker, Read, Autoclaim, Spawn, Shutdown, Exit, Crash,
       Die, Ack, AckFails, Ends, QTypeOK
<1>2. ASSUME NEW a \in Attempt PROVE Honest(a)'
  <2>1. Honest(a) /\ UNCHANGED <<exec, result, shown>>
    BY DEF AllHonest, Elsewhere, db, events
  <2>2. CASE pc'[a] = "over"
    BY <2>2 DEF Elsewhere, Honest
  <2>3. CASE pc'[a] # "over"
    <3>1. at'[a] = at[a] /\ verdict'[a] = verdict[a]
      BY <2>3 DEF Elsewhere
    <3>2. at[a] # "mark_test" => pc'[a] \in {"run", "ack"}
      BY <2>1, <2>3, TaskStep DEF Honest
    <3>3. QED BY <1>1, <2>1, <3>1, <3>2 DEF Honest, Row, Settled
  <2>4. QED BY <2>2, <2>3
<1>3. ASSUME NEW j \in acked' PROVE Settled(j) /\ shown[j] = Row(j)
  <2>1. CASE j \in acked
    BY <2>1 DEF AllHonest, AckedHonest
  <2>2. CASE j \notin acked
    <3>1. PICK a \in Attempt : pc[a] = "ack" /\ a[1] = j
      BY <1>3, <2>2 DEF WorkerStep, StartWorker, Read, Autoclaim, Spawn, Shutdown, Exit,
         Crash, Ack, AckFails
    <3>2. QED BY <3>1 DEF AllHonest, Honest
  <2>3. QED BY <2>1, <2>2
<1>4. AckedHonest'
  BY <1>3 DEF AckedHonest, Elsewhere, db, events, Row, Settled
<1>5. QED BY <1>2, <1>4 DEF AllHonest

\* AllHonest is inductive.
LEMMA HonestStep ==
    ASSUME QTypeOK, PTypeOK, DeliveredInOrder, OneAttemptAtATime, NoneLeft, Orderly,
           AllHonest, [Next]_vars
    PROVE  AllHonest'
<1>1. ASSUME NEW a \in Attempt, HandlerStep(a) PROVE AllHonest'
  <2>1. /\ a[1] \notin acked
        /\ \A b \in Attempt : b # a /\ b[1] = a[1] => at[b] = "mark_test" /\ pc[b] # "ack"
    BY <1>1, OnlyHandler, HandlerFrame DEF Orderly, AllHonest
  <2>2. Honest(a)'
    BY <1>1, HonestCall DEF AllHonest
  <2>3. ASSUME NEW b \in Attempt, b # a PROVE Honest(b)'
    <3>1. Honest(b) /\ b[1] \in Job
      BY AttemptParts DEF AllHonest
    <3>2. at'[b] = at[b] /\ verdict'[b] = verdict[b] /\ pc'[b] = pc[b]
      BY <1>1, <2>3, HandlerFrame
    <3>3. CASE b[1] = a[1]
      BY <2>1, <2>3, <3>2, <3>3 DEF Honest
    <3>4. CASE b[1] # a[1]
      <4>1. exec'[b[1]] = exec[b[1]] /\ result'[b[1]] = result[b[1]] /\ shown'[b[1]] = shown[b[1]]
        BY <1>1, <3>1, <3>4, HandlerFrame
      <4>2. QED BY <3>1, <3>2, <4>1 DEF Honest, Row, Settled
    <3>5. QED BY <3>3, <3>4
  <2>4. AckedHonest'
    <3>1. acked' = acked /\ acked \subseteq Job
      BY <1>1, HandlerFrame DEF QTypeOK
    <3>2. \A j \in acked :
             exec'[j] = exec[j] /\ result'[j] = result[j] /\ shown'[j] = shown[j]
      BY <1>1, <2>1, <3>1, HandlerFrame
    <3>3. QED BY <3>1, <3>2 DEF AllHonest, AckedHonest, Row, Settled
  <2>5. QED BY <2>2, <2>3, <2>4 DEF AllHonest
<1>2. ASSUME UNCHANGED <<pc, acked, exec, result, at, verdict, shown>> PROVE AllHonest'
  BY <1>2 DEF AllHonest, AckedHonest, Honest, Row, Settled
<1>3. CASE ApiStep \/ UNCHANGED vars
  <2>1. UNCHANGED <<pc, acked, exec, result, at, verdict, shown>>
    BY <1>3 DEF ApiStep, create_test, ApiFails, enqueue_probes, Enqueue, vars, qvars, pvars,
       db, local, events
  <2>2. QED BY <1>2, <2>1
<1>4. ASSUME NEW a \in Attempt, HandleErr(a) PROVE FALSE
  BY <1>4 DEF HandleErr, HandlerErrs, Orderly, QTypeOK
<1>5. CASE /\ \/ \E w \in Worker : WorkerStep(w)
              \/ \E a \in Attempt : Ack(a) \/ AckFails(a)
           /\ Elsewhere
  BY <1>5, QueueStep, HonestElsewhere
<1>6. QED BY <1>1, <1>3, <1>4, <1>5 DEF Next

\* The invariant behind the next theorems.
LEMMA HonestInvariant == Spec => [](Orderly => AllHonest)
<1>1. Init => AllHonest
  BY DEF Init, QInit, AllHonest, AckedHonest, Honest
<1>2. /\ TypeOK /\ DeliveredInOrder /\ OneAttemptAtATime /\ NoneLeft
      /\ (Orderly => AllHonest) /\ [Next]_vars
      => (Orderly => AllHonest)'
  BY HonestStep DEF TypeOK, Orderly
<1>3. QED
  BY <1>1, <1>2, ImplementsQueue, TypeCorrect, DeliveredInvariant, OneAttemptCorrect,
     TasksInvariant, PTL DEF Spec

\* A row that has left the queue belongs to a job that was delivered.
Started == \A j \in Job : exec[j] # "queued" => deliv[j] > 0

\* Started is inductive.
LEMMA StartedStep ==
    ASSUME QTypeOK, PTypeOK, InOrder, DeliveredInOrder, Started, [Next]_vars
    PROVE  Started'
<1>1. \A j \in Job : deliv[j] \in Nat /\ deliv'[j] \in Nat /\ deliv[j] <= deliv'[j]
  BY QueueStep, DeliveriesGrow
<1>2. ASSUME NEW a \in Attempt, HandlerStep(a) PROVE Started'
  <2>1. PICK j \in Job, n \in 1 .. MaxDeliveries : a = <<j, n>>
    BY DEF Attempt
  <2>2. pc[<<j, n>>] = "run"
    BY <1>2, <2>1, HandlerFrame
  <2>3. ~(deliv[j] < n)
    BY <2>2 DEF DeliveredInOrder
  <2>4. deliv[j] > 0
    BY <1>1, <2>3
  <2>5. \A k \in Job : k # j => exec'[k] = exec[k]
    BY <1>2, <2>1, HandlerFrame
  <2>6. QED BY <1>1, <2>4, <2>5 DEF Started
<1>3. ASSUME exec' = exec PROVE Started'
  BY <1>1, <1>3 DEF Started
<1>4. ASSUME ApiStep \/ Elsewhere \/ UNCHANGED vars \/ \E a \in Attempt : HandleErr(a)
      PROVE  exec' = exec
  BY <1>4 DEF ApiStep, create_test, ApiFails, enqueue_probes, Elsewhere, HandleErr, vars,
     pvars, db
<1>5. QED BY <1>2, <1>3, <1>4 DEF Next

LEMMA StartedInvariant == Spec => []Started
<1>1. Init => Started
  BY DEF Init, Started
<1>2. TypeOK /\ InOrder /\ DeliveredInOrder /\ Started /\ [Next]_vars => Started'
  BY StartedStep DEF TypeOK
<1>3. QED BY <1>1, <1>2, ImplementsQueue, TypeCorrect, DeliveredInvariant, PTL DEF Spec

\* And no subtask is stuck on running, as stream.rs promises: what the run
\* probe_overrun finds needs a job that outlasts CLAIM_STALE_MS.
THEOREM NoStuckRunningCorrect == Spec => [](Orderly => NoStuckRunning)
<1>1. Tracked /\ Started /\ (Orderly => AllHonest) => (Orderly => NoStuckRunning)
  BY DEF Tracked, Started, AllHonest, AckedHonest, Settled, NoStuckRunning
<1>2. QED BY <1>1, ImplementsQueue, TasksInvariant, StartedInvariant, HonestInvariant, PTL

-----------------------------------------------------------------------------
(***************************************************************************)
(* The events of a test whose adapter is configured.                       *)
(***************************************************************************)

\* Jobs are sent, and rows written, only for tests that exist.
Begun ==
    /\ \A j \in Job : j \in Enqueued \/ j \in outbox[TestOf[j]] => status[TestOf[j]] # "none"
    /\ \A j \in Job : exec[j] # "queued" => status[TestOf[j]] # "none"

\* A subtask ends in an error only on a worker that lacks its adapter.
ErrorsByAdapter == \A j \in Job : exec[j] = "error" => ~OnAll(TestOf[j])

\* A test that exists goes on existing, with the adapter it was created for.
LEMMA AdapterStays ==
    ASSUME PTypeOK, [Next]_vars, NEW t \in Test, status[t] # "none"
    PROVE  status'[t] # "none" /\ adapter'[t] = adapter[t]
<1>1. ASSUME NEW u \in Test, create_test(u) PROVE status'[t] = status[t] /\ adapter'[t] = adapter[t]
  BY <1>1 DEF create_test, PTypeOK
<1>2. ASSUME NEW a \in Attempt, mark_test_running(a) \/ finish_test(a)
      PROVE  status'[t] # "none" /\ adapter' = adapter
  BY <1>2 DEF mark_test_running, finish_test, PTypeOK
<1>3. ASSUME \/ \E u \in Test : ApiFails(u)
             \/ \E j \in Job : enqueue_probes(j)
             \/ \E a \in Attempt : \/ mark_subtask_running(a) \/ mark_subtask_error(a)
                                   \/ save_report(a) \/ publish(a) \/ select_progress(a)
                                   \/ announce(a) \/ HandleOk(a) \/ HandleErr(a)
             \/ Elsewhere
             \/ UNCHANGED vars
      PROVE  UNCHANGED <<status, adapter>>
  BY <1>3 DEF ApiFails, enqueue_probes, mark_subtask_running, mark_subtask_error, save_report,
     publish, select_progress, announce, HandleOk, HandleErr, Elsewhere, vars, pvars, db
<1>4. QED BY <1>1, <1>2, <1>3 DEF Next, ApiStep, HandlerStep

\* Begun is inductive.
LEMMA BegunStep ==
    ASSUME QTypeOK, PTypeOK, InOrder, Begun, [Next]_vars
    PROVE  Begun'
<1>0. /\ \A t \in Test : status[t] # "none" => status'[t] # "none"
      /\ \A j \in Job : TestOf[j] \in Test
      /\ \A a \in Attempt : a[1] \in Job
  BY AdapterStays, AttemptParts, ProbeAssumption
<1>1. ASSUME \A j \in Job : j \in Enqueued' \/ j \in outbox'[TestOf[j]] =>
                               \/ j \in Enqueued \/ j \in outbox[TestOf[j]]
                               \/ status'[TestOf[j]] # "none",
             UNCHANGED exec
      PROVE  Begun'
  BY <1>0, <1>1 DEF Begun
<1>2. ASSUME log' = log PROVE Enqueued' = Enqueued
  BY <1>2 DEF Enqueued
<1>3. ASSUME NEW t \in Test, create_test(t) \/ ApiFails(t) PROVE Begun'
  <2>1. UNCHANGED exec /\ log' = log
    BY <1>3 DEF create_test, ApiFails, qvars
  <2>2. \A u \in Test : u # t => outbox'[u] = outbox[u]
    BY <1>3 DEF create_test, ApiFails, PTypeOK
  <2>3. CASE create_test(t)
    <3>1. status'[t] # "none"
      BY <2>3 DEF create_test, PTypeOK
    <3>2. QED BY <1>0, <1>1, <1>2, <2>1, <2>2, <3>1
  <2>4. CASE ApiFails(t)
    <3>1. outbox'[t] = {}
      BY <2>4 DEF ApiFails, PTypeOK
    <3>2. QED BY <1>0, <1>1, <1>2, <2>1, <2>2, <3>1
  <2>5. QED BY <1>3, <2>3, <2>4
<1>4. ASSUME NEW k \in Job, enqueue_probes(k) PROVE Begun'
  <2>1. Enqueued' = Enqueued \cup {k} /\ k \in outbox[TestOf[k]]
    BY <1>4, EnqueueAdds DEF enqueue_probes
  <2>2. \A t \in Test : outbox'[t] \subseteq outbox[t]
    BY <1>4 DEF enqueue_probes, PTypeOK
  <2>3. UNCHANGED exec
    BY <1>4 DEF enqueue_probes
  <2>4. QED BY <1>0, <1>1, <2>1, <2>2, <2>3
<1>5. ASSUME NEW a \in Attempt, HandlerStep(a) PROVE Begun'
  <2>1. Enqueued' = Enqueued /\ outbox' = outbox
    BY <1>2, <1>5, HandlerFrame DEF HandlerStep, mark_test_running, mark_subtask_running,
       mark_subtask_error, save_report, publish, select_progress, finish_test, announce,
       HandleOk, pvars, db
  <2>2. a[1] \in Enqueued
    BY <1>5, HandlerFrame DEF InOrder
  <2>3. status'[TestOf[a[1]]] # "none"
    BY <1>0, <2>2 DEF Begun
  <2>4. \A j \in Job : j # a[1] => exec'[j] = exec[j]
    BY <1>5, HandlerFrame
  <2>5. QED BY <1>0, <2>1, <2>3, <2>4 DEF Begun
<1>6. CASE Elsewhere /\ \/ \E w \in Worker : WorkerStep(w)
                        \/ \E a \in Attempt : Ack(a) \/ AckFails(a)
  <2>1. log' = log
    BY <1>6 DEF WorkerStep, StartWorker, Read, Autoclaim, Spawn, Shutdown, Exit, Crash, Ack,
       AckFails
  <2>2. UNCHANGED <<exec, outbox>>
    BY <1>6 DEF Elsewhere, db
  <2>3. QED BY <1>1, <1>2, <2>1, <2>2
<1>7. CASE UNCHANGED vars \/ \E a \in Attempt : HandleErr(a)
  <2>1. log' = log /\ UNCHANGED <<exec, outbox>>
    BY <1>7 DEF HandleErr, HandlerErrs, ToAck, vars, qvars, pvars, db
  <2>2. QED BY <1>1, <1>2, <2>1
<1>8. QED BY <1>3, <1>4, <1>5, <1>6, <1>7 DEF Next, ApiStep

\* ErrorsByAdapter is inductive: the adapter of a test that exists does not change.
LEMMA ErrorsStep ==
    ASSUME QTypeOK, PTypeOK, InOrder, Tracked, Begun, ErrorsByAdapter, [Next]_vars
    PROVE  ErrorsByAdapter'
<1>0. /\ \A j \in Job : TestOf[j] \in Test
      /\ \A a \in Attempt : a[1] \in Job
      /\ \A t \in Test : status[t] # "none" => OnAll(t)' = OnAll(t)
  BY AdapterStays, AttemptParts, ProbeAssumption DEF OnAll
<1>1. ASSUME NEW j \in Job, exec'[j] = exec[j]
      PROVE  exec'[j] = "error" => ~OnAll(TestOf[j])'
  BY <1>0, <1>1 DEF ErrorsByAdapter, Begun
<1>2. ASSUME NEW a \in Attempt, HandlerStep(a) PROVE ErrorsByAdapter'
  <2>1. /\ owner[a] \in Worker /\ status[TestOf[a[1]]] # "none" /\ a[1] \in Job
        /\ \A j \in Job : j # a[1] => exec'[j] = exec[j]
    BY <1>0, <1>2, HandlerFrame DEF Tracked, Live, InOrder, Begun
  <2>2. CASE mark_subtask_error(a)
    <3>1. ~OnAll(TestOf[a[1]])
      BY <2>1, <2>2 DEF mark_subtask_error, is_configured, OnAll
    <3>2. QED BY <1>0, <1>1, <2>1, <3>1 DEF ErrorsByAdapter
  <2>3. CASE ~mark_subtask_error(a)
    <3>1. exec'[a[1]] = exec[a[1]] \/ exec'[a[1]] \in {"running", "finished"}
      BY <1>2, <2>1, <2>3 DEF HandlerStep, mark_test_running, mark_subtask_running, save_report,
         publish, select_progress, finish_test, announce, HandleOk, pvars, db, PTypeOK
    <3>2. QED BY <1>1, <2>1, <3>1 DEF ErrorsByAdapter
  <2>4. QED BY <2>2, <2>3
<1>3. CASE ApiStep \/ Elsewhere \/ UNCHANGED vars \/ \E a \in Attempt : HandleErr(a)
  <2>1. exec' = exec
    BY <1>3 DEF ApiStep, create_test, ApiFails, enqueue_probes, Elsewhere, HandleErr, vars,
       pvars, db
  <2>2. QED BY <1>1, <2>1 DEF ErrorsByAdapter
<1>4. QED BY <1>2, <1>3 DEF Next

LEMMA ErrorsInvariant == Spec => []ErrorsByAdapter
<1>1. Init => Begun /\ ErrorsByAdapter
  <2> SUFFICES ASSUME Init PROVE Begun /\ ErrorsByAdapter
    OBVIOUS
  <2>1. Enqueued = {}
    BY QueueAssumption DEF Init, QInit, Enqueued
  <2>2. \A j \in Job : TestOf[j] \in Test
    BY ProbeAssumption
  <2>3. QED BY <2>1, <2>2 DEF Init, Begun, ErrorsByAdapter
<1>2. TypeOK /\ InOrder /\ Tracked /\ Begun /\ ErrorsByAdapter /\ [Next]_vars
      => (Begun /\ ErrorsByAdapter)'
  BY BegunStep, ErrorsStep DEF TypeOK
<1>3. QED
  BY <1>1, <1>2, ImplementsQueue, TypeCorrect, DeliveredInvariant, TasksInvariant, PTL DEF Spec

\* While no call of a handler fails and no job outlasts CLAIM_STALE_MS, a
\* subscriber's last word on an acknowledged job of a configured adapter is
\* what its row says.
THEOREM LastEventAgreesCorrect == Spec => [](Orderly => LastEventAgrees)
<1>1. TypeOK /\ ErrorsByAdapter /\ (Orderly => AllHonest) => (Orderly => LastEventAgrees)
  BY DEF TypeOK, QTypeOK, ErrorsByAdapter, AllHonest, AckedHonest, LastEventAgrees, Row
<1>2. QED BY <1>1, TypeCorrect, ErrorsInvariant, HonestInvariant, PTL

-----------------------------------------------------------------------------
(***************************************************************************)
(* What a failed call may cost: jobs that are acknowledged, or about to    *)
(* be, without a verdict.                                                  *)
(***************************************************************************)

\* A handler that is past its record call has stored a verdict.
Recorded ==
    \A a \in Attempt :
        at[a] \in {"publish", "select", "update", "announce", "return"} =>
            result[a[1]] # "pending"

Hurt == {j \in Job : /\ result[j] = "pending"
                     /\ j \in acked \/ \E a \in Attempt : a[1] = j /\ pc[a] = "ack"}

\* Recorded is inductive: no step withdraws a verdict.
LEMMA RecordedStep ==
    ASSUME QTypeOK, PTypeOK, RowsSound, Recorded, [Next]_vars
    PROVE  Recorded'
<1>0. /\ \A j \in Job : result[j] # "pending" => result'[j] # "pending"
      /\ \A a \in Attempt : a[1] \in Job
  BY RowsStep, AttemptParts
<1>1. ASSUME NEW a \in Attempt, at'[a] = at[a]
      PROVE  at'[a] \in {"publish", "select", "update", "announce", "return"} =>
                result'[a[1]] # "pending"
  BY <1>0, <1>1 DEF Recorded
<1>2. ASSUME NEW a \in Attempt, HandlerStep(a) PROVE Recorded'
  <2>1. \A b \in Attempt : b # a => at'[b] = at[b]
    BY <1>2, HandlerFrame
  <2>2. CASE mark_subtask_error(a)
    <3>1. result'[a[1]] # "pending"
      BY <1>0, <2>2 DEF mark_subtask_error, PTypeOK
    <3>2. QED BY <1>1, <2>1, <3>1 DEF Recorded
  <2>3. CASE save_report(a)
    <3>1. PICK r \in {"passed", "failed", "unsupported"} :
             result' = [result EXCEPT ![a[1]] = r]
      BY <1>0, <2>3, SavedOutcome, ResultType
    <3>2. result'[a[1]] # "pending"
      BY <1>0, <3>1 DEF PTypeOK
    <3>3. QED BY <1>1, <2>1, <3>2 DEF Recorded
  <2>4. CASE mark_test_running(a) \/ mark_subtask_running(a)
    <3>1. at'[a] \in {"mark_subtask", "record"}
      BY <2>4 DEF mark_test_running, mark_subtask_running, Step, PTypeOK
    <3>2. QED BY <1>1, <2>1, <3>1 DEF Recorded
  <2>5. CASE \/ publish(a) \/ select_progress(a) \/ finish_test(a) \/ announce(a)
             \/ HandleOk(a)
    <3>1. at[a] \in {"publish", "select", "update", "announce", "return"}
      BY <2>5 DEF publish, select_progress, finish_test, announce, HandleOk, Step
    <3>2. QED BY <1>0, <1>1, <2>1, <3>1 DEF Recorded
  <2>6. QED BY <1>2, <2>2, <2>3, <2>4, <2>5 DEF HandlerStep
<1>3. CASE ApiStep \/ UNCHANGED vars \/ \E a \in Attempt : HandleErr(a)
  <2>1. at' = at
    BY <1>3 DEF ApiStep, create_test, ApiFails, enqueue_probes, HandleErr, vars, pvars, local
  <2>2. QED BY <1>1, <2>1 DEF Recorded
<1>4. CASE Elsewhere
  <2>1. \A a \in Attempt : at'[a] = at[a] \/ at'[a] = "mark_test"
    BY <1>4 DEF Elsewhere
  <2>2. QED BY <1>1, <2>1 DEF Recorded
<1>5. QED BY <1>2, <1>3, <1>4 DEF Next

\* A step adds a job to Hurt only by failing a call.
LEMMA HurtStep ==
    ASSUME QTypeOK, PTypeOK, RowsSound, Recorded, [Next]_vars
    PROVE  \/ Hurt' \subseteq Hurt /\ faults' \in {faults, faults + 1}
           \/ \E j \in Job : Hurt' \subseteq Hurt \cup {j} /\ faults' = faults + 1
<1>0. /\ \A j \in Job : result[j] # "pending" => result'[j] # "pending"
      /\ \A a \in Attempt : a[1] \in Job
  BY RowsStep, AttemptParts
<1>1. ASSUME \A a \in Attempt : pc'[a] = "ack" => pc[a] = "ack" \/ result[a[1]] # "pending",
             \A j \in acked' : j \in acked \/ \E a \in Attempt : a[1] = j /\ pc[a] = "ack"
      PROVE  Hurt' \subseteq Hurt
  BY <1>0, <1>1 DEF Hurt
<1>2. ASSUME NEW a \in Attempt, HandleErr(a)
      PROVE  \E j \in Job : Hurt' \subseteq Hurt \cup {j} /\ faults' = faults + 1
  <2>1. /\ \A b \in Attempt : b # a => pc'[b] = pc[b]
        /\ acked' = acked /\ result' = result /\ faults' = faults + 1
    BY <1>2 DEF HandleErr, HandlerErrs, ToAck, pvars, db, QTypeOK
  <2>2. Hurt' \subseteq Hurt \cup {a[1]}
    BY <2>1 DEF Hurt
  <2>3. QED BY <1>0, <2>1, <2>2
<1>3. ASSUME NEW a \in Attempt, HandlerStep(a)
      PROVE  Hurt' \subseteq Hurt /\ faults' = faults
  <2>1. acked' = acked /\ \A b \in Attempt : b # a => pc'[b] = pc[b]
    BY <1>3, HandlerFrame
  <2>2. CASE HandleOk(a)
    <3>1. result[a[1]] # "pending" /\ faults' = faults
      BY <2>2 DEF HandleOk, HandlerReturns, Recorded
    <3>2. QED BY <1>1, <2>1, <3>1
  <2>3. CASE ~HandleOk(a)
    <3>1. UNCHANGED <<pc, faults>>
      BY <1>3, <2>3 DEF HandlerStep, mark_test_running, mark_subtask_running,
         mark_subtask_error, save_report, publish, select_progress, finish_test, announce, Step,
         qvars
    <3>2. QED BY <1>1, <2>1, <3>1
  <2>4. QED BY <2>2, <2>3
<1>4. CASE ApiStep \/ UNCHANGED vars
  <2>1. UNCHANGED <<pc, acked, faults>>
    BY <1>4 DEF ApiStep, create_test, ApiFails, enqueue_probes, Enqueue, vars, qvars
  <2>2. QED BY <1>1, <2>1
<1>5. CASE \E w \in Worker : WorkerStep(w)
  <2>1. acked' = acked /\ faults' \in {faults, faults + 1}
    BY <1>5 DEF WorkerStep, StartWorker, Read, Autoclaim, Receive, Spawn, Shutdown, Exit, Crash
  <2>2. \A a \in Attempt : pc'[a] = "ack" => pc[a] = "ack"
    BY <1>5 DEF WorkerStep, StartWorker, Read, Autoclaim, Receive, Deliver, Spawn, Shutdown,
       Exit, Crash, Die, QTypeOK
  <2>3. QED BY <1>1, <2>1, <2>2
<1>6. ASSUME NEW a \in Attempt, Ack(a) \/ AckFails(a)
      PROVE  Hurt' \subseteq Hurt /\ faults' \in {faults, faults + 1}
  <2>1. /\ \A b \in Attempt : pc'[b] = "ack" => pc[b] = "ack"
        /\ acked' \subseteq acked \cup {a[1]} /\ pc[a] = "ack"
        /\ faults' \in {faults, faults + 1}
    BY <1>6 DEF Ack, AckFails, Ends, QTypeOK
  <2>2. QED BY <1>1, <2>1
<1>7. QED BY <1>2, <1>3, <1>4, <1>5, <1>6 DEF Next

HurtBounded == IsFiniteSet(Hurt) /\ Cardinality(Hurt) <= faults

\* No more acknowledged jobs are without a verdict than calls have failed, with
\* any number of subtasks, workers, crashes, redeliveries and overruns.
THEOREM LossBoundedCorrect == Spec => []LossBoundedByFaults
<1>1. Init => Recorded /\ HurtBounded
  <2> SUFFICES ASSUME Init PROVE Recorded /\ HurtBounded
    OBVIOUS
  <2>1. Recorded
    BY DEF Init, Recorded
  <2>2. Hurt = {} /\ faults = 0
    BY DEF Init, QInit, Hurt
  <2>3. QED BY <2>1, <2>2, FS_EmptySet DEF HurtBounded
<1>2. TypeOK /\ RowsSound /\ Recorded /\ HurtBounded /\ [Next]_vars
      => (Recorded /\ HurtBounded)'
  <2> SUFFICES ASSUME QTypeOK, PTypeOK, RowsSound, Recorded, HurtBounded, [Next]_vars
               PROVE  Recorded' /\ HurtBounded'
    BY DEF TypeOK
  <2>1. Recorded'
    BY RecordedStep
  <2>2. faults \in Nat /\ Cardinality(Hurt) \in Nat
    BY FS_CardinalityType, QueueAssumption DEF QTypeOK, HurtBounded
  <2>3. CASE Hurt' \subseteq Hurt /\ faults' \in {faults, faults + 1}
    <3>1. IsFiniteSet(Hurt') /\ Cardinality(Hurt') <= Cardinality(Hurt)
      BY <2>3, FS_Subset DEF HurtBounded
    <3>2. Cardinality(Hurt') \in Nat
      BY <3>1, FS_CardinalityType
    <3>3. QED BY <2>1, <2>2, <2>3, <3>1, <3>2 DEF HurtBounded
  <2>4. ASSUME NEW j \in Job, Hurt' \subseteq Hurt \cup {j}, faults' = faults + 1
        PROVE  HurtBounded'
    <3>1. /\ IsFiniteSet(Hurt \cup {j})
          /\ Cardinality(Hurt \cup {j}) \in {Cardinality(Hurt), Cardinality(Hurt) + 1}
      BY FS_AddElement DEF HurtBounded
    <3>2. IsFiniteSet(Hurt') /\ Cardinality(Hurt') <= Cardinality(Hurt \cup {j})
      BY <2>4, <3>1, FS_Subset
    <3>3. Cardinality(Hurt') \in Nat /\ Cardinality(Hurt \cup {j}) \in Nat
      BY <3>1, <3>2, FS_CardinalityType
    <3>4. QED BY <2>2, <2>4, <3>1, <3>2, <3>3 DEF HurtBounded
  <2>5. QED BY <2>1, <2>3, <2>4, HurtStep
<1>3. TypeOK /\ HurtBounded => LossBoundedByFaults
  <2> SUFFICES ASSUME QTypeOK, HurtBounded PROVE Cardinality(Unrecorded) <= faults
    BY DEF TypeOK, LossBoundedByFaults
  <2>1. Unrecorded \subseteq Hurt
    BY DEF Unrecorded, Hurt, QTypeOK
  <2>2. IsFiniteSet(Unrecorded) /\ Cardinality(Unrecorded) <= Cardinality(Hurt)
    BY <2>1, FS_Subset DEF HurtBounded
  <2>3. Cardinality(Unrecorded) \in Nat /\ Cardinality(Hurt) \in Nat /\ faults \in Nat
    BY <2>2, FS_CardinalityType, QueueAssumption DEF QTypeOK, HurtBounded
  <2>4. QED BY <2>2, <2>3 DEF HurtBounded
<1>4. QED BY <1>1, <1>2, <1>3, TypeCorrect, VerdictInvariant, PTL DEF Spec

-----------------------------------------------------------------------------
(***************************************************************************)
(* Without redeliveries, TestFinished events tell the final counts.        *)
(***************************************************************************)

Once == \A j \in Job : deliv[j] <= 1

AllSettled(t) == \A j \in Subtasks(t) : Settled(j)

\* A handler that has yet to write its row is the first to do so.
FirstWrite ==
    \A a \in Attempt :
        pc[a] \in {"batch", "run"} /\ at[a] \in {"mark_test", "mark_subtask", "record"} =>
            ~Settled(a[1])

\* The counts of a handler, and those of an event, are those of rows that are
\* settled for good.
CountsFinal ==
    \A a \in Attempt : at[a] \in {"update", "announce"} =>
        /\ AllSettled(TestOf[a[1]])
        /\ counts[a].passed = Cardinality(Passed(TestOf[a[1]]))
        /\ counts[a].failed = Cardinality(Failed(TestOf[a[1]]))
EventsFinal ==
    \A t \in Test : \A c \in closed[t] :
        AllSettled(t) /\ c = <<Cardinality(Passed(t)), Cardinality(Failed(t))>>

Final == Once => FirstWrite /\ CountsFinal /\ EventsFinal

\* While every job was delivered at most once, a row that is settled stays as
\* it is.
LEMMA SettledStays ==
    ASSUME QTypeOK, PTypeOK, DeliveredInOrder, FirstWrite, [Next]_vars,
           NEW j \in Job, Settled(j)
    PROVE  exec'[j] = exec[j] /\ result'[j] = result[j]
<1>1. ASSUME NEW a \in Attempt, HandlerStep(a), a[1] = j
      PROVE  exec'[j] = exec[j] /\ result'[j] = result[j]
  <2>1. pc[a] = "run"
    BY <1>1, HandlerFrame
  <2>2. at[a] \notin {"mark_test", "mark_subtask", "record"}
    BY <1>1, <2>1 DEF FirstWrite
  <2>3. QED
    BY <1>1, <2>2 DEF HandlerStep, mark_test_running, mark_subtask_running, mark_subtask_error,
       save_report, publish, select_progress, finish_test, announce, HandleOk, Step, pvars, db
<1>2. ASSUME NEW a \in Attempt, HandlerStep(a), a[1] # j
      PROVE  exec'[j] = exec[j] /\ result'[j] = result[j]
  BY <1>2, HandlerFrame
<1>3. ASSUME ApiStep \/ Elsewhere \/ UNCHANGED vars \/ \E a \in Attempt : HandleErr(a)
      PROVE  UNCHANGED <<exec, result>>
  BY <1>3 DEF ApiStep, create_test, ApiFails, enqueue_probes, Elsewhere, HandleErr, vars,
     pvars, db
<1>4. QED BY <1>1, <1>2, <1>3 DEF Next

\* FirstWrite is kept: the only handler of a job passes the record, and a job that
\* is delivered for the first time has no settled row.
LEMMA FirstWriteStep ==
    ASSUME QTypeOK, PTypeOK, InOrder, DeliveredInOrder, Started, FirstWrite, Once',
           [Next]_vars
    PROVE  FirstWrite'
<1> USE QueueAssumption
<1>0. \A j \in Job : deliv[j] \in Nat /\ deliv'[j] \in Nat /\ deliv[j] <= deliv'[j]
  BY QueueStep, DeliveriesGrow
<1>1. \A a, b \in Attempt : a[1] = b[1] /\ pc[a] # "none" /\ pc[b] # "none" => a = b
  <2> SUFFICES ASSUME NEW a \in Attempt, NEW b \in Attempt, a[1] = b[1],
                      pc[a] # "none", pc[b] # "none"
               PROVE  a = b
    OBVIOUS
  <2>1. PICK j \in Job, n \in 1 .. MaxDeliveries : a = <<j, n>>
    BY DEF Attempt
  <2>2. PICK k \in Job, m \in 1 .. MaxDeliveries : b = <<k, m>>
    BY DEF Attempt
  <2>3. ~(deliv[j] < n) /\ ~(deliv[j] < m) /\ j = k
    BY <2>1, <2>2 DEF DeliveredInOrder
  <2>4. deliv[j] <= 1
    BY <1>0 DEF Once
  <2>5. n = 1 /\ m = 1
    BY <1>0, <2>3, <2>4
  <2>6. QED BY <2>1, <2>2, <2>3, <2>5
<1>2. ASSUME NEW a \in Attempt, HandlerStep(a) PROVE FirstWrite'
  <2>1. /\ pc[a] = "run" /\ a[1] \in Job
        /\ \A b \in Attempt : b # a => at'[b] = at[b] /\ pc'[b] = pc[b]
        /\ \A j \in Job : j # a[1] => exec'[j] = exec[j]
    BY <1>2, HandlerFrame, AttemptParts
  <2>2. ASSUME NEW b \in Attempt, b # a, pc'[b] \in {"batch", "run"},
               at'[b] \in {"mark_test", "mark_subtask", "record"}
        PROVE  ~Settled(b[1])'
    <3>1. b[1] # a[1] /\ b[1] \in Job
      BY <1>1, <2>1, <2>2, AttemptParts
    <3>2. ~Settled(b[1])
      BY <2>1, <2>2 DEF FirstWrite
    <3>3. QED BY <2>1, <3>1, <3>2 DEF Settled
  <2>3. ASSUME pc'[a] \in {"batch", "run"}, at'[a] \in {"mark_test", "mark_subtask", "record"}
        PROVE  ~Settled(a[1])'
    <3>1. mark_test_running(a) \/ mark_subtask_running(a)
      BY <1>2, <2>3 DEF HandlerStep, mark_subtask_error, save_report, publish, select_progress,
         finish_test, announce, HandleOk, HandlerReturns, ToAck, Step, QTypeOK, PTypeOK
    <3>2. CASE mark_test_running(a)
      <4>1. ~Settled(a[1]) /\ exec' = exec
        BY <2>1, <3>2 DEF mark_test_running, Step, FirstWrite
      <4>2. QED BY <4>1 DEF Settled
    <3>3. CASE mark_subtask_running(a)
      BY <2>1, <3>3 DEF mark_subtask_running, PTypeOK, Settled
    <3>4. QED BY <3>1, <3>2, <3>3
  <2>4. QED BY <2>2, <2>3 DEF FirstWrite
<1>3. ASSUME UNCHANGED exec,
             \A a \in Attempt : pc'[a] \in {"batch", "run"} =>
                \/ at'[a] = at[a] /\ pc[a] \in {"batch", "run"}
                \/ ~Settled(a[1])
      PROVE  FirstWrite'
  BY <1>3 DEF FirstWrite, Settled
<1>4. CASE /\ Elsewhere
           /\ \/ \E w \in Worker : WorkerStep(w)
              \/ \E a \in Attempt : Ack(a) \/ AckFails(a)
  <2>1. UNCHANGED exec /\ \A a \in Attempt : pc'[a] # "over" => at'[a] = at[a]
    BY <1>4 DEF Elsewhere, db
  <2>2. CASE \E w \in Worker : Read(w) \/ Autoclaim(w)
    <3>1. PICK w \in Worker : Read(w) \/ Autoclaim(w)
      BY <2>2
    <3>2. PICK D \in SUBSET Job : Receive(D, w)
      BY <3>1 DEF Read, Autoclaim, NewEntries, QTypeOK
    <3>3. ASSUME NEW a \in Attempt, pc'[a] # pc[a] PROVE ~Settled(a[1])
      <4>1. PICK j \in Job, n \in 1 .. MaxDeliveries : a = <<j, n>>
        BY DEF Attempt
      <4>2. j \in D
        BY <3>2, <3>3, <4>1, DeliverEffect
      <4>3. deliv'[j] = deliv[j] + 1
        BY <3>2, <4>2, DeliverEffect
      <4>4. ~(deliv[j] > 0)
        BY <1>0, <4>3 DEF Once
      <4>5. QED BY <4>1, <4>4 DEF Started, Settled
    <3>4. QED BY <1>3, <2>1, <3>3
  <2>3. CASE ~\E w \in Worker : Read(w) \/ Autoclaim(w)
    <3>1. \A a \in Attempt : pc'[a] \in {"batch", "run"} => pc[a] \in {"batch", "run"}
      BY <1>4, <2>3 DEF WorkerStep, StartWorker, Spawn, Batch, Shutdown, Exit, Crash, Die, Ack,
         AckFails, Ends, QTypeOK
    <3>2. QED BY <1>3, <2>1, <3>1
  <2>4. QED BY <2>2, <2>3
<1>5. CASE ApiStep \/ UNCHANGED vars \/ \E a \in Attempt : HandleErr(a)
  <2>1. UNCHANGED <<exec, at>>
    BY <1>5 DEF ApiStep, create_test, ApiFails, enqueue_probes, HandleErr, vars, pvars, db, local
  <2>2. \A a \in Attempt : pc'[a] \in {"batch", "run"} => pc[a] \in {"batch", "run"}
    BY <1>5 DEF ApiStep, create_test, ApiFails, enqueue_probes, Enqueue, HandleErr, HandlerErrs,
       ToAck, vars, qvars, QTypeOK
  <2>3. QED BY <1>3, <2>1, <2>2
<1>6. QED BY <1>2, <1>4, <1>5 DEF Next

\* Final is inductive.
LEMMA FinalStep ==
    ASSUME QTypeOK, PTypeOK, InOrder, DeliveredInOrder, Started, Final, [Next]_vars
    PROVE  Final'
<1> SUFFICES ASSUME Once' PROVE (FirstWrite /\ CountsFinal /\ EventsFinal)'
  BY DEF Final
<1>0. /\ FirstWrite /\ CountsFinal /\ EventsFinal
      /\ \A a \in Attempt : a[1] \in Job /\ TestOf[a[1]] \in Test
  <2>1. Once
    BY QueueStep, DeliveriesGrow DEF Once
  <2>2. QED BY <2>1, AttemptParts, ProbeAssumption DEF Final
<1>1. FirstWrite'
  BY <1>0, FirstWriteStep
<1>2. ASSUME NEW t \in Test, AllSettled(t)
      PROVE  AllSettled(t)' /\ Passed(t)' = Passed(t) /\ Failed(t)' = Failed(t)
  <2>1. \A j \in Subtasks(t) : j \in Job /\ exec'[j] = exec[j] /\ result'[j] = result[j]
    BY <1>0, <1>2, SettledStays DEF AllSettled, Subtasks
  <2>2. QED BY <1>2, <2>1 DEF AllSettled, Settled, Passed, Failed, Subtasks
<1>3. ASSUME NEW a \in Attempt,
             at[a] \in {"update", "announce"} /\ counts'[a] = counts[a]
      PROVE  /\ AllSettled(TestOf[a[1]])'
             /\ counts'[a].passed = Cardinality(Passed(TestOf[a[1]]))'
             /\ counts'[a].failed = Cardinality(Failed(TestOf[a[1]]))'
  BY <1>0, <1>2, <1>3 DEF CountsFinal
<1>4. ASSUME NEW a \in Attempt, select_progress(a), Outstanding(TestOf[a[1]]) = {}
      PROVE  /\ AllSettled(TestOf[a[1]])'
             /\ counts'[a].passed = Cardinality(Passed(TestOf[a[1]]))'
             /\ counts'[a].failed = Cardinality(Failed(TestOf[a[1]]))'
  <2>1. AllSettled(TestOf[a[1]])
    BY <1>4 DEF AllSettled, Settled, Outstanding, Subtasks, PTypeOK, ExecStatus
  <2>2. /\ counts'[a].passed = Cardinality(Passed(TestOf[a[1]]))
        /\ counts'[a].failed = Cardinality(Failed(TestOf[a[1]]))
    BY <1>4 DEF select_progress, PTypeOK
  <2>3. QED BY <1>0, <1>2, <2>1, <2>2
<1>5. ASSUME NEW a \in Attempt, at'[a] \in {"update", "announce"}
      PROVE  \/ at[a] \in {"update", "announce"} /\ counts'[a] = counts[a]
             \/ select_progress(a) /\ Outstanding(TestOf[a[1]]) = {}
  <2>1. ASSUME HandlerStep(a), ~select_progress(a)
        PROVE  at[a] \in {"update", "announce"} /\ counts'[a] = counts[a]
    BY <1>5, <2>1 DEF HandlerStep, mark_test_running, mark_subtask_running, mark_subtask_error,
       save_report, publish, finish_test, announce, HandleOk, Step, pvars, local, PTypeOK
  <2>2. ASSUME select_progress(a) PROVE Outstanding(TestOf[a[1]]) = {}
    BY <1>5, <2>2 DEF select_progress, Step, PTypeOK
  <2>3. ASSUME NEW b \in Attempt, b # a, HandlerStep(b)
        PROVE  at'[a] = at[a] /\ counts'[a] = counts[a]
    BY <2>3, HandlerFrame
  <2>4. ASSUME ApiStep \/ UNCHANGED vars \/ \E b \in Attempt : HandleErr(b)
        PROVE  UNCHANGED <<at, counts>>
    BY <2>4 DEF ApiStep, create_test, ApiFails, enqueue_probes, HandleErr, vars, pvars, local
  <2>5. ASSUME Elsewhere PROVE at'[a] = at[a] /\ counts'[a] = counts[a]
    BY <1>5, <2>5 DEF Elsewhere
  <2>6. QED BY <1>5, <2>1, <2>2, <2>3, <2>4, <2>5 DEF Next
<1>6. CountsFinal'
  BY <1>3, <1>4, <1>5 DEF CountsFinal
<1>7. ASSUME NEW t \in Test, NEW c \in closed[t]
      PROVE  AllSettled(t)' /\ c = <<Cardinality(Passed(t)'), Cardinality(Failed(t)')>>
  BY <1>0, <1>2, <1>7 DEF EventsFinal
<1>8. ASSUME NEW t \in Test, NEW c \in closed'[t], c \notin closed[t]
      PROVE  AllSettled(t)' /\ c = <<Cardinality(Passed(t)'), Cardinality(Failed(t)')>>
  <2>1. PICK a \in Attempt : announce(a)
    BY <1>8 DEF Next, ApiStep, create_test, ApiFails, enqueue_probes, HandlerStep,
       mark_test_running, mark_subtask_running, mark_subtask_error, save_report, publish,
       select_progress, finish_test, HandleOk, HandleErr, Elsewhere, vars, pvars, events
  <2>2. at[a] \in {"update", "announce"} /\ counts' = counts
    BY <2>1 DEF announce, Step
  <2>3. t = TestOf[a[1]] /\ c = <<counts[a].passed, counts[a].failed>>
    BY <1>0, <1>8, <2>1 DEF announce, PTypeOK
  <2>4. QED BY <1>3, <2>2, <2>3
<1>9. EventsFinal'
  BY <1>7, <1>8 DEF EventsFinal
<1>10. QED BY <1>1, <1>6, <1>9

LEMMA FinalInvariant == Spec => []Final
<1>1. Init => Final
  BY DEF Init, QInit, Final, FirstWrite, CountsFinal, EventsFinal, Settled
<1>2. TypeOK /\ InOrder /\ DeliveredInOrder /\ Started /\ Final /\ [Next]_vars => Final'
  BY FinalStep DEF TypeOK
<1>3. QED
  BY <1>1, <1>2, ImplementsQueue, TypeCorrect, DeliveredInvariant, StartedInvariant, PTL DEF Spec

\* When no job was delivered twice, every TestFinished event tells the counts
\* that the rows of its test have then and keep, although each of several
\* handlers may read, close and announce on its own.
THEOREM EventsTellTheTruthCorrect == Spec => []EventsTellTheTruth
<1>1. Final => EventsTellTheTruth
  BY DEF Final, Once, EventsFinal, EventsTellTheTruth
<1>2. QED BY <1>1, FinalInvariant, PTL

-----------------------------------------------------------------------------
(***************************************************************************)
(* The last handler of a test closes it.                                   *)
(***************************************************************************)

\* No job was delivered twice and no call has failed.
Plain == Once /\ faults = 0

\* With one delivery per job, a handler that is past its record call has a
\* settled row, one that has announced has closed the test, and an
\* acknowledged job has no task left.
Tidy ==
    /\ \A a \in Attempt :
          /\ pc[a] = "ack" => at[a] = "return"
          /\ at[a] \in {"publish", "select", "update", "announce", "return"} => Settled(a[1])
          /\ at[a] = "announce" => Closed(TestOf[a[1]])
    /\ \A j \in acked : Settled(j) /\ \A a \in Attempt : a[1] = j => ~Live(a)

\* The end of the test has been announced, or a job is left whose handler has
\* yet to look for what is outstanding, or to act on it.
Told(t) == Closed(t) /\ closed[t] # {}
Left(t) == \E j \in Subtasks(t) :
              j \notin acked /\ \A a \in Attempt : a[1] = j => at[a] # "return"

LastCloses == \A t \in Test : Subtasks(t) # {} /\ AllSettled(t) => Told(t) \/ Left(t)

\* With one delivery per job there is one attempt at it.
LEMMA OnlyAttempt ==
    ASSUME QTypeOK, DeliveredInOrder, Once, NEW a \in Attempt, NEW b \in Attempt,
           a[1] = b[1], pc[a] # "none", pc[b] # "none"
    PROVE  a = b
<1> USE QueueAssumption
<1>1. PICK j \in Job, n \in 1 .. MaxDeliveries : a = <<j, n>>
  BY DEF Attempt
<1>2. PICK k \in Job, m \in 1 .. MaxDeliveries : b = <<k, m>>
  BY DEF Attempt
<1>3. ~(deliv[j] < n) /\ ~(deliv[j] < m) /\ j = k /\ deliv[j] <= 1 /\ deliv[j] \in Nat
  BY <1>1, <1>2 DEF DeliveredInOrder, Once, QTypeOK
<1>4. n = 1 /\ m = 1
  BY <1>3
<1>5. QED BY <1>1, <1>2, <1>3, <1>4

\* A call of a handler keeps both.
LEMMA TidyCall ==
    ASSUME QTypeOK, PTypeOK, DeliveredInOrder, Once, FirstWrite, Tidy, LastCloses,
           [Next]_vars, NEW a \in Attempt, HandlerStep(a),
           \A b \in Attempt : at[b] # "mark_test" => pc[b] # "none"
    PROVE  Tidy' /\ LastCloses'
<1>0. /\ a[1] \in Job /\ TestOf[a[1]] \in Test /\ pc[a] = "run" /\ acked' = acked
      /\ \A b \in Attempt : b # a => at'[b] = at[b] /\ pc'[b] = pc[b]
      /\ \A b \in Attempt : b[1] \in Job /\ TestOf[b[1]] \in Test
      /\ \A j \in Job : j # a[1] => exec'[j] = exec[j]
  BY HandlerFrame, AttemptParts, ProbeAssumption
<1>1. a[1] \notin acked
  BY <1>0 DEF Tidy, Live
<1>2. \A b \in Attempt : b # a /\ b[1] = a[1] => at[b] = "mark_test" /\ ~Live(b)
  BY <1>0, OnlyAttempt DEF Live
<1>3. \A j \in Job : Settled(j) => Settled(j)'
  BY SettledStays DEF Settled
<1>4. \A t \in Test : Closed(t) => Closed(t)'
  BY StatusStep
<1>5. \A t \in Test : closed[t] \subseteq closed'[t]
  BY <1>0 DEF HandlerStep, mark_test_running, mark_subtask_running, mark_subtask_error,
     save_report, publish, select_progress, finish_test, announce, HandleOk, pvars, events,
     PTypeOK
<1>6. ASSUME /\ pc'[a] = "ack" => at'[a] = "return"
             /\ at'[a] \in {"publish", "select", "update", "announce", "return"}
                   => Settled(a[1])'
             /\ at'[a] = "announce" => Closed(TestOf[a[1]])'
      PROVE  Tidy'
  <2>1. ASSUME NEW b \in Attempt, b # a
        PROVE  /\ pc'[b] = "ack" => at'[b] = "return"
               /\ at'[b] \in {"publish", "select", "update", "announce", "return"}
                     => Settled(b[1])'
               /\ at'[b] = "announce" => Closed(TestOf[b[1]])'
    BY <1>0, <1>3, <1>4, <2>1 DEF Tidy
  <2>2. ASSUME NEW j \in acked, NEW b \in Attempt, b[1] = j PROVE ~Live(b)'
    BY <1>0, <1>1, <2>2 DEF Tidy, Live
  <2>3. \A j \in acked : j \in Job /\ Settled(j)'
    BY <1>3 DEF Tidy, QTypeOK
  <2>4. QED BY <1>0, <1>6, <2>1, <2>2, <2>3 DEF Tidy
<1>7. ASSUME NEW t \in Test, Told(t) PROVE Told(t)'
  BY <1>4, <1>5, <1>7 DEF Told
<1>8. ASSUME NEW t \in Test, Left(t), at'[a] # "return" \/ at[a] = "return" PROVE Left(t)'
  BY <1>0, <1>8 DEF Left, Subtasks
<1>9. ASSUME at'[a] # "return" PROVE a[1] \in Subtasks(TestOf[a[1]]) /\ Left(TestOf[a[1]])'
  BY <1>0, <1>1, <1>2, <1>9 DEF Left, Subtasks
<1>10. ASSUME NEW t \in Test, t # TestOf[a[1]], AllSettled(t)' PROVE AllSettled(t)
  BY <1>0, <1>10 DEF AllSettled, Settled, Subtasks
<1>11. ASSUME at'[a] # "return" PROVE LastCloses'
  <2> SUFFICES ASSUME NEW t \in Test, Subtasks(t) # {}, AllSettled(t)'
               PROVE  Told(t)' \/ Left(t)'
    BY DEF LastCloses, Subtasks
  <2>1. CASE t = TestOf[a[1]]
    BY <1>9, <1>11, <2>1
  <2>2. CASE t # TestOf[a[1]]
    BY <1>7, <1>8, <1>10, <1>11, <2>2 DEF LastCloses
  <2>3. QED BY <2>1, <2>2
<1>12. CASE mark_test_running(a) \/ mark_subtask_running(a)
  <2>1. at'[a] \in {"mark_subtask", "record"} /\ pc'[a] = "run"
    BY <1>0, <1>12 DEF mark_test_running, mark_subtask_running, Step, qvars, PTypeOK
  <2>2. QED BY <1>6, <1>11, <2>1
<1>13. CASE mark_subtask_error(a) \/ save_report(a)
  <2>1. at'[a] = "publish" /\ pc'[a] = "run" /\ exec'[a[1]] \in {"finished", "error"}
    BY <1>0, <1>13 DEF mark_subtask_error, save_report, Step, qvars, PTypeOK
  <2>2. QED BY <1>6, <1>11, <2>1 DEF Settled
<1>14. CASE publish(a) \/ finish_test(a)
  <2>1. /\ at[a] \in {"publish", "update"} /\ at'[a] \in {"select", "announce"}
        /\ pc'[a] = "run" /\ (at'[a] = "announce" => finish_test(a))
    BY <1>0, <1>14 DEF publish, finish_test, Step, qvars, PTypeOK
  <2>2. finish_test(a) => Closed(TestOf[a[1]])'
    BY <1>0 DEF finish_test, Closed, PTypeOK
  <2>3. Settled(a[1])'
    BY <1>0, <1>3, <2>1 DEF Tidy
  <2>4. QED BY <1>6, <1>11, <2>1, <2>2, <2>3
<1>15. CASE select_progress(a)
  <2>1. /\ at[a] = "select" /\ pc'[a] = "run" /\ at'[a] \in {"update", "return"}
        /\ exec' = exec /\ (at'[a] = "return" => Outstanding(TestOf[a[1]]) # {})
    BY <1>0, <1>15 DEF select_progress, Step, qvars, db, PTypeOK
  <2>2. Settled(a[1])'
    BY <1>0, <1>3, <2>1 DEF Tidy
  <2>3. Tidy'
    BY <1>6, <2>1, <2>2
  <2>4. CASE at'[a] = "return"
    <3> SUFFICES ASSUME NEW t \in Test, Subtasks(t) # {}, AllSettled(t)'
                 PROVE  Told(t)' \/ Left(t)'
      BY <2>3 DEF LastCloses, Subtasks
    <3>1. t # TestOf[a[1]]
      BY <2>1, <2>4 DEF AllSettled, Settled, Outstanding
    <3>2. AllSettled(t)
      BY <1>10, <3>1
    <3>3. CASE Told(t)
      BY <1>7, <3>3
    <3>4. CASE Left(t)
      <4>1. PICK j \in Subtasks(t) :
               j \notin acked /\ \A b \in Attempt : b[1] = j => at[b] # "return"
        BY <3>4 DEF Left
      <4>2. j # a[1]
        BY <3>1, <4>1 DEF Subtasks
      <4>3. QED BY <1>0, <4>1, <4>2 DEF Left, Subtasks
    <3>5. QED BY <3>2, <3>3, <3>4 DEF LastCloses
  <2>5. CASE at'[a] # "return"
    BY <1>11, <2>3, <2>5
  <2>6. QED BY <2>4, <2>5
<1>16. CASE announce(a)
  <2>1. /\ at[a] = "announce" /\ pc'[a] = "run" /\ at'[a] = "return" /\ exec' = exec
        /\ closed'[TestOf[a[1]]] # {}
    BY <1>0, <1>16 DEF announce, Step, qvars, db, PTypeOK
  <2>2. Settled(a[1])' /\ Told(TestOf[a[1]])'
    BY <1>0, <1>3, <1>4, <2>1 DEF Tidy, Told
  <2>3. Tidy'
    BY <1>6, <2>1, <2>2
  <2>4. ASSUME NEW t \in Test, t # TestOf[a[1]], Subtasks(t) # {}, AllSettled(t)'
        PROVE  Told(t)' \/ Left(t)'
    <3>1. CASE Told(t)
      BY <1>7, <3>1
    <3>2. CASE Left(t)
      <4>1. PICK j \in Subtasks(t) :
               j \notin acked /\ \A b \in Attempt : b[1] = j => at[b] # "return"
        BY <3>2 DEF Left
      <4>2. j # a[1]
        BY <2>4, <4>1 DEF Subtasks
      <4>3. QED BY <1>0, <4>1, <4>2 DEF Left, Subtasks
    <3>3. QED BY <1>10, <2>4, <3>1, <3>2 DEF LastCloses
  <2>5. QED BY <2>2, <2>3, <2>4 DEF LastCloses, Subtasks
<1>17. CASE HandleOk(a)
  <2>1. at[a] = "return" /\ at' = at /\ UNCHANGED <<exec, status, closed>>
    BY <1>17 DEF HandleOk, pvars, db, local, events
  <2>2. Tidy'
    BY <1>0, <1>3, <1>4, <1>6, <2>1 DEF Tidy
  <2>3. \A t \in Test : AllSettled(t)' = AllSettled(t)
    BY <2>1 DEF AllSettled, Settled, Subtasks
  <2>4. QED BY <1>7, <1>8, <2>1, <2>2, <2>3 DEF LastCloses, Subtasks
<1>18. QED
  BY <1>12, <1>13, <1>14, <1>15, <1>16, <1>17 DEF HandlerStep

\* A handler's place is that of a task: it starts with it and ends with it.
Placed == \A a \in Attempt : at[a] # "mark_test" => pc[a] \in {"run", "ack"}

LEMMA PlacedStep ==
    ASSUME QTypeOK, PTypeOK, DeliveredInOrder, Placed, [Next]_vars
    PROVE  Placed'
<1>1. \A a \in Attempt : pc[a] \in {"run", "ack", "over"} => pc'[a] \in {"run", "ack", "over"}
  BY QueueStep, TaskStep
<1>2. ASSUME NEW a \in Attempt, HandlerStep(a) PROVE Placed'
  <2>1. pc'[a] \in {"run", "ack"}
    BY <1>2 DEF HandlerStep, mark_test_running, mark_subtask_running, mark_subtask_error,
       save_report, publish, select_progress, finish_test, announce, HandleOk, HandlerReturns,
       ToAck, Step, qvars, QTypeOK
  <2>2. \A b \in Attempt : b # a => at'[b] = at[b] /\ pc'[b] = pc[b]
    BY <1>2, HandlerFrame
  <2>3. QED BY <2>1, <2>2 DEF Placed
<1>3. CASE Elsewhere
  <2>1. \A a \in Attempt : at'[a] # "mark_test" => at'[a] = at[a] /\ pc'[a] # "over"
    BY <1>3 DEF Elsewhere
  <2>2. QED BY <1>1, <2>1 DEF Placed
<1>4. CASE ApiStep \/ UNCHANGED vars \/ \E a \in Attempt : HandleErr(a)
  <2>1. at' = at /\ \A a \in Attempt : pc[a] \in {"run", "ack"} => pc'[a] \in {"run", "ack"}
    BY <1>4 DEF ApiStep, create_test, ApiFails, enqueue_probes, Enqueue, HandleErr, HandlerErrs,
       ToAck, vars, qvars, pvars, local, QTypeOK
  <2>2. QED BY <2>1 DEF Placed
<1>5. QED BY <1>2, <1>3, <1>4 DEF Next

\* A step of the queue keeps Tidy and LastCloses: only XACK after a handler's
\* return takes a job out of Left.
LEMMA TidyQueue ==
    ASSUME QTypeOK, PTypeOK, DeliveredInOrder, AckedApart, Once, Once', Tidy, LastCloses,
           [Next]_vars, Elsewhere,
           \/ \E w \in Worker : WorkerStep(w)
           \/ \E a \in Attempt : Ack(a) \/ AckFails(a)
    PROVE  Tidy' /\ LastCloses'
<1> USE QueueAssumption
<1>0. /\ UNCHANGED <<exec, status, closed>>
      /\ \A a \in Attempt : at'[a] = at[a] \/ at'[a] = "mark_test"
      /\ \A a \in Attempt : pc'[a] # "over" => at'[a] = at[a]
      /\ \A a \in Attempt : a[1] \in Job
  BY AttemptParts DEF Elsewhere, db, events
<1>1. /\ \A j \in Job : Settled(j)' = Settled(j)
      /\ \A t \in Test : Closed(t)' = Closed(t)
      /\ \A t \in Test : AllSettled(t)' = AllSettled(t)
  BY <1>0 DEF Settled, Closed, AllSettled, Subtasks
<1>2. \A a \in Attempt : pc'[a] = "ack" => pc[a] = "ack"
  BY DEF WorkerStep, StartWorker, Read, Autoclaim, Receive, Deliver, Spawn, Shutdown, Exit,
     Crash, Die, Ack, AckFails, Ends, QTypeOK
<1>3. ASSUME NEW a \in Attempt, Live(a)', ~Live(a) PROVE a[1] \notin acked
  <2>1. \E w \in Worker : Read(w) \/ Autoclaim(w)
    BY <1>3 DEF WorkerStep, StartWorker, Spawn, Batch, Shutdown, Exit, Crash, Die, Ack, AckFails,
       Ends, Live, QTypeOK
  <2>2. PICK w \in Worker : Read(w) \/ Autoclaim(w)
    BY <2>1
  <2>3. PICK D \in SUBSET Job : Receive(D, w)
    BY <2>2 DEF Read, Autoclaim, NewEntries, QTypeOK
  <2>4. PICK j \in Job, n \in 1 .. MaxDeliveries : a = <<j, n>>
    BY DEF Attempt
  <2>5. pc'[a] # pc[a]
    BY <1>3 DEF Live
  <2>6. j \in D
    BY <2>3, <2>4, <2>5, DeliverEffect
  <2>7. deliv'[j] = deliv[j] + 1 /\ deliv'[j] <= 1 /\ deliv[j] \in Nat
    <3>1. deliv'[j] = deliv[j] + 1
      BY <2>3, <2>6, DeliverEffect
    <3>2. deliv'[j] <= 1
      BY DEF Once
    <3>3. QED BY <3>1, <3>2 DEF QTypeOK
  <2>8. ~(deliv[j] > 0)
    BY <2>7
  <2>9. QED BY <2>4, <2>8 DEF AckedApart
<1>4. ASSUME NEW a \in Attempt, Ack(a)
      PROVE  /\ Settled(a[1]) /\ at[a] = "return"
             /\ \A b \in Attempt : b[1] = a[1] => ~Live(b)'
  <2>1. pc[a] = "ack" /\ pc'[a] = "over" /\ \A b \in Attempt : b # a => pc'[b] = pc[b]
    BY <1>4 DEF Ack, Ends, QTypeOK
  <2>2. \A b \in Attempt : b # a /\ b[1] = a[1] => pc[b] = "none"
    BY <2>1, OnlyAttempt
  <2>3. QED BY <2>1, <2>2 DEF Tidy, Live
<1>5. \A j \in acked' : j \in acked \/ \E a \in Attempt : Ack(a) /\ a[1] = j
  BY DEF WorkerStep, StartWorker, Read, Autoclaim, Spawn, Shutdown, Exit, Crash, Ack, AckFails
<1>6. Tidy'
  <2>1. ASSUME NEW a \in Attempt
        PROVE  /\ pc'[a] = "ack" => at'[a] = "return"
               /\ at'[a] \in {"publish", "select", "update", "announce", "return"}
                     => Settled(a[1])'
               /\ at'[a] = "announce" => Closed(TestOf[a[1]])'
    <3>1. TestOf[a[1]] \in Test
      BY <1>0, ProbeAssumption
    <3>2. QED BY <1>0, <1>1, <1>2, <3>1 DEF Tidy
  <2>2. ASSUME NEW j \in acked' PROVE Settled(j)' /\ \A a \in Attempt : a[1] = j => ~Live(a)'
    <3>1. CASE j \in acked
      BY <1>1, <1>3, <3>1 DEF Tidy, QTypeOK
    <3>2. CASE j \notin acked
      BY <1>0, <1>1, <1>4, <1>5, <3>2
    <3>3. QED BY <3>1, <3>2
  <2>3. QED BY <2>1, <2>2 DEF Tidy
<1>7. LastCloses'
  <2> SUFFICES ASSUME NEW t \in Test, Subtasks(t) # {}, AllSettled(t) PROVE Told(t)' \/ Left(t)'
    BY <1>1 DEF LastCloses, Subtasks
  <2>1. CASE Told(t)
    BY <1>0, <1>1, <2>1 DEF Told
  <2>2. CASE Left(t)
    <3>1. PICK j \in Subtasks(t) :
             j \notin acked /\ \A a \in Attempt : a[1] = j => at[a] # "return"
      BY <2>2 DEF Left
    <3>2. j \notin acked'
      BY <1>4, <1>5, <3>1
    <3>3. \A a \in Attempt : a[1] = j => at'[a] # "return"
      BY <1>0, <3>1
    <3>4. QED BY <3>1, <3>2, <3>3 DEF Left, Subtasks
  <2>3. QED BY <2>1, <2>2 DEF LastCloses
<1>8. QED BY <1>6, <1>7

\* Each handler looks for what is outstanding after it has written its row, so
\* the last of them finds nothing and closes the test: if no job was delivered
\* twice and no call failed, a test whose jobs are all acknowledged is closed
\* and announced, for any number of subtasks that settle at the same time.
THEOREM AllAckedIsClosedCorrect == Spec => []AllAckedIsClosed
<1>1. Init => Placed /\ (Plain => Tidy /\ LastCloses)
  <2> SUFFICES ASSUME Init PROVE Placed /\ Tidy /\ LastCloses
    OBVIOUS
  <2>1. \A t \in Test : Subtasks(t) # {} => ~AllSettled(t)
    BY DEF Init, AllSettled, Settled, Subtasks
  <2>2. QED BY <2>1 DEF Init, QInit, Placed, Tidy, LastCloses
<1>2. /\ TypeOK /\ InOrder /\ DeliveredInOrder /\ AckedApart /\ Final
      /\ Placed /\ (Plain => Tidy /\ LastCloses) /\ [Next]_vars
      => (Placed /\ (Plain => Tidy /\ LastCloses))'
  <2> SUFFICES ASSUME QTypeOK, PTypeOK, InOrder, DeliveredInOrder, AckedApart, Final, Placed,
                      Plain => Tidy /\ LastCloses, [Next]_vars
               PROVE  Placed' /\ (Plain' => Tidy' /\ LastCloses')
    BY DEF TypeOK
  <2>1. Placed'
    BY PlacedStep
  <2> SUFFICES ASSUME Plain' PROVE Tidy' /\ LastCloses'
    BY <2>1
  <2>2. faults \in Nat /\ faults' = 0
    BY QueueAssumption DEF QTypeOK, Plain
  <2>3. \A a \in Attempt : ~HandleErr(a)
    BY <2>2 DEF HandleErr, HandlerErrs
  <2>4. faults = 0
    <3>1. faults' \in {faults, faults + 1}
      BY QueueStep DEF QNext, Enqueue, HandlerReturns, HandlerErrs, CallFails, ToAck, WorkerStep,
         StartWorker, Read, Autoclaim, Receive, Spawn, Shutdown, Exit, Crash, Ack, AckFails, qvars
    <3>2. QED BY <2>2, <3>1
  <2>5. Once /\ Once'
    <3>1. \A j \in Job : deliv[j] \in Nat /\ deliv'[j] \in Nat /\ deliv[j] <= deliv'[j]
      BY QueueStep, DeliveriesGrow
    <3>2. QED BY <3>1 DEF Plain, Once
  <2>6. Tidy /\ LastCloses /\ FirstWrite
    BY <2>4, <2>5 DEF Plain, Final
  <2>7. CASE \E a \in Attempt : HandlerStep(a)
    BY <2>5, <2>6, <2>7, TidyCall DEF Placed
  <2>8. CASE /\ \/ \E w \in Worker : WorkerStep(w)
                \/ \E a \in Attempt : Ack(a) \/ AckFails(a)
             /\ Elsewhere
    BY <2>5, <2>6, <2>8, TidyQueue
  <2>9. CASE ApiStep \/ UNCHANGED vars
    <3>1. UNCHANGED <<exec, closed, at, pc, acked>>
      BY <2>9 DEF ApiStep, create_test, ApiFails, enqueue_probes, Enqueue, vars, qvars, pvars,
         db, local, events
    <3>2. \A t \in Test : Closed(t) => Closed(t)'
      BY StatusStep
    <3>3. \A a \in Attempt : a[1] \in Job /\ TestOf[a[1]] \in Test
      BY AttemptParts, ProbeAssumption
    <3>4. Tidy'
      BY <2>6, <3>1, <3>2, <3>3 DEF Tidy, Settled, Live
    <3>5. LastCloses'
      BY <2>6, <3>1, <3>2 DEF LastCloses, Told, Left, AllSettled, Settled, Subtasks
    <3>6. QED BY <3>4, <3>5
  <2>10. QED BY <2>3, <2>7, <2>8, <2>9 DEF Next
<1>3. TypeOK /\ (Plain => Tidy /\ LastCloses) => AllAckedIsClosed
  <2> SUFFICES ASSUME QTypeOK, Plain, Tidy, LastCloses, NEW t \in Test, Subtasks(t) # {},
                      Subtasks(t) \subseteq acked
               PROVE  Closed(t) /\ closed[t] # {}
    BY DEF TypeOK, AllAckedIsClosed, Plain, Once
  <2>1. AllSettled(t) /\ ~Left(t)
    BY DEF AllSettled, Left, Tidy
  <2>2. QED BY <2>1 DEF LastCloses, Told
<1>4. QED
  BY <1>1, <1>2, <1>3, ImplementsQueue, TypeCorrect, DeliveredInvariant, AckedInvariant,
     FinalInvariant, PTL DEF Spec

=============================================================================
