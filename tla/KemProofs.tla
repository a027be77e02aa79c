----------------------------- MODULE KemProofs -----------------------------
(***************************************************************************)
(* Proofs about KemRun, for every number of runs, workers, adapters and    *)
(* cells, with crashes, redeliveries, handlers of one run side by side     *)
(* (Overrun) and failed calls.                                             *)
(***************************************************************************)
EXTENDS KemRun, QueueProofs

\* A step of the handlers, the API or the queue is a step of the queue or
\* leaves it alone.
LEMMA StepOfQueue == [Next]_vars => [QNext]_qvars
<1> SUFFICES ASSUME Next PROVE QNext \/ UNCHANGED qvars
  BY DEF vars
<1>1. CASE ApiStep
  BY <1>1 DEF ApiStep, create_run, enqueue_kem, ApiFails, QNext
<1>2. ASSUME NEW a \in Attempt, HandlerStep(a) PROVE QNext \/ UNCHANGED qvars
  <2>1. CASE HandleEnds(a)
    BY <2>1 DEF HandleEnds, QNext
  <2>2. QED
    BY <1>2, <2>1 DEF HandlerStep, start, console_log, log_conflict, capabilities_err, publish,
       console_cell, finish, announce
<1>3. ASSUME NEW a \in Attempt, HandlerFault(a) PROVE QNext
  BY <1>3 DEF HandlerFault, log_fails, cell_fails, publish_fails, HandleErr, QNext
<1>4. CASE (\E w \in Worker : WorkerStep(w)) \/ \E a \in Attempt : Ack(a) \/ AckFails(a)
  BY <1>4 DEF QNext
<1>5. QED BY <1>1, <1>2, <1>3, <1>4 DEF Next, QueueStep

\* Whatever is proved of the queue holds of the runs that use it.
THEOREM ImplementsQueue == Spec => QSpec
<1>1. Init => QInit
  BY DEF Init
<1>2. QED BY <1>1, StepOfQueue, PTL DEF Spec, QSpec

-----------------------------------------------------------------------------
(***************************************************************************)
(* Types                                                                   *)
(***************************************************************************)

\* The places a body may go to are calls with a counter.
LEMMA AfterType ==
    ASSUME KTypeOK, NEW a \in Attempt, at[a] \in BodyLog \cup {"run_failed"},
           NEW d \in After(a)
    PROVE  d[1] \in Call /\ d[2] \in Nat
<1> USE DEF Call, BodyLog
<1>1. \A n \in Int : Printing(n)[1] \in Call /\ Printing(n)[2] \in Nat
  BY DEF Printing
<1>2. \A c \in Nat : NextCell(c)[1] \in Call /\ NextCell(c)[2] \in Nat
  BY DEF NextCell
<1>3. /\ \A n \in GroupLines : n \in Int
      /\ \A n \in PriorityLines : n \in Int
  BY KemAssumption DEF GroupLines, PriorityLines
<1>4. left[a] \in Nat
  BY DEF KTypeOK
<1>5. QED BY <1>1, <1>2, <1>3, <1>4 DEF After

\* Types are kept by each call of the handler, successful or not.
LEMMA HandlerType ==
    ASSUME KTypeOK, NEW a \in Attempt, HandlerStep(a) \/ HandlerFault(a)
    PROVE  KTypeOK'
<1>0. a[1] \in Job
  BY AttemptParts
<1>1. ASSUME NEW c \in Call, NEW n \in Nat, GoTo(a, c, n)
      PROVE  at' \in [Attempt -> Call] /\ left' \in [Attempt -> Nat]
  BY <1>1 DEF GoTo, KTypeOK
<1>2. ASSUME Count(a) PROVE seq' \in [Attempt -> Nat]
  BY <1>2 DEF Count, KTypeOK
<1>3. ASSUME Insert(a) PROVE lines' \in [Job -> SUBSET (Nat \X Kind)]
  <2>1. Line(a) \in Nat \X Kind
    BY DEF Line, Number, KindOf, Kind, KTypeOK
  <2>2. QED BY <1>0, <1>3, <2>1 DEF Insert, KTypeOK
<1>4. ASSUME NEW v \in Verdict, Upsert(a, v) PROVE cells' \in [Job -> [Cell -> Verdict]]
  BY <1>0, <1>4 DEF Upsert, KTypeOK
<1>5. CellVerdict(a) \subseteq Verdict
  BY DEF CellVerdict, Verdict
<1>e. ASSUME NEW e \in Event \cup {Silence}, Writes(a, e) \/ event' = [event EXCEPT ![a] = e]
      PROVE  event' \in [Attempt -> Event \cup {Silence}]
  BY <1>e DEF Writes, KTypeOK
<1>6. CASE start(a)
  BY <1>0, <1>1, <1>6 DEF start, KTypeOK, RunStatus, Call, BodyLog
<1>7. CASE console_log(a)
  <2>1. at[a] \in BodyLog \cup {"run_failed"} /\ Count(a) /\ Insert(a)
    BY <1>7 DEF console_log, In
  <2>2. at' \in [Attempt -> Call] /\ left' \in [Attempt -> Nat]
    BY <1>1, <1>7, <2>1, AfterType DEF console_log
  <2>3. <<"log", Line(a)>> \in Event
    BY DEF Event, Line, Number, KindOf, Kind, KTypeOK
  <2>4. event' \in [Attempt -> Event \cup {Silence}]
    BY <1>7, <1>e, <2>3 DEF console_log
  <2>5. QED BY <1>2, <1>3, <1>7, <2>1, <2>2, <2>4 DEF console_log, KTypeOK
<1>8. CASE log_conflict(a)
  BY <1>1, <1>2, <1>8 DEF log_conflict, db, KTypeOK, Call
<1>9. CASE log_fails(a)
  <2>1. lines' \in [Job -> SUBSET (Nat \X Kind)]
    BY <1>3, <1>9 DEF log_fails, KTypeOK
  <2>2. QED BY <1>1, <1>2, <1>9, <2>1 DEF log_fails, KTypeOK, Call
<1>10. CASE capabilities_err(a)
  BY <1>1, <1>10 DEF capabilities_err, db, KTypeOK, Call, BodyLog
<1>11. CASE console_cell(a)
  <2>1. PICK v \in CellVerdict(a) :
          LET d == IF v \in {"passed", "failed"} THEN <<"cell_line", left[a]>>
                   ELSE NextCell(left[a])
          IN Upsert(a, v) /\ Writes(a, <<"cell", <<left[a], v>>>>) /\ GoTo(a, d[1], d[2])
    BY <1>11 DEF console_cell
  <2>2. at' \in [Attempt -> Call] /\ left' \in [Attempt -> Nat]
    BY <1>1, <2>1 DEF NextCell, Call, BodyLog, KTypeOK
  <2>3. cells' \in [Job -> [Cell -> Verdict]]
    BY <1>4, <1>5, <2>1
  <2>4. <<"cell", <<left[a], v>>>> \in Event
    BY <1>5 DEF Event, KTypeOK
  <2>5. event' \in [Attempt -> Event \cup {Silence}]
    BY <1>e, <2>1, <2>4
  <2>6. QED BY <1>11, <2>2, <2>3, <2>5 DEF console_cell, KTypeOK
<1>12. CASE cell_fails(a)
  <2>1. cells' \in [Job -> [Cell -> Verdict]]
    BY <1>4, <1>5, <1>12 DEF cell_fails, KTypeOK
  <2>2. QED BY <1>1, <1>12, <2>1 DEF cell_fails, KTypeOK, Call
<1>p. CASE publish(a)
  BY <1>e, <1>p DEF publish, db, KTypeOK
<1>q. CASE publish_fails(a)
  BY <1>1, <1>e, <1>q DEF publish_fails, db, KTypeOK, Call
<1>13. CASE finish(a)
  BY <1>0, <1>1, <1>13 DEF finish, KTypeOK, RunStatus, Call
<1>14. CASE announce(a)
  BY <1>0, <1>1, <1>14 DEF announce, db, KTypeOK, Call
<1>15. CASE HandleEnds(a)
  BY <1>15 DEF HandleEnds, kvars, db, local, KTypeOK
<1>16. CASE HandleErr(a)
  <2>1. lines' \in [Job -> SUBSET (Nat \X Kind)]
    BY <1>3, <1>16 DEF HandleErr, KTypeOK
  <2>2. QED BY <1>16, <2>1 DEF HandleErr, local, KTypeOK
<1>17. QED
  BY <1>6, <1>7, <1>8, <1>9, <1>10, <1>11, <1>12, <1>13, <1>14, <1>15, <1>16,
     <1>p, <1>q DEF HandlerStep, HandlerFault

\* Every reachable state of the runs, the streams and the workers is well typed.
THEOREM TypeCorrect == Spec => []TypeOK
<1>1. Init => KTypeOK
  BY DEF Init, KTypeOK, RunStatus, Verdict, Call
<1>2. KTypeOK /\ [Next]_vars => KTypeOK'
  <2> SUFFICES ASSUME KTypeOK, [Next]_vars PROVE KTypeOK'
    OBVIOUS
  <2>1. ASSUME NEW j \in Job, create_run(j) \/ enqueue_kem(j) \/ ApiFails(j)
        PROVE  KTypeOK'
    BY <2>1 DEF create_run, enqueue_kem, ApiFails, local, KTypeOK, RunStatus
  <2>2. CASE Elsewhere
    BY <2>2 DEF Elsewhere, db, KTypeOK, Call
  <2>3. CASE UNCHANGED vars
    BY <2>3 DEF vars, kvars, db, local, KTypeOK
  <2>4. QED BY <2>1, <2>2, <2>3, HandlerType DEF Next, QueueStep, ApiStep
<1>3. QED BY <1>1, <1>2, ImplementsQueue, QTypeCorrect, PTL DEF Spec, TypeOK

-----------------------------------------------------------------------------
(***************************************************************************)
(* The numbering of the console                                            *)
(***************************************************************************)

\* Faults are only counted up.
LEMMA FaultsGrow ==
    ASSUME QTypeOK, [Next]_vars, faults' = 0
    PROVE  /\ faults = 0
           /\ \A a \in Attempt : ~HandlerFault(a)
<1>1. faults \in Nat
  BY QueueAssumption DEF QTypeOK
<1>2. ASSUME NEW a \in Attempt, HandlerFault(a) PROVE faults' = faults + 1
  BY <1>2 DEF HandlerFault, log_fails, cell_fails, publish_fails, HandleErr, CallFails, HandlerErrs
<1>3. faults' = faults \/ faults' = faults + 1
  <2>1. [QNext]_qvars
    BY StepOfQueue
  <2>2. ASSUME NEW w \in Worker, WorkerStep(w) PROVE faults' = faults \/ faults' = faults + 1
    BY <2>2 DEF WorkerStep, StartWorker, Read, Autoclaim, Receive, Spawn, Shutdown, Exit, Crash
  <2>3. ASSUME NEW a \in Attempt,
               HandlerReturns(a) \/ HandlerErrs(a) \/ CallFails(a) \/ Ack(a) \/ AckFails(a)
        PROVE  faults' = faults \/ faults' = faults + 1
    BY <2>3 DEF HandlerReturns, HandlerErrs, CallFails, Ack, AckFails
  <2>4. QED BY <2>1, <2>2, <2>3 DEF QNext, Enqueue, qvars
<1>4. QED BY <1>1, <1>2, <1>3

\* What an INSERT does to the numbers in use.
LEMMA InsertNumbers ==
    ASSUME KTypeOK, NEW a \in Attempt, Insert(a)
    PROVE  /\ Numbers(a[1])' = Numbers(a[1]) \cup {Number(a)}
           /\ \A j \in Job : j # a[1] => Numbers(j)' = Numbers(j)
<1>1. a[1] \in Job
  BY AttemptParts
<1>2. /\ lines'[a[1]] = lines[a[1]] \cup {<<Number(a), KindOf(at[a])>>}
      /\ \A j \in Job : j # a[1] => lines'[j] = lines[j]
  BY <1>1 DEF Insert, Line, KTypeOK
<1>3. \A x : x \in Numbers(a[1])' <=> x \in Numbers(a[1]) \/ x = Number(a)
  <2> DEFINE row == <<Number(a), KindOf(at[a])>>
  <2>1. row[1] = Number(a)
    OBVIOUS
  <2>2. lines'[a[1]] = lines[a[1]] \cup {row}
    BY <1>2
  <2>3. ASSUME NEW x PROVE /\ x \in Numbers(a[1])' <=> \E l \in lines'[a[1]] : x = l[1]
                           /\ x \in Numbers(a[1]) <=> \E l \in lines[a[1]] : x = l[1]
    BY DEF Numbers
  <2> HIDE DEF row
  <2>4. QED BY <2>1, <2>2, <2>3
<1>4. Numbers(a[1])' = Numbers(a[1]) \cup {Number(a)}
  BY <1>3
<1>5. QED BY <1>2, <1>4 DEF Numbers

Numbered == LogContiguous /\ CountedLinesExist

\* One line more, with the next number of its handler.
LEMMA LogKeepsNumbering ==
    ASSUME KTypeOK, Numbered, faults = 0, NEW a \in Attempt, console_log(a)
    PROVE  Numbered'
<1>1. /\ Count(a) /\ Insert(a)
      /\ a[1] \in Job
      /\ seq[a] \in Nat
      /\ seq'[a] = seq[a] + 1
      /\ \A b \in Attempt : b # a => seq'[b] = seq[b]
  BY AttemptParts DEF console_log, Count, KTypeOK
<1>2. /\ Numbers(a[1])' = Numbers(a[1]) \cup {seq[a] + 1}
      /\ \A j \in Job : j # a[1] => Numbers(j)' = Numbers(j)
  BY <1>1, InsertNumbers DEF Number
<1>3. \A j \in Job : Numbers(j) \subseteq Nat
  BY DEF Numbers, KTypeOK
<1>4. /\ 1 .. seq[a] \subseteq Numbers(a[1])
      /\ \A b \in Attempt : 1 .. seq[b] \subseteq Numbers(b[1])
      /\ \A j \in Job : \A m \in Numbers(j) : 1 .. m \subseteq Numbers(j)
  BY DEF Numbered, CountedLinesExist, LogContiguous
<1>5. 1 .. seq[a] + 1 = (1 .. seq[a]) \cup {seq[a] + 1}
  BY <1>1
<1>6. ASSUME NEW j \in Job, NEW m \in Numbers(j)' PROVE 1 .. m \subseteq Numbers(j)'
  <2>1. CASE m \in Numbers(j)
    BY <1>2, <1>4, <2>1
  <2>2. CASE m \notin Numbers(j)
    BY <1>2, <1>4, <1>5, <1>6, <2>2
  <2>3. QED BY <2>1, <2>2
<1>7. ASSUME NEW b \in Attempt PROVE 1 .. seq'[b] \subseteq Numbers(b[1])'
  <2>1. b[1] \in Job
    BY AttemptParts
  <2>2. CASE b = a
    BY <1>1, <1>2, <1>4, <1>5, <2>2
  <2>3. CASE b # a
    BY <1>1, <1>2, <1>4, <2>1, <2>3
  <2>4. QED BY <2>2, <2>3
<1>8. QED BY <1>6, <1>7 DEF Numbered, LogContiguous, CountedLinesExist

\* The numbering of the console, for any number of handlers that write to it.
LEMMA NumberedInvariant == Spec => []Numbered
<1>1. Init => Numbered
  BY DEF Init, Numbered, LogContiguous, CountedLinesExist, Numbers
<1>2. TypeOK /\ Numbered /\ [Next]_vars => Numbered'
  <2> SUFFICES ASSUME QTypeOK, KTypeOK, Numbered, [Next]_vars, faults' = 0
               PROVE  Numbered'
    BY DEF TypeOK, Numbered, LogContiguous, CountedLinesExist
  <2>0. faults = 0 /\ \A a \in Attempt : ~HandlerFault(a)
    BY FaultsGrow
  <2>1. ASSUME lines' = lines,
               \A b \in Attempt : 1 .. seq'[b] \subseteq Numbers(b[1])
        PROVE  Numbered'
    BY <2>0, <2>1 DEF Numbered, LogContiguous, CountedLinesExist, Numbers
  <2>2. \A b \in Attempt : 1 .. seq[b] \subseteq Numbers(b[1])
    BY <2>0 DEF Numbered, CountedLinesExist
  <2>3. ASSUME UNCHANGED <<lines, seq>> PROVE Numbered'
    BY <2>1, <2>2, <2>3
  <2>4. CASE ApiStep
    BY <2>3, <2>4 DEF ApiStep, create_run, enqueue_kem, ApiFails, local
  <2>5. ASSUME NEW a \in Attempt, start(a) PROVE Numbered'
    <3>1. /\ lines' = lines /\ seq'[a] = 0
          /\ \A b \in Attempt : b # a => seq'[b] = seq[b]
      BY <2>5 DEF start, KTypeOK
    <3>2. 1 .. 0 = {}
      OBVIOUS
    <3>3. QED BY <2>1, <2>2, <3>1, <3>2
  <2>6. ASSUME NEW a \in Attempt, log_conflict(a) PROVE Numbered'
    <3>1. /\ lines' = lines /\ seq'[a] = seq[a] + 1 /\ seq[a] \in Nat
          /\ \A b \in Attempt : b # a => seq'[b] = seq[b]
          /\ seq[a] + 1 \in Numbers(a[1])
      BY <2>6 DEF log_conflict, Count, Taken, Number, db, KTypeOK
    <3>2. 1 .. seq[a] + 1 = (1 .. seq[a]) \cup {seq[a] + 1}
      BY <3>1
    <3>3. 1 .. seq'[a] \subseteq Numbers(a[1])
      BY <2>2, <3>1, <3>2
    <3>4. QED BY <2>1, <2>2, <3>1, <3>3
  <2>7. ASSUME NEW a \in Attempt,
               \/ capabilities_err(a) \/ console_cell(a) \/ publish(a) \/ finish(a)
               \/ announce(a) \/ HandleEnds(a)
        PROVE  Numbered'
    BY <2>3, <2>7 DEF capabilities_err, publish, console_cell, finish, announce, HandleEnds,
       kvars, db, local
  <2>8. CASE Elsewhere
    <3>1. /\ lines' = lines
          /\ \A b \in Attempt : seq'[b] = 0 \/ seq'[b] = seq[b]
      BY <2>8 DEF Elsewhere, db
    <3>2. 1 .. 0 = {}
      OBVIOUS
    <3>3. QED BY <2>1, <2>2, <3>1, <3>2
  <2>9. CASE UNCHANGED vars
    BY <2>3, <2>9 DEF vars, kvars, db, local
  <2>10. QED
    BY <2>0, <2>4, <2>5, <2>6, <2>7, <2>8, <2>9, LogKeepsNumbering DEF Next, QueueStep, HandlerStep
<1>3. QED BY <1>1, <1>2, TypeCorrect, PTL DEF Spec

\* The console of a run has no holes while no call fails, however many
\* handlers write to it.
THEOREM LogContiguousCorrect == Spec => []LogContiguous
<1>1. Numbered => LogContiguous
  BY DEF Numbered
<1>2. QED BY <1>1, NumberedInvariant, PTL

-----------------------------------------------------------------------------
(***************************************************************************)
(* The verdict of a run                                                    *)
(***************************************************************************)

Judged == EndedHasVerdict /\ VerdictBeforeFinish

\* Lines are never removed.
LEMMA LinesStay ==
    ASSUME KTypeOK, [Next]_vars, NEW j \in Job
    PROVE  lines[j] \subseteq lines'[j]
<1>1. ASSUME NEW a \in Attempt, Insert(a) PROVE lines[j] \subseteq lines'[j]
  BY <1>1, AttemptParts DEF Insert, KTypeOK
<1>2. ASSUME NEW a \in Attempt, HandlerStep(a) \/ HandlerFault(a)
      PROVE  lines' = lines \/ Insert(a)
  BY <1>2 DEF HandlerStep, HandlerFault, start, console_log, log_conflict, log_fails,
     capabilities_err, publish, console_cell, cell_fails, publish_fails, finish,
     announce, HandleEnds, HandleErr,
     kvars, db
<1>3. CASE ApiStep \/ Elsewhere \/ UNCHANGED vars
  BY <1>3 DEF ApiStep, create_run, enqueue_kem, ApiFails, Elsewhere, vars, kvars, db
<1>4. QED BY <1>1, <1>2, <1>3 DEF Next, QueueStep

\* The body of a run comes to its finish only through its last line.
LEMMA FinishComesAfterVerdict ==
    ASSUME KTypeOK, NEW a \in Attempt, at[a] \in BodyLog \cup {"run_failed"},
           NEW d \in After(a)
    PROVE  /\ d[1] = "finish" => at[a] = "result"
           /\ d[1] = "finish_failed" => at[a] = "run_failed"
<1>1. /\ \A n : Printing(n)[1] \notin {"finish", "finish_failed"}
      /\ \A c : NextCell(c)[1] \notin {"finish", "finish_failed"}
  BY DEF Printing, NextCell
<1>2. QED BY <1>1 DEF After, BodyLog

\* A run that has ended has the line its status was set after, through
\* crashes, duplicate handlers and failed calls.
THEOREM EndedHasVerdictCorrect == Spec => []EndedHasVerdict
<1>1. Init => Judged
  BY DEF Init, Judged, EndedHasVerdict, VerdictBeforeFinish
<1>2. TypeOK /\ Judged /\ [Next]_vars => Judged'
  <2> SUFFICES ASSUME KTypeOK, Judged, [Next]_vars PROVE Judged'
    BY DEF TypeOK
  <2>0. /\ \A j \in Job : Has(j, "result") => Has(j, "result")'
        /\ \A j \in Job : Has(j, "run_failed") => Has(j, "run_failed")'
    BY LinesStay DEF Has
  <2>1. \A a \in Attempt : a[1] \in Job
    BY AttemptParts
  <2>2. ASSUME \A j \in Job : status'[j] \in {"finished", "failed"} => status'[j] = status[j],
               \A a \in Attempt : at'[a] \in {"finish", "finish_failed"} => at'[a] = at[a]
        PROVE  Judged'
    BY <2>0, <2>1, <2>2 DEF Judged, EndedHasVerdict, VerdictBeforeFinish
  <2>3. ASSUME NEW a \in Attempt, NEW c, NEW n, GoTo(a, c, n),
               c \notin {"finish", "finish_failed"}
        PROVE  \A b \in Attempt : at'[b] \in {"finish", "finish_failed"} => at'[b] = at[b]
    BY <2>3 DEF GoTo, KTypeOK
  <2>4. CASE ApiStep
    BY <2>2, <2>4 DEF ApiStep, create_run, enqueue_kem, ApiFails, local, KTypeOK
  <2>5. ASSUME NEW a \in Attempt, start(a) PROVE Judged'
    BY <2>1, <2>2, <2>3, <2>5 DEF start, KTypeOK
  <2>6. ASSUME NEW a \in Attempt, console_log(a) PROVE Judged'
    <3>1. PICK d \in After(a) : GoTo(a, d[1], d[2])
      BY <2>6 DEF console_log
    <3>2. /\ at[a] \in BodyLog \cup {"run_failed"}
          /\ status' = status
          /\ Insert(a)
      BY <2>6 DEF console_log, In
    <3>3. <<Number(a), KindOf(at[a])>> \in lines'[a[1]]
      BY <2>1, <3>2 DEF Insert, Line, KTypeOK
    <3>4. /\ at'[a] = d[1]
          /\ \A b \in Attempt : b # a => at'[b] = at[b]
      BY <3>1 DEF GoTo, KTypeOK
    <3>5. /\ at'[a] = "finish" => Has(a[1], "result")'
          /\ at'[a] = "finish_failed" => Has(a[1], "run_failed")'
      BY <3>2, <3>3, <3>4, FinishComesAfterVerdict DEF Has, KindOf
    <3>6. EndedHasVerdict'
      BY <2>0, <3>2 DEF Judged, EndedHasVerdict
    <3>7. VerdictBeforeFinish'
      BY <2>0, <2>1, <3>4, <3>5 DEF Judged, VerdictBeforeFinish
    <3>8. QED BY <3>6, <3>7 DEF Judged
  <2>7. ASSUME NEW a \in Attempt,
               \/ log_conflict(a) \/ log_fails(a) \/ capabilities_err(a) \/ cell_fails(a)
               \/ publish(a) \/ publish_fails(a)
        PROVE  Judged'
    BY <2>2, <2>3, <2>7 DEF log_conflict, log_fails, capabilities_err, cell_fails, publish,
       publish_fails, db
  <2>8. ASSUME NEW a \in Attempt, console_cell(a) PROVE Judged'
    <3>1. PICK v \in CellVerdict(a) :
            LET d == IF v \in {"passed", "failed"} THEN <<"cell_line", left[a]>>
                     ELSE NextCell(left[a])
            IN Upsert(a, v) /\ GoTo(a, d[1], d[2])
      BY <2>8 DEF console_cell
    <3>2. PICK c, n : GoTo(a, c, n) /\ c \notin {"finish", "finish_failed"}
      BY <3>1 DEF NextCell
    <3>3. QED BY <2>2, <2>3, <2>8, <3>2 DEF console_cell
  <2>9. ASSUME NEW a \in Attempt, finish(a) PROVE Judged'
    <3>1. /\ at[a] = "finish" => status'[a[1]] = "finished" /\ Has(a[1], "result")
          /\ at[a] # "finish" => status'[a[1]] = "failed" /\ Has(a[1], "run_failed")
          /\ \A j \in Job : j # a[1] => status'[j] = status[j]
          /\ lines' = lines
      BY <2>1, <2>9 DEF finish, In, Judged, VerdictBeforeFinish, KTypeOK
    <3>2. \A b \in Attempt : at'[b] \in {"finish", "finish_failed"} => at'[b] = at[b]
      BY <2>3, <2>9 DEF finish
    <3>3. EndedHasVerdict'
      BY <2>0, <3>1 DEF Judged, EndedHasVerdict
    <3>4. VerdictBeforeFinish'
      BY <2>0, <2>1, <3>2 DEF Judged, VerdictBeforeFinish
    <3>5. QED BY <3>3, <3>4 DEF Judged
  <2>10. ASSUME NEW a \in Attempt, announce(a) PROVE Judged'
    BY <2>2, <2>3, <2>10 DEF announce, db
  <2>11. ASSUME NEW a \in Attempt, HandleEnds(a) \/ HandleErr(a) PROVE Judged'
    BY <2>2, <2>11 DEF HandleEnds, HandleErr, kvars, db, local
  <2>12. CASE Elsewhere
    BY <2>2, <2>12 DEF Elsewhere, db
  <2>13. CASE UNCHANGED vars
    BY <2>2, <2>13 DEF vars, kvars, db, local
  <2>14. QED
    BY <2>4, <2>5, <2>6, <2>7, <2>8, <2>9, <2>10, <2>11, <2>12, <2>13
       DEF Next, QueueStep, HandlerStep, HandlerFault
<1>3. Judged => EndedHasVerdict
  BY DEF Judged
<1>4. QED BY <1>1, <1>2, <1>3, TypeCorrect, PTL DEF Spec

-----------------------------------------------------------------------------
(***************************************************************************)
(* The matrix. Only the handler whose INSERT got number 1 comes past the   *)
(* head of its console, so a run has one writer of cells, ever, and it     *)
(* goes through them in order.                                             *)
(***************************************************************************)

CellSound(c, v) ==
    /\ v = "disabled" <=> ~IsConfigured(c)
    /\ v \in {"passed", "failed"} => c \in Advertised

\* The handler is at a cell it has not written, or anywhere in the matrix.
Before(a) == at[a] \in {"cell", "no_caps", "cell_no_caps"}
InMatrix(a) == Before(a) \/ at[a] = "cell_line"

Filled(j, n) == \A c \in Cell : c <= n => cells[j][c] # "none"
Blank(j, n) == \A c \in Cell : n < c => cells[j][c] = "none"

\* The cells up to the one the handler is at are written, the others are not.
Place(a) ==
    /\ at[a] = "head" => seq[a] = 0
    /\ Before(a) => /\ left[a] \in Cell
                    /\ Filled(a[1], left[a] - 1)
                    /\ Blank(a[1], left[a] - 1)
    /\ at[a] = "cell_line" => /\ left[a] \in Cell
                              /\ Filled(a[1], left[a])
                              /\ Blank(a[1], left[a])
    /\ ModeOf[a[1]] = "library_compat" =>
          /\ at[a] \notin {"offer", "lines"}
          /\ at[a] \in {"result", "finish"} => Filled(a[1], Len(Column))

OneWriter ==
    /\ \A a, b \in Attempt : InMatrix(a) /\ InMatrix(b) /\ a[1] = b[1] => a = b
    /\ \A a \in Attempt : InMatrix(a) => 1 \in Numbers(a[1])

Stored ==
    /\ \A j \in Job : \A c \in Cell : cells[j][c] # "none" =>
          CellSound(c, cells[j][c]) /\ 1 \in Numbers(j)
    /\ \A j \in Job : ModeOf[j] = "library_compat" /\ status[j] = "finished" =>
          Filled(j, Len(Column))

Written == OneWriter /\ Stored /\ \A a \in Attempt : Place(a)

\* The cells are numbered from one.
LEMMA CellNumbers == Len(Column) \in Nat /\ Cell = 1 .. Len(Column)
BY KemAssumption DEF Cell

\* A call of one handler leaves the others alone.
LEMMA OthersStay ==
    ASSUME KTypeOK, NEW a \in Attempt, HandlerStep(a) \/ HandlerFault(a),
           NEW b \in Attempt, b # a
    PROVE  /\ at'[b] = at[b] /\ left'[b] = left[b] /\ seq'[b] = seq[b]
           /\ event'[b] = event[b]
<1>1. ASSUME NEW c, NEW n, GoTo(a, c, n) PROVE at'[b] = at[b] /\ left'[b] = left[b]
  BY <1>1 DEF GoTo, KTypeOK
<1>2. ASSUME Count(a) PROVE seq'[b] = seq[b]
  BY <1>2 DEF Count, KTypeOK
<1>e. ASSUME NEW e, Writes(a, e) \/ event' = [event EXCEPT ![a] = e] PROVE event'[b] = event[b]
  BY <1>e DEF Writes, KTypeOK
<1>3. CASE start(a)
  BY <1>1, <1>3 DEF start, KTypeOK
<1>4. CASE console_log(a) \/ log_conflict(a) \/ log_fails(a)
  BY <1>1, <1>2, <1>4, <1>e DEF console_log, log_conflict, log_fails
<1>5. CASE console_cell(a)
  <2>1. \E c, n, e : GoTo(a, c, n) /\ Writes(a, e)
    BY <1>5 DEF console_cell
  <2>2. QED BY <1>1, <1>5, <1>e, <2>1 DEF console_cell
<1>6. CASE \/ capabilities_err(a) \/ cell_fails(a) \/ publish(a) \/ publish_fails(a)
           \/ finish(a) \/ announce(a)
  BY <1>1, <1>6, <1>e DEF capabilities_err, cell_fails, publish, publish_fails, finish, announce
<1>7. CASE HandleEnds(a) \/ HandleErr(a)
  BY <1>7 DEF HandleEnds, HandleErr, kvars, local
<1>8. QED
  BY <1>3, <1>4, <1>5, <1>6, <1>7 DEF HandlerStep, HandlerFault

\* Steps that write no cell and take no handler further in the matrix.
LEMMA WrittenFrame ==
    ASSUME KTypeOK, Written, [Next]_vars, cells' = cells,
           \A j \in Job : status'[j] = "finished" =>
              \/ status[j] = "finished"
              \/ \E a \in Attempt : a[1] = j /\ at[a] = "finish",
           \A b \in Attempt :
              \/ at'[b] = at[b] /\ left'[b] = left[b] /\ seq'[b] = seq[b]
              \/ at'[b] \in {"start", "run_failed", "finish_failed", "announce", "return"}
              \/ at'[b] = "head" /\ seq'[b] = 0
              \/ Before(b) /\ Before(b)' /\ left'[b] = left[b]
              \/ at'[b] \in {"offer", "lines", "result"} /\ ModeOf[b[1]] # "library_compat"
              \/ at[b] = "result" /\ at'[b] = "finish"
    PROVE  Written'
<1>1. \A j \in Job : 1 \in Numbers(j) => 1 \in Numbers(j)'
  BY LinesStay DEF Numbers
<1>2. \A b \in Attempt : InMatrix(b)' => InMatrix(b)
  BY DEF InMatrix, Before
<1>3. OneWriter'
  BY <1>1, <1>2, AttemptParts DEF Written, OneWriter
<1>4. \A j \in Job : \A n : (Filled(j, n) => Filled(j, n)') /\ (Blank(j, n) => Blank(j, n)')
  BY DEF Filled, Blank
<1>5. Stored'
  <2>1. ASSUME NEW j \in Job, NEW c \in Cell, cells'[j][c] # "none"
        PROVE  CellSound(c, cells'[j][c]) /\ 1 \in Numbers(j)'
    BY <1>1, <2>1 DEF Written, Stored
  <2>2. ASSUME NEW j \in Job, ModeOf[j] = "library_compat", status'[j] = "finished"
        PROVE  Filled(j, Len(Column))'
    BY <1>4, <2>2 DEF Written, Stored, Place
  <2>3. QED BY <2>1, <2>2 DEF Stored, CellSound, IsConfigured
<1>6. ASSUME NEW b \in Attempt PROVE Place(b)'
  <2>1. b[1] \in Job /\ Place(b)
    BY AttemptParts DEF Written
  <2>2. /\ \A n : Filled(b[1], n) => Filled(b[1], n)'
        /\ \A n : Blank(b[1], n) => Blank(b[1], n)'
    BY <1>4, <2>1
  <2>3. CASE at'[b] = at[b] /\ left'[b] = left[b] /\ seq'[b] = seq[b]
    BY <2>1, <2>2, <2>3 DEF Place, Before
  <2>4. CASE Before(b) /\ Before(b)' /\ left'[b] = left[b]
    BY <2>1, <2>2, <2>4 DEF Place, Before
  <2>5. CASE at[b] = "result" /\ at'[b] = "finish"
    BY <2>1, <2>2, <2>5 DEF Place, Before
  <2>6. CASE \/ at'[b] \in {"start", "run_failed", "finish_failed", "announce", "return"}
             \/ at'[b] = "head" /\ seq'[b] = 0
             \/ at'[b] \in {"offer", "lines", "result"} /\ ModeOf[b[1]] # "library_compat"
    BY <2>6 DEF Place, Before
  <2>7. QED BY <2>3, <2>4, <2>5, <2>6
<1>7. QED BY <1>3, <1>5, <1>6 DEF Written

\* A line of the console takes its handler on: past the head only if it is the
\* first line of the run, so that no cell has been written yet.
LEMMA LogKeepsWritten ==
    ASSUME KTypeOK, Written, [Next]_vars, NEW a \in Attempt, console_log(a)
    PROVE  Written'
<1>0. /\ at[a] \in BodyLog \cup {"run_failed"}
      /\ a[1] \in Job /\ left[a] \in Nat /\ seq[a] \in Nat
      /\ UNCHANGED <<cells, status>>
      /\ Insert(a) /\ ~Taken(a)
      /\ HandlerStep(a)
      /\ Place(a)
  BY AttemptParts DEF console_log, In, HandlerStep, KTypeOK, Written
<1>1. PICK d \in After(a) : at'[a] = d[1] /\ left'[a] = d[2]
  BY DEF console_log, GoTo, KTypeOK
<1>2. \A b \in Attempt : b # a =>
         at'[b] = at[b] /\ left'[b] = left[b] /\ seq'[b] = seq[b]
  BY <1>0, OthersStay
<1>3. /\ \A n : Printing(n)[1] \in {"lines", "result"}
      /\ NextCell(left[a]) = IF left[a] < Len(Column) THEN <<"cell", left[a] + 1>>
                             ELSE <<"result", 0>>
  BY DEF Printing, NextCell
<1>4. CASE at[a] \in {"offer", "lines"}
  <2>1. ModeOf[a[1]] # "library_compat"
    BY <1>0, <1>4 DEF Place
  <2>2. at'[a] \in {"lines", "result", "run_failed"}
    BY <1>1, <1>3, <1>4 DEF After
  <2>3. QED BY <1>0, <1>2, <2>1, <2>2, WrittenFrame
<1>5. CASE at[a] = "no_caps"
  <2>1. at'[a] = "cell_no_caps" /\ left'[a] = left[a]
    BY <1>1, <1>5 DEF After
  <2>2. Before(a) /\ Before(a)'
    BY <1>5, <2>1 DEF Before
  <2>3. QED BY <1>0, <1>2, <2>1, <2>2, WrittenFrame
<1>6. CASE at[a] \in {"result", "run_failed"}
  <2>1. (at[a] = "result" /\ at'[a] = "finish") \/ at'[a] = "finish_failed"
    BY <1>1, <1>6 DEF After
  <2>2. QED BY <1>0, <1>2, <2>1, WrittenFrame
<1>7. CASE at[a] = "head" /\ ModeOf[a[1]] # "library_compat"
  <2>1. at'[a] = "offer"
    BY <1>1, <1>7 DEF After
  <2>2. QED BY <1>0, <1>2, <1>7, <2>1, WrittenFrame
<1> DEFINE c == left'[a]
\* The two ways to a new cell.
<1>8. ASSUME at[a] \in {"head", "cell_line"},
             \/ at'[a] = "cell" /\ c \in Cell /\ Filled(a[1], c - 1) /\ Blank(a[1], c - 1)
             \/ at'[a] = "result" /\ Filled(a[1], Len(Column)),
             \A b \in Attempt : InMatrix(b) /\ a[1] = b[1] => a = b
      PROVE  Written'
  <2>1. \A j \in Job : 1 \in Numbers(j) => 1 \in Numbers(j)'
    BY LinesStay DEF Numbers
  <2>2. \A j \in Job : \A n : (Filled(j, n) => Filled(j, n)') /\ (Blank(j, n) => Blank(j, n)')
    BY <1>0 DEF Filled, Blank
  <2>3. \A b \in Attempt : b # a => (InMatrix(b)' <=> InMatrix(b))
    BY <1>2 DEF InMatrix, Before
  <2>4. 1 \in Numbers(a[1])'
    <3>1. CASE at[a] = "head"
      BY <1>0, <3>1, InsertNumbers DEF Place, Number
    <3>2. CASE at[a] = "cell_line"
      BY <1>0, <2>1, <3>2 DEF Written, OneWriter, InMatrix
    <3>3. QED BY <1>8, <3>1, <3>2
  <2>5. OneWriter'
    BY <1>8, <2>1, <2>3, <2>4, AttemptParts DEF Written, OneWriter
  <2>6. Stored'
    BY <1>0, <2>1, <2>2 DEF Written, Stored, CellSound, IsConfigured
  <2>7. Place(a)'
    BY <1>0, <1>8, <2>2 DEF Place, Before
  <2>8. ASSUME NEW b \in Attempt, b # a PROVE Place(b)'
    <3>1. b[1] \in Job /\ Place(b)
      BY AttemptParts DEF Written
    <3>2. /\ \A n : Filled(b[1], n) => Filled(b[1], n)'
          /\ \A n : Blank(b[1], n) => Blank(b[1], n)'
      BY <2>2, <3>1
    <3>3. QED BY <1>2, <2>8, <3>1, <3>2 DEF Place, Before
  <2>9. QED BY <2>5, <2>6, <2>7, <2>8 DEF Written
<1>9. CASE at[a] = "head" /\ ModeOf[a[1]] = "library_compat"
  <2>1. 1 \notin Numbers(a[1])
    BY <1>0, <1>9 DEF Taken, Number, Place
  <2>2. \A b \in Attempt : ~(InMatrix(b) /\ a[1] = b[1])
    BY <2>1 DEF Written, OneWriter
  <2>3. \A k \in Cell : cells[a[1]][k] = "none"
    BY <1>0, <2>1 DEF Written, Stored
  <2>4. IF 0 < Len(Column) THEN at'[a] = "cell" /\ c = 1 ELSE at'[a] = "result"
    BY <1>1, <1>9 DEF After, NextCell
  <2>5. CASE 0 < Len(Column)
    <3>1. c \in Cell /\ Filled(a[1], c - 1) /\ Blank(a[1], c - 1)
      BY <2>3, <2>4, <2>5, CellNumbers DEF Filled, Blank
    <3>2. QED BY <1>8, <1>9, <2>2, <2>4, <2>5, <3>1
  <2>6. CASE ~(0 < Len(Column))
    <3>1. Filled(a[1], Len(Column))
      BY <2>6, CellNumbers DEF Filled
    <3>2. QED BY <1>8, <1>9, <2>2, <2>4, <2>6, <3>1
  <2>7. QED BY <2>5, <2>6
<1>10. CASE at[a] = "cell_line"
  <2>1. \A b \in Attempt : InMatrix(b) /\ a[1] = b[1] => a = b
    BY <1>10 DEF Written, OneWriter, InMatrix
  <2>2. /\ left[a] \in Cell /\ Filled(a[1], left[a]) /\ Blank(a[1], left[a])
        /\ IF left[a] < Len(Column) THEN at'[a] = "cell" /\ c = left[a] + 1
           ELSE at'[a] = "result"
    BY <1>0, <1>1, <1>3, <1>10 DEF Place, After
  <2>3. CASE left[a] < Len(Column)
    <3>1. c \in Cell /\ c - 1 = left[a]
      BY <1>0, <2>2, <2>3, CellNumbers
    <3>2. QED BY <1>8, <1>10, <2>1, <2>2, <2>3, <3>1
  <2>4. CASE ~(left[a] < Len(Column))
    <3>1. Filled(a[1], Len(Column))
      BY <1>0, <2>2, <2>4, CellNumbers DEF Filled
    <3>2. QED BY <1>8, <1>10, <2>1, <2>2, <2>4, <3>1
  <2>5. QED BY <2>3, <2>4
<1>11. QED BY <1>0, <1>4, <1>5, <1>6, <1>7, <1>9, <1>10 DEF BodyLog

\* A cell is written once, with a verdict that suits it.
LEMMA UpsertEffect ==
    ASSUME KTypeOK, Written, NEW a \in Attempt, at[a] \in {"cell", "cell_no_caps"},
           NEW v \in CellVerdict(a), Upsert(a, v)
    PROVE  /\ cells[a[1]][left[a]] = "none"
           /\ CellSound(left[a], v) /\ v # "none"
           /\ cells'[a[1]][left[a]] = v
           /\ \A j \in Job : \A c \in Cell :
                 j # a[1] \/ c # left[a] => cells'[j][c] = cells[j][c]
           /\ \A j \in Job : \A n : Filled(j, n) => Filled(j, n)'
           /\ \A j \in Job : \A n : j # a[1] /\ Blank(j, n) => Blank(j, n)'
           /\ \A n : n = left[a] => Filled(a[1], n)' /\ Blank(a[1], n)'
           /\ 1 \in Numbers(a[1])
<1>0. /\ a[1] \in Job
      /\ left[a] \in Cell /\ Filled(a[1], left[a] - 1) /\ Blank(a[1], left[a] - 1)
      /\ 1 \in Numbers(a[1])
  BY AttemptParts DEF Written, OneWriter, InMatrix, Place, Before
<1>1. cells[a[1]][left[a]] = "none"
  BY <1>0, CellNumbers DEF Blank
<1>2. CellSound(left[a], v) /\ v # "none"
  BY DEF CellVerdict, CellSound
<1>3. /\ cells'[a[1]][left[a]] = v
      /\ \A j \in Job : \A c \in Cell :
            j # a[1] \/ c # left[a] => cells'[j][c] = cells[j][c]
  BY <1>0 DEF Upsert, KTypeOK
<1>4. \A j \in Job : \A n : Filled(j, n) => Filled(j, n)'
  BY <1>0, <1>2, <1>3 DEF Filled
<1>5. \A j \in Job : \A n : j # a[1] /\ Blank(j, n) => Blank(j, n)'
  BY <1>3 DEF Blank
<1>6. \A n : n = left[a] => Filled(a[1], n)' /\ Blank(a[1], n)'
  <2>1. ASSUME NEW c \in Cell, c <= left[a] PROVE cells'[a[1]][c] # "none"
    BY <1>0, <1>2, <1>3, <2>1, CellNumbers DEF Filled
  <2>2. ASSUME NEW c \in Cell, left[a] < c PROVE cells'[a[1]][c] = "none"
    BY <1>0, <1>3, <2>2, CellNumbers DEF Blank
  <2>3. QED BY <2>1, <2>2 DEF Filled, Blank
<1>7. QED BY <1>0, <1>1, <1>2, <1>3, <1>4, <1>5, <1>6

\* What an upsert does to the invariant: the handler that made it goes on.
LEMMA UpsertKeepsWritten ==
    ASSUME KTypeOK, Written, NEW a \in Attempt, HandlerStep(a) \/ HandlerFault(a),
           at[a] \in {"cell", "cell_no_caps"},
           NEW v \in CellVerdict(a), Upsert(a, v), UNCHANGED <<lines, status>>,
           Place(a)'
    PROVE  Written'
<1>0. /\ a[1] \in Job
      /\ \A j \in Job : Numbers(j)' = Numbers(j)
      /\ \A b \in Attempt : b # a =>
            at'[b] = at[b] /\ left'[b] = left[b] /\ seq'[b] = seq[b]
  BY AttemptParts, OthersStay DEF Numbers
<1>1. \A b \in Attempt : InMatrix(b)' => InMatrix(b)
  BY <1>0 DEF InMatrix, Before
<1>2. OneWriter'
  BY <1>0, <1>1, AttemptParts DEF Written, OneWriter
<1>3. Stored'
  <2>1. ASSUME NEW j \in Job, NEW c \in Cell, cells'[j][c] # "none"
        PROVE  CellSound(c, cells'[j][c]) /\ 1 \in Numbers(j)'
    <3>1. CASE j = a[1] /\ c = left[a]
      BY <1>0, <3>1, UpsertEffect
    <3>2. CASE j # a[1] \/ c # left[a]
      <4>1. cells'[j][c] = cells[j][c]
        BY <3>2, UpsertEffect
      <4>2. QED BY <1>0, <2>1, <4>1 DEF Written, Stored
    <3>3. QED BY <3>1, <3>2
  <2>2. ASSUME NEW j \in Job, ModeOf[j] = "library_compat", status'[j] = "finished"
        PROVE  Filled(j, Len(Column))'
    <3>1. Filled(j, Len(Column))
      BY <2>2 DEF Written, Stored
    <3>2. QED BY <3>1, UpsertEffect
  <2>3. QED BY <2>1, <2>2 DEF Stored, CellSound, IsConfigured
<1>4. ASSUME NEW b \in Attempt, b # a PROVE Place(b)'
  <2>1. b[1] \in Job /\ Place(b) /\ at'[b] = at[b] /\ left'[b] = left[b] /\ seq'[b] = seq[b]
    BY <1>0, <1>4, AttemptParts DEF Written
  <2>2. /\ \A n : Filled(b[1], n) => Filled(b[1], n)'
        /\ \A n : b[1] # a[1] /\ Blank(b[1], n) => Blank(b[1], n)'
    BY <2>1, UpsertEffect
  <2>3. InMatrix(b) => b[1] # a[1]
    BY <1>4 DEF Written, OneWriter, InMatrix, Before
  <2>4. QED BY <2>1, <2>2, <2>3 DEF Place, Before, InMatrix
<1>5. QED BY <1>2, <1>3, <1>4 DEF Written

\* Console::cell, complete or cut off.
LEMMA CellKeepsWritten ==
    ASSUME KTypeOK, Written, [Next]_vars, NEW a \in Attempt,
           console_cell(a) \/ cell_fails(a)
    PROVE  Written'
<1>0. /\ at[a] \in {"cell", "cell_no_caps"}
      /\ HandlerStep(a) \/ HandlerFault(a)
      /\ UNCHANGED <<lines, status>>
      /\ a[1] \in Job
      /\ left[a] \in Cell
  BY AttemptParts DEF console_cell, cell_fails, In, HandlerStep, HandlerFault,
     Written, Place, Before
<1>1. CASE console_cell(a)
  <2>1. PICK v \in CellVerdict(a) :
          LET d == IF v \in {"passed", "failed"} THEN <<"cell_line", left[a]>>
                   ELSE NextCell(left[a])
          IN Upsert(a, v) /\ GoTo(a, d[1], d[2])
    BY <1>1 DEF console_cell
  <2>2. /\ Upsert(a, v)
        /\ \/ at'[a] = "cell_line" /\ left'[a] = left[a]
           \/ left[a] < Len(Column) /\ at'[a] = "cell" /\ left'[a] = left[a] + 1
           \/ ~(left[a] < Len(Column)) /\ at'[a] = "result"
    BY <2>1 DEF NextCell, GoTo, KTypeOK
  <2>3. \A n : n = left[a] => Filled(a[1], n)' /\ Blank(a[1], n)'
    BY <1>0, <2>2, UpsertEffect
  <2>4. Place(a)'
    <3>1. CASE at'[a] = "cell_line" /\ left'[a] = left[a]
      BY <1>0, <2>3, <3>1 DEF Place, Before
    <3>2. CASE left[a] < Len(Column) /\ at'[a] = "cell" /\ left'[a] = left[a] + 1
      <4>1. left'[a] \in Cell /\ left'[a] - 1 = left[a]
        BY <1>0, <3>2, CellNumbers
      <4>2. QED BY <2>3, <3>2, <4>1 DEF Place, Before
    <3>3. CASE ~(left[a] < Len(Column)) /\ at'[a] = "result"
      <4>1. left[a] = Len(Column)
        BY <1>0, <3>3, CellNumbers
      <4>2. QED BY <2>3, <3>3, <4>1 DEF Place, Before
    <3>4. QED BY <2>2, <3>1, <3>2, <3>3
  <2>5. QED BY <1>0, <2>2, <2>4, UpsertKeepsWritten
<1>2. CASE cell_fails(a)
  <2>1. at'[a] = "run_failed"
    BY <1>2 DEF cell_fails, GoTo, KTypeOK
  <2>2. Place(a)'
    BY <2>1 DEF Place, Before
  <2>3. CASE \E v \in CellVerdict(a) : Upsert(a, v)
    BY <1>0, <2>2, <2>3, UpsertKeepsWritten
  <2>4. CASE cells' = cells
    <3>1. \A b \in Attempt : b # a =>
             at'[b] = at[b] /\ left'[b] = left[b] /\ seq'[b] = seq[b]
      BY <1>0, OthersStay
    <3>2. QED BY <1>0, <2>1, <2>4, <3>1, WrittenFrame
  <2>5. QED BY <1>2, <2>3, <2>4 DEF cell_fails
<1>3. QED BY <1>1, <1>2

\* Written is inductive.
LEMMA WrittenStep == TypeOK /\ Written /\ [Next]_vars => Written'
<1> SUFFICES ASSUME KTypeOK, Written, [Next]_vars PROVE Written'
  BY DEF TypeOK
<1> DEFINE Still(b) == at'[b] = at[b] /\ left'[b] = left[b] /\ seq'[b] = seq[b]
           Aside(b) == at'[b] \in {"start", "run_failed", "finish_failed", "announce", "return"}
<1>1. ASSUME UNCHANGED <<cells, status>>, \A b \in Attempt : Still(b) \/ Aside(b)
      PROVE  Written'
  BY <1>1, WrittenFrame
<1>2. CASE UNCHANGED vars
  BY <1>1, <1>2 DEF vars, kvars, db, local
<1>3. CASE ApiStep
  <2>1. UNCHANGED <<cells, at, left, seq>>
    BY <1>3 DEF ApiStep, create_run, enqueue_kem, ApiFails, local
  <2>2. \A j \in Job : status'[j] = "finished" => status[j] = "finished"
    BY <1>3 DEF ApiStep, create_run, enqueue_kem, ApiFails, KTypeOK
  <2>3. QED BY <2>1, <2>2, WrittenFrame
<1>4. CASE Elsewhere
  BY <1>1, <1>4 DEF Elsewhere, db
<1>5. ASSUME NEW a \in Attempt, HandlerStep(a) \/ HandlerFault(a) PROVE Written'
  <2>0. \A b \in Attempt : b # a => Still(b)
    BY <1>5, OthersStay
  <2>1. CASE console_log(a)
    BY <2>1, LogKeepsWritten
  <2>2. CASE console_cell(a) \/ cell_fails(a)
    BY <2>2, CellKeepsWritten
  <2>3. CASE start(a)
    <3>1. cells' = cells /\ ((at'[a] = "head" /\ seq'[a] = 0) \/ at'[a] = "run_failed")
      BY <2>3 DEF start, GoTo, KTypeOK
    <3>2. \A j \in Job : status'[j] = "finished" => status[j] = "finished"
      BY <2>3 DEF start, KTypeOK
    <3>3. QED BY <2>0, <3>1, <3>2, WrittenFrame
  <2>4. CASE log_conflict(a) \/ log_fails(a) \/ publish_fails(a) \/ announce(a)
    <3>1. UNCHANGED <<cells, status>> /\ Aside(a)
      BY <2>4 DEF log_conflict, log_fails, publish_fails, announce, GoTo, db, KTypeOK
    <3>2. QED BY <1>1, <2>0, <3>1
  <2>5. CASE capabilities_err(a)
    <3>1. /\ UNCHANGED <<cells, status>> /\ left'[a] = left[a]
          /\ at[a] = "cell" /\ at'[a] = "no_caps"
      BY <2>5 DEF capabilities_err, In, GoTo, db, KTypeOK
    <3>2. Before(a) /\ Before(a)'
      BY <3>1 DEF Before
    <3>3. QED BY <2>0, <3>1, <3>2, WrittenFrame
  <2>6. CASE finish(a)
    <3>1. cells' = cells /\ at'[a] = "announce"
      BY <2>6 DEF finish, GoTo, KTypeOK
    <3>2. \A j \in Job : status'[j] = "finished" =>
             status[j] = "finished" \/ (a[1] = j /\ at[a] = "finish")
      BY <2>6, AttemptParts DEF finish, In, KTypeOK
    <3>3. QED BY <2>0, <3>1, <3>2, WrittenFrame
  <2>7. CASE publish(a) \/ HandleEnds(a) \/ HandleErr(a)
    BY <1>1, <2>7 DEF publish, HandleEnds, HandleErr, kvars, db, local
  <2>8. QED
    BY <1>5, <2>1, <2>2, <2>3, <2>4, <2>5, <2>6, <2>7 DEF HandlerStep, HandlerFault
<1>6. QED BY <1>2, <1>3, <1>4, <1>5 DEF Next, QueueStep

\* The invariant of the matrix holds of every run.
LEMMA WrittenInvariant == Spec => []Written
<1>1. Init => Written
  BY DEF Init, Written, OneWriter, Stored, Place, InMatrix, Before
<1>2. QED BY <1>1, WrittenStep, TypeCorrect, PTL DEF Spec

\* A finished library run has a fitting verdict in every cell, for a matrix of
\* any size, through crashes, duplicate handlers and failed calls.
THEOREM MatrixSoundCorrect == Spec => []MatrixSound
<1>1. Written => MatrixSound
  BY CellNumbers DEF Written, Stored, MatrixSound, Filled, CellSound
<1>2. QED BY <1>1, WrittenInvariant, PTL

\* A cell keeps the verdict it once got: redelivered and duplicate handlers
\* upsert nothing (Console::cell overwrites without looking).
CellsNeverChange ==
    [][\A j \in Job : \A c \in Cell :
          cells[j][c] # "none" => cells'[j][c] = cells[j][c]]_vars

\* What a step may do to the cells.
LEMMA CellsStep ==
    ASSUME KTypeOK, Written, [Next]_vars, NEW j \in Job, NEW c \in Cell,
           cells[j][c] # "none"
    PROVE  cells'[j][c] = cells[j][c]
<1>1. CASE ApiStep \/ Elsewhere \/ UNCHANGED vars
  BY <1>1 DEF ApiStep, create_run, enqueue_kem, ApiFails, Elsewhere, vars, kvars, db
<1>2. ASSUME NEW a \in Attempt, HandlerStep(a) \/ HandlerFault(a)
      PROVE  \/ cells' = cells
             \/ at[a] \in {"cell", "cell_no_caps"} /\ \E v \in CellVerdict(a) : Upsert(a, v)
  BY <1>2 DEF HandlerStep, HandlerFault, start, console_log, log_conflict, log_fails,
     capabilities_err, publish, console_cell, cell_fails, publish_fails, finish,
     announce, HandleEnds, HandleErr,
     In, kvars, db
<1>3. QED BY <1>1, <1>2, UpsertEffect DEF Next, QueueStep

\* Every run writes a cell at most once, however often it is delivered.
THEOREM CellsNeverChangeCorrect == Spec => CellsNeverChange
<1> DEFINE Kept == \A j \in Job : \A c \in Cell :
                      cells[j][c] # "none" => cells'[j][c] = cells[j][c]
<1>1. TypeOK /\ Written /\ [Next]_vars => [Kept]_vars
  BY CellsStep DEF TypeOK
<1> HIDE DEF Kept
<1>2. Spec => [][Kept]_vars
  BY <1>1, TypeCorrect, WrittenInvariant, PTL DEF Spec
<1>3. QED BY <1>2 DEF Kept, CellsNeverChange

-----------------------------------------------------------------------------
(***************************************************************************)
(* One verdict. A handler that finds number 1 taken gives up, and writes   *)
(* its report only if the run has no second line.                          *)
(***************************************************************************)

\* A handler that has begun belongs to a task that has not ended.
Engaged == \A a \in Attempt : at[a] # "start" => pc[a] \in {"run", "ack"}

NoVerdict(j) == \A l \in lines[j] : l[2] = "info"

\* The calls of a body after its first line.
Inner == {"offer", "lines", "no_caps", "cell", "cell_no_caps", "cell_line", "result"}

\* What a handler knows of the console it writes to.
Sole(a) ==
    /\ at[a] = "head" => seq[a] = 0 /\ preferred_adapter(a[1])
    /\ at[a] \in Inner => seq[a] >= 1 /\ preferred_adapter(a[1]) /\ NoVerdict(a[1])
    /\ at[a] = "run_failed" => /\ preferred_adapter(a[1]) => seq[a] >= 1
                               /\ ~Taken(a) => NoVerdict(a[1])

FirstLines ==
    \A j \in Job : \A l \in lines[j] :
        l[1] >= 1 /\ (l[1] = 1 /\ preferred_adapter(j) => l[2] = "info")

Single == \A j \in Job : \A l, m \in lines[j] : l[2] # "info" /\ m[2] # "info" => l = m

Calm == faults = 0 /\ ~Overrun

Settled == Calm => Single /\ FirstLines /\ \A a \in Attempt : Sole(a)

\* Engaged is inductive.
LEMMA EngagedStep ==
    ASSUME QTypeOK, KTypeOK, DeliveredInOrder, Engaged, [Next]_vars
    PROVE  Engaged'
<1>1. ASSUME NEW a \in Attempt, HandlerStep(a) \/ HandlerFault(a) PROVE Engaged'
  <2>1. pc[a] = "run"
    BY <1>1 DEF HandlerStep, HandlerFault, start, console_log, log_conflict, log_fails,
       capabilities_err, publish, console_cell, cell_fails, publish_fails, finish,
     announce, HandleEnds, HandleErr,
       In, CallFails, HandlerReturns, HandlerErrs, ToAck
  <2>2. pc' = pc \/ pc' = [pc EXCEPT ![a] = "ack"]
    BY <1>1 DEF HandlerStep, HandlerFault, start, console_log, log_conflict, log_fails,
       capabilities_err, publish, console_cell, cell_fails, publish_fails, finish,
     announce, HandleEnds, HandleErr,
       CallFails, HandlerReturns, HandlerErrs, ToAck, qvars
  <2>3. pc'[a] \in {"run", "ack"} /\ \A b \in Attempt : b # a => pc'[b] = pc[b]
    BY <2>1, <2>2 DEF QTypeOK
  <2>4. \A b \in Attempt : b # a => at'[b] = at[b]
    BY <1>1, OthersStay
  <2>5. QED BY <2>3, <2>4 DEF Engaged
<1>2. CASE ApiStep \/ UNCHANGED vars
  BY <1>2 DEF ApiStep, create_run, enqueue_kem, ApiFails, Enqueue, local, qvars, vars,
     kvars, Engaged
<1>3. CASE Elsewhere
  <2>1. \A a \in Attempt : pc[a] \in {"run", "ack"} => pc'[a] \in {"run", "ack", "over"}
    BY StepOfQueue, TaskStep
  <2>2. QED BY <1>3, <2>1 DEF Elsewhere, Engaged
<1>4. QED BY <1>1, <1>2, <1>3 DEF Next, QueueStep

\* The row an INSERT adds.
LEMMA InsertRow ==
    ASSUME KTypeOK, NEW a \in Attempt, Insert(a)
    PROVE  \E row : /\ row[1] = seq[a] + 1 /\ row[2] = KindOf(at[a])
                    /\ lines'[a[1]] = lines[a[1]] \cup {row}
                    /\ \A j \in Job : j # a[1] => lines'[j] = lines[j]
<1> DEFINE r == <<Number(a), KindOf(at[a])>>
<1>1. r[1] = seq[a] + 1 /\ r[2] = KindOf(at[a])
  BY DEF Number
<1>2. /\ lines'[a[1]] = lines[a[1]] \cup {r}
      /\ \A j \in Job : j # a[1] => lines'[j] = lines[j]
  BY AttemptParts DEF Insert, Line, KTypeOK
<1> HIDE DEF r
<1>3. QED BY <1>1, <1>2

\* A number that is free, with the numbering without holes, is above all others.
LEMMA FreeIsAbove ==
    ASSUME KTypeOK, Numbered, faults = 0, NEW a \in Attempt, ~Taken(a),
           NEW l \in lines[a[1]]
    PROVE  l[1] \in Nat /\ l[1] < seq[a] + 1
<1>1. a[1] \in Job /\ seq[a] \in Nat
  BY AttemptParts DEF KTypeOK
<1>2. l \in Nat \X Kind
  BY <1>1 DEF KTypeOK
<1>3. l[1] \in Nat /\ l[1] \in Numbers(a[1])
  BY <1>2 DEF Numbers
<1>4. 1 .. l[1] \subseteq Numbers(a[1]) /\ seq[a] + 1 \notin Numbers(a[1])
  BY <1>1, <1>3 DEF Numbered, LogContiguous, Taken, Number
<1>5. seq[a] + 1 \notin 1 .. l[1]
  BY <1>4
<1>6. QED BY <1>1, <1>3, <1>5

\* A line of the console.
LEMMA LogKeepsSettled ==
    ASSUME KTypeOK, Numbered, Calm, Engaged, OneAttemptAtATime, Settled,
           NEW a \in Attempt, console_log(a)
    PROVE  Single' /\ FirstLines' /\ \A b \in Attempt : Sole(b)'
<1>0. /\ a[1] \in Job /\ seq[a] \in Nat
      /\ at[a] \in BodyLog \cup {"run_failed"} /\ pc[a] = "run"
      /\ Insert(a) /\ ~Taken(a)
      /\ seq'[a] = seq[a] + 1
      /\ Single /\ FirstLines /\ Sole(a)
      /\ \A b \in Attempt : b # a => at'[b] = at[b] /\ seq'[b] = seq[b]
  BY AttemptParts, OthersStay DEF console_log, In, Count, KTypeOK, Settled, HandlerStep
<1>1. PICK row : /\ row[1] = seq[a] + 1 /\ row[2] = KindOf(at[a])
                 /\ lines'[a[1]] = lines[a[1]] \cup {row}
                 /\ \A j \in Job : j # a[1] => lines'[j] = lines[j]
  BY <1>0, InsertRow
<1>2. \A l \in lines[a[1]] : l[1] \in Nat /\ l[1] < seq[a] + 1
  BY <1>0, FreeIsAbove DEF Calm
<1>3. NoVerdict(a[1])
  <2>1. CASE at[a] = "head"
    <3>1. \A l \in lines[a[1]] : l[1] < 1 /\ l[1] >= 1
      BY <1>0, <1>2, <2>1 DEF Sole, FirstLines
    <3>2. QED BY <1>2, <3>1 DEF NoVerdict
  <2>2. CASE at[a] # "head"
    BY <1>0, <2>2 DEF Sole, Inner, BodyLog
  <2>3. QED BY <2>1, <2>2
<1>4. Single'
  BY <1>0, <1>1, <1>3 DEF Single, NoVerdict
<1>5. FirstLines'
  <2>1. row[1] >= 1 /\ (row[1] = 1 /\ preferred_adapter(a[1]) => row[2] = "info")
    BY <1>0, <1>1 DEF Sole, Inner, BodyLog, KindOf
  <2>2. ASSUME NEW j \in Job, NEW l \in lines'[j]
        PROVE  l[1] >= 1 /\ (l[1] = 1 /\ preferred_adapter(j) => l[2] = "info")
    BY <1>0, <1>1, <2>1 DEF FirstLines
  <2>3. QED BY <2>2 DEF FirstLines, preferred_adapter
<1>6. Sole(a)'
  <2>1. PICK d \in After(a) : at'[a] = d[1]
    BY DEF console_log, GoTo, KTypeOK
  <2>2. CASE at[a] \in {"result", "run_failed"}
    <3>1. at'[a] \in {"finish", "finish_failed"}
      BY <2>1, <2>2 DEF After
    <3>2. QED BY <3>1 DEF Sole, Inner
  <2>3. CASE at[a] \notin {"result", "run_failed"}
    <3>1. row[2] = "info"
      BY <1>1, <2>3 DEF KindOf
    <3>2. NoVerdict(a[1])'
      BY <1>1, <1>3, <3>1 DEF NoVerdict
    <3>3. at[a] \in {"head"} \cup Inner /\ preferred_adapter(a[1])
      BY <1>0, <2>3 DEF Sole, Inner, BodyLog
    <3>4. at'[a] \in Inner \cup {"run_failed"}
      <4>1. /\ \A n : Printing(n)[1] \in {"lines", "result"}
            /\ \A c : NextCell(c)[1] \in {"cell", "result"}
        BY DEF Printing, NextCell
      <4>2. QED BY <1>0, <2>1, <2>3, <4>1 DEF After, Inner, BodyLog
    <3>5. seq'[a] >= 1
      BY <1>0
    <3>6. QED BY <3>2, <3>3, <3>4, <3>5 DEF Sole, Inner, preferred_adapter
  <2>4. QED BY <2>2, <2>3
<1>7. ASSUME NEW b \in Attempt, b # a PROVE Sole(b)'
  <2>1. b[1] \in Job /\ Sole(b) /\ at'[b] = at[b] /\ seq'[b] = seq[b]
    BY <1>0, <1>7, AttemptParts DEF Settled
  <2>2. CASE b[1] = a[1]
    <3>1. at[b] = "start"
      <4>1. SUFFICES ASSUME at[b] # "start" PROVE FALSE
        OBVIOUS
      <4>2. PICK j \in Job, n \in 1 .. MaxDeliveries : a = <<j, n>>
        BY DEF Attempt
      <4>3. PICK k \in Job, m \in 1 .. MaxDeliveries : b = <<k, m>>
        BY DEF Attempt
      <4>4. Live(a) /\ Live(b)
        BY <1>0, <4>1 DEF Engaged, Live
      <4>5. j = k
        BY <2>2, <4>2, <4>3
      <4>6. Live(<<j, n>>) /\ Live(<<j, m>>)
        BY <4>2, <4>3, <4>4, <4>5
      <4>7. m = n
        BY <4>6 DEF OneAttemptAtATime, Calm
      <4>8. QED BY <1>7, <4>2, <4>3, <4>5, <4>7
    <3>2. QED BY <2>1, <3>1 DEF Sole, Inner
  <2>3. CASE b[1] # a[1]
    <3>1. lines'[b[1]] = lines[b[1]]
      BY <1>1, <2>1, <2>3
    <3>2. (Taken(b)' <=> Taken(b)) /\ (NoVerdict(b[1])' <=> NoVerdict(b[1]))
      BY <2>1, <3>1 DEF Taken, Number, Numbers, NoVerdict
    <3>3. QED BY <2>1, <3>2 DEF Sole, preferred_adapter
  <2>4. QED BY <2>2, <2>3
<1>8. QED BY <1>4, <1>5, <1>6, <1>7

\* Settled is inductive.
LEMMA SettledStep ==
    ASSUME QTypeOK, KTypeOK, Numbered, Engaged, OneAttemptAtATime, Settled, [Next]_vars
    PROVE  Settled'
<1> SUFFICES ASSUME faults' = 0, ~Overrun
             PROVE  Single' /\ FirstLines' /\ \A b \in Attempt : Sole(b)'
  BY DEF Settled, Calm
<1>0. Calm /\ \A a \in Attempt : ~HandlerFault(a)
  BY FaultsGrow DEF Calm
<1>1. Single /\ FirstLines /\ \A b \in Attempt : Sole(b)
  BY <1>0 DEF Settled
<1> DEFINE Still(b) == at'[b] = at[b] /\ seq'[b] = seq[b]
           Goal == Single' /\ FirstLines' /\ \A b \in Attempt : Sole(b)'
<1>2. ASSUME lines' = lines, \A b \in Attempt : Still(b) \/ Sole(b)' PROVE Goal
  <2>1. ASSUME NEW b \in Attempt, Still(b) PROVE Sole(b)'
    <3>1. (Taken(b)' <=> Taken(b)) /\ (NoVerdict(b[1])' <=> NoVerdict(b[1]))
      BY <1>2, <2>1 DEF Taken, Number, Numbers, NoVerdict
    <3>2. QED BY <1>1, <2>1, <3>1 DEF Sole, preferred_adapter
  <2>2. QED BY <1>1, <1>2, <2>1 DEF Single, FirstLines, preferred_adapter
<1>3. ASSUME ApiStep \/ UNCHANGED vars PROVE Goal
  BY <1>2, <1>3 DEF ApiStep, create_run, enqueue_kem, ApiFails, local, vars, kvars, db
<1>4. ASSUME Elsewhere PROVE Goal
  <2>1. \A b \in Attempt : Still(b) \/ at'[b] = "start"
    BY <1>4 DEF Elsewhere
  <2>2. \A b \in Attempt : at'[b] = "start" => Sole(b)'
    BY DEF Sole, Inner
  <2>3. QED BY <1>2, <1>4, <2>1, <2>2 DEF Elsewhere, db
<1>5. ASSUME NEW a \in Attempt, HandlerStep(a) PROVE Goal
  <2>0. /\ \A b \in Attempt : b # a => Still(b)
        /\ a[1] \in Job /\ seq[a] \in Nat /\ Sole(a)
    BY <1>1, <1>5, OthersStay, AttemptParts DEF KTypeOK
  <2>1. ASSUME console_log(a) PROVE Goal
    BY <1>0, <2>1, LogKeepsSettled
  <2>2. ASSUME lines' = lines, Sole(a)' PROVE Goal
    BY <1>2, <2>0, <2>2
  <2>3. ASSUME start(a) PROVE Goal
    <3>1. /\ lines' = lines /\ seq'[a] = 0
          /\ at'[a] = IF preferred_adapter(a[1]) THEN "head" ELSE "run_failed"
      BY <2>3 DEF start, GoTo, KTypeOK
    <3>2. ~Taken(a)' => NoVerdict(a[1])'
      <4>1. SUFFICES ASSUME 1 \notin Numbers(a[1]) PROVE lines[a[1]] = {}
        BY <3>1 DEF Taken, Number, Numbers, NoVerdict
      <4>2. ASSUME NEW l \in lines[a[1]] PROVE FALSE
        <5>1. l \in Nat \X Kind /\ l[1] >= 1
          BY <1>1, <2>0 DEF FirstLines, KTypeOK
        <5>2. l[1] \in Nat /\ l[1] \in Numbers(a[1])
          BY <5>1 DEF Numbers
        <5>3. 1 .. l[1] \subseteq Numbers(a[1])
          BY <1>0, <2>0, <5>2 DEF Numbered, LogContiguous, Calm
        <5>4. QED BY <4>1, <5>1, <5>2, <5>3
      <4>3. QED BY <4>2
    <3>3. Sole(a)'
      BY <3>1, <3>2 DEF Sole, Inner, preferred_adapter
    <3>4. QED BY <2>2, <3>1, <3>3
  <2>4. ASSUME log_conflict(a) PROVE Goal
    <3>1. /\ lines' = lines /\ seq'[a] = seq[a] + 1 /\ at'[a] = "run_failed"
          /\ at[a] \in BodyLog
      BY <2>4 DEF log_conflict, Count, GoTo, In, db, KTypeOK
    <3>2. ~Taken(a)' => NoVerdict(a[1])'
      <4>1. CASE at[a] \in Inner
        BY <2>0, <3>1, <4>1 DEF Sole, NoVerdict
      <4>2. CASE at[a] = "head"
        <5>1. SUFFICES ASSUME 2 \notin Numbers(a[1]) PROVE NoVerdict(a[1])
          BY <2>0, <3>1, <4>2 DEF Sole, Taken, Number, Numbers, NoVerdict
        <5>2. ASSUME NEW l \in lines[a[1]] PROVE l[2] = "info"
          <6>1. l \in Nat \X Kind /\ l[1] >= 1
            BY <1>1, <2>0 DEF FirstLines, KTypeOK
          <6>2. l[1] \in Nat /\ l[1] \in Numbers(a[1])
            BY <6>1 DEF Numbers
          <6>3. 1 .. l[1] \subseteq Numbers(a[1])
            BY <1>0, <2>0, <6>2 DEF Numbered, LogContiguous, Calm
          <6>4. l[1] = 1
            BY <5>1, <6>1, <6>2, <6>3
          <6>5. QED BY <1>1, <2>0, <4>2, <6>4 DEF FirstLines, Sole
        <5>3. QED BY <5>2 DEF NoVerdict
      <4>3. QED BY <3>1, <4>1, <4>2 DEF BodyLog, Inner
    <3>3. Sole(a)'
      BY <2>0, <3>1, <3>2 DEF Sole, Inner
    <3>4. QED BY <2>2, <3>1, <3>3
  <2>5. ASSUME capabilities_err(a) \/ console_cell(a) PROVE Goal
    <3>1. at[a] \in Inner /\ UNCHANGED <<lines, seq>>
      BY <2>5 DEF capabilities_err, publish, console_cell, In, Inner, db
    <3>2. at'[a] \in Inner
      <4>1. CASE capabilities_err(a)
        BY <4>1 DEF capabilities_err, GoTo, KTypeOK, Inner
      <4>2. CASE console_cell(a)
        <5>1. PICK v \in CellVerdict(a) :
                LET d == IF v \in {"passed", "failed"} THEN <<"cell_line", left[a]>>
                         ELSE NextCell(left[a])
                IN Upsert(a, v) /\ GoTo(a, d[1], d[2])
          BY <4>2 DEF console_cell
        <5>2. QED BY <5>1 DEF NextCell, GoTo, KTypeOK, Inner
      <4>3. QED BY <2>5, <4>1, <4>2
    <3>3. Sole(a)'
      BY <2>0, <3>1, <3>2 DEF Sole, Inner, NoVerdict, preferred_adapter
    <3>4. QED BY <2>2, <3>1, <3>3
  <2>6. ASSUME finish(a) \/ announce(a) PROVE Goal
    <3>1. lines' = lines /\ at'[a] \in {"announce", "return"}
      BY <2>6 DEF finish, announce, GoTo, db, KTypeOK
    <3>2. QED BY <2>2, <3>1 DEF Sole, Inner
  <2>7. ASSUME publish(a) \/ HandleEnds(a) PROVE Goal
    BY <1>2, <2>7 DEF publish, HandleEnds, kvars, db, local
  <2> HIDE DEF Goal
  <2>8. QED BY <1>5, <2>1, <2>3, <2>4, <2>5, <2>6, <2>7 DEF HandlerStep
<1> HIDE DEF Goal
<1>6. Goal
  BY <1>0, <1>3, <1>4, <1>5 DEF Next, QueueStep
<1>7. QED BY <1>6 DEF Goal

\* Handlers begin and end with their tasks.
LEMMA EngagedInvariant == Spec => []Engaged
<1>1. Init => Engaged
  BY DEF Init, Engaged
<1>2. TypeOK /\ DeliveredInOrder /\ Engaged /\ [Next]_vars => Engaged'
  BY EngagedStep DEF TypeOK
<1>3. QED BY <1>1, <1>2, ImplementsQueue, DeliveredInvariant, TypeCorrect, PTL DEF Spec

\* Redelivery never gives a run a second verdict while no call fails and no
\* handler outlasts CLAIM_STALE_MS, for any number of crashes and deliveries.
THEOREM OneVerdictCorrect == Spec => []OneVerdict
<1>1. Init => Settled
  BY DEF Init, Settled, Single, FirstLines, Sole, Inner
<1>2. TypeOK /\ Numbered /\ Engaged /\ OneAttemptAtATime /\ Settled /\ [Next]_vars => Settled'
  BY SettledStep DEF TypeOK
<1>3. Settled => OneVerdict
  BY DEF Settled, Calm, Single, OneVerdict
<1>4. QED
  BY <1>1, <1>2, <1>3, ImplementsQueue, OneAttemptCorrect, EngagedInvariant,
     NumberedInvariant, TypeCorrect, PTL DEF Spec

-----------------------------------------------------------------------------
(***************************************************************************)
(* A run that was delivered once ends. The finding of kem_stuck is about   *)
(* redelivery only.                                                        *)
(***************************************************************************)

\* A call of a handler touches its own run only.
LEMMA RunFrame ==
    ASSUME QTypeOK, KTypeOK, NEW a \in Attempt, HandlerStep(a) \/ HandlerFault(a)
    PROVE  /\ pc[a] = "run"
           /\ pc'[a] \in {"run", "ack"}
           /\ deliv' = deliv /\ log' = log /\ outbox' = outbox
           /\ \A b \in Attempt : b # a => pc'[b] = pc[b] /\ at'[b] = at[b]
           /\ \A j \in Job : j # a[1] =>
                 lines'[j] = lines[j] /\ cells'[j] = cells[j] /\ status'[j] = status[j]
<1>0. a[1] \in Job
  BY AttemptParts
<1>1. /\ pc[a] = "run" /\ deliv' = deliv /\ log' = log /\ outbox' = outbox
      /\ pc' = pc \/ pc' = [pc EXCEPT ![a] = "ack"]
  BY DEF HandlerStep, HandlerFault, start, console_log, log_conflict, log_fails,
     capabilities_err, publish, console_cell, cell_fails, publish_fails, finish,
     announce, HandleEnds, HandleErr,
     In, CallFails, HandlerReturns, HandlerErrs, ToAck, qvars, kvars, db
<1>2. pc'[a] \in {"run", "ack"} /\ \A b \in Attempt : b # a => pc'[b] = pc[b]
  BY <1>1 DEF QTypeOK
<1>3. lines' = lines \/ Insert(a)
  BY DEF HandlerStep, HandlerFault, start, console_log, log_conflict, log_fails,
     capabilities_err, publish, console_cell, cell_fails, publish_fails, finish,
     announce, HandleEnds, HandleErr,
     kvars, db
<1>4. cells' = cells \/ \E v \in CellVerdict(a) : Upsert(a, v)
  BY DEF HandlerStep, HandlerFault, start, console_log, log_conflict, log_fails,
     capabilities_err, publish, console_cell, cell_fails, publish_fails, finish,
     announce, HandleEnds, HandleErr,
     kvars, db
<1>5. status' = status \/ \E s : status' = [status EXCEPT ![a[1]] = s]
  BY DEF HandlerStep, HandlerFault, start, console_log, log_conflict, log_fails,
     capabilities_err, publish, console_cell, cell_fails, publish_fails, finish,
     announce, HandleEnds, HandleErr,
     kvars, db
<1>6. ASSUME NEW j \in Job, j # a[1] PROVE lines'[j] = lines[j]
  BY <1>0, <1>3, <1>6 DEF Insert, KTypeOK
<1>7. ASSUME NEW j \in Job, j # a[1] PROVE cells'[j] = cells[j]
  BY <1>0, <1>4, <1>7 DEF Upsert, KTypeOK
<1>8. ASSUME NEW j \in Job, j # a[1] PROVE status'[j] = status[j]
  BY <1>0, <1>5, <1>8 DEF KTypeOK
<1>9. QED BY <1>1, <1>2, <1>6, <1>7, <1>8, OthersStay

\* Of a run that was delivered once there is one attempt.
LEMMA OnlyAttempt ==
    ASSUME QTypeOK, DeliveredInOrder, NEW a \in Attempt, NEW b \in Attempt, b[1] = a[1],
           pc[a] # "none", pc[b] # "none", deliv[a[1]] <= 1
    PROVE  b = a /\ deliv[a[1]] = 1
<1>1. PICK j \in Job, n \in 1 .. MaxDeliveries : a = <<j, n>>
  BY DEF Attempt
<1>2. PICK k \in Job, m \in 1 .. MaxDeliveries : b = <<k, m>>
  BY DEF Attempt
<1>3. k = j /\ deliv[j] \in Nat /\ deliv[j] <= 1
  BY <1>1, <1>2 DEF QTypeOK
<1>4. ~(deliv[j] < n) /\ ~(deliv[j] < m)
  BY <1>1, <1>2, <1>3 DEF DeliveredInOrder
<1>5. n = 1 /\ m = 1 /\ deliv[j] = 1
  BY <1>3, <1>4, QueueAssumption
<1>6. QED BY <1>1, <1>2, <1>3, <1>5

\* What is left of a run after its first delivery, and what its handler knows: it
\* has written all there is, and it does not return before the run has ended.
Own(a) ==
    /\ at[a] = "start" => seq[a] = 0
    /\ pc[a] \in {"batch", "run"} \/ deliv[a[1]] = 0 => \A m \in Numbers(a[1]) : m <= seq[a]
    /\ at[a] \in {"announce", "return"} \/ pc[a] = "ack" \/ a[1] \in acked => Ended(a[1])
    /\ a[1] \in acked => pc[a] \in {"none", "over"}

FirstHandler == faults = 0 => \A a \in Attempt : deliv[a[1]] <= 1 => Own(a)

\* Own survives a call of the attempt itself.
LEMMA OwnCall ==
    ASSUME QTypeOK, KTypeOK, NEW a \in Attempt, HandlerStep(a), Own(a)
    PROVE  Own(a)'
<1> DEFINE j == a[1]
<1>0. /\ j \in Job /\ pc[a] = "run" /\ pc'[a] \in {"run", "ack"} /\ deliv' = deliv
      /\ seq[a] \in Nat /\ Numbers(j) \subseteq Nat
  BY RunFrame, AttemptParts DEF KTypeOK, Numbers
<1>1. j \notin acked /\ acked' = acked
  BY <1>0 DEF Own, HandlerStep, start, console_log, log_conflict, capabilities_err, publish, console_cell,
     finish, announce, HandleEnds, HandlerReturns, ToAck, qvars
<1>2. (\A m \in Numbers(j) : m <= seq[a]) /\ (at[a] = "start" => seq[a] = 0)
  BY <1>0 DEF Own
<1>3. ~Taken(a)
  BY <1>0, <1>2 DEF Taken, Number
<1>4. ASSUME NEW c, NEW n, GoTo(a, c, n) PROVE at'[a] = c
  BY <1>4 DEF GoTo, KTypeOK
<1>5. ASSUME pc' = pc, lines' = lines, seq'[a] = seq[a], at'[a] \notin {"start", "announce", "return"}
      PROVE  Own(a)'
  BY <1>0, <1>1, <1>2, <1>5 DEF Own, Numbers
<1>6. CASE start(a)
  <2>1. at[a] = "start" /\ seq'[a] = 0 /\ pc' = pc /\ lines' = lines
    BY <1>6 DEF start, In, KTypeOK, qvars
  <2>2. at'[a] \in {"head", "run_failed"}
    BY <1>4, <1>6 DEF start
  <2>3. QED BY <1>2, <1>5, <2>1, <2>2
<1>7. CASE console_log(a)
  <2>1. seq'[a] = seq[a] + 1 /\ pc' = pc /\ Insert(a) /\ at[a] \in BodyLog \cup {"run_failed"}
    BY <1>7 DEF console_log, Count, KTypeOK, qvars, In
  <2>2. Numbers(j)' = Numbers(j) \cup {seq[a] + 1}
    BY <2>1, InsertNumbers DEF Number
  <2>3. PICK d \in After(a) : GoTo(a, d[1], d[2])
    BY <1>7 DEF console_log
  <2>4. /\ \A n : Printing(n)[1] \in {"lines", "result"}
        /\ \A c : NextCell(c)[1] \in {"cell", "result"}
    BY DEF Printing, NextCell
  <2>5. d[1] \notin {"start", "announce", "return"}
    BY <2>1, <2>3, <2>4 DEF After, BodyLog
  <2>6. at'[a] \notin {"start", "announce", "return"}
    BY <1>4, <2>3, <2>5
  <2>7. \A m \in Numbers(j)' : m <= seq'[a]
    BY <1>0, <1>2, <2>1, <2>2
  <2>8. QED BY <1>0, <1>1, <2>1, <2>6, <2>7 DEF Own
<1>8. CASE log_conflict(a)
  BY <1>3, <1>8 DEF log_conflict
<1>9. CASE capabilities_err(a)
  BY <1>4, <1>5, <1>9 DEF capabilities_err, qvars, db
<1>p. CASE publish(a)
  <2>1. UNCHANGED <<lines, status, seq, at, pc>>
    BY <1>p DEF publish, qvars, db
  <2>2. QED BY <1>0, <1>1, <1>2, <2>1 DEF Own, Numbers, Ended
<1>10. CASE console_cell(a)
  <2>1. \E c \in {"cell_line", NextCell(left[a])[1]} : \E n : GoTo(a, c, n)
    BY <1>10 DEF console_cell
  <2>2. at'[a] \notin {"start", "announce", "return"}
    BY <1>4, <2>1 DEF NextCell
  <2>3. QED BY <1>5, <1>10, <2>2 DEF console_cell, qvars
<1>11. CASE finish(a)
  <2>1. Ended(j)' /\ lines' = lines /\ seq' = seq /\ at'[a] = "announce"
    BY <1>0, <1>4, <1>11 DEF finish, Ended, KTypeOK
  <2>2. QED BY <1>0, <1>1, <1>2, <2>1 DEF Own, Numbers
<1>12. CASE announce(a)
  <2>1. /\ at[a] = "announce" /\ UNCHANGED <<lines, status, seq>> /\ at'[a] = "return"
    BY <1>4, <1>12 DEF announce, In, db
  <2>2. Ended(j)'
    BY <2>1 DEF Own, Ended
  <2>3. QED BY <1>0, <1>1, <1>2, <2>1, <2>2 DEF Own, Numbers
<1>13. CASE HandleEnds(a)
  <2>1. at[a] = "return" /\ UNCHANGED <<lines, status, seq, at>>
    BY <1>3, <1>13 DEF HandleEnds, kvars, db, local
  <2>2. Ended(j)'
    BY <2>1 DEF Own, Ended
  <2>3. QED BY <1>0, <1>1, <1>2, <2>1, <2>2 DEF Own, Numbers
<1>14. QED
  BY <1>6, <1>7, <1>8, <1>9, <1>10, <1>11, <1>12, <1>13, <1>p
     DEF HandlerStep

\* Where a step of the queue alone leaves an attempt that it does not deliver.
LEMMA QueueMoves ==
    ASSUME QTypeOK, QueueStep, \A w \in Worker : ~Read(w) /\ ~Autoclaim(w), NEW b \in Attempt
    PROVE  pc'[b] = pc[b] \/ pc'[b] = "over" \/ (pc[b] = "batch" /\ pc'[b] = "run")
BY DEF QueueStep, WorkerStep, StartWorker, Spawn, Batch, Shutdown, Exit, Crash, Die, Ack, AckFails,
       Ends, QTypeOK

\* FirstHandler is inductive.
LEMMA FirstHandlerStep ==
    ASSUME QTypeOK, KTypeOK, InOrder, DeliveredInOrder, AckedApart, Engaged, FirstHandler, [Next]_vars
    PROVE  FirstHandler'
<1> SUFFICES ASSUME faults' = 0, NEW b \in Attempt, deliv'[b[1]] <= 1 PROVE Own(b)'
  BY DEF FirstHandler
<1> DEFINE j == b[1]
<1>0. /\ j \in Job /\ faults = 0 /\ \A a \in Attempt : ~HandlerFault(a)
      /\ deliv[j] \in Nat /\ deliv'[j] \in Nat /\ deliv[j] <= deliv'[j]
  BY StepOfQueue, FaultsGrow, DeliveriesGrow, AttemptParts
<1>1. deliv[j] <= 1 /\ \A a \in Attempt : a[1] = j => Own(a)
  BY <1>0 DEF FirstHandler
<1>2. deliv[j] = 0 => pc[b] = "none"
  <2>1. PICK n \in 1 .. MaxDeliveries : b = <<j, n>>
    BY DEF Attempt
  <2>2. QED BY <1>0, <2>1 DEF DeliveredInOrder
<1>3. ASSUME NEW a \in Attempt, HandlerStep(a) PROVE Own(b)'
  <2>0. /\ a[1] \in Job /\ pc[a] = "run" /\ deliv' = deliv
        /\ b # a => pc'[b] = pc[b] /\ at'[b] = at[b] /\ seq'[b] = seq[b]
    BY <1>3, RunFrame, OthersStay, AttemptParts
  <2>1. acked' = acked
    BY <1>3 DEF HandlerStep, start, console_log, log_conflict, capabilities_err, publish, console_cell,
       finish, announce, HandleEnds, HandlerReturns, ToAck, qvars
  <2>2. CASE a[1] # j
    <3>1. lines'[j] = lines[j] /\ status'[j] = status[j] /\ b # a
      BY <1>0, <1>3, <2>2, RunFrame
    <3>2. QED BY <1>1, <2>0, <2>1, <3>1 DEF Own, Numbers, Ended
  <2>3. CASE a[1] = j /\ b # a
    <3>1. pc[b] = "none" /\ at[b] = "start"
      BY <1>1, <2>0, <2>3, OnlyAttempt DEF Engaged
    <3>2. deliv[j] = 1
      BY <1>1, <2>0, <2>3, OnlyAttempt
    <3>3. j \notin acked
      BY <1>1, <2>0, <2>3 DEF Own
    <3>4. QED BY <1>1, <2>0, <2>1, <2>3, <3>1, <3>2, <3>3 DEF Own
  <2>4. CASE b = a
    BY <1>1, <1>3, <2>4, OwnCall
  <2>5. QED BY <2>2, <2>3, <2>4
<1>4. CASE ApiStep \/ UNCHANGED vars
  <2>1. UNCHANGED <<lines, at, seq, pc, deliv, acked>>
    BY <1>4 DEF ApiStep, create_run, enqueue_kem, ApiFails, Enqueue, qvars, vars, kvars, db, local
  <2>2. Ended(j) => Ended(j)'
    BY <1>0, <1>4 DEF ApiStep, create_run, enqueue_kem, ApiFails, vars, kvars, db, Ended, KTypeOK
  <2>3. QED BY <1>1, <2>1, <2>2 DEF Own, Numbers
<1>5. CASE QueueStep
  <2>0. /\ UNCHANGED <<status, lines>>
        /\ at'[b] = IF pc'[b] = "over" THEN "start" ELSE at[b]
        /\ seq'[b] = IF pc'[b] = "over" THEN 0 ELSE seq[b]
    BY <1>5 DEF QueueStep, Elsewhere, db
  <2>1. (Ended(j)' <=> Ended(j)) /\ Numbers(j)' = Numbers(j)
    BY <2>0 DEF Ended, Numbers
  <2>2. ASSUME NEW w \in Worker, Read(w) \/ Autoclaim(w) PROVE Own(b)'
    <3>1. PICK D \in SUBSET Job : Receive(D, w)
      BY <2>2 DEF Read, Autoclaim, NewEntries, QTypeOK
    <3>2. acked' = acked
      BY <2>2 DEF Read, Autoclaim
    <3>3. PICK n \in 1 .. MaxDeliveries : b = <<j, n>>
      BY DEF Attempt
    <3>4. CASE j \notin D
      <4>1. deliv'[j] = deliv[j] /\ pc'[b] = pc[b]
        BY <1>0, <3>1, <3>3, <3>4, DeliverEffect
      <4>2. QED BY <1>1, <1>2, <2>0, <2>1, <3>2, <4>1 DEF Own
    <3>5. CASE j \in D
      <4>1. deliv[j] = 0 /\ deliv'[j] = 1
        <5>1. deliv'[j] = deliv[j] + 1
          BY <1>0, <3>1, <3>5, DeliverEffect
        <5>2. QED BY <1>0, <5>1
      <4>2. pc[b] = "none" /\ at[b] = "start" /\ j \notin acked
        BY <1>2, <4>1 DEF Engaged, AckedApart
      <4>3. Deliver(D, w, "batch")
        BY <1>0, <3>1 DEF Receive
      <4>4. pc'[b] \in {"none", "batch"}
        BY <4>2, <4>3 DEF Deliver
      <4>5. QED BY <1>1, <2>0, <2>1, <3>2, <4>1, <4>2, <4>4 DEF Own
    <3>6. QED BY <3>4, <3>5
  <2>3. ASSUME \A w \in Worker : ~Read(w) /\ ~Autoclaim(w) PROVE Own(b)'
    <3>1. deliv' = deliv /\ (pc[b] = "none" => pc'[b] = "none")
      BY <2>3, StepOfQueue, QuietStep
    <3>2. pc'[b] = pc[b] \/ pc'[b] = "over" \/ (pc[b] = "batch" /\ pc'[b] = "run")
      BY <1>5, <2>3, QueueMoves
    <3>3. CASE acked' = acked
      BY <1>1, <1>2, <2>0, <2>1, <3>1, <3>2, <3>3 DEF Own
    <3>4. ASSUME NEW a \in Attempt, Ack(a) PROVE Own(b)'
      <4>1. pc[a] = "ack" /\ acked' = acked \cup {a[1]} /\ pc'[a] = "over"
        BY <3>4 DEF Ack, Ends, QTypeOK
      <4>2. CASE a[1] # j
        <5>1. j \in acked' <=> j \in acked
          BY <4>1, <4>2
        <5>2. QED BY <1>1, <1>2, <2>0, <2>1, <3>1, <3>2, <5>1 DEF Own
      <4>3. CASE a[1] = j
        <5>1. Ended(j)
          BY <1>1, <4>1, <4>3 DEF Own
        <5>2. b = a \/ pc[b] = "none"
          BY <1>1, <4>1, <4>3, OnlyAttempt
        <5>3. QED BY <1>1, <1>2, <2>0, <2>1, <3>1, <3>2, <4>1, <5>1, <5>2 DEF Own
      <4>4. QED BY <4>2, <4>3
    <3>5. acked' = acked \/ \E a \in Attempt : Ack(a)
      BY <1>5 DEF QueueStep, WorkerStep, StartWorker, Read, Autoclaim, Spawn, Shutdown, Exit,
         Crash, AckFails
    <3>6. QED BY <3>3, <3>4, <3>5
  <2>4. QED BY <2>2, <2>3
<1>6. QED BY <1>0, <1>3, <1>4, <1>5 DEF Next

\* An acknowledged run has ended if no call failed and its job was delivered
\* once, whatever other handlers and workers do: what main.rs says of failures
\* being recorded breaks only for a redelivered run or a failed call.
THEOREM FirstDeliveryEnds ==
    Spec => [](faults = 0 => \A j \in acked : deliv[j] <= 1 => Ended(j))
<1>1. Init => FirstHandler
  <2> SUFFICES ASSUME Init, NEW a \in Attempt PROVE Own(a)
    BY DEF FirstHandler
  <2>1. a[1] \in Job
    BY AttemptParts
  <2>2. Numbers(a[1]) = {} /\ at[a] = "start" /\ seq[a] = 0 /\ pc[a] = "none" /\ acked = {}
    BY <2>1 DEF Init, QInit, Numbers
  <2>3. QED BY <2>2 DEF Own
<1>2. TypeOK /\ InOrder /\ DeliveredInOrder /\ AckedApart /\ Engaged /\ FirstHandler /\ [Next]_vars
        => FirstHandler'
  BY FirstHandlerStep DEF TypeOK
<1>3. TypeOK /\ FirstHandler => (faults = 0 => \A j \in acked : deliv[j] <= 1 => Ended(j))
  <2> SUFFICES ASSUME TypeOK, FirstHandler, faults = 0, NEW j \in acked, deliv[j] <= 1
               PROVE  Ended(j)
    OBVIOUS
  <2>1. j \in Job /\ <<j, 1>> \in Attempt
    BY QueueAssumption DEF TypeOK, QTypeOK, Attempt
  <2>2. Own(<<j, 1>>)
    BY <2>1 DEF FirstHandler
  <2>3. QED BY <2>2 DEF Own
<1>4. QED
  BY <1>1, <1>2, <1>3, ImplementsQueue, DeliveredInvariant, AckedInvariant, EngagedInvariant,
     TypeCorrect, PTL DEF Spec

=============================================================================
