--------------------------- MODULE LiveRunProofs ---------------------------
(***************************************************************************)
(* Proofs about LiveRun: what the page of a KEM run shows is stored, for   *)
(* every run, any number of handlers, crashes and failed calls. A row and  *)
(* its event are two calls: the proof keeps book of the events that wait.  *)
(***************************************************************************)
EXTENDS LiveRun, KemProofs

\* The page leaves the runs alone, apart from creating them.
LEMMA StepOfRun == [LNext]_lvars => [Next]_vars
<1> SUFFICES ASSUME LNext PROVE Next \/ UNCHANGED vars
  BY DEF lvars
<1>1. CASE Page
  <2>1. ASSUME NEW j \in Job, run(j) PROVE Next
    BY <2>1 DEF run, Next, ApiStep
  <2>2. QED
    BY <1>1, <2>1 DEF Page, run_refused, reply_lost, created, subscribe, onmessage,
       onerror, unmount
<1>2. CASE System
  <2>1. ASSUME NEW j \in Job, ApiErr(j) \/ enqueue_kem(j) PROVE Next
    BY <2>1 DEF ApiErr, Next, ApiStep
  <2>2. ASSUME NEW a \in Attempt, Tell(a) \/ Silent(a) PROVE Next
    BY <2>2 DEF Tell, Silent, Next, HandlerStep
  <2>3. QED BY <1>2, <2>1, <2>2 DEF System, Next
<1>3. QED BY <1>1, <1>2 DEF LNext

\* What is proved of the runs holds of the ones a page watches.
THEOREM ImplementsRun == LSpec => Spec
<1>1. LInit => Init
  BY DEF LInit
<1>2. QED BY <1>1, StepOfRun, PTL DEF LSpec, Spec

-----------------------------------------------------------------------------

(***************************************************************************)
(* The events that wait for their PUBLISH.                                 *)
(***************************************************************************)

\* A row that has been written and not yet published is stored, a handler that
\* has not ended will publish it, and no two handlers of a run have written the
\* same line.
Pending ==
    /\ EventsAreStored
    /\ \A a \in Attempt : event[a] # Silence => pc[a] \in {"run", "ack"}
    /\ \A a \in Attempt : event[a][1] = "cell" => event[a][2][2] # "none"
    /\ \A a, b \in Attempt :
          a # b /\ a[1] = b[1] /\ event[a][1] = "log" /\ event[b][1] = "log" =>
              event[a][2][1] # event[b][2][1]

\* What a call of a handler does to its own event.
LEMMA OwnEvent ==
    ASSUME KTypeOK, Written, NEW a \in Attempt, HandlerStep(a) \/ HandlerFault(a)
    PROVE  \/ event'[a] \in {event[a], Silence}
           \/ /\ console_log(a)
              /\ event'[a] = <<"log", Line(a)>>
              /\ Line(a) \in lines'[a[1]] /\ Number(a) \notin Numbers(a[1])
           \/ /\ console_cell(a)
              /\ event[a] = Silence
              /\ \E v \in Verdict : /\ v # "none" /\ left[a] \in Cell
                                    /\ event'[a] = <<"cell", <<left[a], v>>>>
                                    /\ cells'[a[1]][left[a]] = v
<1>0. a[1] \in Job
  BY AttemptParts
<1>1. CASE console_log(a)
  BY <1>0, <1>1 DEF console_log, Writes, Insert, Taken, KTypeOK
<1>2. CASE console_cell(a)
  <2>1. PICK v \in CellVerdict(a) : Upsert(a, v) /\ Writes(a, <<"cell", <<left[a], v>>>>)
    BY <1>2 DEF console_cell
  <2>2. at[a] \in {"cell", "cell_no_caps"} /\ event[a] = Silence
    BY <1>2 DEF console_cell, In
  <2>3. left[a] \in Cell
    BY <2>2 DEF Written, Place, Before
  <2>4. v # "none" /\ cells'[a[1]][left[a]] = v
    BY <2>1, <2>2, UpsertEffect
  <2>5. v \in Verdict
    BY DEF CellVerdict, Verdict
  <2>6. event'[a] = <<"cell", <<left[a], v>>>>
    BY <2>1 DEF Writes, KTypeOK
  <2>7. QED BY <1>2, <2>2, <2>3, <2>4, <2>5, <2>6
<1>3. CASE start(a) \/ log_conflict(a) \/ capabilities_err(a) \/ finish(a) \/ announce(a)
           \/ log_fails(a) \/ cell_fails(a)
  BY <1>3 DEF start, log_conflict, capabilities_err, finish, announce, log_fails, cell_fails
<1>4. CASE HandleEnds(a) \/ HandleErr(a)
  BY <1>4 DEF HandleEnds, HandleErr, kvars, local
<1>5. CASE publish(a) \/ publish_fails(a)
  BY <1>5 DEF publish, publish_fails, KTypeOK
<1>6. QED BY <1>1, <1>2, <1>3, <1>4, <1>5 DEF HandlerStep, HandlerFault

\* Every other event stays, or goes with its handler.
LEMMA EventsStay ==
    ASSUME QTypeOK, KTypeOK, Written, [Next]_vars, NEW a \in Attempt
    PROVE  \/ event'[a] \in {event[a], Silence}
           \/ HandlerStep(a)
<1>1. ASSUME NEW b \in Attempt, HandlerStep(b) \/ HandlerFault(b)
      PROVE  event'[a] \in {event[a], Silence} \/ HandlerStep(a)
  <2>1. CASE a = b
    BY <1>1, <2>1, OwnEvent DEF HandlerStep
  <2>2. CASE a # b
    BY <1>1, <2>2, OthersStay
  <2>3. QED BY <2>1, <2>2
<1>2. CASE ApiStep \/ UNCHANGED vars
  BY <1>2 DEF ApiStep, create_run, enqueue_kem, ApiFails, vars, kvars, local
<1>3. CASE QueueStep
  BY <1>3 DEF QueueStep, Elsewhere
<1>4. QED BY <1>1, <1>2, <1>3 DEF Next

\* Pending is inductive.
LEMMA PendingStep ==
    ASSUME TypeOK, DeliveredInOrder, Written, Pending, [Next]_vars
    PROVE  Pending'
<1>0. QTypeOK /\ KTypeOK /\ Silence[1] = "none" /\ \A a \in Attempt : a[1] \in Job
  BY AttemptParts DEF TypeOK, Silence
<1>1. ASSUME NEW a \in Attempt, event'[a] \in {event[a], Silence}
      PROVE  \/ event'[a] = Silence
             \/ event'[a][1] = "log" /\ event'[a][2] \in lines'[a[1]]
             \/ /\ event'[a][1] = "cell" /\ event'[a][2][1] \in Cell
                /\ cells'[a[1]][event'[a][2][1]] = event'[a][2][2]
                /\ event'[a][2][2] # "none"
  <2>1. lines[a[1]] \subseteq lines'[a[1]]
    BY <1>0, LinesStay
  <2>2. CASE event[a][1] = "cell" /\ event[a] # Silence
    <3>1. /\ event[a][2][1] \in Cell /\ cells[a[1]][event[a][2][1]] = event[a][2][2]
          /\ event[a][2][2] # "none"
      BY <2>2 DEF Pending, EventsAreStored
    <3>2. cells'[a[1]][event[a][2][1]] = cells[a[1]][event[a][2][1]]
      BY <1>0, <3>1, CellsStep
    <3>3. QED BY <1>1, <2>2, <3>1, <3>2
  <2>3. CASE event[a][1] = "log" \/ event[a] = Silence
    BY <1>0, <1>1, <2>1, <2>3 DEF Pending, EventsAreStored
  <2>4. QED BY <2>2, <2>3 DEF Pending, EventsAreStored
<1>2. ASSUME NEW a \in Attempt, HandlerStep(a), event'[a] \notin {event[a], Silence}
      PROVE  /\ \/ event'[a][1] = "log" /\ event'[a][2] \in lines'[a[1]]
                \/ /\ event'[a][1] = "cell" /\ event'[a][2][1] \in Cell
                   /\ cells'[a[1]][event'[a][2][1]] = event'[a][2][2]
                   /\ event'[a][2][2] # "none"
             /\ event'[a][1] = "log" => event'[a][2][1] \notin Numbers(a[1])
  <2>1. CASE console_log(a) /\ event'[a] = <<"log", Line(a)>>
             /\ Line(a) \in lines'[a[1]] /\ Number(a) \notin Numbers(a[1])
    BY <2>1 DEF Line
  <2>2. ASSUME NEW v \in Verdict, v # "none", left[a] \in Cell,
               event'[a] = <<"cell", <<left[a], v>>>>, cells'[a[1]][left[a]] = v
        PROVE  /\ event'[a][1] = "cell" /\ event'[a][2][1] \in Cell
               /\ cells'[a[1]][event'[a][2][1]] = event'[a][2][2]
               /\ event'[a][2][2] # "none"
    BY <2>2
  <2>3. QED BY <1>0, <1>2, <2>1, <2>2, OwnEvent
<1>3. \A a \in Attempt : event'[a] \in {event[a], Silence} \/ HandlerStep(a)
  BY <1>0, EventsStay
<1>4. EventsAreStored'
  BY <1>1, <1>2, <1>3 DEF EventsAreStored
<1>5. ASSUME NEW a \in Attempt, event'[a][1] = "cell" PROVE event'[a][2][2] # "none"
  BY <1>0, <1>1, <1>2, <1>3, <1>5
<1>6. ASSUME NEW a \in Attempt, event'[a] # Silence PROVE pc'[a] \in {"run", "ack"}
  <2>1. CASE HandlerStep(a)
    BY <1>0, <2>1, RunFrame
  <2>2. CASE ~HandlerStep(a)
    <3>1. event'[a] = event[a] /\ pc[a] \in {"run", "ack"}
      BY <1>3, <1>6, <2>2 DEF Pending
    <3>2. pc'[a] \in {"run", "ack", "over"}
      BY <1>0, <3>1, StepOfQueue, TaskStep
    <3>3. CASE QueueStep
      BY <1>6, <3>2, <3>3 DEF QueueStep, Elsewhere
    <3>4. CASE ApiStep \/ UNCHANGED vars
      <4>1. pc' = pc
        BY <3>4 DEF ApiStep, create_run, enqueue_kem, ApiFails, Enqueue, qvars, vars
      <4>2. QED BY <3>1, <4>1
    <3>5. ASSUME NEW b \in Attempt, HandlerStep(b) \/ HandlerFault(b)
          PROVE  pc'[a] \in {"run", "ack"}
      <4>1. pc'[b] \in {"run", "ack"} /\ (a # b => pc'[a] = pc[a])
        BY <1>0, <3>5, RunFrame
      <4>2. QED BY <3>1, <4>1
    <3>6. QED BY <3>3, <3>4, <3>5 DEF Next
  <2>3. QED BY <2>1, <2>2
<1>7. ASSUME NEW a \in Attempt, NEW b \in Attempt, a # b, a[1] = b[1],
             event'[a][1] = "log", event'[b][1] = "log"
      PROVE  event'[a][2][1] # event'[b][2][1]
  <2>1. ASSUME NEW c \in Attempt, NEW d \in Attempt, c # d, c[1] = d[1],
               event'[c][1] = "log", event'[d][1] = "log", HandlerStep(c)
        PROVE  event'[c][2][1] # event'[d][2][1]
    <3>1. event'[d] = event[d]
      BY <1>0, <2>1, OthersStay
    <3>2. event[d][2] \in lines[c[1]]
      BY <1>0, <2>1, <3>1 DEF Pending, EventsAreStored
    <3>3. event[d][2][1] \in Numbers(c[1])
      BY <3>2 DEF Numbers
    <3>4. CASE event'[c] \in {event[c], Silence}
      <4>1. event'[c] = event[c]
        BY <1>0, <2>1, <3>4
      <4>2. QED BY <2>1, <3>1, <4>1 DEF Pending
    <3>5. CASE event'[c] \notin {event[c], Silence}
      BY <1>2, <2>1, <3>1, <3>3, <3>5
    <3>6. QED BY <3>4, <3>5
  <2>2. CASE HandlerStep(a) \/ HandlerStep(b)
    BY <1>7, <2>1, <2>2
  <2>3. CASE ~HandlerStep(a) /\ ~HandlerStep(b)
    <3>1. event'[a] = event[a] /\ event'[b] = event[b]
      BY <1>0, <1>3, <1>7, <2>3
    <3>2. QED BY <1>7, <3>1 DEF Pending
  <2>4. QED BY <2>2, <2>3
<1>8. QED BY <1>4, <1>5, <1>6, <1>7 DEF Pending

\* Pending is an invariant.
LEMMA PendingInvariant == Spec => []Pending
<1>1. Init => Pending
  BY DEF Init, Pending, EventsAreStored, Silence
<1>2. TypeOK /\ DeliveredInOrder /\ Written /\ Pending /\ [Next]_vars => Pending'
  BY PendingStep
<1>3. QED
  BY <1>1, <1>2, ImplementsQueue, TypeCorrect, DeliveredInvariant, WrittenInvariant, PTL
     DEF Spec

-----------------------------------------------------------------------------
Row == Nat \X Kind
CellRow == Cell \X Verdict
Message == ({"log"} \X Row) \cup ({"cell"} \X CellRow) \cup {<<"finished", << >>>>}

ViewOK ==
    /\ shown \in Job \cup {Nobody}
    /\ logs \in Seq(Row)
    /\ matrix \in [Cell -> Verdict]
    /\ stream \in Seq(Message)

Ordered(strict, m, n) == IF strict THEN m < n ELSE m # n

\* The handlers of the run on the page still come one after the other.
Still == faults' = 0 /\ (Overrun => deliv'[shown] <= 1)

\* Events on their way speak of rows that are stored and will stay.
EventsStored ==
    \A i \in DOMAIN stream :
        /\ stream[i][1] = "log" => shown # Nobody /\ stream[i][2] \in lines[shown]
        /\ stream[i][1] = "cell" => /\ shown # Nobody
                                   /\ stream[i][2][2] # "none"
                                   /\ cells[shown][stream[i][2][1]] = stream[i][2][2]

\* They follow the lines on the page, and each other, in the order of numbers.
EventsInOrder ==
    /\ \A i \in DOMAIN logs, k \in DOMAIN stream :
          stream[k][1] = "log" => Ordered(OneAfterTheOther, logs[i][1], stream[k][2][1])
    /\ \A i, k \in DOMAIN stream :
          i < k /\ stream[i][1] = "log" /\ stream[k][1] = "log" =>
              Ordered(OneAfterTheOther, stream[i][2][1], stream[k][2][1])

\* The page shows a line, or it is on its way.
Shows(l) == \/ \E i \in DOMAIN logs : logs[i] = l
            \/ \E i \in DOMAIN stream : stream[i][1] = "log" /\ stream[i][2] = l

\* A line that waits for its PUBLISH is news.
News ==
    \A a \in Attempt : \A l \in Row :
        a[1] = shown /\ event[a][1] = "log" /\ Shows(l) =>
            Ordered(OneAfterTheOther, l[1], event[a][2][1])

Faithful == ViewOK /\ EventsStored /\ EventsInOrder /\ ShownIsStored

\* What an event of each kind carries.
LEMMA EventParts ==
    ASSUME NEW e \in Message
    PROVE  /\ e[1] \in {"log", "cell", "finished"}
           /\ e[1] = "log" => e[2] \in Row /\ e[2][1] \in Nat
           /\ e[1] = "cell" => e[2] \in CellRow /\ e[2][1] \in Cell /\ e[2][2] \in Verdict
BY DEF Message, Row, CellRow

\* What a step of the system may do to the rows and to the order that is asked
\* for: rows stay, cells keep their verdicts, and a fault or a delivery only
\* loosens it.
LEMMA RowsStay ==
    ASSUME TypeOK, InOrder, Written, [Next]_vars
    PROVE  /\ \A j \in Job : lines[j] \subseteq lines'[j]
           /\ \A j \in Job : \A c \in Cell :
                 cells[j][c] # "none" => cells'[j][c] = cells[j][c]
           /\ shown \in Job => /\ Still => OneAfterTheOther
                              /\ \A m, n \in Nat :
                                    Ordered(OneAfterTheOther, m, n) => Ordered(Still, m, n)
<1>1. faults' = 0 => faults = 0
  BY FaultsGrow DEF TypeOK
<1>2. ASSUME shown \in Job, Still PROVE OneAfterTheOther
  <2>1. deliv[shown] \in Nat /\ deliv'[shown] \in Nat /\ deliv[shown] <= deliv'[shown]
    BY <1>2, StepOfQueue, DeliveriesGrow DEF TypeOK
  <2>2. deliv'[shown] <= 1 => deliv[shown] <= 1
    BY <2>1
  <2>3. QED BY <1>1, <1>2, <2>2 DEF Still, OneAfterTheOther
<1>3. shown \in Job => \A m, n \in Nat :
         Ordered(OneAfterTheOther, m, n) => Ordered(Still, m, n)
  BY <1>2 DEF Ordered
<1>4. QED BY <1>2, <1>3, LinesStay, CellsStep DEF TypeOK

\* What the page shows, and what is on its way to it, measured against the rows
\* and the faults after a step.
Outlives ==
    /\ \A i \in DOMAIN stream : stream[i][1] = "log" =>
          shown # Nobody /\ stream[i][2] \in lines'[shown]
    /\ \A i \in DOMAIN stream : stream[i][1] = "cell" =>
          /\ shown # Nobody
          /\ stream[i][2][2] # "none"
          /\ cells'[shown][stream[i][2][1]] = stream[i][2][2]
    /\ \A i \in DOMAIN logs, k \in DOMAIN stream :
          stream[k][1] = "log" => Ordered(Still, logs[i][1], stream[k][2][1])
    /\ \A i, k \in DOMAIN stream :
          i < k /\ stream[i][1] = "log" /\ stream[k][1] = "log" =>
              Ordered(Still, stream[i][2][1], stream[k][2][1])
    /\ \A i \in DOMAIN logs : shown # Nobody /\ logs[i] \in lines'[shown]
    /\ \A i, k \in DOMAIN logs : i < k => Ordered(Still, logs[i][1], logs[k][1])
    /\ \A c \in Cell : matrix[c] # "none" => shown # Nobody /\ matrix[c] = cells'[shown][c]

\* Nothing the page has been told is taken back by a step of the system.
LEMMA OldStaysTrue ==
    ASSUME TypeOK, InOrder, Written, Faithful, [Next]_vars
    PROVE  Outlives
<1> USE CutsAssumption
<1>0. shown # Nobody => shown \in Job
  BY DEF Faithful, ViewOK
<1>1. \A i \in DOMAIN stream : stream[i] \in Message
  BY DEF Faithful, ViewOK
<1>2. \A i \in DOMAIN logs : logs[i] \in Row /\ logs[i][1] \in Nat
  BY DEF Faithful, ViewOK, Row
<1>3. shown \in Job => \A m, n \in Nat :
         Ordered(OneAfterTheOther, m, n) => Ordered(Still, m, n)
  BY RowsStay
<1>4. ASSUME NEW i \in DOMAIN stream, stream[i][1] = "log"
      PROVE  shown # Nobody /\ stream[i][2] \in lines'[shown]
  BY <1>0, <1>4, RowsStay DEF Faithful, EventsStored
<1>5. ASSUME NEW i \in DOMAIN stream, stream[i][1] = "cell"
      PROVE  /\ shown # Nobody
             /\ stream[i][2][2] # "none"
             /\ cells'[shown][stream[i][2][1]] = stream[i][2][2]
  <2>1. stream[i][2][1] \in Cell
    BY <1>1, <1>5, EventParts
  <2>2. QED BY <1>0, <1>5, <2>1, RowsStay DEF Faithful, EventsStored
<1>6. ASSUME NEW i \in DOMAIN logs, NEW k \in DOMAIN stream, stream[k][1] = "log"
      PROVE  Ordered(Still, logs[i][1], stream[k][2][1])
  <2>1. stream[k][2][1] \in Nat /\ logs[i][1] \in Nat
    BY <1>1, <1>2, <1>6, EventParts
  <2>2. Ordered(OneAfterTheOther, logs[i][1], stream[k][2][1])
    BY <1>6 DEF Faithful, EventsInOrder
  <2>3. QED BY <1>0, <1>3, <1>6, <2>1, <2>2 DEF Faithful, EventsStored
<1>7. ASSUME NEW i \in DOMAIN stream, NEW k \in DOMAIN stream, i < k,
             stream[i][1] = "log", stream[k][1] = "log"
      PROVE  Ordered(Still, stream[i][2][1], stream[k][2][1])
  <2>1. stream[k][2][1] \in Nat /\ stream[i][2][1] \in Nat
    BY <1>1, <1>7, EventParts
  <2>2. Ordered(OneAfterTheOther, stream[i][2][1], stream[k][2][1])
    BY <1>7 DEF Faithful, EventsInOrder
  <2>3. QED BY <1>0, <1>3, <1>7, <2>1, <2>2 DEF Faithful, EventsStored
<1>8. ASSUME NEW i \in DOMAIN logs PROVE shown # Nobody /\ logs[i] \in lines'[shown]
  BY <1>0, RowsStay DEF Faithful, ShownIsStored
<1>9. ASSUME NEW i \in DOMAIN logs, NEW k \in DOMAIN logs, i < k
      PROVE  Ordered(Still, logs[i][1], logs[k][1])
  <2>1. Ordered(OneAfterTheOther, logs[i][1], logs[k][1])
    BY <1>9 DEF Faithful, ShownIsStored, Ordered
  <2>2. QED BY <1>0, <1>2, <1>3, <2>1 DEF Faithful, ShownIsStored
<1>10. ASSUME NEW c \in Cell, matrix[c] # "none"
       PROVE  shown # Nobody /\ matrix[c] = cells'[shown][c]
  BY <1>0, <1>10, RowsStay DEF Faithful, ShownIsStored
<1>11. QED BY <1>4, <1>5, <1>6, <1>7, <1>8, <1>9, <1>10 DEF Outlives

\* The page is as it was, or it has lost the events on their way.
LEMMA FaithfulFrame ==
    ASSUME Faithful, Outlives, UNCHANGED <<shown, logs, matrix>>,
           stream' \in {stream, << >>}
    PROVE  Faithful'
<1>0. OneAfterTheOther' <=> Still
  BY DEF OneAfterTheOther, Still
<1>1. ViewOK'
  <2>1. << >> \in Seq(Message)
    OBVIOUS
  <2>2. QED BY <2>1 DEF Faithful, ViewOK
<1>2. \A i \in DOMAIN stream' : i \in DOMAIN stream /\ stream'[i] = stream[i]
  OBVIOUS
<1>3. EventsStored'
  BY <1>2 DEF Outlives, EventsStored
<1>4. EventsInOrder'
  BY <1>0, <1>2 DEF Outlives, EventsInOrder, Ordered
<1>5. ShownIsStored'
  BY <1>0 DEF Outlives, ShownIsStored, Ordered
<1>6. QED BY <1>1, <1>3, <1>4, <1>5 DEF Faithful

\* An event joins the ones on their way.
LEMMA AppendKeeps ==
    ASSUME Faithful, Outlives, UNCHANGED <<shown, logs, matrix>>,
           NEW e \in Message, stream' = Append(stream, e), shown # Nobody,
           e[1] = "log" => /\ e[2] \in lines'[shown]
                           /\ \A l \in Row : Shows(l) => Ordered(Still, l[1], e[2][1]),
           e[1] = "cell" => /\ e[2][2] # "none"
                            /\ cells'[shown][e[2][1]] = e[2][2]
    PROVE  Faithful'
<1>0. OneAfterTheOther' <=> Still
  BY DEF OneAfterTheOther, Still
<1>1. stream \in Seq(Message) /\ Len(stream) \in Nat /\ logs \in Seq(Row)
  BY DEF Faithful, ViewOK
<1>2. ViewOK'
  BY <1>1 DEF Faithful, ViewOK
<1>3. /\ DOMAIN stream = 1 .. Len(stream)
      /\ DOMAIN stream' = 1 .. Len(stream) + 1
      /\ \A i \in DOMAIN stream : stream'[i] = stream[i]
      /\ stream'[Len(stream) + 1] = e
  BY <1>1
<1>4. EventsStored'
  <2>1. ASSUME NEW i \in DOMAIN stream'
        PROVE  /\ stream'[i][1] = "log" => shown # Nobody /\ stream'[i][2] \in lines'[shown]
               /\ stream'[i][1] = "cell" =>
                     /\ shown # Nobody
                     /\ stream'[i][2][2] # "none"
                     /\ cells'[shown][stream'[i][2][1]] = stream'[i][2][2]
    <3>1. CASE i \in DOMAIN stream
      BY <1>3, <3>1 DEF Outlives
    <3>2. CASE i = Len(stream) + 1
      BY <1>3, <3>2
    <3>3. QED BY <1>1, <1>3, <3>1, <3>2
  <2>2. QED BY <2>1 DEF EventsStored
<1>5. EventsInOrder'
  <2>1. ASSUME NEW i \in DOMAIN logs, NEW k \in DOMAIN stream', stream'[k][1] = "log"
        PROVE  Ordered(Still, logs[i][1], stream'[k][2][1])
    <3>1. CASE k \in DOMAIN stream
      BY <1>3, <2>1, <3>1 DEF Outlives
    <3>2. CASE k = Len(stream) + 1
      <4>1. Shows(logs[i]) /\ logs[i] \in Row
        BY <1>1 DEF Shows
      <4>2. QED BY <1>3, <2>1, <3>2, <4>1
    <3>3. QED BY <1>1, <1>3, <3>1, <3>2
  <2>2. ASSUME NEW i \in DOMAIN stream', NEW k \in DOMAIN stream', i < k,
               stream'[i][1] = "log", stream'[k][1] = "log"
        PROVE  Ordered(Still, stream'[i][2][1], stream'[k][2][1])
    <3>0. i \in DOMAIN stream
      BY <1>1, <1>3, <2>2
    <3>1. CASE k \in DOMAIN stream
      BY <1>3, <2>2, <3>0, <3>1 DEF Outlives
    <3>2. CASE k = Len(stream) + 1
      <4>1. stream'[i] = stream[i] /\ stream[i] \in Message
        BY <1>1, <1>3, <3>0
      <4>3. Shows(stream[i][2]) /\ stream[i][2] \in Row
        BY <2>2, <3>0, <4>1, EventParts DEF Shows
      <4>2. QED BY <1>3, <2>2, <3>2, <4>1, <4>3
    <3>3. QED BY <1>1, <1>3, <3>1, <3>2
  <2>3. QED BY <1>0, <2>1, <2>2 DEF EventsInOrder, Ordered
<1>6. ShownIsStored'
  BY <1>0 DEF Outlives, ShownIsStored, Ordered
<1>7. QED BY <1>2, <1>4, <1>5, <1>6 DEF Faithful

\* What a handler publishes is stored, is news, and comes after what there was.
LEMMA TellKeeps ==
    ASSUME TypeOK, InOrder, Written, Pending, Faithful, News, [Next]_vars,
           NEW a \in Attempt, Tell(a)
    PROVE  Faithful'
<1>0. /\ a[1] \in Job /\ KTypeOK /\ UNCHANGED <<lines, cells>>
      /\ Outlives
      /\ shown \in Job => \A m, n \in Nat :
            Ordered(OneAfterTheOther, m, n) => Ordered(Still, m, n)
  BY AttemptParts, OldStaysTrue, RowsStay DEF TypeOK, Tell, publish, announce, db
<1>1. ASSUME NEW e, Publish(a[1], e), ~(a[1] = shown /\ page = "live") PROVE Faithful'
  BY <1>0, <1>1, FaithfulFrame DEF Publish
<1>2. ASSUME NEW e \in Message, Publish(a[1], e), a[1] = shown, page = "live",
             e[1] = "log" => /\ e[2] \in lines'[shown]
                             /\ \A l \in Row : Shows(l) => Ordered(Still, l[1], e[2][1]),
             e[1] = "cell" => /\ e[2][2] # "none"
                              /\ cells'[shown][e[2][1]] = e[2][2]
      PROVE  Faithful'
  <2>1. shown # Nobody
    BY <1>0, <1>2, CutsAssumption
  <2>2. stream' = Append(stream, e) /\ UNCHANGED <<shown, logs, matrix>>
    BY <1>2 DEF Publish
  <2>3. QED BY <1>0, <1>2, <2>1, <2>2, AppendKeeps
<1>3. CASE publish(a) /\ Publish(a[1], event[a])
  <2>1. event[a] \in Event /\ event[a] # Silence
    BY <1>0, <1>3 DEF publish, KTypeOK
  <2>2. CASE event[a][1] = "log"
    <3>1. event[a][2] \in Row /\ event[a] = <<"log", event[a][2]>> /\ event[a][2][1] \in Nat
      BY <2>1, <2>2 DEF Event, Row
    <3>2. event[a][2] \in lines[a[1]]
      BY <2>1, <2>2 DEF Pending, EventsAreStored
    <3>3. ASSUME a[1] = shown, NEW l \in Row, Shows(l)
          PROVE  Ordered(Still, l[1], event[a][2][1])
      <4>1. Ordered(OneAfterTheOther, l[1], event[a][2][1])
        BY <2>2, <3>3 DEF News
      <4>2. l[1] \in Nat
        BY DEF Row
      <4>3. QED BY <1>0, <3>1, <3>3, <4>1, <4>2
    <3>4. event[a] \in Message
      <4>1. PICK r \in Row : event[a] = <<"log", r>>
        BY <3>1
      <4>2. QED BY <4>1 DEF Message
    <3>5. QED BY <1>0, <1>1, <1>2, <1>3, <2>2, <3>2, <3>3, <3>4
  <2>3. CASE event[a][1] = "cell"
    <3>1. /\ event[a][2][1] \in Cell /\ event[a][2][2] # "none"
          /\ cells[a[1]][event[a][2][1]] = event[a][2][2]
      BY <2>1, <2>3 DEF Pending, EventsAreStored
    <3>2. event[a] \in Message
      BY <2>1, <2>3, <3>1 DEF Message, Event, CellRow
    <3>3. QED BY <1>0, <1>1, <1>2, <1>3, <2>3, <3>1, <3>2
  <2>4. QED BY <2>1, <2>2, <2>3 DEF Event
<1>4. CASE announce(a) /\ Publish(a[1], <<"finished", << >>>>)
  <2> DEFINE e == <<"finished", << >>>>
  <2>1. e \in Message /\ e[1] = "finished" /\ Publish(a[1], e)
    BY <1>4 DEF Message
  <2> HIDE DEF e
  <2>2. QED BY <1>1, <1>2, <2>1
<1>5. QED BY <1>3, <1>4 DEF Tell

\* The page takes the first event.
LEMMA ReadKeeps ==
    ASSUME TypeOK, Faithful, Outlives, onmessage
    PROVE  Faithful' /\ \A l : Shows(l)' => Shows(l)
<1> DEFINE e == Head(stream)
<1>1. /\ stream \in Seq(Message) /\ Len(stream) \in Nat /\ stream # << >>
      /\ logs \in Seq(Row) /\ Len(logs) \in Nat
      /\ matrix \in [Cell -> Verdict]
      /\ 1 \in DOMAIN stream /\ e = stream[1]
      /\ e \in Message
  BY DEF Faithful, ViewOK, onmessage
<1>2. /\ shown' = shown
      /\ logs' = IF e[1] = "log" THEN Append(logs, e[2]) ELSE logs
      /\ matrix' = IF e[1] = "cell" THEN [matrix EXCEPT ![e[2][1]] = e[2][2]] ELSE matrix
      /\ stream' \in {Tail(stream), << >>}
  BY DEF onmessage
<1>3. /\ e[1] = "log" => e[2] \in Row /\ e[2][1] \in Nat
      /\ e[1] = "cell" => e[2][1] \in Cell /\ e[2][2] \in Verdict
  BY <1>1, EventParts
<1>4. /\ e[1] = "log" => /\ shown # Nobody /\ e[2] \in lines'[shown]
                         /\ \A i \in DOMAIN logs : Ordered(Still, logs[i][1], e[2][1])
                         /\ \A k \in DOMAIN stream : 1 < k /\ stream[k][1] = "log" =>
                               Ordered(Still, e[2][1], stream[k][2][1])
      /\ e[1] = "cell" => /\ shown # Nobody /\ e[2][2] # "none"
                          /\ cells'[shown][e[2][1]] = e[2][2]
  BY <1>1 DEF Outlives
<1>5. /\ stream' \in Seq(Message)
      /\ \A i \in DOMAIN stream' : /\ i \in Nat /\ 1 < i + 1
                                   /\ i + 1 \in DOMAIN stream
                                   /\ stream'[i] = stream[i + 1]
  <2>1. CASE stream' = << >>
    BY <2>1
  <2>2. CASE stream' = Tail(stream)
    BY <1>1, <2>2
  <2>3. QED BY <1>2, <2>1, <2>2
<1> HIDE DEF e
<1>0. OneAfterTheOther' <=> Still
  BY <1>2 DEF OneAfterTheOther, Still
<1>6. /\ logs' \in Seq(Row)
      /\ \A i \in DOMAIN logs' :
            \/ i \in DOMAIN logs /\ logs'[i] = logs[i]
            \/ i = Len(logs) + 1 /\ e[1] = "log" /\ logs'[i] = e[2]
  <2>1. CASE e[1] = "log"
    <3>1. logs' = Append(logs, e[2]) /\ e[2] \in Row
      BY <1>2, <1>3, <2>1
    <3>2. ASSUME NEW r \in Row
          PROVE  /\ Append(logs, r) \in Seq(Row)
                 /\ \A i \in DOMAIN Append(logs, r) :
                       \/ i \in DOMAIN logs /\ Append(logs, r)[i] = logs[i]
                       \/ i = Len(logs) + 1 /\ Append(logs, r)[i] = r
      BY <1>1
    <3>3. QED BY <2>1, <3>1, <3>2
  <2>2. CASE e[1] # "log"
    BY <1>1, <1>2, <2>2
  <2>3. QED BY <2>1, <2>2
<1>7. /\ matrix' \in [Cell -> Verdict]
      /\ \A c \in Cell : \/ matrix'[c] = matrix[c]
                         \/ e[1] = "cell" /\ c = e[2][1] /\ matrix'[c] = e[2][2]
  BY <1>1, <1>2, <1>3
<1>8. ViewOK'
  BY <1>2, <1>5, <1>6, <1>7 DEF Faithful, ViewOK
<1>9. EventsStored'
  BY <1>2, <1>5 DEF Outlives, EventsStored
<1>10. EventsInOrder'
  <2>1. ASSUME NEW i \in DOMAIN logs', NEW k \in DOMAIN stream', stream'[k][1] = "log"
        PROVE  Ordered(Still, logs'[i][1], stream'[k][2][1])
    <3>1. k + 1 \in DOMAIN stream /\ 1 < k + 1 /\ stream'[k] = stream[k + 1]
      BY <1>5
    <3>2. CASE i \in DOMAIN logs /\ logs'[i] = logs[i]
      BY <2>1, <3>1, <3>2 DEF Outlives
    <3>3. CASE e[1] = "log" /\ logs'[i] = e[2]
      BY <1>4, <2>1, <3>1, <3>3
    <3>4. QED BY <1>6, <3>2, <3>3
  <2>2. ASSUME NEW i \in DOMAIN stream', NEW k \in DOMAIN stream', i < k,
               stream'[i][1] = "log", stream'[k][1] = "log"
        PROVE  Ordered(Still, stream'[i][2][1], stream'[k][2][1])
    <3>1. /\ i + 1 \in DOMAIN stream /\ stream'[i] = stream[i + 1]
          /\ k + 1 \in DOMAIN stream /\ stream'[k] = stream[k + 1]
          /\ i + 1 < k + 1
      BY <1>5, <2>2
    <3>2. QED BY <2>2, <3>1 DEF Outlives
  <2>3. QED BY <1>0, <2>1, <2>2 DEF EventsInOrder, Ordered
<1>11. ShownIsStored'
  <2>1. ASSUME NEW i \in DOMAIN logs' PROVE shown # Nobody /\ logs'[i] \in lines'[shown]
    BY <1>4, <1>6 DEF Outlives
  <2>2. ASSUME NEW i \in DOMAIN logs', NEW k \in DOMAIN logs', i < k
        PROVE  Ordered(Still, logs'[i][1], logs'[k][1])
    <3>1. i \in DOMAIN logs /\ logs'[i] = logs[i]
      BY <1>1, <1>6, <2>2
    <3>2. CASE k \in DOMAIN logs /\ logs'[k] = logs[k]
      BY <2>2, <3>1, <3>2 DEF Outlives
    <3>3. CASE e[1] = "log" /\ logs'[k] = e[2]
      BY <1>4, <3>1, <3>3
    <3>4. QED BY <1>6, <3>2, <3>3
  <2>3. ASSUME NEW c \in Cell, matrix'[c] # "none"
        PROVE  shown # Nobody /\ matrix'[c] = cells'[shown][c]
    BY <1>4, <1>7, <2>3 DEF Outlives
  <2>4. QED BY <1>0, <1>2, <2>1, <2>2, <2>3 DEF ShownIsStored, Ordered
<1>12. ASSUME NEW l, Shows(l)' PROVE Shows(l)
  BY <1>1, <1>5, <1>6, <1>12 DEF Shows
<1>13. QED BY <1>8, <1>9, <1>10, <1>11, <1>12 DEF Faithful

\* Two handlers of the run on the page have no events at once while they come
\* one after the other.
LEMMA OneAtATime ==
    ASSUME TypeOK, DeliveredInOrder, OneAttemptAtATime, Pending, OneAfterTheOther,
           NEW a \in Attempt, NEW b \in Attempt, a[1] = shown, b[1] = shown,
           event[a] # Silence, event[b] # Silence
    PROVE  a = b
<1>1. pc[a] \in {"run", "ack"} /\ pc[b] \in {"run", "ack"} /\ QTypeOK
  BY DEF Pending, TypeOK
<1>2. CASE ~Overrun
  <2>1. PICK j \in Job, m \in 1 .. MaxDeliveries, n \in 1 .. MaxDeliveries :
           a = <<j, m>> /\ b = <<j, n>>
    BY DEF Attempt
  <2>2. Live(<<j, m>>) /\ Live(<<j, n>>)
    BY <1>1, <2>1 DEF Live
  <2>3. QED BY <1>2, <2>1, <2>2 DEF OneAttemptAtATime
<1>3. CASE deliv[shown] <= 1
  BY <1>1, <1>3, OnlyAttempt
<1>4. QED BY <1>2, <1>3 DEF OneAfterTheOther

\* News while the page hears of no other line.
LEMMA NewsFrame ==
    ASSUME TypeOK, InOrder, Numbered, Written, Pending, Faithful, News, [Next]_vars,
           shown' = shown, \A l \in Row : Shows(l)' => Shows(l)
    PROVE  News'
<1>0. OneAfterTheOther' <=> Still
  BY DEF OneAfterTheOther, Still
<1> SUFFICES ASSUME NEW a \in Attempt, NEW l \in Row, a[1] = shown,
                    event'[a][1] = "log", Shows(l)
             PROVE  Ordered(Still, l[1], event'[a][2][1])
  BY <1>0 DEF News, Ordered
<1>1. shown \in Job /\ l[1] \in Nat /\ l \in lines[shown] /\ l[1] \in Numbers(shown)
  <2>1. shown \in Job /\ l[1] \in Nat
    BY AttemptParts DEF Row
  <2>2. l \in lines[shown]
    BY DEF Shows, Faithful, ShownIsStored, EventsStored
  <2>3. QED BY <2>1, <2>2 DEF Numbers
<1>2. Still => OneAfterTheOther /\ faults = 0
  BY <1>1, RowsStay DEF OneAfterTheOther
<1>3. event'[a] # Silence
  BY DEF Silence
<1>4. CASE event'[a] = event[a]
  <2>1. Ordered(OneAfterTheOther, l[1], event[a][2][1])
    BY <1>4 DEF News
  <2>2. event[a][2][1] \in Nat
    <3>1. event[a] \in Event
      BY <1>3, <1>4 DEF TypeOK, KTypeOK
    <3>2. QED BY <1>4, <3>1 DEF Event
  <2>3. QED BY <1>1, <1>2, <1>4, <2>1, <2>2 DEF Ordered
<1>5. CASE event'[a] # event[a]
  <2>1. HandlerStep(a)
    BY <1>3, <1>5, EventsStay DEF TypeOK
  <2>2. /\ console_log(a) /\ event'[a] = <<"log", Line(a)>>
        /\ Number(a) \notin Numbers(a[1])
    BY <1>3, <1>5, <2>1, OwnEvent DEF TypeOK
  <2>3. event'[a][2][1] = Number(a)
    BY <2>2 DEF Line
  <2>4. CASE Still
    <3>1. ~Taken(a) /\ seq[a] \in Nat
      BY <2>2 DEF Taken, TypeOK, KTypeOK
    <3>2. l[1] < seq[a] + 1
      BY <1>1, <1>2, <2>4, <3>1, FreeIsAbove DEF TypeOK
    <3>3. QED BY <2>3, <2>4, <3>2 DEF Ordered, Number
  <2>5. CASE ~Still
    BY <1>1, <2>2, <2>3, <2>5 DEF Ordered
  <2>6. QED BY <2>4, <2>5
<1>6. QED BY <1>4, <1>5

\* News when a handler publishes.
LEMMA TellNews ==
    ASSUME TypeOK, InOrder, DeliveredInOrder, OneAttemptAtATime, Numbered, Written, Pending,
           Faithful, News, [Next]_vars, NEW b \in Attempt, Tell(b)
    PROVE  News'
<1>0. shown' = shown /\ logs' = logs /\ b[1] \in Job /\ HandlerStep(b) /\ KTypeOK
  BY AttemptParts DEF Tell, Publish, HandlerStep, TypeOK
<1>1. stream \in Seq(Message)
  BY DEF Faithful, ViewOK
<1>2. ASSUME NEW e, Publish(b[1], e), NEW l, Shows(l)', ~Shows(l)
      PROVE  e[1] = "log" /\ e[2] = l /\ b[1] = shown
  <2>1. b[1] = shown /\ stream' = Append(stream, e)
    BY <1>2 DEF Publish, Shows
  <2>2. \A i \in DOMAIN stream' : \/ i \in DOMAIN stream /\ stream'[i] = stream[i]
                                  \/ stream'[i] = e
    BY <1>1, <2>1
  <2>3. QED BY <1>0, <1>2, <2>1, <2>2 DEF Shows
<1>3. CASE announce(b) /\ Publish(b[1], <<"finished", << >>>>)
  <2>1. \A l \in Row : Shows(l)' => Shows(l)
    BY <1>2, <1>3
  <2>2. QED BY <1>0, <2>1, NewsFrame
<1>4. CASE publish(b) /\ Publish(b[1], event[b])
  <2>0. OneAfterTheOther' <=> Still
    BY <1>0 DEF OneAfterTheOther, Still
  <2>1. CASE \A l \in Row : Shows(l)' => Shows(l)
    BY <1>0, <2>1, NewsFrame
  <2>2. ASSUME NEW a \in Attempt, NEW l \in Row, a[1] = shown,
               event'[a][1] = "log", Shows(l)'
        PROVE  Ordered(Still, l[1], event'[a][2][1])
    <3>0. event'[b] = Silence /\ event[b] # Silence /\ event'[b][1] = "none"
      BY <1>0, <1>4 DEF publish, KTypeOK, Silence
    <3>1. a # b /\ event'[a] = event[a] /\ event[a] # Silence
      <4>1. a # b
        BY <2>2, <3>0
      <4>2. event'[a] = event[a]
        BY <1>0, <4>1, OthersStay
      <4>3. QED BY <2>2, <4>1, <4>2 DEF Silence
    <3>2. shown \in Job /\ l[1] \in Nat /\ event[a][2][1] \in Nat
      <4>1. event[a] \in Event
        BY <1>0, <3>1 DEF KTypeOK
      <4>2. QED BY <2>2, <3>1, <4>1, AttemptParts DEF Event, Row
    <3>3. Still => OneAfterTheOther
      BY <3>2, RowsStay
    <3>4. CASE Shows(l)
      BY <2>2, <3>1, <3>2, <3>3, <3>4 DEF News, Ordered
    <3>5. CASE ~Shows(l)
      <4>1. event[b][1] = "log" /\ event[b][2] = l /\ b[1] = shown
        BY <1>2, <1>4, <2>2, <3>5
      <4>2. ~OneAfterTheOther
        BY <2>2, <3>0, <3>1, <4>1, OneAtATime
      <4>3. event[a][2][1] # l[1]
        BY <2>2, <3>1, <4>1 DEF Pending
      <4>4. QED BY <3>1, <3>3, <4>2, <4>3 DEF Ordered
    <3>6. QED BY <3>4, <3>5
  <2>3. QED BY <1>0, <2>0, <2>2 DEF News, Ordered
<1>5. QED BY <1>3, <1>4 DEF Tell

\* A cleared page shows nothing.
LEMMA ClearKeeps ==
    ASSUME NEW p, NEW j \in Job \cup {Nobody}, Clear(p, j)
    PROVE  Faithful' /\ News'
<1>1. << >> \in Seq(Message) /\ << >> \in Seq(Row)
  OBVIOUS
<1>2. ViewOK'
  BY <1>1 DEF Clear, ViewOK, NoCells, Verdict
<1>3. EventsStored' /\ EventsInOrder' /\ News'
  BY DEF Clear, EventsStored, EventsInOrder, News, Shows
<1>4. ShownIsStored'
  BY DEF Clear, ShownIsStored, NoCells
<1>5. QED BY <1>2, <1>3, <1>4 DEF Faithful

\* Faithful and News are inductive together.
LEMMA FaithfulStep ==
    ASSUME TypeOK, InOrder, DeliveredInOrder, OneAttemptAtATime, Numbered, Written, Pending,
           Faithful, News, [LNext]_lvars
    PROVE  Faithful' /\ News'
<1>0. [Next]_vars /\ Outlives
  BY StepOfRun, OldStaysTrue
<1>1. ASSUME UNCHANGED <<shown, logs, matrix>>, stream' \in {stream, << >>}
      PROVE  Faithful' /\ News'
  <2>1. \A l \in Row : Shows(l)' => Shows(l)
    BY <1>1 DEF Shows
  <2>2. QED BY <1>0, <1>1, <2>1, FaithfulFrame, NewsFrame
<1>2. ASSUME NEW j \in Job, run(j) PROVE Faithful' /\ News'
  BY <1>2, ClearKeeps DEF run
<1>3. CASE run_refused \/ unmount
  BY <1>3, ClearKeeps DEF run_refused, unmount
<1>4. CASE onmessage
  <2>1. Faithful' /\ \A l : Shows(l)' => Shows(l)
    BY <1>0, <1>4, ReadKeeps
  <2>2. shown' = shown
    BY <1>4 DEF onmessage
  <2>3. QED BY <1>0, <2>1, <2>2, NewsFrame
<1>5. CASE reply_lost \/ created \/ subscribe \/ onerror
  BY <1>1, <1>5 DEF reply_lost, created, subscribe, onerror
<1>6. ASSUME NEW a \in Attempt, Tell(a) PROVE Faithful' /\ News'
  BY <1>0, <1>6, TellKeeps, TellNews
<1>7. ASSUME NEW j \in Job, ApiErr(j) PROVE Faithful' /\ News'
  BY <1>1, <1>7 DEF ApiErr
<1>8. CASE UNCHANGED view
  BY <1>1, <1>8 DEF view
<1>9. CASE UNCHANGED lvars
  BY <1>8, <1>9 DEF lvars
<1>10. QED
  BY <1>2, <1>3, <1>4, <1>5, <1>6, <1>7, <1>8, <1>9 DEF LNext, Page, System

\* Faithful is an invariant.
LEMMA FaithfulInvariant == LSpec => []Faithful
<1>1. LInit => Faithful /\ News
  <2> SUFFICES ASSUME LInit PROVE Faithful /\ News
    OBVIOUS
  <2>1. << >> \in Seq(Message) /\ << >> \in Seq(Row)
    OBVIOUS
  <2>2. ViewOK
    BY <2>1 DEF LInit, ViewOK, NoCells, Verdict
  <2>3. EventsStored /\ EventsInOrder /\ ShownIsStored /\ News
    BY DEF LInit, EventsStored, EventsInOrder, ShownIsStored, NoCells, News, Shows
  <2>4. QED BY <2>2, <2>3 DEF Faithful
<1>2. /\ TypeOK /\ InOrder /\ DeliveredInOrder /\ OneAttemptAtATime /\ Numbered /\ Written
      /\ Pending /\ Faithful /\ News /\ [LNext]_lvars
      => Faithful' /\ News'
  BY FaithfulStep
<1>3. QED
  BY <1>1, <1>2, ImplementsRun, ImplementsQueue, TypeCorrect, DeliveredInvariant,
     OneAttemptCorrect, NumberedInvariant, WrittenInvariant, PendingInvariant, PTL
     DEF LSpec

\* The page never shows what a later reader of the run would not find, however
\* many handlers the run has and however their publishes cross.
THEOREM ShownIsStoredCorrect == LSpec => []ShownIsStored
<1>1. Faithful => ShownIsStored
  BY DEF Faithful
<1>2. QED BY <1>1, FaithfulInvariant, PTL

-----------------------------------------------------------------------------
(***************************************************************************)
(* A page that was subscribed in time shows all of a run handled once.     *)
(***************************************************************************)

\* A run the API has not inserted has no job and nothing in its console.
Untouched ==
    \A j \in Job :
        /\ j \in Enqueued \/ j \in outbox => status[j] # "none"
        /\ status[j] = "none" => lines[j] = {} /\ \A c \in Cell : cells[j][c] = "none"

\* A handler that is alone announces the end of a run that has ended.
Closing == \A a \in Attempt : at[a] = "announce" /\ deliv[a[1]] <= 1 => Ended(a[1])

\* The run was handled once, and nobody writes to it any more.
Handled(j) ==
    /\ Ended(j)
    /\ deliv[j] = 1
    /\ \A a \in Attempt : a[1] = j =>
          /\ pc[a] # "batch"
          /\ pc[a] \in {"run", "ack"} => at[a] = "return"
          /\ event[a] = Silence

\* So it is with every run whose end has been published.
ToldHandled == faults = 0 => \A j \in told : deliv[j] <= 1 => Handled(j)

\* The page waits for a run, follows it or has seen its end.
Attentive == page \in {"posting", "connecting", "live", "done"}

Tuned ==
    /\ page # "live" => stream = << >>
    /\ Attentive => shown \in Job

\* Every stored line and every stored cell is on the page, on its way or the next
\* thing its handler publishes, and the Finished event comes last.
LinesTold ==
    \A l \in lines[shown] :
        \/ Shows(l)
        \/ \E a \in Attempt : a[1] = shown /\ event[a][1] = "log" /\ event[a][2] = l
CellsTold ==
    \A c \in Cell : cells[shown][c] # "none" =>
        \/ matrix[c] # "none"
        \/ \E i \in DOMAIN stream : stream[i][1] = "cell" /\ stream[i][2][1] = c
        \/ \E a \in Attempt : a[1] = shown /\ event[a][1] = "cell" /\ event[a][2][1] = c
EndTold ==
    /\ page = "done" => shown \in told
    /\ \A i \in DOMAIN stream : stream[i][1] = "finished" => i = Len(stream) /\ shown \in told

\* The worker has died with the run, and perhaps with an event.
Lost == /\ shown \notin told
        /\ \E a \in Attempt : a[1] = shown /\ pc[a] = "over"

InTime == Attentive /\ missed = {} /\ deliv[shown] <= 1 /\ faults = 0

AllTold == InTime => EndTold /\ (Lost \/ (LinesTold /\ CellsTold))

\* Untouched is inductive.
LEMMA UntouchedStep ==
    ASSUME QTypeOK, KTypeOK, InOrder, Untouched, [Next]_vars
    PROVE  Untouched'
<1>1. ASSUME UNCHANGED <<lines, cells>>,
             \A j \in Job : status'[j] = "none" => status[j] = "none",
             \A j \in Job : j \in Enqueued' \/ j \in outbox' =>
                               j \in Enqueued \/ j \in outbox \/ status'[j] # "none"
      PROVE  Untouched'
  BY <1>1 DEF Untouched
<1>2. ASSUME log' = log PROVE Enqueued' = Enqueued
  BY <1>2 DEF Enqueued
<1>3. ASSUME NEW k \in Job, create_run(k) PROVE Untouched'
  <2>1. /\ UNCHANGED <<lines, cells>> /\ log' = log /\ outbox' = outbox \cup {k}
        /\ status'[k] = "pending" /\ \A j \in Job : j # k => status'[j] = status[j]
    BY <1>3 DEF create_run, qvars, KTypeOK
  <2>2. QED BY <1>1, <1>2, <2>1
<1>4. ASSUME NEW k \in Job, enqueue_kem(k) PROVE Untouched'
  <2>1. Enqueued' = Enqueued \cup {k} /\ k \in outbox /\ outbox' \subseteq outbox
    BY <1>4, EnqueueAdds DEF enqueue_kem
  <2>2. UNCHANGED <<status, lines, cells>>
    BY <1>4 DEF enqueue_kem
  <2>3. QED BY <1>1, <2>1, <2>2
<1>5. ASSUME NEW k \in Job, ApiFails(k) PROVE Untouched'
  <2>1. UNCHANGED <<status, lines, cells>> /\ log' = log /\ outbox' \subseteq outbox
    BY <1>5 DEF ApiFails, qvars
  <2>2. QED BY <1>1, <1>2, <2>1
<1>6. ASSUME NEW a \in Attempt, HandlerStep(a) \/ HandlerFault(a) PROVE Untouched'
  <2>0. a[1] \in Job /\ pc[a] = "run"
    BY <1>6, RunFrame, AttemptParts
  <2>1. status[a[1]] # "none"
    BY <2>0 DEF Untouched, InOrder
  <2>2. status'[a[1]] # "none"
    BY <1>6, <2>0, <2>1 DEF HandlerStep, HandlerFault, start, console_log, log_conflict,
       log_fails, capabilities_err, console_cell, cell_fails, publish, publish_fails, finish,
       announce, HandleEnds, HandleErr, kvars, db, KTypeOK
  <2>3. /\ Enqueued' = Enqueued /\ outbox' = outbox
        /\ \A j \in Job : j # a[1] =>
              lines'[j] = lines[j] /\ cells'[j] = cells[j] /\ status'[j] = status[j]
    BY <1>2, <1>6, RunFrame
  <2>4. QED BY <2>2, <2>3 DEF Untouched
<1>7. CASE QueueStep
  <2>1. UNCHANGED <<status, outbox, lines, cells>>
    BY <1>7 DEF QueueStep, Elsewhere, db
  <2>2. log' = log
    BY <1>7 DEF QueueStep, WorkerStep, StartWorker, Read, Autoclaim, Spawn, Shutdown, Exit,
       Crash, Ack, AckFails
  <2>3. QED BY <1>1, <1>2, <2>1, <2>2
<1>8. CASE UNCHANGED vars
  BY <1>1, <1>2, <1>8 DEF vars, qvars, kvars, db
<1>9. QED BY <1>3, <1>4, <1>5, <1>6, <1>7, <1>8 DEF Next, ApiStep

\* Closing is inductive.
LEMMA ClosingStep ==
    ASSUME QTypeOK, KTypeOK, InOrder, DeliveredInOrder, Engaged, Closing, [Next]_vars
    PROVE  Closing'
<1>0. \A j \in Job : deliv[j] \in Nat /\ deliv'[j] \in Nat /\ deliv[j] <= deliv'[j]
  BY StepOfQueue, DeliveriesGrow
<1>1. ASSUME NEW a \in Attempt, at'[a] = "announce" => at[a] = "announce",
             status[a[1]] \in {"finished", "failed"} => status'[a[1]] \in {"finished", "failed"}
      PROVE  (at[a] = "announce" /\ deliv[a[1]] <= 1 => Ended(a[1]))'
  <2>1. a[1] \in Job
    BY AttemptParts
  <2>2. deliv'[a[1]] <= 1 => deliv[a[1]] <= 1
    BY <1>0, <2>1
  <2>3. QED BY <1>1, <2>2 DEF Closing, Ended
<1>2. ASSUME NEW a \in Attempt, HandlerStep(a) \/ HandlerFault(a),
             NEW b \in Attempt, at'[b] = "announce", deliv'[b[1]] <= 1
      PROVE  Ended(b[1])'
  <2>0. /\ a[1] \in Job /\ b[1] \in Job /\ pc[a] = "run" /\ deliv' = deliv
        /\ b # a => at'[b] = at[b] /\ pc'[b] = pc[b]
    BY <1>2, RunFrame, AttemptParts
  <2>1. CASE b[1] # a[1]
    <3>1. status'[b[1]] = status[b[1]] /\ at[b] = "announce"
      BY <1>2, <2>0, <2>1, RunFrame
    <3>2. QED BY <1>2, <2>0, <3>1 DEF Closing, Ended
  <2>2. CASE b[1] = a[1] /\ b # a
    <3>1. at[b] = "announce"
      BY <1>2, <2>0, <2>2
    <3>2. pc[b] # "none"
      BY <3>1 DEF Engaged
    <3>3. QED BY <1>2, <2>0, <2>2, <3>2, OnlyAttempt
  <2>3. CASE b = a
    <3>1. ASSUME NEW c, NEW n, GoTo(a, c, n) PROVE at'[a] = c
      BY <3>1 DEF GoTo, KTypeOK
    <3>2. CASE finish(a)
      BY <2>0, <2>3, <3>2 DEF finish, Ended, KTypeOK
    <3>3. CASE console_log(a)
      <4>1. PICK d \in After(a) : GoTo(a, d[1], d[2])
        BY <3>3 DEF console_log
      <4>2. /\ \A n : Printing(n)[1] # "announce"
            /\ \A c : NextCell(c)[1] # "announce"
        BY DEF Printing, NextCell
      <4>3. d[1] # "announce"
        BY <3>3, <4>1, <4>2 DEF console_log, In, After, BodyLog
      <4>4. QED BY <1>2, <2>3, <3>1, <4>1, <4>3
    <3>4. CASE console_cell(a)
      <4>1. \E c \in {"cell_line", NextCell(left[a])[1]} : \E n : GoTo(a, c, n)
        BY <3>4 DEF console_cell
      <4>2. QED BY <1>2, <2>3, <3>1, <4>1 DEF NextCell
    <3>5. CASE start(a) \/ log_conflict(a) \/ log_fails(a) \/ capabilities_err(a)
               \/ cell_fails(a) \/ publish_fails(a) \/ announce(a)
      BY <1>2, <2>3, <3>1, <3>5 DEF start, log_conflict, log_fails, capabilities_err,
         cell_fails, publish_fails, announce
    <3>6. CASE HandleEnds(a) \/ HandleErr(a) \/ publish(a)
      BY <1>2, <2>0, <2>3, <3>6 DEF HandleEnds, HandleErr, publish, kvars, db, local, Closing,
         Ended
    <3>7. QED BY <1>2, <3>2, <3>3, <3>4, <3>5, <3>6 DEF HandlerStep, HandlerFault
  <2>4. QED BY <2>1, <2>2, <2>3
<1>3. CASE ApiStep \/ QueueStep \/ UNCHANGED vars
  <2>1. ASSUME NEW a \in Attempt PROVE at'[a] = "announce" => at[a] = "announce"
    BY <1>3 DEF ApiStep, create_run, enqueue_kem, ApiFails, QueueStep, Elsewhere, vars, kvars,
       local
  <2>2. ASSUME NEW j \in Job, status[j] \in {"finished", "failed"} PROVE status'[j] = status[j]
    BY <1>3, <2>2 DEF ApiStep, create_run, enqueue_kem, ApiFails, QueueStep, Elsewhere, vars,
       kvars, db, KTypeOK
  <2>3. QED BY <1>1, <2>1, <2>2, AttemptParts DEF Closing
<1>4. QED BY <1>2, <1>3 DEF Next, Closing

\* A run that is handled stays as it is, unless it is delivered again.
LEMMA HandledStep ==
    ASSUME QTypeOK, KTypeOK, InOrder, DeliveredInOrder, [Next]_vars, faults' = 0,
           NEW j \in Job, Handled(j), deliv'[j] <= 1
    PROVE  /\ Handled(j)'
           /\ lines'[j] = lines[j] /\ cells'[j] = cells[j]
           /\ \A a \in Attempt : a[1] = j => ~Tell(a)
<1>0. deliv'[j] = 1 /\ deliv[j] = 1
  <2>1. deliv[j] = 1 /\ deliv'[j] \in Nat /\ deliv[j] <= deliv'[j]
    BY StepOfQueue, DeliveriesGrow DEF Handled
  <2>2. QED BY <2>1
<1>1. ASSUME NEW a \in Attempt, a[1] = j, HandlerStep(a) PROVE HandleEnds(a)
  <2>1. at[a] = "return" /\ event[a] = Silence
    BY <1>1, RunFrame DEF Handled
  <2>2. QED
    BY <1>1, <2>1 DEF HandlerStep, start, console_log, log_conflict, capabilities_err,
       console_cell, publish, finish, announce, In, BodyLog
<1>2. ASSUME NEW a \in Attempt, a[1] = j PROVE ~Tell(a)
  <2>1. ASSUME Tell(a) PROVE FALSE
    <3>1. at[a] = "return" /\ event[a] = Silence
      BY <1>2, <2>1, RunFrame DEF Tell, HandlerStep, Handled
    <3>2. QED BY <2>1, <3>1 DEF Tell, publish, announce, In
  <2>2. QED BY <2>1
<1>3. ASSUME NEW a \in Attempt, HandlerStep(a)
      PROVE  Handled(j)' /\ lines'[j] = lines[j] /\ cells'[j] = cells[j]
  <2>1. CASE a[1] # j
    <3>1. \A b \in Attempt : b[1] = j =>
             pc'[b] = pc[b] /\ at'[b] = at[b] /\ event'[b] = event[b]
      BY <1>3, <2>1, RunFrame, OthersStay
    <3>2. status'[j] = status[j] /\ lines'[j] = lines[j] /\ cells'[j] = cells[j]
      BY <1>3, <2>1, RunFrame
    <3>3. QED BY <1>0, <3>1, <3>2 DEF Handled, Ended
  <2>2. CASE a[1] = j
    <3>1. HandleEnds(a) /\ at[a] = "return"
      BY <1>1, <1>3, <2>2, RunFrame DEF Handled
    <3>2. UNCHANGED <<status, lines, cells, at, event>>
      BY <3>1 DEF HandleEnds, kvars, db, local
    <3>3. /\ pc'[a] \in {"run", "ack"}
          /\ \A b \in Attempt : b # a => pc'[b] = pc[b]
      BY <1>3, RunFrame
    <3>4. QED BY <1>0, <3>1, <3>2, <3>3 DEF Handled, Ended
  <2>3. QED BY <2>1, <2>2
<1>4. ASSUME NEW a \in Attempt, HandlerFault(a) PROVE FALSE
  BY <1>4, FaultsGrow
<1>5. CASE QueueStep
  <2>1. UNCHANGED <<status, lines, cells>> /\
        \A a \in Attempt : /\ pc'[a] # "over" => at'[a] = at[a]
                           /\ event'[a] \in {event[a], Silence}
    BY <1>5 DEF QueueStep, Elsewhere, db
  <2>2. ASSUME NEW a \in Attempt, a[1] = j
        PROVE  pc'[a] # "batch" /\ (pc'[a] \in {"run", "ack"} => pc[a] \in {"run", "ack"})
    <3>0. pc[a] # "batch" /\ pc[a] \in Phase
      BY <2>2 DEF Handled, QTypeOK
    <3>1. CASE \A w \in Worker : ~Read(w) /\ ~Autoclaim(w)
      <4>1. pc'[a] # pc[a] => pc[a] # "none" /\ (Live(a)' => Live(a))
        BY <3>1, StepOfQueue, QuietStep
      <4>2. pc[a] \in {"run", "ack"} => pc'[a] # "batch"
        BY StepOfQueue, TaskStep
      <4>3. QED BY <3>0, <4>1, <4>2 DEF Live, Phase
    <3>2. ASSUME NEW w \in Worker, Read(w) \/ Autoclaim(w) PROVE pc'[a] = pc[a]
      <4>1. PICK D \in SUBSET Job : Receive(D, w)
        BY <3>2 DEF Read, Autoclaim, NewEntries, QTypeOK
      <4>2. j \notin D
        <5>1. deliv'[j] = IF j \in D THEN deliv[j] + 1 ELSE deliv[j]
          BY <4>1, DeliverEffect
        <5>2. QED BY <1>0, <5>1
      <4>3. PICK n \in 1 .. MaxDeliveries : a = <<j, n>>
        BY <2>2 DEF Attempt
      <4>4. pc'[<<j, n>>] = pc[<<j, n>>]
        BY <4>1, <4>2, DeliverEffect
      <4>5. QED BY <4>3, <4>4
    <3>3. QED BY <3>0, <3>1, <3>2
  <2>3. \A a \in Attempt : a[1] = j =>
           /\ pc'[a] # "batch"
           /\ pc'[a] \in {"run", "ack"} => at'[a] = "return"
           /\ event'[a] = Silence
    <3> SUFFICES ASSUME NEW a \in Attempt, a[1] = j
                 PROVE  /\ pc'[a] # "batch"
                        /\ pc'[a] \in {"run", "ack"} => at'[a] = "return"
                        /\ event'[a] = Silence
      OBVIOUS
    <3>1. event[a] = Silence /\ (pc[a] \in {"run", "ack"} => at[a] = "return")
      BY DEF Handled
    <3>2. /\ pc'[a] # "over" => at'[a] = at[a]
          /\ event'[a] \in {event[a], Silence}
      BY <2>1
    <3>3. pc'[a] # "batch" /\ (pc'[a] \in {"run", "ack"} => pc[a] \in {"run", "ack"})
      BY <2>2
    <3>4. event'[a] = Silence
      BY <3>1, <3>2
    <3>5. QED BY <3>1, <3>2, <3>3, <3>4
  <2>4. QED BY <1>0, <1>2, <2>1, <2>3 DEF Handled, Ended
<1>6. CASE ApiStep \/ UNCHANGED vars
  <2>1. UNCHANGED <<lines, cells, at, pc, event>>
    BY <1>6 DEF ApiStep, create_run, enqueue_kem, ApiFails, Enqueue, qvars, vars, kvars, db,
       local
  <2>2. status'[j] = status[j]
    BY <1>6 DEF ApiStep, create_run, enqueue_kem, ApiFails, vars, kvars, db, Handled, Ended,
       KTypeOK
  <2>3. QED BY <1>0, <1>2, <2>1, <2>2 DEF Handled, Ended
<1>7. QED BY <1>2, <1>3, <1>4, <1>5, <1>6 DEF Next

\* The Finished event of a run handled once is the last that is heard of it.
LEMMA AnnouncedIsHandled ==
    ASSUME QTypeOK, KTypeOK, DeliveredInOrder, Pending, Closing, [Next]_vars,
           NEW a \in Attempt, announce(a), deliv[a[1]] <= 1
    PROVE  Handled(a[1])'
<1>0. pc[a] = "run" /\ at[a] = "announce" /\ a[1] \in Job /\ event[a] = Silence
  BY AttemptParts DEF announce, In
<1>1. /\ UNCHANGED <<status, pc, deliv, event>> /\ at'[a] = "return"
  BY DEF announce, GoTo, qvars, db, KTypeOK
<1>2. Ended(a[1])'
  BY <1>0, <1>1 DEF Closing, Ended
<1>3. \A b \in Attempt : b[1] = a[1] /\ pc[b] # "none" => b = a /\ deliv[a[1]] = 1
  BY <1>0, OnlyAttempt
<1>4. deliv'[a[1]] = 1
  BY <1>0, <1>1, <1>3
<1>5. \A b \in Attempt : b[1] = a[1] => event[b] = Silence
  BY <1>0, <1>3 DEF Pending
<1>6. QED BY <1>0, <1>1, <1>2, <1>3, <1>4, <1>5 DEF Handled

\* Only the end of a run is told of it.
LEMMA ToldGrows ==
    ASSUME [Next]_vars
    PROVE  \/ told' = told
           \/ \E a \in Attempt : announce(a) /\ told' = told \cup {a[1]}
BY DEF Next, ApiStep, create_run, enqueue_kem, ApiFails, HandlerStep, HandlerFault, start,
   console_log, log_conflict, log_fails, capabilities_err, console_cell, cell_fails, publish,
   publish_fails, finish, announce, HandleEnds, HandleErr, QueueStep, Elsewhere, vars, kvars

\* ToldHandled is inductive.
LEMMA ToldHandledStep ==
    ASSUME QTypeOK, KTypeOK, InOrder, DeliveredInOrder, Pending, Closing, ToldHandled,
           [Next]_vars
    PROVE  ToldHandled'
<1> SUFFICES ASSUME faults' = 0, NEW j \in told', deliv'[j] <= 1 PROVE Handled(j)'
  BY DEF ToldHandled
<1>0. faults = 0
  BY FaultsGrow
<1>1. CASE j \in told
  <2>1. j \in Job /\ deliv[j] <= 1
    <3>1. j \in Job
      BY <1>1 DEF KTypeOK
    <3>2. deliv[j] \in Nat /\ deliv'[j] \in Nat /\ deliv[j] <= deliv'[j]
      BY <3>1, StepOfQueue, DeliveriesGrow
    <3>3. QED BY <3>1, <3>2
  <2>2. QED BY <1>0, <1>1, <2>1, HandledStep DEF ToldHandled
<1>2. CASE j \notin told
  <2>1. PICK a \in Attempt : announce(a) /\ a[1] = j
    BY <1>2, ToldGrows
  <2>2. deliv' = deliv
    BY <2>1 DEF announce, qvars
  <2>3. Handled(a[1])'
    BY <2>1, <2>2, AnnouncedIsHandled
  <2>4. QED BY <2>1, <2>3
<1>3. QED BY <1>1, <1>2

\* What the invariants about the page rest on.
Known ==
    /\ TypeOK /\ InOrder /\ DeliveredInOrder /\ Written /\ Pending
    /\ Untouched /\ Closing /\ ToldHandled
    /\ Faithful /\ Tuned

\* A page that is in time was so before, unless it has just begun to wait.
LEMMA WasInTime ==
    ASSUME Known, [Next]_vars, InTime', Attentive, missed = {}, shown' = shown
    PROVE  InTime /\ shown \in Job
<1>1. shown \in Job
  BY DEF Known, Tuned
<1>2. faults = 0
  BY FaultsGrow DEF Known, TypeOK, InTime
<1>3. deliv[shown] \in Nat /\ deliv'[shown] \in Nat /\ deliv[shown] <= deliv'[shown]
  BY <1>1, StepOfQueue, DeliveriesGrow DEF Known, TypeOK
<1>4. deliv'[shown] <= 1
  BY DEF InTime
<1>5. deliv[shown] <= 1
  BY <1>3, <1>4
<1>6. QED BY <1>1, <1>2, <1>5 DEF InTime

\* Without failed calls a row that is new waits for its PUBLISH.
LEMMA NewRows ==
    ASSUME QTypeOK, KTypeOK, Written, [Next]_vars, faults' = 0, NEW j \in Job
    PROVE  /\ \A l \in lines'[j] \ lines[j] :
                 \E a \in Attempt : a[1] = j /\ event'[a][1] = "log" /\ event'[a][2] = l
           /\ \A c \in Cell : cells'[j][c] # cells[j][c] =>
                 \E a \in Attempt : a[1] = j /\ event'[a][1] = "cell" /\ event'[a][2][1] = c
<1>1. CASE ApiStep \/ QueueStep \/ UNCHANGED vars
  BY <1>1 DEF ApiStep, create_run, enqueue_kem, ApiFails, QueueStep, Elsewhere, vars, kvars, db
<1>2. ASSUME NEW a \in Attempt, console_log(a)
      PROVE  /\ cells' = cells
             /\ \A l \in lines'[j] \ lines[j] :
                   a[1] = j /\ event'[a][1] = "log" /\ event'[a][2] = l
  <2>1. /\ cells' = cells /\ a[1] \in Job
        /\ lines' = [lines EXCEPT ![a[1]] = @ \cup {Line(a)}]
        /\ event'[a] = <<"log", Line(a)>>
    BY <1>2, AttemptParts DEF console_log, Insert, Writes, KTypeOK
  <2>2. \A l \in lines'[j] \ lines[j] : a[1] = j /\ l = Line(a)
    BY <2>1 DEF KTypeOK
  <2>3. QED BY <2>1, <2>2
<1>3. ASSUME NEW a \in Attempt, console_cell(a)
      PROVE  /\ lines' = lines
             /\ \A c \in Cell : cells'[j][c] # cells[j][c] =>
                   a[1] = j /\ event'[a][1] = "cell" /\ event'[a][2][1] = c
  <2>1. PICK v \in CellVerdict(a) : Upsert(a, v) /\ Writes(a, <<"cell", <<left[a], v>>>>)
    BY <1>3 DEF console_cell
  <2>2. event'[a] = <<"cell", <<left[a], v>>>> /\ lines' = lines
    BY <1>3, <2>1 DEF Writes, KTypeOK, console_cell
  <2>3. \A c \in Cell : j # a[1] \/ c # left[a] => cells'[j][c] = cells[j][c]
    BY <1>3, <2>1, UpsertEffect DEF console_cell, In
  <2>4. QED BY <2>2, <2>3
<1>4. ASSUME NEW a \in Attempt, HandlerStep(a), ~console_log(a), ~console_cell(a)
      PROVE  UNCHANGED <<lines, cells>>
  BY <1>4 DEF HandlerStep, start, log_conflict, capabilities_err, publish, finish, announce,
     HandleEnds, kvars, db
<1>5. \A a \in Attempt : ~HandlerFault(a)
  BY FaultsGrow
<1>6. QED BY <1>1, <1>2, <1>3, <1>4, <1>5 DEF Next

\* The events of the run on the page wait on, or go with their handler.
Keeps == \A a \in Attempt : a[1] = shown /\ event[a] # Silence =>
            event'[a] = event[a] \/ pc'[a] = "over"

\* The page stays as it is.
LEMMA ToldFrame ==
    ASSUME Known, AllTold, [Next]_vars, InTime', Attentive,
           UNCHANGED <<shown, logs, matrix, stream, missed>>,
           page' = "done" => page = "done", Keeps, shown \in told' => shown \in told
    PROVE  EndTold' /\ (Lost' \/ (LinesTold' /\ CellsTold'))
<1>0. missed = {} /\ faults' = 0 /\ deliv'[shown] <= 1
  BY DEF InTime
<1>1. InTime /\ shown \in Job /\ QTypeOK /\ KTypeOK
  BY <1>0, WasInTime DEF Known, TypeOK
<1>2. EndTold /\ (Lost \/ (LinesTold /\ CellsTold))
  BY <1>1 DEF AllTold
<1>3. EndTold'
  <2>1. told \subseteq told'
    BY ToldGrows
  <2>2. QED BY <1>2, <2>1 DEF EndTold
<1>4. CASE Lost
  <2>1. PICK a \in Attempt : a[1] = shown /\ pc[a] = "over"
    BY <1>4 DEF Lost
  <2>2. pc'[a] = "over"
    BY <1>1, <2>1, StepOfQueue, TaskStep DEF Known
  <2>3. shown' \notin told'
    BY <1>4 DEF Lost
  <2>4. Lost'
    BY <2>1, <2>2, <2>3 DEF Lost
  <2>5. QED BY <1>3, <2>4
<1>5. CASE \E a \in Attempt : a[1] = shown /\ event[a] # Silence /\ pc'[a] = "over"
  <2>1. PICK a \in Attempt : a[1] = shown /\ event[a] # Silence /\ pc'[a] = "over"
    BY <1>5
  <2>2. ~Handled(shown)
    BY <2>1 DEF Handled
  <2>3. shown \notin told
    BY <1>1, <2>2 DEF Known, ToldHandled, InTime
  <2>4. Lost'
    BY <2>1, <2>3 DEF Lost
  <2>5. QED BY <1>3, <2>4
<1>6. CASE /\ LinesTold /\ CellsTold
           /\ \A a \in Attempt : a[1] = shown /\ event[a] # Silence => event'[a] = event[a]
  <2>0. Silence[1] = "none"
    BY DEF Silence
  <2>1. ASSUME NEW l \in lines'[shown]
        PROVE  \/ Shows(l)
               \/ \E a \in Attempt : a[1] = shown /\ event'[a][1] = "log" /\ event'[a][2] = l
    <3>1. CASE l \in lines[shown] /\ ~Shows(l)
      <4>1. PICK a \in Attempt : a[1] = shown /\ event[a][1] = "log" /\ event[a][2] = l
        BY <1>6, <3>1 DEF LinesTold
      <4>2. event'[a] = event[a]
        BY <1>6, <2>0, <4>1
      <4>3. QED BY <4>1, <4>2
    <3>2. CASE l \notin lines[shown]
      BY <1>0, <1>1, <3>2, NewRows DEF Known
    <3>3. QED BY <3>1, <3>2
  <2>2. LinesTold'
    BY <2>1 DEF LinesTold, Shows
  <2>3. ASSUME NEW c \in Cell, cells'[shown][c] # "none"
        PROVE  \/ matrix[c] # "none"
               \/ \E i \in DOMAIN stream : stream[i][1] = "cell" /\ stream[i][2][1] = c
               \/ \E a \in Attempt : a[1] = shown /\ event'[a][1] = "cell" /\ event'[a][2][1] = c
    <3>1. CASE cells[shown][c] # "none" /\ cells'[shown][c] = cells[shown][c]
      <4>1. ASSUME NEW a \in Attempt, a[1] = shown, event[a][1] = "cell", event[a][2][1] = c
            PROVE  event'[a] = event[a]
        BY <1>6, <2>0, <4>1
      <4>2. QED BY <1>6, <3>1, <4>1 DEF CellsTold
    <3>2. CASE cells'[shown][c] # cells[shown][c]
      BY <1>0, <1>1, <3>2, NewRows DEF Known
    <3>3. QED BY <2>3, <3>1, <3>2
  <2>4. CellsTold'
    BY <2>3 DEF CellsTold
  <2>5. QED BY <1>3, <2>2, <2>4
<1>7. QED BY <1>2, <1>4, <1>5, <1>6 DEF Keeps

\* What a handler publishes of the run on the page is on its way.
LEMMA TellTold ==
    ASSUME Known, AllTold, [Next]_vars, InTime', NEW a \in Attempt, Tell(a)
    PROVE  EndTold' /\ (Lost' \/ (LinesTold' /\ CellsTold'))
<1>0. /\ UNCHANGED <<page, shown, logs, matrix, deliv, pc, lines, cells>>
      /\ HandlerStep(a) /\ a[1] \in Job /\ QTypeOK /\ KTypeOK
      /\ missed \subseteq missed'
      /\ pc[a] = "run"
  <2>1. HandlerStep(a)
    BY DEF Tell, HandlerStep
  <2>2. UNCHANGED <<deliv, pc, lines, cells>>
    BY DEF Tell, publish, announce, qvars, db
  <2>3. QED BY <2>1, <2>2, RunFrame, AttemptParts DEF Tell, Publish, Known, TypeOK
<1>1. /\ Attentive /\ missed = {} /\ missed' = {} /\ faults' = 0
  BY <1>0 DEF InTime, Attentive
<1>2. InTime /\ shown \in Job
  BY <1>0, <1>1, WasInTime
<1>3. \A b \in Attempt : b # a => event'[b] = event[b]
  BY <1>0, OthersStay
<1>4. CASE a[1] # shown
  <2>1. Keeps
    BY <1>3, <1>4 DEF Keeps
  <2>2. stream' = stream
    BY <1>4 DEF Tell, Publish
  <2>3. shown \in told' => shown \in told
    BY <1>4 DEF Tell, publish, announce
  <2>4. QED BY <1>0, <1>1, <2>1, <2>2, <2>3, ToldFrame
<1>5. CASE a[1] = shown
  <2>1. shown \notin told
    <3>1. deliv'[a[1]] <= 1 /\ deliv[a[1]] <= 1
      BY <1>0, <1>2, <1>5 DEF InTime
    <3>2. ~Handled(a[1])
      BY <1>0, <1>1, <3>1, HandledStep DEF Known
    <3>3. QED BY <1>2, <1>5, <3>1, <3>2 DEF Known, ToldHandled, InTime
  <2>2. EndTold /\ LinesTold /\ CellsTold
    <3>1. ASSUME NEW b \in Attempt, b[1] = shown, pc[b] = "over" PROVE FALSE
      <4>1. b = a
        BY <1>0, <1>2, <1>5, <3>1, OnlyAttempt DEF Known, InTime
      <4>2. QED BY <1>0, <3>1, <4>1
    <3>2. ~Lost
      BY <3>1 DEF Lost
    <3>3. QED BY <1>2, <3>2 DEF AllTold
  <2>3. page # "done" /\ \A i \in DOMAIN stream : stream[i][1] # "finished"
    BY <2>1, <2>2 DEF EndTold
  <2>4. page = "live"
    <3>1. page \notin {"posting", "connecting"}
      BY <1>1, <1>5 DEF Tell, Publish
    <3>2. QED BY <1>1, <2>3, <3>1 DEF Attentive
  <2>5. stream \in Seq(Message) /\ Len(stream) \in Nat
    BY DEF Known, Faithful, ViewOK
  <2>6. ASSUME NEW e, Publish(a[1], e)
        PROVE  /\ DOMAIN stream = 1 .. Len(stream) /\ DOMAIN stream' = 1 .. Len(stream) + 1
               /\ Len(stream') = Len(stream) + 1
               /\ \A i \in DOMAIN stream : stream'[i] = stream[i]
               /\ stream'[Len(stream) + 1] = e
               /\ Len(stream) + 1 \in DOMAIN stream'
               /\ \A i \in DOMAIN stream : i \in DOMAIN stream'
               /\ \A l : Shows(l) => Shows(l)'
    <3>1. stream' = Append(stream, e)
      BY <1>5, <2>4, <2>6 DEF Publish
    <3>2. /\ DOMAIN stream = 1 .. Len(stream) /\ DOMAIN stream' = 1 .. Len(stream) + 1
          /\ Len(stream') = Len(stream) + 1
          /\ \A i \in DOMAIN stream : stream'[i] = stream[i]
          /\ stream'[Len(stream) + 1] = e
      BY <2>5, <3>1
    <3>3. /\ Len(stream) + 1 \in DOMAIN stream'
          /\ \A i \in DOMAIN stream : i \in DOMAIN stream'
      BY <2>5, <3>2
    <3>4. \A l : Shows(l) => Shows(l)'
      BY <1>0, <3>2, <3>3 DEF Shows
    <3>5. QED BY <3>2, <3>3, <3>4
  <2>7. CASE publish(a) /\ Publish(a[1], event[a])
    <3> DEFINE e == event[a]
               k == Len(stream) + 1
    <3>1. Publish(a[1], e) /\ e \in Event
      BY <1>0, <2>7 DEF publish, KTypeOK
    <3>2. stream'[k] = e /\ k \in DOMAIN stream'
      BY <2>6, <3>1
    <3>3. \A l : e[1] = "log" /\ e[2] = l => Shows(l)'
      BY <3>2 DEF Shows
    <3>4. e[1] # "finished"
      BY <3>1 DEF Event
    <3>5. LinesTold'
      <4>1. ASSUME NEW l \in lines[shown]
            PROVE  \/ Shows(l)'
                   \/ \E b \in Attempt : b[1] = shown /\ event'[b][1] = "log" /\ event'[b][2] = l
        <5>1. CASE Shows(l)
          BY <2>6, <3>1, <5>1
        <5>2. ASSUME NEW b \in Attempt, b[1] = shown, event[b][1] = "log", event[b][2] = l
              PROVE  Shows(l)' \/ event'[b] = event[b]
          BY <1>3, <3>3, <5>2
        <5>3. QED BY <2>2, <5>1, <5>2 DEF LinesTold
      <4>2. QED BY <1>0, <4>1 DEF LinesTold
    <3>6. CellsTold'
      <4>1. ASSUME NEW c \in Cell, cells[shown][c] # "none"
            PROVE  \/ matrix[c] # "none"
                   \/ \E i \in DOMAIN stream' : stream'[i][1] = "cell" /\ stream'[i][2][1] = c
                   \/ \E b \in Attempt : /\ b[1] = shown /\ event'[b][1] = "cell"
                                         /\ event'[b][2][1] = c
        <5>1. CASE \E i \in DOMAIN stream : stream[i][1] = "cell" /\ stream[i][2][1] = c
          BY <2>6, <3>1, <5>1
        <5>2. ASSUME NEW b \in Attempt, b[1] = shown, event[b][1] = "cell", event[b][2][1] = c
              PROVE  \/ event'[b] = event[b]
                     \/ stream'[k][1] = "cell" /\ stream'[k][2][1] = c
          BY <1>3, <3>2, <5>2
        <5>3. QED BY <2>2, <3>2, <4>1, <5>1, <5>2 DEF CellsTold
      <4>2. QED BY <1>0, <4>1 DEF CellsTold
    <3>7. EndTold'
      BY <1>0, <2>3, <2>5, <2>6, <3>1, <3>4 DEF EndTold
    <3>8. QED BY <3>5, <3>6, <3>7
  <2>8. CASE announce(a) /\ Publish(a[1], <<"finished", << >>>>)
    <3> DEFINE e == <<"finished", << >>>>
    <3>1. event' = event /\ shown \in told'
      BY <1>5, <2>8 DEF announce
    <3>2. Publish(a[1], e) /\ e[1] = "finished"
      BY <2>8
    <3> HIDE DEF e
    <3>3. LinesTold'
      BY <1>0, <2>2, <2>6, <3>1, <3>2 DEF LinesTold
    <3>4. CellsTold'
      BY <1>0, <2>2, <2>6, <3>1, <3>2 DEF CellsTold
    <3>5. EndTold'
      BY <1>0, <2>3, <2>5, <2>6, <3>1, <3>2 DEF EndTold
    <3>6. QED BY <3>3, <3>4, <3>5
  <2>9. QED BY <2>7, <2>8 DEF Tell
<1>6. QED BY <1>4, <1>5

\* What the page reads it shows, and it stops reading only at the last event.
LEMMA ReadTold ==
    ASSUME Known, AllTold, InTime', onmessage
    PROVE  EndTold' /\ (Lost' \/ (LinesTold' /\ CellsTold'))
<1> DEFINE e == Head(stream)
<1>1. /\ stream \in Seq(Message) /\ Len(stream) \in Nat /\ DOMAIN stream = 1 .. Len(stream)
      /\ logs \in Seq(Row) /\ Len(logs) \in Nat
      /\ matrix \in [Cell -> Verdict]
      /\ 1 \in DOMAIN stream /\ e = stream[1] /\ e \in Message
  BY DEF Known, Faithful, ViewOK, onmessage
<1>2. /\ UNCHANGED <<vars, shown, missed>> /\ page = "live"
      /\ logs' = IF e[1] = "log" THEN Append(logs, e[2]) ELSE logs
      /\ matrix' = IF e[1] = "cell" THEN [matrix EXCEPT ![e[2][1]] = e[2][2]] ELSE matrix
      /\ page' = IF e[1] = "finished" THEN "done" ELSE page
      /\ stream' = IF e[1] = "finished" THEN << >> ELSE Tail(stream)
  BY DEF onmessage
<1>3. UNCHANGED <<lines, cells, event, deliv, pc, faults, told>>
  BY <1>2 DEF vars, qvars, kvars, db, local
<1>4. EndTold /\ (Lost \/ (LinesTold /\ CellsTold))
  BY <1>2, <1>3 DEF AllTold, InTime, Attentive
<1>5. Lost => Lost'
  BY <1>2, <1>3 DEF Lost
<1>6. e[1] = "finished" => Len(stream) = 1 /\ shown \in told
  BY <1>1, <1>4 DEF EndTold
<1>7. ASSUME NEW i \in DOMAIN stream, i # 1
      PROVE  i - 1 \in DOMAIN stream' /\ stream'[i - 1] = stream[i]
  <2>1. stream' = Tail(stream)
    BY <1>1, <1>2, <1>6, <1>7
  <2>2. QED BY <1>1, <1>7, <2>1
<1>8. e[1] # "finished" =>
         /\ Len(stream') = Len(stream) - 1
         /\ \A i \in DOMAIN stream' : i + 1 \in DOMAIN stream /\ stream'[i] = stream[i + 1]
  BY <1>1, <1>2
<1>9. e[1] = "cell" => e[2][1] \in Cell /\ e[2][2] # "none"
  BY <1>1, EventParts DEF Known, Faithful, EventsStored
<1>10. /\ \A i \in DOMAIN logs : i \in DOMAIN logs' /\ logs'[i] = logs[i]
       /\ e[1] = "log" => Len(logs) + 1 \in DOMAIN logs' /\ logs'[Len(logs) + 1] = e[2]
  <2>1. ASSUME NEW r
        PROVE  /\ \A i \in DOMAIN logs : /\ i \in DOMAIN Append(logs, r)
                                         /\ Append(logs, r)[i] = logs[i]
               /\ Len(logs) + 1 \in DOMAIN Append(logs, r)
               /\ Append(logs, r)[Len(logs) + 1] = r
    BY <1>1
  <2>2. CASE e[1] = "log"
    <3>1. logs' = Append(logs, e[2])
      BY <1>2, <2>2
    <3>2. QED BY <2>1, <3>1
  <2>3. CASE e[1] # "log"
    BY <1>2, <2>3
  <2>4. QED BY <2>2, <2>3
<1>11. ASSUME NEW c \in Cell
       PROVE  /\ matrix[c] # "none" => matrix'[c] # "none"
              /\ e[1] = "cell" /\ e[2][1] = c => matrix'[c] # "none"
  BY <1>1, <1>2, <1>9
<1> HIDE DEF e
<1>12. ASSUME LinesTold PROVE LinesTold'
  <2>1. ASSUME NEW l, Shows(l) PROVE Shows(l)'
    <3>1. CASE \E i \in DOMAIN logs : logs[i] = l
      BY <1>10, <3>1 DEF Shows
    <3>2. ASSUME NEW i \in DOMAIN stream, stream[i][1] = "log", stream[i][2] = l
          PROVE  Shows(l)'
      <4>1. CASE i = 1
        BY <1>1, <1>10, <3>2, <4>1 DEF Shows
      <4>2. CASE i # 1
        BY <1>7, <3>2, <4>2 DEF Shows
      <4>3. QED BY <4>1, <4>2
    <3>3. QED BY <2>1, <3>1, <3>2 DEF Shows
  <2>2. QED BY <1>2, <1>3, <1>12, <2>1 DEF LinesTold
<1>13. ASSUME CellsTold PROVE CellsTold'
  <2> SUFFICES ASSUME NEW c \in Cell, cells[shown][c] # "none"
               PROVE  \/ matrix'[c] # "none"
                      \/ \E i \in DOMAIN stream' : /\ stream'[i][1] = "cell"
                                                   /\ stream'[i][2][1] = c
                      \/ \E a \in Attempt : /\ a[1] = shown /\ event[a][1] = "cell"
                                            /\ event[a][2][1] = c
    BY <1>2, <1>3 DEF CellsTold
  <2>1. CASE matrix[c] # "none"
    BY <1>11, <2>1
  <2>2. ASSUME NEW i \in DOMAIN stream, stream[i][1] = "cell", stream[i][2][1] = c
        PROVE  \/ matrix'[c] # "none"
               \/ \E k \in DOMAIN stream' : stream'[k][1] = "cell" /\ stream'[k][2][1] = c
    <3>1. CASE i = 1
      BY <1>1, <1>11, <2>2, <3>1
    <3>2. CASE i # 1
      BY <1>7, <2>2, <3>2
    <3>3. QED BY <3>1, <3>2
  <2>3. QED BY <1>13, <2>1, <2>2 DEF CellsTold
<1>14. EndTold'
  <2>1. CASE e[1] = "finished"
    BY <1>2, <1>3, <1>6, <2>1 DEF EndTold
  <2>2. CASE e[1] # "finished"
    <3>1. page' # "done"
      BY <1>2, <2>2
    <3>2. ASSUME NEW i \in DOMAIN stream', stream'[i][1] = "finished"
          PROVE  i = Len(stream') /\ shown \in told
      <4>1. i + 1 \in DOMAIN stream /\ stream[i + 1][1] = "finished"
        BY <1>8, <2>2, <3>2
      <4>2. i + 1 = Len(stream) /\ shown \in told
        BY <1>4, <4>1 DEF EndTold
      <4>3. i = Len(stream')
        <5>1. stream' \in Seq(Message)
          BY <1>1, <1>2, <2>2
        <5>2. i \in Nat
          BY <3>2, <5>1
        <5>3. Len(stream') = Len(stream) - 1
          BY <1>8, <2>2
        <5>4. QED BY <1>1, <4>2, <5>2, <5>3
      <4>4. QED BY <4>2, <4>3
    <3>3. QED BY <1>2, <1>3, <3>1, <3>2 DEF EndTold
  <2>3. QED BY <2>1, <2>2
<1>15. QED BY <1>4, <1>5, <1>12, <1>13, <1>14

\* The page knows which run it follows, and only a live page has a stream.
LEMMA TunedStep ==
    ASSUME Faithful, Tuned, [LNext]_lvars
    PROVE  Tuned'
<1>1. ASSUME UNCHANGED <<page, shown>>, stream' = stream \/ page = "live" PROVE Tuned'
  BY <1>1 DEF Tuned, Attentive
<1>2. ASSUME NEW a \in Attempt, Tell(a) PROVE Tuned'
  BY <1>1, <1>2 DEF Tell, Publish
<1>3. ASSUME NEW j \in Job, ApiErr(j) PROVE Tuned'
  BY <1>3 DEF ApiErr, Catch, Tuned, Attentive
<1>4. ASSUME NEW j \in Job, run(j) PROVE Tuned'
  BY <1>4 DEF run, Clear, Tuned, Attentive
<1>5. CASE run_refused \/ unmount
  BY <1>5 DEF run_refused, unmount, Clear, Tuned, Attentive
<1>6. CASE reply_lost \/ created \/ subscribe \/ onerror
  BY <1>6 DEF reply_lost, Catch, created, subscribe, onerror, Tuned, Attentive
<1>7. CASE onmessage
  BY <1>7 DEF onmessage, Tuned, Attentive
<1>8. CASE UNCHANGED view
  BY <1>1, <1>8 DEF view
<1>9. CASE UNCHANGED lvars
  BY <1>8, <1>9 DEF lvars
<1>10. QED
  BY <1>2, <1>3, <1>4, <1>5, <1>6, <1>7, <1>8, <1>9 DEF LNext, Page, System

\* AllTold is inductive.
LEMMA ToldStep ==
    ASSUME Known, AllTold, [LNext]_lvars
    PROVE  AllTold'
<1> DEFINE Goal == EndTold' /\ (Lost' \/ (LinesTold' /\ CellsTold'))
<1> SUFFICES ASSUME InTime' PROVE Goal
  BY DEF AllTold
<1>0. [Next]_vars /\ Attentive' /\ faults' = 0 /\ QTypeOK /\ KTypeOK
  BY StepOfRun DEF InTime, Known, TypeOK
<1>1. ASSUME UNCHANGED <<shown, logs, matrix, stream, missed>>, Attentive,
             page' = "done" => page = "done", Keeps, told' = told
      PROVE  Goal
  BY <1>0, <1>1, ToldFrame
<1>2. ASSUME NEW a \in Attempt, Tell(a) PROVE Goal
  BY <1>0, <1>2, TellTold
<1>3. ASSUME onmessage PROVE Goal
  BY <1>3, ReadTold
<1>4. ASSUME NEW j \in Job, run(j) PROVE Goal
  <2>1. /\ shown' = j /\ page' = "posting" /\ stream' = << >>
        /\ UNCHANGED <<lines, cells>> /\ status[j] = "none"
    BY <1>4 DEF run, Clear, create_run
  <2>2. lines[j] = {} /\ \A c \in Cell : cells[j][c] = "none"
    BY <2>1 DEF Known, Untouched
  <2>3. QED BY <2>1, <2>2 DEF LinesTold, CellsTold, EndTold
<1>5. ASSUME run_refused \/ unmount \/ reply_lost \/ onerror PROVE FALSE
  BY <1>0, <1>5 DEF run_refused, unmount, Clear, reply_lost, Catch, onerror, Attentive
<1>6. ASSUME created \/ subscribe PROVE Goal
  BY <1>1, <1>6 DEF created, subscribe, Attentive, vars, kvars, local, Keeps
<1>7. ASSUME NEW j \in Job, ApiErr(j) PROVE Goal
  <2>1. page' = page
    BY <1>0, <1>7 DEF ApiErr, Catch, Attentive
  <2>2. QED BY <1>0, <1>1, <1>7, <2>1 DEF ApiErr, ApiFails, Attentive, local, Keeps
<1>8. ASSUME UNCHANGED view, Keeps, told' = told PROVE Goal
  BY <1>0, <1>1, <1>8 DEF view, Attentive
<1>9. ASSUME UNCHANGED lvars \/ \E j \in Job : enqueue_kem(j) PROVE Keeps /\ told' = told
  BY <1>9 DEF lvars, vars, kvars, local, enqueue_kem, Keeps
<1>10. ASSUME QueueStep PROVE Keeps /\ told' = told
  BY <1>10 DEF QueueStep, Elsewhere, Keeps
<1>11. ASSUME NEW a \in Attempt, Silent(a) PROVE Keeps /\ told' = told
  <2>1. ~HandlerFault(a)
    BY <1>0, FaultsGrow
  <2>2. HandlerStep(a)
    BY <1>11, <2>1 DEF Silent, HandlerStep
  <2>3. told' = told /\ event[a] = Silence
    BY <1>11, <2>1 DEF Silent, start, console_log, log_conflict, capabilities_err,
       console_cell, finish, HandleEnds, In, kvars
  <2>4. \A b \in Attempt : b # a => event'[b] = event[b]
    BY <1>0, <2>2, OthersStay
  <2>5. QED BY <2>3, <2>4 DEF Keeps
<1> HIDE DEF Goal
<1>12. Goal
  BY <1>2, <1>3, <1>4, <1>5, <1>6, <1>7, <1>8, <1>9, <1>10, <1>11 DEF LNext, Page, System,
     lvars
<1>13. QED BY <1>12

\* "reopening a finished run replays the same lines the student saw live"
\* (kem-runner.tsx): a page that was told the end of a run handled once, and that
\* was subscribed in time, shows the whole console and the whole matrix, however
\* many runs it has watched before and whatever else the workers do meanwhile.
THEOREM DoneShowsAllCorrect == LSpec => []DoneShowsAll
<1>1. LInit => Untouched /\ Closing /\ ToldHandled /\ Tuned /\ AllTold
  <2> SUFFICES ASSUME LInit PROVE Untouched /\ Closing /\ ToldHandled /\ Tuned /\ AllTold
    OBVIOUS
  <2>1. \A j \in Job : j \notin Enqueued
    BY QueueAssumption DEF LInit, Init, QInit, Enqueued
  <2>2. Untouched /\ Closing /\ ToldHandled
    BY <2>1 DEF LInit, Init, Untouched, Closing, ToldHandled
  <2>3. Tuned /\ AllTold
    BY DEF LInit, Tuned, AllTold, InTime, Attentive
  <2>4. QED BY <2>2, <2>3
<1>2. /\ TypeOK /\ InOrder /\ DeliveredInOrder /\ Engaged /\ Written /\ Pending /\ Faithful
      /\ Untouched /\ Closing /\ ToldHandled /\ Tuned /\ AllTold
      /\ [LNext]_lvars
      => (Untouched /\ Closing /\ ToldHandled /\ Tuned /\ AllTold)'
  BY StepOfRun, UntouchedStep, ClosingStep, ToldHandledStep, TunedStep, ToldStep
     DEF Known, TypeOK
<1>3. TypeOK /\ Faithful /\ ToldHandled /\ Tuned /\ AllTold => DoneShowsAll
  <2> SUFFICES ASSUME TypeOK, Faithful, ToldHandled, Tuned, AllTold, page = "done", missed = {},
                      deliv[shown] = 1, faults = 0
               PROVE  /\ Ended(shown)
                      /\ {logs[i] : i \in DOMAIN logs} = lines[shown]
                      /\ matrix = cells[shown]
    BY DEF DoneShowsAll
  <2>1. stream = << >> /\ shown \in Job
    BY DEF Tuned, Attentive
  <2>2. LinesTold /\ CellsTold /\ shown \in told
    BY DEF AllTold, InTime, Attentive, EndTold, Lost
  <2>3. Ended(shown) /\ \A a \in Attempt : a[1] = shown => event[a][1] = "none"
    BY <2>2 DEF ToldHandled, Handled, Silence
  <2>4. {logs[i] : i \in DOMAIN logs} = lines[shown]
    BY <2>1, <2>2, <2>3 DEF LinesTold, Shows, Faithful, ShownIsStored
  <2>5. matrix = cells[shown]
    <3>1. matrix \in [Cell -> Verdict] /\ cells[shown] \in [Cell -> Verdict]
      BY <2>1 DEF TypeOK, KTypeOK, Faithful, ViewOK
    <3>2. \A c \in Cell : matrix[c] = cells[shown][c]
      BY <2>1, <2>2, <2>3 DEF CellsTold, Faithful, ShownIsStored
    <3>3. QED BY <3>1, <3>2
  <2>6. QED BY <2>3, <2>4, <2>5
<1>4. QED
  BY <1>1, <1>2, <1>3, ImplementsRun, ImplementsQueue, TypeCorrect, DeliveredInvariant,
     EngagedInvariant, WrittenInvariant, PendingInvariant, FaithfulInvariant, PTL DEF LSpec

=============================================================================
