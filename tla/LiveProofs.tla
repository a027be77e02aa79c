----------------------------- MODULE LiveProofs -----------------------------
(***************************************************************************)
(* Proofs about LiveMatrix, for every number of tests and workers and any  *)
(* number of lost connections.                                             *)
(***************************************************************************)
EXTENDS LiveMatrix, ProbeProofs

Event == Job \X (ExecStatus \X ResultStatus)

-----------------------------------------------------------------------------
(***************************************************************************)
(* The tests that are watched are the tests of ProbeTask.                  *)
(***************************************************************************)

\* A step of the page leaves the tests alone.
LEMMA ProbeStep == [LNext]_lvars => [Next]_vars
BY DEF LNext, get_matrix, subscribe, onmessage, onerror, lvars

\* Whatever is proved of the tests holds while they are watched.
THEOREM ImplementsProbe == LSpec => Spec
<1>1. LInit => Init
  BY DEF LInit
<1>2. QED BY <1>1, ProbeStep, PTL DEF LSpec, Spec

-----------------------------------------------------------------------------
(***************************************************************************)
(* Types                                                                   *)
(***************************************************************************)

\* What a step of the tests does to the stream: nothing, or one event more.
LEMMA RelayStep ==
    ASSUME Relay
    PROVE  /\ UNCHANGED <<page, cells, drops>>
           /\ \/ stream' = stream
              \/ \E a \in Attempt : /\ Publishes(a)
                                    /\ stream' = Append(stream, <<a[1], verdict[a]>>)
           /\ \/ missed' = missed
              \/ \E a \in Attempt : missed' = missed \cup {a[1]}
<1>1. CASE \A a \in Attempt : ~Publishes(a)
  BY <1>1 DEF Relay
<1>2. ASSUME NEW a \in Attempt, Publishes(a)
      PROVE  /\ \/ stream' = stream
                \/ /\ Publishes(a)
                   /\ stream' = Append(stream, <<a[1], verdict[a]>>)
             /\ \/ missed' = missed
                \/ missed' = missed \cup {a[1]}
  BY <1>2 DEF Relay
<1>3. UNCHANGED <<page, cells, drops>>
  BY DEF Relay
<1>4. QED BY <1>1, <1>2, <1>3

\* The copy of the page and the events on their way are well typed.
LEMMA LTypeStep ==
    ASSUME PTypeOK, LTypeOK, [LNext]_lvars
    PROVE  LTypeOK'
<1>0. stream \in Seq(Event) /\ (LTypeOK <=> /\ page \in {"none", "rendered", "live"}
                                            /\ cells \in [Job -> ExecStatus \X ResultStatus]
                                            /\ stream \in Seq(Event)
                                            /\ missed \subseteq Job
                                            /\ drops \in Nat)
  BY DEF LTypeOK, Event
<1>1. CASE Next /\ Relay
  <2>1. stream' \in Seq(Event)
    <3>1. ASSUME NEW a \in Attempt PROVE <<a[1], verdict[a]>> \in Event
      BY AttemptParts DEF PTypeOK, Event
    <3>2. ASSUME NEW a \in Attempt, stream' = Append(stream, <<a[1], verdict[a]>>)
          PROVE  stream' \in Seq(Event)
      <4>1. ASSUME NEW e \in Event PROVE Append(stream, e) \in Seq(Event)
        BY <1>0
      <4>2. QED BY <3>1, <3>2, <4>1
    <3>3. QED BY <1>0, <1>1, <3>2, RelayStep
  <2>2. missed' \subseteq Job
    BY <1>0, <1>1, RelayStep, AttemptParts
  <2>3. QED BY <1>0, <1>1, <2>1, <2>2, RelayStep DEF LTypeOK, Event
<1>2. CASE get_matrix
  <2>1. cells' \in [Job -> ExecStatus \X ResultStatus]
    BY <1>2 DEF get_matrix, PTypeOK, NoEvent, ExecStatus, ResultStatus
  <2>2. QED BY <1>2, <2>1 DEF get_matrix, LTypeOK
<1>3. CASE subscribe
  BY <1>3 DEF subscribe, LTypeOK
<1>4. CASE onmessage
  <2>1. Head(stream) \in Event /\ Tail(stream) \in Seq(Event)
    BY <1>0, <1>4 DEF onmessage
  <2>2. /\ Head(stream)[1] \in Job
        /\ Head(stream)[2] \in ExecStatus \X ResultStatus
    BY <2>1 DEF Event
  <2>3. cells' \in [Job -> ExecStatus \X ResultStatus]
    BY <1>0, <1>4, <2>2 DEF onmessage
  <2>4. stream' \in Seq(Event) /\ missed' \subseteq Job
    BY <1>0, <1>4, <2>1 DEF onmessage
  <2>5. QED BY <1>0, <1>4, <2>3, <2>4 DEF onmessage, LTypeOK, Event
<1>5. CASE onerror
  <2>1. \A i \in DOMAIN stream : stream[i] \in Event
    BY <1>0
  <2>2. \A i \in DOMAIN stream : stream[i][1] \in Job
    BY <2>1 DEF Event
  <2>3. missed' \subseteq Job
    BY <1>0, <1>5, <2>2 DEF onerror
  <2>4. stream' \in Seq(Event)
    BY <1>5 DEF onerror
  <2>5. QED BY <1>0, <1>5, <2>3, <2>4 DEF onerror, LTypeOK, Event
<1>6. CASE UNCHANGED lvars
  BY <1>6 DEF lvars, view, LTypeOK
<1>7. QED BY <1>1, <1>2, <1>3, <1>4, <1>5, <1>6 DEF LNext

\* Every reachable state of the page is well typed.
THEOREM LTypeCorrect == LSpec => []LTypeOK
<1>1. LInit => LTypeOK
  BY DEF LInit, LTypeOK, NoEvent, ExecStatus, ResultStatus
<1>2. PTypeOK /\ LTypeOK /\ [LNext]_lvars => LTypeOK'
  BY LTypeStep
<1>3. TypeOK => PTypeOK
  BY DEF TypeOK
<1>4. QED BY <1>1, <1>2, <1>3, ImplementsProbe, TypeCorrect, PTL DEF LSpec

-----------------------------------------------------------------------------
(***************************************************************************)
(* What the page shows as done is done.                                    *)
(***************************************************************************)

\* A handler is about to publish only when the row has its verdict.
LEMMA PublishStep ==
    ASSUME PTypeOK, RowsSound, [Next]_vars,
           \A a \in Attempt : at[a] = "publish" => result[a[1]] # "pending"
    PROVE  \A a \in Attempt : at'[a] = "publish" => result'[a[1]] # "pending"
<1> DEFINE Stored == \A a \in Attempt : at'[a] = "publish" => result'[a[1]] # "pending"
<1>0. \A j \in Job : result[j] # "pending" => result'[j] # "pending"
  BY RowsStep
<1>1. ASSUME \A a \in Attempt : at'[a] = "publish" => at[a] = "publish" PROVE Stored
  BY <1>0, <1>1, AttemptParts
<1>2. ASSUME NEW a \in Attempt, mark_subtask_error(a) \/ save_report(a) PROVE Stored
  <2>1. \A b \in Attempt : b # a => at'[b] = at[b]
    BY <1>2 DEF mark_subtask_error, save_report, Step, PTypeOK
  <2>2. result'[a[1]] # "pending"
    <3>1. a[1] \in Job
      BY AttemptParts
    <3>2. CASE mark_subtask_error(a)
      BY <3>1, <3>2 DEF mark_subtask_error, PTypeOK
    <3>3. CASE save_report(a)
      <4>1. PICK r \in {"passed", "failed", "unsupported"} :
               result' = [result EXCEPT ![a[1]] = r]
        BY <3>1, <3>3, SavedOutcome, ResultType
      <4>2. QED BY <3>1, <4>1 DEF PTypeOK
    <3>4. QED BY <1>2, <3>2, <3>3
  <2>3. QED BY <1>0, <2>1, <2>2, AttemptParts
<1>3. ASSUME NEW a \in Attempt, HandlerStep(a), ~mark_subtask_error(a), ~save_report(a)
      PROVE  \A b \in Attempt : at'[b] = "publish" => at[b] = "publish"
  BY <1>3 DEF HandlerStep, mark_test_running, mark_subtask_running, publish,
     select_progress, finish_test, announce, HandleOk, Step, pvars, local, PTypeOK
<1>4. ASSUME Elsewhere PROVE \A b \in Attempt : at'[b] = "publish" => at[b] = "publish"
  BY <1>4 DEF Elsewhere
<1>5. ASSUME ApiStep \/ UNCHANGED vars \/ \E a \in Attempt : HandleErr(a)
      PROVE  at' = at
  BY <1>5 DEF ApiStep, create_test, ApiFails, enqueue_probes, HandleErr, vars, pvars, local
<1>6. Stored
  <2> HIDE DEF Stored
  <2>1. QED BY <1>1, <1>2, <1>3, <1>4, <1>5 DEF Next
<1>7. QED BY <1>6

\* No verdict is on its way before it is stored.
LEMMA StoredStep ==
    ASSUME PTypeOK, RowsSound, LTypeOK, VerdictsAreStored, [LNext]_lvars
    PROVE  VerdictsAreStored'
<1> DEFINE S == \A i \in DOMAIN stream : result[stream[i][1]] # "pending"
<1>0. \A j \in Job : result[j] # "pending" => result'[j] # "pending"
  BY RowsStep, ProbeStep
<1>1. \A a \in Attempt : at'[a] = "publish" => result'[a[1]] # "pending"
  BY PublishStep, ProbeStep DEF VerdictsAreStored
<1>2. stream \in Seq(Event)
  BY DEF LTypeOK, Event
<1>3. \A i \in DOMAIN stream : stream[i][1] \in Job /\ result'[stream[i][1]] # "pending"
  <2>1. \A i \in DOMAIN stream : stream[i] \in Event
    BY <1>2
  <2>2. \A i \in DOMAIN stream : stream[i][1] \in Job
    BY <2>1 DEF Event
  <2>3. QED BY <1>0, <2>2 DEF VerdictsAreStored
<1>4. ASSUME stream' = stream PROVE S'
  BY <1>3, <1>4
<1>5. ASSUME NEW a \in Attempt, Publishes(a), stream' = Append(stream, <<a[1], verdict[a]>>)
      PROVE  S'
  <2>1. result[a[1]] # "pending" /\ a[1] \in Job
    BY <1>5, AttemptParts DEF Publishes, VerdictsAreStored
  <2>2. result'[a[1]] # "pending"
    BY <1>0, <2>1
  <2>3. ASSUME NEW i \in DOMAIN stream' PROVE result'[stream'[i][1]] # "pending"
    <3>1. i \in 1 .. Len(stream) + 1
      BY <1>2, <1>5, <2>3
    <3>2. CASE i \in DOMAIN stream
      <4>1. stream'[i] = stream[i]
        BY <1>2, <1>5, <3>2
      <4>2. QED BY <1>3, <3>2, <4>1
    <3>3. CASE i = Len(stream) + 1
      <4>1. stream'[i] = <<a[1], verdict[a]>>
        BY <1>2, <1>5, <3>3
      <4>2. QED BY <2>2, <4>1
    <3>4. QED BY <1>2, <3>1, <3>2, <3>3
  <2>4. QED BY <2>3
<1>6. ASSUME onmessage PROVE S'
  <2>1. stream # << >> /\ stream' = Tail(stream)
    BY <1>6 DEF onmessage
  <2>2. ASSUME NEW i \in DOMAIN stream' PROVE result'[stream'[i][1]] # "pending"
    <3>1. i + 1 \in DOMAIN stream /\ stream'[i] = stream[i + 1]
      BY <1>2, <2>1
    <3>2. QED BY <1>3, <3>1
  <2>3. QED BY <2>2
<1>7. ASSUME onerror PROVE S'
  BY <1>7 DEF onerror
<1>8. S'
  <2>1. CASE Next /\ Relay
    <3> HIDE DEF S
    <3>1. QED BY <1>4, <1>5, <2>1, RelayStep
  <2>2. ASSUME get_matrix \/ subscribe \/ UNCHANGED lvars PROVE stream' = stream
    BY <2>2 DEF get_matrix, subscribe, lvars, view
  <2>3. QED
    <3> HIDE DEF S
    <3>1. QED BY <1>4, <1>6, <1>7, <2>1, <2>2 DEF LNext
<1>9. QED BY <1>1, <1>8 DEF VerdictsAreStored

\* The copy only ever holds snapshots of rows and verdicts that were stored.
LEMMA DoneStep ==
    ASSUME PTypeOK, RowsSound, LTypeOK, VerdictsAreStored, DoneIsStored, [LNext]_lvars
    PROVE  DoneIsStored'
<1>0. \A j \in Job : result[j] # "pending" => result'[j] # "pending"
  BY RowsStep, ProbeStep
<1>1. ASSUME cells' = cells PROVE DoneIsStored'
  BY <1>0, <1>1 DEF DoneIsStored, Done
<1>2. CASE get_matrix
  <2>1. result' = result
    BY <1>2 DEF get_matrix, vars, pvars, db
  <2>2. ASSUME NEW j \in Job, Done(cells'[j]) PROVE result[j] # "pending"
    <3>1. cells'[j] = IF j \in Watching THEN <<exec[j], result[j]>> ELSE NoEvent
      BY <1>2 DEF get_matrix
    <3>2. Settled(j)
      BY <2>2, <3>1 DEF Done, NoEvent, Settled
    <3>3. QED BY <3>2 DEF RowsSound
  <2>3. QED BY <2>1, <2>2 DEF DoneIsStored
<1>3. CASE onmessage
  <2>1. result' = result
    BY <1>3 DEF onmessage, vars, pvars, db
  <2>2. 1 \in DOMAIN stream /\ Head(stream) = stream[1]
    <3>1. stream \in Seq(Event) /\ stream # << >>
      BY <1>3 DEF onmessage, LTypeOK, Event
    <3>2. QED BY <3>1
  <2>3. result[Head(stream)[1]] # "pending"
    BY <2>2 DEF VerdictsAreStored
  <2>4. \A j \in Job : j # Head(stream)[1] => cells'[j] = cells[j]
    BY <1>3 DEF onmessage, LTypeOK
  <2>5. QED BY <2>1, <2>3, <2>4 DEF DoneIsStored, Done
<1>4. ASSUME subscribe \/ onerror \/ UNCHANGED lvars \/ Relay PROVE cells' = cells
  BY <1>4 DEF subscribe, onerror, lvars, view, Relay
<1>5. QED BY <1>1, <1>2, <1>3, <1>4 DEF LNext

\* A cell that the page shows as done has a verdict in the database, through
\* crashes, redeliveries, lost connections and events that arrive late.
THEOREM DoneIsStoredCorrect == LSpec => []DoneIsStored
<1>1. LInit => VerdictsAreStored /\ DoneIsStored
  BY DEF LInit, Init, VerdictsAreStored, DoneIsStored, Done, NoEvent
<1>2. /\ PTypeOK /\ RowsSound /\ LTypeOK /\ VerdictsAreStored /\ DoneIsStored
      /\ [LNext]_lvars
      => (VerdictsAreStored /\ DoneIsStored)'
  BY StoredStep, DoneStep
<1>3. QED BY <1>1, <1>2, ImplementsProbe, VerdictInvariant, LTypeCorrect, PTL DEF LSpec

-----------------------------------------------------------------------------
(***************************************************************************)
(* A page that has read everything agrees with the rows.                   *)
(***************************************************************************)

\* The last event of a subtask that is still on its way is the last one that was
\* published: events are neither replayed nor reordered, and a connection that
\* is lost takes them all.
StreamTold ==
    /\ page # "live" => stream = << >>
    /\ \A i \in DOMAIN stream :
          /\ stream[i][1] \in Watching
          /\ (\A k \in DOMAIN stream : k > i => stream[k][1] # stream[i][1])
                => stream[i][2] = shown[stream[i][1]]

\* An event of subtask j is still to come: no handler of it is past its publish
\* call, and its job is not acknowledged.
Owed(j) ==
    /\ j \notin acked
    /\ \A a \in Attempt :
          a[1] = j => at[a] \notin {"select", "update", "announce", "return"}

Fresh(j) == cells[j] = shown[j] \/ cells[j] = <<exec[j], result[j]>> \/ Owed(j)

Awaited(j) == \E i \in DOMAIN stream : stream[i][1] = j

\* A cell whose events the page has all read is the last event, or the row as
\* the snapshot had it, or an event is still owed.
CellsFresh == page # "none" => \A j \in Watching \ missed : Awaited(j) \/ Fresh(j)

\* A handler that goes on from its publish call has published.
LEMMA PublishOnly ==
    ASSUME QTypeOK, PTypeOK, [Next]_vars, NEW a \in Attempt,
           at[a] = "publish", at'[a] = "select"
    PROVE  publish(a)
<1>1. ASSUME NEW b \in Attempt, HandlerStep(b) PROVE publish(a)
  <2>1. b = a
    BY <1>1, HandlerFrame
  <2>2. ASSUME ~publish(a) PROVE FALSE
    BY <1>1, <2>1, <2>2 DEF HandlerStep, mark_test_running, mark_subtask_running,
       mark_subtask_error, save_report, select_progress, finish_test, announce, HandleOk,
       Step, pvars, local, PTypeOK
  <2>3. QED BY <2>2
<1>2. ASSUME ApiStep \/ UNCHANGED vars \/ \E b \in Attempt : HandleErr(b) PROVE at' = at
  BY <1>2 DEF ApiStep, create_test, ApiFails, enqueue_probes, HandleErr, vars, pvars, local
<1>3. ASSUME Elsewhere PROVE at'[a] \in {at[a], "mark_test"}
  BY <1>3 DEF Elsewhere
<1>4. QED BY <1>1, <1>2, <1>3 DEF Next

\* Only a publish call changes what was last published, of its own subtask.
LEMMA ShownStep ==
    ASSUME QTypeOK, PTypeOK, [Next]_vars
    PROVE  \/ shown' = shown /\ \A a \in Attempt : ~publish(a)
           \/ \E a \in Attempt : /\ publish(a)
                                 /\ shown' = [shown EXCEPT ![a[1]] = verdict[a]]
<1>1. ASSUME NEW a \in Attempt, publish(a)
      PROVE  shown' = [shown EXCEPT ![a[1]] = verdict[a]]
  BY <1>1 DEF publish
<1>2. ASSUME \A a \in Attempt : ~publish(a) PROVE shown' = shown
  BY <1>2 DEF Next, ApiStep, create_test, ApiFails, enqueue_probes, HandlerStep,
     mark_test_running, mark_subtask_running, mark_subtask_error, save_report,
     select_progress, finish_test, announce, HandleOk, HandleErr, Elsewhere, vars, pvars, events
<1>3. QED BY <1>1, <1>2

\* Where an event goes: on the stream of a live page; a page without a connection
\* misses it.
LEMMA RelayEvent ==
    ASSUME PTypeOK, Relay, NEW a \in Attempt, publish(a), a[1] \in Watching
    PROVE  IF page = "live"
           THEN stream' = Append(stream, <<a[1], verdict[a]>>) /\ missed' = missed
           ELSE /\ stream' = stream
                /\ missed' = IF page = "none" THEN missed ELSE missed \cup {a[1]}
<1>1. Publishes(a)
  BY DEF Publishes, publish, Step, PTypeOK
<1>2. QED BY <1>1 DEF Relay

\* Other steps, and events of other tests, do not reach the page.
LEMMA RelayQuiet ==
    ASSUME QTypeOK, PTypeOK, [Next]_vars, Relay,
           \A a \in Attempt : publish(a) => a[1] \notin Watching
    PROVE  stream' = stream /\ missed' = missed
<1>1. \A a \in Attempt : ~Publishes(a)
  BY PublishOnly DEF Publishes
<1>2. QED BY <1>1 DEF Relay

\* StreamTold is inductive.
LEMMA StreamStep ==
    ASSUME QTypeOK, PTypeOK, LTypeOK, StreamTold, [LNext]_lvars
    PROVE  StreamTold'
<1>0. stream \in Seq(Event) /\ [Next]_vars
  BY ProbeStep DEF LTypeOK, Event
<1>1. ASSUME stream' = stream, page' = "live" \/ page' = page,
             \A j \in Watching : shown'[j] = shown[j]
      PROVE  StreamTold'
  BY <1>1 DEF StreamTold
<1>2. CASE Next /\ Relay
  <2>1. page' = page
    BY <1>2, RelayStep
  <2>2. CASE \A a \in Attempt : ~publish(a)
    <3>1. shown' = shown
      BY <1>0, <2>2, ShownStep
    <3>2. QED BY <1>0, <1>1, <1>2, <2>1, <2>2, <3>1, RelayQuiet
  <2>3. ASSUME NEW a \in Attempt, publish(a) PROVE StreamTold'
    <3>0. a[1] \in Job /\ shown' = [shown EXCEPT ![a[1]] = verdict[a]]
      BY <2>3, AttemptParts DEF publish
    <3>1. shown'[a[1]] = verdict[a] /\ \A j \in Job : j # a[1] => shown'[j] = shown[j]
      BY <3>0 DEF PTypeOK
    <3>2. CASE a[1] \notin Watching
      <4>1. \A b \in Attempt : publish(b) => b = a
        BY <2>3 DEF publish, Step, PTypeOK
      <4>2. stream' = stream
        BY <1>0, <1>2, <3>2, <4>1, RelayQuiet
      <4>3. \A j \in Watching : shown'[j] = shown[j]
        BY <3>1, <3>2 DEF Watching, Subtasks
      <4>4. QED BY <1>1, <2>1, <4>2, <4>3
    <3>3. CASE a[1] \in Watching /\ page # "live"
      <4>1. stream' = stream /\ stream = << >>
        BY <1>2, <2>3, <3>3, RelayEvent DEF StreamTold
      <4>2. QED BY <2>1, <3>3, <4>1 DEF StreamTold
    <3>4. CASE a[1] \in Watching /\ page = "live"
      <4>1. stream' = Append(stream, <<a[1], verdict[a]>>)
        BY <1>2, <2>3, <3>4, RelayEvent
      <4>2. ASSUME NEW i \in DOMAIN stream',
                   \A k \in DOMAIN stream' : k > i => stream'[k][1] # stream'[i][1]
            PROVE  stream'[i][2] = shown'[stream'[i][1]]
        <5>1. /\ i \in 1 .. Len(stream) + 1 /\ Len(stream) \in Nat
              /\ DOMAIN stream' = 1 .. Len(stream) + 1
              /\ DOMAIN stream = 1 .. Len(stream)
              /\ stream'[Len(stream) + 1] = <<a[1], verdict[a]>>
              /\ \A k \in DOMAIN stream : stream'[k] = stream[k]
          BY <1>0, <4>1, <4>2
        <5>2. CASE i = Len(stream) + 1
          BY <3>1, <5>1, <5>2
        <5>3. CASE i \in DOMAIN stream
          <6>1. stream[i][1] # a[1]
            BY <4>2, <5>1, <5>3
          <6>2. \A k \in DOMAIN stream : k > i => stream[k][1] # stream[i][1]
            BY <4>2, <5>1, <5>3
          <6>3. stream[i][2] = shown[stream[i][1]] /\ stream[i][1] \in Job
            BY <5>3, <6>2 DEF StreamTold, Watching, Subtasks
          <6>4. QED BY <3>1, <5>1, <5>3, <6>1, <6>3
        <5>4. QED BY <5>1, <5>2, <5>3
      <4>3. ASSUME NEW i \in DOMAIN stream' PROVE stream'[i][1] \in Watching
        <5>1. /\ i \in 1 .. Len(stream) + 1 /\ Len(stream) \in Nat
              /\ DOMAIN stream = 1 .. Len(stream)
              /\ stream'[Len(stream) + 1] = <<a[1], verdict[a]>>
              /\ \A k \in DOMAIN stream : stream'[k] = stream[k]
          BY <1>0, <4>1, <4>3
        <5>2. CASE i \in DOMAIN stream
          BY <5>1, <5>2 DEF StreamTold
        <5>3. QED BY <3>4, <5>1, <5>2
      <4>4. Watching' = Watching
        BY DEF Watching, Subtasks
      <4>5. QED BY <2>1, <3>4, <4>2, <4>3, <4>4 DEF StreamTold
    <3>5. QED BY <3>2, <3>3, <3>4
  <2>4. QED BY <2>2, <2>3
<1>3. CASE get_matrix \/ subscribe \/ UNCHANGED lvars
  <2>1. stream' = stream /\ shown' = shown
    BY <1>3 DEF get_matrix, subscribe, lvars, view, vars, pvars, events
  <2>2. CASE page' = "live" \/ page' = page
    BY <1>1, <2>1, <2>2
  <2>3. CASE get_matrix
    BY <2>1, <2>3 DEF get_matrix, StreamTold
  <2>4. QED BY <1>3, <2>2, <2>3 DEF subscribe, lvars, view
<1>4. CASE onmessage
  <2>1. /\ stream' = Tail(stream) /\ stream # << >> /\ page = "live" /\ page' = page
        /\ shown' = shown
    BY <1>4 DEF onmessage, vars, pvars, events
  <2>2. /\ Len(stream) \in Nat /\ DOMAIN stream = 1 .. Len(stream)
        /\ DOMAIN stream' = 1 .. Len(stream) - 1
        /\ \A i \in DOMAIN stream' : stream'[i] = stream[i + 1]
    BY <1>0, <2>1
  <2>3. ASSUME NEW i \in DOMAIN stream',
               \A k \in DOMAIN stream' : k > i => stream'[k][1] # stream'[i][1]
        PROVE  stream'[i][2] = shown'[stream'[i][1]]
    <3>1. i + 1 \in DOMAIN stream /\ stream'[i] = stream[i + 1]
      BY <2>2
    <3>2. ASSUME NEW k \in DOMAIN stream, k > i + 1 PROVE stream[k][1] # stream[i + 1][1]
      <4>1. k - 1 \in DOMAIN stream' /\ k - 1 > i /\ stream'[k - 1] = stream[k - 1 + 1]
        BY <2>2, <3>2
      <4>2. k - 1 + 1 = k
        BY <2>2
      <4>3. QED BY <2>3, <3>1, <4>1, <4>2
    <3>3. stream[i + 1][2] = shown[stream[i + 1][1]]
      BY <3>1, <3>2 DEF StreamTold
    <3>4. QED BY <2>1, <3>1, <3>3
  <2>4. \A i \in DOMAIN stream' : stream'[i][1] \in Watching
    BY <2>2 DEF StreamTold
  <2>5. Watching' = Watching
    BY DEF Watching, Subtasks
  <2>6. QED BY <2>1, <2>3, <2>4, <2>5 DEF StreamTold
<1>5. CASE onerror
  <2>1. stream' = << >> /\ page' # "live"
    BY <1>5 DEF onerror
  <2>2. QED BY <2>1 DEF StreamTold
<1>6. QED BY <1>2, <1>3, <1>4, <1>5 DEF LNext

\* A job is acknowledged by a task that has seen its handler return.
LEMMA AckedByTask ==
    ASSUME \/ \E w \in Worker : WorkerStep(w)
           \/ \E a \in Attempt : Ack(a) \/ AckFails(a),
           NEW j \in acked', j \notin acked
    PROVE  \E a \in Attempt : pc[a] = "ack" /\ a[1] = j
BY DEF WorkerStep, StartWorker, Read, Autoclaim, Spawn, Shutdown, Exit, Crash, Ack, AckFails

\* A cell stays fresh until the next event of its subtask: whoever writes the row
\* owes an event, and pays before its job is acknowledged.
LEMMA FreshStep ==
    ASSUME QTypeOK, PTypeOK, OneAttemptAtATime, NoneLeft, Orderly, AllHonest, [Next]_vars,
           NEW j \in Job, cells' = cells, Fresh(j),
           \A a \in Attempt : publish(a) => a[1] # j
    PROVE  Fresh(j)'
<1>1. ASSUME exec'[j] = exec[j], result'[j] = result[j], shown'[j] = shown[j],
             Owed(j) => Owed(j)'
      PROVE  Fresh(j)'
  BY <1>1 DEF Fresh
<1>2. ASSUME NEW a \in Attempt, HandlerStep(a), a[1] # j PROVE Fresh(j)'
  <2>1. exec'[j] = exec[j] /\ result'[j] = result[j] /\ shown'[j] = shown[j]
    BY <1>2, HandlerFrame
  <2>2. Owed(j) => Owed(j)'
    BY <1>2, HandlerFrame DEF Owed
  <2>3. QED BY <1>1, <2>1, <2>2
<1>3. ASSUME NEW a \in Attempt, HandlerStep(a), a[1] = j PROVE Fresh(j)'
  <2>0. /\ acked' = acked
        /\ \A b \in Attempt : b # a => at'[b] = at[b]
    BY <1>3, HandlerFrame
  <2>1. /\ j \notin acked
        /\ \A b \in Attempt : b # a /\ b[1] = j => at[b] = "mark_test"
    BY <1>3, HandlerFrame, OnlyHandler DEF Orderly, AllHonest
  <2>2. ASSUME at'[a] \in {"record", "publish"} PROVE Fresh(j)'
    BY <2>0, <2>1, <2>2 DEF Fresh, Owed
  <2>3. CASE mark_subtask_running(a) \/ mark_subtask_error(a) \/ save_report(a)
    <3>1. at'[a] \in {"record", "publish"}
      BY <2>3 DEF mark_subtask_running, mark_subtask_error, save_report, Step, PTypeOK
    <3>2. QED BY <2>2, <3>1
  <2>4. CASE \/ mark_test_running(a) \/ select_progress(a) \/ finish_test(a)
             \/ announce(a) \/ HandleOk(a)
    <3>1. UNCHANGED <<exec, result, shown>>
      BY <2>4 DEF mark_test_running, select_progress, finish_test, announce, HandleOk, pvars,
         db, events
    <3>2. at'[a] \in {"select", "update", "announce", "return"} =>
             at[a] \in {"select", "update", "announce", "return"}
      BY <2>4 DEF mark_test_running, select_progress, finish_test, announce, HandleOk, Step,
         pvars, local, PTypeOK
    <3>3. Owed(j) => Owed(j)'
      BY <1>3, <2>0, <2>1, <3>2 DEF Owed
    <3>4. QED BY <1>1, <3>1, <3>3
  <2>5. QED BY <1>3, <2>3, <2>4 DEF HandlerStep
<1>4. CASE ApiStep \/ UNCHANGED vars
  <2>1. UNCHANGED <<acked, exec, result, at, shown>>
    BY <1>4 DEF ApiStep, create_test, ApiFails, enqueue_probes, Enqueue, vars, qvars, pvars,
       db, local, events
  <2>2. QED BY <1>1, <2>1 DEF Owed
<1>5. ASSUME NEW a \in Attempt, HandleErr(a) PROVE FALSE
  BY <1>5 DEF HandleErr, HandlerErrs, Orderly, QTypeOK
<1>6. CASE /\ \/ \E w \in Worker : WorkerStep(w)
              \/ \E a \in Attempt : Ack(a) \/ AckFails(a)
           /\ Elsewhere
  <2>1. UNCHANGED <<exec, result, shown>> /\ \A a \in Attempt : at'[a] \in {at[a], "mark_test"}
    BY <1>6 DEF Elsewhere, db, events
  <2>2. ASSUME Owed(j) PROVE j \notin acked'
    <3>1. ASSUME j \in acked' PROVE FALSE
      <4>1. PICK a \in Attempt : pc[a] = "ack" /\ a[1] = j
        BY <1>6, <2>2, <3>1, AckedByTask DEF Owed
      <4>2. at[a] = "return"
        BY <4>1 DEF AllHonest, Honest
      <4>3. QED BY <2>2, <4>1, <4>2 DEF Owed
    <3>2. QED BY <3>1
  <2>3. Owed(j) => Owed(j)'
    BY <2>1, <2>2 DEF Owed
  <2>4. QED BY <1>1, <2>1, <2>3
<1>7. QED BY <1>2, <1>3, <1>4, <1>5, <1>6 DEF Next

\* CellsFresh is inductive where no call fails and no job outlasts CLAIM_STALE_MS.
LEMMA CellsStep ==
    ASSUME QTypeOK, PTypeOK, LTypeOK, OneAttemptAtATime, NoneLeft, Orderly, AllHonest,
           StreamTold, CellsFresh, [LNext]_lvars
    PROVE  CellsFresh'
<1>0. stream \in Seq(Event) /\ [Next]_vars /\ Watching' = Watching /\ Watching \subseteq Job
  BY ProbeStep DEF LTypeOK, Event, Watching, Subtasks
<1>1. CASE Next /\ Relay
  <2> SUFFICES ASSUME page' # "none", NEW j \in Watching, j \notin missed'
               PROVE  Awaited(j)' \/ Fresh(j)'
    BY <1>0 DEF CellsFresh
  <2>0. page' = page /\ cells' = cells
    BY <1>1, RelayStep
  <2>1. ASSUME NEW a \in Attempt, publish(a), a[1] = j PROVE Awaited(j)'
    <3>1. page = "live" /\ stream' = Append(stream, <<j, verdict[a]>>)
      BY <1>1, <2>0, <2>1, RelayEvent
    <3>2. /\ Len(stream) + 1 \in DOMAIN stream'
          /\ stream'[Len(stream) + 1] = <<j, verdict[a]>>
      BY <1>0, <3>1
    <3>3. QED BY <3>2 DEF Awaited
  <2>2. ASSUME \A a \in Attempt : publish(a) => a[1] # j PROVE Awaited(j)' \/ Fresh(j)'
    <3>1. j \notin missed /\ (Awaited(j) => Awaited(j)')
      <4>1. CASE stream' = stream /\ missed \subseteq missed'
        BY <4>1 DEF Awaited
      <4>2. CASE \A a \in Attempt : publish(a) => a[1] \notin Watching
        BY <1>0, <1>1, <4>1, <4>2, RelayQuiet
      <4>3. ASSUME NEW a \in Attempt, publish(a), a[1] \in Watching
            PROVE  j \notin missed /\ (Awaited(j) => Awaited(j)')
        <5>1. CASE page # "live"
          BY <1>1, <4>1, <4>3, <5>1, RelayEvent
        <5>2. CASE page = "live"
          <6>1. stream' = Append(stream, <<a[1], verdict[a]>>) /\ missed' = missed
            BY <1>1, <4>3, <5>2, RelayEvent
          <6>2. \A i \in DOMAIN stream : i \in DOMAIN stream' /\ stream'[i] = stream[i]
            BY <1>0, <6>1
          <6>3. QED BY <6>1, <6>2 DEF Awaited
        <5>3. QED BY <5>1, <5>2
      <4>4. QED BY <4>2, <4>3
    <3>2. CASE Awaited(j)
      BY <3>1, <3>2
    <3>3. CASE Fresh(j)
      BY <1>0, <2>0, <2>2, <3>3, FreshStep
    <3>4. QED BY <2>0, <3>1, <3>2, <3>3 DEF CellsFresh
  <2>3. QED BY <2>1, <2>2
<1>2. CASE get_matrix
  <2>1. \A j \in Watching : cells'[j] = <<exec[j], result[j]>>
    BY <1>0, <1>2 DEF get_matrix
  <2>2. UNCHANGED <<exec, result>>
    BY <1>2 DEF get_matrix, vars, pvars, db
  <2>3. QED BY <1>0, <2>1, <2>2 DEF CellsFresh, Fresh
<1>3. CASE subscribe \/ UNCHANGED lvars
  <2>1. UNCHANGED <<cells, stream, missed, acked, exec, result, at, shown>>
    BY <1>3 DEF subscribe, lvars, view, vars, qvars, pvars, db, local, events
  <2>2. page' # "none" => page # "none"
    BY <1>3 DEF subscribe, lvars, view
  <2>3. QED BY <1>0, <2>1, <2>2 DEF CellsFresh, Fresh, Owed, Awaited
<1>4. ASSUME onmessage \/ onerror
      PROVE  UNCHANGED <<acked, exec, result, at, shown>> /\ page # "none"
  BY <1>4 DEF onmessage, onerror, vars, qvars, pvars, db, local, events
<1>5. CASE onmessage
  <2>1. /\ stream' = Tail(stream) /\ stream # << >>
        /\ cells' = [cells EXCEPT ![Head(stream)[1]] = Head(stream)[2]]
        /\ missed' = missed \ {Head(stream)[1]}
    BY <1>5 DEF onmessage
  <2>2. /\ Len(stream) \in Nat /\ DOMAIN stream = 1 .. Len(stream) /\ 1 \in DOMAIN stream
        /\ DOMAIN stream' = 1 .. Len(stream) - 1
        /\ \A i \in DOMAIN stream' : stream'[i] = stream[i + 1]
        /\ Head(stream) = stream[1]
    BY <1>0, <2>1
  <2>3. ASSUME NEW i \in DOMAIN stream, i # 1 PROVE i - 1 \in DOMAIN stream' /\ stream'[i - 1] = stream[i]
    <3>1. i - 1 \in DOMAIN stream' /\ i - 1 + 1 = i
      BY <2>2, <2>3
    <3>2. QED BY <2>2, <3>1
  <2>4. ASSUME NEW j \in Watching, j \notin missed', ~Awaited(j)' PROVE Fresh(j)'
    <3>1. \A i \in DOMAIN stream : i # 1 => stream[i][1] # j
      BY <2>3, <2>4 DEF Awaited
    <3>2. CASE j = Head(stream)[1]
      <4>1. \A i \in DOMAIN stream : i > 1 => stream[i][1] # stream[1][1]
        BY <2>2, <3>1, <3>2
      <4>2. stream[1][2] = shown[j]
        BY <2>2, <3>2, <4>1 DEF StreamTold
      <4>3. cells'[j] = stream[1][2]
        BY <1>0, <2>1, <2>2, <3>2 DEF LTypeOK
      <4>4. QED BY <1>4, <1>5, <4>2, <4>3 DEF Fresh
    <3>3. CASE j # Head(stream)[1]
      <4>1. j \notin missed /\ ~Awaited(j)
        BY <2>1, <2>2, <2>4, <3>1, <3>3 DEF Awaited
      <4>2. Fresh(j)
        BY <1>4, <1>5, <4>1 DEF CellsFresh
      <4>3. cells'[j] = cells[j]
        BY <1>0, <2>1, <3>3 DEF LTypeOK
      <4>4. QED BY <1>4, <1>5, <4>2, <4>3 DEF Fresh, Owed
    <3>4. QED BY <3>2, <3>3
  <2>5. QED BY <1>0, <2>4 DEF CellsFresh
<1>6. CASE onerror
  <2>1. cells' = cells /\ missed' = missed \cup {stream[i][1] : i \in DOMAIN stream}
    BY <1>6 DEF onerror
  <2>2. ASSUME NEW j \in Watching, j \notin missed' PROVE Fresh(j)'
    <3>1. Fresh(j)
      BY <1>4, <1>6, <2>1, <2>2 DEF CellsFresh, Awaited
    <3>2. QED BY <1>4, <1>6, <2>1, <3>1 DEF Fresh, Owed
  <2>3. QED BY <1>0, <2>2 DEF CellsFresh
<1>7. QED BY <1>1, <1>2, <1>3, <1>5, <1>6 DEF LNext

\* A page that has read everything agrees with the rows once all jobs of its test,
\* which uses an adapter that every worker has, are acknowledged, through crashes
\* and redeliveries of the workers and lost connections of the page, as long as
\* no call of a handler fails and no job outlasts CLAIM_STALE_MS: merging events into an older snapshot, as
\* test-matrix.tsx does, never leaves a cell behind that missed no event.
THEOREM QuietPageAgreesCorrect == LSpec => [](Orderly => QuietPageAgrees)
<1>1. LInit => StreamTold /\ CellsFresh
  BY DEF LInit, StreamTold, CellsFresh
<1>2. TypeOK /\ LTypeOK /\ StreamTold /\ [LNext]_lvars => StreamTold'
  BY StreamStep DEF TypeOK
<1>3. /\ TypeOK /\ LTypeOK /\ OneAttemptAtATime /\ NoneLeft /\ (Orderly => AllHonest)
      /\ StreamTold /\ (Orderly => CellsFresh) /\ [LNext]_lvars
      => (Orderly => CellsFresh)'
  BY CellsStep DEF TypeOK, Orderly
<1>4. ErrorsByAdapter /\ (Orderly => AllHonest) /\ (Orderly => CellsFresh)
      => (Orderly => QuietPageAgrees)
  <2> SUFFICES ASSUME ErrorsByAdapter, AllHonest, CellsFresh, page # "none", stream = << >>,
                      Watching \subseteq acked, OnAll(Watched), NEW j \in Watching \ missed
               PROVE  cells[j] = <<exec[j], result[j]>>
    BY DEF QuietPageAgrees
  <2>1. ~Awaited(j) /\ ~Owed(j)
    BY DEF Awaited, Owed
  <2>2. shown[j] = Row(j) /\ exec[j] # "error"
    BY DEF AllHonest, AckedHonest, ErrorsByAdapter, Watching, Subtasks
  <2>3. QED BY <2>1, <2>2 DEF CellsFresh, Fresh, Row
<1>5. QED
  BY <1>1, <1>2, <1>3, <1>4, ImplementsProbe, ImplementsQueue, TypeCorrect, LTypeCorrect,
     OneAttemptCorrect, TasksInvariant, ErrorsInvariant, HonestInvariant, PTL DEF LSpec

=============================================================================
