---------------------------- MODULE QueueProofs ----------------------------
(***************************************************************************)
(* Proofs about WorkerQueue, for every set of jobs and workers and every   *)
(* value of the bounds.                                                    *)
(***************************************************************************)
EXTENDS WorkerQueue, FiniteSetTheorems, TLAPS

\* The types of an attempt's parts, from which the function updates follow.
LEMMA AttemptParts ==
    \A a \in Attempt : a[1] \in Job /\ a[2] \in 1 .. MaxDeliveries
BY DEF Attempt

\* A read moves the group forward, never past the end of a stream.
LEMMA ReadUpToBounds ==
    ASSUME QTypeOK, NEW s \in Stream, cursor[s] <= Len(log[s])
    PROVE  /\ ReadUpTo(s) \in Nat
           /\ cursor[s] <= ReadUpTo(s)
           /\ ReadUpTo(s) <= Len(log[s])
<1>1. cursor[s] \in Nat /\ Len(log[s]) \in Nat
  BY DEF QTypeOK
<1>2. QED BY <1>1, QueueAssumption DEF ReadUpTo

\* Receive has the same effect on the types, whether the reply arrives or not.
LEMMA ReceiveType ==
    ASSUME QTypeOK, NEW D \in SUBSET Job, NEW w \in Worker, Receive(D, w)
    PROVE  /\ pel' = pel \cup D
           /\ deliv' \in [Job -> 0 .. MaxDeliveries]
           /\ pc' \in [Attempt -> Phase]
           /\ owner' \in [Attempt -> Worker \cup {Nobody}]
           /\ faults' \in 0 .. MaxFaults
<1>1. PICK v \in Worker \cup {Nobody}, to \in {"batch", "over"} : Deliver(D, v, to)
  BY DEF Receive
<1>2. pel' = pel \cup D
  BY <1>1 DEF Deliver
<1>3. deliv' \in [Job -> 0 .. MaxDeliveries]
  BY <1>1, QueueAssumption DEF Deliver, QTypeOK
<1>4. pc' \in [Attempt -> Phase]
  BY <1>1 DEF Deliver, QTypeOK, Phase
<1>5. owner' \in [Attempt -> Worker \cup {Nobody}]
  BY <1>1 DEF Deliver, QTypeOK
<1>6. faults' \in 0 .. MaxFaults
  BY QueueAssumption DEF Receive, QTypeOK
<1>7. QED BY <1>2, <1>3, <1>4, <1>5, <1>6

\* Types are kept by each step.
LEMMA QTypeStep == QTypeOK /\ [QNext]_qvars => QTypeOK'
<1> SUFFICES ASSUME QTypeOK, [QNext]_qvars PROVE QTypeOK'
  OBVIOUS
<1> USE QueueAssumption
<1>1. ASSUME NEW j \in Job, Enqueue(j) PROVE QTypeOK'
  <2>1. Append(log[StreamOf[j]], j) \in Seq(Job)
    BY DEF QTypeOK
  <2>2. QED BY <1>1, <2>1 DEF Enqueue, QTypeOK
<1>2. ASSUME NEW w \in Worker, StartWorker(w) PROVE QTypeOK'
  <2>1. \A s \in Stream : Len(log[s]) \in Nat
    BY DEF QTypeOK
  <2>2. base' \in [Stream -> Nat \cup {NoGroup}] /\ cursor' \in [Stream -> Nat]
    BY <1>2, <2>1 DEF StartWorker, ensure_group, QTypeOK
  <2>3. QED BY <1>2, <2>2 DEF StartWorker, QTypeOK
<1>3. ASSUME NEW w \in Worker, Read(w) PROVE QTypeOK'
  <2>1. cursor' \in [Stream -> Nat]
    <3>1. \A s \in Stream : ReadUpTo(s) \in Nat
      BY DEF ReadUpTo, QTypeOK
    <3>2. QED BY <1>3, <3>1 DEF Read
  <2>2. Receive(NewEntries, w) /\ NewEntries \subseteq Job
    BY <1>3 DEF Read, NewEntries
  <2>3. /\ pel' = pel \cup NewEntries
        /\ deliv' \in [Job -> 0 .. MaxDeliveries]
        /\ pc' \in [Attempt -> Phase]
        /\ owner' \in [Attempt -> Worker \cup {Nobody}]
        /\ faults' \in 0 .. MaxFaults
    BY <2>2, ReceiveType
  <2>4. QED BY <1>3, <2>1, <2>2, <2>3 DEF Read, QTypeOK
<1>4. ASSUME NEW w \in Worker, Autoclaim(w) PROVE QTypeOK'
  <2>1. PICK C \in SUBSET Job : Receive(C, w)
    BY <1>4 DEF Autoclaim, QTypeOK
  <2>2. /\ pel' = pel \cup C
        /\ deliv' \in [Job -> 0 .. MaxDeliveries]
        /\ pc' \in [Attempt -> Phase]
        /\ owner' \in [Attempt -> Worker \cup {Nobody}]
        /\ faults' \in 0 .. MaxFaults
    BY <2>1, ReceiveType
  <2>3. QED BY <1>4, <2>1, <2>2 DEF Autoclaim, QTypeOK
<1>5. ASSUME NEW w \in Worker, NEW a \in Attempt, Spawn(w, a) PROVE QTypeOK'
  BY <1>5 DEF Spawn, Phase, QTypeOK
<1>6. ASSUME NEW w \in Worker, Shutdown(w) PROVE QTypeOK'
  BY <1>6 DEF Shutdown, Die, Phase, QTypeOK
<1>7. ASSUME NEW w \in Worker, Exit(w) PROVE QTypeOK'
  BY <1>7 DEF Exit, QTypeOK
<1>8. ASSUME NEW w \in Worker, Crash(w) PROVE QTypeOK'
  BY <1>8 DEF Crash, Die, Phase, QTypeOK
<1>9. ASSUME NEW a \in Attempt, ToAck(a), faults' \in 0 .. MaxFaults PROVE QTypeOK'
  BY <1>9, AttemptParts DEF ToAck, Phase, QTypeOK
<1>10. ASSUME NEW a \in Attempt, HandlerReturns(a) \/ HandlerErrs(a) PROVE QTypeOK'
  BY <1>9, <1>10 DEF HandlerReturns, HandlerErrs, QTypeOK
<1>11. ASSUME NEW a \in Attempt, Ack(a) PROVE QTypeOK'
  BY <1>11, AttemptParts DEF Ack, Ends, Phase, QTypeOK
<1>12. ASSUME NEW a \in Attempt, AckFails(a) PROVE QTypeOK'
  BY <1>12 DEF AckFails, Ends, Phase, QTypeOK
<1>13. ASSUME NEW a \in Attempt, CallFails(a) PROVE QTypeOK'
  BY <1>13 DEF CallFails, QTypeOK
<1>14. CASE UNCHANGED qvars
  BY <1>14 DEF qvars, QTypeOK
<1>15. QED
  BY <1>1, <1>2, <1>3, <1>4, <1>5, <1>6, <1>7, <1>8, <1>10, <1>11, <1>12, <1>13, <1>14
  DEF QNext, WorkerStep

\* Every reachable state of the queue is well typed.
THEOREM QTypeCorrect == QSpec => []QTypeOK
<1>1. QInit => QTypeOK
  BY QueueAssumption DEF QInit, QTypeOK, Phase
<1>2. QED BY <1>1, QTypeStep, PTL DEF QSpec

-----------------------------------------------------------------------------
(***************************************************************************)
(* No accepted job is lost.                                                *)
(***************************************************************************)

\* What happens to the streams and the group in any step other than an XADD,
\* the creation of the group and a read: nothing.
LEMMA StreamsFrame ==
    ASSUME QNext,
           \A j \in Job : ~Enqueue(j),
           \A w \in Worker : ~StartWorker(w) /\ ~Read(w)
    PROVE  UNCHANGED <<log, base, cursor>>
BY DEF QNext, WorkerStep, Autoclaim, Spawn, Shutdown, Exit, Crash, HandlerReturns,
       HandlerErrs, CallFails, ToAck, Ack, AckFails

\* An XADD appends one entry to the stream of its job.
LEMMA EnqueueLog ==
    ASSUME QTypeOK, NEW j \in Job, Enqueue(j), NEW s \in Stream
    PROVE  /\ Len(log'[s]) \in Nat
           /\ Len(log[s]) <= Len(log'[s])
           /\ \A i \in DOMAIN log[s] : i \in DOMAIN log'[s] /\ log'[s][i] = log[s][i]
           /\ \A i \in DOMAIN log'[s] :
                \/ i \in DOMAIN log[s]
                \/ i = Len(log[s]) + 1 /\ s = StreamOf[j] /\ log'[s][i] = j
           /\ s = StreamOf[j] => /\ Len(log[s]) + 1 \in DOMAIN log'[s]
                                 /\ log'[s][Len(log[s]) + 1] = j
<1> USE QueueAssumption
<1>1. log[s] \in Seq(Job)
  BY DEF QTypeOK
<1>2. CASE s = StreamOf[j]
  <2>1. log'[s] = Append(log[s], j)
    BY <1>2 DEF Enqueue, QTypeOK
  <2>2. QED BY <1>1, <1>2, <2>1
<1>3. CASE s # StreamOf[j]
  <2>1. log'[s] = log[s]
    BY <1>3 DEF Enqueue, QTypeOK
  <2>2. QED BY <1>1, <1>3, <2>1
<1>4. QED BY <1>2, <1>3

\* A step takes a job off the pending list only by acknowledging it.
LEMMA PendingOrAcked ==
    ASSUME QTypeOK, QNext
    PROVE  pel \cup acked \subseteq pel' \cup acked'
<1>1. ASSUME NEW w \in Worker, Read(w) PROVE pel \subseteq pel' /\ acked' = acked
  BY <1>1 DEF Read, Receive, Deliver
<1>2. ASSUME NEW w \in Worker, Autoclaim(w) PROVE pel \subseteq pel' /\ acked' = acked
  BY <1>2 DEF Autoclaim, Receive, Deliver
<1>3. ASSUME NEW a \in Attempt, Ack(a) PROVE pel \cup acked \subseteq pel' \cup acked'
  BY <1>3 DEF Ack
<1>4. QED
  BY <1>1, <1>2, <1>3 DEF QNext, WorkerStep, Enqueue, StartWorker, Spawn, Shutdown,
     Exit, Crash, HandlerReturns, HandlerErrs, CallFails, ToAck, AckFails

\* What XADD, the creation of the group and a read do to the streams.
LEMMA LogSoundStep == QTypeOK /\ LogSound /\ [QNext]_qvars => LogSound'
<1> SUFFICES ASSUME QTypeOK, LogSound, [QNext]_qvars PROVE LogSound'
  OBVIOUS
<1> USE QueueAssumption
<1>0. \A s \in Stream : /\ log[s] \in Seq(Job)
                        /\ Len(log[s]) \in Nat
                        /\ cursor[s] \in Nat
  BY DEF QTypeOK
<1>1. ASSUME NEW j \in Job, Enqueue(j) PROVE LogSound'
  <2>1. \A s \in Stream : /\ Len(log'[s]) \in Nat
                          /\ Len(log[s]) <= Len(log'[s])
                          /\ \A i \in DOMAIN log'[s] : StreamOf[log'[s][i]] = s
    BY <1>0, <1>1, EnqueueLog DEF LogSound
  <2>2. cursor' = cursor
    BY <1>1 DEF Enqueue
  <2>3. QED BY <1>0, <2>1, <2>2 DEF LogSound
<1>2. ASSUME NEW w \in Worker, StartWorker(w) PROVE LogSound'
  <2>1. log' = log /\ \A s \in Stream : cursor'[s] \in {cursor[s], Len(log[s])}
    BY <1>2 DEF StartWorker, ensure_group
  <2>2. QED BY <1>0, <2>1 DEF LogSound
<1>3. ASSUME NEW w \in Worker, Read(w) PROVE LogSound'
  <2>1. log' = log /\ \A s \in Stream : cursor'[s] = ReadUpTo(s)
    BY <1>3 DEF Read
  <2>2. \A s \in Stream : ReadUpTo(s) <= Len(log[s])
    BY ReadUpToBounds DEF LogSound
  <2>3. QED BY <2>1, <2>2 DEF LogSound
<1>4. CASE /\ QNext
           /\ \A j \in Job : ~Enqueue(j)
           /\ \A w \in Worker : ~StartWorker(w) /\ ~Read(w)
  BY <1>4, StreamsFrame DEF LogSound
<1>5. CASE UNCHANGED qvars
  BY <1>5 DEF qvars, LogSound
<1>6. QED BY <1>1, <1>2, <1>3, <1>4, <1>5

\* No step loses an entry.
LEMMA NothingLostStep ==
    QTypeOK /\ LogSound /\ NothingLost /\ [QNext]_qvars => NothingLost'
<1> SUFFICES ASSUME QTypeOK, LogSound, NothingLost, [QNext]_qvars PROVE NothingLost'
  OBVIOUS
<1> USE QueueAssumption
<1>0. \A s \in Stream : /\ log[s] \in Seq(Job)
                        /\ Len(log[s]) \in Nat
                        /\ DOMAIN log[s] = 1 .. Len(log[s])
                        /\ cursor[s] \in Nat
                        /\ base[s] \in Nat \cup {NoGroup}
  BY DEF QTypeOK
<1>1. ASSUME NEW j \in Job, Enqueue(j) PROVE NothingLost'
  <2>1. UNCHANGED <<base, cursor, pel, acked>>
    BY <1>1 DEF Enqueue
  <2>2. QED BY <1>0, <1>1, <2>1, EnqueueLog DEF LogSound, NothingLost
<1>2. ASSUME NEW w \in Worker, StartWorker(w) PROVE NothingLost'
  <2>1. UNCHANGED <<log, pel, acked>>
    BY <1>2 DEF StartWorker
  <2>2. \A s \in Stream : \/ base'[s] = base[s] /\ cursor'[s] = cursor[s]
                          \/ base'[s] = Len(log[s]) /\ cursor'[s] = Len(log[s])
    BY <1>2 DEF StartWorker, ensure_group
  <2>3. QED BY <1>0, <2>1, <2>2 DEF LogSound, NothingLost, NoGroup
<1>3. ASSUME NEW w \in Worker, Read(w) PROVE NothingLost'
  <2>1. /\ UNCHANGED <<log, base, acked>>
        /\ pel' = pel \cup NewEntries
        /\ \A s \in Stream : cursor'[s] = ReadUpTo(s)
    BY <1>3 DEF Read, Receive, Deliver
  <2>2. \A s \in Stream : ReadUpTo(s) \in Nat
    BY ReadUpToBounds DEF LogSound
  <2>3. \A s \in Stream : \A i \in DOMAIN log[s] :
           cursor[s] < i /\ i <= ReadUpTo(s) => log[s][i] \in NewEntries
    <3>1. SUFFICES ASSUME NEW s \in Stream, NEW i \in DOMAIN log[s],
                          cursor[s] < i, i <= ReadUpTo(s)
                   PROVE  log[s][i] \in NewEntries
      OBVIOUS
    <3>2. log[s][i] \in Job /\ StreamOf[log[s][i]] = s
      BY <1>0 DEF LogSound
    <3>3. i \in (cursor[s] + 1) .. ReadUpTo(s)
      BY <1>0, <2>2, <3>1
    <3>4. QED BY <3>2, <3>3 DEF NewEntries
  <2>4. QED BY <1>0, <2>1, <2>2, <2>3 DEF NothingLost
<1>4. CASE /\ QNext
           /\ \A j \in Job : ~Enqueue(j)
           /\ \A w \in Worker : ~StartWorker(w) /\ ~Read(w)
  BY <1>4, StreamsFrame, PendingOrAcked DEF NothingLost
<1>5. CASE UNCHANGED qvars
  BY <1>5 DEF qvars, NothingLost
<1>6. QED BY <1>1, <1>2, <1>3, <1>4, <1>5

\* Every entry the group has passed is pending or acknowledged, for any number
\* of jobs, workers, crashes and failed calls.
THEOREM NothingLostCorrect == QSpec => []NothingLost
<1>1. QInit => LogSound /\ NothingLost
  BY DEF QInit, LogSound, NothingLost
<1>2. QED BY <1>1, QTypeCorrect, LogSoundStep, NothingLostStep, PTL DEF QSpec

\* Where the group exists before the first job, as on every deployment but the
\* first, nothing lies behind it undelivered: only the start of a fresh
\* deployment can skip a job, as the run queue_fresh shows.
THEOREM NothingSkippedCorrect == QSpec => [](GroupAtStart => NothingSkipped)
<1> DEFINE Based == GroupAtStart => \A s \in Stream : base[s] = 0
<1>1. QInit => Based
  BY DEF QInit
<1>2. Based /\ [QNext]_qvars => Based'
  <2> SUFFICES ASSUME Based, [QNext]_qvars PROVE Based'
    OBVIOUS
  <2>1. base' = base \/ ensure_group
    BY DEF QNext, Enqueue, WorkerStep, StartWorker, Read, Autoclaim, Spawn, Shutdown, Exit, Crash,
       HandlerReturns, HandlerErrs, CallFails, ToAck, Ack, AckFails, qvars
  <2>2. QED BY <2>1 DEF ensure_group, NoGroup
<1>3. Based /\ QTypeOK /\ NothingLost => (GroupAtStart => NothingSkipped)
  BY DEF NothingLost, NothingSkipped, NoGroup, QTypeOK
<1> HIDE DEF Based
<1>4. QED BY <1>1, <1>2, <1>3, NothingLostCorrect, QTypeCorrect, PTL DEF QSpec

-----------------------------------------------------------------------------
(***************************************************************************)
(* The queue implements AtLeastOnce (its safety half).                     *)
(***************************************************************************)

\* An XADD adds its job, and no job else, to the jobs on the streams.
LEMMA EnqueueAdds ==
    ASSUME QTypeOK, NEW j \in Job, Enqueue(j)
    PROVE  Enqueued' = Enqueued \cup {j}
<1>1. ASSUME NEW k \in Job PROVE k \in Enqueued' <=> k \in Enqueued \/ k = j
  <2>1. StreamOf[k] \in Stream
    BY QueueAssumption
  <2>2. k \in Enqueued \/ k = j => k \in Enqueued'
    BY <2>1, EnqueueLog DEF Enqueued
  <2>3. k \in Enqueued' => k \in Enqueued \/ k = j
    BY <2>1, EnqueueLog DEF Enqueued
  <2>4. QED BY <2>2, <2>3
<1>2. Enqueued \subseteq Job /\ Enqueued' \subseteq Job
  BY DEF Enqueued
<1>3. QED BY <1>1, <1>2

\* Entries come from the streams.
LEMMA NewEntriesEnqueued ==
    ASSUME QTypeOK, LogSound PROVE NewEntries \subseteq Enqueued
<1> SUFFICES ASSUME NEW j \in NewEntries PROVE j \in Enqueued
  OBVIOUS
<1> USE QueueAssumption
<1>1. j \in Job
  BY DEF NewEntries
<1>2. PICK i \in (cursor[StreamOf[j]] + 1) .. ReadUpTo(StreamOf[j]) :
         log[StreamOf[j]][i] = j
  BY DEF NewEntries
<1>3. /\ StreamOf[j] \in Stream
      /\ log[StreamOf[j]] \in Seq(Job)
      /\ cursor[StreamOf[j]] \in Nat
  BY <1>1 DEF QTypeOK
<1>4. /\ ReadUpTo(StreamOf[j]) \in Nat
      /\ ReadUpTo(StreamOf[j]) <= Len(log[StreamOf[j]])
  BY <1>3, ReadUpToBounds DEF LogSound
<1>5. i \in DOMAIN log[StreamOf[j]]
  BY <1>2, <1>3, <1>4
<1>6. QED BY <1>1, <1>2, <1>5 DEF Enqueued

\* The order of a job's life is an invariant.
LEMMA InOrderStep ==
    QTypeOK /\ LogSound /\ InOrder /\ [QNext]_qvars => InOrder'
<1> SUFFICES ASSUME QTypeOK, LogSound, InOrder, [QNext]_qvars PROVE InOrder'
  OBVIOUS
<1> USE QueueAssumption
<1>1. ASSUME NEW j \in Job, Enqueue(j) PROVE InOrder'
  <2>1. Enqueued \subseteq Enqueued'
    BY <1>1, EnqueueAdds
  <2>2. UNCHANGED <<pel, handled, pc, owner>>
    BY <1>1 DEF Enqueue
  <2>3. QED BY <2>1, <2>2 DEF InOrder
<1>2. ASSUME NEW w \in Worker, NEW D \in SUBSET Enqueued, Receive(D, w),
             UNCHANGED <<log, handled>>
      PROVE  InOrder'
  <2>1. Enqueued' = Enqueued
    BY <1>2 DEF Enqueued
  <2>2. PICK v \in Worker \cup {Nobody}, to \in {"batch", "over"} : Deliver(D, v, to)
    BY <1>2 DEF Receive
  <2>3. pel' = pel \cup D
    BY <2>2 DEF Deliver
  <2>4. \A a \in Attempt : \/ pc'[a] = pc[a] /\ owner'[a] = owner[a]
                           \/ a[1] \in D /\ pc'[a] \in {"batch", "over"}
    BY <2>2 DEF Deliver
  <2>5. QED BY <1>2, <2>1, <2>3, <2>4 DEF InOrder
<1>3. ASSUME NEW w \in Worker, Read(w) PROVE InOrder'
  BY <1>2, <1>3, NewEntriesEnqueued DEF Read
<1>4. ASSUME NEW w \in Worker, Autoclaim(w) PROVE InOrder'
  <2>1. PICK C \in SUBSET pel : Receive(C, w)
    BY <1>4 DEF Autoclaim
  <2>2. C \in SUBSET Enqueued
    BY <2>1 DEF InOrder
  <2>3. QED BY <1>2, <1>4, <2>1, <2>2 DEF Autoclaim
<1>5. ASSUME NEW w \in Worker, NEW a \in Attempt, Spawn(w, a) PROVE InOrder'
  <2>1. Enqueued' = Enqueued
    BY <1>5 DEF Spawn, Enqueued
  <2>2. pc[a] # "none" /\ \A b \in Attempt : pc'[b] = IF b = a THEN "run" ELSE pc[b]
    BY <1>5 DEF Spawn, Batch, QTypeOK
  <2>3. QED BY <1>5, <2>1, <2>2 DEF Spawn, InOrder
<1>6. ASSUME NEW A \in SUBSET Attempt, Die(A), \A a \in A : pc[a] # "none",
             UNCHANGED <<log, pel, handled>>
      PROVE  InOrder'
  <2>1. Enqueued' = Enqueued
    BY <1>6 DEF Enqueued
  <2>2. QED BY <1>6, <2>1 DEF Die, InOrder
<1>7. ASSUME NEW w \in Worker, Shutdown(w) PROVE InOrder'
  <2>1. Batch(w) \in SUBSET Attempt /\ \A a \in Batch(w) : pc[a] # "none"
    BY DEF Batch
  <2>2. QED BY <1>6, <1>7, <2>1 DEF Shutdown
<1>8. ASSUME NEW w \in Worker, Exit(w) \/ StartWorker(w) PROVE InOrder'
  <2>1. UNCHANGED <<log, pel, handled, pc, owner>>
    BY <1>8 DEF Exit, StartWorker
  <2>2. QED BY <2>1 DEF InOrder, Enqueued
<1>9. ASSUME NEW a \in Attempt, ToAck(a) PROVE InOrder'
  <2>1. Enqueued' = Enqueued /\ pel' = pel /\ handled' = handled \cup {a[1]}
    BY <1>9 DEF ToAck, Enqueued
  <2>2. pc[a] = "run" /\ \A b \in Attempt : pc'[b] = IF b = a THEN "ack" ELSE pc[b]
    BY <1>9 DEF ToAck, QTypeOK
  <2>3. owner' = owner
    BY <1>9 DEF ToAck
  <2>4. QED BY <2>1, <2>2, <2>3 DEF InOrder
<1>10. ASSUME NEW a \in Attempt, Ack(a) \/ AckFails(a) PROVE InOrder'
  <2>1. Enqueued' = Enqueued /\ handled' = handled /\ pel' \subseteq pel
    BY <1>10 DEF Ack, AckFails, Enqueued
  <2>2. /\ pc[a] = "ack"
        /\ \A b \in Attempt : /\ pc'[b] = IF b = a THEN "over" ELSE pc[b]
                              /\ owner'[b] = IF b = a THEN Nobody ELSE owner[b]
    BY <1>10 DEF Ack, AckFails, Ends, QTypeOK
  <2>3. QED BY <2>1, <2>2 DEF InOrder
<1>11. ASSUME NEW w \in Worker, Crash(w) PROVE InOrder'
  <2>1. Enqueued' = Enqueued /\ UNCHANGED <<pel, handled>>
    BY <1>11 DEF Crash, Enqueued
  <2>2. \A a \in Attempt : \/ pc'[a] = pc[a] /\ owner'[a] = owner[a]
                           \/ owner[a] = w /\ pc'[a] = "over"
    BY <1>11 DEF Crash, Die
  <2>3. QED BY <2>1, <2>2 DEF InOrder
<1>12. CASE UNCHANGED qvars \/ \E a \in Attempt : CallFails(a)
  BY <1>12 DEF qvars, CallFails, InOrder, Enqueued
<1>13. QED
  BY <1>1, <1>3, <1>4, <1>5, <1>7, <1>8, <1>9, <1>10, <1>11, <1>12
  DEF QNext, WorkerStep, HandlerReturns, HandlerErrs

\* Every step of the queue is a step of AtLeastOnce, or changes nothing there.
LEMMA PromiseStep ==
    QTypeOK /\ LogSound /\ InOrder /\ [QNext]_qvars
        => [Promise!Next]_(Promise!vars)
<1> SUFFICES ASSUME QTypeOK, LogSound, InOrder, [QNext]_qvars
             PROVE  Promise!Next \/ UNCHANGED <<Enqueued, handled, acked>>
  BY DEF Promise!vars
<1> USE QueueAssumption
<1>1. ASSUME NEW j \in Job, Enqueue(j) PROVE Promise!Next
  <2>1. Enqueued' = Enqueued \cup {j}
    BY <1>1, EnqueueAdds
  <2>2. j \notin Enqueued /\ UNCHANGED <<handled, acked>>
    BY <1>1 DEF Enqueue
  <2>3. QED BY <2>1, <2>2 DEF Promise!Next, Promise!Submit
<1>2. ASSUME NEW a \in Attempt, ToAck(a) PROVE Promise!Next
  <2>1. a[1] \in Job /\ a[1] \in Enqueued
    BY <1>2, AttemptParts DEF ToAck, InOrder
  <2>2. /\ Enqueued' = Enqueued
        /\ acked' = acked
        /\ handled' = handled \cup {a[1]}
    BY <1>2 DEF ToAck, Enqueued
  <2>3. QED BY <2>1, <2>2 DEF Promise!Next, Promise!Handle
<1>3. ASSUME NEW a \in Attempt, Ack(a) PROVE Promise!Next
  <2>1. a[1] \in Job /\ a[1] \in handled
    BY <1>3, AttemptParts DEF Ack, InOrder
  <2>2. /\ Enqueued' = Enqueued
        /\ handled' = handled
        /\ acked' = acked \cup {a[1]}
    BY <1>3 DEF Ack, Enqueued
  <2>3. QED BY <2>1, <2>2 DEF Promise!Next, Promise!Settle
<1>4. ASSUME UNCHANGED <<log, handled, acked>>
      PROVE  UNCHANGED <<Enqueued, handled, acked>>
  BY <1>4 DEF Enqueued
<1>5. CASE \E w \in Worker : WorkerStep(w)
  BY <1>4, <1>5 DEF WorkerStep, StartWorker, Read, Autoclaim, Spawn, Shutdown, Exit, Crash
<1>6. CASE (\E a \in Attempt : AckFails(a) \/ CallFails(a)) \/ UNCHANGED qvars
  BY <1>4, <1>6 DEF AckFails, CallFails, qvars
<1>7. QED
  BY <1>1, <1>2, <1>3, <1>5, <1>6 DEF QNext, HandlerReturns, HandlerErrs

\* The queue implements at-least-once handling: nothing is handled that was not
\* enqueued and nothing is acknowledged that was not handled, with any number
\* of workers, crashes, redeliveries and failed calls.
THEOREM ImplementsSafe == QSpec => Promise!Safe
<1>1. QInit => Promise!Init /\ LogSound /\ InOrder
  <2> SUFFICES ASSUME QInit PROVE Promise!Init /\ LogSound /\ InOrder
    OBVIOUS
  <2>1. Enqueued = {}
    BY QueueAssumption DEF QInit, Enqueued
  <2>2. LogSound
    BY DEF QInit, LogSound
  <2>3. Promise!Init /\ InOrder
    BY <2>1 DEF QInit, Promise!Init, InOrder
  <2>4. QED BY <2>2, <2>3
<1>2. QED
  BY <1>1, QTypeCorrect, LogSoundStep, InOrderStep, PromiseStep, PTL
  DEF QSpec, Promise!Safe

-----------------------------------------------------------------------------
(***************************************************************************)
(* One attempt at a time, as long as no job outlasts CLAIM_STALE_MS.       *)
(***************************************************************************)

\* Between deliveries attempts only move on or end.
LEMMA QuietStep ==
    ASSUME QTypeOK, InOrder, [QNext]_qvars,
           \A w \in Worker : ~Read(w) /\ ~Autoclaim(w)
    PROVE  /\ deliv' = deliv
           /\ pel' \subseteq pel
           /\ \A a \in Attempt : pc'[a] # pc[a] => pc[a] # "none" /\ (Live(a)' => Live(a))
<1> DEFINE Quiet == /\ deliv' = deliv
                    /\ pel' \subseteq pel
                    /\ \A a \in Attempt : pc'[a] # pc[a] =>
                          pc[a] # "none" /\ (Live(a)' => Live(a))
<1> USE QueueAssumption
<1>1. ASSUME NEW w \in Worker, NEW a \in Attempt, Spawn(w, a) PROVE Quiet
  BY <1>1 DEF Spawn, Batch, Live, QTypeOK
<1>2. ASSUME NEW w \in Worker, Shutdown(w) PROVE Quiet
  BY <1>2 DEF Shutdown, Die, Batch, Live
<1>3. ASSUME NEW w \in Worker, Crash(w) PROVE Quiet
  <2>1. w # Nobody
    OBVIOUS
  <2>2. QED BY <1>3, <2>1 DEF Crash, Die, Live, InOrder
<1>4. ASSUME NEW a \in Attempt, ToAck(a) PROVE Quiet
  BY <1>4 DEF ToAck, Live, QTypeOK
<1>5. ASSUME NEW a \in Attempt, Ack(a) \/ AckFails(a) PROVE Quiet
  BY <1>5 DEF Ack, AckFails, Ends, Live, QTypeOK
<1>6. ASSUME UNCHANGED <<deliv, pel, pc>> PROVE Quiet
  BY <1>6
<1>7. ASSUME \/ \E j \in Job : Enqueue(j)
             \/ \E w \in Worker : StartWorker(w) \/ Exit(w)
             \/ \E a \in Attempt : CallFails(a)
             \/ UNCHANGED qvars
      PROVE  Quiet
  BY <1>6, <1>7 DEF Enqueue, StartWorker, Exit, CallFails, qvars
<1> HIDE DEF Quiet
<1>8. ASSUME \E w \in Worker : WorkerStep(w) PROVE Quiet
  BY <1>1, <1>2, <1>3, <1>7, <1>8 DEF WorkerStep
<1>9. ASSUME \E a \in Attempt : HandlerReturns(a) \/ HandlerErrs(a) PROVE Quiet
  BY <1>4, <1>9 DEF HandlerReturns, HandlerErrs
<1>10. Quiet
  BY <1>5, <1>7, <1>8, <1>9 DEF QNext
<1>11. QED BY <1>10 DEF Quiet

\* The group never moves backwards.
LEMMA CursorGrows ==
    ASSUME QTypeOK, LogSound, [QNext]_qvars, NEW s \in Stream
    PROVE  cursor[s] <= cursor'[s]
<1>0. cursor[s] \in Nat /\ Len(log[s]) \in Nat /\ cursor[s] <= Len(log[s])
  BY DEF QTypeOK, LogSound
<1>1. ASSUME NEW w \in Worker, StartWorker(w) PROVE cursor[s] <= cursor'[s]
  BY <1>0, <1>1 DEF StartWorker, ensure_group
<1>2. ASSUME NEW w \in Worker, Read(w) PROVE cursor[s] <= cursor'[s]
  <2>1. cursor[s] <= ReadUpTo(s)
    BY <1>0, ReadUpToBounds
  <2>2. QED BY <1>2, <2>1 DEF Read
<1>3. ASSUME cursor' = cursor PROVE cursor[s] <= cursor'[s]
  BY <1>0, <1>3
<1>4. CASE UNCHANGED qvars \/ \E j \in Job : Enqueue(j)
  BY <1>3, <1>4 DEF qvars, Enqueue
<1>5. QED BY <1>1, <1>2, <1>3, <1>4, StreamsFrame

\* Each part of DeliveredInOrder is kept; first the order of the streams.
LEMMA DistinctStep ==
    ASSUME QTypeOK, DeliveredInOrder, [QNext]_qvars
    PROVE  \A s \in Stream : \A i, k \in DOMAIN log'[s] : log'[s][i] = log'[s][k] => i = k
<1> SUFFICES ASSUME NEW s \in Stream
             PROVE  \A i, k \in DOMAIN log'[s] : log'[s][i] = log'[s][k] => i = k
  OBVIOUS
<1>1. ASSUME NEW j \in Job, Enqueue(j)
      PROVE  \A i, k \in DOMAIN log'[s] : log'[s][i] = log'[s][k] => i = k
  <2>1. s = StreamOf[j] => \A i \in DOMAIN log[s] : log[s][i] # j
    BY <1>1 DEF Enqueue, Enqueued
  <2>2. QED BY <1>1, <2>1, EnqueueLog DEF DeliveredInOrder
<1>2. ASSUME log' = log
      PROVE  \A i, k \in DOMAIN log'[s] : log'[s][i] = log'[s][k] => i = k
  BY <1>2 DEF DeliveredInOrder
<1>3. CASE UNCHANGED qvars \/ \E w \in Worker : StartWorker(w) \/ Read(w)
  BY <1>2, <1>3 DEF qvars, StartWorker, Read
<1>4. QED BY <1>1, <1>2, <1>3, StreamsFrame

\* A delivered job stays behind the group's position.
LEMMA BehindStep ==
    ASSUME QTypeOK, LogSound, [QNext]_qvars, NEW j \in Job,
           NEW i \in DOMAIN log[StreamOf[j]], i <= cursor[StreamOf[j]],
           log[StreamOf[j]][i] = j
    PROVE  \E k \in DOMAIN log'[StreamOf[j]] :
              k <= cursor'[StreamOf[j]] /\ log'[StreamOf[j]][k] = j
<1> DEFINE s == StreamOf[j]
<1>1. s \in Stream
  BY QueueAssumption
<1>2. i \in DOMAIN log'[s] /\ log'[s][i] = j
  <2>1. CASE \E k \in Job : Enqueue(k)
    BY <1>1, <2>1, EnqueueLog
  <2>2. CASE UNCHANGED qvars \/ \E w \in Worker : StartWorker(w) \/ Read(w)
    BY <2>2 DEF qvars, StartWorker, Read
  <2>3. QED BY <2>1, <2>2, StreamsFrame
<1>3. i <= cursor'[s]
  <2>1. i \in Nat /\ cursor[s] \in Nat
    BY <1>1 DEF QTypeOK
  <2>2. cursor'[s] \in Nat
    BY <1>1, QTypeStep DEF QTypeOK
  <2>3. cursor[s] <= cursor'[s]
    BY <1>1, CursorGrows
  <2>4. QED BY <2>1, <2>2, <2>3
<1>4. QED BY <1>2, <1>3

\* A read returns jobs that have never been delivered.
LEMMA NewIsUndelivered ==
    ASSUME QTypeOK, LogSound, DeliveredInOrder, NEW j \in NewEntries
    PROVE  deliv[j] = 0
<1> SUFFICES ASSUME deliv[j] # 0 PROVE FALSE
  OBVIOUS
<1> USE QueueAssumption
<1>1. j \in Job /\ StreamOf[j] \in Stream
  BY DEF NewEntries
<1>2. PICK i \in (cursor[StreamOf[j]] + 1) .. ReadUpTo(StreamOf[j]) :
         log[StreamOf[j]][i] = j
  BY DEF NewEntries
<1>3. deliv[j] > 0
  BY <1>1 DEF QTypeOK
<1>4. PICK k \in DOMAIN log[StreamOf[j]] :
         k <= cursor[StreamOf[j]] /\ log[StreamOf[j]][k] = j
  BY <1>1, <1>3 DEF DeliveredInOrder
<1>5. /\ log[StreamOf[j]] \in Seq(Job)
      /\ cursor[StreamOf[j]] \in Nat
      /\ ReadUpTo(StreamOf[j]) \in Nat
      /\ ReadUpTo(StreamOf[j]) <= Len(log[StreamOf[j]])
  BY <1>1, ReadUpToBounds DEF QTypeOK, LogSound
<1>6. i \in DOMAIN log[StreamOf[j]] /\ cursor[StreamOf[j]] < i
  BY <1>2, <1>5
<1>7. i = k
  BY <1>1, <1>2, <1>4, <1>6 DEF DeliveredInOrder
<1>8. QED BY <1>4, <1>5, <1>6, <1>7

\* What a delivery of the jobs D does to the attempts: D's jobs get one more,
\* in phase batch or over, and nothing else changes.
LEMMA DeliverEffect ==
    ASSUME QTypeOK, NEW D \in SUBSET Job, NEW w \in Worker, Receive(D, w)
    PROVE  /\ pel' = pel \cup D
           /\ \A j \in Job : deliv'[j] = IF j \in D THEN deliv[j] + 1 ELSE deliv[j]
           /\ \A j \in Job : \A n \in 1 .. MaxDeliveries :
                 (j \notin D \/ n # deliv[j] + 1) => pc'[<<j, n>>] = pc[<<j, n>>]
<1>1. PICK v \in Worker \cup {Nobody}, to \in {"batch", "over"} : Deliver(D, v, to)
  BY DEF Receive
<1>2. \A j \in Job : \A n \in 1 .. MaxDeliveries : <<j, n>> \in Attempt
  BY DEF Attempt
<1>3. QED BY <1>1, <1>2 DEF Deliver

\* Delivery counters only grow.
LEMMA DeliveriesGrow ==
    ASSUME QTypeOK, InOrder, [QNext]_qvars, NEW j \in Job
    PROVE  deliv[j] \in Nat /\ deliv'[j] \in Nat /\ deliv[j] <= deliv'[j]
<1>1. deliv[j] \in Nat
  BY DEF QTypeOK
<1>2. CASE \A w \in Worker : ~Read(w) /\ ~Autoclaim(w)
  BY <1>1, <1>2, QuietStep
<1>3. ASSUME NEW w \in Worker, Read(w) \/ Autoclaim(w)
      PROVE  deliv'[j] = deliv[j] \/ deliv'[j] = deliv[j] + 1
  <2>1. PICK D \in SUBSET Job : Receive(D, w)
    BY <1>3 DEF Read, Autoclaim, NewEntries, QTypeOK
  <2>2. QED BY <2>1, DeliverEffect
<1>4. QED BY <1>1, <1>2, <1>3

\* DeliveredInOrder survives a delivery of jobs that the group has passed.
LEMMA DeliverInOrder ==
    ASSUME QTypeOK, LogSound, DeliveredInOrder, [QNext]_qvars,
           NEW D \in SUBSET Job, NEW w \in Worker, Receive(D, w),
           \A j \in D : \E i \in DOMAIN log'[StreamOf[j]] :
              i <= cursor'[StreamOf[j]] /\ log'[StreamOf[j]][i] = j
    PROVE  DeliveredInOrder'
<1> USE QueueAssumption
<1>1. \A j \in Job : deliv[j] \in Nat
  BY DEF QTypeOK
<1>2. ASSUME NEW j \in Job, NEW n \in 1 .. MaxDeliveries, deliv'[j] < n
      PROVE  pc'[<<j, n>>] = "none"
  <2>1. /\ deliv'[j] = IF j \in D THEN deliv[j] + 1 ELSE deliv[j]
        /\ (j \notin D \/ n # deliv[j] + 1) => pc'[<<j, n>>] = pc[<<j, n>>]
    BY DeliverEffect
  <2>2. deliv[j] < n /\ (j \notin D \/ n # deliv[j] + 1)
    BY <1>1, <1>2, <2>1
  <2>3. QED BY <2>1, <2>2 DEF DeliveredInOrder
<1>3. ASSUME NEW j \in Job, deliv'[j] > 0
      PROVE  \E i \in DOMAIN log'[StreamOf[j]] :
                i <= cursor'[StreamOf[j]] /\ log'[StreamOf[j]][i] = j
  <2>1. CASE j \in D
    BY <2>1
  <2>2. CASE j \notin D
    <3>1. deliv[j] > 0
      BY <1>3, <2>2, DeliverEffect
    <3>2. PICK i \in DOMAIN log[StreamOf[j]] :
             i <= cursor[StreamOf[j]] /\ log[StreamOf[j]][i] = j
      BY <3>1 DEF DeliveredInOrder
    <3>3. QED BY <3>2, BehindStep
  <2>3. QED BY <2>1, <2>2
<1>4. ASSUME NEW j \in pel' PROVE deliv'[j] > 0
  <2>1. pel' = pel \cup D /\ pel \subseteq Job
    BY DeliverEffect DEF QTypeOK
  <2>2. deliv'[j] = IF j \in D THEN deliv[j] + 1 ELSE deliv[j]
    BY <2>1, DeliverEffect
  <2>3. QED BY <1>1, <2>1, <2>2 DEF DeliveredInOrder
<1>5. QED BY <1>2, <1>3, <1>4, DistinctStep DEF DeliveredInOrder

\* DeliveredInOrder is inductive.
LEMMA DeliveredStep ==
    QTypeOK /\ LogSound /\ InOrder /\ DeliveredInOrder /\ [QNext]_qvars
        => DeliveredInOrder'
<1> SUFFICES ASSUME QTypeOK, LogSound, InOrder, DeliveredInOrder, [QNext]_qvars
             PROVE  DeliveredInOrder'
  OBVIOUS
<1> USE QueueAssumption
<1>1. ASSUME NEW w \in Worker, Read(w) PROVE DeliveredInOrder'
  <2>1. NewEntries \in SUBSET Job /\ Receive(NewEntries, w)
    BY <1>1 DEF Read, NewEntries
  <2>2. ASSUME NEW j \in NewEntries
        PROVE  \E i \in DOMAIN log'[StreamOf[j]] :
                  i <= cursor'[StreamOf[j]] /\ log'[StreamOf[j]][i] = j
    <3>1. j \in Job /\ StreamOf[j] \in Stream
      BY DEF NewEntries
    <3>2. PICK i \in (cursor[StreamOf[j]] + 1) .. ReadUpTo(StreamOf[j]) :
             log[StreamOf[j]][i] = j
      BY DEF NewEntries
    <3>3. /\ log[StreamOf[j]] \in Seq(Job)
          /\ cursor[StreamOf[j]] \in Nat
          /\ ReadUpTo(StreamOf[j]) \in Nat
          /\ ReadUpTo(StreamOf[j]) <= Len(log[StreamOf[j]])
      BY <3>1, ReadUpToBounds DEF QTypeOK, LogSound
    <3>4. i \in DOMAIN log[StreamOf[j]] /\ i <= ReadUpTo(StreamOf[j])
      BY <3>2, <3>3
    <3>5. log' = log /\ cursor'[StreamOf[j]] = ReadUpTo(StreamOf[j])
      BY <1>1, <3>1 DEF Read
    <3>6. QED BY <3>2, <3>4, <3>5
  <2>3. QED BY <2>1, <2>2, DeliverInOrder
<1>2. ASSUME NEW w \in Worker, Autoclaim(w) PROVE DeliveredInOrder'
  <2>1. PICK C \in SUBSET pel : Receive(C, w)
    BY <1>2 DEF Autoclaim
  <2>2. C \in SUBSET Job
    BY <2>1 DEF QTypeOK
  <2>3. UNCHANGED <<log, cursor>>
    BY <1>2 DEF Autoclaim
  <2>4. \A j \in C : \E i \in DOMAIN log[StreamOf[j]] :
           i <= cursor[StreamOf[j]] /\ log[StreamOf[j]][i] = j
    BY <2>1, <2>2 DEF DeliveredInOrder
  <2>5. QED BY <2>1, <2>2, <2>3, <2>4, DeliverInOrder
<1>3. ASSUME \A w \in Worker : ~Read(w) /\ ~Autoclaim(w) PROVE DeliveredInOrder'
  <2>1. \A j \in Job : \A n \in 1 .. MaxDeliveries : <<j, n>> \in Attempt
    BY DEF Attempt
  <2>2. /\ deliv' = deliv
        /\ pel' \subseteq pel
        /\ \A a \in Attempt : pc'[a] # pc[a] => pc[a] # "none"
    BY <1>3, QuietStep
  <2>3. \A j \in Job : deliv'[j] > 0 =>
           \E i \in DOMAIN log'[StreamOf[j]] :
              i <= cursor'[StreamOf[j]] /\ log'[StreamOf[j]][i] = j
    BY <2>2, BehindStep DEF DeliveredInOrder
  <2>4. QED BY <2>1, <2>2, <2>3, DistinctStep DEF DeliveredInOrder
<1>4. QED BY <1>1, <1>2, <1>3

\* A job that is delivered has no live attempt.
LEMMA DeliveredIsDead ==
    ASSUME QTypeOK, LogSound, DeliveredInOrder, ~Overrun,
           NEW w \in Worker, NEW D \in SUBSET Job,
           \/ D = NewEntries
           \/ D \subseteq {j \in pel : Stale(j)},
           NEW j \in D, NEW n \in 1 .. MaxDeliveries
    PROVE  ~Live(<<j, n>>)
<1>1. CASE D = NewEntries
  <2>1. deliv[j] < n
    BY <1>1, NewIsUndelivered, QueueAssumption
  <2>2. QED BY <2>1 DEF DeliveredInOrder, Live
<1>2. CASE D \subseteq {k \in pel : Stale(k)}
  BY <1>2 DEF Stale
<1>3. QED BY <1>1, <1>2

\* A delivery to dead jobs keeps their live attempts unique.
LEMMA OneAttemptDeliver ==
    ASSUME QTypeOK, LogSound, DeliveredInOrder, OneAttemptAtATime, ~Overrun,
           NEW w \in Worker, NEW D \in SUBSET Job, Receive(D, w),
           \/ D = NewEntries
           \/ D \subseteq {j \in pel : Stale(j)}
    PROVE  OneAttemptAtATime'
<1> SUFFICES ASSUME NEW j \in Job, NEW m \in 1 .. MaxDeliveries,
                    NEW n \in 1 .. MaxDeliveries,
                    Live(<<j, m>>)', Live(<<j, n>>)'
             PROVE  m = n
  BY DEF OneAttemptAtATime
<1>1. CASE j \in D
  <2>1. \A k \in 1 .. MaxDeliveries : ~Live(<<j, k>>)
    BY <1>1, DeliveredIsDead
  <2>2. \A k \in 1 .. MaxDeliveries : k # deliv[j] + 1 => pc'[<<j, k>>] = pc[<<j, k>>]
    BY DeliverEffect
  <2>3. m = deliv[j] + 1 /\ n = deliv[j] + 1
    BY <2>1, <2>2 DEF Live
  <2>4. QED BY <2>3
<1>2. CASE j \notin D
  <2>1. pc'[<<j, m>>] = pc[<<j, m>>] /\ pc'[<<j, n>>] = pc[<<j, n>>]
    BY <1>2, DeliverEffect
  <2>2. QED BY <2>1 DEF Live, OneAttemptAtATime
<1>3. QED BY <1>1, <1>2

\* No step creates a second live attempt.
LEMMA OneAttemptStep ==
    QTypeOK /\ LogSound /\ InOrder /\ DeliveredInOrder /\ OneAttemptAtATime
        /\ [QNext]_qvars => OneAttemptAtATime'
<1> SUFFICES ASSUME QTypeOK, LogSound, InOrder, DeliveredInOrder, OneAttemptAtATime,
                    [QNext]_qvars, ~Overrun
             PROVE  OneAttemptAtATime'
  BY DEF OneAttemptAtATime
<1>1. ASSUME NEW w \in Worker, Read(w) PROVE OneAttemptAtATime'
  <2>1. NewEntries \in SUBSET Job /\ Receive(NewEntries, w)
    BY <1>1 DEF Read, NewEntries
  <2>2. QED BY <2>1, OneAttemptDeliver
<1>2. ASSUME NEW w \in Worker, Autoclaim(w) PROVE OneAttemptAtATime'
  <2>1. PICK C \in SUBSET {j \in pel : Stale(j)} : Receive(C, w)
    BY <1>2 DEF Autoclaim
  <2>2. C \in SUBSET Job
    BY <2>1 DEF QTypeOK
  <2>3. QED BY <2>1, <2>2, OneAttemptDeliver
<1>3. ASSUME \A w \in Worker : ~Read(w) /\ ~Autoclaim(w) PROVE OneAttemptAtATime'
  <2>1. \A j \in Job : \A n \in 1 .. MaxDeliveries : <<j, n>> \in Attempt
    BY DEF Attempt
  <2>2. \A a \in Attempt : pc'[a] # pc[a] => (Live(a)' => Live(a))
    BY <1>3, QuietStep
  <2>3. \A a \in Attempt : Live(a)' => Live(a)
    BY <2>2 DEF Live
  <2>4. QED BY <2>1, <2>3 DEF OneAttemptAtATime
<1>4. QED BY <1>1, <1>2, <1>3

\* What the rest of this module builds on.
LEMMA DeliveredInvariant == QSpec => [](LogSound /\ InOrder /\ DeliveredInOrder)
<1>1. QInit => LogSound /\ InOrder /\ DeliveredInOrder
  <2> SUFFICES ASSUME QInit PROVE LogSound /\ InOrder /\ DeliveredInOrder
    OBVIOUS
  <2>1. LogSound
    BY DEF QInit, LogSound
  <2>2. InOrder
    BY DEF QInit, InOrder
  <2>3. \A j \in Job : \A n \in 1 .. MaxDeliveries : <<j, n>> \in Attempt
    BY DEF Attempt
  <2>4. DeliveredInOrder
    BY <2>3 DEF QInit, DeliveredInOrder
  <2>5. QED BY <2>1, <2>2, <2>4
<1>2. QED
  BY <1>1, QTypeCorrect, LogSoundStep, InOrderStep, DeliveredStep, PTL DEF QSpec

\* Two handlers never run the same job at the same time, unless one outlasts
\* CLAIM_STALE_MS: for any number of workers, crashes and redeliveries.
LEMMA OneAttemptCorrect == QSpec => []OneAttemptAtATime
<1>1. QInit => OneAttemptAtATime
  <2>1. \A j \in Job : \A n \in 1 .. MaxDeliveries : <<j, n>> \in Attempt
    BY DEF Attempt
  <2>2. QED BY <2>1 DEF QInit, OneAttemptAtATime, Live
<1>2. QED
  BY <1>1, QTypeCorrect, DeliveredInvariant, OneAttemptStep, PTL DEF QSpec

-----------------------------------------------------------------------------
(***************************************************************************)
(* An acknowledged job never comes back.                                   *)
(***************************************************************************)

\* XACK has taken it off the pending list, and the group is past it.
AckedApart == \A j \in acked : j \notin pel /\ deliv[j] > 0

\* The invariant and the action property in one step: a read returns jobs that
\* were never delivered, a claim pending ones, and neither is acknowledged.
LEMMA AckedStep ==
    ASSUME QTypeOK, LogSound, InOrder, DeliveredInOrder, AckedApart, [QNext]_qvars
    PROVE  AckedApart' /\ \A j \in acked : deliv'[j] = deliv[j]
<1> USE QueueAssumption
<1> DEFINE Kept == AckedApart' /\ \A j \in acked : deliv'[j] = deliv[j]
<1>0. acked \subseteq Job /\ \A j \in Job : deliv[j] \in Nat
  BY DEF QTypeOK
<1>1. ASSUME NEW D \in SUBSET Job, NEW w \in Worker, Receive(D, w),
             D \cap acked = {}, acked' = acked
      PROVE  Kept
  <2>1. pel' = pel \cup D /\ \A j \in acked : deliv'[j] = deliv[j]
    BY <1>0, <1>1, DeliverEffect
  <2>2. QED BY <1>1, <2>1 DEF AckedApart
<1>2. ASSUME NEW w \in Worker, Read(w) PROVE Kept
  <2>1. NewEntries \in SUBSET Job /\ Receive(NewEntries, w) /\ acked' = acked
    BY <1>2 DEF Read, NewEntries
  <2>2. NewEntries \cap acked = {}
    BY NewIsUndelivered DEF AckedApart
  <2>3. QED BY <1>1, <2>1, <2>2
<1>3. ASSUME NEW w \in Worker, Autoclaim(w) PROVE Kept
  <2>1. PICK C \in SUBSET pel : Receive(C, w)
    BY <1>3 DEF Autoclaim
  <2>2. C \in SUBSET Job /\ C \cap acked = {} /\ acked' = acked
    BY <1>3 DEF Autoclaim, QTypeOK, AckedApart
  <2>3. QED BY <1>1, <2>1, <2>2
<1>4. ASSUME NEW a \in Attempt, Ack(a) PROVE Kept
  <2>1. a[1] \in Job /\ a[2] \in 1 .. MaxDeliveries /\ a = <<a[1], a[2]>>
    BY DEF Attempt
  <2>2. ~(deliv[a[1]] < a[2])
    BY <1>4, <2>1 DEF Ack, DeliveredInOrder
  <2>3. deliv[a[1]] > 0
    BY <1>0, <2>1, <2>2
  <2>4. QED BY <1>4, <2>3 DEF Ack, AckedApart
<1>5. ASSUME \A w \in Worker : ~Read(w) /\ ~Autoclaim(w), \A a \in Attempt : ~Ack(a)
      PROVE  Kept
  <2>1. deliv' = deliv /\ pel' \subseteq pel
    BY <1>5, QuietStep
  <2>2. acked' = acked
    BY <1>5 DEF QNext, WorkerStep, Enqueue, StartWorker, Spawn, Shutdown, Exit, Crash,
       HandlerReturns, HandlerErrs, CallFails, ToAck, AckFails, qvars
  <2>3. QED BY <2>1, <2>2 DEF AckedApart
<1> HIDE DEF Kept
<1>6. Kept
  BY <1>2, <1>3, <1>4, <1>5
<1>7. QED BY <1>6 DEF Kept

\* XACK and the pending list, for every queue.
LEMMA AckedInvariant == QSpec => []AckedApart
<1>1. QInit => AckedApart
  BY DEF QInit, AckedApart
<1>2. QTypeOK /\ LogSound /\ InOrder /\ DeliveredInOrder /\ AckedApart /\ [QNext]_qvars
        => AckedApart'
  BY AckedStep
<1>3. QED BY <1>1, <1>2, QTypeCorrect, DeliveredInvariant, PTL DEF QSpec

\* An acknowledged job is never handed out again, with any number of workers,
\* duplicate attempts, crashes and lost replies.
THEOREM AckedCorrect == QSpec => AckedNeverRedelivered
<1> DEFINE Step == \A j \in acked : deliv'[j] = deliv[j]
<1>1. QTypeOK /\ LogSound /\ InOrder /\ DeliveredInOrder /\ AckedApart /\ [QNext]_qvars
        => [Step]_qvars
  BY AckedStep
<1> HIDE DEF Step
<1>2. QSpec => [][Step]_qvars
  BY <1>1, QTypeCorrect, DeliveredInvariant, AckedInvariant, PTL DEF QSpec
<1>3. QED BY <1>2 DEF Step, AckedNeverRedelivered

-----------------------------------------------------------------------------
(***************************************************************************)
(* The life of a task.                                                     *)
(***************************************************************************)

\* A task that runs goes on to its XACK or ends for good; it is never delivered anew.
LEMMA TaskStep ==
    ASSUME QTypeOK, DeliveredInOrder, [QNext]_qvars,
           NEW a \in Attempt, pc[a] \in {"run", "ack", "over"}
    PROVE  pc'[a] \in {"run", "ack", "over"} /\ (pc[a] = "over" => pc'[a] = "over")
<1> USE QueueAssumption
<1>1. ASSUME NEW D \in SUBSET Job, NEW w \in Worker, Receive(D, w)
      PROVE  pc'[a] = pc[a]
  <2>1. PICK j \in Job, n \in 1 .. MaxDeliveries : a = <<j, n>>
    BY DEF Attempt
  <2>2. ~(deliv[j] < n) /\ deliv[j] \in Nat
    BY <2>1 DEF DeliveredInOrder, QTypeOK
  <2>3. n # deliv[j] + 1
    BY <2>2
  <2>4. pc'[<<j, n>>] = pc[<<j, n>>]
    BY <1>1, <2>3, DeliverEffect
  <2>5. QED BY <2>1, <2>4
<1>2. CASE \E w \in Worker : Read(w) \/ Autoclaim(w)
  <2>1. PICK w \in Worker : Read(w) \/ Autoclaim(w)
    BY <1>2
  <2>2. \E D \in SUBSET Job : Receive(D, w)
    BY <2>1 DEF Read, Autoclaim, NewEntries, QTypeOK
  <2>3. QED BY <1>1, <2>2
<1>3. CASE \E w \in Worker : \/ Shutdown(w) \/ Crash(w)
                             \/ \E b \in Attempt : Spawn(w, b)
  BY <1>3 DEF Shutdown, Crash, Die, Spawn, Batch, QTypeOK
<1>4. CASE \E b \in Attempt : \/ HandlerReturns(b) \/ HandlerErrs(b)
                              \/ Ack(b) \/ AckFails(b)
  BY <1>4 DEF HandlerReturns, HandlerErrs, ToAck, Ack, AckFails, Ends, QTypeOK
<1>5. CASE pc' = pc
  BY <1>5
<1>6. CASE \/ \E j \in Job : Enqueue(j)
           \/ \E w \in Worker : StartWorker(w) \/ Exit(w)
           \/ \E b \in Attempt : CallFails(b)
           \/ UNCHANGED qvars
  BY <1>5, <1>6 DEF Enqueue, StartWorker, Exit, CallFails, qvars
<1>7. QED BY <1>2, <1>3, <1>4, <1>6 DEF QNext, WorkerStep

\* A live attempt is a task of some process, and a job that has been delivered is
\* pending until it is acknowledged.
Tracked ==
    /\ \A a \in Attempt : Live(a) => owner[a] \in Worker
    /\ \A j \in Job : deliv[j] > 0 => j \in pel \cup acked

\* Once acknowledged, a job has no task left (unless one was claimed away from
\* a task that is still alive).
NoneLeft ==
    ~Overrun => \A j \in acked : \A n \in 1 .. MaxDeliveries : ~Live(<<j, n>>)

\* Tracked is inductive.
LEMMA TrackedStep ==
    ASSUME QTypeOK, InOrder, Tracked, [QNext]_qvars
    PROVE  Tracked'
<1> USE QueueAssumption
<1>0. \A j \in Job : deliv[j] \in Nat
  BY DEF QTypeOK
<1>1. ASSUME NEW D \in SUBSET Job, NEW w \in Worker, Receive(D, w), acked' = acked
      PROVE  Tracked'
  <2>1. /\ pel' = pel \cup D
        /\ \A j \in Job : deliv'[j] = IF j \in D THEN deliv[j] + 1 ELSE deliv[j]
    BY <1>1, DeliverEffect
  <2>2. \A j \in Job : deliv'[j] > 0 => j \in pel' \cup acked'
    BY <1>1, <2>1 DEF Tracked
  <2>3. ASSUME NEW a \in Attempt, Live(a)' PROVE owner'[a] \in Worker
    BY <1>1, <2>3 DEF Receive, Deliver, Live, Tracked
  <2>4. QED BY <2>2, <2>3 DEF Tracked
<1>2. CASE \E w \in Worker : Read(w) \/ Autoclaim(w)
  <2>1. PICK w \in Worker : Read(w) \/ Autoclaim(w)
    BY <1>2
  <2>2. acked' = acked /\ \E D \in SUBSET Job : Receive(D, w)
    BY <2>1 DEF Read, Autoclaim, NewEntries, QTypeOK
  <2>3. QED BY <1>1, <2>2
<1>3. CASE \A w \in Worker : ~Read(w) /\ ~Autoclaim(w)
  <2>1. /\ deliv' = deliv
        /\ \A a \in Attempt : Live(a)' => Live(a)
    BY <1>3, QuietStep DEF Live
  <2>2. pel \cup acked \subseteq pel' \cup acked'
    BY PendingOrAcked DEF qvars
  <2>3. ASSUME NEW a \in Attempt, Live(a)' PROVE owner'[a] = owner[a]
    <3>1. CASE \E w \in Worker : Shutdown(w) \/ Crash(w)
      BY <2>3, <3>1 DEF Shutdown, Crash, Die, Live
    <3>2. CASE \E b \in Attempt : Ack(b) \/ AckFails(b)
      BY <2>3, <3>2 DEF Ack, AckFails, Ends, Live, QTypeOK
    <3>3. QED
      BY <1>3, <3>1, <3>2 DEF QNext, WorkerStep, Enqueue, StartWorker, Spawn, Exit,
         HandlerReturns, HandlerErrs, CallFails, ToAck, qvars
  <2>4. QED BY <2>1, <2>2, <2>3 DEF Tracked
<1>4. QED BY <1>2, <1>3

\* NoneLeft is inductive.
LEMMA NoneLeftStep ==
    ASSUME QTypeOK, LogSound, InOrder, DeliveredInOrder, AckedApart, OneAttemptAtATime,
           NoneLeft, [QNext]_qvars
    PROVE  NoneLeft'
<1> SUFFICES ASSUME ~Overrun, NEW j \in acked', NEW n \in 1 .. MaxDeliveries,
                    Live(<<j, n>>)'
             PROVE  FALSE
  BY DEF NoneLeft
<1> USE QueueAssumption
<1>0. /\ acked' \subseteq Job /\ acked \subseteq Job /\ <<j, n>> \in Attempt
  BY QTypeStep DEF QTypeOK, Attempt
<1>1. ASSUME NEW D \in SUBSET Job, NEW w \in Worker, Receive(D, w),
             D \cap acked = {}, acked' = acked
      PROVE  FALSE
  <2>1. pc'[<<j, n>>] = pc[<<j, n>>]
    BY <1>0, <1>1, DeliverEffect
  <2>2. QED BY <1>1, <2>1 DEF NoneLeft, Live
<1>2. ASSUME NEW w \in Worker, Read(w) PROVE FALSE
  <2>1. NewEntries \in SUBSET Job /\ Receive(NewEntries, w) /\ acked' = acked
    BY <1>2 DEF Read, NewEntries
  <2>2. NewEntries \cap acked = {}
    BY NewIsUndelivered DEF AckedApart
  <2>3. QED BY <1>1, <2>1, <2>2
<1>3. ASSUME NEW w \in Worker, Autoclaim(w) PROVE FALSE
  <2>1. PICK C \in SUBSET pel : Receive(C, w)
    BY <1>3 DEF Autoclaim
  <2>2. C \in SUBSET Job /\ C \cap acked = {} /\ acked' = acked
    BY <1>3 DEF Autoclaim, QTypeOK, AckedApart
  <2>3. QED BY <1>1, <2>1, <2>2
<1>4. ASSUME \A w \in Worker : ~Read(w) /\ ~Autoclaim(w) PROVE Live(<<j, n>>)
  BY <1>0, <1>4, QuietStep DEF Live
<1>5. ASSUME NEW a \in Attempt, Ack(a) PROVE FALSE
  <2>1. PICK k \in Job, m \in 1 .. MaxDeliveries : a = <<k, m>>
    BY DEF Attempt
  <2>2. Live(<<k, m>>) /\ ~Live(<<k, m>>)'
    BY <1>5, <2>1 DEF Ack, Ends, Live, QTypeOK
  <2>3. Live(<<j, n>>)
    BY <1>0, <1>5 DEF Ack, Ends, Live, QTypeOK
  <2>4. acked' = acked \cup {k}
    BY <1>5, <2>1 DEF Ack
  <2>5. j = k
    BY <2>3, <2>4 DEF NoneLeft
  <2>6. m = n
    BY <2>2, <2>3, <2>5 DEF OneAttemptAtATime
  <2>7. QED BY <2>2, <2>5, <2>6
<1>6. ASSUME \A a \in Attempt : ~Ack(a) PROVE acked' = acked
  BY <1>2, <1>3, <1>6 DEF QNext, WorkerStep, Enqueue, StartWorker, Spawn, Shutdown, Exit,
     Crash, HandlerReturns, HandlerErrs, CallFails, ToAck, AckFails, qvars
<1>7. QED BY <1>2, <1>3, <1>4, <1>5, <1>6 DEF NoneLeft

\* Both hold of every queue.
LEMMA TasksInvariant == QSpec => [](Tracked /\ NoneLeft)
<1>1. QInit => Tracked /\ NoneLeft
  BY DEF QInit, Tracked, NoneLeft, Live, Attempt
<1>2. QTypeOK /\ InOrder /\ Tracked /\ [QNext]_qvars => Tracked'
  BY TrackedStep
<1>3. /\ QTypeOK /\ LogSound /\ InOrder /\ DeliveredInOrder /\ AckedApart
      /\ OneAttemptAtATime /\ NoneLeft /\ [QNext]_qvars
      => NoneLeft'
  BY NoneLeftStep
<1>4. QED
  BY <1>1, <1>2, <1>3, QTypeCorrect, DeliveredInvariant, AckedInvariant, OneAttemptCorrect,
     PTL DEF QSpec

=============================================================================
