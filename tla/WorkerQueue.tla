---------------------------- MODULE WorkerQueue ----------------------------
(***************************************************************************)
(* The job queue of PQ-CAS: the API appends jobs to two Redis streams, the *)
(* workers of one consumer group read them, hand each to a task bounded by *)
(* a semaphore, and acknowledge it when its handler has returned           *)
(* (services/worker/src/stream.rs, main.rs; services/api/src/queue.rs).    *)
(*                                                                         *)
(* A stream is an append-only sequence with the index of the last entry    *)
(* the group has delivered. Every delivery of a job, first or repeated,    *)
(* is an attempt <<job, n>>, n being the entry's delivery counter in       *)
(* Redis. What a handler does in between is left to the modules that       *)
(* extend this one.                                                        *)
(***************************************************************************)
EXTENDS Integers, Sequences, FiniteSets

CONSTANTS
    Job,            \* stream entries; a job is appended at most once
    StreamOf,       \* the stream each job belongs to
    Worker,         \* worker processes (consumers of the group)
    Nobody,         \* the owner of an attempt that no process runs
    Concurrency,    \* WORKER_CONCURRENCY: permits of the semaphore
    ReadCount,      \* COUNT of XREADGROUP and XAUTOCLAIM (16 in the code)
    MaxDeliveries,  \* bound: deliveries of one entry
    MaxHalts,       \* bound: crashes and shutdowns of worker processes
    MaxFaults,      \* bound: failed Redis or Postgres calls
    Overrun,        \* may a job stay pending on a live worker for longer
                    \* than CLAIM_STALE_MS?
    GroupAtStart    \* does the consumer group exist already?

STREAM_PROBE == 1
STREAM_KEM == 2
Stream == {STREAM_PROBE, STREAM_KEM}

ASSUME QueueAssumption ==
    /\ StreamOf \in [Job -> Stream]
    /\ Nobody \notin Worker
    /\ Concurrency \in Nat \ {0}
    /\ ReadCount \in Nat \ {0}
    /\ MaxDeliveries \in Nat \ {0}
    /\ MaxHalts \in Nat
    /\ MaxFaults \in Nat
    /\ Overrun \in BOOLEAN
    /\ GroupAtStart \in BOOLEAN

VARIABLES
    log,      \* the streams: what has been XADDed, in order
    base,     \* the position at which XGROUP CREATE put the group, or NoGroup
    cursor,   \* the group's last-delivered position
    pel,      \* pending entries: delivered and not acknowledged
    deliv,    \* the delivery counter of each entry
    pc,       \* where each attempt stands
    owner,    \* the process that runs it
    proc,     \* the state of each worker process
    handled,  \* history: jobs whose handler has returned (Ok or Err)
    acked,    \* history: jobs that have been acknowledged
    halts,    \* crashes and shutdowns so far
    faults    \* failed calls so far

qvars == <<log, base, cursor, pel, deliv, pc, owner, proc, handled, acked,
           halts, faults>>

NoGroup == -1

Attempt == Job \X (1 .. MaxDeliveries)

\* none: not delivered yet; batch: in the `deliveries` vector of a tick;
\* run: the spawned task is in its handler; ack: the handler has returned and
\* XACK is next; over: the task has ended or died with its process.
Phase == {"none", "batch", "run", "ack", "over"}

Enqueued == {j \in Job : \E i \in DOMAIN log[StreamOf[j]] : log[StreamOf[j]][i] = j}

Live(a) == pc[a] \in {"batch", "run", "ack"}

\* Attempts that hold a permit: `_permit` lives as long as the task, XACK included.
Holding(w) == {a \in Attempt : owner[a] = w /\ pc[a] \in {"run", "ack"}}

Batch(w) == {a \in Attempt : owner[a] = w /\ pc[a] = "batch"}

-----------------------------------------------------------------------------

QInit ==
    /\ log = [s \in Stream |-> << >>]
    /\ base = [s \in Stream |-> IF GroupAtStart THEN 0 ELSE NoGroup]
    /\ cursor = [s \in Stream |-> 0]
    /\ pel = {}
    /\ deliv = [j \in Job |-> 0]
    /\ pc = [a \in Attempt |-> "none"]
    /\ owner = [a \in Attempt |-> Nobody]
    /\ proc = [w \in Worker |-> "down"]
    /\ handled = {}
    /\ acked = {}
    /\ halts = 0
    /\ faults = 0

\* queue.rs: one XADD. The API never appends the same job twice.
Enqueue(j) ==
    /\ j \notin Enqueued
    /\ log' = [log EXCEPT ![StreamOf[j]] = Append(@, j)]
    /\ UNCHANGED <<base, cursor, pel, deliv, pc, owner, proc, handled, acked,
                   halts, faults>>

\* The group is created at the stream's current end, and only if it is missing.
ensure_group ==
    /\ base' = [s \in Stream |->
                  IF base[s] = NoGroup THEN Len(log[s]) ELSE base[s]]
    /\ cursor' = [s \in Stream |->
                    IF base[s] = NoGroup THEN Len(log[s]) ELSE cursor[s]]

\* A worker process starts (or is restarted by the container runtime).
StartWorker(w) ==
    /\ proc[w] = "down"
    /\ proc' = [proc EXCEPT ![w] = "up"]
    /\ ensure_group
    /\ UNCHANGED <<log, pel, deliv, pc, owner, handled, acked, halts, faults>>

\* The loop reads again only when the previous tick has spawned its whole batch.
AtTick(w) == proc[w] = "up" /\ Batch(w) = {}

\* XREADGROUP ">" returns at most COUNT undelivered entries of each stream.
ReadUpTo(s) == IF Len(log[s]) < cursor[s] + ReadCount
               THEN Len(log[s]) ELSE cursor[s] + ReadCount

NewEntries == {j \in Job : \E i \in (cursor[StreamOf[j]] + 1) .. ReadUpTo(StreamOf[j]) :
                             log[StreamOf[j]][i] = j}

\* Defect: XREADGROUP with NOACK, nothing is put on the pending list.
DeliverNoAck(D, w, to) ==
    /\ \A j \in D : deliv[j] < MaxDeliveries
    /\ pel' = pel
    /\ deliv' = [j \in Job |-> IF j \in D THEN deliv[j] + 1 ELSE deliv[j]]
    /\ pc' = [a \in Attempt |->
                IF a[1] \in D /\ a[2] = deliv[a[1]] + 1 THEN to ELSE pc[a]]
    /\ owner' = [a \in Attempt |->
                   IF a[1] \in D /\ a[2] = deliv[a[1]] + 1 THEN w ELSE owner[a]]

\* The entries D enter the pending list and become attempts in phase `to`.
Deliver(D, w, to) ==
    /\ \A j \in D : deliv[j] < MaxDeliveries
    /\ pel' = pel \cup D
    /\ deliv' = [j \in Job |-> IF j \in D THEN deliv[j] + 1 ELSE deliv[j]]
    /\ pc' = [a \in Attempt |->
                IF a[1] \in D /\ a[2] = deliv[a[1]] + 1 THEN to ELSE pc[a]]
    /\ owner' = [a \in Attempt |->
                   IF a[1] \in D /\ a[2] = deliv[a[1]] + 1 THEN w ELSE owner[a]]

\* A call whose reply never arrives (connection lost, future dropped by the
\* shutdown branch of select!) still takes effect in Redis: the entries are
\* pending, but no task will ever run them.
Receive(D, w) ==
    \/ Deliver(D, w, "batch") /\ UNCHANGED faults
    \/ /\ faults < MaxFaults
       /\ faults' = faults + 1
       /\ Deliver(D, Nobody, "over")

Read(w) ==
    /\ AtTick(w)
    /\ NewEntries # {}
    /\ cursor' = [s \in Stream |-> ReadUpTo(s)]
    /\ Receive(NewEntries, w)
    /\ UNCHANGED <<log, base, proc, handled, acked, halts>>

\* Redis counts the time since the last delivery, not whether the consumer is
\* alive: an entry is old enough once its attempt is dead, or when a live
\* attempt outlasts CLAIM_STALE_MS (waiting for permits, slow adapters).
Stale(j) == Overrun \/ \A n \in 1 .. MaxDeliveries : ~Live(<<j, n>>)

\* XAUTOCLAIM from 0-0 on both streams, on a tick that read nothing new.
Autoclaim(w) ==
    /\ AtTick(w)
    /\ NewEntries = {}
    /\ \E C \in SUBSET {j \in pel : Stale(j)} :
         /\ C # {}
         /\ \A s \in Stream : Cardinality({j \in C : StreamOf[j] = s}) <= ReadCount
         /\ Receive(C, w)
    /\ UNCHANGED <<log, base, cursor, proc, handled, acked, halts>>

Position(j) == CHOOSE i \in DOMAIN log[StreamOf[j]] : log[StreamOf[j]][i] = j

Earlier(j, k) == \/ StreamOf[j] < StreamOf[k]
                 \/ StreamOf[j] = StreamOf[k] /\ Position(j) < Position(k)

PermitFree(w) == Cardinality(Holding(w)) < Concurrency

\* The next delivery of the batch, in reply order, takes a permit and its task
\* is spawned.
Spawn(w, a) ==
    /\ proc[w] = "up"
    /\ a \in Batch(w)
    /\ \A b \in Batch(w) \ {a} : Earlier(a[1], b[1])
    /\ PermitFree(w)
    /\ pc' = [pc EXCEPT ![a] = "run"]
    /\ UNCHANGED <<log, base, cursor, pel, deliv, owner, proc, handled, acked,
                   halts, faults>>

\* The handler returns, Ok or Err; either way the task goes on to XACK.
ToAck(a) ==
    /\ pc[a] = "run"
    /\ pc' = [pc EXCEPT ![a] = "ack"]
    /\ handled' = handled \cup {a[1]}
    /\ UNCHANGED <<log, base, cursor, pel, deliv, owner, proc, acked, halts>>

HandlerReturns(a) == ToAck(a) /\ UNCHANGED faults

\* A call of the handler fails and the handler deals with it itself.
CallFails(a) ==
    /\ pc[a] = "run"
    /\ faults < MaxFaults
    /\ faults' = faults + 1
    /\ UNCHANGED <<log, base, cursor, pel, deliv, pc, owner, proc, handled, acked, halts>>

\* A database or Redis call of the handler fails and `?` ends it early.
HandlerErrs(a) == /\ faults < MaxFaults
                  /\ faults' = faults + 1
                  /\ ToAck(a)

\* The task ends and drops its permit.
Ends(a) == /\ pc' = [pc EXCEPT ![a] = "over"]
           /\ owner' = [owner EXCEPT ![a] = Nobody]

\* Defect: XACK is sent for a group the entry is not pending in.
AckOtherGroup(a) ==
    /\ pc[a] = "ack"
    /\ acked' = acked \cup {a[1]}
    /\ Ends(a)
    /\ UNCHANGED <<log, base, cursor, pel, deliv, proc, handled, halts, faults>>

\* Defect: the entry is acknowledged while its handler is still running.
AckEarly(a) ==
    /\ pc[a] \in {"run", "ack"}
    /\ pel' = pel \ {a[1]}
    /\ acked' = acked \cup {a[1]}
    /\ Ends(a)
    /\ UNCHANGED <<log, base, cursor, deliv, proc, handled, halts, faults>>

Ack(a) ==
    /\ pc[a] = "ack"
    /\ pel' = pel \ {a[1]}
    /\ acked' = acked \cup {a[1]}
    /\ Ends(a)
    /\ UNCHANGED <<log, base, cursor, deliv, proc, handled, halts, faults>>

\* XACK fails: the error is logged, the entry stays pending.
AckFails(a) ==
    /\ pc[a] = "ack"
    /\ faults < MaxFaults
    /\ faults' = faults + 1
    /\ Ends(a)
    /\ UNCHANGED <<log, base, cursor, pel, deliv, proc, handled, acked, halts>>

\* The attempts A die: their tasks are gone, their entries stay pending.
Die(A) == /\ pc' = [a \in Attempt |-> IF a \in A THEN "over" ELSE pc[a]]
          /\ owner' = [a \in Attempt |-> IF a \in A THEN Nobody ELSE owner[a]]

\* Ctrl-C: the current tick is dropped with the deliveries it had not spawned,
\* and main waits for all permits.
Shutdown(w) ==
    /\ proc[w] = "up"
    /\ halts < MaxHalts
    /\ halts' = halts + 1
    /\ proc' = [proc EXCEPT ![w] = "stopping"]
    /\ Die(Batch(w))
    /\ UNCHANGED <<log, base, cursor, pel, deliv, handled, acked, faults>>

Exit(w) ==
    /\ proc[w] = "stopping"
    /\ Holding(w) = {}
    /\ proc' = [proc EXCEPT ![w] = "down"]
    /\ UNCHANGED <<log, base, cursor, pel, deliv, pc, owner, handled, acked,
                   halts, faults>>

\* The process is killed at any point.
Crash(w) ==
    /\ proc[w] # "down"
    /\ halts < MaxHalts
    /\ halts' = halts + 1
    /\ proc' = [proc EXCEPT ![w] = "down"]
    /\ Die({a \in Attempt : owner[a] = w})
    /\ UNCHANGED <<log, base, cursor, pel, deliv, handled, acked, faults>>

-----------------------------------------------------------------------------

\* Everything but the API and the handlers.
WorkerStep(w) ==
    \/ StartWorker(w)
    \/ Read(w)
    \/ Autoclaim(w)
    \/ \E a \in Attempt : Spawn(w, a)
    \/ Shutdown(w)
    \/ Exit(w)
    \/ Crash(w)

QNext ==
    \/ \E j \in Job : Enqueue(j)
    \/ \E w \in Worker : WorkerStep(w)
    \/ \E a \in Attempt : \/ HandlerReturns(a)
                          \/ HandlerErrs(a)
                          \/ CallFails(a)
                          \/ Ack(a)
                          \/ AckFails(a)

\* A live process keeps ticking, a spawned task runs to its end (every adapter
\* call has a timeout) and the runtime restarts a process that is down
\* (compose.yml: restart: unless-stopped). Crashes, shutdowns and faults are
\* never required to happen.
WorkerFairness ==
    \A w \in Worker :
        /\ WF_qvars(StartWorker(w))
        /\ WF_qvars(Read(w))
        /\ WF_qvars(Autoclaim(w))
        /\ WF_qvars(\E a \in Attempt : Spawn(w, a))
        /\ WF_qvars(Exit(w))

QSpec == QInit /\ [][QNext]_qvars

QFairSpec ==
    /\ QSpec
    /\ WorkerFairness
    /\ \A a \in Attempt : WF_qvars(HandlerReturns(a)) /\ WF_qvars(Ack(a))

-----------------------------------------------------------------------------
(***************************************************************************)
(* Properties                                                              *)
(***************************************************************************)

QTypeOK ==
    /\ log \in [Stream -> Seq(Job)]
    /\ base \in [Stream -> Nat \cup {NoGroup}]
    /\ cursor \in [Stream -> Nat]
    /\ pel \subseteq Job
    /\ deliv \in [Job -> 0 .. MaxDeliveries]
    /\ pc \in [Attempt -> Phase]
    /\ owner \in [Attempt -> Worker \cup {Nobody}]
    /\ proc \in [Worker -> {"down", "up", "stopping"}]
    /\ handled \subseteq Job
    /\ acked \subseteq Job
    /\ halts \in 0 .. MaxHalts
    /\ faults \in 0 .. MaxFaults

\* No accepted job is lost: whatever crashes, shutdowns and lost replies do to
\* the workers, an entry the group has passed is pending or acknowledged, so
\* XAUTOCLAIM can still find it (tick and stream::autoclaim in the worker).
NothingLost ==
    \A s \in Stream : \A i \in DOMAIN log[s] :
        (base[s] # NoGroup /\ base[s] < i /\ i <= cursor[s]) =>
            log[s][i] \in pel \cup acked

\* What NothingLost rests on: the group stays within the streams, and an entry
\* is on the stream of its job.
LogSound ==
    /\ \A s \in Stream : cursor[s] <= Len(log[s])
    /\ \A s \in Stream : \A i \in DOMAIN log[s] : StreamOf[log[s][i]] = s

\* The header of stream.rs promises at-least-once delivery for the jobs on the
\* streams: none of them lies behind the group without ever being delivered.
NothingSkipped ==
    \A s \in Stream : \A i \in DOMAIN log[s] :
        (base[s] # NoGroup /\ i <= cursor[s]) => log[s][i] \in pel \cup acked

\* What the theorems about rows and events rest on, and the meaning of ~Overrun:
\* a redelivery starts only when the earlier attempt is dead.
OneAttemptAtATime ==
    ~Overrun => \A j \in Job : \A m, n \in 1 .. MaxDeliveries :
                   Live(<<j, m>>) /\ Live(<<j, n>>) => m = n

\* What OneAttemptAtATime rests on: a job is on its stream once, its attempts
\* are numbered by its delivery counter, and the group is past a job it has
\* delivered, so a read returns only jobs that have no attempt yet.
DeliveredInOrder ==
    /\ \A s \in Stream : \A i, k \in DOMAIN log[s] : log[s][i] = log[s][k] => i = k
    /\ \A j \in Job : \A n \in 1 .. MaxDeliveries :
          deliv[j] < n => pc[<<j, n>>] = "none"
    /\ \A j \in Job : deliv[j] > 0 =>
          \E i \in DOMAIN log[StreamOf[j]] :
              i <= cursor[StreamOf[j]] /\ log[StreamOf[j]][i] = j
    /\ \A j \in pel : deliv[j] > 0

\* An acknowledged job is never handed out again, whatever attempts at it are
\* still running or were lost (XACK takes it off the list XAUTOCLAIM scans).
AckedNeverRedelivered ==
    [][\A j \in acked : deliv'[j] = deliv[j]]_qvars

\* What the implementation rests on: nothing is delivered, handled or
\* acknowledged that is not on a stream, and a task sends XACK only after its
\* handler.
InOrder ==
    /\ pel \subseteq Enqueued
    /\ handled \subseteq Enqueued
    /\ \A a \in Attempt : pc[a] # "none" => a[1] \in Enqueued
    /\ \A a \in Attempt : owner[a] # Nobody => pc[a] # "none"
    /\ \A a \in Attempt : pc[a] = "ack" => a[1] \in handled

\* The streams, the group and the workers implement at-least-once handling.
Promise == INSTANCE AtLeastOnce WITH submitted <- Enqueued, settled <- acked

\* Safety and liveness of AtLeastOnce, for the jobs of an existing group.
ImplementsAtLeastOnce == Promise!Spec

=============================================================================
