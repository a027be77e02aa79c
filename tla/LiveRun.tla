------------------------------- MODULE LiveRun -------------------------------
(***************************************************************************)
(* The page of the KEM DEMO (kem-runner.tsx): a click posts a run, the     *)
(* reply opens an event stream (routes/kem.rs events, routes/sse.rs), and  *)
(* what arrives is the only thing the page ever shows: it has no snapshot, *)
(* no second connection, and it runs until it gets the Finished event.     *)
(***************************************************************************)
EXTENDS KemRun

CONSTANT MaxCuts  \* bound on lost connections, failed requests and closed pages

ASSUME CutsAssumption == MaxCuts \in Nat /\ Nobody \notin Job

VARIABLES
    page,    \* "idle", "posting", "connecting", "live", "done" or "cut"
    shown,   \* the run of the last click, or Nobody
    logs,    \* the console on the page
    matrix,  \* the cells on the page
    stream,  \* events on their way to the page
    missed,  \* history: the types of events that passed while it waited
    cuts

view == <<page, shown, logs, matrix, stream, missed, cuts>>
lvars == <<vars, view>>

\* The state `running` of the component, which disables its button.
Running == page \in {"posting", "connecting", "live"}

NoCells == [c \in Cell |-> "none"]

LInit ==
    /\ Init
    /\ page = "idle"
    /\ shown = Nobody
    /\ logs = << >>
    /\ matrix = NoCells
    /\ stream = << >>
    /\ missed = {}
    /\ cuts = 0

-----------------------------------------------------------------------------
(***************************************************************************)
(* The channel of a run: pub/sub without replay. An event is its type and  *)
(* what it carries: a line, a cell and its verdict, or nothing.            *)
(***************************************************************************)

\* Run j publishes event e: it reaches the page that is subscribed to it.
Publish(j, e) ==
    /\ IF j = shown /\ page = "live"
       THEN stream' = Append(stream, e)
       ELSE UNCHANGED stream
    /\ missed' = IF j = shown /\ page \in {"posting", "connecting"}
                 THEN missed \cup {e[1]} ELSE missed
    /\ UNCHANGED <<page, shown, logs, matrix, cuts>>

\* Console::log and Console::cell publish the row they wrote before, and
\* Console::finish the end; another handler of the run may come in between.
Tell(a) ==
    \/ publish(a) /\ Publish(a[1], event[a])
    \/ announce(a) /\ Publish(a[1], <<"finished", << >>>>)

\* The other calls publish nothing, and neither does one that fails.
Silent(a) ==
    \/ start(a)
    \/ console_log(a)
    \/ log_conflict(a)
    \/ capabilities_err(a)
    \/ console_cell(a)
    \/ finish(a)
    \/ HandleEnds(a)
    \/ HandlerFault(a)

-----------------------------------------------------------------------------
(***************************************************************************)
(* The page                                                                *)
(***************************************************************************)

\* Defect: the console of the run before is kept.
Clear_matrix(p, j) ==
    /\ page' = p
    /\ shown' = j
    /\ matrix' = NoCells
    /\ stream' = << >>
    /\ missed' = {}
    /\ UNCHANGED logs

\* run() clears the page and closes the source before it posts.
Clear(p, j) ==
    /\ page' = p
    /\ shown' = j
    /\ logs' = << >>
    /\ matrix' = NoCells
    /\ stream' = << >>
    /\ missed' = {}

\* A click, and the request reaches the API. Leaving one of the three tabs for
\* another mounts a fresh page, so the next run may be of any mode.
run(j) ==
    /\ ~Running
    /\ create_run(j)
    /\ Clear("posting", j)
    /\ UNCHANGED cuts

Cut == cuts < MaxCuts /\ cuts' = cuts + 1

\* The request is refused or never arrives.
run_refused ==
    /\ ~Running
    /\ Cut
    /\ Clear("cut", Nobody)
    /\ UNCHANGED vars

\* The catch block: an error of the API, or a reply that is lost.
Catch(j) == page' = IF page = "posting" /\ shown = j THEN "cut" ELSE page

ApiErr(j) ==
    /\ ApiFails(j)
    /\ Catch(j)
    /\ UNCHANGED <<shown, logs, matrix, stream, missed, cuts>>

reply_lost ==
    /\ page = "posting"
    /\ Cut
    /\ Catch(shown)
    /\ UNCHANGED <<vars, shown, logs, matrix, stream, missed>>

\* The reply: new EventSource.
created ==
    /\ page = "posting"
    /\ shown \notin outbox
    /\ page' = "connecting"
    /\ UNCHANGED <<vars, shown, logs, matrix, stream, missed, cuts>>

\* The API has checked that the run exists and subscribed to its channel.
subscribe ==
    /\ page = "connecting"
    /\ page' = "live"
    /\ UNCHANGED <<vars, shown, logs, matrix, stream, missed, cuts>>

\* Defect: the handler of a log event takes the last line for the end.
onmessage_last ==
    /\ page = "live"
    /\ stream # << >>
    /\ LET e == Head(stream) IN
         /\ logs' = IF e[1] = "log" THEN Append(logs, e[2]) ELSE logs
         /\ matrix' = IF e[1] = "cell" THEN [matrix EXCEPT ![e[2][1]] = e[2][2]] ELSE matrix
         /\ page' = IF e[1] = "log" /\ e[2][2] # "info" THEN "done" ELSE page
         /\ stream' = IF page' = "done" THEN << >> ELSE Tail(stream)
    /\ UNCHANGED <<vars, shown, missed, cuts>>

\* Defect: the end closes the source, and the page is left running.
onmessage_no_end ==
    /\ page = "live"
    /\ stream # << >>
    /\ LET e == Head(stream) IN
         /\ logs' = IF e[1] = "log" THEN Append(logs, e[2]) ELSE logs
         /\ matrix' = IF e[1] = "cell" THEN [matrix EXCEPT ![e[2][1]] = e[2][2]] ELSE matrix
         /\ stream' = IF e[1] = "finished" THEN << >> ELSE Tail(stream)
    /\ UNCHANGED <<vars, page, shown, missed, cuts>>

\* onmessage: a line is appended, a cell replaces the one of its KEM and
\* adapter, anything else ends the run on the page and closes the source.
onmessage ==
    /\ page = "live"
    /\ stream # << >>
    /\ LET e == Head(stream) IN
         /\ logs' = IF e[1] = "log" THEN Append(logs, e[2]) ELSE logs
         /\ matrix' = IF e[1] = "cell" THEN [matrix EXCEPT ![e[2][1]] = e[2][2]] ELSE matrix
         /\ page' = IF e[1] = "finished" THEN "done" ELSE page
         /\ stream' = IF e[1] = "finished" THEN << >> ELSE Tail(stream)
    /\ UNCHANGED <<vars, shown, missed, cuts>>

\* onerror: the source is closed for good, what was shown stays.
onerror ==
    /\ page \in {"connecting", "live"}
    /\ Cut
    /\ page' = "cut"
    /\ stream' = << >>
    /\ UNCHANGED <<vars, shown, logs, matrix, missed>>

\* The effect's cleanup: the page goes away while a run is on.
unmount ==
    /\ Running
    /\ Cut
    /\ Clear("idle", Nobody)
    /\ UNCHANGED vars

-----------------------------------------------------------------------------

Page ==
    \/ \E j \in Job : run(j)
    \/ run_refused
    \/ reply_lost
    \/ created
    \/ subscribe
    \/ onmessage
    \/ onerror
    \/ unmount

\* The API, the queue and the handlers. The page is the only one that creates
\* runs here, but it may turn to a new one while an old one is still handled.
System ==
    \/ \E j \in Job : ApiErr(j) \/ (enqueue_kem(j) /\ UNCHANGED view)
    \/ \E a \in Attempt :
          \/ Tell(a)
          \/ Silent(a) /\ UNCHANGED view
    \/ QueueStep /\ UNCHANGED view

LNext == Page \/ System

LSpec == LInit /\ [][LNext]_lvars

\* The API answers and subscribes, the browser reads what arrives.
LFairSpec ==
    /\ LSpec
    /\ Fairness
    /\ WF_lvars(created)
    /\ WF_lvars(subscribe)
    /\ WF_lvars(onmessage)

-----------------------------------------------------------------------------
(***************************************************************************)
(* Properties                                                              *)
(***************************************************************************)

\* The handlers of the run come one after the other and no call fails.
OneAfterTheOther == faults = 0 /\ (Overrun => deliv[shown] <= 1)

\* The page never shows what a later reader of the run would not find: its
\* lines are stored lines, none of them twice (seq is the key of the list), its
\* cells have the stored verdicts. Several handlers may write to the run and
\* their publishes may cross, a worker may die between a row and its event, and
\* the page may have watched another run before. While the handlers of the run
\* come one after the other the lines are in the order of their numbers, too;
\* two at once may publish the higher number first.
ShownIsStored ==
    /\ \A i \in DOMAIN logs : shown # Nobody /\ logs[i] \in lines[shown]
    /\ \A i, k \in DOMAIN logs :
          i < k => IF OneAfterTheOther THEN logs[i][1] < logs[k][1] ELSE logs[i][1] # logs[k][1]
    /\ \A c \in Cell : matrix[c] # "none" => shown # Nobody /\ matrix[c] = cells[shown][c]

\* "Reopening a finished run replays the same lines the student saw live": a
\* page that was told the end of a run handled once, and was subscribed in
\* time for all of its events, shows all that is stored.
DoneShowsAll ==
    (page = "done" /\ missed = {} /\ deliv[shown] = 1 /\ faults = 0) =>
        /\ Ended(shown)
        /\ {logs[i] : i \in DOMAIN logs} = lines[shown]
        /\ matrix = cells[shown]

\* The button comes back: a click is answered by the end of the run or an
\* error, unless the Finished event passed before the page was subscribed, or
\* a worker halts (or a call fails) and no Finished event is published.
PageStops == Running ~> (~Running \/ "finished" \in missed \/ halts + faults > 0)

=============================================================================
