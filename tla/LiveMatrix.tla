----------------------------- MODULE LiveMatrix -----------------------------
(***************************************************************************)
(* A page that watches a test: the server renders a snapshot of the rows   *)
(* (routes/tests.rs, get_matrix), the browser then opens an event stream   *)
(* (routes/sse.rs) and merges what it carries into its copy                *)
(* (test-matrix.tsx). The channel is Redis pub/sub: who is not subscribed  *)
(* when probe::handle publishes never gets the event.                      *)
(***************************************************************************)
EXTENDS ProbeTask

CONSTANTS
    Watched,  \* the test the page shows
    MaxDrops  \* bound on lost connections

ASSUME LiveAssumption == Watched \in Test /\ MaxDrops \in Nat

VARIABLES
    page,    \* "none", "rendered" without a connection, or "live"
    cells,   \* the page's copy of the rows
    stream,  \* events on their way to the page
    missed,  \* history: subtasks whose last event did not reach the page
    drops

view == <<page, cells, stream, missed, drops>>
lvars == <<vars, view>>

Watching == Subtasks(Watched)

LInit ==
    /\ Init
    /\ page = "none"
    /\ cells = [j \in Job |-> NoEvent]
    /\ stream = << >>
    /\ missed = {}
    /\ drops = 0

-----------------------------------------------------------------------------
(***************************************************************************)
(* The channel: events of probe::handle go to the page if it is connected. *)
(***************************************************************************)

\* The step publishes the verdict of attempt a on the channel of the page.
Publishes(a) == /\ at[a] = "publish"
                /\ at'[a] = "select"
                /\ a[1] \in Watching

\* TestFinished events pass the same way, but the page ignores them.
Relay ==
    /\ \A a \in Attempt : Publishes(a) =>
          IF page = "live"
          THEN /\ stream' = Append(stream, <<a[1], verdict[a]>>)
               /\ UNCHANGED missed
          ELSE /\ missed' = IF page = "none" THEN missed ELSE missed \cup {a[1]}
               /\ UNCHANGED stream
    /\ (\A a \in Attempt : ~Publishes(a)) => UNCHANGED <<stream, missed>>
    /\ UNCHANGED <<page, cells, drops>>

-----------------------------------------------------------------------------
(***************************************************************************)
(* The page                                                                *)
(***************************************************************************)

\* The server component renders the matrix: one SELECT over the rows.
get_matrix ==
    /\ page = "none"
    /\ status[Watched] # "none"
    /\ page' = "rendered"
    /\ cells' = [j \in Job |-> IF j \in Watching THEN <<exec[j], result[j]>> ELSE NoEvent]
    /\ UNCHANGED <<vars, stream, missed, drops>>

\* The EventSource connects, for the first time or again; no event is replayed.
subscribe ==
    /\ page = "rendered"
    /\ page' = "live"
    /\ UNCHANGED <<vars, cells, stream, missed, drops>>

\* Defect: a cell that has a verdict is left alone.
onmessage_first ==
    /\ page = "live"
    /\ stream # << >>
    /\ cells' = [cells EXCEPT ![Head(stream)[1]] =
                   IF @[1] \in {"finished", "error"} THEN @ ELSE Head(stream)[2]]
    /\ stream' = Tail(stream)
    /\ missed' = missed \ {Head(stream)[1]}
    /\ UNCHANGED <<vars, page, drops>>

\* onmessage: the cell of the event's subtask takes its two statuses.
onmessage ==
    /\ page = "live"
    /\ stream # << >>
    /\ cells' = [cells EXCEPT ![Head(stream)[1]] = Head(stream)[2]]
    /\ stream' = Tail(stream)
    /\ missed' = missed \ {Head(stream)[1]}
    /\ UNCHANGED <<vars, page, drops>>

\* onerror: the connection is lost with all it carries, the copy stays.
onerror ==
    /\ page = "live"
    /\ drops < MaxDrops
    /\ drops' = drops + 1
    /\ page' = "rendered"
    /\ missed' = missed \cup {stream[i][1] : i \in DOMAIN stream}
    /\ stream' = << >>
    /\ UNCHANGED <<vars, cells>>

-----------------------------------------------------------------------------

LNext ==
    \/ Next /\ Relay
    \/ get_matrix
    \/ subscribe
    \/ onmessage
    \/ onerror

LSpec == LInit /\ [][LNext]_lvars

\* The browser connects, and connects again, and reads what arrives.
LFairSpec == LSpec /\ Fairness /\ WF_lvars(subscribe) /\ WF_lvars(onmessage)

-----------------------------------------------------------------------------
(***************************************************************************)
(* Properties                                                              *)
(***************************************************************************)

LTypeOK ==
    /\ page \in {"none", "rendered", "live"}
    /\ cells \in [Job -> ExecStatus \X ResultStatus]
    /\ stream \in Seq(Job \X (ExecStatus \X ResultStatus))
    /\ missed \subseteq Job
    /\ drops \in Nat

Done(cell) == cell[1] \in {"finished", "error"}

\* What the page shows as done is done: the row has a verdict, although the
\* event may have been overtaken by a redelivery that set the row back to
\* running (the row is written before the event is published, and a later
\* attempt does not withdraw the result).
DoneIsStored == \A j \in Job : Done(cells[j]) => result[j] # "pending"

\* What DoneIsStored rests on: no verdict is on its way before it is stored.
VerdictsAreStored ==
    /\ \A a \in Attempt : at[a] = "publish" => result[a[1]] # "pending"
    /\ \A i \in DOMAIN stream : result[stream[i][1]] # "pending"

\* A page that watches a test of a configured adapter agrees with the rows once
\* all work is done and everything has arrived, whatever mixture of snapshot,
\* events and redelivered events it has merged, except for the cells whose last
\* event went by while it was not connected (test-matrix.tsx, sse.rs).
QuietPageAgrees ==
    (/\ page # "none" /\ stream = << >>
     /\ Watching \subseteq acked /\ OnAll(Watched)) =>
        \A j \in Watching \ missed : cells[j] = <<exec[j], result[j]>>

\* config.rs: adapters that are not listed "are reported as `disabled` rather
\* than failed"; README.md says the same of cells. Whenever the page shows such
\* a cell as done, it shows it as disabled.
UnlistedIsDisabled ==
    (\A w \in Worker : adapter[Watched] \notin Configured[w]) =>
        \A j \in Watching : Done(cells[j]) => cells[j][2] = "disabled"

\* A page that misses no event fills in: in the end every cell it shows is
\* done, unless its last event went by while the page was not connected.
PageFillsIn ==
    \A j \in Job : (page # "none" /\ j \in Watching) ~> (Done(cells[j]) \/ j \in missed)

=============================================================================
