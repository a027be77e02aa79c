---------------------------- MODULE AtLeastOnce ----------------------------
(***************************************************************************)
(* What the job queue between the API and the workers promises, with the   *)
(* streams, the consumer group, the worker processes and their crashes     *)
(* left out: a submitted job is handled at least once, possibly more than  *)
(* once, and it is settled (never handed out again) only after that.       *)
(***************************************************************************)

CONSTANT Job

VARIABLES submitted, \* jobs the API has put on a stream
          handled,   \* jobs whose handler has returned at least once
          settled    \* jobs the group will not deliver again

vars == <<submitted, handled, settled>>

Init == /\ submitted = {}
        /\ handled = {}
        /\ settled = {}

Submit(j) == /\ j \notin submitted
             /\ submitted' = submitted \cup {j}
             /\ UNCHANGED <<handled, settled>>

Handle(j) == /\ j \in submitted
             /\ handled' = handled \cup {j}
             /\ UNCHANGED <<submitted, settled>>

Settle(j) == /\ j \in handled
             /\ settled' = settled \cup {j}
             /\ UNCHANGED <<submitted, handled>>

Next == \E j \in Job : Submit(j) \/ Handle(j) \/ Settle(j)

\* The safety half: what no step of the queue may do.
Safe == Init /\ [][Next]_vars

\* No submitted job is left unhandled, no handled job is left unsettled.
Spec == Safe /\ \A j \in Job : WF_vars(Handle(j)) /\ WF_vars(Settle(j))

=============================================================================
