---------------------------- MODULE MCLiveMatrix ----------------------------
(* A small instance of LiveMatrix: a page that watches a test of two          *)
(* subtasks, which uses an adapter that is configured or one that is not.     *)
EXTENDS LiveMatrix

CONSTANTS j1, j2, t1, openssl, nss

MCStreamOf == [j \in Job |-> STREAM_PROBE]
MCTestOf == [j \in Job |-> t1]
OpensslOnly == [w \in Worker |-> {openssl}]

\* The target accepts the handshake of j1 at one time and not at another; the
\* stack of the adapter knows neither algorithm of the other subtask.
Answer(ok) == [handshake_success |-> ok, messages |-> TRUE, capabilities |-> TRUE]
Fickle == [j \in Job |-> IF j = j1 THEN {Answer(TRUE), Answer(FALSE)} ELSE {Answer(FALSE)}]

=============================================================================
