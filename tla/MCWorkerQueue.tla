--------------------------- MODULE MCWorkerQueue ---------------------------
(* Small instances of WorkerQueue: probe jobs j1, j2 and a KEM job k1. *)
EXTENDS WorkerQueue, TLC

CONSTANTS j1, j2, k1

MCJob == {j1, j2, k1}
MCStreamOf == (j1 :> STREAM_PROBE) @@ (j2 :> STREAM_PROBE) @@ (k1 :> STREAM_KEM)

=============================================================================
