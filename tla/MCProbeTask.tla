---------------------------- MODULE MCProbeTask ----------------------------
(* Small instances of ProbeTask: one test of two subtasks, which uses either  *)
(* the adapter openssl, which every worker has, or nss, which none has.       *)
EXTENDS ProbeTask

CONSTANTS j1, j2, t1, openssl, nss

MCStreamOf == [j \in Job |-> STREAM_PROBE]
MCTestOf == [j \in Job |-> t1]

\* Every worker has the same ADAPTERS list.
OpensslOnly == [w \in Worker |-> {openssl}]

\* An adapter may answer anything.
AnyOutcome == [j \in Job |-> ProbeOutcome]

=============================================================================
