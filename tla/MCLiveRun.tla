------------------------------ MODULE MCLiveRun ------------------------------
(* Small instances of LiveRun: the runs lib, grp and pri are of the modes     *)
(* library_compat, group_compat and priority. The matrix has one cell of an   *)
(* adapter that is configured and lists the KEM and one of an adapter that is *)
(* not configured; the longer one has a KEM that is not listed, too.          *)
EXTENDS LiveRun

CONSTANTS lib, grp, pri, openssl, nss

MCStreamOf == [j \in Job |-> STREAM_KEM]
MCModeOf == [j \in Job |-> CASE j = lib -> "library_compat"
                             [] j = grp -> "group_compat"
                             [] j = pri -> "priority"]
MCColumn == <<openssl, nss>>
MCColumn3 == <<openssl, nss, openssl>>

=============================================================================
