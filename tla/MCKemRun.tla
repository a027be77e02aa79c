------------------------------ MODULE MCKemRun ------------------------------
(* Small instances of KemRun: the runs lib, grp and pri are of the modes      *)
(* library_compat, group_compat and priority. The matrix has one cell of an   *)
(* adapter that is configured and lists the KEM, one of an adapter that does  *)
(* not list it and one of an adapter that is not configured.                  *)
EXTENDS KemRun

CONSTANTS lib, grp, pri, openssl, nss

MCStreamOf == [j \in Job |-> STREAM_KEM]
MCModeOf == [j \in Job |-> CASE j = lib -> "library_compat"
                             [] j = grp -> "group_compat"
                             [] j = pri -> "priority"]
MCColumn == <<openssl, nss, openssl>>

=============================================================================
