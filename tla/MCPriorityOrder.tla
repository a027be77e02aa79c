-------------------------- MODULE MCPriorityOrder --------------------------
(* Small instances of PriorityOrder: two classical groups and three          *)
(* post-quantum ones of three levels; prime256v1 is another name of          *)
(* secp256r1.                                                                *)
EXTENDS PriorityOrder

CONSTANTS x25519, secp256r1, prime256v1, mlkem512, mlkem768, mlkem1024

MCLevel == [n \in Name |-> CASE n = mlkem512 -> 1
                             [] n = mlkem768 -> 3
                             [] n = mlkem1024 -> 5
                             [] OTHER -> 0]

OpensslNames == [g \in Group |-> IF g = secp256r1 THEN prime256v1 ELSE g]

=============================================================================
