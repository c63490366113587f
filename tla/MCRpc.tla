------------------------------- MODULE MCRpc -------------------------------
(* Small instances of RpcConnection for TLC. *)
EXTENDS RpcConnection

CONSTANTS c1, c2, c3, c4, e1, e2

\* One call goes to an endpoint of its own.
Targets == [c \in Call |-> IF c = c3 THEN e2 ELSE e1]
=============================================================================
