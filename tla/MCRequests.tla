---------------------------- MODULE MCRequests ----------------------------
(* Small instances of Requests for TLC. *)
EXTENDS Requests

CONSTANTS b1, k0, k1, k2, r1, r2

\* At most two revisions of a request are announced, and they are neighbours.
Keys == [n \in Request \X Revision |-> IF n[2] = 2 THEN k2 ELSE k1]

\* The requests are tracked once their event was accepted, and before others
\* arrive.
Accepted ==
    /\ route = [b \in Binding |-> "enabled"]
    /\ events = [i \in Row |-> IF i = 1
            THEN [binding |-> b1, key |-> k0, state |-> "accepted",
                  attempts |-> 1, nextAt |-> "fresh"] ELSE NoRow]
    /\ aged = 1
    /\ serve = "running"
    /\ job = [i \in Row |-> "none"]
    /\ found = {} /\ wire = {} /\ placed = <<1>> /\ visible = {} /\ crashes = 0
    /\ request = [r \in Request |-> NoRequest]
    /\ expiry = [r \in Request |-> "never"]
    /\ updates = [r \in Request |-> <<>>]
    /\ notice = [n \in Notice |-> NoNotice]

AcceptedSpec == Accepted /\ [][RNext]_rvars
=============================================================================
