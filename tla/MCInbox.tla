------------------------------ MODULE MCInbox ------------------------------
(* Small instances of Inbox for TLC. *)
EXTENDS Inbox, TLC

CONSTANTS b1, b2, k1, k2, k3  \* routes and event keys

\* Keys are only compared: any permutation of them is an automorphism.
Symmetry == Permutations(EventId)
=============================================================================
