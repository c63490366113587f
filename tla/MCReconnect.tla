----------------------------- MODULE MCReconnect -----------------------------
(* Two dashboards, an owner with one resident, and two permissions.          *)
EXTENDS Reconnect, TLC

Symmetry == Permutations(Dashboard) \cup Permutations(Policy)
=============================================================================
