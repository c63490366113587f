----------------------------- MODULE MCLifecycle -----------------------------
(* Small instances of Lifecycle for TLC.                                    *)
EXTENDS Lifecycle, TLC

CONSTANTS k0, k1, q1, q2

Keys == {k0, k1} \cup Notice

Symmetry == Permutations(Endpoint) \cup Permutations({k0, k1})

NothingTracked == \A q \in Request : request[q] = NoRequest
OneReplay == \A i, j \in Row : events[i].replays > 0 /\ events[j].replays > 0 => i = j

NothingDelivered ==
    /\ Given = {}
    /\ \A i \in Row : events[i] = NewRow(events[i].binding, events[i].key, State(i))
    /\ \A i \in Row : State(i) \in {"none", "pending"}

OneRequestUndisturbed ==
    /\ request[q2] = NoRequest
    /\ request[q1].deadline = "never"
    /\ \A i \in Row : ~Decided(i) /\ ~events[i].old
    /\ Cardinality({events[i].key : i \in Stored} \cap Sent) <= 1
    /\ \A b \in Binding : /\ \A s \in Given : s.to = route[b].endpoint
                          /\ route[b].state # "removed"

\* Deliveries of two events and no request, or requests whose events wait, or
\* one request without decisions, deadlines and rebinding.
Scope == \/ NothingTracked /\ Cardinality(Stored) <= 2 /\ OneReplay
         \/ NothingDelivered
         \/ OneRequestUndisturbed
=============================================================================
