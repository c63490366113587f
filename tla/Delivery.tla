------------------------------ MODULE Delivery ------------------------------
(***************************************************************************)
(* What the receiver promises about one durable inbox, with no mention of   *)
(* how: a receipt is opened once, the App Server takes each open receipt at *)
(* most once and each binding's receipts in the order they were received,   *)
(* a receipt is only confirmed when the App Server has it, and only refused *)
(* when the App Server never got it.  Module Inbox implements this.         *)
(***************************************************************************)
EXTENDS Naturals, Sequences

CONSTANTS
    Row,      \* receipts, numbered in the order they are received
    Binding,  \* the routes
    None      \* the lane of a receipt that was not received yet

VARIABLES
    stage,    \* what the receiver says of a receipt
    lane,     \* the binding it was received for
    placed    \* receipts the App Server took, in the order it took them

vars == <<stage, lane, placed>>

Stage == {"none", "open", "accepted", "refused", "ignored"}

Taken(i) == \E p \in DOMAIN placed : placed[p] = i

Init == /\ stage = [i \in Row |-> "none"]
        /\ lane = [i \in Row |-> None]
        /\ placed = <<>>

\* Receipts are opened, or recorded as acknowledgements nobody acts on: those
\* that are committed together take the next numbers.
Receive(S) ==
    /\ \A i \in S : stage[i] = "none"
    /\ \A i \in S, j \in Row : j < i => j \in S \/ stage[j] # "none"
    /\ \E s \in [S -> {"open", "ignored"}], l \in [S -> Binding] :
          /\ stage' = [i \in Row |-> IF i \in S THEN s[i] ELSE stage[i]]
          /\ lane' = [i \in Row |-> IF i \in S THEN l[i] ELSE lane[i]]
    /\ UNCHANGED placed

\* The App Server takes an open receipt, after every earlier one of its lane.
Place(i) ==
    /\ stage[i] = "open"
    /\ ~Taken(i)
    /\ \A j \in Row : (j < i /\ lane[j] = lane[i]) => stage[j] # "open"
    /\ placed' = Append(placed, i)
    /\ UNCHANGED <<stage, lane>>

Confirm(i) ==
    /\ stage[i] = "open"
    /\ Taken(i)
    /\ stage' = [stage EXCEPT ![i] = "accepted"]
    /\ UNCHANGED <<lane, placed>>

\* Receipts the App Server never got are given up: expiry, rejection, removal.
Refuse(S) ==
    /\ \A i \in S : stage[i] = "open" /\ ~Taken(i)
    /\ stage' = [i \in Row |-> IF i \in S THEN "refused" ELSE stage[i]]
    /\ UNCHANGED <<lane, placed>>

Next == \/ \E i \in Row : Place(i) \/ Confirm(i)
        \/ \E S \in SUBSET Row : Receive(S) \/ Refuse(S)

Spec == Init /\ [][Next]_vars
=============================================================================
