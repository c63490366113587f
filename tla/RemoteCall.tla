----------------------------- MODULE RemoteCall -----------------------------
(***************************************************************************)
(* What the callers of the session pool rely on when they classify the end  *)
(* of an RPC: an answer is the App Server's answer to this very request,    *)
(* "unavailable" means that the App Server never sees the request, so that  *)
(* the caller may repeat it, and "uncertain" means nothing.  The server     *)
(* performs a request at most once.  Module RpcConnection implements this.  *)
(***************************************************************************)
CONSTANT Call

VARIABLES
    outcome,   \* how a call ended, for its caller
    performed  \* calls the App Server performed

vars == <<outcome, performed>>

Outcome == {"open", "answered", "unavailable", "uncertain", "cancelled"}

Init == /\ outcome = [c \in Call |-> "open"]
        /\ performed = {}

\* Also long after the caller gave up.
Perform(c) ==
    /\ c \notin performed
    /\ outcome[c] # "unavailable"
    /\ performed' = performed \cup {c}
    /\ UNCHANGED outcome

Return(c, o) ==
    /\ outcome[c] = "open"
    /\ o = "answered" => c \in performed
    /\ o = "unavailable" => c \notin performed
    /\ outcome' = [outcome EXCEPT ![c] = o]
    /\ UNCHANGED performed

Next == \E c \in Call : Perform(c) \/ \E o \in Outcome \ {"open"} : Return(c, o)

Spec == Init /\ [][Next]_vars
=============================================================================
