------------------------------- MODULE Receiver -------------------------------
(***************************************************************************)
(* The Python receiver (codex_monitor/monitor.py, session.py): one durable   *)
(* inbox, one dispatcher thread, and the commands that change routes and     *)
(* resolve deliveries from other processes.  A method of Monitor is one      *)
(* transaction; only dispatch_once commits in the middle, before it talks to *)
(* the App Server of the route.                                              *)
(***************************************************************************)
EXTENDS Naturals, Sequences, FiniteSets

CONSTANTS
    Binding,      \* names of routes
    Managed,      \* those of managed watches
    Endpoint,     \* App Servers
    Key,          \* event ids
    Sent,         \* those that senders use
    MaxRows,      \* bound: events ever stored
    MaxAttempts,  \* Monitor.max_attempts
    MaxReplays,   \* bound: replays of one event by the operator
    None

ASSUME ReceiverConstants ==
    /\ Managed \subseteq Binding
    /\ Sent \subseteq Key
    /\ {MaxRows, MaxAttempts} \subseteq Nat \ {0}
    /\ MaxReplays \in Nat
    /\ None \notin Binding \cup Key \cup Endpoint \cup Nat

VARIABLES
    route,    \* the bindings table
    events,   \* the events table; a row's place is its seq
    serve,    \* whether a receiver holds serve.lock
    job,      \* what dispatch_once works on
    wire,     \* submissions an App Server may still read
    placed,   \* those it took, in order
    visible   \* those its queue or history shows

store == <<route, events>>
native == <<wire, placed, visible>>
vars == <<store, serve, job, native>>

-----------------------------------------------------------------------------
Row == 1..MaxRows
Unresolved == {"pending", "submitting", "uncertain"}
Settled == {"ignored", "accepted", "dead", "discarded"}

NewRow(b, k, state) ==
    [binding |-> b, key |-> k, state |-> state, attempts |-> 0,
     due |-> TRUE, old |-> FALSE, replays |-> 0, manual |-> FALSE]
NoRow == NewRow(None, None, "none")
NoJob == [row |-> None, to |-> None, at |-> "idle"]
Answers == {"taken", "busy", "rejected"}

\* A submission: the event, how often it had been replayed, the App Server.
Submission == [row : Row, nth : 0..MaxReplays, to : Endpoint]

State(i) == events[i].state
Target(i) == route[events[i].binding]
Stored == {i \in Row : State(i) # "none"}

Init ==
    /\ route = [b \in Binding |-> [state |-> "unbound", endpoint |-> None]]
    /\ events = [i \in Row |-> NoRow]
    /\ serve = "down"
    /\ job = NoJob
    /\ wire = {} /\ placed = <<>> /\ visible = {}

-----------------------------------------------------------------------------
(* Routes, from the command line, the dashboard and the watch commands.    *)

bind(b, e) ==
    /\ route[b].state = "unbound"
    /\ route' = [route EXCEPT ![b] = [state |-> "enabled", endpoint |-> e]]
    /\ UNCHANGED <<events, serve, job, native>>

\* enable, dashboard_action, managed_set_enabled, managed_remove.
RouteAction(b, state) ==
    /\ route[b].state \in {"enabled", "paused"}
    /\ route' = [route EXCEPT ![b].state = state]
    /\ UNCHANGED <<events, serve, job, native>>

\* Wrong: does not look at the events.
rebind_always(b, e) ==
    /\ b \notin Managed
    /\ route[b].state \in {"enabled", "paused"}
    /\ route' = [route EXCEPT ![b].endpoint = e]
    /\ UNCHANGED <<events, serve, job, native>>

rebind(b, e) ==
    /\ b \notin Managed
    /\ route[b].state \in {"enabled", "paused"}
    /\ \A i \in Row : events[i].binding = b => State(i) \notin {"submitting", "uncertain"}
    /\ route' = [route EXCEPT ![b].endpoint = e]
    /\ UNCHANGED <<events, serve, job, native>>

-----------------------------------------------------------------------------
(* Events.                                                                 *)

Free(i) == State(i) = "none" /\ \A j \in 1..(i - 1) : State(j) # "none"
Known(b, k) == \E j \in Row : events[j].binding = b /\ events[j].key = k

\* A repeated event changes nothing; the limits of queue, rate and trace only
\* refuse.
Insert(i, b, k, state) ==
    /\ Free(i) /\ ~Known(b, k)
    /\ route[b].state = "enabled"
    /\ events' = [events EXCEPT ![i] = NewRow(b, k, state)]

\* Through the receiver; agent.ack is stored as ignored.
ingest(i, b, k) ==
    /\ serve = "running"
    /\ k \in Sent
    /\ \E state \in {"pending", "ignored"} : Insert(i, b, k, state)
    /\ UNCHANGED <<route, serve, job, native>>

\* What nobody reads of a settled event is not kept.
Settle(e, state) == [e EXCEPT !.state = state, !.attempts = 0, !.due = TRUE, !.old = FALSE]
ByHand(e, state) == [Settle(e, state) EXCEPT !.manual = TRUE]
Replay(e) == [Settle(e, "pending") EXCEPT !.replays = e.replays + 1]
Defer(e, state) == [e EXCEPT !.state = state, !.due = FALSE]

\* resolve, under serve.lock: only while no receiver runs.
resolve(i) ==
    /\ serve = "down"
    /\ State(i) \in {"uncertain", "dead"}
    /\ \/ \E state \in {"accepted", "discarded"} :
             events' = [events EXCEPT ![i] = ByHand(@, state)]
       \/ /\ events[i].replays < MaxReplays
          /\ events' = [events EXCEPT ![i] = Replay(@)]
    /\ UNCHANGED <<route, serve, job, native>>

-----------------------------------------------------------------------------
(* dispatch_once.                                                          *)

\* Wrong: an earlier event whose outcome is open does not hold the later ones.
HeadIsNotPending(i) ==
    \A j \in 1..(i - 1) : events[j].binding = events[i].binding => State(j) # "pending"

HeadOfLine(i) ==
    \A j \in 1..(i - 1) : events[j].binding = events[i].binding => State(j) \notin Unresolved

\* Each route has at most one; which route comes first is left open.
Eligible(i) ==
    /\ serve = "running" /\ job.at = "idle"
    /\ State(i) \in Unresolved
    /\ Target(i).state = "enabled"
    /\ events[i].due
    /\ HeadOfLine(i)

Expire(i) ==
    /\ Eligible(i)
    /\ State(i) = "pending" /\ events[i].old
    /\ events' = [events EXCEPT ![i] = Settle(@, "dead")]
    /\ UNCHANGED <<route, serve, job, native>>

\* Committed before anything is sent.
Dispatch(i) ==
    /\ Eligible(i)
    /\ IF State(i) = "pending"
       THEN /\ ~events[i].old
            /\ events' = [events EXCEPT ![i].state = "submitting", ![i].attempts = @ + 1]
            /\ job' = [row |-> i, to |-> Target(i).endpoint, at |-> "check"]
       ELSE /\ events' = [events EXCEPT ![i].state = "submitting"]
            /\ job' = [row |-> i, to |-> Target(i).endpoint, at |-> "look"]
    /\ UNCHANGED <<route, serve, native>>

At(i, step) == job.row = i /\ job.at = step
To(step) == job' = [job EXCEPT !.at = step]
Stores(i, e) == /\ events' = [events EXCEPT ![i] = e]
                /\ job' = NoJob
                /\ UNCHANGED <<route, serve, native>>

\* The target could not be asked, or has not loaded the conversation: the
\* attempt is given back.
Unavailable(i) ==
    /\ At(i, "check")
    /\ Stores(i, [Defer(events[i], "pending") EXCEPT
                     !.attempts = IF @ > 0 THEN @ - 1 ELSE 0])

\* Wrong: an answer that was lost is taken for a refusal.
LostIsBusy(i) ==
    /\ \E step \in {"sent"} \cup Answers : At(i, step)
    /\ Stores(i, Defer(events[i], "pending"))

\* No answer within the deadline, a lost connection, or an internal error.
Uncertain(i) ==
    /\ \E step \in {"sent"} \cup Answers : At(i, step)
    /\ Stores(i, Defer(events[i], "uncertain"))

\* The target, or the submission, is refused for good.
Permanent(i) ==
    /\ At(i, "check") \/ At(i, "rejected")
    /\ Stores(i, Settle(events[i], "dead"))

\* attempts counts this one already.
Retryable(i) ==
    /\ At(i, "busy")
    /\ Stores(i, IF events[i].attempts >= MaxAttempts
                 THEN Settle(events[i], "dead") ELSE Defer(events[i], "pending"))

Accepted(i) ==
    /\ At(i, "taken") \/ At(i, "found")
    /\ Stores(i, Settle(events[i], "accepted"))

Submit(i) ==
    /\ At(i, "check")
    /\ wire' = wire \cup {[row |-> i, nth |-> events[i].replays, to |-> job.to]}
    /\ To("sent")
    /\ UNCHANGED <<store, serve, placed, visible>>

\* inspect: the client id is in the queue or the history.
Inspect(i) ==
    /\ At(i, "look")
    /\ \E s \in visible : s.row = i /\ s.to = job.to
    /\ To("found")
    /\ UNCHANGED <<store, serve, native>>

\* Wrong: what is not found was not taken.
NotFoundIsNotTaken(i) ==
    /\ At(i, "look")
    /\ Stores(i, Defer(events[i], "pending"))

\* Nothing is found, or looking failed: no proof that it was not taken.
NotFound(i) ==
    /\ At(i, "look")
    /\ Stores(i, Defer(events[i], "uncertain"))

\* The outcome could not be stored: the event stays submitting.
StoreFails ==
    /\ job # NoJob
    /\ job' = NoJob
    /\ UNCHANGED <<store, serve, native>>

-----------------------------------------------------------------------------
(* The App Servers, time, and the life of the process.                     *)

\* Whether the dispatcher still waits for this submission.
Awaited(s) == At(s.row, "sent") /\ s.nth = events[s.row].replays
Answer(s, step) == IF Awaited(s) THEN To(step) ELSE UNCHANGED job

Take(s) ==
    /\ s \in wire
    /\ wire' = wire \ {s}
    /\ placed' = Append(placed, s)
    /\ visible' = visible \cup {s}
    /\ Answer(s, "taken")
    /\ UNCHANGED <<store, serve>>

\* Overloaded or refused; what is lost stays on the wire.
Refuse(s) ==
    /\ s \in wire
    /\ wire' = wire \ {s}
    /\ \E step \in {"busy", "rejected"} : Answer(s, step)
    /\ UNCHANGED <<store, serve, placed, visible>>

\* Deleted, compacted or consumed too long ago.
Forget(s) ==
    /\ s \in visible
    /\ visible' = visible \ {s}
    /\ UNCHANGED <<store, serve, job, wire, placed>>

\* next_at is reached.
DueComes(i) ==
    /\ ~events[i].due
    /\ events' = [events EXCEPT ![i].due = TRUE]
    /\ UNCHANGED <<route, serve, job, native>>

\* Older than max_age; events age in their order, a replay begins anew.
GrowOld(i) ==
    /\ State(i) \in {"pending", "submitting"} /\ ~events[i].old
    /\ \A j \in 1..(i - 1) :
          State(j) \in {"pending", "submitting"} /\ events[j].replays = 0 => events[j].old
    /\ events' = [events EXCEPT ![i].old = TRUE]
    /\ UNCHANGED <<route, serve, job, native>>

Start ==
    /\ serve = "down"
    /\ serve' = "running"
    /\ UNCHANGED <<store, job, native>>

\* Stopped or killed, at any moment.
Die ==
    /\ serve = "running"
    /\ serve' = "down"
    /\ job' = NoJob
    /\ UNCHANGED <<store, native>>

-----------------------------------------------------------------------------
Commands ==
    \/ \E b \in Binding :
          \/ \E e \in Endpoint : bind(b, e) \/ rebind(b, e)
          \/ \E state \in {"enabled", "paused", "removed"} : RouteAction(b, state)
    \/ \E i \in Row : resolve(i)

Senders == \E i \in Row, b \in Binding, k \in Key : ingest(i, b, k)

dispatch_once ==
    \/ \E i \in Row :
          \/ Expire(i) \/ Dispatch(i) \/ Submit(i) \/ Inspect(i)
          \/ Unavailable(i) \/ Uncertain(i) \/ Permanent(i) \/ Retryable(i)
          \/ Accepted(i) \/ NotFound(i)
    \/ StoreFails

AppServer ==
    \/ \E s \in wire : Take(s) \/ Refuse(s)
    \/ \E s \in visible : Forget(s)

Time == \E i \in Row : DueComes(i) \/ GrowOld(i)

Next == Commands \/ Senders \/ dispatch_once \/ AppServer \/ Time \/ Start \/ Die

Spec == Init /\ [][Next]_vars

-----------------------------------------------------------------------------
(* Correctness.                                                            *)

Event == [binding : Binding \cup {None}, key : Key \cup {None},
          state : {"none"} \cup Unresolved \cup Settled, attempts : 0..MaxAttempts,
          due : BOOLEAN, old : BOOLEAN, replays : 0..MaxReplays, manual : BOOLEAN]

\* The values of the variables.
TypeOK ==
    /\ route \in [Binding -> [state : {"unbound", "enabled", "paused", "removed"},
                              endpoint : Endpoint \cup {None}]]
    /\ events \in [Row -> Event]
    /\ serve \in {"down", "running"}
    /\ job \in [row : Row \cup {None}, to : Endpoint \cup {None},
                at : {"idle", "check", "sent", "look", "found"} \cup Answers]
    /\ wire \in SUBSET Submission
    /\ placed \in Seq(Submission)
    /\ visible \in SUBSET Submission

\* Submissions that an App Server has, or may still read.
Placed == {placed[n] : n \in DOMAIN placed}
Given == wire \cup Placed

Decided(i) == events[i].replays > 0 \/ events[i].manual

\* An App Server takes an event once, and once more for each replay an operator
\* asked for; what is pending or dead was not taken since (errors.py: "may have
\* been accepted. Reconcile, never blindly replay").
NoBlindReplay ==
    /\ \A m, n \in DOMAIN placed :
          m # n /\ placed[m].row = placed[n].row => placed[m].nth # placed[n].nth
    /\ \A s \in Placed :
          State(s.row) \in {"pending", "dead"} => s.nth # events[s.row].replays

\* The events of a route are taken in their order, except those that an
\* operator decided about (the NOT EXISTS of dispatch_once).
TakenInOrder ==
    \A m, n \in DOMAIN placed :
        LET i == placed[m].row  j == placed[n].row IN
        m < n /\ events[i].binding = events[j].binding => i <= j \/ Decided(j)

\* What is reported accepted was taken, unless an operator said so.
AcceptedIsTaken ==
    \A i \in Row : State(i) = "accepted" /\ ~events[i].manual
                      => \E s \in Placed : s.row = i

\* Where an event that is not settled was sent is where its route leads: so it
\* is looked for at the App Server that may have it (rebind: "in-flight or
\* uncertain input must settle before reconnecting").
LookedForWhereSent ==
    \A s \in Given :
        /\ s.nth = events[s.row].replays
        /\ State(s.row) \in {"submitting", "uncertain"}
        => s.to = Target(s.row).endpoint

-----------------------------------------------------------------------------
(* What is promised.                                                       *)

\* What Delivery says of an event.
DeliveryStage(state) ==
    IF state \in Unresolved THEN "open"
    ELSE IF state \in {"dead", "discarded"} THEN "refused" ELSE state

Promise == INSTANCE Delivery WITH
    stage <- [i \in Row |-> DeliveryStage(State(i))],
    lane <- [i \in Row |-> events[i].binding],
    placed <- [n \in DOMAIN placed |-> placed[n].row]

Undecided == \A i \in Row : ~Decided(i)

\* Until an operator decides about an event, dispatch_once keeps the promise of
\* the native receiver: each of its commits is a step of Delivery, or none.
KeepsItsPromise ==
    /\ Promise!Init
    /\ [][Undecided' => [Promise!Next]_(Promise!vars)]_vars
=============================================================================
