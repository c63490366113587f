------------------------------ MODULE Lifecycle ------------------------------
(***************************************************************************)
(* Tracked requests of the Python receiver (codex_monitor/requests.py) and   *)
(* the pump that turns their notifications into events (request_dispatch.py).*)
(* Requests have a database of their own, so that a notification is stored   *)
(* as an event in one transaction and marked accepted in another.  Extends   *)
(* Receiver: the dispatcher thread pumps, then calls dispatch_once.          *)
(***************************************************************************)
EXTENDS Receiver

CONSTANTS
    Request,      \* requests ever tracked
    MaxUpdates,   \* max_updates_per_request
    MaxNotices,   \* max_notifications
    Batch         \* batch_size

Revision == 1..MaxUpdates
Notice == Request \X Revision

\* The event id of a notification names its request and revision; a sender does
\* not give an event of its own such a name.
ASSUME LifecycleConstants ==
    /\ IsFiniteSet(Request)
    /\ MaxUpdates \in Nat /\ MaxUpdates >= 2
    /\ {MaxNotices, Batch} \subseteq Nat \ {0}
    /\ Notice \subseteq Key \ Sent

VARIABLES
    request,  \* the requests table, with its expires_at against the clock
    notice,   \* the request_notifications table
    pump      \* what the dispatcher thread has read of both databases

ledger == <<request, notice>>
lvars == <<vars, ledger, pump>>

-----------------------------------------------------------------------------
\* Nothing tells completed, failed, cancelled and expired apart: "ended".
Open == {"received", "acknowledged", "in_progress"}
Notified == {"in_progress", "ended"}

NoRequest == [state |-> "none", revision |-> 0, binding |-> None, deadline |-> "never"]
NoNotice == [state |-> "none", due |-> TRUE]
AtRest == [batch |-> {}, seen |-> {}, item |-> None]

OpenRequests == {q \in Request : request[q].state \in Open}
PendingNotices == {n \in Notice : notice[n].state = "pending"}
RouteOf(n) == request[n[1]].binding

LInit ==
    /\ Init
    /\ request = [q \in Request |-> NoRequest]
    /\ notice = [n \in Notice |-> NoNotice]
    /\ pump = AtRest

-----------------------------------------------------------------------------
(* The ledger, from the command line and the HTTP handlers.                *)

\* Wrong: a pending notification is not counted.
RoomBesides(reserved) == reserved <= MaxNotices

\* What is pending and what is reserved fits.
Room(reserved) == Cardinality(PendingNotices) + reserved <= MaxNotices

\* create, for any stored event.
create(q, i, deadline) ==
    /\ request[q].state = "none"
    /\ State(i) # "none"
    /\ Room(Cardinality(OpenRequests) + 1)
    /\ request' = [request EXCEPT ![q] = [state |-> "received", revision |-> 0,
                     binding |-> events[i].binding, deadline |-> deadline]]
    /\ UNCHANGED <<vars, notice, pump>>

allowed(previous, target) ==
    \/ target = "acknowledged" /\ previous = "received"
    \/ target = "in_progress" /\ previous \in {"received", "acknowledged"}
    \/ target = "ended" /\ previous \in Open

\* Wrong: the last update is not kept for the end.
FitsToTheLast(q, target) ==
    /\ target = "in_progress" => Room(Cardinality(OpenRequests) + 1)
    /\ target = "ended" => Room(1)
    /\ request[q].revision + 1 <= MaxUpdates

\* The limits: a request that is open has room reserved for its end.
Fits(q, target) ==
    /\ target = "in_progress" => Room(Cardinality(OpenRequests) + 1)
    /\ target = "ended" => Room(1)
    /\ target # "ended" => request[q].revision + 1 < MaxUpdates

Advanced(q, target) == [request[q] EXCEPT !.state = target, !.revision = @ + 1]
Announced(q, target) ==
    IF target \in Notified
    THEN [notice EXCEPT ![<<q, request[q].revision + 1>>].state = "pending"]
    ELSE notice

transition(q, target) ==
    /\ allowed(request[q].state, target)
    /\ Fits(q, target)
    /\ request' = [request EXCEPT ![q] = Advanced(q, target)]
    /\ notice' = Announced(q, target)
    /\ UNCHANGED <<vars, pump>>

-----------------------------------------------------------------------------
(* pump, in the dispatcher thread.                                         *)

Pumping == serve = "running" /\ job = NoJob

\* One transaction: as many as are due, fit and make a batch.
expire_due(due) ==
    /\ Pumping /\ pump.batch = {}
    /\ due # {} /\ Cardinality(due) <= Batch
    /\ Room(Cardinality(due))
    /\ request' = [q \in Request |-> IF q \in due THEN Advanced(q, "ended") ELSE request[q]]
    /\ notice' = [n \in Notice |->
                    IF n[1] \in due /\ n[2] = request[n[1]].revision + 1
                    THEN [notice[n] EXCEPT !.state = "pending"] ELSE notice[n]]
    /\ UNCHANGED <<vars, pump>>

\* Wrong: does not wait for the earlier ones of the request.
NextWhatever(n) == notice[n].state = "pending" /\ notice[n].due

NextToTell(n) ==
    /\ notice[n].state = "pending" /\ notice[n].due
    /\ \A v \in 1..(n[2] - 1) : notice[<<n[1], v>>].state # "pending"

\* pending_notifications, and the routes as they are now.
pending_notifications(batch) ==
    /\ Pumping /\ pump.batch = {}
    /\ batch # {}
    /\ Cardinality(batch) <= Batch
    /\ pump' = [batch |-> batch, seen |-> {b \in Binding : route[b].state = "enabled"},
                item |-> None]
    /\ UNCHANGED <<vars, ledger>>

Later(n) == /\ notice' = [notice EXCEPT ![n].due = FALSE]
            /\ pump' = [pump EXCEPT !.batch = @ \ {n}]
            /\ UNCHANGED <<vars, request>>

\* The route was paused when the batch was read.
notification_deferred(n) ==
    /\ n \in pump.batch /\ pump.item = None
    /\ RouteOf(n) \notin pump.seen
    /\ Later(n)

\* ingest raises: the route was paused meanwhile, a limit is reached, the
\* database is locked.
notification_error(n) ==
    /\ n \in pump.batch /\ pump.item = None
    /\ RouteOf(n) \in pump.seen
    /\ Later(n)

\* Stored now, or found stored by a pump that died or failed after it.
PumpIngest(n) ==
    /\ n \in pump.batch /\ pump.item = None
    /\ RouteOf(n) \in pump.seen
    /\ \/ Known(RouteOf(n), n) /\ UNCHANGED events
       \/ \E i \in Row : Insert(i, RouteOf(n), n, "pending")
    /\ pump' = [pump EXCEPT !.item = n]
    /\ UNCHANGED <<route, serve, job, native, ledger>>

\* Wrong: accepted before it is stored.
AcceptEarly(n) ==
    /\ n \in pump.batch
    /\ notice' = [notice EXCEPT ![n].state = "accepted"]
    /\ pump' = [pump EXCEPT !.batch = @ \ {n}, !.item = None]
    /\ UNCHANGED <<vars, request>>

notification_accepted(n) ==
    /\ pump.item = n /\ n \in pump.batch
    /\ notice' = [notice EXCEPT ![n].state = "accepted"]
    /\ pump' = [pump EXCEPT !.batch = @ \ {n}, !.item = None]
    /\ UNCHANGED <<vars, request>>

\* A database refuses: the rest of the batch is left for the next pump.
PumpFails ==
    /\ pump # AtRest
    /\ pump' = AtRest
    /\ UNCHANGED <<vars, ledger>>

-----------------------------------------------------------------------------
\* expires_at and next_at are reached.
DeadlineComes(q) ==
    /\ request[q].deadline = "later"
    /\ request' = [request EXCEPT ![q].deadline = "due"]
    /\ UNCHANGED <<vars, notice, pump>>

NoticeComes(n) ==
    /\ ~notice[n].due
    /\ notice' = [notice EXCEPT ![n].due = TRUE]
    /\ UNCHANGED <<vars, request, pump>>

\* Every step of Receiver; a delivery starts when the pump is through, and the
\* pump dies with the receiver.
ReceiverStep ==
    /\ Next
    /\ job = NoJob /\ job' # NoJob => pump.batch = {}
    /\ pump' = IF serve' = "down" THEN AtRest ELSE pump
    /\ UNCHANGED ledger

Ledger ==
    \E q \in Request :
        \/ \E i \in Row, deadline \in {"never", "later"} : create(q, i, deadline)
        \/ \E target \in Open \cup {"ended"} : transition(q, target)
        \/ DeadlineComes(q)

Pump ==
    \/ \E due \in SUBSET {q \in OpenRequests : request[q].deadline = "due"} : expire_due(due)
    \/ \E batch \in SUBSET {n \in Notice : NextToTell(n)} : pending_notifications(batch)
    \/ \E n \in Notice :
          \/ notification_deferred(n) \/ notification_error(n)
          \/ PumpIngest(n) \/ notification_accepted(n)
    \/ PumpFails

LNext == ReceiverStep \/ Ledger \/ Pump \/ \E n \in Notice : NoticeComes(n)

LSpec == LInit /\ [][LNext]_lvars

-----------------------------------------------------------------------------
(* Correctness.                                                            *)

\* The values of the variables.
LTypeOK ==
    /\ TypeOK
    /\ request \in [Request -> [state : {"none", "ended"} \cup Open, revision : 0..MaxUpdates,
                                binding : Binding \cup {None},
                                deadline : {"never", "later", "due"}]]
    /\ notice \in [Notice -> [state : {"none", "pending", "accepted"}, due : BOOLEAN]]
    /\ pump \in [batch : SUBSET Notice, seen : SUBSET Binding, item : Notice \cup {None}]

\* Whatever else is tracked, reported and waits to be told, a request that is
\* open can be ended: there is an update and a notification left for it
\* (REQUEST-LIFECYCLE.md:72: "reserves terminal notification capacity for open
\* requests"; requests.py: "Keep one transition slot available").
OpenRequestsCanEnd ==
    /\ Cardinality(PendingNotices) + Cardinality(OpenRequests) <= MaxNotices
    /\ \A q \in OpenRequests : request[q].revision < MaxUpdates

\* What is told of a request is stored in the order of its revisions and without
\* a gap, also if the receiver dies between the two databases
\* (pending_notifications, and the comment in pump).
ToldInOrder ==
    \A n \in Notice :
        notice[n].state = "accepted" \/ (\E i \in Row : events[i].key = n)
        => \A v \in 1..n[2] :
              notice[<<n[1], v>>].state # "none" =>
                 \E i \in Row : /\ events[i].key = <<n[1], v>>
                                /\ \A j \in Row : events[j].key = n => i <= j

\* What an App Server takes of one request it takes in the order of its
\* revisions, unless an operator decided about the event.
RevisionsTakenInOrder ==
    \A m, n \in DOMAIN placed : \A q \in Request, v, w \in Revision :
        /\ m < n
        /\ events[placed[m].row].key = <<q, v>> /\ events[placed[n].row].key = <<q, w>>
        => v <= w \/ Decided(placed[n].row)
=============================================================================
