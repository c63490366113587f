------------------------------- MODULE Inbox -------------------------------
(***************************************************************************)
(* The durable inbox of the receiver (rust/src/store.rs, table events) with *)
(* the workers that empty it (rust/src/runtime.rs: dispatch, deliver_one,   *)
(* reconcile) and the native App Server they hand messages to, which is     *)
(* external.  Every operation of the store is one SQLite transaction, so    *)
(* one action.  A row's place in the table is its seq; a row is never       *)
(* deleted.  Wall-clock times are kept only as far as a guard reads them:   *)
(* next_at is "fresh" (0), "waiting" (in the future) or "due", and the rows *)
(* older than MAX_AGE_SECONDS are those up to `aged`.  MAX_PENDING, the     *)
(* rate limit and the trace budget only make ingest refuse without a        *)
(* change, which ingest may do here by not being taken.                     *)
(***************************************************************************)
EXTENDS Naturals, Sequences, FiniteSets

CONSTANTS
    Binding,      \* names of routes
    Managed,      \* those created for a managed watch
    EventId,      \* (source, event_id) pairs senders use within one binding
    None,         \* a column that is not set
    MaxRows,      \* bound: rows of the events table
    MaxAttempts,  \* MAX_ATTEMPTS
    MaxJobs,      \* concurrent deliveries of dispatch
    MaxCrashes    \* bound: process deaths

ASSUME InboxConstants ==
    /\ Managed \subseteq Binding
    /\ None \notin Binding
    /\ MaxRows \in Nat
    /\ MaxAttempts \in Nat \ {0}
    /\ MaxJobs \in Nat \ {0}
    /\ MaxCrashes \in Nat

VARIABLES
    route,    \* bindings.enabled and bindings.removed
    events,   \* the events table
    aged,     \* rows 1..aged are older than MAX_AGE_SECONDS
    serve,    \* the serve process: "down" or "running"
    job,      \* deliver_one of a row: how far it is, or what it returned
    found,    \* rows for which reconcile holds evidence it has not stored yet
    wire,     \* thread/queue/add requests the App Server may still process
    placed,   \* submissions the App Server accepted, in order
    visible,  \* those still found in its queue or its history
    crashes   \* process deaths so far

store == <<route, events>>
native == <<wire, placed, visible>>
vars == <<route, events, aged, serve, job, found, wire, placed, visible, crashes>>

-----------------------------------------------------------------------------
Row == 1..MaxRows
RouteState == {"unbound", "enabled", "paused", "removed"}
InFlight == {"submitting", "uncertain"}
Settled == {"accepted", "dead", "ignored"}
EventState == {"none", "pending"} \cup InFlight \cup Settled
NextAt == {"fresh", "waiting", "due"}
Outcome == {"ok", "unavailable", "retryable", "permanent", "uncertain"}
JobState == {"none", "checking", "sent"} \cup Outcome

EventRow == [binding: Binding \cup {None}, key: EventId \cup {None},
             state: EventState, attempts: Nat, nextAt: NextAt]
NoRow == [binding |-> None, key |-> None, state |-> "none",
          attempts |-> 0, nextAt |-> "fresh"]

State(i) == events[i].state
Earlier(i) == {j \in Row : j < i /\ events[j].binding = events[i].binding}
Jobs == {i \in Row : job[i] # "none"}

-----------------------------------------------------------------------------
(* Routes: the CLI opens the same database, whether or not serve runs.     *)

Init ==
    /\ route = [b \in Binding |-> "unbound"]
    /\ events = [i \in Row |-> NoRow]
    /\ aged = 0
    /\ serve = "down"
    /\ job = [i \in Row |-> "none"]
    /\ found = {}
    /\ wire = {}
    /\ placed = <<>>
    /\ visible = {}
    /\ crashes = 0

\* bind, and the binding watch_create inserts for a managed watch.
Bind(b) ==
    /\ route[b] = "unbound"
    /\ route' = [route EXCEPT ![b] = "enabled"]
    /\ UNCHANGED <<events, aged, serve, job, found, native, crashes>>

\* route_action and watch_action, "pause" and "resume".
PauseOrResume(b, to) ==
    /\ route[b] \in {"enabled", "paused"}
    /\ to \in {"enabled", "paused"} \ {route[b]}
    /\ route' = [route EXCEPT ![b] = to]
    /\ UNCHANGED <<events, aged, serve, job, found, native, crashes>>

\* route_action "remove", which a removed route accepts again: the pending
\* rows of the route are settled in the same transaction.
SettledByRemovalWhen(b, states) ==
    [i \in Row |-> IF events[i].binding = b /\ State(i) \in states
                   THEN [events[i] EXCEPT !.state = "dead", !.nextAt = "fresh"]
                   ELSE events[i]]
\* Wrong: settles rows that crossed the handoff boundary.
SettledByRemovalWithJobs(b) == SettledByRemovalWhen(b, {"pending", "submitting"})
SettledByRemovalWithHeld(b) == SettledByRemovalWhen(b, {"pending", "uncertain"})

SettledByRemoval(b) == SettledByRemovalWhen(b, {"pending"})

RemoveRoute(b) ==
    /\ route[b] # "unbound"
    /\ route' = [route EXCEPT ![b] = "removed"]
    /\ events' = SettledByRemoval(b)
    /\ UNCHANGED <<aged, serve, job, found, native, crashes>>

\* watch_action "remove" retires the watch's binding and leaves its rows.
RemoveWatch(b) ==
    /\ b \in Managed
    /\ route[b] \in {"enabled", "paused"}
    /\ route' = [route EXCEPT ![b] = "removed"]
    /\ UNCHANGED <<events, aged, serve, job, found, native, crashes>>

-----------------------------------------------------------------------------
(* Intake.                                                                 *)

Free == {i \in Row : State(i) = "none" /\ \A j \in Row : j < i => State(j) # "none"}

\* A key the binding already has is answered from the existing row, also
\* after a pause, and changes nothing.
IsDuplicate(b, k) == \E i \in Row : events[i].binding = b /\ events[i].key = k

\* ingest_tx of the HTTP handlers, the collector and the maintenance worker.
\* An agent.ack is recorded without ever being dispatched.
Ingest(b, k, state) ==
    /\ serve = "running"
    /\ state \in {"pending", "ignored"}
    /\ ~IsDuplicate(b, k)
    /\ route[b] = "enabled"
    /\ \E i \in Free :
         events' = [events EXCEPT ![i] =
                      [NoRow EXCEPT !.binding = b, !.key = k, !.state = state]]
    /\ UNCHANGED <<route, aged, serve, job, found, native, crashes>>

-----------------------------------------------------------------------------
(* Dispatch.                                                               *)

\* Wrong: a deferred row is never due; a held row does not hold the rows behind it.
IsDueWhenFresh(nextAt) == nextAt = "fresh"
HoldsUnlessUncertain(state) == state \in {"pending", "submitting"}

IsClaimable(state) == state = "pending"
IsDue(nextAt) == nextAt # "waiting"
HoldsLaterRows(state) == state \in {"pending"} \cup InFlight

\* The rows the SELECT of claim returns when the rows of `gone` are settled:
\* pending, due, on an enabled route, and first of their binding.
Eligible(gone) ==
    {i \in Row \ gone :
        /\ State(i) # "none" /\ IsClaimable(State(i))
        /\ route[events[i].binding] = "enabled"
        /\ IsDue(events[i].nextAt)
        /\ \A j \in Earlier(i) \ gone : ~HoldsLaterRows(State(j))}

\* ORDER BY next_at, seq: rows never deferred (next_at 0) come first, oldest
\* first; the times of deferred rows are not told apart.
Precedes(i, j) ==
    events[i].nextAt = "fresh" /\ (events[j].nextAt # "fresh" \/ i < j)

First(S) == {i \in S : \A j \in S \ {i} : ~Precedes(j, i)}

\* The rows one claim may settle as expired before it finds a live one.
Expirable(gone) ==
    \A i \in gone : i <= aged /\ i \in Eligible({j \in gone : j < i})

AfterExpiry(gone) ==
    [i \in Row |-> IF i \in gone THEN [events[i] EXCEPT !.state = "dead"]
                                 ELSE events[i]]

\* claim by the dispatch loop, which then spawns deliver_one for the row.
Claim(gone, i) ==
    /\ serve = "running"
    /\ Cardinality(Jobs) < MaxJobs
    /\ Expirable(gone)
    /\ i \in First(Eligible(gone))
    /\ i > aged
    /\ events' = [AfterExpiry(gone) EXCEPT
                    ![i].state = "submitting", ![i].attempts = @ + 1]
    /\ job' = [job EXCEPT ![i] = "checking"]
    /\ UNCHANGED <<route, aged, serve, found, native, crashes>>

\* claim when only expired rows were eligible: they are settled, none is taken.
ClaimNothing(gone) ==
    /\ serve = "running"
    /\ Cardinality(Jobs) < MaxJobs
    /\ gone # {}
    /\ Expirable(gone)
    /\ Eligible(gone) = {}
    /\ events' = AfterExpiry(gone)
    /\ UNCHANGED <<route, aged, serve, job, found, native, crashes>>

\* SessionPool::deliver: check_target fails, or no connection for the add.
Preflight(i, outcome) ==
    /\ job[i] = "checking"
    /\ outcome \in {"unavailable", "permanent"}
    /\ job' = [job EXCEPT ![i] = outcome]
    /\ UNCHANGED <<store, aged, serve, found, native, crashes>>

\* SessionPool::deliver: thread/queue/add is written.
Submit(i) ==
    /\ job[i] = "checking"
    /\ job' = [job EXCEPT ![i] = "sent"]
    /\ wire' = wire \cup {i}
    /\ UNCHANGED <<store, aged, serve, found, placed, visible, crashes>>

Unanswered == "uncertain"

\* The write or the answer timed out, the connection broke, or the answer was
\* malformed or an unclassified error.
LoseAnswer(i) ==
    /\ job[i] = "sent"
    /\ job' = [job EXCEPT ![i] = Unanswered]
    /\ UNCHANGED <<store, aged, serve, found, native, crashes>>

-----------------------------------------------------------------------------
(* What deliver_one stores: finish and defer_unavailable.  Their errors are *)
(* the prior states JobOwnsItsRow and EvidenceIsForHeldRows exclude.        *)

DoneWith(i, row) ==
    /\ events' = [events EXCEPT ![i] = row]
    /\ job' = [job EXCEPT ![i] = "none"]
    /\ UNCHANGED <<route, aged, serve, found, native, crashes>>

FinishSettled(i) ==
    /\ State(i) \in InFlight
    /\ \/ /\ job[i] = "ok"
          /\ DoneWith(i, [events[i] EXCEPT !.state = "accepted", !.nextAt = "fresh"])
       \/ /\ job[i] = "permanent"
          /\ DoneWith(i, [events[i] EXCEPT !.state = "dead", !.nextAt = "fresh"])

\* finish "pending": back off, or give up after the last attempt.
RetryOf(row) ==
    IF row.attempts >= MaxAttempts
    THEN [row EXCEPT !.state = "dead", !.nextAt = "fresh"]
    ELSE [row EXCEPT !.state = "pending", !.nextAt = "waiting"]

FinishRetryable(i) ==
    /\ State(i) \in InFlight
    /\ job[i] = "retryable"
    /\ DoneWith(i, RetryOf(events[i]))

\* Wrong: blind replay.
HeldAfterAsPending(row) == [row EXCEPT !.state = "pending", !.nextAt = "waiting"]

\* deliver_one's last arm: nothing is known, so the row is held.
HeldAfter(row) == [row EXCEPT !.state = "uncertain", !.nextAt = "fresh"]

FinishUncertain(i) ==
    /\ State(i) \in InFlight
    /\ job[i] = "uncertain"
    /\ DoneWith(i, HeldAfter(events[i]))

\* attempts.saturating_sub(1)
OneFewer(n) == IF n = 0 THEN 0 ELSE n - 1

\* defer_unavailable gives the attempt back.
DeferUnavailable(i) ==
    /\ State(i) = "submitting"
    /\ job[i] = "unavailable"
    /\ DoneWith(i, [events[i] EXCEPT !.state = "pending", !.nextAt = "waiting",
                                     !.attempts = OneFewer(@)])

-----------------------------------------------------------------------------
(* Reconcile: evidence first, stored later.                                *)

\* Wrong: takes "unknown" for evidence; joins only enabled routes.
HasEvidenceOfNothing(i) == State(i) = "uncertain"
HasEvidenceIfEnabled(i) ==
    State(i) = "uncertain" /\ i \in visible /\ route[events[i].binding] = "enabled"

HasEvidence(i) == State(i) = "uncertain" /\ i \in visible

\* A job of the reconcile tick inspects a held row: only "queued" and
\* "consumed" count; anything else leaves the row for the next tick.
Inspect(i) ==
    /\ serve = "running"
    /\ i \notin found
    /\ HasEvidence(i)
    /\ found' = found \cup {i}
    /\ UNCHANGED <<store, aged, serve, job, native, crashes>>

ReconcileAccept(i) ==
    /\ i \in found
    /\ State(i) \in InFlight
    /\ events' = [events EXCEPT ![i].state = "accepted", ![i].nextAt = "fresh"]
    /\ found' = found \ {i}
    /\ UNCHANGED <<route, aged, serve, job, native, crashes>>

-----------------------------------------------------------------------------
(* The App Server (external) and the answers it sends back.                *)

Answer(i, outcome) == IF job[i] = "sent" THEN [job EXCEPT ![i] = outcome] ELSE job

\* It queues the submission.  The answer may be lost: LoseAnswer.
NativeAccept(i) ==
    /\ i \in wire
    /\ wire' = wire \ {i}
    /\ placed' = Append(placed, i)
    /\ visible' = visible \cup {i}
    /\ job' \in {job, Answer(i, "ok")}
    /\ UNCHANGED <<store, aged, serve, found, crashes>>

\* It refuses the submission: overload (-32001), or a permanent error.
NativeRefuse(i, outcome) ==
    /\ i \in wire
    /\ outcome \in {"retryable", "permanent"}
    /\ wire' = wire \ {i}
    /\ job' \in {job, Answer(i, outcome)}
    /\ UNCHANGED <<store, aged, serve, found, placed, visible, crashes>>

\* The user deletes a submission, or the history is compacted.
NativeForget(i) ==
    /\ i \in visible
    /\ visible' = visible \ {i}
    /\ UNCHANGED <<store, aged, serve, job, found, wire, placed, crashes>>

-----------------------------------------------------------------------------
(* Time, death and restart.                                                *)

GrowOld ==
    /\ aged < MaxRows
    /\ State(aged + 1) # "none"
    /\ aged' = aged + 1
    /\ UNCHANGED <<store, serve, job, found, native, crashes>>

BackoffElapses(i) ==
    /\ events[i].nextAt = "waiting"
    /\ events' = [events EXCEPT ![i].nextAt = "due"]
    /\ UNCHANGED <<route, aged, serve, job, found, native, crashes>>

\* A crash, or a stop: dispatch aborts its jobs, the rows stay as they are.
Die ==
    /\ serve = "running"
    /\ crashes < MaxCrashes
    /\ crashes' = crashes + 1
    /\ serve' = "down"
    /\ job' = [i \in Row |-> "none"]
    /\ found' = {}
    /\ UNCHANGED <<store, aged, native>>

\* Wrong: restart replays what was being submitted.
RecoveredAsPending(row) ==
    IF row.state = "submitting"
    THEN [row EXCEPT !.state = "pending", !.nextAt = "due"] ELSE row

\* serve: recover_submitting runs before any worker is spawned.
Recovered(row) ==
    IF row.state = "submitting"
    THEN [row EXCEPT !.state = "uncertain", !.nextAt = "due"] ELSE row

Start ==
    /\ serve = "down"
    /\ serve' = "running"
    /\ events' = [i \in Row |-> Recovered(events[i])]
    /\ UNCHANGED <<route, aged, job, found, native, crashes>>

-----------------------------------------------------------------------------
RouteStep == \E b \in Binding :
    \/ Bind(b)
    \/ \E to \in RouteState : PauseOrResume(b, to)
    \/ RemoveRoute(b)
    \/ RemoveWatch(b)

Dispatch == \E gone \in SUBSET Row :
    \/ ClaimNothing(gone)
    \/ \E i \in Row : Claim(gone, i)

DeliverStep(i) ==
    \/ \E outcome \in Outcome : Preflight(i, outcome)
    \/ Submit(i)
    \/ LoseAnswer(i)
    \/ FinishSettled(i)
    \/ FinishRetryable(i)
    \/ FinishUncertain(i)
    \/ DeferUnavailable(i)

ReconcileStep(i) == Inspect(i) \/ ReconcileAccept(i)

NativeStep(i) ==
    \/ NativeAccept(i)
    \/ \E outcome \in Outcome : NativeRefuse(i, outcome)
    \/ NativeForget(i)

Next ==
    \/ RouteStep
    \/ \E b \in Binding, k \in EventId, s \in EventState : Ingest(b, k, s)
    \/ Dispatch
    \/ \E i \in Row : DeliverStep(i) \/ ReconcileStep(i) \/ NativeStep(i)
    \/ GrowOld
    \/ \E i \in Row : BackoffElapses(i)
    \/ Die
    \/ Start

Spec == Init /\ [][Next]_vars

-----------------------------------------------------------------------------
(* Properties.                                                             *)

\* Types of the variables: the columns hold values the schema and the code know.
TypeOK ==
    /\ route \in [Binding -> RouteState]
    /\ events \in [Row -> EventRow]
    /\ aged \in 0..MaxRows
    /\ serve \in {"down", "running"}
    /\ job \in [Row -> JobState]
    /\ found \in SUBSET Row
    /\ wire \in SUBSET Row
    /\ placed \in Seq(Row)
    /\ visible \in SUBSET Row
    /\ crashes \in 0..MaxCrashes

SameEvent(i, j) == /\ events[i].binding = events[j].binding
                   /\ events[i].key = events[j].key

IsPlaced(i) == \E p \in DOMAIN placed : placed[p] = i

\* The App Server never takes two submissions for one (binding, source,
\* event_id), whatever mix of sender retries, lost answers, crashes and
\* reconcile ticks the row went through.
AtMostOnce ==
    \A p, q \in DOMAIN placed : SameEvent(placed[p], placed[q]) => p = q

\* The App Server takes the events of one binding in the order the inbox
\* received them, also when one of them was held or deferred in between.
FirstInFirstOut ==
    \A p, q \in DOMAIN placed :
        (p < q /\ events[placed[p]].binding = events[placed[q]].binding)
            => placed[p] < placed[q]

\* A submission the App Server has, or may still take, is neither replayed
\* (pending) nor reported as refused (dead).
NothingTakenIsGivenUp ==
    \A i \in Row : (i \in wire \/ IsPlaced(i)) => State(i) \in InFlight \cup {"accepted"}

\* The receipt says accepted only when the App Server took the submission.
AcceptedIsPlaced ==
    \A i \in Row : State(i) = "accepted" => IsPlaced(i)

\* finish and defer_unavailable never find a row in a state they refuse: such
\* an error ends the dispatch or reconcile worker, and serve with it.
JobOwnsItsRow ==
    \A i \in Row : job[i] # "none" => serve = "running" /\ State(i) = "submitting"

\* The same for the evidence reconcile read before it stores it.
EvidenceIsForHeldRows ==
    \A i \in found : serve = "running" /\ State(i) = "uncertain" /\ IsPlaced(i)

\* A row that can still be claimed has an attempt left, so no row is handed
\* over more than MAX_ATTEMPTS times; a deferral gives back what it took.
RetryBudget ==
    \A i \in Row :
        /\ State(i) = "pending" => events[i].attempts < MaxAttempts
        /\ State(i) \in InFlight => events[i].attempts \in 1..MaxAttempts

\* A settled receipt never changes: no late completion, expiry or removal
\* rewinds it.
SettledIsFinal ==
    [][\A i \in Row : State(i) \in Settled => events'[i] = events[i]]_events

\* A held row is released by evidence from the App Server alone.
HeldUntilEvidence ==
    [][\A i \in Row : State(i) = "uncertain" /\ events'[i].state # "uncertain"
           => events'[i].state = "accepted" /\ IsPlaced(i)]_events

\* The inbox does what Delivery promises.
DeliveryStage(state) ==
    IF state \in {"pending"} \cup InFlight THEN "open"
    ELSE IF state = "dead" THEN "refused" ELSE state

Promise == INSTANCE Delivery WITH
    stage <- [i \in Row |-> DeliveryStage(State(i))],
    lane <- [i \in Row |-> events[i].binding]

KeepsItsPromise == Promise!Spec

\* No invariant: what store.rs (route_action) says of removal, "settle them
\* instead of leaving them pending forever behind a route that can never be
\* resumed". TLC shows how a delivery in flight returns to pending behind it.
NothingPendingBehindRemovedRoute ==
    \A i \in Row : State(i) = "pending" => route[events[i].binding] # "removed"

-----------------------------------------------------------------------------
(* The inductive invariant behind the safety properties (InboxProofs).      *)

\* Rows are filled in order, and a filled row has its key to itself.
RowsInOrder ==
    /\ \A i \in Row : State(i) = "none" <=> events[i].binding \notin Binding
    /\ \A i, j \in Row : (State(i) # "none" /\ j < i) => State(j) # "none"
    /\ \A i, j \in Row : (State(i) # "none" /\ SameEvent(i, j)) => i = j

\* Nothing earlier in its binding is open once a row was handed over.
HeadOfLine ==
    \A i \in Row : State(i) \in InFlight \cup {"accepted"}
        => \A j \in Earlier(i) : State(j) \in Settled

\* How far deliver_one can be while the App Server may take, or has, the row.
Handoff ==
    /\ \A i \in wire : ~IsPlaced(i) /\ job[i] \in {"none", "sent", "uncertain"}
    /\ \A i \in Row : IsPlaced(i) => job[i] \in {"none", "sent", "ok", "uncertain"}
    /\ \A i \in Row : job[i] = "ok" => IsPlaced(i)
    /\ \A i \in visible : IsPlaced(i)

\* Only a pending row waits for its next attempt.
OnlyPendingWaits ==
    \A i \in Row : events[i].nextAt = "waiting" => State(i) = "pending"

PlacedOnce == \A p, q \in DOMAIN placed : placed[p] = placed[q] => p = q

IInv ==
    /\ TypeOK
    /\ RowsInOrder
    /\ HeadOfLine
    /\ JobOwnsItsRow
    /\ EvidenceIsForHeldRows
    /\ Handoff
    /\ NothingTakenIsGivenUp
    /\ AcceptedIsPlaced
    /\ PlacedOnce
    /\ FirstInFirstOut
    /\ RetryBudget
    /\ OnlyPendingWaits

-----------------------------------------------------------------------------
(* Liveness, under the fairness of the runtime: its loops run again within *)
(* seconds while the process is up, a supervisor restarts it, every RPC has *)
(* a deadline, and the owner of a thread is reachable again and again.      *)

Fairness ==
    /\ WF_vars(Start)
    /\ WF_vars(Dispatch)
    /\ \A i \in Row :
        /\ WF_vars(BackoffElapses(i))
        /\ WF_vars(LoseAnswer(i))
        /\ WF_vars(FinishSettled(i) \/ FinishRetryable(i) \/ FinishUncertain(i)
                   \/ DeferUnavailable(i) \/ ReconcileAccept(i))
        /\ WF_vars(\E outcome \in Outcome : Preflight(i, outcome))
        /\ SF_vars(Submit(i))
        /\ SF_vars(Inspect(i))

LiveSpec == Spec /\ Fairness

RouteOf(i) == IF State(i) = "none" THEN "unbound" ELSE route[events[i].binding]
IsHead(i) == \A j \in Earlier(i) : State(j) \in Settled

\* The head of an enabled route is handed over or given up, whatever the other
\* bindings are held by: a failure in one binding does not block another.
HeadIsSubmitted ==
    \A i \in Row :
        (State(i) = "pending" /\ IsHead(i) /\ RouteOf(i) = "enabled")
            ~> (State(i) \in Settled \cup {"uncertain"} \/ RouteOf(i) # "enabled")

\* A held submission the App Server keeps showing is accepted in the end, also
\* when its route was paused or removed meanwhile.
EvidenceSettles ==
    \A i \in Row :
        (State(i) = "uncertain" /\ i \in visible)
            ~> (State(i) = "accepted" \/ i \notin visible)
=============================================================================
