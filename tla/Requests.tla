------------------------------ MODULE Requests ------------------------------
(***************************************************************************)
(* Tracked requests (rust/src/store.rs): a ledger of reported states, an    *)
(* outbox of notifications, and the maintenance tick that expires requests  *)
(* and turns notifications into events of the inbox they came from.         *)
(* Extends Inbox: finish, claim and route_action settle notifications in    *)
(* the transaction that settles their event.                                *)
(***************************************************************************)
EXTENDS Inbox, Functions

CONSTANTS
    Request,      \* (thread, source, request key) of requests ever made
    KeyOf,        \* "request-ID-REVISION", the event_id of a notification
    MaxNotices,   \* MAX_REQUEST_NOTIFICATIONS
    Batch         \* items of one maintenance tick

\* received, acknowledged, in_progress and a terminal state: no path is longer.
Revision == 1..3

ASSUME RequestConstants ==
    /\ KeyOf \in [Request \X Revision -> EventId]
    /\ \A m, n \in Request \X Revision : KeyOf[m] = KeyOf[n] => m[1] = n[1]
    /\ MaxNotices \in Nat \ {0}
    /\ Batch \in Nat \ {0}

VARIABLES
    request,  \* the requests table: state, revision, event it came from
    expiry,   \* expires_at: "never", "later" or "due"
    updates,  \* the request_updates table: the states each request went through
    notice    \* the request_notifications table

ledger == <<request, expiry, updates>>
inbox == vars
rvars == <<vars, ledger, notice>>

-----------------------------------------------------------------------------
\* Nothing tells completed, failed and cancelled apart: they are "ended".
Terminal == {"ended", "expired"}
Open == {"received", "acknowledged", "in_progress"}
RequestState == {"none"} \cup Open \cup Terminal
NoticeState == {"none", "pending", "accepted", "failed"}

NoRequest == [state |-> "none", revision |-> 0, parent |-> 0]
NoNotice == [state |-> "none", row |-> 0, nextAt |-> "due"]

Notice == Request \X Revision
Pending == {n \in Notice : notice[n].state = "pending"}
BindingOf(n) == events[request[n[1]].parent].binding

RInit ==
    /\ Init
    /\ request = [r \in Request |-> NoRequest]
    /\ expiry = [r \in Request |-> "never"]
    /\ updates = [r \in Request |-> <<>>]
    /\ notice = [n \in Notice |-> NoNotice]

-----------------------------------------------------------------------------
(* The ledger, from the command line and the HTTP handlers.                *)

\* request_create, for an event of any state.  A repeated one changes nothing.
RequestCreate(r, i, deadline) ==
    /\ request[r].state = "none"
    /\ State(i) # "none"
    /\ request' = [request EXCEPT ![r] = [state |-> "received", revision |-> 0, parent |-> i]]
    /\ expiry' = [expiry EXCEPT ![r] = deadline]
    /\ UNCHANGED <<inbox, updates, notice>>

allowed_transition(previous, state) ==
    /\ previous \in Open
    /\ \/ state = "acknowledged" /\ previous = "received"
       \/ state = "in_progress" /\ previous \in {"received", "acknowledged"}
       \/ state \in Terminal

\* Wrong: an expiry is quiet.
AnnouncedUnlessExpired(state) == state \in {"in_progress", "ended"}

\* insert_request_notification_tx: receipt and acknowledgement are quiet.
Announced(state) == state \in {"in_progress"} \cup Terminal

HasRoom(count) == count < MaxNotices

\* request_update with the current revision, or none.  A repeated update_id, a
\* stale revision and a full outbox change nothing.
RequestUpdate(r, state) ==
    /\ allowed_transition(request[r].state, state)
    /\ request' = [request EXCEPT ![r].state = state, ![r].revision = @ + 1]
    /\ updates' = [updates EXCEPT ![r] = Append(@, state)]
    /\ notice' = IF Announced(state)
                 THEN [notice EXCEPT ![<<r, request[r].revision + 1>>].state = "pending"]
                 ELSE notice
    /\ Announced(state) => HasRoom(Cardinality(Pending))
    /\ UNCHANGED <<inbox, expiry>>

-----------------------------------------------------------------------------
(* request_maintenance: one transaction, up to Batch items.                *)

Due == {r \in Request : expiry[r] = "due" /\ request[r].state \in Open}

\* The due requests that expire in this tick, as far as the outbox has room.
Expires(gone) ==
    /\ gone \subseteq Due
    /\ Cardinality(gone) <= Batch
    /\ gone # Due => \/ Cardinality(gone) = Batch
                     \/ ~HasRoom(Cardinality(Pending) + Cardinality(gone))
    /\ gone # {} => HasRoom(Cardinality(Pending) + Cardinality(gone) - 1)

\* Wrong: a notification does not wait for the earlier ones of its request.
IsFirstAlways(pending, n) == TRUE

IsFirst(pending, n) == ~ \E m \in pending : m[1] = n[1] /\ m[2] < n[2]

\* Notifications that are not linked to an event yet and may be now.
Candidates(table) ==
    LET pending == {n \in Notice : table[n].state = "pending"} IN
    {n \in pending :
        /\ table[n].row = 0 /\ table[n].nextAt = "due"
        /\ route[BindingOf(n)] # "paused"
        /\ IsFirst(pending, n)}

Linked(state) ==
    IF state = "accepted" THEN "accepted" ELSE IF state = "dead" THEN "failed" ELSE "pending"

IsEventOf(i, n) == events[i].binding = BindingOf(n) /\ events[i].key = KeyOf[n]

\* The rows the events of a tick get, in the order it makes them: the first free ones.
Placings(fresh) ==
    {made \in UNION {[rows -> fresh] : rows \in SUBSET {i \in Row : State(i) = "none"}} :
        /\ IsInjective(made)
        /\ \A i \in DOMAIN made, j \in Row : j < i /\ State(j) = "none" => j \in DOMAIN made}

\* One notification of a tick: its route was removed; its event exists; its event
\* is made; or the queue of the binding is full or its rate used up, and it waits.
\* A tick takes one of a request, so none finds the event of another.
Transferred(n, made, old) ==
    IF route[BindingOf(n)] = "removed" THEN [old EXCEPT !.state = "failed"]
    ELSE IF \E i \in Row : IsEventOf(i, n)
    THEN LET i == CHOOSE i \in Row : IsEventOf(i, n) IN
         [old EXCEPT !.row = i, !.state = Linked(State(i))]
    ELSE IF \E i \in DOMAIN made : made[i] = n
    THEN [old EXCEPT !.row = CHOOSE i \in DOMAIN made : made[i] = n]
    ELSE [old EXCEPT !.nextAt = "waiting"]

Transfer(batch, table) ==
    LET fresh == {n \in batch : /\ route[BindingOf(n)] # "removed"
                                /\ ~ \E i \in Row : IsEventOf(i, n)} IN
    \E made \in Placings(fresh) :
        /\ events' = [i \in Row |-> IF i \in DOMAIN made
                THEN [NoRow EXCEPT !.binding = BindingOf(made[i]),
                                   !.key = KeyOf[made[i]], !.state = "pending"]
                ELSE events[i]]
        /\ notice' = [n \in Notice |-> IF n \in batch
                THEN Transferred(n, made, table[n]) ELSE table[n]]

\* The notifications a tick takes: all that are ready, or as many as fit.
Batches(ready, size) ==
    {batch \in SUBSET ready : \/ Cardinality(batch) = size
                              \/ batch = ready /\ Cardinality(batch) < size}

\* The outbox with the notifications of the requests that expire.
WithExpiries(gone) ==
    [n \in Notice |-> IF n[1] \in gone /\ n[2] = request[n[1]].revision + 1 /\ Announced("expired")
                      THEN [NoNotice EXCEPT !.state = "pending"] ELSE notice[n]]

Maintain(gone) ==
    LET table == WithExpiries(gone)
        ready == Candidates(table) IN
    /\ serve = "running"
    /\ Expires(gone)
    /\ gone # {} \/ ready # {}
    /\ request' = [r \in Request |-> IF r \in gone
            THEN [request[r] EXCEPT !.state = "expired", !.revision = @ + 1] ELSE request[r]]
    /\ updates' = [r \in Request |-> IF r \in gone
            THEN Append(updates[r], "expired") ELSE updates[r]]
    /\ \E batch \in Batches(ready, Batch - Cardinality(gone)) : Transfer(batch, table)
    /\ UNCHANGED <<route, aged, serve, job, found, native, crashes, expiry>>

-----------------------------------------------------------------------------
(* Settlement of notifications with their events.                          *)

\* Wrong: a retry limit reached in finish is not a settlement.
FollowsOnlyAccepted(n) ==
    IF events'[notice[n].row].state = "accepted" THEN "accepted" ELSE "pending"

Follows(n) ==
    LET state == events'[notice[n].row].state IN
    IF state = "accepted" THEN "accepted" ELSE IF state = "dead" THEN "failed" ELSE "pending"

\* The rows that the transaction settles take their notifications along.
SettleWith(rows) ==
    notice' = [n \in Notice |->
        IF notice[n].state = "pending" /\ notice[n].row \in rows
        THEN [notice[n] EXCEPT !.state = Follows(n)] ELSE notice[n]]

Finish(i) ==
    /\ FinishSettled(i) \/ FinishRetryable(i) \/ FinishUncertain(i) \/ ReconcileAccept(i)
    /\ SettleWith({i})
    /\ UNCHANGED ledger

ClaimAndSettle(gone) ==
    /\ ClaimNothing(gone) \/ \E i \in Row : Claim(gone, i)
    /\ SettleWith(gone)
    /\ UNCHANGED ledger

\* Removal also ends the notifications of the binding that have no event yet.
RemoveAndSettle(b) ==
    /\ RemoveRoute(b)
    /\ notice' = [n \in Notice |->
         IF /\ notice[n].state = "pending" /\ BindingOf(n) = b
            /\ notice[n].row = 0 \/ events'[notice[n].row].state = "dead"
         THEN [notice[n] EXCEPT !.state = "failed"] ELSE notice[n]]
    /\ UNCHANGED ledger

\* Everything else in the inbox leaves requests and notifications alone.
InboxOnly ==
    \/ \E b \in Binding :
         \/ Bind(b) \/ RemoveWatch(b)
         \/ \E to \in RouteState : PauseOrResume(b, to)
         \/ \E k \in EventId, s \in EventState : Ingest(b, k, s)
    \/ \E i \in Row :
         \/ \E outcome \in Outcome : Preflight(i, outcome)
         \/ Submit(i) \/ LoseAnswer(i) \/ DeferUnavailable(i) \/ Inspect(i)
         \/ NativeStep(i) \/ BackoffElapses(i)
    \/ GrowOld \/ Die \/ Start

-----------------------------------------------------------------------------
(* Time.                                                                   *)

ExpiryComes(r) ==
    /\ expiry[r] = "later"
    /\ expiry' = [expiry EXCEPT ![r] = "due"]
    /\ UNCHANGED <<inbox, request, updates, notice>>

NoticeComes(n) ==
    /\ notice[n].nextAt = "waiting"
    /\ notice' = [notice EXCEPT ![n].nextAt = "due"]
    /\ UNCHANGED <<inbox, ledger>>

RequestStep(r) ==
    \/ \E i \in Row, deadline \in {"never", "later", "due"} : RequestCreate(r, i, deadline)
    \/ \E state \in RequestState : RequestUpdate(r, state)
    \/ ExpiryComes(r)

Maintenance == \E gone \in SUBSET Request : Maintain(gone)

RNext ==
    \/ \E r \in Request : RequestStep(r)
    \/ Maintenance
    \/ \E n \in Notice : NoticeComes(n)
    \/ \E i \in Row : Finish(i)
    \/ \E gone \in SUBSET Row : ClaimAndSettle(gone)
    \/ \E b \in Binding : RemoveAndSettle(b)
    \/ InboxOnly /\ UNCHANGED <<ledger, notice>>

RSpec == RInit /\ [][RNext]_rvars

-----------------------------------------------------------------------------
(* Properties.                                                             *)

StateAt(r, v) == IF v = 0 THEN "received" ELSE updates[r][v]

\* The state and the revision of a request are those of its history, and each
\* revision that is not quiet has its notification, no other has one: an update,
\* an expiry and their notification are written together or not at all.
LedgerIsAnnounced ==
    \A r \in Request :
        /\ request[r].revision = Len(updates[r])
        /\ request[r].state # "none" => request[r].state = StateAt(r, Len(updates[r]))
        /\ \A v \in Revision : notice[<<r, v>>].state # "none" <=>
               v <= Len(updates[r]) /\ StateAt(r, v) \in {"in_progress"} \cup Terminal

\* A notification says accepted or failed exactly when its event was, whichever
\* of finish, expiry, removal and the late discovery of the event settled it.
NoticeTellsTruth ==
    \A n \in Notice : notice[n].row # 0 =>
        CASE notice[n].state = "accepted" -> State(notice[n].row) = "accepted"
          [] notice[n].state = "failed" -> State(notice[n].row) = "dead"
          [] OTHER -> State(notice[n].row) \in {"pending", "ignored"} \cup InFlight

\* A revision becomes an event only when the earlier ones of its request are
\* settled, so the conversation never hears of progress after completion.
RevisionsInOrder ==
    \A m, n \in Notice :
        (m[1] = n[1] /\ m[2] < n[2] /\ notice[n].row # 0) => notice[m].state # "pending"

\* A terminal request never changes again: neither a delayed report nor a late
\* expiry takes back what was reported.
TerminalIsFinal ==
    [][\A r \in Request : request[r].state \in Terminal => request'[r] = request[r]]_rvars
=============================================================================
