--------------------------- MODULE DiscordGateway ---------------------------
(***************************************************************************)
(* The native Discord producer (rust/src/discord_gateway.rs): one process    *)
(* with three tasks that share the adapter's SQLite database.  The           *)
(* connection task keeps a Gateway session and stores the messages of the    *)
(* live stream; the history task it spawns reads what the stream missed; the *)
(* worker turns stored messages into events, posts them to the receiver and  *)
(* adds a reaction once the receiver says they were consumed.  Every         *)
(* statement on the database is an action of its own.  Discord and the       *)
(* receiver are external: Discord keeps the log of a session's dispatches    *)
(* and replays it on resume.  Message n is the n-th one after the cutover    *)
(* seed; a time next_at in the future is membership in `later`.              *)
(***************************************************************************)
EXTENDS Naturals, Sequences, FiniteSets, FiniteSetsExt

CONSTANTS
    Message,      \* 1..N, in the order of their identifiers
    Channel,      \* a function: the channel of each message
    Config,       \* configurations the process may be started with
    Allowed,      \* the messages parse accepts, by configuration
    Target,       \* the route destination returns, by configuration
    PageSize,     \* 100, the limit of a history request
    MaxPages,     \* 100, the pages of one channel in one recovery
    Batch,        \* 8, the rows of one query of the worker
    MaxAttempts,  \* delivery_max_attempts
    MaxSeen,      \* 5, the attempts of a reaction
    MaxSessions,  \* bound: sessions Discord opens
    MaxLosses,    \* bound: connections and requests that fail
    MaxStops      \* bound: deaths of the process

ASSUME GatewayConstants ==
    /\ IsFiniteSet(Message) /\ Message = 1..Cardinality(Message)
    /\ DOMAIN Channel = Message
    /\ DOMAIN Allowed = Config /\ DOMAIN Target = Config
    /\ \A c \in Config : Allowed[c] \subseteq Message
    /\ {PageSize, MaxPages, Batch, MaxAttempts, MaxSeen} \subseteq Nat \ {0}
    /\ {MaxSessions, MaxLosses, MaxStops} \subseteq Nat

VARIABLES
    posted,    \* messages 1..posted exist in Discord
    server,    \* Discord's session: its number, whether it can be resumed, its log
    config,    \* the configuration of the running process, or None
    session,   \* session in memory: number and sequence, 0 if there is none
    saved,     \* gateway_native_meta, key session
    link,      \* the connection: state, and dispatches handled in this session
    ready,     \* the connection has told its health file it is ready
    cursor,    \* gateway_native_cursors, 0 for the seed
    scan,      \* catch_up: the channels left, and the page in hand
    raw,       \* gateway_native_raw
    pending,   \* gateway_pending, with message_routes
    later,     \* rows whose next_at or seen_next_at is in the future
    work,      \* the worker: phase of its cycle, rows left, what it waits for
    received,  \* events the receiver has, each with its route
    consumed,  \* messages the native session has consumed
    losses, stops

discord == <<posted, server>>
stream == <<session, saved, link, ready, scan>>
receiver == <<received, consumed>>
vars == <<discord, config, stream, cursor, raw, pending, later, work, receiver,
          losses, stops>>

-----------------------------------------------------------------------------
None == "none"
Greeting == 0   \* READY or RESUMED, in the log of a session
Channels == {Channel[m] : m \in Message}
Registered == {Channel[m] : m \in Allowed[config]}
Posted == {m \in Message : m <= posted}
History(ch, after) == {m \in Posted : Channel[m] = ch /\ m > after}
FirstOf(S, n) == {m \in S : Cardinality({k \in S : k < m}) < n}
NoSession == [id |-> 0, seq |-> 0]
NoLink == [state |-> "down", sent |-> 0]
NoScan == [state |-> "none", left |-> {}, channel |-> None, after |-> 0,
           page |-> {}, last |-> FALSE, pages |-> 0]
NoRow == [state |-> "none", target |-> None, tries |-> 0,
          reacted |-> FALSE, seenTries |-> 0]
AtRest == [phase |-> "rest", todo |-> {}, waits |-> "no"]
Rows == {m \in Message : pending[m].state # "none"}
Running == config # None

Init ==
    /\ posted = 0
    /\ server = [id |-> 0, known |-> FALSE, log |-> <<>>]
    /\ config = None
    /\ session = NoSession /\ saved = NoSession
    /\ link = NoLink
    /\ ready = FALSE
    /\ cursor = [ch \in Channels |-> 0]
    /\ scan = NoScan
    /\ raw = {}
    /\ pending = [m \in Message |-> NoRow]
    /\ later = {}
    /\ work = AtRest
    /\ received = {} /\ consumed = {}
    /\ losses = 0 /\ stops = 0

-----------------------------------------------------------------------------
(* Discord.                                                                *)

\* A session Discord still knows gets every message, connected or not.
Say ==
    /\ posted + 1 \in Message
    /\ posted' = posted + 1
    /\ server' = IF server.known
                 THEN [server EXCEPT !.log = Append(@, posted + 1)]
                 ELSE server
    /\ UNCHANGED <<config, stream, cursor, raw, pending, later, work, receiver,
                   losses, stops>>

-----------------------------------------------------------------------------
(* The connection task.                                                    *)

\* auth of a session without sequence, answered by a new session.
Identify ==
    /\ Running /\ link.state = "down" /\ session.id = 0
    /\ server' = [id |-> server.id + 1, known |-> TRUE, log |-> <<Greeting>>]
    /\ link' = [state |-> "reading", sent |-> 0]
    /\ UNCHANGED <<posted, config, session, saved, ready, cursor, scan, raw, pending,
                   later, work, receiver, losses, stops>>

\* auth of a saved session: Discord replays what follows the sequence.
Resume ==
    /\ Running /\ link.state = "down" /\ session.id # 0
    /\ server.known /\ server.id = session.id
    /\ server' = [server EXCEPT !.log = Append(@, Greeting)]
    /\ link' = [state |-> "reading", sent |-> session.seq]
    /\ UNCHANGED <<posted, config, session, saved, ready, cursor, scan, raw, pending,
                   later, work, receiver, losses, stops>>

\* Opcode 9, or close code 4007 or 4009: Discord does not know the session, or
\* has forgotten it by now.
ResumeRefused ==
    /\ Running /\ link.state = "down" /\ session.id # 0
    /\ server.known /\ server.id = session.id => server.id < MaxSessions
    /\ server' = [server EXCEPT !.known = @ /\ server.id # session.id]
    /\ session' = NoSession
    /\ link' = [NoLink EXCEPT !.state = "ended"]
    /\ UNCHANGED <<posted, config, saved, ready, cursor, scan, raw, pending, later,
                   work, receiver, losses, stops>>

\* enqueue: what parse accepts and the table of events does not have.
Accepts(m) == m \in Allowed[config]
\* Wrong: no look at the rows that were prepared.
IsNewAlways(m) == TRUE
IsNew(m) == m \notin Rows
Enqueued(m) == IF Accepts(m) /\ IsNew(m) THEN raw \cup {m} ELSE raw

NewScan == [NoScan EXCEPT !.state = "next", !.left = Registered]
\* Wrong: a resumed session needs no history.
SpawnedWhenNew == IF session.seq = 0 THEN NewScan ELSE NoScan
Spawned == NewScan

\* MESSAGE_CREATE is stored; READY and RESUMED spawn the history task.
Take ==
    /\ link.state = "reading" /\ link.sent < Len(server.log)
    /\ link' = [link EXCEPT !.state = "storing"]
    /\ LET d == server.log[link.sent + 1] IN
         IF d = Greeting
         THEN /\ session' = [session EXCEPT !.id = server.id]
              /\ scan' = Spawned
              /\ UNCHANGED raw
         ELSE raw' = Enqueued(d) /\ UNCHANGED <<session, scan>>
    /\ UNCHANGED <<discord, config, saved, ready, cursor, pending, later, work,
                   receiver, losses, stops>>

\* The sequence is stored after the message it counts.
Checkpoint ==
    /\ link.state = "storing"
    /\ session' = [session EXCEPT !.seq = link.sent + 1]
    /\ saved' = session'
    /\ link' = [state |-> "reading", sent |-> link.sent + 1]
    /\ UNCHANGED <<discord, config, ready, cursor, scan, raw, pending, later, work,
                   receiver, losses, stops>>

\* The connection ends: a lost stream, a missing acknowledgement, a request to
\* reconnect, a statement that fails.  Its history task is aborted; a page in
\* hand is stored first, for no await lies between its statements.
Aborted == scan.state \in {"none", "next", "fetch"}
LinkEnds == /\ link' = [NoLink EXCEPT !.state = "ended"]
            /\ scan' = NoScan
            /\ ready' = FALSE

Lose ==
    /\ link.state = "reading" /\ Aborted
    /\ losses < MaxLosses
    /\ losses' = losses + 1
    /\ LinkEnds
    /\ UNCHANGED <<discord, config, session, saved, cursor, raw, pending, later,
                   work, receiver, stops>>

\* Discord ends the session together with the connection.
Invalidate ==
    /\ link.state = "reading" /\ Aborted
    /\ losses < MaxLosses /\ server.id < MaxSessions
    /\ losses' = losses + 1
    /\ server' = [server EXCEPT !.known = FALSE]
    /\ session' = NoSession
    /\ LinkEnds
    /\ UNCHANGED <<posted, config, saved, cursor, raw, pending, later, work, receiver,
                   stops>>

\* run: the session is stored before the pause that precedes a new attempt.
SaveSession ==
    /\ link.state = "ended"
    /\ saved' = session
    /\ link' = NoLink
    /\ UNCHANGED <<discord, config, session, ready, cursor, scan, raw, pending, later,
                   work, receiver, losses, stops>>

-----------------------------------------------------------------------------
(* catch_up, one registered channel after the other, from its cursor.      *)

\* A page is what Discord shows at this moment.
Fetch(ch, after, pages) ==
    LET page == FirstOf(History(ch, after), PageSize) IN
      scan' = [scan EXCEPT !.state = "store", !.channel = ch, !.after = after,
                 !.page = page, !.last = Cardinality(page) < PageSize, !.pages = pages]

ScanChannel(ch) ==
    /\ scan.state = "next" /\ ch \in scan.left
    /\ Fetch(ch, cursor[ch], 0)
    /\ UNCHANGED <<discord, config, session, saved, link, ready, cursor, raw, pending,
                   later, work, receiver, losses, stops>>

NextPage ==
    /\ scan.state = "fetch"
    /\ Fetch(scan.channel, scan.after, scan.pages)
    /\ UNCHANGED <<discord, config, session, saved, link, ready, cursor, raw, pending,
                   later, work, receiver, losses, stops>>

StoreNext ==
    /\ scan.state = "store" /\ scan.page # {}
    /\ LET m == Min(scan.page) IN
         /\ raw' = Enqueued(m)
         /\ scan' = [scan EXCEPT !.page = @ \ {m}, !.after = m]
    /\ UNCHANGED <<discord, config, session, saved, link, ready, cursor, pending,
                   later, work, receiver, losses, stops>>

\* Wrong: moves the cursor to the newest message of the channel.
CursorToNewest == Max({scan.after} \cup History(scan.channel, scan.after))
CursorTo == scan.after

\* The cursor follows the page; a channel ends with a page that is not full,
\* and the recovery fails after MaxPages.
StoreCursor ==
    /\ scan.state = "store" /\ scan.page = {}
    /\ cursor' = [cursor EXCEPT ![scan.channel] = CursorTo]
    /\ scan' = IF scan.last
               THEN [scan EXCEPT !.state = "next", !.left = @ \ {scan.channel}]
               ELSE [scan EXCEPT !.pages = @ + 1,
                       !.state = IF scan.pages + 1 < MaxPages THEN "fetch" ELSE "failed"]
    /\ UNCHANGED <<discord, config, session, saved, link, ready, raw, pending, later,
                   work, receiver, losses, stops>>

\* Wrong: ready after the last but one channel.
RecoveredAllButOne == Cardinality(scan.left) <= 1
Recovered == scan.left = {}

\* The connection loop takes the result of the history task.
ScanDone ==
    /\ link.state = "reading" /\ scan.state = "next" /\ Recovered
    /\ ready' = TRUE
    /\ scan' = NoScan
    /\ UNCHANGED <<discord, config, session, saved, link, cursor, raw, pending, later,
                   work, receiver, losses, stops>>

ScanFails ==
    /\ link.state = "reading" /\ scan.state = "failed"
    /\ LinkEnds
    /\ UNCHANGED <<discord, config, session, saved, cursor, raw, pending, later, work,
                   receiver, losses, stops>>

Connection == Identify \/ Resume \/ ResumeRefused \/ Take \/ Checkpoint
              \/ ScanDone \/ ScanFails \/ SaveSession
Recovery == (\E ch \in Channels : ScanChannel(ch)) \/ NextPage \/ StoreNext \/ StoreCursor

-----------------------------------------------------------------------------
(* The worker: prepare, deliver and seen, then a pause of two seconds.  Each *)
(* works off the rows its query returned.                                    *)

Enter(phase, rows) == work' = [phase |-> phase, todo |-> rows, waits |-> "no"]
Done(m) == work' = [work EXCEPT !.todo = @ \ {m}, !.waits = "no"]
Turn(m) == m \in work.todo /\ m = Min(work.todo) /\ work.waits = "no"
WorkerOnly == UNCHANGED <<discord, config, stream, cursor, losses, stops>>

\* Wrong: without the state.
DeliverableAgain == {m \in Rows \ later : pending[m].tries < MaxAttempts}
Deliverable == {m \in Rows \ later : /\ pending[m].state = "pending"
                                     /\ pending[m].tries < MaxAttempts}
Unseen == {m \in Rows \ later : /\ pending[m].state = "delivered"
                                /\ ~pending[m].reacted
                                /\ pending[m].seenTries < MaxSeen}

\* A query that returns nothing is passed over at once.  The query of seen has
\* no order: it returns any rows of those it selects.
EnterPrepare == raw # {} /\ Enter("prepare", FirstOf(raw, Batch))
EnterDeliver == Deliverable # {} /\ Enter("deliver", FirstOf(Deliverable, Batch))
EnterSeen == \E S \in (SUBSET Unseen) \ {{}} :
                /\ Cardinality(S) = Min({Batch, Cardinality(Unseen)})
                /\ Enter("seen", S)

NextPhase ==
    /\ Running /\ work.todo = {}
    /\ CASE work.phase = "rest" ->
              \/ EnterPrepare
              \/ raw = {} /\ EnterDeliver
              \/ raw = {} /\ Deliverable = {} /\ EnterSeen
         [] work.phase = "prepare" ->
              \/ EnterDeliver
              \/ Deliverable = {} /\ EnterSeen
              \/ Deliverable = {} /\ Unseen = {} /\ work' = AtRest
         [] work.phase = "deliver" ->
              \/ EnterSeen
              \/ Unseen = {} /\ work' = AtRest
         [] work.phase = "seen" -> work' = AtRest
    /\ WorkerOnly /\ UNCHANGED <<raw, pending, later, receiver>>

\* routes, pending and raw change in one transaction; a route is chosen now.
Prepare(m) ==
    /\ work.phase = "prepare" /\ Turn(m) /\ Accepts(m)
    /\ pending' = [pending EXCEPT ![m] =
                     [NoRow EXCEPT !.state = "pending", !.target = Target[config]]]
    /\ raw' = raw \ {m}
    /\ Done(m)
    /\ WorkerOnly /\ UNCHANGED <<later, receiver>>

\* A stored message the configuration no longer accepts ends the whole cycle.
PrepareFails(m) ==
    /\ work.phase = "prepare" /\ Turn(m) /\ ~Accepts(m)
    /\ work' = AtRest
    /\ WorkerOnly /\ UNCHANGED <<raw, pending, later, receiver>>

\* Wrong: posts to the route of the present configuration.
RouteNow(m) == Target[config]
RouteOf(m) == pending[m].target
RouteIsCurrent(m) == RouteOf(m) = Target[config]

\* The receiver takes the event and its answer arrives or is lost, or it does
\* not take it.
Post(m) ==
    /\ work.phase = "deliver" /\ Turn(m) /\ RouteIsCurrent(m)
    /\ \/ /\ received' = received \cup {<<m, RouteOf(m)>>}
          /\ work' = [work EXCEPT !.waits = "answer"]
          /\ UNCHANGED losses
       \/ /\ losses < MaxLosses
          /\ received' \in {received, received \cup {<<m, RouteOf(m)>>}}
          /\ work' = [work EXCEPT !.waits = "error"]
          /\ losses' = losses + 1
    /\ UNCHANGED <<discord, config, stream, cursor, raw, pending, later, consumed, stops>>

\* 202 with the receipt: for a new event, and again for one the receiver has.
Delivered(m) ==
    /\ work.phase = "deliver" /\ m \in work.todo /\ work.waits = "answer"
    /\ m = Min(work.todo)
    /\ pending' = [pending EXCEPT ![m].state = "delivered"]
    /\ Done(m)
    /\ WorkerOnly /\ UNCHANGED <<raw, later, receiver>>

Failed(m) == [pending[m] EXCEPT !.tries = @ + 1]

\* No receipt; an event of a stale route is not even posted.
DeliverFails(m) ==
    /\ work.phase = "deliver" /\ m \in work.todo /\ m = Min(work.todo)
    /\ \/ work.waits = "error"
       \/ work.waits = "no" /\ ~RouteIsCurrent(m)
    /\ pending' = [pending EXCEPT ![m] = Failed(m)]
    /\ later' = later \cup {m}
    /\ Done(m)
    /\ WorkerOnly /\ UNCHANGED <<raw, receiver>>

\* Wrong: a message the receiver took counts as consumed.
IsReceived(m) == <<m, pending[m].target>> \in received
IsConsumed(m) == m \in consumed

\* Wrong: does not store that the reaction was added.
ReactedUnstored(m) == pending[m]
Reacted(m) == [pending[m] EXCEPT !.reacted = TRUE]

React(m) ==
    /\ work.phase = "seen" /\ Turn(m) /\ IsConsumed(m)
    /\ Channel[m] \in Registered
    /\ pending' = [pending EXCEPT ![m] = Reacted(m)]
    /\ Done(m)
    /\ WorkerOnly /\ UNCHANGED <<raw, later, receiver>>

\* Nothing is stored for a message that was not consumed yet.
NotConsumed(m) ==
    /\ work.phase = "seen" /\ Turn(m) /\ ~IsConsumed(m)
    /\ Done(m)
    /\ WorkerOnly /\ UNCHANGED <<raw, pending, later, receiver>>

SeenFails(m) ==
    /\ work.phase = "seen" /\ Turn(m)
    /\ \/ losses < MaxLosses /\ losses' = losses + 1
       \/ IsConsumed(m) /\ Channel[m] \notin Registered /\ UNCHANGED losses
    /\ pending' = [pending EXCEPT ![m].seenTries = @ + 1]
    /\ later' = later \cup {m}
    /\ Done(m)
    /\ UNCHANGED <<discord, config, stream, cursor, raw, receiver, stops>>

Worker ==
    \/ NextPhase
    \/ \E m \in Message : Prepare(m) \/ PrepareFails(m) \/ Post(m) \/ Delivered(m)
                          \/ DeliverFails(m) \/ React(m) \/ NotConsumed(m) \/ SeenFails(m)

Elapse(m) ==
    /\ m \in later
    /\ later' = later \ {m}
    /\ UNCHANGED <<discord, config, stream, cursor, raw, pending, work, receiver,
                   losses, stops>>

-----------------------------------------------------------------------------
(* The receiver, which knows an event by its identifier and route.         *)

Consume(e) ==
    /\ e \in received /\ e[1] \notin consumed
    /\ consumed' = consumed \cup {e[1]}
    /\ UNCHANGED <<discord, config, stream, cursor, raw, pending, later, work, received,
                   losses, stops>>

-----------------------------------------------------------------------------
(* The process.                                                            *)

\* run: schema keeps what the database has, session comes from it.
Start(c) ==
    /\ ~Running
    /\ config' = c
    /\ session' = saved
    /\ UNCHANGED <<discord, saved, link, ready, cursor, scan, raw, pending, later, work,
                   receiver, losses, stops>>

\* SIGTERM, a fatal close code or a crash.
Stop ==
    /\ Running /\ stops < MaxStops
    /\ stops' = stops + 1
    /\ config' = None
    /\ session' = NoSession
    /\ link' = NoLink
    /\ ready' = FALSE
    /\ scan' = NoScan
    /\ work' = AtRest
    /\ UNCHANGED <<discord, saved, cursor, raw, pending, later, receiver, losses>>

Next ==
    \/ Say \/ Connection \/ Recovery \/ Lose \/ Invalidate \/ Worker
    \/ \E m \in Message : Elapse(m)
    \/ \E e \in received : Consume(e)
    \/ (\E c \in Config : Start(c)) \/ Stop

Spec == Init /\ [][Next]_vars

-----------------------------------------------------------------------------
(* Correctness.                                                            *)

Stored(m) == m \in raw \cup Rows
AlwaysAllowed(m) == \A c \in Config : m \in Allowed[c]
Owed == {m \in Posted : AlwaysAllowed(m)}

TypeOK ==
    /\ posted \in 0..Cardinality(Message)
    /\ server \in [id : Nat, known : BOOLEAN,
                   log : Seq(Message \cup {Greeting})]
    /\ config \in Config \cup {None}
    /\ {session, saved} \subseteq [id : 0..server.id, seq : Nat]
    /\ link \in [state : {"down", "reading", "storing", "ended"}, sent : Nat]
    /\ ready \in BOOLEAN
    /\ cursor \in [Channels -> 0..posted]
    /\ scan.state \in {"none", "next", "fetch", "store", "failed"}
    /\ scan.left \subseteq Channels /\ scan.page \subseteq Posted
    /\ scan.pages \in 0..MaxPages
    /\ raw \subseteq Posted
    /\ \A m \in Message : /\ pending[m].state \in {"none", "pending", "delivered"}
                          /\ pending[m].tries \in 0..MaxAttempts
                          /\ pending[m].seenTries \in 0..MaxSeen
    /\ later \subseteq Message
    /\ work.phase \in {"rest", "prepare", "deliver", "seen"}
    /\ {e[1] : e \in received} \subseteq Posted
    /\ consumed \subseteq Posted

\* A checkpoint covers only messages that are stored: neither the cursor of a
\* channel nor the saved sequence of a session is past a message the adapter
\* has to handle and does not have, whatever dies between two statements
\* ("Raw messages commit before the Gateway sequence checkpoint").
CheckpointsCoverOnlyStored ==
    \A m \in Owed :
        \/ Stored(m)
        \/ /\ m > cursor[Channel[m]]
           /\ (server.known /\ saved.id = server.id)
                => \A p \in 1..saved.seq : server.log[p] # m

\* A Gateway that calls itself ready misses nothing: what is not stored is
\* still to come on the live stream, although history was read in pages,
\* channel by channel, while messages arrived.
ReadyMissesNothing ==
    ready => \A m \in Owed :
                 \/ Stored(m)
                 \/ \E p \in DOMAIN server.log : p > link.sent /\ server.log[p] = m

\* Live stream, replay and history bring a message several times; it is
\* stored once, as raw or as an event, never as both.
StoredOnce == raw \cap Rows = {}

\* The receiver is offered a message on one route only, also when an answer
\* was lost and the configuration names another route after a restart.
OneRoute == \A d, e \in received : d[1] = e[1] => d = e

\* What the adapter says is so: a delivered event is at the receiver, and a
\* message it reacted to was consumed.
ReceiptsTellTruth ==
    \A m \in Rows :
        /\ pending[m].state = "delivered" => <<m, pending[m].target>> \in received
        /\ pending[m].reacted => pending[m].state = "delivered" /\ m \in consumed

\* A stored message stays stored, delivered or not ("Exhausted records remain
\* stored for review, never silently deleted"), and a receipt is final.
NeverTakenBack ==
    [][\A m \in Message :
          /\ Stored(m) => Stored(m)'
          /\ pending[m].state = "delivered" => pending'[m].state = "delivered"]_vars

-----------------------------------------------------------------------------
(* The tasks run, the receiver serves, and a stopped process is started      *)
(* again.  Losses, stops and sessions Discord forgets are bounded.           *)

Fairness ==
    /\ WF_vars(Connection) /\ WF_vars(Recovery)
    /\ WF_vars(Worker)
    /\ \A m \in Message : WF_vars(Elapse(m))
    /\ WF_vars(\E c \in Config : Start(c))

LiveSpec == Spec /\ Fairness

\* Every message of a registered channel is stored in the end, however the
\* stream, the history requests, the sessions and the process fail: again and
\* again there is no message that is not.
EveryMessageIsStored == []<>(\A m \in Owed : Stored(m))

\* A stored message is delivered or its attempts are used up, unless the
\* configuration rejects a message stored before: that one holds up the
\* worker (prepare fails, and deliver and seen are not reached).
HeldUp == Running /\ \E m \in raw : ~Accepts(m)
IsOffered(m) == pending[m].state = "delivered" \/ pending[m].tries = MaxAttempts
EveryMessageIsOffered == []<>(HeldUp \/ \A m \in raw \cup Rows : IsOffered(m))

\* A consumed message gets its reaction or its attempts are used up, unless
\* more rows than one query returns wait for theirs.
IsShown(m) == \/ pending[m].reacted
              \/ pending[m].seenTries = MaxSeen
EveryReceiptIsShown ==
    []<>(\/ HeldUp
         \/ Cardinality(Unseen) > Batch
         \/ \A m \in consumed : pending[m].state = "delivered" => IsShown(m))
=============================================================================
