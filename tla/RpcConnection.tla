--------------------------- MODULE RpcConnection ---------------------------
(***************************************************************************)
(* Session pool and App Server connections (rust/src/session.rs): one       *)
(* connection per endpoint, shared by all calls to it, one call at a time.  *)
(* A call can be dropped at any await by a deadline around it (reconcile,   *)
(* owner health) or by a stop, so every state between two awaits counts.    *)
(* The transport is the stdio one, the weakest: a line may be written or    *)
(* read in part.  A connection is named by the call that opened it.         *)
(***************************************************************************)
EXTENDS Naturals, Sequences, FiniteSets

CONSTANTS
    Call,         \* the calls ever made
    Endpoint,
    EndpointOf,   \* the endpoint of a call
    Cancellable,  \* calls made under a deadline of their caller, or aborted
    MaxSessions,  \* MAX_SESSIONS
    None          \* no call, no connection

ASSUME RpcConstants ==
    /\ EndpointOf \in [Call -> Endpoint]
    /\ Cancellable \subseteq Call
    /\ MaxSessions \in Nat \ {0}
    /\ None \notin Call
    /\ IsFiniteSet(Endpoint)

Conn == Call

VARIABLES
    sessions,   \* SessionPool.sessions: the connection kept for an endpoint
    lock,       \* the call that holds the lock of sessions across a connect
    at,         \* how far a call is, or how it ended
    on,         \* the connection a call was given
    retired,    \* connections a call took out of the pool and will close
    open,       \* connections that have a transport
    invalid,    \* RpcConnection.invalid
    turn,       \* RpcConnection.call_lock: the call that holds it
    nextId,     \* RpcConnection.next_id
    id,         \* request_id of a call
    got,        \* the call whose answer a call was given
    half,       \* connections whose last line to the server has no end
    wire,       \* requests the App Server can still read
    performed,  \* requests the App Server performed
    answers     \* lines on their way back, per connection

pool == <<sessions, lock, retired>>
link == <<open, invalid, turn, nextId, half>>
server == <<wire, performed>>
vars == <<pool, link, server, at, on, id, got, answers>>

Active == {"pool", "connecting", "closing", "waiting", "sending", "receiving"}
Ended == {"answered", "unavailable", "uncertain", "cancelled"}

\* A line cut by a dropped read: no JSON, so neither an id nor an answer.
Fragment == [id |-> 0, of |-> None]
Line == [id : Nat, of : Call \cup {None}]

Init ==
    /\ sessions = [e \in Endpoint |-> None]
    /\ lock = None
    /\ at = [c \in Call |-> "pool"]
    /\ on = [c \in Call |-> None]
    /\ retired = [c \in Call |-> {}]
    /\ open = {}
    /\ invalid = {}
    /\ turn = [k \in Conn |-> None]
    /\ nextId = [k \in Conn |-> 1]
    /\ id = [c \in Call |-> 0]
    /\ got = [c \in Call |-> None]
    /\ half = {}
    /\ wire = {}
    /\ performed = {}
    /\ answers = [k \in Conn |-> <<>>]

-----------------------------------------------------------------------------
(* SessionPool::connection.                                                *)

\* A transport somebody is using counts as present, and is.
Usable(k) == k \in open /\ k \notin invalid

Kept(e) == IF sessions[e] = None THEN {} ELSE {sessions[e]}
Others(e) == {f \in Endpoint \ {e} : sessions[f] # None}

\* The pooled connection serves the call.
Reuse(c) ==
    LET k == sessions[EndpointOf[c]] IN
    /\ at[c] = "pool" /\ lock = None
    /\ k # None /\ Usable(k)
    /\ at' = [at EXCEPT ![c] = "waiting"]
    /\ on' = [on EXCEPT ![c] = k]
    /\ UNCHANGED <<pool, link, server, id, got, answers>>

\* Wrong: off by one.
FullUnlessLarger(e) == Cardinality(Others(e)) > MaxSessions

\* Room for one more connection next to those of the other endpoints.
Full(e) == Cardinality(Others(e)) >= MaxSessions

\* Who makes room: nobody, or an endpoint whose connection is not usable.
Evictions(e) ==
    IF Full(e) THEN {{f} : f \in {f \in Others(e) : ~Usable(sessions[f])}} ELSE {{}}

\* A new connection: the unusable one of the endpoint is retired, and if the
\* pool is full one unusable connection of another endpoint.  The lock of the
\* pool stays with the call while it connects.
Replace(c) ==
    LET e == EndpointOf[c] IN
    /\ at[c] = "pool" /\ lock = None
    /\ \A k \in Kept(e) : ~Usable(k)
    /\ \E evicted \in Evictions(e) :
         /\ sessions' = [f \in Endpoint |-> IF f \in evicted \cup {e} THEN None ELSE sessions[f]]
         /\ retired' = [retired EXCEPT ![c] = UNION {Kept(f) : f \in evicted \cup {e}}]
    /\ lock' = c
    /\ at' = [at EXCEPT ![c] = "connecting"]
    /\ UNCHANGED <<link, server, on, id, got, answers>>

\* Every other connection is usable: the call is refused.
Refuse(c) ==
    LET e == EndpointOf[c] IN
    /\ at[c] = "pool" /\ lock = None
    /\ \A k \in Kept(e) : ~Usable(k)
    /\ Full(e) /\ \A f \in Others(e) : Usable(sessions[f])
    /\ sessions' = [sessions EXCEPT ![e] = None]
    /\ retired' = [retired EXCEPT ![c] = Kept(e)]
    /\ at' = [at EXCEPT ![c] = "closing"]
    /\ UNCHANGED <<lock, link, server, on, id, got, answers>>

\* RpcConnection::connect: transport, initialize and initialized succeed.
Connected(c) ==
    /\ at[c] = "connecting"
    /\ open' = open \cup {c}
    /\ nextId' = [nextId EXCEPT ![c] = 2]
    /\ sessions' = [sessions EXCEPT ![EndpointOf[c]] = c]
    /\ lock' = None
    /\ on' = [on EXCEPT ![c] = c]
    /\ at' = [at EXCEPT ![c] = "closing"]
    /\ UNCHANGED <<retired, invalid, turn, half, server, id, got, answers>>

\* Any of them fails: the caller is told that nothing was submitted.
ConnectFails(c) ==
    /\ at[c] = "connecting"
    /\ lock' = None
    /\ at' = [at EXCEPT ![c] = "closing"]
    /\ UNCHANGED <<sessions, retired, link, server, on, id, got, answers>>

\* Wrong: close does not wait for the call lock.
MayCloseAtOnce(k) == TRUE

\* RpcConnection::close takes the call lock first.
MayClose(k) == turn[k] = None

\* The retired connections are closed outside the lock of the pool, each when
\* the call that uses it has ended.
CloseRetired(c) ==
    /\ at[c] = "closing"
    /\ \E k \in retired[c] :
         /\ MayClose(k)
         /\ open' = open \ {k}
         /\ retired' = [retired EXCEPT ![c] = @ \ {k}]
    /\ UNCHANGED <<sessions, lock, at, on, invalid, turn, nextId, half, server, id, got, answers>>

LeavePool(c) ==
    /\ at[c] = "closing" /\ retired[c] = {}
    /\ at' = [at EXCEPT ![c] = IF on[c] = None THEN "unavailable" ELSE "waiting"]
    /\ UNCHANGED <<pool, link, server, on, id, got, answers>>

-----------------------------------------------------------------------------
(* RpcConnection::request_raw.                                             *)

\* The call lock is free.  `invalid` is not looked at again here.
Acquire(c) ==
    LET k == on[c] IN
    /\ at[c] = "waiting"
    /\ turn[k] = None /\ k \in open
    /\ turn' = [turn EXCEPT ![k] = c]
    /\ id' = [id EXCEPT ![c] = nextId[k]]
    /\ nextId' = [nextId EXCEPT ![k] = @ + 1]
    /\ at' = [at EXCEPT ![c] = "sending"]
    /\ UNCHANGED <<pool, open, invalid, half, server, on, got, answers>>

\* The calls before this one closed the transport.
FindClosed(c) ==
    /\ at[c] = "waiting"
    /\ turn[on[c]] = None /\ on[c] \notin open
    /\ invalid' = invalid \cup {on[c]}
    /\ at' = [at EXCEPT ![c] = "unavailable"]
    /\ UNCHANGED <<pool, open, turn, nextId, half, server, on, id, got, answers>>

\* A line that continues another is not a request the server can read.
Delivered(c) == IF on[c] \in half THEN wire ELSE wire \cup {c}

Send(c) ==
    /\ at[c] = "sending"
    /\ at' = [at EXCEPT ![c] = "receiving"]
    /\ wire' = Delivered(c)
    /\ half' = half \ {on[c]}
    /\ UNCHANGED <<pool, open, invalid, turn, nextId, performed, on, id, got, answers>>

\* Wrong: a write that failed is reported as an answer.
AfterBrokenAnswered == "answered"

\* Nobody knows what the server read.
AfterBroken == "uncertain"

\* The transport is closed, the lock released, the guard not completed.
Break(c) ==
    /\ open' = open \ {on[c]}
    /\ invalid' = invalid \cup {on[c]}
    /\ turn' = [turn EXCEPT ![on[c]] = None]
    /\ at' = [at EXCEPT ![c] = AfterBroken]

\* The write fails or times out, after none, some or all of the line.
SendFails(c) ==
    /\ at[c] = "sending"
    /\ Break(c)
    /\ wire' \in {wire, Delivered(c)}
    /\ UNCHANGED <<pool, nextId, half, performed, on, id, got, answers>>

\* Wrong: takes the next answer for its own.
IsForAnybody(line, c) == TRUE

IsFor(line, c) == line.id = id[c]

\* The answer to the request, a result or an error of the server.
Receive(c) ==
    LET k == on[c] IN
    /\ at[c] = "receiving"
    /\ answers[k] # <<>> /\ Head(answers[k]) # Fragment
    /\ IsFor(Head(answers[k]), c)
    /\ answers' = [answers EXCEPT ![k] = Tail(@)]
    /\ got' = [got EXCEPT ![c] = Head(answers[k]).of]
    /\ turn' = [turn EXCEPT ![k] = None]
    /\ at' = [at EXCEPT ![c] = "answered"]
    /\ UNCHANGED <<pool, open, invalid, nextId, half, server, on, id>>

\* An answer to a request whose caller is gone.
Skip(c) ==
    LET k == on[c] IN
    /\ at[c] = "receiving"
    /\ answers[k] # <<>> /\ Head(answers[k]) # Fragment
    /\ ~IsFor(Head(answers[k]), c)
    /\ answers' = [answers EXCEPT ![k] = Tail(@)]
    /\ UNCHANGED <<pool, link, server, at, on, id, got>>

\* A fragment or another malformed line, the end of the stream, a timeout.
ReceiveFails(c) ==
    /\ at[c] = "receiving"
    /\ Break(c)
    /\ UNCHANGED <<pool, nextId, half, server, on, id, got, answers>>

-----------------------------------------------------------------------------
(* The future of a call is dropped.  Before request_raw there is no guard; *)
(* a dropped call leaves retired connections to their last users.          *)

CancelInPool(c) ==
    /\ at[c] \in {"pool", "connecting", "closing"}
    /\ lock' = IF at[c] = "connecting" THEN None ELSE lock
    /\ retired' = [retired EXCEPT ![c] = {}]
    /\ at' = [at EXCEPT ![c] = "cancelled"]
    /\ UNCHANGED <<sessions, link, server, on, id, got, answers>>

\* Wrong: the call lock is not given back.
GuardWithoutRelease(c) ==
    /\ invalid' = invalid \cup {on[c]}
    /\ at' = [at EXCEPT ![c] = "cancelled"]
    /\ UNCHANGED turn

\* RequestGuard::drop: the connection is marked, its transport stays.
Guard(c) ==
    /\ invalid' = invalid \cup {on[c]}
    /\ turn' = [k \in Conn |-> IF turn[k] = c THEN None ELSE turn[k]]
    /\ at' = [at EXCEPT ![c] = "cancelled"]

CancelWaiting(c) ==
    /\ at[c] = "waiting"
    /\ Guard(c)
    /\ UNCHANGED <<pool, open, nextId, half, server, on, id, got, answers>>

\* Nothing, a part, or all of the line was written.
CancelSending(c) ==
    /\ at[c] = "sending"
    /\ Guard(c)
    /\ \/ UNCHANGED <<wire, half>>
       \/ half' = half \cup {on[c]} /\ UNCHANGED wire
       \/ half' = half \ {on[c]} /\ wire' = Delivered(c)
    /\ UNCHANGED <<pool, open, nextId, performed, on, id, got, answers>>

\* A part of the next line may have been read and is lost.
CancelReceiving(c) ==
    LET k == on[c] IN
    /\ at[c] = "receiving"
    /\ Guard(c)
    /\ \/ UNCHANGED answers
       \/ answers[k] # <<>> /\ answers' = [answers EXCEPT ![k] = <<Fragment>> \o Tail(@)]
    /\ UNCHANGED <<pool, open, nextId, half, server, on, id, got>>

-----------------------------------------------------------------------------
(* The App Server (external): performs requests in any order, also after    *)
(* the connection is gone; it may die before it answers.                    *)

Perform(c) ==
    /\ c \in wire
    /\ wire' = wire \ {c}
    /\ performed' = performed \cup {c}
    /\ \/ UNCHANGED answers
       \/ /\ on[c] \in open
          /\ answers' = [answers EXCEPT ![on[c]] = Append(@, [id |-> id[c], of |-> c])]
    /\ UNCHANGED <<pool, link, at, on, id, got>>

-----------------------------------------------------------------------------
InPool(c) ==
    \/ Reuse(c) \/ Replace(c) \/ Refuse(c)
    \/ Connected(c) \/ ConnectFails(c)
    \/ CloseRetired(c) \/ LeavePool(c)

InRequest(c) ==
    \/ Acquire(c) \/ FindClosed(c)
    \/ Send(c) \/ SendFails(c)
    \/ Receive(c) \/ Skip(c) \/ ReceiveFails(c)

Cancel(c) ==
    /\ c \in Cancellable
    /\ CancelInPool(c) \/ CancelWaiting(c) \/ CancelSending(c) \/ CancelReceiving(c)

Next == \E c \in Call : InPool(c) \/ InRequest(c) \/ Cancel(c) \/ Perform(c)

Spec == Init /\ [][Next]_vars

-----------------------------------------------------------------------------
(* Properties.                                                             *)

\* Types of the variables.
TypeOK ==
    /\ sessions \in [Endpoint -> Conn \cup {None}]
    /\ lock \in Call \cup {None}
    /\ at \in [Call -> Active \cup Ended]
    /\ on \in [Call -> Conn \cup {None}]
    /\ retired \in [Call -> SUBSET Conn]
    /\ open \in SUBSET Conn
    /\ invalid \in SUBSET Conn
    /\ turn \in [Conn -> Call \cup {None}]
    /\ nextId \in [Conn -> Nat \ {0}]
    /\ id \in [Call -> Nat]
    /\ got \in [Call -> Call \cup {None}]
    /\ half \in SUBSET Conn
    /\ wire \in SUBSET Call
    /\ performed \in SUBSET Call
    /\ answers \in [Conn -> Seq(Line)]

\* A call is never given the answer to another call, although the answers of
\* calls that were dropped are still on the stream.
AnswerIsOwn == \A c \in Call : at[c] = "answered" => got[c] = c

\* deliver_one repeats an unavailable submission: the App Server must not have
\* read it, nor be able to read it later.
UnavailableIsUnsent ==
    \A c \in Call : at[c] = "unavailable" => c \notin wire \cup performed

\* The pool never holds more than MAX_SESSIONS connections, the one that is
\* being opened included.
PoolWithinCapacity ==
    Cardinality({e \in Endpoint : sessions[e] # None \/ \E c \in Call :
                     at[c] = "connecting" /\ EndpointOf[c] = e}) <= MaxSessions

\* A connection that is retired by one call is not closed under another.
NobodyElseCloses ==
    \A c \in Call : at[c] \in {"sending", "receiving"} => on[c] \in open

\* RequestGuard::drop, "Keep that transport out of the pool; the next caller
\* will establish a fresh connection instead of sending on a stream whose
\* framing boundary is unknown".
NoSendOnUnknownFraming ==
    \A c \in Call : at[c] = "sending" => on[c] \notin half

\* The callers of the pool may rely on RemoteCall.
Contract == INSTANCE RemoteCall WITH
    outcome <- [c \in Call |->
        IF at[c] \in Active THEN "open"
        ELSE IF at[c] = "answered" /\ got[c] # c THEN "mistaken" ELSE at[c]]

KeepsItsContract == Contract!Spec

-----------------------------------------------------------------------------
(* Liveness, under the fairness of the runtime: tokio's locks are handed on *)
(* in order, and a timer runs over every connect, write and read.           *)

Fairness ==
    \A c \in Call :
        /\ WF_vars(Reuse(c) \/ Replace(c) \/ Refuse(c))
        /\ WF_vars(ConnectFails(c))
        /\ WF_vars(CloseRetired(c))
        /\ WF_vars(LeavePool(c))
        /\ WF_vars(Acquire(c) \/ FindClosed(c))
        /\ WF_vars(SendFails(c))
        /\ WF_vars(ReceiveFails(c))

LiveSpec == Spec /\ Fairness

\* Every call ends, also when the calls before it were dropped or timed out,
\* when it waits for a connect of another endpoint, or for a connection it
\* retired to become idle.
CallsReturn == \A c \in Call : at[c] \in Active ~> at[c] \in Ended
=============================================================================
