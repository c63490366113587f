--------------------------- MODULE RequestsProofs ---------------------------
(***************************************************************************)
(* Proofs about Requests: the ledger and the history of every request, for  *)
(* any requests, routes, rows, batches, deaths and limits.                  *)
(***************************************************************************)
EXTENDS Requests, InboxProofs

-----------------------------------------------------------------------------
(* The inductive invariant.                                                *)

Ranked == [none |-> 0, received |-> 0, acknowledged |-> 1, in_progress |-> 2, ended |-> 3, expired |-> 3]

\* One request, with its history.  No state comes twice, so no path is longer
\* than the ranks of its states.
RequestOK(r) ==
    /\ request[r] \in [state : RequestState, revision : Nat, parent : Row \cup {0}]
    /\ updates[r] \in Seq(RequestState \ {"none"})
    /\ request[r].revision = Len(updates[r])
    /\ request[r].revision <= Ranked[request[r].state]
    /\ request[r].state # "none" => request[r].state = StateAt(r, Len(updates[r]))

LedgerInv ==
    /\ DOMAIN request = Request /\ DOMAIN updates = Request
    /\ \A r \in Request : RequestOK(r)

-----------------------------------------------------------------------------
(* What a step does to one request.                                        *)

Stays(r) == request'[r] = request[r] /\ updates'[r] = updates[r]

Begins(r) ==
    /\ request[r].state = "none"
    /\ \E i \in Row : /\ State(i) # "none"
                     /\ request'[r] = [state |-> "received", revision |-> 0, parent |-> i]
    /\ updates'[r] = updates[r]

Advances(r) ==
    \E state \in RequestState :
        /\ allowed_transition(request[r].state, state)
        /\ request'[r] = [request[r] EXCEPT !.state = state, !.revision = request[r].revision + 1]
        /\ updates'[r] = Append(updates[r], state)

LedgerMoves ==
    /\ DOMAIN request' = Request /\ DOMAIN updates' = Request
    /\ \A r \in Request : Stays(r) \/ Begins(r) \/ Advances(r)

LEMMA CreateMoves ==
    ASSUME LedgerInv, NEW r \in Request, NEW i \in Row, NEW deadline, RequestCreate(r, i, deadline)
    PROVE  LedgerMoves
<1>1. /\ request' = [request EXCEPT ![r] = [state |-> "received", revision |-> 0, parent |-> i]]
      /\ updates' = updates /\ request[r].state = "none" /\ State(i) # "none"
  BY DEF RequestCreate
<1> DEFINE new == [state |-> "received", revision |-> 0, parent |-> i]
<1>2. request' = [request EXCEPT ![r] = new]
  BY <1>1
<1>3. request'[r] = new /\ \A q \in Request \ {r} : request'[q] = request[q]
  BY <1>2 DEF LedgerInv
<1>4. Begins(r)
  BY <1>1, <1>3 DEF Begins
<1> QED BY <1>1, <1>3, <1>4 DEF LedgerInv, LedgerMoves, Stays

LEMMA UpdateMoves ==
    ASSUME LedgerInv, NEW r \in Request, NEW state \in RequestState, RequestUpdate(r, state)
    PROVE  LedgerMoves
<1>1. /\ request' = [request EXCEPT ![r].state = state, ![r].revision = @ + 1]
      /\ updates' = [updates EXCEPT ![r] = Append(@, state)]
      /\ allowed_transition(request[r].state, state)
  BY DEF RequestUpdate
<1>2. \A q \in Request \ {r} : Stays(q)
  BY <1>1 DEF LedgerInv, Stays
<1>3. request'[r] = [request[r] EXCEPT !.state = state, !.revision = request[r].revision + 1]
      /\ updates'[r] = Append(updates[r], state)
  BY <1>1 DEF LedgerInv
<1>4. Advances(r)
  BY <1>1, <1>3 DEF Advances
<1>5. DOMAIN request' = Request /\ DOMAIN updates' = Request
  BY <1>1 DEF LedgerInv
<1> QED BY <1>2, <1>4, <1>5 DEF LedgerMoves

LEMMA ExpiryMoves ==
    ASSUME LedgerInv, NEW gone, Maintain(gone)
    PROVE  LedgerMoves
<1>1. /\ request' = [r \in Request |-> IF r \in gone
             THEN [request[r] EXCEPT !.state = "expired", !.revision = request[r].revision + 1]
             ELSE request[r]]
      /\ updates' = [r \in Request |-> IF r \in gone
             THEN Append(updates[r], "expired") ELSE updates[r]]
      /\ gone \subseteq Due
  BY Zenon DEF Maintain, Expires
<1>2. ASSUME NEW r \in Request PROVE Stays(r) \/ Advances(r)
  <2>1. CASE r \in gone
    <3>1. allowed_transition(request[r].state, "expired")
      BY <1>1, <2>1 DEF Due, allowed_transition, Terminal
    <3>2. /\ request'[r] = [request[r] EXCEPT !.state = "expired",
                                              !.revision = request[r].revision + 1]
          /\ updates'[r] = Append(updates[r], "expired")
      BY <1>1, <2>1
    <3>3. "expired" \in RequestState
      BY DEF RequestState, Terminal
    <3> QED BY <3>1, <3>2, <3>3 DEF Advances
  <2>2. CASE r \notin gone
    BY <1>1, <2>2 DEF Stays
  <2> QED BY <2>1, <2>2
<1>3. DOMAIN request' = Request /\ DOMAIN updates' = Request
  BY <1>1
<1> QED BY <1>2, <1>3 DEF LedgerMoves

\* Only the ledger's own operations and the expiry write requests.
LEMMA LedgerNext ==
    ASSUME LedgerInv, [RNext]_rvars
    PROVE  LedgerMoves
<1>1. CASE UNCHANGED <<request, updates>>
  BY <1>1 DEF LedgerInv, LedgerMoves, Stays
<1>2. ASSUME NEW r \in Request, RequestStep(r) PROVE LedgerMoves
  <2>1. CASE ExpiryComes(r)
    BY <1>1, <2>1 DEF ExpiryComes
  <2> QED BY <1>2, <2>1, CreateMoves, UpdateMoves DEF RequestStep
<1>3. CASE Maintenance
  BY <1>3, ExpiryMoves DEF Maintenance
<1>4. CASE \/ \E n \in Notice : NoticeComes(n)
           \/ \E i \in Row : Finish(i)
           \/ \E gone \in SUBSET Row : ClaimAndSettle(gone)
           \/ \E b \in Binding : RemoveAndSettle(b)
           \/ InboxOnly /\ UNCHANGED <<ledger, notice>>
           \/ UNCHANGED rvars
  BY <1>1, <1>4 DEF NoticeComes, Finish, ClaimAndSettle, RemoveAndSettle, ledger, rvars
<1> QED BY <1>2, <1>3, <1>4 DEF RNext

-----------------------------------------------------------------------------
(* The theorems.                                                           *)

LEMMA TransitionRises ==
    ASSUME NEW previous, NEW state, allowed_transition(previous, state)
    PROVE  state # "none" /\ Ranked[previous] + 1 <= Ranked[state]
  BY DEF allowed_transition, Open, Terminal, Ranked

LEMMA StepKeeps ==
    ASSUME LedgerInv, LedgerMoves, NEW r \in Request
    PROVE  RequestOK(r)'
<1>1. RequestOK(r)
  BY DEF LedgerInv
<1>2. CASE Stays(r)
  BY <1>1, <1>2 DEF Stays, RequestOK, StateAt
<1>3. CASE Begins(r)
  <2>1. PICK i \in Row : request'[r] = [state |-> "received", revision |-> 0, parent |-> i]
    BY <1>3 DEF Begins
  <2>2. request[r].state = "none" /\ updates'[r] = updates[r]
    BY <1>3 DEF Begins
  <2>3. Len(updates[r]) = 0
    BY <1>1, <2>2 DEF RequestOK, Ranked
  <2>4. /\ request'[r] \in [state : RequestState, revision : Nat, parent : Row \cup {0}]
        /\ request'[r].revision = 0 /\ request'[r].state = "received"
    BY <2>1 DEF RequestState, Open
  <2>5. StateAt(r, Len(updates[r]))' = "received" /\ Ranked["received"] = 0
    BY <2>2, <2>3 DEF StateAt, Ranked
  <2> QED BY <1>1, <2>2, <2>3, <2>4, <2>5 DEF RequestOK
<1>4. CASE Advances(r)
  <2>1. PICK state \in RequestState :
          /\ allowed_transition(request[r].state, state)
          /\ request'[r] = [request[r] EXCEPT !.state = state, !.revision = request[r].revision + 1]
          /\ updates'[r] = Append(updates[r], state)
    BY <1>4 DEF Advances
  <2>2. /\ request'[r] \in [state : RequestState, revision : Nat, parent : Row \cup {0}]
        /\ request'[r].revision = request[r].revision + 1 /\ request'[r].state = state
    <3>1. request[r] \in [state : RequestState, revision : Nat, parent : Row \cup {0}]
      BY <1>1 DEF RequestOK
    <3>2. PICK next \in Nat : next = request[r].revision + 1
      BY <3>1
    <3>3. request'[r] = [request[r] EXCEPT !.state = state, !.revision = next]
      BY <2>1, <3>2
    <3> QED BY <3>1, <3>2, <3>3
  <2>3. /\ state # "none"
        /\ Ranked[request[r].state] + 1 <= Ranked[state]
    <3>1. PICK previous : previous = request[r].state
      OBVIOUS
    <3>2. allowed_transition(previous, state)
      BY <2>1, <3>1
    <3> QED BY <3>1, <3>2, TransitionRises
  <2>4. /\ updates'[r] \in Seq(RequestState \ {"none"})
        /\ Len(updates'[r]) = Len(updates[r]) + 1
        /\ updates'[r][Len(updates[r]) + 1] = state
    BY <1>1, <2>1, <2>3 DEF RequestOK
  <2>5. Len(updates[r]) \in Nat /\ Ranked[request[r].state] \in Nat /\ Ranked[state] \in Nat
    BY <1>1 DEF RequestOK, Ranked, RequestState, Open, Terminal
  <2>6. request'[r].revision <= Ranked[request'[r].state]
    BY <1>1, <2>2, <2>3, <2>5 DEF RequestOK
  <2>7. StateAt(r, Len(updates[r]))' = state
    BY <2>4, <2>5 DEF StateAt
  <2> QED BY <1>1, <2>2, <2>4, <2>6, <2>7 DEF RequestOK
<1> QED BY <1>2, <1>3, <1>4 DEF LedgerMoves

\* The ledger and the history of each request agree in every state.
THEOREM LedgerAgrees == RSpec => []LedgerInv
<1>1. RInit => LedgerInv
  <2> SUFFICES ASSUME RInit PROVE LedgerInv
    OBVIOUS
  <2>1. ASSUME NEW r \in Request PROVE RequestOK(r)
    BY <2>1 DEF RInit, RequestOK, NoRequest, RequestState, Ranked
  <2> QED BY <2>1 DEF RInit, LedgerInv
<1>2. LedgerInv /\ [RNext]_rvars => LedgerInv'
  BY LedgerNext, StepKeeps DEF LedgerMoves, LedgerInv
<1> QED BY <1>1, <1>2, PTL DEF RSpec

\* The revision of a request is the number of its updates, its state the last
\* of them, and no request is updated more than three times.
THEOREM HistoryIsComplete ==
    RSpec => [](\A r \in Request :
                  /\ request[r].revision = Len(updates[r]) /\ request[r].revision \in 0..3
                  /\ request[r].state # "none" => request[r].state = StateAt(r, Len(updates[r])))
<1>1. LedgerInv => \A r \in Request :
                /\ request[r].revision = Len(updates[r]) /\ request[r].revision \in 0..3
                /\ request[r].state # "none" => request[r].state = StateAt(r, Len(updates[r]))
  BY DEF LedgerInv, RequestOK, Ranked, RequestState, Open, Terminal
<1> QED BY <1>1, LedgerAgrees, PTL

\* Whatever reports are late or repeated, whatever expires and whatever dies, a
\* request that has ended stays as it ended.
THEOREM TerminalStays == RSpec => TerminalIsFinal
<1>1. LedgerInv /\ [RNext]_rvars =>
        [\A r \in Request : request[r].state \in Terminal => request'[r] = request[r]]_rvars
  <2> SUFFICES ASSUME LedgerInv, [RNext]_rvars, NEW r \in Request, request[r].state \in Terminal
               PROVE  request'[r] = request[r]
    OBVIOUS
  <2>1. ~Begins(r) /\ ~Advances(r)
    BY DEF Begins, Advances, allowed_transition, Terminal, Open
  <2> QED BY <2>1, LedgerNext DEF LedgerMoves, Stays
<1> QED BY <1>1, LedgerAgrees, PTL DEF RSpec, TerminalIsFinal

-----------------------------------------------------------------------------
(* The notifications: the inductive invariant.                             *)

NoticeRow == [state : NoticeState, row : Row \cup {0}, nextAt : {"due", "waiting"}]

\* The event a tracked request came from stays in the inbox.
HasParent(r) ==
    request[r].state # "none" =>
        request[r].parent \in Row /\ State(request[r].parent) # "none"

\* A revision that is not quiet has its notification, and no other has.
IsAnnounced(n) ==
    notice[n].state # "none" <=>
        n[2] <= Len(updates[n[1]]) /\ StateAt(n[1], n[2]) \in {"in_progress"} \cup Terminal

\* A notification with an event is on the route of its request and as far as
\* the event is; pending for as long as that may still be delivered.
IsTrue(n) ==
    LET i == notice[n].row IN
    i # 0 => /\ State(i) # "none"
             /\ events[i].binding = BindingOf(n)
             /\ notice[n].state = Linked(State(i))

NoticesOK ==
    /\ notice \in [Notice -> NoticeRow]
    /\ \A n \in Notice : IsAnnounced(n) /\ IsTrue(n)

RInv ==
    /\ IInv
    /\ LedgerInv
    /\ expiry \in [Request -> {"never", "later", "due"}]
    /\ \A r \in Request : HasParent(r)
    /\ NoticesOK
    /\ RevisionsInOrder

-----------------------------------------------------------------------------
(* The inbox keeps its invariant when the maintenance tick writes into it.  *)

\* The rows a tick makes: free ones, from the first on, each of a notification
\* whose event does not exist.
Makes(made, batch) ==
    /\ \A i \in DOMAIN made :
          /\ i \in Row /\ State(i) = "none"
          /\ made[i] \in batch
          /\ ~ \E j \in Row : IsEventOf(j, made[i])
          /\ \A j \in Row : j < i /\ State(j) = "none" => j \in DOMAIN made
          /\ \A j \in DOMAIN made : made[i] = made[j] => i = j
    /\ events' = [i \in Row |-> IF i \in DOMAIN made
             THEN [NoRow EXCEPT !.binding = BindingOf(made[i]),
                                !.key = KeyOf[made[i]], !.state = "pending"]
             ELSE events[i]]

\* The notifications a tick takes are pending and the first of their requests.
Taken(batch, table) ==
    \A n \in batch : /\ n \in Notice /\ table[n].state = "pending" /\ table[n].row = 0
                     /\ \A m \in Notice : table[m].state = "pending" /\ m[1] = n[1] => n[2] <= m[2]

Ticks(gone) == \E batch, made :
    /\ Taken(batch, WithExpiries(gone))
    /\ Makes(made, batch)
    /\ notice' = [n \in Notice |-> IF n \in batch
             THEN Transferred(n, made, WithExpiries(gone)[n]) ELSE WithExpiries(gone)[n]]

LEMMA MaintainTicks ==
    ASSUME NEW gone, Maintain(gone)
    PROVE  Ticks(gone)
<1> DEFINE table == WithExpiries(gone)
<1>1. PICK batch \in Batches(Candidates(table), Batch - Cardinality(gone)) : Transfer(batch, table)
  BY Zenon DEF Maintain
<1>2. batch \subseteq Candidates(table)
  BY <1>1 DEF Batches
<1> HIDE DEF table
<1>3. Taken(batch, table)
  <2> SUFFICES ASSUME NEW n \in batch
               PROVE  /\ n \in Notice /\ table[n].state = "pending" /\ table[n].row = 0
                      /\ \A m \in Notice :
                            table[m].state = "pending" /\ m[1] = n[1] => n[2] <= m[2]
    BY DEF Taken
  <2>1. /\ n \in Notice /\ table[n].state = "pending" /\ table[n].row = 0
        /\ IsFirst({m \in Notice : table[m].state = "pending"}, n)
    BY <1>2 DEF Candidates
  <2>2. ASSUME NEW m \in Notice, table[m].state = "pending", m[1] = n[1] PROVE n[2] <= m[2]
    <3>1. ~ (m[2] < n[2])
      BY <2>1, <2>2 DEF IsFirst
    <3>2. m[2] \in Nat /\ n[2] \in Nat
      BY <2>1 DEF Notice, Revision
    <3> QED BY <3>1, <3>2
  <2> QED BY <2>1, <2>2
<1> DEFINE fresh == {n \in batch : /\ route[BindingOf(n)] # "removed"
                                  /\ ~ \E i \in Row : IsEventOf(i, n)}
<1>4. PICK made \in Placings(fresh) :
        /\ events' = [i \in Row |-> IF i \in DOMAIN made
                 THEN [NoRow EXCEPT !.binding = BindingOf(made[i]),
                                    !.key = KeyOf[made[i]], !.state = "pending"]
                 ELSE events[i]]
        /\ notice' = [n \in Notice |-> IF n \in batch
                 THEN Transferred(n, made, table[n]) ELSE table[n]]
  BY <1>1, Zenon DEF Transfer
<1>5. /\ DOMAIN made \subseteq {i \in Row : State(i) = "none"}
      /\ \A i \in DOMAIN made : made[i] \in fresh
      /\ \A i, j \in DOMAIN made : made[i] = made[j] => i = j
      /\ \A i \in DOMAIN made, j \in Row : j < i /\ State(j) = "none" => j \in DOMAIN made
  <2> HIDE DEF fresh
  <2>1. PICK rows \in SUBSET {i \in Row : State(i) = "none"} : made \in [rows -> fresh]
    BY <1>4, Zenon DEF Placings
  <2>2. /\ IsInjective(made)
        /\ \A i \in DOMAIN made, j \in Row : j < i /\ State(j) = "none" => j \in DOMAIN made
    BY <1>4, Zenon DEF Placings
  <2> QED BY <2>1, <2>2, Zenon DEF IsInjective
<1>6. Makes(made, batch)
  BY <1>4, <1>5 DEF Makes
<1> QED BY <1>3, <1>4, <1>6 DEF Ticks, table

LEMMA NoticeIsOfRequest ==
    ASSUME NEW n \in Notice PROVE n[1] \in Request /\ n[2] \in Nat /\ n[2] \in 1..3
BY DEF Notice, Revision

\* A notification is of a request that was made, and its event has a route.
LEMMA NoticeHasRequest ==
    ASSUME RInv, NEW n \in Notice, notice[n].state # "none"
    PROVE  request[n[1]].state # "none"
<1>1. n[1] \in Request /\ n[2] \in 1..3
  BY NoticeIsOfRequest
<1>2. n[2] <= Len(updates[n[1]])
  BY DEF RInv, NoticesOK, IsAnnounced
<1>3. RequestOK(n[1])
  BY <1>1 DEF RInv, LedgerInv
<1>4. request[n[1]].revision >= 1
  BY <1>1, <1>2, <1>3 DEF RequestOK
<1> QED BY <1>3, <1>4 DEF RequestOK, Ranked

LEMMA TakenHasBinding ==
    ASSUME RInv, NEW gone, Maintain(gone), NEW batch, Taken(batch, WithExpiries(gone)), NEW n \in batch
    PROVE  /\ n \in Notice /\ request[n[1]].state # "none"
           /\ BindingOf(n) \in Binding /\ KeyOf[n] \in EventId
<1>1. n \in Notice /\ WithExpiries(gone)[n].state = "pending"
  BY DEF Taken
<1>2. request[n[1]].state # "none"
  <2>1. CASE n[1] \in gone
    <3>1. request[n[1]].state \in Open
      BY <2>1 DEF Maintain, Expires, Due
    <3> QED BY <3>1 DEF Open
  <2>2. CASE n[1] \notin gone
    <3>1. notice[n].state = "pending"
      BY <1>1, <2>2 DEF WithExpiries
    <3> QED BY <1>1, <3>1, NoticeHasRequest
  <2> QED BY <2>1, <2>2
<1>3. request[n[1]].parent \in Row /\ State(request[n[1]].parent) # "none"
  BY <1>1, <1>2, NoticeIsOfRequest DEF RInv, HasParent
<1>4. BindingOf(n) \in Binding
  BY <1>3 DEF RInv, IInv, RowsInOrder, BindingOf
<1> QED BY <1>1, <1>2, <1>4, RequestConstants DEF Notice

\* What the rows of the tick look like afterwards.
LEMMA RowsOfTick ==
    ASSUME RInv, NEW gone, Maintain(gone), NEW batch, NEW made,
           Taken(batch, WithExpiries(gone)), Makes(made, batch)
    PROVE  /\ events' \in [Row -> EventRow]
           /\ \A i \in Row : i \notin DOMAIN made => events'[i] = events[i]
           /\ \A i \in DOMAIN made :
                /\ i \in Row /\ State(i) = "none"
                /\ events'[i].binding = BindingOf(made[i]) /\ BindingOf(made[i]) \in Binding
                /\ events'[i].key = KeyOf[made[i]]
                /\ events'[i].state = "pending" /\ events'[i].attempts = 0
                /\ events'[i].nextAt = "fresh"
<1> DEFINE new(i) == [NoRow EXCEPT !.binding = BindingOf(made[i]),
                                   !.key = KeyOf[made[i]], !.state = "pending"]
<1>1. events' = [i \in Row |-> IF i \in DOMAIN made THEN new(i) ELSE events[i]]
  BY DEF Makes
<1>2. \A i \in DOMAIN made : i \in Row /\ State(i) = "none" /\ made[i] \in batch
  BY DEF Makes
<1>3. ASSUME NEW i \in DOMAIN made
      PROVE  /\ new(i) \in EventRow
             /\ new(i).binding = BindingOf(made[i]) /\ new(i).key = KeyOf[made[i]]
             /\ new(i).state = "pending" /\ new(i).attempts = 0 /\ new(i).nextAt = "fresh"
             /\ BindingOf(made[i]) \in Binding
  <2>1. PICK b \in Binding : b = BindingOf(made[i])
    BY <1>2, TakenHasBinding
  <2>2. PICK k \in EventId : k = KeyOf[made[i]]
    BY <1>2, TakenHasBinding
  <2> DEFINE row == [NoRow EXCEPT !.binding = b, !.key = k, !.state = "pending"]
  <2>3. new(i) = row
    BY <2>1, <2>2, Zenon
  <2>4. row \in EventRow
    BY DEF NoRow, EventRow, EventState, NextAt
  <2>5. row.binding = b
    BY DEF NoRow
  <2>6. row.key = k
    BY DEF NoRow
  <2>7. row.state = "pending" /\ row.attempts = 0 /\ row.nextAt = "fresh"
    BY DEF NoRow
  <2> HIDE DEF new, row
  <2> QED BY <2>1, <2>2, <2>3, <2>4, <2>5, <2>6, <2>7
<1> HIDE DEF new
<1>4. \A i \in Row : events[i] \in EventRow
  BY DEF RInv, IInv, TypeOK
<1>5. \A i \in Row : i \notin DOMAIN made => events'[i] = events[i]
  BY <1>1
<1>6. \A i \in DOMAIN made : events'[i] = new(i)
  BY <1>1, <1>2
<1>7. events' \in [Row -> EventRow]
  BY <1>1, <1>3, <1>4
<1> QED BY <1>2, <1>3, <1>5, <1>6, <1>7

\* The new rows have names of their own: their notifications are of different
\* requests, so no two of them have one key.
LEMMA TickKeepsOrder ==
    ASSUME RInv, NEW gone, Maintain(gone), NEW batch, NEW made,
           Taken(batch, WithExpiries(gone)), Makes(made, batch)
    PROVE  RowsInOrder'
<1>1. /\ \A i \in Row : i \notin DOMAIN made => events'[i] = events[i]
      /\ \A i \in DOMAIN made :
           /\ i \in Row /\ State(i) = "none" /\ events'[i].binding \in Binding
           /\ events'[i].binding = BindingOf(made[i])
           /\ events'[i].key = KeyOf[made[i]] /\ events'[i].state = "pending"
  BY RowsOfTick
<1>2. RowsInOrder
  BY DEF RInv, IInv
<1>3. ASSUME NEW i \in DOMAIN made, NEW j \in DOMAIN made, KeyOf[made[i]] = KeyOf[made[j]]
      PROVE  i = j
  <2>1. made[i] \in batch /\ made[j] \in batch
    BY DEF Makes
  <2>2. PICK m \in batch : m = made[i]
    BY <2>1
  <2>3. PICK n \in batch : n = made[j]
    BY <2>1
  <2>4. m \in Notice /\ n \in Notice
    BY DEF Taken
  <2>5. m[1] = n[1]
    BY <1>3, <2>2, <2>3, <2>4, RequestConstants DEF Notice
  <2>6. m[2] <= n[2] /\ n[2] <= m[2]
    BY <2>4, <2>5 DEF Taken
  <2>7. m = n
    BY <2>4, <2>5, <2>6 DEF Notice, Revision
  <2> QED BY <2>2, <2>3, <2>7 DEF Makes
<1>4. \A i \in Row : events'[i].state = "none" <=> events'[i].binding \notin Binding
  <2> SUFFICES ASSUME NEW i \in Row
               PROVE  events'[i].state = "none" <=> events'[i].binding \notin Binding
    OBVIOUS
  <2>1. CASE i \in DOMAIN made
    BY <1>1, <2>1
  <2>2. CASE i \notin DOMAIN made
    BY <1>1, <1>2, <2>2 DEF RowsInOrder, State
  <2> QED BY <2>1, <2>2
<1>5. \A i, j \in Row : (events'[i].state # "none" /\ j < i) => events'[j].state # "none"
  <2> SUFFICES ASSUME NEW i \in Row, NEW j \in Row, events'[i].state # "none", j < i,
                      events'[j].state = "none"
               PROVE  FALSE
    OBVIOUS
  <2>1. j \notin DOMAIN made /\ State(j) = "none"
    BY <1>1 DEF State
  <2>2. CASE i \in DOMAIN made
    BY <2>1, <2>2 DEF Makes
  <2>3. CASE i \notin DOMAIN made
    BY <1>1, <1>2, <2>1, <2>3 DEF RowsInOrder, State
  <2> QED BY <2>2, <2>3
<1>6. ASSUME NEW i \in Row, NEW j \in Row, events'[i].state # "none",
             events'[i].binding = events'[j].binding, events'[i].key = events'[j].key
      PROVE  i = j
  <2>1. CASE i \in DOMAIN made /\ j \in DOMAIN made
    BY <1>1, <1>3, <1>6, <2>1
  <2>2. ASSUME NEW k \in DOMAIN made, NEW l \in Row, l \notin DOMAIN made,
               events'[k].binding = events'[l].binding, events'[k].key = events'[l].key
        PROVE  FALSE
    <3>1. events[l].binding = BindingOf(made[k]) /\ events[l].key = KeyOf[made[k]]
      BY <1>1, <2>2
    <3> QED BY <3>1 DEF Makes, IsEventOf
  <2>3. CASE i \notin DOMAIN made /\ j \notin DOMAIN made
    BY <1>1, <1>2, <1>6, <2>3 DEF RowsInOrder, SameEvent, State
  <2> QED BY <1>6, <2>1, <2>2, <2>3
<1> QED BY <1>4, <1>5, <1>6 DEF RowsInOrder, State, SameEvent

\* Rows that may still be delivered are only added behind the others.
LEMMA TickKeepsInbox ==
    ASSUME RInv, NEW gone, Maintain(gone)
    PROVE  IInv'
<1>1. PICK batch, made : Taken(batch, WithExpiries(gone)) /\ Makes(made, batch)
  BY MaintainTicks DEF Ticks
<1>2. /\ events' \in [Row -> EventRow]
      /\ \A i \in Row : i \notin DOMAIN made => events'[i] = events[i]
      /\ \A i \in DOMAIN made :
           /\ i \in Row /\ State(i) = "none" /\ events'[i].state = "pending"
           /\ events'[i].attempts = 0 /\ events'[i].nextAt = "fresh"
  BY <1>1, RowsOfTick
<1>3. UNCHANGED <<route, aged, serve, job, found, wire, placed, visible, crashes>>
  BY DEF Maintain, native
<1>4. IInv
  BY DEF RInv
<1>5. TypeOK'
  BY <1>2, <1>3, <1>4 DEF IInv, TypeOK
<1>6. RowsInOrder'
  BY <1>1, TickKeepsOrder
<1>7. ASSUME NEW i \in Row, events'[i].state # "pending"
      PROVE  events'[i] = events[i]
  BY <1>2, <1>7
<1>8. ASSUME NEW i \in Row, State(i) # "none" PROVE events'[i] = events[i]
  BY <1>2, <1>8
<1>9. \A i \in Row : IsPlaced(i)' <=> IsPlaced(i)
  BY <1>3 DEF IsPlaced
<1>10. HeadOfLine'
  <2> SUFFICES ASSUME NEW i \in Row, events'[i].state \in InFlight \cup {"accepted"},
                      NEW j \in Row, j < i, events'[j].binding = events'[i].binding
               PROVE  events'[j].state \in Settled
    BY DEF HeadOfLine, Earlier, State
  <2>1. events'[i] = events[i] /\ State(i) # "none"
    BY <1>7 DEF InFlight, State
  <2>2. State(j) # "none"
    BY <1>4, <2>1 DEF IInv, RowsInOrder
  <2>3. events'[j] = events[j]
    BY <1>8, <2>2
  <2> QED BY <1>4, <2>1, <2>3 DEF IInv, HeadOfLine, Earlier, State
<1>11. JobOwnsItsRow' /\ EvidenceIsForHeldRows'
  <2>1. JobOwnsItsRow'
    BY <1>3, <1>4, <1>8 DEF IInv, JobOwnsItsRow, State
  <2>2. EvidenceIsForHeldRows'
    <3> SUFFICES ASSUME NEW i \in found
                 PROVE  serve = "running" /\ events'[i].state = "uncertain" /\ IsPlaced(i)'
      BY <1>3 DEF EvidenceIsForHeldRows, State
    <3>1. i \in Row /\ serve = "running" /\ State(i) = "uncertain" /\ IsPlaced(i)
      BY <1>4 DEF IInv, TypeOK, EvidenceIsForHeldRows
    <3> QED BY <1>8, <1>9, <3>1 DEF State
  <2> QED BY <2>1, <2>2
<1>12. Handoff'
  <2>1. wire \subseteq Row /\ visible \subseteq Row
    BY <1>4 DEF IInv, TypeOK
  <2> QED BY <1>3, <1>4, <1>9, <2>1 DEF IInv, Handoff
<1>13. NothingTakenIsGivenUp'
  <2> SUFFICES ASSUME NEW i \in Row, i \in wire \/ IsPlaced(i)
               PROVE  events'[i].state \in InFlight \cup {"accepted"}
    BY <1>3, <1>9 DEF NothingTakenIsGivenUp, State
  <2>1. State(i) \in InFlight \cup {"accepted"}
    BY <1>4 DEF IInv, NothingTakenIsGivenUp
  <2> QED BY <1>8, <2>1 DEF InFlight, State
<1>14. AcceptedIsPlaced'
  BY <1>4, <1>7, <1>9 DEF IInv, AcceptedIsPlaced, State
<1>15. PlacedOnce' /\ FirstInFirstOut'
  <2>1. ASSUME NEW p \in DOMAIN placed PROVE events'[placed[p]] = events[placed[p]]
    <3>1. placed[p] \in Row /\ IsPlaced(placed[p])
      BY <1>4 DEF IInv, TypeOK, IsPlaced
    <3>2. State(placed[p]) # "none"
      BY <1>4, <3>1 DEF IInv, NothingTakenIsGivenUp, InFlight
    <3> QED BY <1>8, <3>1, <3>2
  <2>2. PlacedOnce'
    BY <1>3, <1>4 DEF IInv, PlacedOnce
  <2>3. FirstInFirstOut'
    BY <1>3, <1>4, <2>1 DEF IInv, FirstInFirstOut
  <2> QED BY <2>2, <2>3
<1>16. RetryBudget'
  <2> SUFFICES ASSUME NEW i \in Row
               PROVE  /\ events'[i].state = "pending" => events'[i].attempts < MaxAttempts
                      /\ events'[i].state \in InFlight => events'[i].attempts \in 1..MaxAttempts
    BY DEF RetryBudget, State
  <2>1. CASE i \in DOMAIN made
    BY <1>2, <2>1, InboxConstants DEF InFlight
  <2>2. CASE i \notin DOMAIN made
    BY <1>2, <1>4, <2>2 DEF IInv, RetryBudget, State
  <2> QED BY <2>1, <2>2
<1>17. OnlyPendingWaits'
  <2> SUFFICES ASSUME NEW i \in Row, events'[i].nextAt = "waiting"
               PROVE  events'[i].state = "pending"
    BY DEF OnlyPendingWaits, State
  <2> QED BY <1>2, <1>4 DEF IInv, OnlyPendingWaits, State
<1> QED BY <1>5, <1>6, <1>10, <1>11, <1>12, <1>13, <1>14, <1>15, <1>16, <1>17 DEF IInv

-----------------------------------------------------------------------------
(* What a step does to the rows.                                           *)

\* Requests write into the inbox only in the maintenance tick.
LEMMA InboxSteps ==
    ASSUME [RNext]_rvars PROVE [Next]_vars \/ Maintenance
<1>1. ASSUME NEW r \in Request, RequestStep(r) PROVE UNCHANGED vars
  BY <1>1 DEF RequestStep, RequestCreate, RequestUpdate, ExpiryComes, inbox, vars
<1>2. ASSUME NEW n \in Notice, NoticeComes(n) PROVE UNCHANGED vars
  BY <1>2 DEF NoticeComes, inbox, vars
<1>3. ASSUME NEW i \in Row, Finish(i) PROVE Next
  BY <1>3 DEF Finish, Next, DeliverStep, ReconcileStep
<1>4. ASSUME NEW gone \in SUBSET Row, ClaimAndSettle(gone) PROVE Next
  BY <1>4 DEF ClaimAndSettle, Next, Dispatch
<1>5. ASSUME NEW b \in Binding, RemoveAndSettle(b) PROVE Next
  BY <1>5 DEF RemoveAndSettle, Next, RouteStep
<1>6. ASSUME InboxOnly PROVE Next
  BY <1>6 DEF InboxOnly, Next, RouteStep, DeliverStep, ReconcileStep
<1>7. UNCHANGED rvars => UNCHANGED vars
  BY DEF rvars
<1> QED BY <1>1, <1>2, <1>3, <1>4, <1>5, <1>6, <1>7 DEF RNext

LEMMA InboxNext == RInv /\ [RNext]_rvars => IInv'
  BY InboxSteps, InvNext, TickKeepsInbox DEF Maintenance, RInv

\* A row that is in use stays in use under its names.
LEMMA UsedRowStays ==
    ASSUME RInv, [RNext]_rvars, NEW i \in Row, State(i) # "none"
    PROVE  /\ events'[i].state # "none"
           /\ events'[i].binding = events[i].binding /\ events'[i].key = events[i].key
<1>1. IInv
  BY DEF RInv
<1>2. CASE [Next]_vars
  <2>1. Move(i)
    BY <1>1, <1>2, NextMoves DEF Moves
  <2>2. events'[i].state # "none"
    BY <2>1 DEF Move, State, InFlight
  <2> QED BY <1>1, <1>2, <2>2, UsedNamesKept
<1>3. ASSUME NEW gone, Maintain(gone) PROVE events'[i] = events[i]
  <2>1. PICK batch, made : Taken(batch, WithExpiries(gone)) /\ Makes(made, batch)
    BY <1>3, MaintainTicks DEF Ticks
  <2> QED BY <1>3, <2>1, RowsOfTick
<1> QED BY <1>2, <1>3, InboxSteps DEF Maintenance, State

LEMMA ParentStays ==
    ASSUME RInv, [RNext]_rvars, NEW r \in Request
    PROVE  /\ HasParent(r)'
           /\ request[r].state # "none" =>
                /\ request'[r].parent = request[r].parent
                /\ request'[r].state # "none"
<1>1. RequestOK(r) /\ HasParent(r)
  BY DEF RInv, LedgerInv
<1>2. LedgerMoves
  BY LedgerNext DEF RInv
<1>3. CASE Stays(r)
  BY <1>1, <1>3, UsedRowStays DEF Stays, HasParent, State
<1>4. CASE Begins(r)
  <2>1. PICK i \in Row : /\ State(i) # "none"
                         /\ request'[r] = [state |-> "received", revision |-> 0, parent |-> i]
    BY <1>4 DEF Begins
  <2>2. request'[r].parent = i
    BY <2>1
  <2>3. request[r].state = "none"
    BY <1>4 DEF Begins
  <2> QED BY <2>1, <2>2, <2>3, UsedRowStays DEF HasParent, State
<1>5. CASE Advances(r)
  <2>1. PICK state \in RequestState :
          /\ allowed_transition(request[r].state, state)
          /\ request'[r] = [request[r] EXCEPT !.state = state, !.revision = request[r].revision + 1]
    BY <1>5 DEF Advances
  <2>2. request'[r].parent = request[r].parent /\ request'[r].state = state
    <3>1. request[r] \in [state : RequestState, revision : Nat, parent : Row \cup {0}]
      BY <1>1 DEF RequestOK
    <3>2. PICK next \in Nat : next = request[r].revision + 1
      BY <3>1
    <3>3. request'[r] = [request[r] EXCEPT !.state = state, !.revision = next]
      BY <2>1, <3>2
    <3> QED BY <3>1, <3>2, <3>3
  <2>3. request[r].state # "none" /\ state # "none"
    BY <2>1 DEF allowed_transition, Open, Terminal
  <2>4. request[r].parent \in Row /\ State(request[r].parent) # "none"
    BY <1>1, <2>3 DEF HasParent
  <2> QED BY <2>2, <2>3, <2>4, UsedRowStays DEF HasParent, State
<1> QED BY <1>2, <1>3, <1>4, <1>5 DEF LedgerMoves

\* The route of a notification, once there is one, is the same for good.
LEMMA BindingStays ==
    ASSUME RInv, [RNext]_rvars, NEW n \in Notice, request[n[1]].state # "none"
    PROVE  BindingOf(n)' = BindingOf(n)
<1>1. n[1] \in Request
  BY NoticeIsOfRequest
<1>2. request[n[1]].parent \in Row /\ State(request[n[1]].parent) # "none"
  BY <1>1 DEF RInv, HasParent
<1>3. request'[n[1]].parent = request[n[1]].parent
  BY <1>1, ParentStays
<1> QED BY <1>2, <1>3, UsedRowStays DEF BindingOf

-----------------------------------------------------------------------------
(* Notifications follow their events.                                      *)

\* What a step that makes no notification and links none does to the outbox.
Follow ==
    /\ notice' \in [Notice -> NoticeRow]
    /\ \A n \in Notice :
        /\ notice'[n].row = notice[n].row
        /\ notice'[n].state = "none" <=> notice[n].state = "none"
        /\ notice'[n].state = "pending" => notice[n].state = "pending"
        /\ notice[n].row # 0 => notice'[n].state = Linked(events'[notice[n].row].state)

\* A step that only works on events decides none of them.
LEMMA QuietRows ==
    ASSUME RInv, InboxOnly, NEW i \in Row, State(i) # "none"
    PROVE  Linked(events'[i].state) = Linked(State(i))
<1>1. IInv /\ TypeOK /\ events[i] \in EventRow
  BY DEF RInv, IInv, TypeOK
<1>2. CASE events' = events
  BY <1>2 DEF State
<1>3. ASSUME NEW b \in Binding, NEW k \in EventId, NEW s \in EventState, Ingest(b, k, s)
      PROVE  events'[i] = events[i]
  BY <1>1, <1>3, IngestFills DEF Free
<1>4. ASSUME NEW j \in Row, DeferUnavailable(j)
      PROVE  events'[i] = events[i]
             \/ (events'[i].state = "pending" /\ State(i) = "submitting")
  <2> DEFINE row == [events[j] EXCEPT !.state = "pending", !.nextAt = "waiting",
                         !.attempts = OneFewer(@)]
  <2>1. DoneWith(j, row) /\ State(j) = "submitting"
    BY <1>4 DEF DeferUnavailable
  <2>2. events[j] \in EventRow
    BY <1>1 DEF TypeOK
  <2>3. row.state = "pending"
    BY <2>2 DEF EventRow
  <2> HIDE DEF row
  <2>4. events'[j] = row /\ \A k \in Row \ {j} : events'[k] = events[k]
    BY <1>1, <2>1, DoneWithMoves
  <2> QED BY <2>1, <2>3, <2>4
<1>5. ASSUME NEW j \in Row, BackoffElapses(j) PROVE events'[i].state = State(i)
  BY <1>1, <1>5 DEF BackoffElapses, TypeOK, EventRow, State
<1>6. ASSUME Start PROVE events'[i].state = State(i)
                         \/ (events'[i].state = "uncertain" /\ State(i) = "submitting")
  <2>1. events'[i] = Recovered(events[i])
    BY <1>6 DEF Start
  <2> QED BY <1>1, <2>1 DEF Recovered, State, EventRow
<1>7. \/ events' = events
      \/ events'[i].state = State(i)
      \/ State(i) = "submitting" /\ events'[i].state \in {"pending", "uncertain"}
  BY <1>3, <1>4, <1>5, <1>6 DEF InboxOnly, Bind, RemoveWatch, PauseOrResume, Preflight, Submit,
     LoseAnswer, Inspect, NativeStep, NativeAccept, NativeRefuse, NativeForget, GrowOld, Die,
     store, State
<1> QED BY <1>2, <1>7 DEF Linked

LEMMA UnchangedFollow ==
    ASSUME RInv, UNCHANGED notice,
           \A i \in Row : State(i) # "none" => Linked(events'[i].state) = Linked(State(i))
    PROVE  Follow
<1>1. notice \in [Notice -> NoticeRow] /\ \A n \in Notice : IsTrue(n)
  BY DEF RInv, NoticesOK
<1>2. ASSUME NEW n \in Notice, notice[n].row # 0
      PROVE  notice[n].state = Linked(events'[notice[n].row].state)
  <2>1. notice[n].row \in Row
    BY <1>1, <1>2 DEF NoticeRow
  <2> QED BY <1>1, <1>2, <2>1 DEF IsTrue
<1> QED BY <1>1, <1>2 DEF Follow

LEMMA ComesFollow ==
    ASSUME RInv, NEW n \in Notice, NoticeComes(n)
    PROVE  Follow
<1>1. notice \in [Notice -> NoticeRow] /\ \A m \in Notice : IsTrue(m)
  BY DEF RInv, NoticesOK
<1>2. notice' = [notice EXCEPT ![n].nextAt = "due"] /\ events' = events
  BY DEF NoticeComes, inbox, vars
<1>3. notice' \in [Notice -> NoticeRow]
  BY <1>1, <1>2 DEF NoticeRow
<1>4. \A m \in Notice : notice'[m].state = notice[m].state /\ notice'[m].row = notice[m].row
  BY <1>1, <1>2 DEF NoticeRow
<1> QED BY <1>1, <1>2, <1>3, <1>4 DEF Follow, IsTrue, State

\* The rows of a transaction that settles them take their notifications along.
LEMMA SettleFollow ==
    ASSUME RInv, NEW rows \in SUBSET Row, SettleWith(rows),
           \A i \in Row \ rows : State(i) # "none" => Linked(events'[i].state) = Linked(State(i)),
           \A i \in rows : Linked(State(i)) = "pending"
    PROVE  Follow
<1>1. notice \in [Notice -> NoticeRow] /\ \A m \in Notice : IsTrue(m)
  BY DEF RInv, NoticesOK
<1>2. notice' = [n \in Notice |->
         IF notice[n].state = "pending" /\ notice[n].row \in rows
         THEN [notice[n] EXCEPT !.state = Follows(n)] ELSE notice[n]]
  BY DEF SettleWith
<1>3. ASSUME NEW n \in Notice
      PROVE  Follows(n) = Linked(events'[notice[n].row].state) /\ Follows(n) \in NoticeState \ {"none"}
  BY DEF Follows, Linked, NoticeState
<1>4. ASSUME NEW n \in Notice
      PROVE  /\ notice'[n] \in NoticeRow
             /\ notice'[n].row = notice[n].row
             /\ notice'[n].state = "none" <=> notice[n].state = "none"
             /\ notice'[n].state = "pending" => notice[n].state = "pending"
             /\ notice[n].row # 0 => notice'[n].state = Linked(events'[notice[n].row].state)
  <2>0. PICK follows \in NoticeState \ {"none"} :
           follows = Follows(n) /\ follows = Linked(events'[notice[n].row].state)
    BY <1>3
  <2>1. CASE notice[n].state = "pending" /\ notice[n].row \in rows
    <3>1. notice'[n] = [notice[n] EXCEPT !.state = follows]
      BY <1>2, <2>0, <2>1
    <3>2. /\ notice'[n] \in NoticeRow /\ notice'[n].row = notice[n].row
          /\ notice'[n].state = follows
      BY <1>1, <3>1 DEF NoticeRow
    <3> QED BY <2>0, <2>1, <3>2
  <2>2. CASE ~(notice[n].state = "pending" /\ notice[n].row \in rows)
    <3>1. notice'[n] = notice[n]
      BY <1>2, <2>2
    <3>2. notice[n] \in NoticeRow
      BY <1>1
    <3>3. ASSUME notice[n].row # 0
          PROVE  notice[n].state = Linked(events'[notice[n].row].state)
      <4>1. /\ notice[n].row \in Row /\ State(notice[n].row) # "none"
            /\ notice[n].state = Linked(State(notice[n].row))
        BY <1>1, <3>2, <3>3 DEF NoticeRow, IsTrue
      <4>2. notice[n].row \notin rows
        BY <2>2, <4>1
      <4> QED BY <4>1, <4>2
    <3> QED BY <3>1, <3>2, <3>3
  <2> QED BY <2>1, <2>2
<1> QED BY <1>2, <1>4 DEF Follow

LEMMA FinishFollow ==
    ASSUME RInv, NEW i \in Row, Finish(i)
    PROVE  Follow
<1>1. IInv /\ TypeOK /\ SettleWith({i})
  BY DEF RInv, IInv, Finish
<1>2. State(i) \in InFlight
  BY DEF Finish, FinishSettled, FinishRetryable, FinishUncertain, ReconcileAccept
<1>3. \A j \in Row \ {i} : events'[j] = events[j]
  <2>1. CASE ReconcileAccept(i)
    BY <1>1, <2>1 DEF ReconcileAccept, TypeOK
  <2>2. ASSUME NEW row, DoneWith(i, row) PROVE \A j \in Row \ {i} : events'[j] = events[j]
    BY <1>1, <2>2, DoneWithMoves
  <2> QED BY <2>1, <2>2 DEF Finish, FinishSettled, FinishRetryable, FinishUncertain
<1>4. Linked(State(i)) = "pending"
  BY <1>2 DEF Linked, InFlight
<1> QED BY <1>1, <1>3, <1>4, SettleFollow DEF State

LEMMA ClaimFollow ==
    ASSUME RInv, NEW gone \in SUBSET Row, ClaimAndSettle(gone)
    PROVE  Follow
<1>1. IInv /\ TypeOK /\ SettleWith(gone)
  BY DEF RInv, IInv, ClaimAndSettle
<1>2. Expirable(gone)
  BY DEF ClaimAndSettle, ClaimNothing, Claim
<1>3. \A j \in gone : Linked(State(j)) = "pending"
  BY <1>2 DEF Expirable, Eligible, IsClaimable, Linked
<1>4. ASSUME NEW j \in Row \ gone PROVE Linked(events'[j].state) = Linked(State(j))
  <2>1. AfterExpiry(gone) \in [Row -> EventRow] /\ AfterExpiry(gone)[j] = events[j]
    BY <1>1, <1>4, ExpiryIsTyped DEF AfterExpiry
  <2>2. CASE ClaimNothing(gone)
    BY <2>1, <2>2 DEF ClaimNothing, State
  <2>3. ASSUME NEW i \in Row, Claim(gone, i), i # j PROVE events'[j] = events[j]
    BY <2>1, <2>3 DEF Claim
  <2>4. ASSUME Claim(gone, j) PROVE events'[j].state = "submitting" /\ State(j) = "pending"
    <3>1. events' = [AfterExpiry(gone) EXCEPT ![j] =
                       [AfterExpiry(gone)[j] EXCEPT !.state = "submitting",
                            !.attempts = AfterExpiry(gone)[j].attempts + 1]]
      BY <2>4, Zenon DEF Claim
    <3>2. events'[j].state = "submitting"
      BY <2>1, <3>1 DEF EventRow
    <3> QED BY <2>4, <3>2 DEF Claim, First, Eligible, IsClaimable
  <2> QED BY <2>2, <2>3, <2>4 DEF ClaimAndSettle, Linked, State
<1> QED BY <1>1, <1>3, <1>4, SettleFollow

\* Removal settles the pending rows of a route and all its notifications that
\* have no other row.
LEMMA RemoveFollow ==
    ASSUME RInv, NEW b \in Binding, RemoveAndSettle(b)
    PROVE  Follow
<1>1. notice \in [Notice -> NoticeRow] /\ \A m \in Notice : IsTrue(m) /\ TypeOK
  BY DEF RInv, NoticesOK, IInv
<1> DEFINE ends(n) == /\ notice[n].state = "pending" /\ BindingOf(n) = b
                      /\ notice[n].row = 0 \/ events'[notice[n].row].state = "dead"
<1>2. notice' = [n \in Notice |-> IF ends(n) THEN [notice[n] EXCEPT !.state = "failed"]
                                             ELSE notice[n]]
  BY DEF RemoveAndSettle
<1>3. ASSUME NEW i \in Row, State(i) # "none"
      PROVE  \/ events'[i].state = State(i)
             \/ /\ events[i].binding = b /\ State(i) = "pending"
                /\ events'[i].state = "dead"
  <2>1. events'[i] = IF events[i].binding = b /\ State(i) \in {"pending"}
                     THEN [events[i] EXCEPT !.state = "dead", !.nextAt = "fresh"] ELSE events[i]
    BY DEF RemoveAndSettle, RemoveRoute, SettledByRemoval, SettledByRemovalWhen
  <2>2. IInv /\ events[i] \in EventRow
    BY DEF RInv, IInv, TypeOK
  <2> QED BY <2>1, <2>2 DEF EventRow, State
<1>4. ASSUME NEW n \in Notice
      PROVE  /\ notice'[n] \in NoticeRow
             /\ notice'[n].row = notice[n].row
             /\ notice'[n].state = "none" <=> notice[n].state = "none"
             /\ notice'[n].state = "pending" => notice[n].state = "pending"
             /\ notice[n].row # 0 => notice'[n].state = Linked(events'[notice[n].row].state)
  <2>0. notice[n] \in NoticeRow /\ IsTrue(n)
    BY <1>1
  <2>1. CASE ends(n)
    <3>1. notice'[n] = [notice[n] EXCEPT !.state = "failed"]
      BY <1>2, <2>1
    <3>2. /\ notice'[n] \in NoticeRow /\ notice'[n].row = notice[n].row
          /\ notice'[n].state = "failed"
      BY <2>0, <3>1 DEF NoticeRow, NoticeState
    <3>3. notice[n].row # 0 => Linked(events'[notice[n].row].state) = "failed"
      BY <2>1 DEF Linked
    <3> QED BY <2>1, <3>2, <3>3
  <2>2. CASE ~ends(n)
    <3>1. notice'[n] = notice[n]
      BY <1>2, <2>2
    <3>2. ASSUME notice[n].row # 0
          PROVE  notice[n].state = Linked(events'[notice[n].row].state)
      <4>1. /\ notice[n].row \in Row /\ State(notice[n].row) # "none"
            /\ notice[n].state = Linked(State(notice[n].row))
            /\ events[notice[n].row].binding = BindingOf(n)
        BY <2>0, <3>2 DEF NoticeRow, IsTrue
      <4>2. CASE events'[notice[n].row].state = State(notice[n].row)
        BY <4>1, <4>2
      <4>3. CASE /\ events[notice[n].row].binding = b /\ State(notice[n].row) = "pending"
                 /\ events'[notice[n].row].state = "dead"
        BY <2>2, <4>1, <4>3 DEF Linked
      <4> QED BY <1>3, <4>1, <4>2, <4>3
    <3> QED BY <2>0, <3>1, <3>2
  <2> QED BY <2>1, <2>2
<1> QED BY <1>2, <1>4 DEF Follow

LEMMA LinkedIsSome == ASSUME NEW state PROVE Linked(state) \in {"pending", "accepted", "failed"}
  BY DEF Linked

\* A notification with an event keeps its row and its route.
LEMMA LinkedStays ==
    ASSUME RInv, [RNext]_rvars, NEW n \in Notice, notice[n].row # 0
    PROVE  /\ notice[n].row \in Row /\ notice[n].state # "none" /\ State(notice[n].row) # "none"
           /\ events'[notice[n].row].state # "none"
           /\ events'[notice[n].row].binding = BindingOf(n)'
<1>1. notice[n] \in NoticeRow /\ IsTrue(n)
  BY DEF RInv, NoticesOK
<1>2. notice[n].row \in Row /\ State(notice[n].row) # "none" /\ notice[n].state # "none"
      /\ events[notice[n].row].binding = BindingOf(n)
  BY <1>1, LinkedIsSome DEF NoticeRow, IsTrue
<1>3. request[n[1]].state # "none"
  BY <1>2, NoticeHasRequest
<1>4. BindingOf(n)' = BindingOf(n)
  BY <1>3, BindingStays
<1> QED BY <1>2, <1>4, UsedRowStays

\* When the ledger is left alone, or a request is begun, the history stays.
LEMMA HistoryStays ==
    ASSUME RInv, NEW n \in Notice, updates' = updates
    PROVE  StateAt(n[1], n[2])' = StateAt(n[1], n[2])
<1>1. n[2] # 0
  BY NoticeIsOfRequest
<1> QED BY <1>1 DEF StateAt

LEMMA FollowKeeps ==
    ASSUME RInv, [RNext]_rvars, Follow, updates' = updates
    PROVE  NoticesOK' /\ RevisionsInOrder'
<1>1. NoticesOK /\ RevisionsInOrder
  BY DEF RInv
<1>2. ASSUME NEW n \in Notice PROVE IsAnnounced(n)'
  BY <1>1, <1>2, HistoryStays DEF NoticesOK, IsAnnounced, Follow
<1>3. ASSUME NEW n \in Notice PROVE IsTrue(n)'
  <2> SUFFICES ASSUME notice'[n].row # 0
               PROVE  /\ events'[notice'[n].row].state # "none"
                      /\ events'[notice'[n].row].binding = BindingOf(n)'
                      /\ notice'[n].state = Linked(events'[notice'[n].row].state)
    BY DEF IsTrue, State
  <2>1. notice'[n].row = notice[n].row
    BY DEF Follow
  <2> QED BY <2>1, LinkedStays DEF Follow
<1>4. RevisionsInOrder'
  BY <1>1 DEF RevisionsInOrder, Follow
<1>5. notice' \in [Notice -> NoticeRow]
  BY DEF Follow
<1> QED BY <1>2, <1>3, <1>4, <1>5 DEF NoticesOK

-----------------------------------------------------------------------------
(* An update and the notification it writes.                               *)

LEMMA UpdateKeeps ==
    ASSUME RInv, [RNext]_rvars, NEW r \in Request, NEW state \in RequestState, RequestUpdate(r, state)
    PROVE  NoticesOK' /\ RevisionsInOrder'
<1>1. /\ notice \in [Notice -> NoticeRow]
      /\ \A n \in Notice : IsAnnounced(n) /\ IsTrue(n)
      /\ RevisionsInOrder
  BY DEF RInv, NoticesOK
<1>2. /\ updates' = [updates EXCEPT ![r] = Append(@, state)]
      /\ events' = events
      /\ allowed_transition(request[r].state, state)
  BY DEF RequestUpdate, inbox, vars
<1>3. RequestOK(r) /\ RequestOK(r)' /\ DOMAIN updates = Request /\ DOMAIN request = Request
  BY LedgerNext, StepKeeps DEF RInv, LedgerInv
<1> DEFINE v == request[r].revision + 1
           new == <<r, v>>
<1>4. /\ updates'[r] = Append(updates[r], state)
      /\ \A q \in Request \ {r} : updates'[q] = updates[q]
  BY <1>2, <1>3
<1>5. /\ updates[r] \in Seq(RequestState \ {"none"}) /\ Len(updates[r]) = request[r].revision
      /\ request[r].revision \in Nat
  BY <1>3 DEF RequestOK
<1>6. /\ Len(updates'[r]) = v /\ updates'[r][v] = state
      /\ \A u \in 1..request[r].revision : updates'[r][u] = updates[r][u]
  <2>1. state # "none"
    BY <1>2, TransitionRises
  <2> QED BY <1>4, <1>5, <2>1
<1>7. v \in 1..3 /\ new \in Notice
  <2>1. request'[r].revision = v /\ request'[r].revision <= Ranked[request'[r].state]
        /\ request'[r].state \in RequestState
    BY <1>3, <1>6 DEF RequestOK
  <2>2. Ranked[request'[r].state] <= 3 /\ Ranked[request'[r].state] \in Nat
    BY <2>1 DEF Ranked, RequestState, Open, Terminal
  <2> QED BY <1>5, <2>1, <2>2 DEF Notice, Revision
<1>8. notice[new].state = "none" /\ notice[new].row = 0
  <2>1. ~(new[2] <= Len(updates[new[1]]))
    BY <1>5
  <2>2. notice[new].state = "none"
    BY <1>1, <1>7, <2>1 DEF IsAnnounced
  <2> QED BY <1>1, <1>7, <2>2, LinkedIsSome DEF IsTrue
<1>9. notice' = IF Announced(state) THEN [notice EXCEPT ![new].state = "pending"] ELSE notice
  BY DEF RequestUpdate
<1> HIDE DEF v, new
<1>10. /\ notice' \in [Notice -> NoticeRow]
       /\ \A n \in Notice \ {new} : notice'[n] = notice[n]
       /\ notice'[new].row = 0
       /\ notice'[new].state = IF Announced(state) THEN "pending" ELSE "none"
  <2>1. CASE Announced(state)
    BY <1>1, <1>7, <1>8, <1>9, <2>1 DEF NoticeRow, NoticeState
  <2>2. CASE ~Announced(state)
    BY <1>1, <1>8, <1>9, <2>2
  <2> QED BY <2>1, <2>2
<1>11. ASSUME NEW n \in Notice PROVE IsAnnounced(n)'
  <2>1. n[1] \in Request /\ n[2] \in 1..3 /\ n = <<n[1], n[2]>>
    BY DEF Notice, Revision
  <2>2. CASE n = new
    <3>1. n[1] = r /\ n[2] = v
      BY <2>2 DEF new
    <3>2. StateAt(n[1], n[2])' = state
      BY <1>6, <1>7, <3>1 DEF StateAt
    <3> QED BY <1>6, <1>7, <1>10, <2>2, <3>1, <3>2 DEF IsAnnounced, Announced
  <2>3. CASE n # new /\ n[1] # r
    <3>1. updates'[n[1]] = updates[n[1]]
      BY <1>4, <2>1, <2>3
    <3>2. StateAt(n[1], n[2])' = StateAt(n[1], n[2])
      BY <2>1, <3>1 DEF StateAt
    <3> QED BY <1>1, <1>10, <2>3, <3>1, <3>2 DEF IsAnnounced
  <2>4. CASE n # new /\ n[1] = r
    <3>1. n[2] # v
      BY <2>1, <2>4 DEF new
    <3>2. n[2] <= Len(updates[r]) <=> n[2] <= Len(updates'[r])
      BY <1>5, <1>6, <2>1, <3>1 DEF v
    <3>3. n[2] <= Len(updates[r]) => StateAt(n[1], n[2])' = StateAt(n[1], n[2])
      BY <1>5, <1>6, <2>1, <2>4 DEF StateAt
    <3> QED BY <1>1, <1>10, <2>4, <3>2, <3>3 DEF IsAnnounced
  <2> QED BY <2>2, <2>3, <2>4
<1>12. ASSUME NEW n \in Notice PROVE IsTrue(n)'
  <2>1. CASE n = new
    BY <1>10, <2>1 DEF IsTrue
  <2>2. CASE n # new
    <3>1. notice'[n] = notice[n]
      BY <1>10, <2>2
    <3> SUFFICES ASSUME notice[n].row # 0
                 PROVE  /\ events'[notice[n].row].state # "none"
                        /\ events'[notice[n].row].binding = BindingOf(n)'
                        /\ notice[n].state = Linked(events'[notice[n].row].state)
      BY <3>1 DEF IsTrue, State
    <3> QED BY <1>1, <1>2, LinkedStays DEF IsTrue, State
  <2> QED BY <2>1, <2>2
<1>13. RevisionsInOrder'
  <2> SUFFICES ASSUME NEW m \in Notice, NEW n \in Notice, m[1] = n[1], m[2] < n[2],
                      notice'[n].row # 0, notice'[m].state = "pending"
               PROVE  FALSE
    BY DEF RevisionsInOrder
  <2>1. n # new /\ notice'[n] = notice[n]
    BY <1>10
  <2>2. CASE m # new
    BY <1>1, <1>10, <2>1, <2>2 DEF RevisionsInOrder
  <2>3. CASE m = new
    <3>1. notice[n].state # "none"
      BY <2>1, LinkedStays
    <3>2. n[2] <= Len(updates[n[1]])
      BY <1>1, <3>1 DEF IsAnnounced
    <3>3. n[1] = r /\ m[2] = v
      BY <2>3 DEF new
    <3>4. n[2] \in Nat
      BY NoticeIsOfRequest
    <3> QED BY <1>5, <3>2, <3>3, <3>4 DEF v
  <2> QED BY <2>2, <2>3
<1> QED BY <1>10, <1>11, <1>12, <1>13 DEF NoticesOK

-----------------------------------------------------------------------------
(* The maintenance tick.                                                   *)

IsExpiryOf(gone, n) == n[1] \in gone /\ n[2] = request[n[1]].revision + 1

\* The outbox with the expiries of the tick: nothing else is new in it.
LEMMA TableOfTick ==
    ASSUME RInv, NEW gone, Maintain(gone), NEW table, table = WithExpiries(gone)
    PROVE  /\ table \in [Notice -> NoticeRow]
           /\ \A n \in Notice :
                IF IsExpiryOf(gone, n)
                THEN /\ table[n].state = "pending" /\ table[n].row = 0
                     /\ notice[n].state = "none" /\ notice[n].row = 0
                ELSE table[n] = notice[n]
<1>1. notice \in [Notice -> NoticeRow] /\ \A n \in Notice : IsAnnounced(n) /\ IsTrue(n)
  BY DEF RInv, NoticesOK
<1>2. table = [n \in Notice |-> IF IsExpiryOf(gone, n)
                 THEN [state |-> "pending", row |-> 0, nextAt |-> "due"] ELSE notice[n]]
  <2>1. Announced("expired")
    BY DEF Announced, Terminal
  <2>2. [NoNotice EXCEPT !.state = "pending"] = [state |-> "pending", row |-> 0, nextAt |-> "due"]
    BY DEF NoNotice
  <2> QED BY <2>1, <2>2 DEF WithExpiries, IsExpiryOf
<1>3. ASSUME NEW n \in Notice, IsExpiryOf(gone, n)
      PROVE  notice[n].state = "none" /\ notice[n].row = 0
  <2>1. n[1] \in Request /\ RequestOK(n[1])
    BY NoticeIsOfRequest DEF RInv, LedgerInv
  <2>2. ~(n[2] <= Len(updates[n[1]]))
    BY <1>3, <2>1 DEF IsExpiryOf, RequestOK
  <2> QED BY <1>1, <2>2, LinkedIsSome DEF IsAnnounced, IsTrue
<1>4. table \in [Notice -> NoticeRow]
  <2>1. [state |-> "pending", row |-> 0, nextAt |-> "due"] \in NoticeRow
    BY DEF NoticeRow, NoticeState
  <2> QED BY <1>1, <1>2, <2>1
<1> QED BY <1>2, <1>3, <1>4

\* The expiries are in the history and in the outbox.
LEMMA TickAnnounces ==
    ASSUME RInv, NEW gone, Maintain(gone), NEW table, table = WithExpiries(gone), NEW n \in Notice
    PROVE  table[n].state # "none" <=>
             n[2] <= Len(updates'[n[1]]) /\ StateAt(n[1], n[2])' \in {"in_progress"} \cup Terminal
<1> DEFINE r == n[1]
<1>1. r \in Request /\ n[2] \in 1..3 /\ RequestOK(r) /\ IsAnnounced(n)
  BY NoticeIsOfRequest DEF RInv, LedgerInv, NoticesOK
<1>2. updates'[r] = IF r \in gone THEN Append(updates[r], "expired") ELSE updates[r]
  BY <1>1 DEF Maintain
<1>3. IF IsExpiryOf(gone, n) THEN table[n].state = "pending" ELSE table[n] = notice[n]
  BY TableOfTick
<1>4. /\ updates[r] \in Seq(RequestState \ {"none"}) /\ Len(updates[r]) = request[r].revision
      /\ request[r].revision \in Nat
  BY <1>1 DEF RequestOK
<1> HIDE DEF r
<1>5. CASE r \notin gone
  <2>1. updates'[r] = updates[r] /\ table[n] = notice[n]
    BY <1>2, <1>3, <1>5 DEF IsExpiryOf, r
  <2>2. StateAt(n[1], n[2])' = StateAt(n[1], n[2])
    BY <1>1, <2>1 DEF StateAt, r
  <2> QED BY <1>1, <2>1, <2>2 DEF IsAnnounced, r
<1>6. CASE r \in gone
  <2>1. "expired" \in RequestState \ {"none"}
    BY DEF RequestState, Terminal
  <2>2. /\ Len(updates'[r]) = request[r].revision + 1
        /\ updates'[r][request[r].revision + 1] = "expired"
        /\ \A u \in 1..request[r].revision : updates'[r][u] = updates[r][u]
    BY <1>2, <1>4, <1>6, <2>1
  <2>3. CASE n[2] = request[r].revision + 1
    <3>1. StateAt(n[1], n[2])' = "expired"
      BY <1>1, <2>2, <2>3 DEF StateAt, r
    <3> QED BY <1>3, <1>4, <1>6, <2>2, <2>3, <3>1 DEF IsExpiryOf, Terminal, r
  <2>4. CASE n[2] # request[r].revision + 1
    <3>1. table[n] = notice[n]
      BY <1>3, <2>4 DEF IsExpiryOf, r
    <3>2. n[2] <= Len(updates[r]) <=> n[2] <= Len(updates'[r])
      BY <1>1, <1>4, <2>2, <2>4
    <3>3. n[2] <= Len(updates[r]) => StateAt(n[1], n[2])' = StateAt(n[1], n[2])
      BY <1>1, <1>4, <2>2 DEF StateAt, r
    <3> QED BY <1>1, <3>1, <3>2, <3>3 DEF IsAnnounced, r
  <2> QED BY <2>3, <2>4
<1> QED BY <1>5, <1>6

\* What becomes of a notification the tick takes.
LEMMA TakenIsTrue ==
    ASSUME RInv, NEW gone, Maintain(gone), [RNext]_rvars, NEW table, table = WithExpiries(gone),
           NEW batch, NEW made, Taken(batch, table), Makes(made, batch),
           NEW n \in batch, notice'[n] = Transferred(n, made, table[n])
    PROVE  /\ notice'[n] \in NoticeRow /\ notice'[n].state # "none"
           /\ IsTrue(n)'
<1>1. table[n] \in NoticeRow /\ table[n].state = "pending" /\ table[n].row = 0 /\ n \in Notice
  BY TableOfTick DEF Taken
<1>2. request[n[1]].state # "none" /\ BindingOf(n) \in Binding
  BY TakenHasBinding
<1>3. BindingOf(n)' = BindingOf(n)
  BY <1>1, <1>2, BindingStays
<1>4. /\ \A i \in Row : i \notin DOMAIN made => events'[i] = events[i]
      /\ \A i \in DOMAIN made : /\ i \in Row /\ events'[i].binding = BindingOf(made[i])
                                /\ events'[i].state = "pending" /\ State(i) = "none"
  BY RowsOfTick
<1> PICK old \in NoticeRow : old = table[n]
  BY <1>1
<1>7. ASSUME NEW i \in Row, IsEventOf(i, n), notice'[n] = [old EXCEPT !.row = i, !.state = Linked(State(i))]
      PROVE  notice'[n] \in NoticeRow /\ notice'[n].state # "none" /\ IsTrue(n)'
  <2>1. PICK s \in {"pending", "accepted", "failed"} : s = Linked(State(i))
    BY LinkedIsSome
  <2>2. notice'[n] = [old EXCEPT !.row = i, !.state = s]
    BY <1>7, <2>1
  <2>3. notice'[n] \in NoticeRow /\ notice'[n].state = s /\ notice'[n].row = i
    BY <2>2 DEF NoticeRow, NoticeState
  <2>4. events[i].binding = BindingOf(n)
    BY <1>7 DEF IsEventOf
  <2>5. State(i) # "none"
    BY <1>2, <2>4 DEF RInv, IInv, RowsInOrder
  <2>6. events'[i] = events[i]
    BY <1>4, <2>5
  <2> QED BY <1>3, <2>1, <2>3, <2>4, <2>5, <2>6 DEF IsTrue, State
<1>8. ASSUME NEW i \in DOMAIN made, made[i] = n, notice'[n] = [old EXCEPT !.row = i]
      PROVE  notice'[n] \in NoticeRow /\ notice'[n].state # "none" /\ IsTrue(n)'
  <2>1. i \in Row /\ events'[i].binding = BindingOf(n) /\ events'[i].state = "pending"
    BY <1>4, <1>8
  <2>2. notice'[n] \in NoticeRow /\ notice'[n].state = "pending" /\ notice'[n].row = i
    BY <1>1, <1>8, <2>1 DEF NoticeRow
  <2> QED BY <1>3, <2>1, <2>2 DEF IsTrue, State, Linked
<1>9. \/ notice'[n] = [old EXCEPT !.state = "failed"]
      \/ notice'[n] = [old EXCEPT !.nextAt = "waiting"]
      \/ \E i \in Row : IsEventOf(i, n) /\ notice'[n] = [old EXCEPT !.row = i, !.state = Linked(State(i))]
      \/ \E i \in DOMAIN made : made[i] = n /\ notice'[n] = [old EXCEPT !.row = i]
  <2>1. CASE route[BindingOf(n)] = "removed"
    BY <2>1, Zenon DEF Transferred
  <2>2. CASE route[BindingOf(n)] # "removed" /\ \E i \in Row : IsEventOf(i, n)
    <3> DEFINE i == CHOOSE i \in Row : IsEventOf(i, n)
    <3>1. i \in Row /\ IsEventOf(i, n)
      BY <2>2, Zenon
    <3>2. notice'[n] = [old EXCEPT !.row = i, !.state = Linked(State(i))]
      BY <2>2, Zenon DEF Transferred
    <3> QED BY <3>1, <3>2, Zenon
  <2>3. CASE /\ route[BindingOf(n)] # "removed" /\ ~ \E i \in Row : IsEventOf(i, n)
             /\ \E i \in DOMAIN made : made[i] = n
    <3> DEFINE i == CHOOSE i \in DOMAIN made : made[i] = n
    <3>1. i \in DOMAIN made /\ made[i] = n
      BY <2>3, Zenon
    <3>2. notice'[n] = [old EXCEPT !.row = i]
      BY <2>3, Zenon DEF Transferred
    <3> QED BY <3>1, <3>2, Zenon
  <2>4. CASE /\ route[BindingOf(n)] # "removed" /\ ~ \E i \in Row : IsEventOf(i, n)
             /\ ~ \E i \in DOMAIN made : made[i] = n
    BY <2>4, Zenon DEF Transferred
  <2> QED BY <2>1, <2>2, <2>3, <2>4, Zenon
<1>10. CASE notice'[n] = [old EXCEPT !.state = "failed"] \/ notice'[n] = [old EXCEPT !.nextAt = "waiting"]
  <2>1. notice'[n] \in NoticeRow /\ notice'[n].state # "none" /\ notice'[n].row = 0
    BY <1>1, <1>10 DEF NoticeRow, NoticeState
  <2> QED BY <2>1 DEF IsTrue
<1> QED BY <1>7, <1>8, <1>9, <1>10

LEMMA MaintainKeeps ==
    ASSUME RInv, [RNext]_rvars, NEW gone, Maintain(gone)
    PROVE  NoticesOK' /\ RevisionsInOrder'
<1> PICK table : table = WithExpiries(gone)
  OBVIOUS
<1>1. PICK batch, made :
        /\ Taken(batch, table) /\ Makes(made, batch)
        /\ notice' = [n \in Notice |-> IF n \in batch
                 THEN Transferred(n, made, table[n]) ELSE table[n]]
  BY MaintainTicks DEF Ticks
<1>2. table \in [Notice -> NoticeRow]
  BY TableOfTick
<1>3. ASSUME NEW n \in Notice
      PROVE  IF IsExpiryOf(gone, n)
             THEN /\ table[n].state = "pending" /\ table[n].row = 0
                  /\ notice[n].state = "none" /\ notice[n].row = 0
             ELSE table[n] = notice[n]
  BY TableOfTick
<1>4. \A i \in Row : State(i) # "none" => events'[i] = events[i]
  BY <1>1, RowsOfTick
<1>5. ASSUME NEW n \in Notice, n \in batch
      PROVE  notice'[n] \in NoticeRow /\ notice'[n].state # "none" /\ IsTrue(n)' /\ table[n].state = "pending"
  <2>1. notice'[n] = Transferred(n, made, table[n])
    BY <1>1, <1>5
  <2> QED BY <1>1, <1>5, <2>1, TakenIsTrue DEF Taken
<1>6. ASSUME NEW n \in Notice, n \notin batch
      PROVE  notice'[n] = table[n] /\ IsTrue(n)'
  <2>1. notice'[n] = table[n]
    BY <1>1, <1>6
  <2> SUFFICES ASSUME table[n].row # 0
               PROVE  /\ events'[table[n].row].state # "none"
                      /\ events'[table[n].row].binding = BindingOf(n)'
                      /\ table[n].state = Linked(events'[table[n].row].state)
    BY <2>1 DEF IsTrue, State
  <2>2. table[n] = notice[n] /\ notice[n].row # 0
    BY <1>3
  <2>3. IsTrue(n)
    BY DEF RInv, NoticesOK
  <2> QED BY <1>4, <2>2, <2>3, LinkedStays DEF IsTrue, State
<1>7. notice' \in [Notice -> NoticeRow]
  BY <1>1, <1>2, <1>5, <1>6
<1>8. ASSUME NEW n \in Notice PROVE IsAnnounced(n)'
  <2>1. notice'[n].state # "none" <=> table[n].state # "none"
    BY <1>5, <1>6
  <2> QED BY <2>1, TickAnnounces DEF IsAnnounced
<1>9. RevisionsInOrder'
  <2> SUFFICES ASSUME NEW m \in Notice, NEW n \in Notice, m[1] = n[1], m[2] < n[2],
                      notice'[n].row # 0, notice'[m].state = "pending"
               PROVE  FALSE
    BY DEF RevisionsInOrder
  <2>1. table[m].state = "pending"
    BY <1>5, <1>6
  <2>2. m[2] \in Nat /\ n[2] \in Nat
    BY NoticeIsOfRequest
  <2>3. n \notin batch
    BY <1>1, <2>1, <2>2 DEF Taken
  <2>4. notice[n].row # 0 /\ notice[n].state # "none"
    BY <1>3, <1>6, <2>3, LinkedStays
  <2>5. CASE IsExpiryOf(gone, m)
    <3>1. n[2] <= Len(updates[n[1]]) /\ RequestOK(n[1])
      BY <2>4, NoticeIsOfRequest DEF RInv, NoticesOK, IsAnnounced, LedgerInv
    <3> QED BY <2>2, <2>5, <3>1 DEF IsExpiryOf, RequestOK
  <2>6. CASE ~IsExpiryOf(gone, m)
    <3>1. notice[m].state = "pending"
      BY <1>3, <2>1, <2>6
    <3> QED BY <2>4, <3>1 DEF RInv, RevisionsInOrder
  <2> QED BY <2>5, <2>6
<1> QED BY <1>5, <1>6, <1>7, <1>8, <1>9 DEF NoticesOK

-----------------------------------------------------------------------------
(* The theorems about the outbox.                                          *)

LEMMA RInvInit == RInit => RInv
<1> SUFFICES ASSUME RInit PROVE RInv
  OBVIOUS
<1>1. IInv
  BY InvInit DEF RInit
<1>2. ASSUME NEW r \in Request PROVE RequestOK(r) /\ HasParent(r)
  BY <1>2 DEF RInit, RequestOK, NoRequest, RequestState, Ranked, HasParent
<1>3. LedgerInv
  BY <1>2 DEF RInit, LedgerInv
<1>4. expiry \in [Request -> {"never", "later", "due"}]
  BY DEF RInit
<1>5. \A n \in Notice : notice[n] = NoNotice /\ Len(updates[n[1]]) = 0
  BY NoticeIsOfRequest DEF RInit
<1>6. NoticesOK
  <2>1. NoNotice \in NoticeRow /\ NoNotice.state = "none" /\ NoNotice.row = 0
    BY DEF NoNotice, NoticeRow, NoticeState
  <2>2. notice \in [Notice -> NoticeRow]
    BY <2>1 DEF RInit
  <2>3. ASSUME NEW n \in Notice PROVE IsAnnounced(n) /\ IsTrue(n)
    BY <1>5, <2>1, NoticeIsOfRequest DEF IsAnnounced, IsTrue
  <2> QED BY <2>2, <2>3 DEF NoticesOK
<1>7. RevisionsInOrder
  BY <1>5 DEF RevisionsInOrder, NoNotice
<1> QED BY <1>1, <1>2, <1>3, <1>4, <1>6, <1>7 DEF RInv

LEMMA ExpiryTyped ==
    ASSUME RInv, [RNext]_rvars
    PROVE  expiry' \in [Request -> {"never", "later", "due"}]
<1>1. expiry \in [Request -> {"never", "later", "due"}]
  BY DEF RInv
<1>2. ASSUME NEW r \in Request, RequestStep(r) PROVE expiry' \in [Request -> {"never", "later", "due"}]
  BY <1>1, <1>2 DEF RequestStep, RequestCreate, RequestUpdate, ExpiryComes
<1>3. CASE UNCHANGED expiry
  BY <1>1, <1>3
<1> QED BY <1>2, <1>3 DEF RNext, Maintenance, Maintain, NoticeComes, Finish, ClaimAndSettle,
        RemoveAndSettle, ledger, rvars

LEMMA NoticesNext ==
    ASSUME RInv, [RNext]_rvars
    PROVE  NoticesOK' /\ RevisionsInOrder'
<1>1. ASSUME Follow, updates' = updates PROVE NoticesOK' /\ RevisionsInOrder'
  BY <1>1, FollowKeeps
<1>2. ASSUME UNCHANGED <<events, notice, updates>> PROVE NoticesOK' /\ RevisionsInOrder'
  BY <1>1, <1>2, UnchangedFollow DEF State
<1>3. ASSUME NEW r \in Request, RequestStep(r) PROVE NoticesOK' /\ RevisionsInOrder'
  <2>1. ASSUME NEW i \in Row, NEW deadline, RequestCreate(r, i, deadline)
        PROVE  UNCHANGED <<events, notice, updates>>
    BY <2>1 DEF RequestCreate, inbox, vars
  <2>2. ASSUME ExpiryComes(r) PROVE UNCHANGED <<events, notice, updates>>
    BY <2>2 DEF ExpiryComes, inbox, vars
  <2> QED BY <1>2, <1>3, <2>1, <2>2, UpdateKeeps DEF RequestStep
<1>4. ASSUME NEW gone, Maintain(gone) PROVE NoticesOK' /\ RevisionsInOrder'
  BY <1>4, MaintainKeeps
<1>5. ASSUME NEW n \in Notice, NoticeComes(n) PROVE NoticesOK' /\ RevisionsInOrder'
  <2>1. updates' = updates
    BY <1>5 DEF NoticeComes, ledger
  <2> QED BY <1>1, <1>5, <2>1, ComesFollow
<1>6. ASSUME NEW i \in Row, Finish(i) PROVE NoticesOK' /\ RevisionsInOrder'
  <2>1. updates' = updates
    BY <1>6 DEF Finish, ledger
  <2> QED BY <1>1, <1>6, <2>1, FinishFollow
<1>7. ASSUME NEW gone \in SUBSET Row, ClaimAndSettle(gone) PROVE NoticesOK' /\ RevisionsInOrder'
  <2>1. updates' = updates
    BY <1>7 DEF ClaimAndSettle, ledger
  <2> QED BY <1>1, <1>7, <2>1, ClaimFollow
<1>8. ASSUME NEW b \in Binding, RemoveAndSettle(b) PROVE NoticesOK' /\ RevisionsInOrder'
  <2>1. updates' = updates
    BY <1>8 DEF RemoveAndSettle, ledger
  <2> QED BY <1>1, <1>8, <2>1, RemoveFollow
<1>9. ASSUME InboxOnly, UNCHANGED <<ledger, notice>> PROVE NoticesOK' /\ RevisionsInOrder'
  <2>1. updates' = updates /\ notice' = notice
    BY <1>9 DEF ledger
  <2>2. Follow
    BY <1>9, <2>1, QuietRows, UnchangedFollow
  <2> QED BY <1>1, <2>1, <2>2
<1>10. ASSUME UNCHANGED rvars PROVE NoticesOK' /\ RevisionsInOrder'
  <2>1. UNCHANGED <<events, notice, updates>>
    BY <1>10 DEF rvars, vars, ledger
  <2> QED BY <1>2, <2>1
<1> QED BY <1>3, <1>4, <1>5, <1>6, <1>7, <1>8, <1>9, <1>10 DEF RNext, Maintenance

LEMMA RInvNext == RInv /\ [RNext]_rvars => RInv'
<1> SUFFICES ASSUME RInv, [RNext]_rvars PROVE RInv'
  OBVIOUS
<1>1. IInv'
  BY InboxNext
<1>2. LedgerInv'
  BY LedgerNext, StepKeeps DEF RInv, LedgerMoves, LedgerInv
<1>3. \A r \in Request : HasParent(r)'
  BY ParentStays
<1> QED BY <1>1, <1>2, <1>3, ExpiryTyped, NoticesNext DEF RInv

\* Inbox, ledger and outbox agree in every state.
THEOREM InboxAndLedgerAgree == RSpec => []RInv
  BY RInvInit, RInvNext, PTL DEF RSpec

\* The maintenance tick writes events past the intake, several in one
\* transaction; the inbox still takes each once, in order, and tells the truth.
THEOREM InboxKeepsItsWord ==
    RSpec => [](AtMostOnce /\ FirstInFirstOut /\ NothingTakenIsGivenUp /\ AcceptedIsPlaced)
<1>1. IInv => FirstInFirstOut /\ NothingTakenIsGivenUp /\ AcceptedIsPlaced
  BY DEF IInv
<1>2. IInv => AtMostOnce
  <2> SUFFICES ASSUME IInv, NEW p \in DOMAIN placed, NEW q \in DOMAIN placed,
                      SameEvent(placed[p], placed[q])
               PROVE  p = q
    BY DEF AtMostOnce
  <2>1. placed[p] \in Row /\ placed[q] \in Row /\ IsPlaced(placed[p])
    BY DEF IInv, TypeOK, IsPlaced
  <2>2. State(placed[p]) # "none"
    BY <2>1 DEF IInv, NothingTakenIsGivenUp, InFlight
  <2>3. placed[p] = placed[q]
    BY <2>1, <2>2 DEF IInv, RowsInOrder
  <2> QED BY <2>3 DEF IInv, PlacedOnce
<1>3. RInv => IInv
  BY DEF RInv
<1> QED BY <1>1, <1>2, <1>3, InboxAndLedgerAgree, PTL

\* A tick receives the events it makes, all in one transaction.
LEMMA TickRefines ==
    ASSUME RInv, NEW gone, Maintain(gone)
    PROVE  Promise!Next
<1>1. PICK batch, made : Taken(batch, WithExpiries(gone)) /\ Makes(made, batch)
  BY MaintainTicks DEF Ticks
<1> DEFINE S == DOMAIN made
           stages == [i \in S |-> "open"]
           lanes == [i \in S |-> BindingOf(made[i])]
<1>2. /\ \A i \in Row : i \notin S => events'[i] = events[i]
      /\ \A i \in S : /\ i \in Row /\ State(i) = "none" /\ events'[i].state = "pending"
                      /\ events'[i].binding = BindingOf(made[i]) /\ BindingOf(made[i]) \in Binding
  BY <1>1, RowsOfTick
<1>3. \A i \in S, j \in Row : j < i => j \in S \/ State(j) # "none"
  BY <1>1 DEF Makes
<1> HIDE DEF S
<1>4. S \in SUBSET Row
  BY <1>2
<1>5. /\ \A i \in S : Stages[i] = "none"
      /\ \A i \in S, j \in Row : j < i => j \in S \/ Stages[j] # "none"
  <2>1. \A j \in Row : State(j) # "none" => DeliveryStage(State(j)) # "none"
    BY DEF DeliveryStage
  <2> QED BY <2>1, <1>2, <1>3, StageValues DEF Stages
<1>6. /\ stages \in [S -> {"open", "ignored"}] /\ lanes \in [S -> Binding]
      /\ Stages' = [i \in Row |-> IF i \in S THEN stages[i] ELSE Stages[i]]
      /\ Lanes' = [i \in Row |-> IF i \in S THEN lanes[i] ELSE Lanes[i]]
  BY <1>2, StageValues DEF Stages, Lanes, State
<1>7. placed' = placed
  BY DEF Maintain, native
<1> HIDE DEF stages, lanes
<1>8. Promise!Receive(S)
  BY <1>5, <1>6, <1>7 DEF Promise!Receive, Stages, Lanes
<1> QED BY <1>4, <1>8 DEF Promise!Next

\* The inbox keeps the whole promise of Delivery although the maintenance tick
\* writes into it: each step is one of Delivery's, or none.
THEOREM Refines == RSpec => KeepsItsPromise
<1>1. RInit => Promise!Init
  BY RefinesInit DEF RInit
<1>2. RInv /\ [RNext]_rvars => [Promise!Next]_(Promise!vars)
  <2> SUFFICES ASSUME RInv, [RNext]_rvars
               PROVE  [Promise!Next]_(Promise!vars)
    OBVIOUS
  <2>1. CASE [Next]_vars
    BY <2>1, RefinesNext DEF RInv
  <2>2. CASE Maintenance
    BY <2>2, TickRefines DEF Maintenance
  <2> QED BY <2>1, <2>2, InboxSteps
<1> QED BY <1>1, <1>2, InboxAndLedgerAgree, PTL DEF RSpec, KeepsItsPromise, Promise!Spec

\* Every revision that is not quiet has its notification, and no other has: an
\* update or expiry and its notification are one transaction.
THEOREM UpdatesAreAnnounced == RSpec => []LedgerIsAnnounced
<1>1. RInv => LedgerIsAnnounced
  <2> SUFFICES ASSUME RInv, NEW r \in Request
               PROVE  /\ request[r].revision = Len(updates[r])
                      /\ request[r].state # "none" => request[r].state = StateAt(r, Len(updates[r]))
                      /\ \A v \in Revision : notice[<<r, v>>].state # "none" <=>
                             v <= Len(updates[r]) /\ StateAt(r, v) \in {"in_progress"} \cup Terminal
    BY DEF LedgerIsAnnounced
  <2>1. RequestOK(r)
    BY DEF RInv, LedgerInv
  <2>2. ASSUME NEW v \in Revision
        PROVE  notice[<<r, v>>].state # "none" <=>
                   v <= Len(updates[r]) /\ StateAt(r, v) \in {"in_progress"} \cup Terminal
    <3>1. PICK n \in Notice : n = <<r, v>>
      BY DEF Notice
    <3>2. IsAnnounced(n)
      BY DEF RInv, NoticesOK
    <3> QED BY <3>1, <3>2 DEF IsAnnounced
  <2> QED BY <2>1, <2>2 DEF RequestOK
<1> QED BY <1>1, InboxAndLedgerAgree, PTL

\* A notification is accepted or failed exactly when its event is, whichever
\* transaction settled the event.
THEOREM NoticesAreTrue == RSpec => []NoticeTellsTruth
<1>1. RInv => NoticeTellsTruth
  <2> SUFFICES ASSUME RInv, NEW n \in Notice, notice[n].row # 0
               PROVE  CASE notice[n].state = "accepted" -> State(notice[n].row) = "accepted"
                        [] notice[n].state = "failed" -> State(notice[n].row) = "dead"
                        [] OTHER -> State(notice[n].row) \in {"pending", "ignored"} \cup InFlight
    BY DEF NoticeTellsTruth
  <2>1. /\ notice[n] \in NoticeRow /\ IsTrue(n)
    BY DEF RInv, NoticesOK
  <2>2. /\ notice[n].row \in Row /\ State(notice[n].row) # "none"
        /\ notice[n].state = Linked(State(notice[n].row))
    BY <2>1 DEF NoticeRow, IsTrue
  <2>3. State(notice[n].row) \in EventState
    BY <2>2 DEF RInv, IInv, TypeOK, EventRow, State
  <2>4. CASE State(notice[n].row) = "accepted"
    <3>1. notice[n].state = "accepted"
      BY <2>2, <2>4 DEF Linked
    <3> QED BY <2>4, <3>1
  <2>5. CASE State(notice[n].row) = "dead"
    <3>1. notice[n].state = "failed"
      BY <2>2, <2>5 DEF Linked
    <3> QED BY <2>5, <3>1
  <2>6. CASE State(notice[n].row) \notin {"accepted", "dead"}
    <3>1. notice[n].state = "pending"
      BY <2>2, <2>6 DEF Linked
    <3>2. State(notice[n].row) \in {"pending", "ignored"} \cup InFlight
      BY <2>2, <2>3, <2>6 DEF EventState, Settled
    <3> QED BY <3>1, <3>2
  <2> QED BY <2>4, <2>5, <2>6
<1> QED BY <1>1, InboxAndLedgerAgree, PTL

\* No revision becomes an event before the earlier ones of its request are
\* settled.
THEOREM RevisionsWaitForEarlier == RSpec => []RevisionsInOrder
<1>1. RInv => RevisionsInOrder
  BY DEF RInv
<1> QED BY <1>1, InboxAndLedgerAgree, PTL
=============================================================================
