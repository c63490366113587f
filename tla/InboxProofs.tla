---------------------------- MODULE InboxProofs ----------------------------
(***************************************************************************)
(* Proofs about Inbox for every set of routes, every number of rows, jobs,  *)
(* attempts and crashes.                                                    *)
(***************************************************************************)
EXTENDS Inbox, TLAPS

\* The constant sets a row is made of.
LEMMA StateFacts ==
    /\ InFlight \subseteq EventState
    /\ Settled \subseteq EventState
    /\ InFlight \cap Settled = {}
    /\ "pending" \in EventState \ (InFlight \cup Settled)
    /\ "none" \in EventState \ (InFlight \cup Settled)
BY DEF EventState, InFlight, Settled

LEMMA TypeInit == Init => TypeOK
BY InboxConstants DEF Init, TypeOK, RouteState, EventRow, NoRow, EventState, NextAt, JobState, Row

\* A row stays a row when its state and its due time are written.
LEMMA RowWritten ==
    ASSUME TypeOK, NEW i \in Row, NEW s \in EventState, NEW t \in NextAt
    PROVE  /\ events[i] \in EventRow
           /\ [events[i] EXCEPT !.state = s] \in EventRow
           /\ [events[i] EXCEPT !.state = s, !.nextAt = t] \in EventRow
<1>1. events[i] \in EventRow
    BY DEF TypeOK
<1>2. [events[i] EXCEPT !.state = s] \in EventRow
    BY <1>1, SMTT(60) DEF EventRow
<1>3. ASSUME NEW row \in EventRow PROVE [row EXCEPT !.nextAt = t] \in EventRow
    BY SMTT(60) DEF EventRow
<1>4. [events[i] EXCEPT !.state = s, !.nextAt = t]
          = [[events[i] EXCEPT !.state = s] EXCEPT !.nextAt = t]
    BY <1>1, SMT DEF EventRow
<1>. QED
    BY <1>1, <1>2, <1>3, <1>4, Zenon

LEMMA ExpiryIsTyped ==
    ASSUME TypeOK, NEW gone PROVE AfterExpiry(gone) \in [Row -> EventRow]
<1>1. "dead" \in EventState /\ "fresh" \in NextAt
    BY DEF EventState, Settled, NextAt
<1>2. ASSUME NEW i \in Row
      PROVE  [events[i] EXCEPT !.state = "dead"] \in EventRow /\ events[i] \in EventRow
    BY <1>1, RowWritten
<1>. QED
    BY <1>2 DEF AfterExpiry

LEMMA TypeNext == TypeOK /\ [Next]_vars => TypeOK'
<1> SUFFICES ASSUME TypeOK, [Next]_vars PROVE TypeOK'
    OBVIOUS
<1> USE InboxConstants
<1>1. ASSUME NEW b \in Binding, Bind(b) PROVE TypeOK'
    BY <1>1 DEF TypeOK, Bind, native, RouteState
<1>2. ASSUME NEW b \in Binding, NEW to \in RouteState, PauseOrResume(b, to) PROVE TypeOK'
    BY <1>2 DEF TypeOK, PauseOrResume, native
<1>3. ASSUME NEW b \in Binding, RemoveRoute(b) PROVE TypeOK'
    <2>1. "dead" \in EventState /\ "fresh" \in NextAt
        BY DEF EventState, Settled, NextAt
    <2>2. \A i \in Row : /\ events[i] \in EventRow
                         /\ [events[i] EXCEPT !.state = "dead", !.nextAt = "fresh"] \in EventRow
        BY <2>1, RowWritten
    <2>3. SettledByRemoval(b) \in [Row -> EventRow]
        BY <2>2 DEF SettledByRemoval, SettledByRemovalWhen
    <2>. QED
        BY <1>3, <2>3 DEF TypeOK, RemoveRoute, native, RouteState
<1>4. ASSUME NEW b \in Binding, RemoveWatch(b) PROVE TypeOK'
    BY <1>4 DEF TypeOK, RemoveWatch, native, RouteState
<1>5. ASSUME NEW b \in Binding, NEW k \in EventId, NEW s \in EventState, Ingest(b, k, s)
      PROVE TypeOK'
    <2> DEFINE row == [NoRow EXCEPT !.binding = b, !.key = k, !.state = s]
    <2>1. row \in EventRow
        BY DEF NoRow, EventRow, NextAt
    <2>2. PICK i \in Free : events' = [events EXCEPT ![i] = row]
        BY <1>5 DEF Ingest
    <2>3. events' \in [Row -> EventRow]
        BY <2>1, <2>2 DEF TypeOK, Free
    <2>. QED
        BY <1>5, <2>3 DEF TypeOK, Ingest, native
<1>6. ASSUME NEW gone \in SUBSET Row, ClaimNothing(gone) PROVE TypeOK'
    BY <1>6, ExpiryIsTyped DEF TypeOK, ClaimNothing, native
<1>7. ASSUME NEW gone \in SUBSET Row, NEW i \in Row, Claim(gone, i) PROVE TypeOK'
    <2> DEFINE mid == AfterExpiry(gone)
    <2>1. mid \in [Row -> EventRow]
        BY ExpiryIsTyped
    <2>2. events' = [mid EXCEPT ![i] = [mid[i] EXCEPT !.state = "submitting",
                                          !.attempts = mid[i].attempts + 1]]
        BY <1>7, <2>1, Zenon DEF Claim
    <2>3. [mid[i] EXCEPT !.state = "submitting", !.attempts = mid[i].attempts + 1] \in EventRow
        <3>1. mid[i] \in EventRow /\ mid[i].attempts + 1 \in Nat
            BY <2>1 DEF EventRow
        <3>. QED
            BY <3>1 DEF EventRow, EventState, InFlight
    <2>4. events' \in [Row -> EventRow]
        BY <2>1, <2>2, <2>3
    <2>5. job' \in [Row -> JobState]
        BY <1>7 DEF TypeOK, Claim, JobState
    <2>. QED
        BY <1>7, <2>4, <2>5 DEF TypeOK, Claim, native
<1>8. ASSUME NEW i \in Row, DeliverStep(i) PROVE TypeOK'
    <2> USE DEF TypeOK
    <2>1. ASSUME NEW row \in EventRow, DoneWith(i, row) PROVE TypeOK'
        BY <2>1 DEF DoneWith, native, JobState
    <2>2. ASSUME NEW outcome \in Outcome, Preflight(i, outcome) PROVE TypeOK'
        BY <2>2 DEF Preflight, store, native, JobState
    <2>3. CASE Submit(i)
        BY <2>3 DEF Submit, store, JobState
    <2>4. CASE LoseAnswer(i)
        BY <2>4 DEF LoseAnswer, Unanswered, store, native, JobState, Outcome
    <2>5. CASE FinishSettled(i)
        BY <2>1, <2>5 DEF FinishSettled, EventRow, EventState, Settled, NextAt
    <2>6. CASE FinishRetryable(i)
        <3>1. RetryOf(events[i]) \in EventRow
            BY DEF RetryOf, EventRow, EventState, Settled, NextAt
        <3>. QED
            BY <2>1, <2>6, <3>1 DEF FinishRetryable
    <2>7. CASE FinishUncertain(i)
        BY <2>1, <2>7 DEF FinishUncertain, HeldAfter, EventRow, EventState, InFlight, NextAt
    <2>8. CASE DeferUnavailable(i)
        <3> DEFINE row == [events[i] EXCEPT !.state = "pending", !.nextAt = "waiting",
                               !.attempts = OneFewer(@)]
        <3>1. events[i] \in EventRow /\ OneFewer(events[i].attempts) \in Nat
            BY DEF EventRow, OneFewer
        <3>2. row \in EventRow
            BY <3>1 DEF EventRow, EventState, NextAt
        <3>. QED
            BY <2>1, <2>8, <3>2 DEF DeferUnavailable
    <2>. QED
        BY <1>8, <2>2, <2>3, <2>4, <2>5, <2>6, <2>7, <2>8 DEF DeliverStep
<1>9. ASSUME NEW i \in Row, ReconcileStep(i) PROVE TypeOK'
    <2>1. CASE Inspect(i)
        BY <2>1 DEF TypeOK, Inspect, store, native
    <2>2. CASE ReconcileAccept(i)
        <3>1. "accepted" \in EventState /\ "fresh" \in NextAt
            BY DEF EventState, Settled, NextAt
        <3>2. [events[i] EXCEPT !.state = "accepted", !.nextAt = "fresh"] \in EventRow
            BY <3>1, RowWritten
        <3>3. events' \in [Row -> EventRow]
            BY <2>2, <3>2 DEF TypeOK, ReconcileAccept
        <3>. QED
            BY <2>2, <3>3 DEF TypeOK, ReconcileAccept, native
    <2>. QED
        BY <1>9, <2>1, <2>2 DEF ReconcileStep
<1>10. ASSUME NEW i \in Row, NativeStep(i) PROVE TypeOK'
    <2>1. ASSUME NEW outcome \in Outcome PROVE Answer(i, outcome) \in [Row -> JobState]
        BY DEF TypeOK, Answer, JobState
    <2>2. CASE NativeAccept(i)
        BY <2>1, <2>2 DEF TypeOK, NativeAccept, store, Outcome
    <2>3. ASSUME NEW outcome \in Outcome, NativeRefuse(i, outcome) PROVE TypeOK'
        BY <2>1, <2>3 DEF TypeOK, NativeRefuse, store
    <2>4. CASE NativeForget(i)
        BY <2>4 DEF TypeOK, NativeForget, store
    <2>. QED
        BY <1>10, <2>2, <2>3, <2>4 DEF NativeStep
<1>11. ASSUME GrowOld PROVE TypeOK'
    BY <1>11 DEF TypeOK, GrowOld, store, native
<1>12. ASSUME NEW i \in Row, BackoffElapses(i) PROVE TypeOK'
    BY <1>12 DEF TypeOK, BackoffElapses, native, EventRow, NextAt
<1>13. ASSUME Die PROVE TypeOK'
    BY <1>13 DEF TypeOK, Die, store, native, JobState
<1>14. ASSUME Start PROVE TypeOK'
    <2>1. "uncertain" \in EventState /\ "due" \in NextAt
        BY DEF EventState, InFlight, NextAt
    <2>2. \A i \in Row : /\ events[i] \in EventRow
                         /\ [events[i] EXCEPT !.state = "uncertain", !.nextAt = "due"] \in EventRow
        BY <2>1, RowWritten
    <2>3. \A i \in Row : Recovered(events[i]) \in EventRow
        BY <2>2 DEF Recovered
    <2>. QED
        BY <1>14, <2>3 DEF TypeOK, Start, native
<1>15. CASE UNCHANGED vars
    BY <1>15 DEF TypeOK, vars, native
<1>. QED
    BY <1>1, <1>2, <1>3, <1>4, <1>5, <1>6, <1>7, <1>8, <1>9, <1>10, <1>11, <1>12, <1>13,
       <1>14, <1>15 DEF Next, RouteStep, Dispatch

\* Every column keeps the type the schema and the code give it.
THEOREM TypeCorrect == Spec => []TypeOK
<1>1. Init => TypeOK
    BY TypeInit
<1>2. TypeOK /\ [Next]_vars => TypeOK'
    BY TypeNext
<1>. QED
    BY <1>1, <1>2, PTL DEF Spec

-----------------------------------------------------------------------------
(* What one step can do to one row.                                        *)

Move(i) ==
    LET old == events[i].state
        new == events'[i].state
        spent == events[i].attempts
        spentNow == events'[i].attempts
    IN  \/ new = old /\ spentNow = spent
        \/ old = "none" /\ new \in {"pending", "ignored"} /\ spentNow = 0
        \/ old = "pending" /\ new = "dead"
        \/ /\ old = "pending" /\ new = "submitting" /\ spentNow = spent + 1
           /\ \A j \in Earlier(i) : events'[j].state \in Settled
        \/ /\ old = "submitting" /\ new = "pending" /\ spentNow < MaxAttempts
           /\ job[i] \in {"unavailable", "retryable"}
        \/ old = "submitting" /\ new = "dead" /\ job[i] \in {"permanent", "retryable"}
        \/ old \in InFlight /\ new = "accepted" /\ IsPlaced(i)
        \/ old = "submitting" /\ new = "uncertain" /\ spentNow = spent

Moves == \A i \in Row : Move(i)

\* A row other than the one an action writes keeps its columns.
LEMMA UntouchedMoves ==
    ASSUME NEW i \in Row, events'[i] = events[i]
    PROVE  Move(i)
BY DEF Move

LEMMA DoneWithMoves ==
    ASSUME TypeOK, NEW i \in Row, NEW row, DoneWith(i, row)
    PROVE  events'[i] = row /\ \A j \in Row \ {i} : events'[j] = events[j]
BY DEF TypeOK, DoneWith

LEMMA ClaimMoves ==
    ASSUME IInv, NEW gone \in SUBSET Row, NEW i \in Row, Claim(gone, i)
    PROVE  Moves
<1> DEFINE mid == AfterExpiry(gone)
<1>1. TypeOK
    BY DEF IInv
<1>2. mid \in [Row -> EventRow]
    BY <1>1, ExpiryIsTyped
<1>3. i \in Eligible(gone) /\ i \notin gone /\ State(i) = "pending"
    BY DEF Claim, First, Eligible, IsClaimable
<1>4. events' = [mid EXCEPT ![i] = [mid[i] EXCEPT !.state = "submitting",
                                      !.attempts = mid[i].attempts + 1]]
    BY <1>2, Zenon DEF Claim
<1>5. events'[i].state = "submitting" /\ events'[i].attempts = events[i].attempts + 1
    BY <1>2, <1>3, <1>4 DEF AfterExpiry, EventRow
<1>6. \A j \in gone : State(j) = "pending" /\ events'[j].state = "dead"
    <2> TAKE j \in gone
    <2>1. j \in Eligible({k \in gone : k < j})
        BY DEF Claim, Expirable
    <2>2. State(j) = "pending"
        BY <2>1 DEF Eligible, IsClaimable
    <2>3. events'[j] = [events[j] EXCEPT !.state = "dead"]
        BY <1>3, <1>4 DEF AfterExpiry
    <2>. QED
        BY <1>1, <2>2, <2>3 DEF TypeOK, EventRow
<1>7. \A j \in Row : j \notin gone /\ j # i => events'[j] = events[j]
    BY <1>2, <1>4 DEF AfterExpiry
<1>8. ASSUME NEW j \in Earlier(i) PROVE events'[j].state \in Settled
    <2>1. CASE j \in gone
        BY <1>6, <2>1 DEF Settled
    <2>2. CASE j \notin gone
        <3>1. ~HoldsLaterRows(State(j)) /\ j \in Row /\ j < i /\ j # i
            BY <1>3, <2>2, InboxConstants DEF Eligible, Earlier, Row
        <3>2. State(j) # "none"
            BY <1>3, <3>1 DEF IInv, RowsInOrder
        <3>3. State(j) \in Settled
            BY <1>1, <3>1, <3>2 DEF TypeOK, EventRow, EventState, HoldsLaterRows, State
        <3>. QED
            BY <1>7, <2>2, <3>1, <3>3 DEF State
    <2>. QED
        BY <2>1, <2>2
<1>9. Move(i)
    BY <1>3, <1>5, <1>8 DEF Move, State
<1>10. ASSUME NEW j \in Row, j # i PROVE Move(j)
    <2>1. CASE j \in gone
        BY <1>6, <2>1 DEF Move, State
    <2>2. CASE j \notin gone
        BY <1>7, <1>10, <2>2, UntouchedMoves
    <2>. QED
        BY <2>1, <2>2
<1>. QED
    BY <1>9, <1>10 DEF Moves

LEMMA ClaimNothingMoves ==
    ASSUME IInv, NEW gone \in SUBSET Row, ClaimNothing(gone)
    PROVE  Moves
<1>1. TypeOK
    BY DEF IInv
<1>2. ASSUME NEW j \in gone PROVE Move(j)
    <2>1. j \in Eligible({k \in gone : k < j})
        BY DEF ClaimNothing, Expirable
    <2>2. events[j].state = "pending"
        BY <2>1 DEF Eligible, IsClaimable, State
    <2>3. events'[j] = [events[j] EXCEPT !.state = "dead"]
        BY DEF ClaimNothing, AfterExpiry
    <2>. QED
        BY <1>1, <2>2, <2>3 DEF TypeOK, EventRow, Move
<1>3. ASSUME NEW j \in Row \ gone PROVE Move(j)
    BY UntouchedMoves DEF ClaimNothing, AfterExpiry
<1>. QED
    BY <1>2, <1>3 DEF Moves

LEMMA DeliverMoves ==
    ASSUME IInv, NEW i \in Row, DeliverStep(i)
    PROVE  Moves
<1>1. TypeOK /\ RetryBudget /\ events[i] \in EventRow
    BY DEF IInv, TypeOK
<1>2. job[i] # "none" => State(i) = "submitting"
    BY DEF IInv, JobOwnsItsRow
<1>3. ASSUME NEW row, DoneWith(i, row), events'[i] = row => Move(i) PROVE Moves
    BY <1>1, <1>3, DoneWithMoves, UntouchedMoves DEF Moves
<1>4. CASE UNCHANGED events
    BY <1>4, UntouchedMoves DEF Moves
<1>5. CASE FinishSettled(i)
    <2>1. CASE job[i] = "ok"
        <3>1. IsPlaced(i)
            BY <2>1 DEF IInv, Handoff
        <3>2. DoneWith(i, [events[i] EXCEPT !.state = "accepted", !.nextAt = "fresh"])
            BY <1>5, <2>1 DEF FinishSettled
        <3>. QED
            BY <1>1, <1>2, <1>3, <2>1, <3>1, <3>2 DEF Move, State, InFlight, EventRow
    <2>2. CASE job[i] = "permanent"
        <3>1. DoneWith(i, [events[i] EXCEPT !.state = "dead", !.nextAt = "fresh"])
            BY <1>5, <2>2 DEF FinishSettled
        <3>. QED
            BY <1>1, <1>2, <1>3, <2>2, <3>1 DEF Move, State, EventRow
    <2>. QED
        BY <1>5, <2>1, <2>2 DEF FinishSettled
<1>6. CASE FinishRetryable(i)
    <2>1. RetryOf(events[i]).state = "dead" \/
          (RetryOf(events[i]).state = "pending" /\ RetryOf(events[i]).attempts < MaxAttempts)
        <3> DEFINE n == events[i].attempts
        <3>1. n \in Nat /\ MaxAttempts \in Nat
            BY <1>1, InboxConstants DEF EventRow
        <3>2. CASE n >= MaxAttempts
            BY <1>1, <3>2 DEF RetryOf, EventRow
        <3>3. CASE ~(n >= MaxAttempts)
            <4>1. n < MaxAttempts
                BY <3>1, <3>3
            <4>. QED
                BY <1>1, <3>3, <4>1 DEF RetryOf, EventRow
        <3>. QED
            BY <3>2, <3>3
    <2>. QED
        BY <1>2, <1>3, <1>6, <2>1 DEF FinishRetryable, Move, State
<1>7. CASE FinishUncertain(i)
    BY <1>1, <1>2, <1>3, <1>7 DEF FinishUncertain, HeldAfter, Move, State, EventRow
<1>8. CASE DeferUnavailable(i)
    <2> DEFINE row == [events[i] EXCEPT !.state = "pending", !.nextAt = "waiting",
                           !.attempts = OneFewer(@)]
    <2>1. events[i].attempts \in 1..MaxAttempts
        BY <1>1, <1>8 DEF DeferUnavailable, RetryBudget, State, InFlight
    <2>2. OneFewer(events[i].attempts) < MaxAttempts
        BY <2>1, InboxConstants DEF OneFewer
    <2>3. row.state = "pending" /\ row.attempts < MaxAttempts
        BY <1>1, <2>2 DEF EventRow
    <2>. QED
        BY <1>2, <1>3, <1>8, <2>3 DEF DeferUnavailable, Move, State
<1>. QED
    BY <1>4, <1>5, <1>6, <1>7, <1>8
    DEF DeliverStep, Preflight, Submit, LoseAnswer, store

\* One step moves a row only along its life cycle; the columns that tell what
\* was known when it moved are part of the statement.
LEMMA NextMoves == IInv /\ [Next]_vars => Moves
<1> SUFFICES ASSUME IInv, [Next]_vars PROVE Moves
    OBVIOUS
<1>1. TypeOK
    BY DEF IInv
<1>2. CASE UNCHANGED events
    BY <1>2, UntouchedMoves DEF Moves
<1>3. ASSUME NEW b \in Binding, RemoveRoute(b) PROVE Moves
    <2>1. ASSUME NEW i \in Row PROVE Move(i)
        BY <1>1, <1>3 DEF TypeOK, RemoveRoute, SettledByRemoval, SettledByRemovalWhen,
            EventRow, Move, State
    <2>. QED
        BY <2>1 DEF Moves
<1>4. ASSUME NEW b \in Binding, NEW k \in EventId, NEW s \in EventState, Ingest(b, k, s)
      PROVE Moves
    <2>1. PICK i \in Free :
              events' = [events EXCEPT ![i] =
                           [NoRow EXCEPT !.binding = b, !.key = k, !.state = s]]
        BY <1>4 DEF Ingest
    <2>2. i \in Row /\ events[i].state = "none" /\ events'[i].state = s /\ events'[i].attempts = 0
        BY <1>1, <2>1 DEF TypeOK, Free, NoRow, State
    <2>3. \A j \in Row \ {i} : events'[j] = events[j]
        BY <1>1, <2>1 DEF TypeOK
    <2>4. Move(i)
        BY <1>4, <2>2 DEF Move, Ingest
    <2>. QED
        BY <2>2, <2>3, <2>4, UntouchedMoves DEF Moves
<1>5. ASSUME NEW i \in Row, ReconcileAccept(i) PROVE Moves
    <2>1. IsPlaced(i)
        BY <1>5 DEF IInv, EvidenceIsForHeldRows, ReconcileAccept
    <2>2. Move(i)
        BY <1>1, <1>5, <2>1 DEF TypeOK, ReconcileAccept, Move, EventRow, State
    <2>3. \A j \in Row \ {i} : events'[j] = events[j]
        BY <1>1, <1>5 DEF TypeOK, ReconcileAccept
    <2>. QED
        BY <2>2, <2>3, UntouchedMoves DEF Moves
<1>6. ASSUME NEW i \in Row, BackoffElapses(i) PROVE Moves
    <2>1. ASSUME NEW j \in Row PROVE Move(j)
        BY <1>1, <1>6 DEF TypeOK, BackoffElapses, EventRow, Move
    <2>. QED
        BY <2>1 DEF Moves
<1>7. CASE Start
    <2>1. ASSUME NEW i \in Row PROVE Move(i)
        BY <1>1, <1>7 DEF TypeOK, Start, Recovered, EventRow, Move
    <2>. QED
        BY <2>1 DEF Moves
<1>. QED
    BY <1>2, <1>3, <1>4, <1>5, <1>6, <1>7, ClaimMoves, ClaimNothingMoves, DeliverMoves
    DEF Next, RouteStep, Dispatch, ReconcileStep, NativeStep, Bind, PauseOrResume, RemoveWatch,
        Inspect, NativeAccept, NativeRefuse, NativeForget, GrowOld, Die, store, vars

-----------------------------------------------------------------------------
(* The names of rows, and what only depends on how rows move.              *)

SameNames == \A i \in Row : /\ events'[i].binding = events[i].binding
                            /\ events'[i].key = events[i].key
                            /\ events'[i].state = "none" <=> events[i].state = "none"

\* Every step but an ingest leaves the names of all rows alone.
LEMMA NamesKept ==
    ASSUME IInv, [Next]_vars,
           ~\E b \in Binding, k \in EventId, s \in EventState : Ingest(b, k, s)
    PROVE  SameNames
<1>1. TypeOK
    BY DEF IInv
<1>2. CASE UNCHANGED events
    BY <1>2 DEF SameNames
<1>3. ASSUME NEW b \in Binding, RemoveRoute(b) PROVE SameNames
    BY <1>1, <1>3 DEF TypeOK, RemoveRoute, SettledByRemoval, SettledByRemovalWhen,
        EventRow, SameNames, State
<1>4. ASSUME NEW gone \in SUBSET Row, \A j \in gone : State(j) = "pending"
      PROVE  /\ AfterExpiry(gone) \in [Row -> EventRow]
             /\ \A j \in Row : /\ AfterExpiry(gone)[j].binding = events[j].binding
                               /\ AfterExpiry(gone)[j].key = events[j].key
                               /\ AfterExpiry(gone)[j].state = "none" <=> State(j) = "none"
    <2>1. \A j \in Row : events[j] \in EventRow
        BY <1>1 DEF TypeOK
    <2>2. ASSUME NEW j \in Row
          PROVE  /\ AfterExpiry(gone)[j].binding = events[j].binding
                 /\ AfterExpiry(gone)[j].key = events[j].key
                 /\ AfterExpiry(gone)[j].state = "none" <=> State(j) = "none"
        BY <1>4, <2>1 DEF AfterExpiry, EventRow, State
    <2>. QED
        BY <1>1, <2>2, ExpiryIsTyped
<1>5. ASSUME NEW gone \in SUBSET Row, Expirable(gone)
      PROVE  \A j \in gone : State(j) = "pending"
    BY <1>5 DEF Expirable, Eligible, IsClaimable
<1>6. ASSUME NEW gone \in SUBSET Row, ClaimNothing(gone) PROVE SameNames
    BY <1>4, <1>5, <1>6 DEF ClaimNothing, SameNames, State
<1>7. ASSUME NEW gone \in SUBSET Row, NEW i \in Row, Claim(gone, i) PROVE SameNames
    <2> DEFINE mid == AfterExpiry(gone)
    <2>1. events' = [mid EXCEPT ![i] = [mid[i] EXCEPT !.state = "submitting",
                                          !.attempts = mid[i].attempts + 1]]
        BY <1>7, Zenon DEF Claim
    <2>2. mid \in [Row -> EventRow] /\ State(i) = "pending"
        BY <1>4, <1>5, <1>7 DEF Claim, First, Eligible, IsClaimable
    <2>3. events'[i].binding = mid[i].binding /\ events'[i].key = mid[i].key
          /\ events'[i].state = "submitting"
        BY <2>1, <2>2 DEF EventRow
    <2>4. \A j \in Row \ {i} : events'[j] = mid[j]
        BY <2>1, <2>2
    <2>. QED
        BY <1>4, <1>5, <1>7, <2>2, <2>3, <2>4 DEF Claim, SameNames, State
<1>8. ASSUME NEW i \in Row, DeliverStep(i) PROVE SameNames
    <2>0. job[i] # "none" => State(i) = "submitting"
        BY DEF IInv, JobOwnsItsRow
    <2>1. ASSUME NEW row, DoneWith(i, row), row.binding = events[i].binding,
                 row.key = events[i].key, row.state # "none", State(i) # "none"
          PROVE  SameNames
        BY <1>1, <2>1, DoneWithMoves DEF SameNames, State
    <2>2. events[i] \in EventRow
        BY <1>1 DEF TypeOK
    <2>3. CASE FinishSettled(i)
        BY <2>0, <2>1, <2>2, <2>3 DEF FinishSettled, EventRow
    <2>4. CASE FinishRetryable(i)
        BY <2>0, <2>1, <2>2, <2>4 DEF FinishRetryable, RetryOf, EventRow
    <2>5. CASE FinishUncertain(i)
        BY <2>0, <2>1, <2>2, <2>5 DEF FinishUncertain, HeldAfter, EventRow
    <2>6. CASE DeferUnavailable(i)
        <3> DEFINE row == [events[i] EXCEPT !.state = "pending", !.nextAt = "waiting",
                               !.attempts = OneFewer(@)]
        <3>1. row.binding = events[i].binding /\ row.key = events[i].key /\ row.state = "pending"
            BY <2>2 DEF EventRow
        <3>. QED
            BY <2>0, <2>1, <2>6, <3>1 DEF DeferUnavailable
    <2>. QED
        BY <1>2, <1>8, <2>3, <2>4, <2>5, <2>6
        DEF DeliverStep, Preflight, Submit, LoseAnswer, store
<1>9. ASSUME NEW i \in Row, ReconcileAccept(i) PROVE SameNames
    BY <1>1, <1>9 DEF TypeOK, ReconcileAccept, EventRow, InFlight, SameNames, State
<1>10. ASSUME NEW i \in Row, BackoffElapses(i) PROVE SameNames
    BY <1>1, <1>10 DEF TypeOK, BackoffElapses, EventRow, SameNames
<1>11. CASE Start
    BY <1>1, <1>11 DEF TypeOK, Start, Recovered, EventRow, SameNames
<1>. QED
    BY <1>2, <1>3, <1>6, <1>7, <1>8, <1>9, <1>10, <1>11
    DEF Next, RouteStep, Dispatch, ReconcileStep, NativeStep, Bind, PauseOrResume, RemoveWatch,
        Inspect, NativeAccept, NativeRefuse, NativeForget, GrowOld, Die, store, vars

\* An ingest fills the first free row and touches no other.
LEMMA IngestFills ==
    ASSUME TypeOK, NEW b \in Binding, NEW k \in EventId, NEW s \in EventState, Ingest(b, k, s)
    PROVE  \E i \in Free :
               /\ events'[i].binding = b /\ events'[i].key = k
               /\ events'[i].state = s /\ events'[i].nextAt = "fresh"
               /\ \A j \in Row \ {i} : events'[j] = events[j]
<1>1. PICK i \in Free :
          events' = [events EXCEPT ![i] =
                       [NoRow EXCEPT !.binding = b, !.key = k, !.state = s]]
    BY DEF Ingest
<1>2. i \in Row
    BY DEF Free
<1>3. events'[i].binding = b /\ events'[i].key = k
      /\ events'[i].state = s /\ events'[i].nextAt = "fresh"
    BY <1>1, <1>2 DEF TypeOK, NoRow
<1>. QED
    BY <1>1, <1>2, <1>3 DEF TypeOK

\* A row that is in use keeps its binding and key for good.
LEMMA UsedNamesKept ==
    ASSUME IInv, [Next]_vars, NEW i \in Row, State(i) # "none"
    PROVE  events'[i].binding = events[i].binding /\ events'[i].key = events[i].key
<1>1. ASSUME NEW b \in Binding, NEW k \in EventId, NEW s \in EventState, Ingest(b, k, s)
      PROVE  events'[i] = events[i]
    BY <1>1, IngestFills DEF IInv, Free
<1>. QED
    BY <1>1, NamesKept DEF SameNames

LEMMA RowsInOrderNext == IInv /\ [Next]_vars => RowsInOrder'
<1> SUFFICES ASSUME IInv, [Next]_vars PROVE RowsInOrder'
    OBVIOUS
<1>1. CASE SameNames
    BY <1>1 DEF IInv, RowsInOrder, SameNames, SameEvent, State
<1>2. ASSUME NEW b \in Binding, NEW k \in EventId, NEW s \in EventState, Ingest(b, k, s)
      PROVE  RowsInOrder'
    <2>1. PICK i \in Free :
              /\ events'[i].binding = b /\ events'[i].key = k /\ events'[i].state = s
              /\ \A j \in Row \ {i} : events'[j] = events[j]
        <3>1. TypeOK
            BY DEF IInv
        <3>. QED
            BY <1>2, <3>1, IngestFills
    <2>2. i \in Row /\ State(i) = "none" /\ \A j \in Row : j < i => State(j) # "none"
        BY DEF Free
    <2>3. events'[i].binding = b /\ events'[i].key = k /\ events'[i].state # "none"
        BY <1>2, <2>1 DEF Ingest
    <2>4. \A j \in Row \ {i} : ~(events[j].binding = b /\ events[j].key = k)
        BY <1>2 DEF Ingest, IsDuplicate
    <2>5. ASSUME NEW j \in Row, State(j) # "none" PROVE j < i
        <3>1. ~(i < j)
            BY <2>2, <2>5 DEF IInv, RowsInOrder
        <3>2. i # j
            BY <2>2, <2>5
        <3>. QED
            BY <2>2, <3>1, <3>2, InboxConstants DEF Row
    <2>6. \A j \in Row \ {i} : (events'[j].state = "none" <=> events'[j].binding \notin Binding)
        BY <2>1 DEF IInv, RowsInOrder, State
    <2>7. ASSUME NEW m \in Row, NEW n \in Row, events'[m].state # "none", n < m
          PROVE  events'[n].state # "none"
        <3>1. CASE m = i
            BY <2>1, <2>2, <2>7, <3>1, InboxConstants DEF Row, State
        <3>2. CASE m # i
            BY <2>1, <2>3, <2>7, <3>2 DEF IInv, RowsInOrder, State
        <3>. QED
            BY <3>1, <3>2
    <2>8. ASSUME NEW m \in Row, NEW n \in Row, events'[m].state # "none",
                 events'[m].binding = events'[n].binding, events'[m].key = events'[n].key
          PROVE  m = n
        <3>0. \A j \in Row \ {i} : ~(events'[j].binding = b /\ events'[j].key = k)
            BY <2>1, <2>4
        <3>1. CASE m = i
            BY <2>3, <2>8, <3>0, <3>1
        <3>3. CASE n = i
            BY <2>3, <2>8, <3>0, <3>3
        <3>2. CASE m # i /\ n # i
            BY <2>1, <2>8, <3>2 DEF IInv, RowsInOrder, SameEvent, State
        <3>. QED
            BY <3>1, <3>2, <3>3
    <2>. QED
        BY <2>2, <2>3, <2>6, <2>7, <2>8 DEF RowsInOrder, SameEvent, State
<1>. QED
    BY <1>1, <1>2, NamesKept

LEMMA HeadOfLineNext == IInv /\ [Next]_vars => HeadOfLine'
<1> SUFFICES ASSUME IInv, [Next]_vars,
                    NEW i \in Row, events'[i].state \in InFlight \cup {"accepted"},
                    NEW j \in Row, j < i, events'[j].binding = events'[i].binding
             PROVE  events'[j].state \in Settled
    BY DEF HeadOfLine, Earlier, State
<1>1. Move(i) /\ Move(j)
    BY NextMoves DEF Moves
<1>2. events[i].state # "none"
    BY <1>1 DEF Move, InFlight
<1>3. events[j].state # "none"
    BY <1>2 DEF IInv, RowsInOrder, State
<1>4. j \in Earlier(i)
    BY <1>2, <1>3, UsedNamesKept DEF Earlier, State
<1>5. CASE events[i].state \in InFlight \cup {"accepted"}
    <2>1. events[j].state \in Settled
        BY <1>4, <1>5 DEF IInv, HeadOfLine, State
    <2>. QED
        BY <1>1, <2>1 DEF Move, Settled, InFlight
<1>6. CASE events[i].state = "pending"
    BY <1>1, <1>4, <1>6 DEF Move, InFlight
<1>. QED
    BY <1>1, <1>5, <1>6 DEF Move, InFlight

LEMMA RetryBudgetNext == IInv /\ [Next]_vars => RetryBudget'
<1> SUFFICES ASSUME IInv, [Next]_vars, NEW i \in Row
             PROVE  /\ events'[i].state = "pending" => events'[i].attempts < MaxAttempts
                    /\ events'[i].state \in InFlight => events'[i].attempts \in 1..MaxAttempts
    BY DEF RetryBudget, State
<1>1. Move(i)
    BY NextMoves DEF Moves
<1>2. /\ events[i].attempts \in Nat
      /\ events[i].state = "pending" => events[i].attempts < MaxAttempts
      /\ events[i].state \in InFlight => events[i].attempts \in 1..MaxAttempts
    BY DEF IInv, TypeOK, EventRow, RetryBudget, State
<1>. QED
    BY <1>1, <1>2, InboxConstants DEF Move, InFlight

\* A row waits only between two attempts.
LEMMA OnlyPendingWaitsNext == IInv /\ [Next]_vars => OnlyPendingWaits'
<1> DEFINE Fine(row) == row.nextAt = "waiting" => row.state = "pending"
<1> SUFFICES ASSUME IInv, [Next]_vars PROVE \A i \in Row : Fine(events'[i])
    BY DEF OnlyPendingWaits, State
<1>1. TypeOK /\ \A i \in Row : Fine(events[i]) /\ events[i] \in EventRow
    BY DEF IInv, TypeOK, OnlyPendingWaits, State
<1>2. CASE UNCHANGED events
    BY <1>1, <1>2
<1>3. ASSUME NEW b \in Binding, RemoveRoute(b) PROVE \A i \in Row : Fine(events'[i])
    BY <1>1, <1>3 DEF RemoveRoute, SettledByRemoval, SettledByRemovalWhen, EventRow, State
<1>4. ASSUME NEW b \in Binding, NEW k \in EventId, NEW s \in EventState, Ingest(b, k, s)
      PROVE  \A i \in Row : Fine(events'[i])
    <2>1. PICK i \in Free : /\ events'[i].nextAt = "fresh"
                            /\ \A j \in Row \ {i} : events'[j] = events[j]
        BY <1>1, <1>4, IngestFills
    <2>. QED
        BY <1>1, <2>1
<1>5. ASSUME NEW gone \in SUBSET Row, Expirable(gone)
      PROVE  \A j \in Row : Fine(AfterExpiry(gone)[j])
    <2>1. \A j \in gone : events[j].nextAt # "waiting"
        BY <1>5 DEF Expirable, Eligible, IsDue
    <2>. QED
        BY <1>1, <2>1 DEF AfterExpiry, EventRow
<1>6. ASSUME NEW gone \in SUBSET Row, ClaimNothing(gone) PROVE \A i \in Row : Fine(events'[i])
    BY <1>5, <1>6 DEF ClaimNothing
<1>7. ASSUME NEW gone \in SUBSET Row, NEW i \in Row, Claim(gone, i)
      PROVE  \A j \in Row : Fine(events'[j])
    <2> DEFINE mid == AfterExpiry(gone)
    <2>1. mid \in [Row -> EventRow]
        BY <1>1, ExpiryIsTyped
    <2>2. events' = [mid EXCEPT ![i] = [mid[i] EXCEPT !.state = "submitting",
                                          !.attempts = mid[i].attempts + 1]]
        BY <1>7, <2>1, Zenon DEF Claim
    <2>3. i \in Eligible(gone) /\ i \notin gone /\ events[i].nextAt # "waiting"
        BY <1>7 DEF Claim, First, Eligible, IsDue
    <2>4. events'[i].nextAt = events[i].nextAt
        BY <2>1, <2>2, <2>3 DEF AfterExpiry, EventRow
    <2>5. \A j \in Row \ {i} : events'[j] = mid[j]
        BY <2>1, <2>2
    <2>6. \A j \in Row : Fine(mid[j])
        BY <1>5, <1>7 DEF Claim
    <2>. QED
        BY <2>3, <2>4, <2>5, <2>6
<1>8. ASSUME NEW i \in Row, DeliverStep(i) PROVE \A j \in Row : Fine(events'[j])
    <2>1. ASSUME NEW row, DoneWith(i, row), Fine(row) PROVE \A j \in Row : Fine(events'[j])
        BY <1>1, <2>1, DoneWithMoves
    <2>2. CASE FinishSettled(i)
        BY <1>1, <2>1, <2>2 DEF FinishSettled, EventRow
    <2>3. CASE FinishRetryable(i)
        BY <1>1, <2>1, <2>3 DEF FinishRetryable, RetryOf, EventRow
    <2>4. CASE FinishUncertain(i)
        BY <1>1, <2>1, <2>4 DEF FinishUncertain, HeldAfter, EventRow
    <2>5. CASE DeferUnavailable(i)
        <3> DEFINE row == [events[i] EXCEPT !.state = "pending", !.nextAt = "waiting",
                               !.attempts = OneFewer(@)]
        <3>1. row.state = "pending"
            BY <1>1 DEF EventRow
        <3>. QED
            BY <2>1, <2>5, <3>1 DEF DeferUnavailable
    <2>. QED
        BY <1>2, <1>8, <2>2, <2>3, <2>4, <2>5
        DEF DeliverStep, Preflight, Submit, LoseAnswer, store
<1>9. ASSUME NEW i \in Row, ReconcileAccept(i) PROVE \A j \in Row : Fine(events'[j])
    BY <1>1, <1>9 DEF TypeOK, ReconcileAccept, EventRow
<1>10. ASSUME NEW i \in Row, BackoffElapses(i) PROVE \A j \in Row : Fine(events'[j])
    BY <1>1, <1>10 DEF TypeOK, BackoffElapses, EventRow
<1>11. CASE Start
    BY <1>1, <1>11 DEF TypeOK, Start, Recovered, EventRow
<1>. QED
    BY <1>2, <1>3, <1>4, <1>6, <1>7, <1>8, <1>9, <1>10, <1>11
    DEF Next, RouteStep, Dispatch, ReconcileStep, NativeStep, Bind, PauseOrResume, RemoveWatch,
        Inspect, NativeAccept, NativeRefuse, NativeForget, GrowOld, Die, store, vars

-----------------------------------------------------------------------------
(* What one step can do to the handoff of one row.                         *)

Untouched(i) == events'[i].state = State(i) /\ serve' = serve

JobMove(i) ==
    \/ job'[i] = "none"
    \/ job'[i] = job[i] /\ Untouched(i)
    \/ /\ job'[i] = "checking" /\ State(i) = "pending"
       /\ events'[i].state = "submitting" /\ serve' = "running"
    \/ /\ job[i] = "checking" /\ job'[i] \in {"sent", "unavailable", "permanent"}
       /\ Untouched(i)
    \/ job[i] = "sent" /\ job'[i] = "uncertain" /\ Untouched(i)
    \/ job[i] = "sent" /\ job'[i] = "ok" /\ IsPlaced(i)' /\ Untouched(i)
    \/ /\ job[i] = "sent" /\ job'[i] \in {"retryable", "permanent"}
       /\ i \notin wire' /\ ~IsPlaced(i)' /\ Untouched(i)

WireMove(i) ==
    /\ i \in wire' => i \in wire \/ (job[i] = "checking" /\ job'[i] = "sent" /\ Untouched(i))
    /\ IsPlaced(i) => IsPlaced(i)'
    /\ IsPlaced(i)' => IsPlaced(i) \/ (i \in wire /\ i \notin wire')
    /\ i \in visible' => IsPlaced(i)'

FoundMove(i) ==
    i \in found' => (i \in found \/ (serve = "running" /\ State(i) = "uncertain" /\ IsPlaced(i)))
                    /\ Untouched(i)

HandoffMove(i) == JobMove(i) /\ WireMove(i) /\ FoundMove(i)

LEMMA AppendPlaced ==
    ASSUME TypeOK, NEW i \in Row, placed' = Append(placed, i), NEW j \in Row
    PROVE  IsPlaced(j)' <=> IsPlaced(j) \/ j = i
BY DEF TypeOK, IsPlaced

\* A step that leaves the workers, the App Server and every row in flight alone.
LEMMA QuietMoves ==
    ASSUME IInv, UNCHANGED <<native, serve, job, found>>,
           \A i \in Row : State(i) \in InFlight => events'[i].state = State(i)
    PROVE  \A i \in Row : HandoffMove(i)
<1> SUFFICES ASSUME NEW i \in Row PROVE HandoffMove(i)
    OBVIOUS
<1>1. IsPlaced(i)' <=> IsPlaced(i)
    BY DEF native, IsPlaced
<1>2. WireMove(i)
    BY <1>1 DEF WireMove, native, IInv, Handoff
<1>3. JobMove(i)
    BY DEF JobMove, Untouched, IInv, JobOwnsItsRow, InFlight
<1>4. FoundMove(i)
    BY DEF FoundMove, Untouched, IInv, EvidenceIsForHeldRows, InFlight
<1>. QED
    BY <1>2, <1>3, <1>4 DEF HandoffMove

LEMMA DeliverHandoff ==
    ASSUME IInv, NEW i \in Row, DeliverStep(i)
    PROVE  \A j \in Row : HandoffMove(j)
<1>1. TypeOK
    BY DEF IInv
<1>2. job[i] # "none" => serve = "running" /\ State(i) = "submitting"
    BY DEF IInv, JobOwnsItsRow
<1>3. i \in found => State(i) = "uncertain"
    BY DEF IInv, EvidenceIsForHeldRows
<1>4. \A j \in Row : FoundMove(j) \/ (j = i /\ job[i] # "none")
    <2> SUFFICES ASSUME NEW j \in Row, j \in found', ~(j = i /\ job[i] # "none")
                 PROVE  j \in found /\ Untouched(j)
        BY DEF FoundMove
    <2>1. job[i] # "none" /\ found' = found /\ serve' = serve
        BY DEF DeliverStep, Preflight, Submit, LoseAnswer, FinishSettled, FinishRetryable,
           FinishUncertain, DeferUnavailable, DoneWith, store, native
    <2>2. j # i
        BY <2>1
    <2>3. events'[j] = events[j]
        BY <1>1, <2>2 DEF DeliverStep, Preflight, Submit, LoseAnswer, FinishSettled,
           FinishRetryable, FinishUncertain, DeferUnavailable, DoneWith, store, TypeOK
    <2>. QED
        BY <2>1, <2>3 DEF Untouched, State
<1>5. \A j \in Row : FoundMove(j)
    <2>1. ASSUME job[i] # "none" PROVE i \notin found'
        <3>1. found' = found
            BY DEF DeliverStep, Preflight, Submit, LoseAnswer, FinishSettled, FinishRetryable,
               FinishUncertain, DeferUnavailable, DoneWith, store, native
        <3>. QED
            BY <1>2, <1>3, <2>1, <3>1
    <2>. QED
        BY <1>4, <2>1 DEF FoundMove
<1>6. ASSUME UNCHANGED native PROVE \A j \in Row : WireMove(j)
    <2>1. \A j \in Row : IsPlaced(j)' <=> IsPlaced(j)
        BY <1>6 DEF native, IsPlaced
    <2>. QED
        BY <1>6, <2>1 DEF WireMove, native, IInv, Handoff
<1>7. ASSUME NEW row, DoneWith(i, row) PROVE \A j \in Row : HandoffMove(j)
    <2>1. \A j \in Row \ {i} : events'[j] = events[j] /\ job'[j] = job[j]
        BY <1>1, <1>7 DEF DoneWith, TypeOK
    <2>2. job'[i] = "none" /\ serve' = serve
        BY <1>1, <1>7 DEF DoneWith, TypeOK
    <2>3. \A j \in Row : JobMove(j)
        BY <2>1, <2>2 DEF JobMove, Untouched, State
    <2>. QED
        BY <1>5, <1>6, <1>7, <2>3 DEF HandoffMove, DoneWith
<1>8. ASSUME NEW outcome, job[i] # "none", job' = [job EXCEPT ![i] = outcome], UNCHANGED events,
             serve' = serve
      PROVE  /\ job'[i] = outcome /\ Untouched(i)
             /\ \A j \in Row \ {i} : JobMove(j)
    BY <1>1, <1>8 DEF TypeOK, Untouched, JobMove, State
<1>9. ASSUME NEW outcome \in Outcome, Preflight(i, outcome) PROVE \A j \in Row : HandoffMove(j)
    <2>1. JobMove(i)
        BY <1>8, <1>9 DEF Preflight, JobMove, store
    <2>. QED
        BY <1>5, <1>6, <1>8, <1>9, <2>1 DEF HandoffMove, Preflight, store
<1>10. CASE LoseAnswer(i)
    <2>1. JobMove(i)
        BY <1>8, <1>10 DEF LoseAnswer, Unanswered, JobMove, store
    <2>. QED
        BY <1>5, <1>6, <1>8, <1>10, <2>1 DEF HandoffMove, LoseAnswer, store
<1>11. CASE Submit(i)
    <2>1. JobMove(i) /\ job'[i] = "sent" /\ Untouched(i) /\ \A j \in Row \ {i} : JobMove(j)
        BY <1>8, <1>11 DEF Submit, JobMove, store
    <2>2. \A j \in Row : IsPlaced(j)' <=> IsPlaced(j)
        BY <1>11 DEF Submit, IsPlaced
    <2>3. \A j \in Row : WireMove(j)
        BY <1>11, <2>1, <2>2 DEF WireMove, Submit, IInv, Handoff
    <2>. QED
        BY <1>5, <2>1, <2>3 DEF HandoffMove
<1>. QED
    BY <1>7, <1>9, <1>10, <1>11
    DEF DeliverStep, FinishSettled, FinishRetryable, FinishUncertain, DeferUnavailable

LEMMA NativeHandoff ==
    ASSUME IInv, NEW i \in Row, NativeStep(i)
    PROVE  \A j \in Row : HandoffMove(j)
<1>1. TypeOK
    BY DEF IInv
<1>2. \A j \in Row : FoundMove(j) /\ Untouched(j)
    BY DEF NativeStep, NativeAccept, NativeRefuse, NativeForget, store, FoundMove, Untouched, State
<1>3. CASE NativeAccept(i)
    <2>1. \A j \in Row : IsPlaced(j)' <=> IsPlaced(j) \/ j = i
        BY <1>1, <1>3, AppendPlaced DEF NativeAccept
    <2>2. \A j \in Row : WireMove(j)
        BY <1>3, <2>1 DEF NativeAccept, WireMove, IInv, Handoff
    <2>3. \A j \in Row \ {i} : job'[j] = job[j]
        BY <1>1, <1>3 DEF NativeAccept, Answer, TypeOK
    <2>4. job'[i] = job[i] \/ (job[i] = "sent" /\ job'[i] = "ok")
        BY <1>1, <1>3 DEF NativeAccept, Answer, TypeOK
    <2>5. \A j \in Row : JobMove(j)
        BY <1>2, <2>1, <2>3, <2>4 DEF JobMove
    <2>. QED
        BY <1>2, <2>2, <2>5 DEF HandoffMove
<1>4. ASSUME NEW outcome \in Outcome, NativeRefuse(i, outcome) PROVE \A j \in Row : HandoffMove(j)
    <2>1. \A j \in Row : IsPlaced(j)' <=> IsPlaced(j)
        BY <1>4 DEF NativeRefuse, IsPlaced
    <2>2. \A j \in Row : WireMove(j)
        BY <1>4, <2>1 DEF NativeRefuse, WireMove, IInv, Handoff
    <2>3. \A j \in Row \ {i} : job'[j] = job[j]
        BY <1>1, <1>4 DEF NativeRefuse, Answer, TypeOK
    <2>4. job'[i] = job[i] \/ (job[i] = "sent" /\ job'[i] \in {"retryable", "permanent"})
        BY <1>1, <1>4 DEF NativeRefuse, Answer, TypeOK
    <2>5. i \notin wire' /\ ~IsPlaced(i)'
        BY <1>4, <2>1 DEF NativeRefuse, IInv, Handoff
    <2>6. \A j \in Row : JobMove(j)
        BY <1>2, <2>3, <2>4, <2>5 DEF JobMove
    <2>. QED
        BY <1>2, <2>2, <2>6 DEF HandoffMove
<1>5. CASE NativeForget(i)
    <2>1. \A j \in Row : IsPlaced(j)' <=> IsPlaced(j)
        BY <1>5 DEF NativeForget, IsPlaced
    <2>2. \A j \in Row : WireMove(j)
        BY <1>5, <2>1 DEF NativeForget, WireMove, IInv, Handoff
    <2>3. \A j \in Row : JobMove(j)
        BY <1>2, <1>5 DEF NativeForget, JobMove
    <2>. QED
        BY <1>2, <2>2, <2>3 DEF HandoffMove
<1>. QED
    BY <1>3, <1>4, <1>5 DEF NativeStep

LEMMA ClaimHandoff ==
    ASSUME IInv, NEW gone \in SUBSET Row, NEW i \in Row, Claim(gone, i)
    PROVE  \A j \in Row : HandoffMove(j)
<1>1. TypeOK
    BY DEF IInv
<1>2. \A j \in gone : State(j) = "pending"
    BY DEF Claim, Expirable, Eligible, IsClaimable
<1>3. State(i) = "pending" /\ serve = "running" /\ serve' = "running"
    BY DEF Claim, First, Eligible, IsClaimable
<1>4. events'[i].state = "submitting" /\ job'[i] = "checking"
    <2> DEFINE mid == AfterExpiry(gone)
    <2>1. mid \in [Row -> EventRow]
        BY <1>1, ExpiryIsTyped
    <2>2. events' = [mid EXCEPT ![i] = [mid[i] EXCEPT !.state = "submitting",
                                          !.attempts = mid[i].attempts + 1]]
        BY <2>1, Zenon DEF Claim
    <2>3. events'[i].state = "submitting"
        BY <2>1, <2>2 DEF EventRow
    <2>. QED
        BY <1>1, <2>3 DEF Claim, TypeOK
<1>5. \A j \in Row \ {i} : (State(j) # "pending" => Untouched(j)) /\ job'[j] = job[j]
    BY <1>1, <1>2, <1>3 DEF Claim, AfterExpiry, TypeOK, Untouched, State
<1>6. \A j \in Row : IsPlaced(j)' <=> IsPlaced(j)
    BY DEF Claim, native, IsPlaced
<1>7. \A j \in Row : WireMove(j)
    BY <1>6 DEF Claim, native, WireMove, IInv, Handoff
<1>8. \A j \in Row : FoundMove(j)
    BY <1>3, <1>5 DEF Claim, FoundMove, IInv, EvidenceIsForHeldRows
<1>9. \A j \in Row : JobMove(j)
    BY <1>3, <1>4, <1>5 DEF JobMove, IInv, JobOwnsItsRow
<1>. QED
    BY <1>7, <1>8, <1>9 DEF HandoffMove

LEMMA NextHandoff == IInv /\ [Next]_vars => \A i \in Row : HandoffMove(i)
<1> SUFFICES ASSUME IInv, [Next]_vars PROVE \A i \in Row : HandoffMove(i)
    OBVIOUS
<1>1. TypeOK
    BY DEF IInv
<1>2. ASSUME UNCHANGED <<events, native, serve, job, found>> PROVE \A i \in Row : HandoffMove(i)
    BY <1>2, QuietMoves DEF State
<1>3. ASSUME NEW b \in Binding, RemoveRoute(b) PROVE \A i \in Row : HandoffMove(i)
    <2>1. \A i \in Row : State(i) \in InFlight => events'[i].state = State(i)
        BY <1>1, <1>3 DEF RemoveRoute, SettledByRemoval, SettledByRemovalWhen, State, InFlight
    <2>. QED
        BY <1>3, <2>1, QuietMoves DEF RemoveRoute
<1>4. ASSUME NEW b \in Binding, NEW k \in EventId, NEW s \in EventState, Ingest(b, k, s)
      PROVE  \A i \in Row : HandoffMove(i)
    <2>1. \A i \in Row : State(i) # "none" => events'[i].state = State(i)
        BY <1>1, <1>4, IngestFills DEF Free, State
    <2>2. \A i \in Row : State(i) \in InFlight => events'[i].state = State(i)
        BY <2>1 DEF InFlight
    <2>. QED
        BY <1>4, <2>2, QuietMoves DEF Ingest
<1>5. ASSUME NEW gone \in SUBSET Row, ClaimNothing(gone) PROVE \A i \in Row : HandoffMove(i)
    <2>1. \A j \in gone : State(j) = "pending"
        BY <1>5 DEF ClaimNothing, Expirable, Eligible, IsClaimable
    <2>2. \A i \in Row : State(i) \in InFlight => events'[i].state = State(i)
        BY <1>5, <2>1 DEF ClaimNothing, AfterExpiry, State, InFlight
    <2>. QED
        BY <1>5, <2>2, QuietMoves DEF ClaimNothing
<1>6. ASSUME NEW i \in Row, Inspect(i) PROVE \A j \in Row : HandoffMove(j)
    <2>1. \A j \in Row : FoundMove(j)
        BY <1>6 DEF Inspect, HasEvidence, store, FoundMove, Untouched, State, IInv, Handoff
    <2>2. \A j \in Row : IsPlaced(j)' <=> IsPlaced(j)
        BY <1>6 DEF Inspect, native, IsPlaced
    <2>3. \A j \in Row : WireMove(j)
        BY <1>6, <2>2 DEF Inspect, native, WireMove, IInv, Handoff
    <2>4. \A j \in Row : JobMove(j)
        BY <1>6 DEF Inspect, store, JobMove, Untouched, State
    <2>. QED
        BY <2>1, <2>3, <2>4 DEF HandoffMove
<1>7. ASSUME NEW i \in Row, ReconcileAccept(i) PROVE \A j \in Row : HandoffMove(j)
    <2>1. State(i) = "uncertain" /\ job[i] = "none"
        BY <1>7 DEF ReconcileAccept, IInv, EvidenceIsForHeldRows, JobOwnsItsRow
    <2>2. \A j \in Row \ {i} : Untouched(j)
        BY <1>1, <1>7 DEF ReconcileAccept, TypeOK, Untouched, State
    <2>3. \A j \in Row : IsPlaced(j)' <=> IsPlaced(j)
        BY <1>7 DEF ReconcileAccept, native, IsPlaced
    <2>4. \A j \in Row : WireMove(j)
        BY <1>7, <2>3 DEF ReconcileAccept, native, WireMove, IInv, Handoff
    <2>5. \A j \in Row : JobMove(j)
        BY <1>7, <2>1, <2>2 DEF ReconcileAccept, JobMove
    <2>6. \A j \in Row : FoundMove(j)
        BY <1>7, <2>2 DEF ReconcileAccept, FoundMove
    <2>. QED
        BY <2>4, <2>5, <2>6 DEF HandoffMove
<1>8. ASSUME NEW i \in Row, BackoffElapses(i) PROVE \A j \in Row : HandoffMove(j)
    <2>1. \A j \in Row : State(j) \in InFlight => events'[j].state = State(j)
        BY <1>1, <1>8 DEF BackoffElapses, TypeOK, EventRow, State
    <2>. QED
        BY <1>8, <2>1, QuietMoves DEF BackoffElapses
<1>9. ASSUME UNCHANGED native, job' = [j \in Row |-> "none"], found' = {}
      PROVE  \A j \in Row : HandoffMove(j)
    <2>1. \A j \in Row : IsPlaced(j)' <=> IsPlaced(j)
        BY <1>9 DEF native, IsPlaced
    <2>. QED
        BY <1>9, <2>1 DEF HandoffMove, JobMove, FoundMove, WireMove, native, IInv, Handoff
<1>10. CASE Start
    <2>1. job = [j \in Row |-> "none"] /\ found = {}
        BY <1>1, <1>10 DEF Start, IInv, JobOwnsItsRow, EvidenceIsForHeldRows, TypeOK
    <2>. QED
        BY <1>9, <1>10, <2>1 DEF Start
<1>11. CASE Die
    BY <1>9, <1>11 DEF Die
<1>. QED
    BY <1>2, <1>3, <1>4, <1>5, <1>6, <1>7, <1>8, <1>10, <1>11,
       ClaimHandoff, DeliverHandoff, NativeHandoff
    DEF Next, RouteStep, Dispatch, ReconcileStep, Bind, PauseOrResume, RemoveWatch, GrowOld,
        store, native, vars

-----------------------------------------------------------------------------
(* The parts of the invariant that speak of the handoff.                   *)

LEMMA JobOwnsItsRowNext == IInv /\ [Next]_vars => JobOwnsItsRow'
<1> SUFFICES ASSUME IInv, [Next]_vars, NEW i \in Row, job'[i] # "none"
             PROVE  serve' = "running" /\ events'[i].state = "submitting"
    BY DEF JobOwnsItsRow, State
<1>1. JobMove(i)
    BY NextHandoff DEF HandoffMove
<1>2. job[i] # "none" => serve = "running" /\ State(i) = "submitting"
    BY DEF IInv, JobOwnsItsRow
<1>. QED
    BY <1>1, <1>2 DEF JobMove, Untouched

LEMMA EvidenceNext == IInv /\ [Next]_vars => EvidenceIsForHeldRows'
<1> SUFFICES ASSUME IInv, [Next]_vars, NEW i \in found'
             PROVE  serve' = "running" /\ events'[i].state = "uncertain" /\ IsPlaced(i)'
    BY DEF EvidenceIsForHeldRows, State
<1>1. TypeOK' /\ Row' = Row
    BY TypeNext DEF IInv, Row
<1>2. i \in Row
    BY <1>1 DEF TypeOK
<1>3. FoundMove(i) /\ WireMove(i)
    BY <1>2, NextHandoff DEF HandoffMove
<1>. QED
    BY <1>3 DEF FoundMove, WireMove, Untouched, IInv, EvidenceIsForHeldRows

LEMMA HandoffNext == IInv /\ [Next]_vars => Handoff'
<1> SUFFICES ASSUME IInv, [Next]_vars PROVE Handoff'
    OBVIOUS
<1>1. TypeOK' /\ Row' = Row
    BY TypeNext DEF IInv, Row
<1>2. ASSUME NEW i \in Row
      PROVE  /\ i \in wire => ~IsPlaced(i) /\ job[i] \in {"none", "sent", "uncertain"}
             /\ IsPlaced(i) => job[i] \in {"none", "sent", "ok", "uncertain"}
             /\ job[i] = "ok" => IsPlaced(i)
             /\ (i \in wire \/ IsPlaced(i)) => State(i) # "pending"
             /\ JobMove(i) /\ WireMove(i)
    BY NextHandoff DEF IInv, Handoff, NothingTakenIsGivenUp, InFlight, HandoffMove
<1>3. ASSUME NEW i \in Row, i \in wire'
      PROVE  ~IsPlaced(i)' /\ job'[i] \in {"none", "sent", "uncertain"}
    BY <1>2, <1>3 DEF JobMove, WireMove
<1>4. ASSUME NEW i \in Row, IsPlaced(i)' PROVE job'[i] \in {"none", "sent", "ok", "uncertain"}
    BY <1>2, <1>4 DEF JobMove, WireMove
<1>5. ASSUME NEW i \in Row, job'[i] = "ok" PROVE IsPlaced(i)'
    BY <1>2, <1>5 DEF JobMove, WireMove
<1>6. ASSUME NEW i \in Row, i \in visible' PROVE IsPlaced(i)'
    BY <1>2, <1>6 DEF WireMove
<1>. QED
    BY <1>1, <1>3, <1>4, <1>5, <1>6 DEF Handoff, TypeOK

LEMMA NothingTakenNext == IInv /\ [Next]_vars => NothingTakenIsGivenUp'
<1> SUFFICES ASSUME IInv, [Next]_vars, NEW i \in Row, i \in wire' \/ IsPlaced(i)'
             PROVE  events'[i].state \in InFlight \cup {"accepted"}
    BY DEF NothingTakenIsGivenUp, State
<1>1. Move(i) /\ WireMove(i)
    BY NextMoves, NextHandoff DEF Moves, HandoffMove
<1>2. CASE i \in wire \/ IsPlaced(i)
    <2>1. State(i) \in InFlight \cup {"accepted"}
        BY <1>2 DEF IInv, NothingTakenIsGivenUp
    <2>2. job[i] \in {"none", "sent", "ok", "uncertain"}
        BY <1>2 DEF IInv, Handoff
    <2>. QED
        BY <1>1, <2>1, <2>2 DEF Move, InFlight, State
<1>3. CASE ~(i \in wire \/ IsPlaced(i))
    <2>1. job[i] = "checking" /\ Untouched(i)
        BY <1>1, <1>3 DEF WireMove
    <2>. QED
        BY <2>1 DEF IInv, JobOwnsItsRow, Untouched, InFlight
<1>. QED
    BY <1>2, <1>3

LEMMA AcceptedNext == IInv /\ [Next]_vars => AcceptedIsPlaced'
<1> SUFFICES ASSUME IInv, [Next]_vars, NEW i \in Row, events'[i].state = "accepted"
             PROVE  IsPlaced(i)'
    BY DEF AcceptedIsPlaced, State
<1>1. Move(i) /\ WireMove(i)
    BY NextMoves, NextHandoff DEF Moves, HandoffMove
<1>2. IsPlaced(i)
    BY <1>1 DEF Move, InFlight, IInv, AcceptedIsPlaced, State
<1>. QED
    BY <1>1, <1>2 DEF WireMove

\* Only the App Server's acceptance of a request extends what it took.
LEMMA PlacedGrows ==
    ASSUME IInv, [Next]_vars
    PROVE  placed' = placed \/ \E i \in wire : placed' = Append(placed, i)
BY DEF Next, RouteStep, Dispatch, DeliverStep, ReconcileStep, NativeStep, Bind, PauseOrResume,
       RemoveRoute, RemoveWatch, Ingest, Claim, ClaimNothing, Preflight, Submit, LoseAnswer,
       FinishSettled, FinishRetryable, FinishUncertain, DeferUnavailable, DoneWith, Inspect,
       ReconcileAccept, NativeAccept, NativeRefuse, NativeForget, GrowOld, BackoffElapses, Die,
       Start, native, vars

\* What the App Server holds, or may still take, is in use and keeps its name.
LEMMA TakenNamesKept ==
    ASSUME IInv, [Next]_vars, NEW i \in Row, i \in wire \/ IsPlaced(i)
    PROVE  events'[i].binding = events[i].binding
<1>1. State(i) # "none"
    BY DEF IInv, NothingTakenIsGivenUp, InFlight
<1>. QED
    BY <1>1, UsedNamesKept

LEMMA PlacedOrderNext == IInv /\ [Next]_vars => PlacedOnce' /\ FirstInFirstOut'
<1> SUFFICES ASSUME IInv, [Next]_vars PROVE PlacedOnce' /\ FirstInFirstOut'
    OBVIOUS
<1>1. placed \in Seq(Row) /\ wire \subseteq Row
    BY DEF IInv, TypeOK
<1>2. \A p \in DOMAIN placed : /\ placed[p] \in Row
                               /\ IsPlaced(placed[p])
                               /\ events'[placed[p]].binding = events[placed[p]].binding
    BY <1>1, TakenNamesKept DEF IsPlaced
<1>3. CASE placed' = placed
    BY <1>2, <1>3 DEF IInv, PlacedOnce, FirstInFirstOut
<1>4. ASSUME NEW i \in wire, placed' = Append(placed, i) PROVE PlacedOnce' /\ FirstInFirstOut'
    <2>1. i \in Row /\ ~IsPlaced(i) /\ events'[i].binding = events[i].binding
        BY <1>1, <1>4, TakenNamesKept DEF IInv, Handoff
    <2>2. State(i) \in InFlight
        BY <2>1 DEF IInv, NothingTakenIsGivenUp, AcceptedIsPlaced
    <2>3. \A p \in DOMAIN placed : placed[p] # i
        BY <2>1 DEF IsPlaced
    <2>4. ASSUME NEW p \in DOMAIN placed, events[placed[p]].binding = events[i].binding
          PROVE  placed[p] < i
        <3>1. placed[p] \in Row /\ State(placed[p]) \in InFlight \cup {"accepted"}
            BY <1>2 DEF IInv, NothingTakenIsGivenUp
        <3>2. ~(i < placed[p])
            BY <2>1, <2>2, <2>4, <3>1 DEF IInv, HeadOfLine, Earlier, InFlight, Settled
        <3>. QED
            BY <2>1, <2>3, <3>1, <3>2, InboxConstants DEF Row
    <2>5. /\ DOMAIN placed' = (DOMAIN placed) \cup {Len(placed) + 1}
          /\ DOMAIN placed = 1..Len(placed) /\ Len(placed) \in Nat
          /\ \A p \in DOMAIN placed : placed'[p] = placed[p]
          /\ placed'[Len(placed) + 1] = i
        BY <1>1, <1>4, <2>1
    <2>6. PlacedOnce'
        BY <2>3, <2>5 DEF IInv, PlacedOnce
    <2>7. ASSUME NEW p \in DOMAIN placed', NEW q \in DOMAIN placed', p < q,
                 events'[placed'[p]].binding = events'[placed'[q]].binding
          PROVE  placed'[p] < placed'[q]
        <3>1. p \in DOMAIN placed
            BY <2>5, <2>7
        <3>2. CASE q \in DOMAIN placed
            BY <1>2, <2>5, <2>7, <3>1, <3>2 DEF IInv, FirstInFirstOut
        <3>3. CASE q = Len(placed) + 1
            BY <1>2, <2>1, <2>4, <2>5, <2>7, <3>1, <3>3
        <3>. QED
            BY <2>5, <3>2, <3>3
    <2>. QED
        BY <2>6, <2>7 DEF FirstInFirstOut
<1>. QED
    BY <1>3, <1>4, PlacedGrows

-----------------------------------------------------------------------------
(* The inductive invariant, and the theorems it gives.                     *)

LEMMA InvInit == Init => IInv
<1> SUFFICES ASSUME Init PROVE IInv
    OBVIOUS
<1>1. \A i \in Row : State(i) = "none" /\ events[i].binding = None /\ events[i].nextAt = "fresh"
    BY DEF Init, State, NoRow
<1>2. placed = <<>> /\ wire = {} /\ visible = {} /\ found = {} /\ \A i \in Row : job[i] = "none"
    BY DEF Init
<1>3. \A i \in Row : ~IsPlaced(i)
    BY <1>2 DEF IsPlaced
<1>4. TypeOK
    BY TypeInit
<1>5. RowsInOrder /\ HeadOfLine /\ NothingTakenIsGivenUp /\ AcceptedIsPlaced /\ OnlyPendingWaits
    BY <1>1, <1>2, <1>3, InboxConstants
    DEF RowsInOrder, HeadOfLine, NothingTakenIsGivenUp, AcceptedIsPlaced, OnlyPendingWaits,
        InFlight
<1>6. JobOwnsItsRow /\ EvidenceIsForHeldRows /\ Handoff
    BY <1>2, <1>3 DEF JobOwnsItsRow, EvidenceIsForHeldRows, Handoff
<1>7. PlacedOnce /\ FirstInFirstOut
    BY <1>2 DEF PlacedOnce, FirstInFirstOut
<1>8. RetryBudget
    BY <1>1 DEF RetryBudget, InFlight
<1>. QED
    BY <1>4, <1>5, <1>6, <1>7, <1>8 DEF IInv

LEMMA InvNext == IInv /\ [Next]_vars => IInv'
<1> SUFFICES ASSUME IInv, [Next]_vars PROVE IInv'
    OBVIOUS
<1>1. TypeOK'
    BY TypeNext DEF IInv
<1>. QED
    BY <1>1, RowsInOrderNext, HeadOfLineNext, JobOwnsItsRowNext, EvidenceNext, HandoffNext,
       NothingTakenNext, AcceptedNext, PlacedOrderNext, RetryBudgetNext, OnlyPendingWaitsNext
    DEF IInv

\* Everything the safety of the inbox rests on holds in every reachable state.
THEOREM Invariant == Spec => []IInv
<1>1. Init => IInv
    BY InvInit
<1>2. IInv /\ [Next]_vars => IInv'
    BY InvNext
<1>. QED
    BY <1>1, <1>2, PTL DEF Spec

\* No event reaches the App Server twice, however often its sender, the
\* workers and restarts try.
THEOREM NoDoubleDelivery == Spec => []AtMostOnce
<1>1. IInv => AtMostOnce
    <2> SUFFICES ASSUME IInv, NEW p \in DOMAIN placed, NEW q \in DOMAIN placed,
                        SameEvent(placed[p], placed[q])
                 PROVE  p = q
        BY DEF AtMostOnce
    <2>1. placed[p] \in Row /\ placed[q] \in Row /\ IsPlaced(placed[p])
        BY DEF IInv, TypeOK, IsPlaced
    <2>2. State(placed[p]) # "none"
        BY <2>1 DEF IInv, NothingTakenIsGivenUp, InFlight
    <2>3. placed[p] = placed[q]
        BY <2>1, <2>2 DEF IInv, RowsInOrder
    <2>. QED
        BY <2>3 DEF IInv, PlacedOnce
<1>. QED
    BY <1>1, Invariant, PTL

\* The App Server takes the events of one binding in the order of receipt.
THEOREM InOrder == Spec => []FirstInFirstOut
<1>1. IInv => FirstInFirstOut
    BY DEF IInv
<1>. QED
    BY <1>1, Invariant, PTL

\* Nothing the App Server has or may take is replayed or reported refused,
\* and nothing is reported accepted that it did not take.
THEOREM ReceiptsAreTrue == Spec => [](NothingTakenIsGivenUp /\ AcceptedIsPlaced)
<1>1. IInv => NothingTakenIsGivenUp /\ AcceptedIsPlaced
    BY DEF IInv
<1>. QED
    BY <1>1, Invariant, PTL

\* The store never refuses what a worker reports, so no worker dies of it.
THEOREM WorkersOwnTheirRows == Spec => [](JobOwnsItsRow /\ EvidenceIsForHeldRows)
<1>1. IInv => JobOwnsItsRow /\ EvidenceIsForHeldRows
    BY DEF IInv
<1>. QED
    BY <1>1, Invariant, PTL

\* No row is handed over more often than MAX_ATTEMPTS allows.
THEOREM AttemptsBounded == Spec => []RetryBudget
<1>1. IInv => RetryBudget
    BY DEF IInv
<1>. QED
    BY <1>1, Invariant, PTL

-----------------------------------------------------------------------------
(* What no step does.                                                      *)

LEMMA SettledKept ==
    ASSUME IInv, [Next]_vars, NEW i \in Row, State(i) \in Settled
    PROVE  events'[i] = events[i]
<1>1. TypeOK
    BY DEF IInv
<1>2. /\ State(i) \notin {"none", "pending", "submitting", "uncertain"}
      /\ events[i].nextAt # "waiting"
    BY DEF Settled, IInv, OnlyPendingWaits
<1>3. ASSUME NEW b \in Binding, RemoveRoute(b) PROVE events'[i] = events[i]
    BY <1>2, <1>3 DEF RemoveRoute, SettledByRemoval, SettledByRemovalWhen
<1>4. ASSUME NEW b \in Binding, NEW k \in EventId, NEW s \in EventState, Ingest(b, k, s)
      PROVE  events'[i] = events[i]
    BY <1>1, <1>2, <1>4, IngestFills DEF Free
<1>5. ASSUME NEW gone \in SUBSET Row, Expirable(gone)
      PROVE  i \notin gone /\ AfterExpiry(gone)[i] = events[i]
    BY <1>2, <1>5 DEF Expirable, Eligible, IsClaimable, AfterExpiry
<1>6. ASSUME NEW gone \in SUBSET Row, ClaimNothing(gone) PROVE events'[i] = events[i]
    BY <1>5, <1>6 DEF ClaimNothing
<1>7. ASSUME NEW gone \in SUBSET Row, NEW j \in Row, Claim(gone, j) PROVE events'[i] = events[i]
    <2>1. j # i
        BY <1>2, <1>7 DEF Claim, First, Eligible, IsClaimable
    <2>2. events'[i] = AfterExpiry(gone)[i]
        BY <1>7, <2>1 DEF Claim, AfterExpiry
    <2>. QED
        BY <1>5, <1>7, <2>2 DEF Claim
<1>8. ASSUME NEW j \in Row, DeliverStep(j) PROVE events'[i] = events[i]
    <2>1. j # i
        BY <1>2, <1>8 DEF DeliverStep, Preflight, Submit, LoseAnswer, FinishSettled,
            FinishRetryable, FinishUncertain, DeferUnavailable, IInv, JobOwnsItsRow
    <2>. QED
        BY <1>1, <1>8, <2>1 DEF DeliverStep, Preflight, Submit, LoseAnswer, FinishSettled,
            FinishRetryable, FinishUncertain, DeferUnavailable, DoneWith, store, TypeOK
<1>9. ASSUME NEW j \in Row, ReconcileAccept(j) PROVE events'[i] = events[i]
    BY <1>1, <1>2, <1>9 DEF ReconcileAccept, InFlight, TypeOK
<1>10. ASSUME NEW j \in Row, BackoffElapses(j) PROVE events'[i] = events[i]
    BY <1>1, <1>2, <1>10 DEF BackoffElapses, TypeOK
<1>11. CASE Start
    BY <1>2, <1>11 DEF Start, Recovered, State
<1>. QED
    BY <1>3, <1>4, <1>6, <1>7, <1>8, <1>9, <1>10, <1>11
    DEF Next, RouteStep, Dispatch, ReconcileStep, NativeStep, Bind, PauseOrResume, RemoveWatch,
        Inspect, NativeAccept, NativeRefuse, NativeForget, GrowOld, Die, store, vars

\* A receipt that was settled is never rewritten, whatever arrives late.
THEOREM ReceiptsSettleOnce == Spec => SettledIsFinal
<1>1. IInv /\ [Next]_vars => [\A i \in Row : State(i) \in Settled => events'[i] = events[i]]_events
    BY SettledKept
<1>. QED
    BY <1>1, Invariant, PTL DEF Spec, SettledIsFinal

\* A held row is never retried, expired or removed: evidence alone ends it.
THEOREM HeldRowsWaitForEvidence == Spec => HeldUntilEvidence
<1>1. IInv /\ [Next]_vars =>
        [\A i \in Row : State(i) = "uncertain" /\ events'[i].state # "uncertain"
            => events'[i].state = "accepted" /\ IsPlaced(i)]_events
    BY NextMoves DEF Moves, Move, State
<1>. QED
    BY <1>1, Invariant, PTL DEF Spec, HeldUntilEvidence

-----------------------------------------------------------------------------
(* Inbox implements Delivery.                                              *)

Stages == [i \in Row |-> DeliveryStage(State(i))]
Lanes == [i \in Row |-> events[i].binding]

\* At most one row is accepted in a step, and then no other row changes.
LEMMA AcceptsOne ==
    ASSUME IInv, [Next]_vars, NEW i \in Row, State(i) # "accepted",
           events'[i].state = "accepted"
    PROVE  \A j \in Row \ {i} : events'[j] = events[j]
<1>1. TypeOK
    BY DEF IInv
<1>2. ASSUME NEW j \in Row, DeliverStep(j) PROVE \A k \in Row \ {i} : events'[k] = events[k]
    <2>1. \A k \in Row \ {j} : events'[k] = events[k]
        BY <1>1, <1>2 DEF DeliverStep, Preflight, Submit, LoseAnswer, FinishSettled,
            FinishRetryable, FinishUncertain, DeferUnavailable, DoneWith, store, TypeOK
    <2>2. j = i
        BY <2>1 DEF State
    <2>. QED
        BY <2>1, <2>2
<1>3. ASSUME NEW j \in Row, ReconcileAccept(j) PROVE \A k \in Row \ {i} : events'[k] = events[k]
    <2>1. \A k \in Row \ {j} : events'[k] = events[k]
        BY <1>1, <1>3 DEF ReconcileAccept, TypeOK
    <2>2. j = i
        BY <2>1 DEF State
    <2>. QED
        BY <2>1, <2>2
<1>4. ASSUME NEW b \in Binding, RemoveRoute(b) PROVE FALSE
    BY <1>1, <1>4 DEF RemoveRoute, SettledByRemoval, SettledByRemovalWhen, State, TypeOK, EventRow
<1>5. ASSUME NEW b \in Binding, NEW k \in EventId, NEW s \in EventState, Ingest(b, k, s)
      PROVE  FALSE
    <2>1. PICK j \in Free : /\ events'[j].state = s
                            /\ \A k2 \in Row \ {j} : events'[k2] = events[k2]
        BY <1>1, <1>5, IngestFills
    <2>2. s # "accepted"
        BY <1>5 DEF Ingest
    <2>. QED
        BY <2>1, <2>2 DEF State
<1>6. ASSUME NEW gone \in SUBSET Row PROVE AfterExpiry(gone)[i].state # "accepted"
    BY <1>1 DEF AfterExpiry, TypeOK, EventRow, State
<1>7. ASSUME NEW gone \in SUBSET Row, ClaimNothing(gone) PROVE FALSE
    BY <1>6, <1>7 DEF ClaimNothing
<1>8. ASSUME NEW gone \in SUBSET Row, NEW j \in Row, Claim(gone, j) PROVE FALSE
    <2>1. State(j) = "pending"
        BY <1>8 DEF Claim, First, Eligible, IsClaimable
    <2>2. events'[j].state # "accepted"
        BY <1>8, <2>1, NextMoves DEF Moves, Move, State, InFlight
    <2>3. j # i
        BY <2>2
    <2>4. events'[i] = AfterExpiry(gone)[i]
        BY <1>8, <2>3 DEF Claim, AfterExpiry
    <2>. QED
        BY <1>6, <2>4
<1>9. ASSUME NEW j \in Row, BackoffElapses(j) PROVE FALSE
    BY <1>1, <1>9 DEF BackoffElapses, TypeOK, EventRow, State
<1>10. CASE Start
    BY <1>1, <1>10 DEF Start, Recovered, TypeOK, EventRow, State
<1>. QED
    BY <1>2, <1>3, <1>4, <1>5, <1>7, <1>8, <1>9, <1>10
    DEF Next, RouteStep, Dispatch, ReconcileStep, NativeStep, Bind, PauseOrResume, RemoveWatch,
        Inspect, NativeAccept, NativeRefuse, NativeForget, GrowOld, Die, store, vars, State

LEMMA StageValues ==
    /\ DeliveryStage("none") = "none"
    /\ DeliveryStage("accepted") = "accepted"
    /\ DeliveryStage("dead") = "refused"
    /\ DeliveryStage("ignored") = "ignored"
    /\ DeliveryStage("pending") = "open"
    /\ \A s \in InFlight : DeliveryStage(s) = "open"
BY DEF DeliveryStage, InFlight

LEMMA RefinesInit == Init => Promise!Init
BY StageValues DEF Init, Promise!Init, State, NoRow

LEMMA RefinesNext == IInv /\ [Next]_vars => [Promise!Next]_(Promise!vars)
<1> SUFFICES ASSUME IInv, [Next]_vars PROVE Promise!Next \/ UNCHANGED Promise!vars
    OBVIOUS
<1>1. TypeOK /\ Moves
    BY NextMoves DEF IInv
<1>2. \A i \in Row : Promise!Taken(i) <=> IsPlaced(i)
    BY DEF Promise!Taken, IsPlaced
<1>3. \A i \in Row : DeliveryStage(State(i)) = "open" <=> State(i) \in {"pending"} \cup InFlight
    BY <1>1 DEF TypeOK, EventRow, EventState, DeliveryStage, InFlight, Settled, State
<1>4. ASSUME NEW i \in Row, NativeAccept(i) PROVE Promise!Place(i)
    <2>1. i \in wire /\ ~IsPlaced(i) /\ State(i) \in InFlight
        BY <1>4 DEF NativeAccept, IInv, Handoff, NothingTakenIsGivenUp, AcceptedIsPlaced
    <2>2. \A j \in Row : j < i /\ events[j].binding = events[i].binding
              => DeliveryStage(State(j)) # "open"
        BY <1>3, <2>1 DEF IInv, HeadOfLine, Earlier, InFlight, Settled
    <2>3. Stages[i] = "open" /\ \A j \in Row : (j < i /\ Lanes[j] = Lanes[i]) => Stages[j] # "open"
        BY <1>3, <2>1, <2>2 DEF Stages, Lanes
    <2>4. placed' = Append(placed, i) /\ Stages' = Stages /\ Lanes' = Lanes
        BY <1>4 DEF NativeAccept, store, Stages, Lanes, State, Row
    <2>. QED
        BY <1>2, <2>1, <2>3, <2>4 DEF Promise!Place, Stages, Lanes
<1>5. ASSUME NEW b \in Binding, NEW k \in EventId, NEW s \in EventState, Ingest(b, k, s)
      PROVE  \E S \in SUBSET Row : Promise!Receive(S)
    <2>1. PICK i \in Free : /\ events'[i].binding = b /\ events'[i].state = s
                            /\ \A j \in Row \ {i} : events'[j] = events[j]
        BY <1>1, <1>5, IngestFills
    <2>2. /\ i \in Row /\ Stages[i] = "none"
          /\ \A j \in Row : j < i => Stages[j] # "none"
        <3>1. \A j \in Row : State(j) # "none" => DeliveryStage(State(j)) # "none"
            BY DEF DeliveryStage
        <3>. QED
            BY <3>1, StageValues DEF Free, Stages
    <2>3. DeliveryStage(s) \in {"open", "ignored"}
        BY <1>5, StageValues DEF Ingest
    <2> DEFINE stages == [j \in {i} |-> DeliveryStage(s)]
               lanes == [j \in {i} |-> b]
    <2>4. /\ stages \in [{i} -> {"open", "ignored"}]
          /\ Stages' = [j \in Row |-> IF j \in {i} THEN stages[j] ELSE Stages[j]]
        BY <2>1, <2>2, <2>3 DEF Stages, State, Row
    <2>5. /\ lanes \in [{i} -> Binding]
          /\ Lanes' = [j \in Row |-> IF j \in {i} THEN lanes[j] ELSE Lanes[j]]
        BY <2>1, <2>2 DEF Lanes, Row
    <2>6. placed' = placed
        BY <1>5 DEF Ingest, native
    <2>7. {i} \in SUBSET Row
        BY <2>2
    <2> HIDE DEF stages, lanes
    <2>8. Promise!Receive({i})
        BY <2>2, <2>4, <2>5, <2>6 DEF Promise!Receive, Stages, Lanes
    <2>. QED
        BY <2>7, <2>8
<1>6. ASSUME placed' = placed, SameNames,
             NEW i \in Row, State(i) # "accepted", events'[i].state = "accepted"
      PROVE  Promise!Confirm(i)
    <2>1. State(i) \in InFlight /\ IsPlaced(i)
        BY <1>1, <1>6 DEF Moves, Move, State
    <2>2. Stages[i] = "open"
        BY <1>3, <2>1 DEF Stages
    <2>3. \A j \in Row \ {i} : events'[j] = events[j]
        BY <1>6, AcceptsOne
    <2>4. Stages' = [Stages EXCEPT ![i] = "accepted"]
        BY <1>6, <2>3, StageValues DEF Stages, State, Row
    <2>5. Lanes' = Lanes
        BY <1>6 DEF SameNames, Lanes, Row
    <2>. QED
        BY <1>2, <1>6, <2>1, <2>2, <2>4, <2>5 DEF Promise!Confirm, Stages, Lanes
<1>7. ASSUME placed' = placed, SameNames,
             \A i \in Row : events'[i].state = "accepted" => State(i) = "accepted"
      PROVE  \E S \in SUBSET Row : Promise!Refuse(S)
    <2> DEFINE S == {i \in Row : State(i) \notin Settled /\ events'[i].state = "dead"}
    <2>1. ASSUME NEW i \in S PROVE Stages[i] = "open" /\ ~IsPlaced(i) /\ Stages'[i] = "refused"
        <3>1. \/ State(i) = "pending"
              \/ State(i) = "submitting" /\ job[i] \in {"permanent", "retryable"}
            BY <1>1, <2>1 DEF Moves, Move, State, Settled
        <3>2. ~IsPlaced(i)
            BY <3>1 DEF IInv, NothingTakenIsGivenUp, Handoff, InFlight
        <3>3. Stages[i] = "open"
            BY <1>3, <3>1 DEF Stages, InFlight
        <3>. QED
            BY <3>2, <3>3, StageValues DEF Stages, State, Row
    <2>2. ASSUME NEW i \in Row \ S PROVE Stages'[i] = Stages[i]
        <3>1. DeliveryStage(events'[i].state) = DeliveryStage(State(i))
            BY <1>1, <1>7, <2>2, StageValues DEF Moves, Move, State, Settled, InFlight, SameNames
        <3>. QED
            BY <3>1 DEF Stages, State, Row
    <2>3. Stages' = [i \in Row |-> IF i \in S THEN "refused" ELSE Stages[i]]
        BY <2>1, <2>2 DEF Stages, Row
    <2>4. Lanes' = Lanes
        BY <1>7 DEF SameNames, Lanes, Row
    <2>5. Promise!Refuse(S)
        BY <1>2, <1>7, <2>1, <2>3, <2>4 DEF Promise!Refuse, Stages, Lanes
    <2>. QED
        BY <2>5
<1>8. CASE placed' # placed
    <2>1. \E i \in Row : NativeAccept(i)
        BY <1>8 DEF Next, RouteStep, Dispatch, DeliverStep, ReconcileStep, NativeStep, Bind,
           PauseOrResume, RemoveRoute, RemoveWatch, Ingest, Claim, ClaimNothing, Preflight, Submit,
           LoseAnswer, FinishSettled, FinishRetryable, FinishUncertain, DeferUnavailable, DoneWith,
           Inspect, ReconcileAccept, NativeRefuse, NativeForget, GrowOld, BackoffElapses, Die,
           Start, native, vars
    <2>. QED
        BY <1>4, <2>1 DEF Promise!Next
<1>. QED
    BY <1>5, <1>6, <1>7, <1>8, NamesKept DEF Promise!Next

\* The inbox keeps what Delivery promises: each of its steps is one of
\* Delivery's, or none.
THEOREM Implements == Spec => KeepsItsPromise
<1>1. Init => Promise!Init
    BY RefinesInit
<1>2. IInv /\ [Next]_vars => [Promise!Next]_(Promise!vars)
    BY RefinesNext
<1>. QED
    BY <1>1, <1>2, Invariant, PTL DEF Spec, KeepsItsPromise, Promise!Spec
=============================================================================
