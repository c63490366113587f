--------------------------- MODULE LifecycleProofs ---------------------------
(***************************************************************************)
(* Proofs about Lifecycle and the Receiver it extends: what is delivered,   *)
(* in which order and where to, and what is told of tracked requests, for   *)
(* any routes, App Servers, events, requests, limits and deaths.            *)
(***************************************************************************)
EXTENDS Lifecycle, FiniteSetTheorems, TLAPS

-----------------------------------------------------------------------------
(* The inductive invariant of the receiver.                                *)

NotGiven(i) == \A s \in Given : s.row = i => s.nth # events[i].replays
Taken(i) == \E s \in Placed : s.row = i
InDoubt == {"submitting", "uncertain"}

RoutesOK ==
    \A b \in Binding : route[b].state # "unbound" => route[b].endpoint \in Endpoint

RowsOK ==
    \A i \in Row :
        /\ State(i) = "none" => events[i] = NoRow
        /\ State(i) # "none" =>
              /\ events[i].binding \in Binding /\ events[i].key \in Key
              /\ route[events[i].binding].state # "unbound"
              /\ \A j \in 1..(i - 1) : State(j) # "none"
        /\ State(i) = "pending" => events[i].attempts < MaxAttempts

\* An event is stored once.
KeysOnce ==
    \A i, j \in Row :
        /\ State(i) # "none" /\ State(j) # "none"
        /\ events[i].binding = events[j].binding /\ events[i].key = events[j].key
        => i = j

GivenOK ==
    /\ visible \subseteq Placed
    /\ \A s \in Given : State(s.row) # "none" /\ s.nth <= events[s.row].replays

\* No event is handed over twice without a replay.
Once ==
    /\ \A s, t \in wire : s.row = t.row /\ s.nth = t.nth => s = t
    /\ \A s \in wire, t \in Placed : s.row = t.row => s.nth # t.nth
    /\ \A m, n \in DOMAIN placed :
          m # n /\ placed[m].row = placed[n].row => placed[m].nth # placed[n].nth

Fresh ==
    \A i \in Row : State(i) \in {"pending", "dead", "ignored"} => NotGiven(i)

\* What an App Server may still read, and nobody decided about, is in doubt.
WireInDoubt ==
    \A s \in wire : ~Decided(s.row) => State(s.row) \in InDoubt

\* Nothing of a route was handed over behind an event that is open.
HeldBehind ==
    \A i \in Row : State(i) \in Unresolved /\ ~Decided(i) =>
        \A s \in Given : events[s.row].binding = events[i].binding => s.row <= i

Stands == /\ RoutesOK /\ RowsOK /\ KeysOnce /\ GivenOK /\ Once /\ Fresh
          /\ AcceptedIsTaken /\ LookedForWhereSent
          /\ WireInDoubt /\ HeldBehind /\ TakenInOrder

\* What the dispatcher works on is submitting, and its answer tells the truth.
JobOK ==
    job # NoJob =>
        /\ job.row \in Row /\ job.at # "idle" /\ serve = "running"
        /\ State(job.row) = "submitting"
        /\ job.to = Target(job.row).endpoint
        /\ job.at \in {"check", "busy", "rejected"} => NotGiven(job.row)
        /\ job.at = "sent" =>
              \A s \in Placed : s.row = job.row => s.nth # events[job.row].replays
        /\ job.at \in {"taken", "found"} => Taken(job.row)
        /\ job.at = "check" =>
              \A j \in 1..(job.row - 1) :
                  /\ events[j].binding = events[job.row].binding
                  /\ State(j) \in Unresolved
                  => Decided(j)

RInv == TypeOK /\ Stands /\ JobOK

-----------------------------------------------------------------------------
(* Steps that change one event.                                            *)

\* What may become of a stored event.
Follows(i, e) ==
    /\ e \in Event /\ State(i) # "none" /\ e.state # "none"
    /\ e.binding = events[i].binding /\ e.key = events[i].key
    /\ events[i].manual => e.manual
    /\ \/ e.replays = events[i].replays
       \/ e.replays = events[i].replays + 1 /\ e.state = "pending"
    /\ e.state = "pending" => e.attempts < MaxAttempts
    /\ e.state \in {"pending", "dead", "ignored"} /\ e.replays = events[i].replays => NotGiven(i)
    /\ e.state = "accepted" /\ ~e.manual => Taken(i)
    /\ e.state \in InDoubt => State(i) \in InDoubt \/ NotGiven(i)
    /\ e.replays = 0 /\ ~e.manual =>
          /\ (\E s \in wire : s.row = i) => e.state \in InDoubt
          /\ e.state \in Unresolved => State(i) \in Unresolved

LEMMA SettledPlaces ==
    ASSUME UNCHANGED native
    PROVE  Placed' = Placed /\ Given' = Given
  BY DEF Placed, Given, native

LEMMA GivenTypes ==
    ASSUME TypeOK
    PROVE  /\ \A s \in Given : s \in Submission /\ s.row \in Row /\ s.nth \in Nat
           /\ Placed \subseteq Given /\ wire \subseteq Given
           /\ \A n \in DOMAIN placed : placed[n] \in Placed
<1>1. wire \subseteq Submission /\ placed \in Seq(Submission)
  BY DEF TypeOK
<1>2. \A n \in DOMAIN placed : placed[n] \in Submission
  BY <1>1
<1> QED BY <1>1, <1>2, ReceiverConstants DEF Placed, Given, Submission

LEMMA EventChanges ==
    ASSUME TypeOK, Stands, NEW i \in Row, NEW e, Follows(i, e),
           events' = [events EXCEPT ![i] = e], UNCHANGED <<route, native>>
    PROVE  Stands' /\ events' \in [Row -> Event]
<1>1. Placed' = Placed /\ Given' = Given
  BY SettledPlaces
<1>2. UNCHANGED <<wire, placed, visible>> /\ route' = route
  BY DEF native
<1>3. /\ events \in [Row -> Event] /\ events' \in [Row -> Event]
      /\ events'[i] = e /\ \A j \in Row : j # i => events'[j] = events[j]
  BY DEF TypeOK, Follows
<1>4. /\ e.state # "none" /\ State(i) # "none"
      /\ e.binding = events[i].binding /\ e.key = events[i].key
      /\ e.replays >= events[i].replays /\ e.replays \in Nat /\ events[i].replays \in Nat
  BY <1>3, ReceiverConstants DEF Follows, Event
<1>5. /\ \A j \in Row : events'[j].binding = events[j].binding /\ events'[j].key = events[j].key
      /\ \A j \in Row : (events'[j].state = "none") <=> (events[j].state = "none")
  BY <1>3, <1>4 DEF State
<1>6. \A s \in Given : s \in Submission /\ s.row \in Row /\ s.nth \in Nat
  BY GivenTypes
<1>7. RoutesOK'
  BY <1>2 DEF Stands, RoutesOK
<1>8. RowsOK'
  <2> SUFFICES ASSUME NEW j \in Row
               PROVE  /\ events'[j].state = "none" => events'[j] = NoRow
                      /\ events'[j].state # "none" =>
                            /\ events'[j].binding \in Binding /\ events'[j].key \in Key
                            /\ route[events'[j].binding].state # "unbound"
                            /\ \A k \in 1..(j - 1) : events'[k].state # "none"
                      /\ events'[j].state = "pending" => events'[j].attempts < MaxAttempts
    BY <1>2 DEF RowsOK, State
  <2>1. RowsOK
    BY DEF Stands
  <2>2. \A k \in 1..(j - 1) : k \in Row
    BY ReceiverConstants DEF Row
  <2>3. CASE j = i
    BY <2>1, <2>2, <2>3, <1>3, <1>4, <1>5 DEF RowsOK, State, Follows
  <2>4. CASE j # i
    BY <2>1, <2>2, <2>4, <1>3, <1>4, <1>5 DEF RowsOK, State
  <2> QED BY <2>3, <2>4
<1>9. KeysOnce'
  BY <1>5 DEF Stands, KeysOnce, State
<1>10. GivenOK'
  <2>1. GivenOK
    BY DEF Stands
  <2> SUFFICES ASSUME NEW s \in Given
               PROVE  events'[s.row].state # "none" /\ s.nth <= events'[s.row].replays
    BY <2>1, <1>1, <1>2 DEF GivenOK, State
  <2>2. events[s.row].state # "none" /\ s.nth <= events[s.row].replays
    BY <2>1 DEF GivenOK, State
  <2> QED BY <2>2, <1>3, <1>4, <1>5, <1>6
<1>11. Once'
  BY <1>1, <1>2 DEF Stands, Once
<1>12. Fresh'
  <2> SUFFICES ASSUME NEW j \in Row, events'[j].state \in {"pending", "dead", "ignored"},
                      NEW s \in Given, s.row = j
               PROVE  s.nth # events'[j].replays
    BY <1>1 DEF Fresh, NotGiven, State
  <2>1. s.nth <= events[j].replays
    BY DEF Stands, GivenOK
  <2>2. CASE j = i /\ e.replays = events[i].replays
    BY <2>2, <1>3 DEF Follows, NotGiven
  <2>3. CASE j = i /\ e.replays # events[i].replays
    BY <2>1, <2>3, <1>3, <1>4, <1>6
  <2>4. CASE j # i
    BY <2>4, <1>3 DEF Stands, Fresh, NotGiven, State
  <2> QED BY <2>2, <2>3, <2>4
<1>13. AcceptedIsTaken'
  <2> SUFFICES ASSUME NEW j \in Row, events'[j].state = "accepted", ~events'[j].manual
               PROVE  \E s \in Placed : s.row = j
    BY <1>1 DEF AcceptedIsTaken, State
  <2>1. CASE j = i
    BY <2>1, <1>3 DEF Follows, Taken
  <2>2. CASE j # i
    BY <2>2, <1>3 DEF Stands, AcceptedIsTaken, State
  <2> QED BY <2>1, <2>2
<1>14. LookedForWhereSent'
  <2> SUFFICES ASSUME NEW s \in Given, s.nth = events'[s.row].replays,
                      events'[s.row].state \in {"submitting", "uncertain"}
               PROVE  s.to = route[events'[s.row].binding].endpoint
    BY <1>1, <1>2 DEF LookedForWhereSent, State, Target
  <2>1. LookedForWhereSent
    BY DEF Stands
  <2>2. CASE s.row = i
    <3>1. e.replays = events[i].replays
      BY <2>2, <1>3 DEF Follows
    <3>2. State(i) \in InDoubt
      BY <2>2, <3>1, <1>3 DEF Follows, InDoubt, NotGiven
    <3> QED BY <2>1, <2>2, <3>1, <3>2, <1>3, <1>4 DEF LookedForWhereSent, State, Target, InDoubt
  <2>3. CASE s.row # i
    BY <2>1, <2>3, <1>3, <1>6 DEF LookedForWhereSent, State, Target
  <2> QED BY <2>2, <2>3
<1>15. \A j \in Row : Decided(j) => Decided(j)'
  BY <1>3, <1>4 DEF Decided, Follows
<1>16. WireInDoubt'
  <2> SUFFICES ASSUME NEW s \in wire, ~Decided(s.row)'
               PROVE  events'[s.row].state \in InDoubt
    BY <1>2 DEF WireInDoubt, State
  <2>1. s.row \in Row
    BY GivenTypes
  <2>2. CASE s.row = i
    BY <2>2, <1>3, <1>4 DEF Follows, Decided
  <2>3. CASE s.row # i
    BY <2>1, <2>3, <1>3, <1>15 DEF Stands, WireInDoubt, State
  <2> QED BY <2>2, <2>3
<1>17. HeldBehind'
  <2> SUFFICES ASSUME NEW j \in Row, events'[j].state \in Unresolved, ~Decided(j)',
                      NEW s \in Given, events'[s.row].binding = events'[j].binding
               PROVE  s.row <= j
    BY <1>1 DEF HeldBehind, State
  <2>1. State(j) \in Unresolved /\ ~Decided(j)
    <3>1. CASE j = i
      BY <3>1, <1>3, <1>4, <1>15 DEF Follows, Decided
    <3>2. CASE j # i
      BY <3>2, <1>3, <1>15 DEF State
    <3> QED BY <3>1, <3>2
  <2>2. events[s.row].binding = events[j].binding
    BY <1>5, <1>6
  <2> QED BY <2>1, <2>2 DEF Stands, HeldBehind
<1>18. TakenInOrder'
  <2> SUFFICES ASSUME NEW m \in DOMAIN placed, NEW n \in DOMAIN placed, m < n,
                      events'[placed[m].row].binding = events'[placed[n].row].binding
               PROVE  placed[m].row <= placed[n].row \/ Decided(placed[n].row)'
    BY <1>2 DEF TakenInOrder
  <2>1. placed[m].row \in Row /\ placed[n].row \in Row
    BY GivenTypes
  <2>2. events[placed[m].row].binding = events[placed[n].row].binding
    BY <2>1, <1>5
  <2>3. placed[m].row <= placed[n].row \/ Decided(placed[n].row)
    BY <2>2 DEF Stands, TakenInOrder
  <2> QED BY <2>1, <2>3, <1>2, <1>15 DEF Decided
<1> QED
  BY <1>3, <1>7, <1>8, <1>9, <1>10, <1>11, <1>12, <1>13, <1>14, <1>16, <1>17, <1>18 DEF Stands

-----------------------------------------------------------------------------
(* Steps that store an event.                                              *)

LEMMA Inserted ==
    ASSUME TypeOK, Stands, NEW i \in Row, NEW b \in Binding, NEW k \in Key,
           NEW state \in {"pending", "ignored"}, Insert(i, b, k, state),
           UNCHANGED <<route, native>>
    PROVE  /\ Stands' /\ events' \in [Row -> Event]
           /\ events'[i].key = k /\ events'[i].binding = b /\ events'[i].state = state
           /\ State(i) = "none"
           /\ \A j \in Row : j # i => events'[j] = events[j]
           /\ \A j \in Row : State(j) # "none" => j < i
<1> DEFINE e == NewRow(b, k, state)
<1>1. Placed' = Placed /\ Given' = Given
  BY SettledPlaces
<1>2. UNCHANGED <<wire, placed, visible>> /\ route' = route
  BY DEF native
<1>3. /\ e \in Event /\ e.binding = b /\ e.key = k /\ e.state = state /\ e.attempts = 0
      /\ e.replays = 0 /\ e.manual = FALSE
  <2>1. e = [binding |-> b, key |-> k, state |-> state, attempts |-> 0,
             due |-> TRUE, old |-> FALSE, replays |-> 0, manual |-> FALSE]
    BY DEF NewRow
  <2>2. 0 \in 0..MaxAttempts /\ 0 \in 0..MaxReplays
    BY ReceiverConstants
  <2>3. state \in {"none"} \cup Unresolved \cup Settled
    BY DEF Unresolved, Settled
  <2> HIDE DEF e
  <2> QED BY <2>1, <2>2, <2>3 DEF Event
<1> HIDE DEF e
<1>4. events' = [events EXCEPT ![i] = e] /\ Free(i) /\ ~Known(b, k) /\ route[b].state = "enabled"
  BY DEF Insert, e
<1>5. /\ events \in [Row -> Event] /\ events' \in [Row -> Event]
      /\ events'[i] = e /\ \A j \in Row : j # i => events'[j] = events[j]
  BY <1>3, <1>4 DEF TypeOK
<1>6. State(i) = "none" /\ \A j \in 1..(i - 1) : State(j) # "none"
  BY <1>4 DEF Free
<1>7. \A j \in Row : State(j) # "none" => j < i
  <2> SUFFICES ASSUME NEW j \in Row, State(j) # "none", ~(j < i) PROVE FALSE
    OBVIOUS
  <2>1. j # i /\ j \in Nat /\ i \in Nat /\ i \in 1..(j - 1)
    BY <1>6, ReceiverConstants DEF Row
  <2> QED BY <2>1, <1>6 DEF Stands, RowsOK
<1>8. \A s \in Given : s \in Submission /\ s.row \in Row /\ s.nth \in Nat /\ s.row # i /\ s.row < i
  BY <1>6, <1>7, GivenTypes DEF Stands, GivenOK
<1>9. RoutesOK'
  BY <1>2 DEF Stands, RoutesOK
<1>10. RowsOK'
  <2> SUFFICES ASSUME NEW j \in Row
               PROVE  /\ events'[j].state = "none" => events'[j] = NoRow
                      /\ events'[j].state # "none" =>
                            /\ events'[j].binding \in Binding /\ events'[j].key \in Key
                            /\ route[events'[j].binding].state # "unbound"
                            /\ \A n \in 1..(j - 1) : events'[n].state # "none"
                      /\ events'[j].state = "pending" => events'[j].attempts < MaxAttempts
    BY <1>2 DEF RowsOK, State
  <2>1. RowsOK
    BY DEF Stands
  <2>2. \A n \in 1..(j - 1) : n \in Row
    BY ReceiverConstants DEF Row
  <2>3. CASE j = i
    <3>1. \A n \in 1..(i - 1) : n # i /\ events'[n].state # "none"
      BY <2>2, <2>3, <1>5, <1>6 DEF State, Row
    <3>2. MaxAttempts > 0
      BY ReceiverConstants
    <3> QED BY <2>3, <3>1, <3>2, <1>3, <1>4, <1>5
  <2>4. CASE j # i
    <3>1. \A n \in 1..(j - 1) : State(n) # "none" => events'[n].state # "none"
      BY <2>2, <1>3, <1>5 DEF State
    <3> QED BY <2>1, <2>4, <3>1, <1>5 DEF RowsOK, State
  <2> QED BY <2>3, <2>4
<1>11. KeysOnce'
  <2> SUFFICES ASSUME NEW m \in Row, NEW n \in Row,
                      events'[m].state # "none", events'[n].state # "none",
                      events'[m].binding = events'[n].binding, events'[m].key = events'[n].key,
                      m # n
               PROVE  FALSE
    BY DEF KeysOnce, State
  <2>1. CASE m = i
    BY <2>1, <1>3, <1>4, <1>5 DEF Known
  <2>2. CASE n = i
    BY <2>2, <1>3, <1>4, <1>5 DEF Known
  <2>3. CASE m # i /\ n # i
    BY <2>3, <1>5 DEF Stands, KeysOnce, State
  <2> QED BY <2>1, <2>2, <2>3
<1>12. \A s \in Given : events'[s.row] = events[s.row]
  BY <1>5, <1>8
<1>13. GivenOK'
  BY <1>1, <1>2, <1>12 DEF Stands, GivenOK, State
<1>14. Once'
  BY <1>1, <1>2 DEF Stands, Once
<1>15. Fresh'
  <2> SUFFICES ASSUME NEW j \in Row, events'[j].state \in {"pending", "dead", "ignored"},
                      NEW s \in Given, s.row = j
               PROVE  s.nth # events'[j].replays
    BY <1>1 DEF Fresh, NotGiven, State
  <2> QED BY <1>5, <1>8, <1>12 DEF Stands, Fresh, NotGiven, State
<1>16. AcceptedIsTaken'
  BY <1>1, <1>3, <1>5 DEF Stands, AcceptedIsTaken, State
<1>17. LookedForWhereSent'
  BY <1>1, <1>2, <1>12 DEF Stands, LookedForWhereSent, State, Target
<1>18. WireInDoubt'
  BY <1>2, <1>12, GivenTypes DEF Stands, WireInDoubt, State, Decided
<1>19. HeldBehind'
  <2> SUFFICES ASSUME NEW j \in Row, events'[j].state \in Unresolved, ~Decided(j)',
                      NEW s \in Given, events'[s.row].binding = events'[j].binding
               PROVE  s.row <= j
    BY <1>1 DEF HeldBehind, State
  <2>1. CASE j = i
    BY <2>1, <1>8 DEF Row
  <2>2. CASE j # i
    BY <2>2, <1>5, <1>12 DEF Stands, HeldBehind, State, Decided
  <2> QED BY <2>1, <2>2
<1>20. TakenInOrder'
  <2>1. \A n \in DOMAIN placed : events'[placed[n].row] = events[placed[n].row]
    BY <1>12, GivenTypes
  <2> QED BY <2>1, <1>2 DEF Stands, TakenInOrder, Decided
<1> QED
  BY <1>3, <1>5, <1>6, <1>7, <1>9, <1>10, <1>11, <1>13, <1>14, <1>15, <1>16, <1>17, <1>18, <1>19, <1>20
  DEF Stands

-----------------------------------------------------------------------------
(* Steps of the routes.                                                    *)

\* A route may move when nothing of it is in doubt.
LEMMA RouteChanges ==
    ASSUME TypeOK, Stands, NEW b \in Binding, NEW r,
           r.state # "unbound", r.endpoint \in Endpoint,
           \/ r.endpoint = route[b].endpoint
           \/ \A i \in Row : State(i) \in InDoubt => events[i].binding # b,
           route' = [route EXCEPT ![b] = r], UNCHANGED <<events, native>>
    PROVE  Stands'
<1>1. Placed' = Placed /\ Given' = Given
  BY SettledPlaces
<1>2. UNCHANGED <<wire, placed, visible>> /\ events' = events
  BY DEF native
<1>3. /\ route'[b] = r /\ \A c \in Binding : c # b => route'[c] = route[c]
  BY DEF TypeOK
<1>4. RoutesOK'
  BY <1>3 DEF Stands, RoutesOK
<1>5. RowsOK'
  BY <1>2, <1>3 DEF Stands, RowsOK, State
<1>6. LookedForWhereSent'
  <2> SUFFICES ASSUME NEW s \in Given, s.nth = events[s.row].replays,
                      State(s.row) \in {"submitting", "uncertain"}
               PROVE  s.to = route'[events[s.row].binding].endpoint
    BY <1>1, <1>2 DEF LookedForWhereSent, State, Target
  <2>1. s.to = Target(s.row).endpoint
    BY DEF Stands, LookedForWhereSent
  <2>2. s.row \in Row /\ events[s.row].binding \in Binding
    BY GivenTypes DEF Stands, RowsOK, GivenOK
  <2> QED BY <2>1, <2>2, <1>3 DEF Target, InDoubt
<1>7. /\ KeysOnce' /\ GivenOK' /\ Once' /\ Fresh' /\ AcceptedIsTaken'
      /\ WireInDoubt' /\ HeldBehind' /\ TakenInOrder'
  BY <1>1, <1>2 DEF Stands, KeysOnce, GivenOK, Once, Fresh, AcceptedIsTaken, WireInDoubt,
                    HeldBehind, TakenInOrder, State, Decided, NotGiven
<1> QED BY <1>4, <1>5, <1>6, <1>7 DEF Stands

-----------------------------------------------------------------------------
(* What the dispatcher and the operator make of an event.                  *)

Keeps(e, f) == f.binding = e.binding /\ f.key = e.key

LEMMA SettleFields ==
    ASSUME NEW e \in Event, NEW state \in Settled \cup {"pending"}
    PROVE  /\ Settle(e, state) \in Event /\ Keeps(e, Settle(e, state))
           /\ Settle(e, state).state = state /\ Settle(e, state).attempts = 0
           /\ Settle(e, state).replays = e.replays /\ Settle(e, state).manual = e.manual
<1>1. 0 \in 0..MaxAttempts /\ state \in {"none"} \cup Unresolved \cup Settled
  BY ReceiverConstants DEF Unresolved
<1> QED BY <1>1 DEF Settle, Event, Keeps

LEMMA DeferFields ==
    ASSUME NEW e \in Event, NEW state \in Unresolved
    PROVE  /\ Defer(e, state) \in Event /\ Keeps(e, Defer(e, state))
           /\ Defer(e, state).state = state /\ Defer(e, state).attempts = e.attempts
           /\ Defer(e, state).replays = e.replays /\ Defer(e, state).manual = e.manual
  BY DEF Defer, Event, Keeps

LEMMA NoJobIsOK ==
    ASSUME job' = NoJob
    PROVE  JobOK'
  BY DEF JobOK

\* What the dispatcher works on stands when its event and route do.
LEMMA JobStays ==
    ASSUME TypeOK, JobOK, UNCHANGED <<job, serve, native>>, events' \in [Row -> Event],
           job # NoJob =>
              /\ events'[job.row].state = events[job.row].state
              /\ events'[job.row].replays = events[job.row].replays
              /\ events'[job.row].binding = events[job.row].binding
              /\ route'[events[job.row].binding].endpoint = route[events[job.row].binding].endpoint
              /\ \A j \in 1..(job.row - 1) :
                    /\ events'[j].binding = events[job.row].binding
                    /\ events'[j].state \in Unresolved
                    /\ events'[j].replays = 0 /\ ~events'[j].manual
                    => /\ events[j].binding = events[job.row].binding
                       /\ State(j) \in Unresolved /\ ~Decided(j)
    PROVE  JobOK'
<1>1. Placed' = Placed /\ Given' = Given
  BY SettledPlaces
<1> SUFFICES ASSUME job # NoJob
             PROVE  /\ job.row \in Row /\ job.at # "idle" /\ serve = "running"
                    /\ events'[job.row].state = "submitting"
                    /\ job.to = route'[events'[job.row].binding].endpoint
                    /\ job.at \in {"check", "busy", "rejected"} =>
                          \A s \in Given : s.row = job.row => s.nth # events'[job.row].replays
                    /\ job.at = "sent" =>
                          \A s \in Placed : s.row = job.row => s.nth # events'[job.row].replays
                    /\ job.at \in {"taken", "found"} => \E s \in Placed : s.row = job.row
                    /\ job.at = "check" =>
                          \A j \in 1..(job.row - 1) :
                              /\ events'[j].binding = events'[job.row].binding
                              /\ events'[j].state \in Unresolved
                              => Decided(j)'
  BY <1>1 DEF JobOK, State, Target, NotGiven, Taken
<1>2. /\ job.row \in Row /\ job.at # "idle" /\ serve = "running"
      /\ State(job.row) = "submitting"
      /\ job.to = Target(job.row).endpoint
      /\ job.at \in {"check", "busy", "rejected"} => NotGiven(job.row)
      /\ job.at = "sent" =>
            \A s \in Placed : s.row = job.row => s.nth # events[job.row].replays
      /\ job.at \in {"taken", "found"} => Taken(job.row)
      /\ job.at = "check" =>
            \A j \in 1..(job.row - 1) :
                /\ events[j].binding = events[job.row].binding
                /\ State(j) \in Unresolved
                => Decided(j)
  BY DEF JobOK
<1>3. ASSUME job.at = "check", NEW j \in 1..(job.row - 1),
             events'[j].binding = events'[job.row].binding, events'[j].state \in Unresolved
      PROVE  Decided(j)'
  <2>1. j \in Row
    BY <1>2, ReceiverConstants DEF Row
  <2>2. ~(events'[j].replays = 0 /\ ~events'[j].manual)
    BY <1>2, <1>3
  <2>3. CASE events'[j].manual
    BY <2>3 DEF Decided
  <2>4. CASE events'[j].replays # 0
    <3>1. events'[j].replays \in Nat
      BY <2>1, ReceiverConstants DEF Event
    <3> QED BY <2>4, <3>1 DEF Decided
  <2> QED BY <2>2, <2>3, <2>4
<1> QED BY <1>2, <1>3 DEF State, Target, NotGiven, Taken

LEMMA StoresOK ==
    ASSUME RInv, NEW i \in Row, NEW e, Follows(i, e), Stores(i, e)
    PROVE  RInv'
<1>1. events' = [events EXCEPT ![i] = e] /\ job' = NoJob /\ UNCHANGED <<route, serve, native>>
  BY DEF Stores
<1>2. Stands' /\ events' \in [Row -> Event]
  BY <1>1, EventChanges DEF RInv
<1>3. JobOK'
  BY <1>1, NoJobIsOK
<1>4. TypeOK'
  BY <1>1, <1>2 DEF RInv, TypeOK, NoJob, native
<1> QED BY <1>2, <1>3, <1>4 DEF RInv

\* What is known of the event the dispatcher works on.
LEMMA AtRow ==
    ASSUME RInv, NEW i \in Row, NEW step, At(i, step)
    PROVE  /\ job # NoJob /\ job.row = i /\ job.at = step
           /\ State(i) = "submitting" /\ events[i] \in Event
           /\ events[i].replays \in Nat
           /\ step \in {"check", "busy", "rejected"} => NotGiven(i)
           /\ step \in {"taken", "found"} => Taken(i)
           /\ NotGiven(i) /\ ~Decided(i) => \A s \in wire : s.row # i
           /\ Taken(i) /\ ~Decided(i) => \A s \in wire : s.row # i
<1>1. job # NoJob /\ job.row = i /\ job.at = step
  BY ReceiverConstants DEF At, NoJob, Row
<1>2. events[i] \in Event /\ events[i].replays \in Nat
  BY ReceiverConstants DEF RInv, TypeOK, Event
<1>3. \A s \in Given : s.row = i /\ ~Decided(i) => s.nth = 0 /\ events[i].replays = 0
  BY <1>2, GivenTypes DEF RInv, Stands, GivenOK, Decided
<1>4. wire \subseteq Given /\ Placed \subseteq Given
  BY GivenTypes DEF RInv
<1>5. NotGiven(i) /\ ~Decided(i) => \A s \in wire : s.row # i
  BY <1>3, <1>4 DEF NotGiven
<1>6. Taken(i) /\ ~Decided(i) => \A s \in wire : s.row # i
  <2>1. \A s \in wire, t \in Placed : s.row = t.row => s.nth # t.nth
    BY DEF RInv, Stands, Once
  <2> QED BY <2>1, <1>3, <1>4 DEF Taken
<1> QED BY <1>1, <1>2, <1>5, <1>6 DEF RInv, JobOK

LEMMA UnavailableOK ==
    ASSUME RInv, NEW i \in Row, Unavailable(i)
    PROVE  RInv'
<1> DEFINE d == Defer(events[i], "pending")
           e == [d EXCEPT !.attempts = IF @ > 0 THEN @ - 1 ELSE 0]
<1>1. At(i, "check") /\ Stores(i, e)
  BY DEF Unavailable
<1>2. /\ State(i) = "submitting" /\ events[i] \in Event /\ NotGiven(i)
      /\ ~Decided(i) => \A s \in wire : s.row # i
  BY <1>1, AtRow
<1>3. /\ d \in Event /\ Keeps(events[i], d) /\ d.state = "pending"
      /\ d.attempts = events[i].attempts
      /\ d.replays = events[i].replays /\ d.manual = events[i].manual
  BY <1>2, DeferFields DEF Unresolved
<1> HIDE DEF d
<1>4. /\ d.attempts \in 0..MaxAttempts /\ MaxAttempts \in Nat \ {0}
  BY <1>3, ReceiverConstants DEF Event
<1>5. (IF d.attempts > 0 THEN d.attempts - 1 ELSE 0) \in 0..(MaxAttempts - 1)
  BY <1>4
<1>6. /\ e \in Event /\ e.binding = d.binding /\ e.key = d.key /\ e.state = d.state
      /\ e.replays = d.replays /\ e.manual = d.manual
      /\ e.attempts < MaxAttempts
  BY <1>3, <1>4, <1>5 DEF Event
<1> HIDE DEF e
<1>7. Follows(i, e)
  BY <1>2, <1>3, <1>6 DEF Follows, Keeps, InDoubt, Unresolved, State, Decided
<1> QED BY <1>1, <1>7, StoresOK

LEMMA UncertainOK ==
    ASSUME RInv, NEW i \in Row, Uncertain(i) \/ NotFound(i)
    PROVE  RInv'
<1> DEFINE e == Defer(events[i], "uncertain")
<1>1. PICK step : At(i, step)
  BY DEF Uncertain, NotFound
<1>2. Stores(i, e)
  BY DEF Uncertain, NotFound
<1>3. State(i) = "submitting" /\ events[i] \in Event
  BY <1>1, AtRow
<1>4. /\ e \in Event /\ Keeps(events[i], e) /\ e.state = "uncertain"
      /\ e.replays = events[i].replays /\ e.manual = events[i].manual
  BY <1>3, DeferFields DEF Unresolved
<1> HIDE DEF e
<1>5. Follows(i, e)
  BY <1>3, <1>4 DEF Follows, Keeps, InDoubt, Unresolved, State
<1> QED BY <1>2, <1>5, StoresOK

LEMMA PermanentOK ==
    ASSUME RInv, NEW i \in Row, Permanent(i)
    PROVE  RInv'
<1> DEFINE e == Settle(events[i], "dead")
<1>1. PICK step \in {"check", "rejected"} : At(i, step)
  BY DEF Permanent
<1>2. Stores(i, e)
  BY DEF Permanent
<1>3. /\ State(i) = "submitting" /\ events[i] \in Event /\ NotGiven(i)
      /\ ~Decided(i) => \A s \in wire : s.row # i
  BY <1>1, AtRow
<1>4. /\ e \in Event /\ Keeps(events[i], e) /\ e.state = "dead"
      /\ e.replays = events[i].replays /\ e.manual = events[i].manual
  BY <1>3, SettleFields DEF Settled
<1> HIDE DEF e
<1>5. Follows(i, e)
  BY <1>3, <1>4 DEF Follows, Keeps, InDoubt, Unresolved, State, Decided
<1> QED BY <1>2, <1>5, StoresOK

LEMMA RetryableOK ==
    ASSUME RInv, NEW i \in Row, Retryable(i)
    PROVE  RInv'
<1>1. At(i, "busy")
  BY DEF Retryable
<1>2. /\ State(i) = "submitting" /\ events[i] \in Event /\ NotGiven(i)
      /\ ~Decided(i) => \A s \in wire : s.row # i
  BY <1>1, AtRow
<1>3. CASE events[i].attempts >= MaxAttempts
  <2> DEFINE e == Settle(events[i], "dead")
  <2>1. Stores(i, e)
    BY <1>3 DEF Retryable
  <2>2. /\ e \in Event /\ Keeps(events[i], e) /\ e.state = "dead"
        /\ e.replays = events[i].replays /\ e.manual = events[i].manual
    BY <1>2, SettleFields DEF Settled
  <2> HIDE DEF e
  <2>3. Follows(i, e)
    BY <1>2, <2>2 DEF Follows, Keeps, InDoubt, Unresolved, State, Decided
  <2> QED BY <2>1, <2>3, StoresOK
<1>4. CASE ~(events[i].attempts >= MaxAttempts)
  <2> DEFINE e == Defer(events[i], "pending")
  <2>1. Stores(i, e)
    BY <1>4 DEF Retryable
  <2>2. /\ e \in Event /\ Keeps(events[i], e) /\ e.state = "pending"
        /\ e.attempts = events[i].attempts
        /\ e.replays = events[i].replays /\ e.manual = events[i].manual
    BY <1>2, DeferFields DEF Unresolved
  <2> HIDE DEF e
  <2>3. e.attempts < MaxAttempts
    BY <1>2, <1>4, <2>2, ReceiverConstants DEF Event
  <2>4. Follows(i, e)
    BY <1>2, <2>2, <2>3 DEF Follows, Keeps, InDoubt, Unresolved, State, Decided
  <2> QED BY <2>1, <2>4, StoresOK
<1> QED BY <1>3, <1>4

LEMMA AcceptedOK ==
    ASSUME RInv, NEW i \in Row, Accepted(i)
    PROVE  RInv'
<1> DEFINE e == Settle(events[i], "accepted")
<1>1. PICK step \in {"taken", "found"} : At(i, step)
  BY DEF Accepted
<1>2. Stores(i, e)
  BY DEF Accepted
<1>3. /\ State(i) = "submitting" /\ events[i] \in Event /\ Taken(i)
      /\ ~Decided(i) => \A s \in wire : s.row # i
  BY <1>1, AtRow
<1>4. /\ e \in Event /\ Keeps(events[i], e) /\ e.state = "accepted"
      /\ e.replays = events[i].replays /\ e.manual = events[i].manual
  BY <1>3, SettleFields DEF Settled
<1> HIDE DEF e
<1>5. Follows(i, e)
  BY <1>3, <1>4 DEF Follows, Keeps, InDoubt, Unresolved, State, Decided
<1> QED BY <1>2, <1>5, StoresOK

LEMMA StoreFailsOK ==
    ASSUME RInv, StoreFails \/ Die
    PROVE  RInv'
<1>1. job' = NoJob /\ UNCHANGED <<route, events, native>> /\ serve' \in {"down", "running"}
  BY DEF StoreFails, Die, store, RInv, TypeOK
<1>2. Placed' = Placed /\ Given' = Given /\ UNCHANGED <<wire, placed, visible>>
  BY <1>1, SettledPlaces DEF native
<1>3. Stands'
  BY <1>1, <1>2 DEF RInv, Stands, RoutesOK, RowsOK, KeysOnce, GivenOK, Once, Fresh, AcceptedIsTaken,
        LookedForWhereSent, WireInDoubt, HeldBehind, TakenInOrder, State, Decided, NotGiven, Target
<1>4. JobOK'
  BY <1>1, NoJobIsOK
<1>5. TypeOK'
  BY <1>1, <1>2 DEF RInv, TypeOK, NoJob
<1> QED BY <1>3, <1>4, <1>5 DEF RInv

LEMMA StartOK ==
    ASSUME RInv, Start
    PROVE  RInv'
<1>1. job = NoJob /\ job' = NoJob
  BY DEF RInv, JobOK, Start
<1>2. UNCHANGED <<route, events, wire, placed, visible>> /\ serve' = "running"
  BY DEF Start, store, native
<1>3. Placed' = Placed /\ Given' = Given
  BY <1>2, SettledPlaces DEF native
<1>4. Stands'
  BY <1>2, <1>3 DEF RInv, Stands, RoutesOK, RowsOK, KeysOnce, GivenOK, Once, Fresh, AcceptedIsTaken,
        LookedForWhereSent, WireInDoubt, HeldBehind, TakenInOrder, State, Decided, NotGiven, Target
<1>5. TypeOK'
  BY <1>1, <1>2 DEF RInv, TypeOK, NoJob
<1> QED BY <1>1, <1>4, <1>5, NoJobIsOK DEF RInv

LEMMA InspectOK ==
    ASSUME RInv, NEW i \in Row, Inspect(i)
    PROVE  RInv'
<1>1. job # NoJob /\ job.row = i /\ job.at = "look"
  BY AtRow DEF Inspect
<1>2. Taken(i)
  BY DEF Inspect, RInv, Stands, GivenOK, Taken
<1>3. /\ UNCHANGED <<route, events, serve, wire, placed, visible>>
      /\ job' = [job EXCEPT !.at = "found"]
  BY DEF Inspect, To, store, native
<1>4. Placed' = Placed /\ Given' = Given
  BY <1>3, SettledPlaces DEF native
<1>5. Stands'
  BY <1>3, <1>4 DEF RInv, Stands, RoutesOK, RowsOK, KeysOnce, GivenOK, Once, Fresh, AcceptedIsTaken,
        LookedForWhereSent, WireInDoubt, HeldBehind, TakenInOrder, State, Decided, NotGiven, Target
<1>6. TypeOK'
  BY <1>3 DEF RInv, TypeOK
<1>7. job'.row = job.row /\ job'.to = job.to /\ job'.at = "found"
  BY <1>3 DEF RInv, TypeOK
<1>8. JobOK'
  BY <1>1, <1>2, <1>3, <1>4, <1>7 DEF RInv, JobOK, State, Target, Taken
<1> QED BY <1>5, <1>6, <1>8 DEF RInv

LEMMA SubmitOK ==
    ASSUME RInv, NEW i \in Row, Submit(i)
    PROVE  RInv'
<1> DEFINE s == [row |-> i, nth |-> events[i].replays, to |-> job.to]
<1>1. /\ job # NoJob /\ job.row = i /\ job.at = "check" /\ State(i) = "submitting"
      /\ NotGiven(i) /\ events[i] \in Event /\ events[i].replays \in Nat
  BY AtRow DEF Submit
<1>2. /\ UNCHANGED <<route, events, serve, placed, visible>>
      /\ wire' = wire \cup {s} /\ job' = [job EXCEPT !.at = "sent"]
  BY DEF Submit, To, store
<1>3. /\ job.to = Target(i).endpoint /\ Target(i).endpoint \in Endpoint
      /\ events[i].binding \in Binding
  BY <1>1 DEF RInv, JobOK, Stands, RowsOK, RoutesOK, Target
<1>4. s \in Submission /\ s.row = i /\ s.nth = events[i].replays /\ s.to = job.to
  BY <1>1, <1>3 DEF Submission, Event
<1> HIDE DEF s
<1>5. Placed' = Placed /\ Given' = Given \cup {s}
  BY <1>2 DEF Placed, Given
<1>6. \A t \in Given : t.row = i => t.nth # s.nth
  BY <1>1, <1>4 DEF NotGiven
<1>7. wire \subseteq Given /\ Placed \subseteq Given /\ \A t \in Given : t.row \in Row
  BY GivenTypes DEF RInv
<1>8. GivenOK' /\ AcceptedIsTaken' /\ RoutesOK' /\ RowsOK' /\ KeysOnce'
  BY <1>1, <1>2, <1>4, <1>5
  DEF RInv, Stands, GivenOK, AcceptedIsTaken, RoutesOK, RowsOK, KeysOnce, State
<1>9. Once'
  BY <1>2, <1>4, <1>5, <1>6, <1>7 DEF RInv, Stands, Once
<1>10. Fresh'
  BY <1>1, <1>2, <1>4, <1>5 DEF RInv, Stands, Fresh, NotGiven, State
<1>11. LookedForWhereSent'
  BY <1>2, <1>3, <1>4, <1>5 DEF RInv, Stands, LookedForWhereSent, State, Target
<1>12. WireInDoubt'
  BY <1>1, <1>2, <1>4 DEF RInv, Stands, WireInDoubt, State, Decided, InDoubt
<1>13. HeldBehind'
  <2> SUFFICES ASSUME NEW j \in Row, State(j) \in Unresolved, ~Decided(j),
                      NEW t \in Given \cup {s}, events[t.row].binding = events[j].binding
               PROVE  t.row <= j
    BY <1>2, <1>5 DEF HeldBehind, State, Decided
  <2>1. CASE t \in Given
    BY <2>1 DEF RInv, Stands, HeldBehind
  <2>2. CASE t = s
    <3>1. ~(j \in 1..(i - 1))
      BY <1>1, <1>4, <2>2 DEF RInv, JobOK
    <3> QED BY <3>1, <2>2, <1>4, ReceiverConstants DEF Row
  <2> QED BY <2>1, <2>2
<1>14. TakenInOrder'
  BY <1>2 DEF RInv, Stands, TakenInOrder, Decided
<1>15. TypeOK'
  BY <1>2, <1>4 DEF RInv, TypeOK
<1>16. job'.row = i /\ job'.to = job.to /\ job'.at = "sent" /\ job # NoJob
  BY <1>1, <1>2 DEF RInv, TypeOK
<1>17. JobOK'
  BY <1>1, <1>2, <1>3, <1>5, <1>7, <1>16 DEF RInv, JobOK, State, Target, NotGiven
<1> QED BY <1>8, <1>9, <1>10, <1>11, <1>12, <1>13, <1>14, <1>15, <1>17 DEF RInv, Stands

-----------------------------------------------------------------------------
(* Steps of an App Server.                                                 *)

LEMMA TakeOK ==
    ASSUME RInv, NEW s \in wire, Take(s)
    PROVE  RInv'
<1> DEFINE i == s.row
<1>1. /\ UNCHANGED <<route, events, serve>> /\ wire' = wire \ {s}
      /\ placed' = Append(placed, s) /\ visible' = visible \cup {s}
      /\ IF Awaited(s) THEN job' = [job EXCEPT !.at = "taken"] ELSE job' = job
  BY DEF Take, store, Answer, To
<1>2. /\ s \in Submission /\ s.row \in Row /\ s.nth \in Nat
      /\ Placed \subseteq Given /\ wire \subseteq Given
      /\ \A t \in Given : t.row \in Row /\ t.nth \in Nat
      /\ \A n \in DOMAIN placed : placed[n] \in Placed
  BY GivenTypes DEF RInv
<1>3. placed \in Seq(Submission) /\ Len(placed) \in Nat /\ DOMAIN placed = 1..Len(placed)
  BY DEF RInv, TypeOK
<1>4. /\ placed' \in Seq(Submission) /\ DOMAIN placed' = 1..(Len(placed) + 1)
      /\ placed'[Len(placed) + 1] = s
      /\ \A n \in DOMAIN placed : placed'[n] = placed[n]
  BY <1>1, <1>2, <1>3
<1>5. Placed' = Placed \cup {s}
  BY <1>3, <1>4 DEF Placed
<1>6. Given' = Given
  BY <1>1, <1>5, <1>2 DEF Given
<1>7. \A n \in DOMAIN placed' :
         \/ n \in DOMAIN placed /\ placed'[n] = placed[n]
         \/ n = Len(placed) + 1 /\ placed'[n] = s /\ n \notin DOMAIN placed
  BY <1>3, <1>4
<1>8. /\ GivenOK' /\ AcceptedIsTaken' /\ RoutesOK' /\ RowsOK' /\ KeysOnce' /\ Fresh'
      /\ LookedForWhereSent' /\ WireInDoubt' /\ HeldBehind'
  BY <1>1, <1>5, <1>6
  DEF RInv, Stands, GivenOK, AcceptedIsTaken, RoutesOK, RowsOK, KeysOnce, Fresh,
      LookedForWhereSent, WireInDoubt, HeldBehind, State, Decided, NotGiven, Target
<1>9. Once'
  <2>1. Once
    BY DEF RInv, Stands
  <2>2. \A x, y \in wire' : x.row = y.row /\ x.nth = y.nth => x = y
    BY <2>1, <1>1 DEF Once
  <2>3. \A x \in wire', y \in Placed' : x.row = y.row => x.nth # y.nth
    BY <2>1, <1>1, <1>5 DEF Once
  <2>4. ASSUME NEW m \in DOMAIN placed', NEW n \in DOMAIN placed', m # n,
               placed'[m].row = placed'[n].row
        PROVE  placed'[m].nth # placed'[n].nth
    <3>1. CASE m \in DOMAIN placed /\ n \in DOMAIN placed
      BY <2>1, <2>4, <3>1, <1>4 DEF Once
    <3>2. CASE m \notin DOMAIN placed
      <4>1. placed'[m] = s /\ placed'[n] \in Placed
        BY <3>2, <2>4, <1>2, <1>7
      <4> QED BY <4>1, <2>1, <2>4 DEF Once
    <3>3. CASE n \notin DOMAIN placed
      <4>1. placed'[n] = s /\ placed'[m] \in Placed
        BY <3>3, <2>4, <1>2, <1>7
      <4> QED BY <4>1, <2>1, <2>4 DEF Once
    <3> QED BY <3>1, <3>2, <3>3
  <2> QED BY <2>2, <2>3, <2>4 DEF Once
<1>10. TakenInOrder'
  <2> SUFFICES ASSUME NEW m \in DOMAIN placed', NEW n \in DOMAIN placed', m < n,
                      events[placed'[m].row].binding = events[placed'[n].row].binding
               PROVE  placed'[m].row <= placed'[n].row \/ Decided(placed'[n].row)
    BY <1>1 DEF TakenInOrder, Decided
  <2>1. CASE n \in DOMAIN placed
    <3>1. m \in DOMAIN placed
      BY <2>1, <1>3, <1>7
    <3> QED BY <2>1, <3>1, <1>4 DEF RInv, Stands, TakenInOrder
  <2>2. CASE n \notin DOMAIN placed
    <3>1. placed'[n] = s /\ m \in DOMAIN placed /\ placed'[m] \in Placed
      BY <2>2, <1>2, <1>3, <1>7
    <3>2. ~Decided(s.row) => State(s.row) \in Unresolved
      BY DEF RInv, Stands, WireInDoubt, InDoubt, Unresolved
    <3> QED BY <3>1, <3>2, <1>2 DEF RInv, Stands, HeldBehind
  <2> QED BY <2>1, <2>2
<1>11. TypeOK'
  BY <1>1, <1>2, <1>4 DEF RInv, TypeOK, Answers
<1>12. JobOK'
  <2>1. CASE Awaited(s)
    <3>1. At(s.row, "sent") /\ job # NoJob /\ job.row = s.row
      BY <2>1, <1>2, AtRow DEF Awaited
    <3>2. job'.row = job.row /\ job'.to = job.to /\ job'.at = "taken"
      BY <2>1, <1>1 DEF RInv, TypeOK
    <3>3. Taken(job.row)'
      BY <3>1, <3>2, <1>5 DEF Taken
    <3> QED BY <3>1, <3>2, <3>3, <1>1 DEF RInv, JobOK, State, Target, Taken
  <2>2. CASE ~Awaited(s)
    <3>1. job.at = "sent" /\ job.row = s.row => s.nth # events[job.row].replays
      BY <2>2 DEF Awaited, At
    <3> QED BY <2>2, <3>1, <1>1, <1>5, <1>6 DEF RInv, JobOK, State, Target, NotGiven, Taken, Decided
  <2> QED BY <2>1, <2>2
<1> QED BY <1>8, <1>9, <1>10, <1>11, <1>12 DEF RInv, Stands

LEMMA RefuseOK ==
    ASSUME RInv, NEW s \in wire, Refuse(s)
    PROVE  RInv'
<1>1. PICK step \in {"busy", "rejected"} :
         /\ UNCHANGED <<route, events, serve, placed, visible>> /\ wire' = wire \ {s}
         /\ IF Awaited(s) THEN job' = [job EXCEPT !.at = step] ELSE job' = job
  BY DEF Refuse, store, Answer, To
<1>2. s \in Submission /\ s.row \in Row /\ Given' \subseteq Given /\ Placed' = Placed
  BY <1>1, GivenTypes DEF RInv, Given, Placed
<1>3. Stands'
  BY <1>1, <1>2 DEF RInv, Stands, RoutesOK, RowsOK, KeysOnce, GivenOK, Once, Fresh, AcceptedIsTaken,
        LookedForWhereSent, WireInDoubt, HeldBehind, TakenInOrder, State, Decided, NotGiven, Target
<1>4. TypeOK'
  BY <1>1 DEF RInv, TypeOK, Answers
<1>5. JobOK'
  <2>1. CASE Awaited(s)
    <3>1. /\ At(s.row, "sent") /\ job # NoJob /\ job.row = s.row /\ job.at = "sent"
          /\ s.nth = events[s.row].replays
      BY <2>1, <1>2, AtRow DEF Awaited
    <3>2. job'.row = job.row /\ job'.to = job.to /\ job'.at = step
      BY <2>1, <1>1 DEF RInv, TypeOK
    <3>3. \A t \in Given' : t.row = s.row => t.nth # events[s.row].replays
      BY <3>1, <1>1, <1>2 DEF RInv, JobOK, Stands, Once, Given
    <3>4. NotGiven(job.row)'
      BY <3>1, <3>2, <3>3, <1>1 DEF NotGiven
    <3> QED BY <3>1, <3>2, <3>4, <1>1, <1>2 DEF RInv, JobOK, State, Target
  <2>2. CASE ~Awaited(s)
    BY <2>2, <1>1, <1>2 DEF RInv, JobOK, State, Target, NotGiven, Taken, Decided
  <2> QED BY <2>1, <2>2
<1> QED BY <1>3, <1>4, <1>5 DEF RInv

LEMMA ForgetOK ==
    ASSUME RInv, NEW s \in visible, Forget(s)
    PROVE  RInv'
<1>1. /\ UNCHANGED <<route, events, serve, job, wire, placed>> /\ visible' = visible \ {s}
  BY DEF Forget, store
<1>2. Given' = Given /\ Placed' = Placed
  BY <1>1 DEF Given, Placed
<1>3. Stands'
  BY <1>1, <1>2 DEF RInv, Stands, RoutesOK, RowsOK, KeysOnce, GivenOK, Once, Fresh, AcceptedIsTaken,
        LookedForWhereSent, WireInDoubt, HeldBehind, TakenInOrder, State, Decided, NotGiven, Target
<1>4. JobOK'
  BY <1>1, <1>2 DEF RInv, JobOK, State, Target, NotGiven, Taken, Decided
<1>5. TypeOK'
  BY <1>1 DEF RInv, TypeOK
<1> QED BY <1>3, <1>4, <1>5 DEF RInv

-----------------------------------------------------------------------------
(* Steps of the dispatcher, of the operator and of time.                   *)

LEMMA StoredEvent ==
    ASSUME RInv, NEW i \in Row
    PROVE  /\ events[i] \in Event /\ events[i].replays \in Nat
           /\ State(i) \in {"none"} \cup Unresolved \cup Settled
           /\ ~Decided(i) <=> (events[i].replays = 0 /\ ~events[i].manual)
           /\ State(i) \in {"pending", "dead", "ignored"} => NotGiven(i)
           /\ State(i) \notin InDoubt /\ ~Decided(i) => \A s \in wire : s.row # i
           /\ job # NoJob => job.row \in Row /\ State(job.row) = "submitting"
<1>1. events[i] \in Event /\ events[i].replays \in Nat
  BY ReceiverConstants DEF RInv, TypeOK, Event
<1>2. State(i) \in {"none"} \cup Unresolved \cup Settled
  BY <1>1 DEF State, Event
<1>3. ~Decided(i) <=> (events[i].replays = 0 /\ ~events[i].manual)
  BY <1>1 DEF Decided
<1> QED BY <1>1, <1>2, <1>3 DEF RInv, Stands, Fresh, WireInDoubt, JobOK

\* One event changes, and the dispatcher works on another one or on none.
LEMMA OthersStand ==
    ASSUME RInv, NEW i \in Row, NEW e, Follows(i, e),
           events' = [events EXCEPT ![i] = e], UNCHANGED <<route, serve, job, native>>,
           job # NoJob /\ job.row = i => e.state = "submitting" /\ e.replays = events[i].replays
    PROVE  RInv'
<1>1. Stands' /\ events' \in [Row -> Event]
  BY EventChanges DEF RInv
<1>2. /\ events'[i] = e /\ \A j \in Row : j # i => events'[j] = events[j]
  BY DEF RInv, TypeOK
<1>3. /\ e.binding = events[i].binding
      /\ e.replays = 0 /\ ~e.manual => events[i].replays = 0 /\ ~events[i].manual
      /\ e.state \in Unresolved /\ e.replays = 0 /\ ~e.manual => State(i) \in Unresolved
  BY StoredEvent DEF Follows
<1>4. ASSUME job # NoJob
      PROVE  /\ events'[job.row].state = events[job.row].state
             /\ events'[job.row].replays = events[job.row].replays
             /\ events'[job.row].binding = events[job.row].binding
             /\ \A j \in 1..(job.row - 1) :
                   /\ events'[j].binding = events[job.row].binding
                   /\ events'[j].state \in Unresolved
                   /\ events'[j].replays = 0 /\ ~events'[j].manual
                   => /\ events[j].binding = events[job.row].binding
                      /\ State(j) \in Unresolved /\ ~Decided(j)
  <2>1. job.row \in Row /\ State(job.row) = "submitting"
    BY <1>4, StoredEvent
  <2>2. \A j \in 1..(job.row - 1) : j \in Row
    BY <2>1, ReceiverConstants DEF Row
  <2>3. \A j \in Row : ~Decided(j) <=> (events[j].replays = 0 /\ ~events[j].manual)
    BY StoredEvent
  <2> QED BY <1>2, <1>3, <1>4, <2>1, <2>2, <2>3 DEF State
<1>5. JobOK'
  BY <1>1, <1>4, JobStays DEF RInv
<1>6. TypeOK'
  BY <1>1 DEF RInv, TypeOK, native
<1> QED BY <1>1, <1>5, <1>6 DEF RInv

LEMMA ExpireOK ==
    ASSUME RInv, NEW i \in Row, Expire(i)
    PROVE  RInv'
<1> DEFINE e == Settle(events[i], "dead")
<1>1. /\ State(i) = "pending" /\ events' = [events EXCEPT ![i] = e]
      /\ UNCHANGED <<route, serve, job, native>>
  BY DEF Expire
<1>2. events[i] \in Event
  BY StoredEvent
<1>3. /\ NotGiven(i) /\ ~(job # NoJob /\ job.row = i)
      /\ ~Decided(i) => \A s \in wire : s.row # i
  BY <1>1, StoredEvent DEF InDoubt
<1>4. events[i].replays = 0 /\ ~events[i].manual => \A s \in wire : s.row # i
  BY <1>3 DEF Decided
<1>5. /\ e \in Event /\ Keeps(events[i], e) /\ e.state = "dead"
      /\ e.replays = events[i].replays /\ e.manual = events[i].manual
  BY <1>2, SettleFields DEF Settled
<1> HIDE DEF e
<1>6. Follows(i, e)
  BY <1>1, <1>3, <1>4, <1>5 DEF Follows, Keeps, InDoubt, Unresolved, State
<1> QED BY <1>1, <1>3, <1>6, OthersStand

LEMMA TimeOK ==
    ASSUME RInv, NEW i \in Row, DueComes(i) \/ GrowOld(i)
    PROVE  RInv'
<1>1. PICK e \in Event :
         /\ events' = [events EXCEPT ![i] = e] /\ Keeps(events[i], e)
         /\ e.state = events[i].state /\ e.attempts = events[i].attempts
         /\ e.replays = events[i].replays /\ e.manual = events[i].manual
  <2>1. events[i] \in Event
    BY StoredEvent
  <2>2. CASE DueComes(i)
    <3> DEFINE e == [events[i] EXCEPT !.due = TRUE]
    <3>1. events' = [events EXCEPT ![i] = e]
      BY <2>2 DEF DueComes
    <3>2. /\ e \in Event /\ Keeps(events[i], e)
          /\ e.state = events[i].state /\ e.attempts = events[i].attempts
          /\ e.replays = events[i].replays /\ e.manual = events[i].manual
      BY <2>1 DEF Event, Keeps
    <3> QED BY <3>1, <3>2
  <2>3. CASE GrowOld(i)
    <3> DEFINE e == [events[i] EXCEPT !.old = TRUE]
    <3>1. events' = [events EXCEPT ![i] = e]
      BY <2>3 DEF GrowOld
    <3>2. /\ e \in Event /\ Keeps(events[i], e)
          /\ e.state = events[i].state /\ e.attempts = events[i].attempts
          /\ e.replays = events[i].replays /\ e.manual = events[i].manual
      BY <2>1 DEF Event, Keeps
    <3> QED BY <3>1, <3>2
  <2> QED BY <2>2, <2>3
<1>2. UNCHANGED <<route, serve, job, native>> /\ State(i) # "none"
  <2>1. CASE DueComes(i)
    BY <2>1 DEF DueComes, RInv, Stands, RowsOK, NoRow, NewRow
  <2>2. CASE GrowOld(i)
    BY <2>2 DEF GrowOld
  <2> QED BY <2>1, <2>2
<1>3. /\ State(i) \in {"pending", "dead", "ignored"} => NotGiven(i)
      /\ State(i) \notin InDoubt /\ ~Decided(i) => \A s \in wire : s.row # i
      /\ ~Decided(i) <=> (events[i].replays = 0 /\ ~events[i].manual)
      /\ job # NoJob /\ job.row = i => State(i) = "submitting"
  BY StoredEvent
<1>4. /\ State(i) = "pending" => events[i].attempts < MaxAttempts
      /\ State(i) = "accepted" /\ ~events[i].manual => Taken(i)
  BY DEF RInv, Stands, RowsOK, AcceptedIsTaken, Taken
<1>5. Follows(i, e)
  BY <1>1, <1>2, <1>3, <1>4 DEF Follows, Keeps, State
<1> QED BY <1>1, <1>2, <1>3, <1>5, OthersStand DEF State

LEMMA ResolveOK ==
    ASSUME RInv, NEW i \in Row, resolve(i)
    PROVE  RInv'
<1>1. /\ serve = "down" /\ State(i) \in {"uncertain", "dead"}
      /\ UNCHANGED <<route, serve, job, native>>
  BY DEF resolve
<1>2. job = NoJob
  BY <1>1 DEF RInv, JobOK
<1>3. /\ events[i] \in Event /\ events[i].replays \in Nat
  BY StoredEvent
<1>4. CASE \E state \in {"accepted", "discarded"} :
             events' = [events EXCEPT ![i] = ByHand(@, state)]
  <2>1. PICK state \in {"accepted", "discarded"} :
             events' = [events EXCEPT ![i] = ByHand(events[i], state)]
    BY <1>4
  <2> DEFINE d == Settle(events[i], state)
             e == ByHand(events[i], state)
  <2>2. events' = [events EXCEPT ![i] = e]
    BY <2>1
  <2>3. /\ d \in Event /\ Keeps(events[i], d) /\ d.state = state
        /\ d.replays = events[i].replays
    BY <1>3, SettleFields DEF Settled
  <2>4. e = [d EXCEPT !.manual = TRUE]
    BY DEF ByHand
  <2> HIDE DEF d, e
  <2>5. /\ e \in Event /\ Keeps(events[i], e) /\ e.state = state
        /\ e.replays = events[i].replays /\ e.manual = TRUE
    BY <2>3, <2>4 DEF Event, Keeps
  <2>6. Follows(i, e)
    BY <1>1, <2>5 DEF Follows, Keeps, InDoubt, Unresolved, State
  <2> QED BY <1>1, <1>2, <2>2, <2>6, OthersStand
<1>5. CASE /\ events[i].replays < MaxReplays
           /\ events' = [events EXCEPT ![i] = Replay(@)]
  <2> DEFINE d == Settle(events[i], "pending")
             e == Replay(events[i])
  <2>1. /\ d \in Event /\ Keeps(events[i], d) /\ d.state = "pending" /\ d.attempts = 0
        /\ d.replays = events[i].replays /\ d.manual = events[i].manual
    BY <1>3, SettleFields
  <2>2. events' = [events EXCEPT ![i] = e]
    BY <1>5
  <2>3. e = [d EXCEPT !.replays = events[i].replays + 1]
    BY DEF Replay
  <2> HIDE DEF d, e
  <2>4. d.replays + 1 \in 0..MaxReplays /\ 0 < MaxAttempts
    BY <2>1, <1>3, <1>5, ReceiverConstants
  <2>5. /\ e \in Event /\ Keeps(events[i], e) /\ e.state = "pending" /\ e.attempts = 0
        /\ e.replays = events[i].replays + 1 /\ e.manual = events[i].manual
    BY <2>1, <2>4, <2>3 DEF Event, Keeps
  <2>6. Follows(i, e)
    BY <1>1, <1>3, <2>4, <2>5 DEF Follows, Keeps, InDoubt, Unresolved, State
  <2> QED BY <1>1, <1>2, <2>2, <2>6, OthersStand
<1> QED BY <1>4, <1>5 DEF resolve

\* What a dispatch makes of the event and of the job, whatever it will do next.
LEMMA Dispatched ==
    ASSUME RInv, NEW i \in Row, Dispatch(i), NEW e, NEW at \in {"check", "look"},
           events' = [events EXCEPT ![i] = e],
           job' = [row |-> i, to |-> Target(i).endpoint, at |-> at],
           e \in Event, Keeps(events[i], e), e.state = "submitting",
           e.replays = events[i].replays, e.manual = events[i].manual,
           at = "check" => State(i) = "pending"
    PROVE  RInv'
<1>1. /\ serve = "running" /\ State(i) \in Unresolved /\ HeadOfLine(i)
      /\ UNCHANGED <<route, serve, native>>
  BY DEF Dispatch, Eligible
<1>2. events[i].replays \in Nat
  BY StoredEvent
<1>3. ~Decided(i) => ~(\E s \in wire : s.row = i) \/ State(i) \in InDoubt
  BY DEF RInv, Stands, WireInDoubt
<1>4. State(i) = "pending" => NotGiven(i)
  BY StoredEvent
<1>5. Follows(i, e)
  <2>1. e.binding = events[i].binding /\ e.key = events[i].key /\ State(i) # "none"
    BY <1>1 DEF Keeps, Unresolved
  <2>2. State(i) \in InDoubt \/ NotGiven(i)
    BY <1>1, <1>4 DEF InDoubt, Unresolved
  <2> QED BY <1>1, <2>1, <2>2 DEF Follows, InDoubt
<1>6. Stands' /\ events' \in [Row -> Event]
  BY <1>1, <1>5, EventChanges DEF RInv
<1>7. Target(i).endpoint \in Endpoint
  BY <1>1 DEF RInv, Stands, RoutesOK, RowsOK, Target, Unresolved
<1>8. TypeOK'
  BY <1>1, <1>6, <1>7 DEF RInv, TypeOK, native
<1>9. JobOK'
  <2>1. /\ events'[i] = e /\ \A j \in Row : j # i => events'[j] = events[j]
    BY DEF RInv, TypeOK
  <2>2. Placed' = Placed /\ Given' = Given
    BY <1>1, SettledPlaces
  <2>3. /\ job'.row = i /\ job'.at = at /\ job'.to = Target(i).endpoint
    OBVIOUS
  <2>4. at = "check" => NotGiven(i)'
    BY <1>4, <2>1, <2>2 DEF NotGiven
  <2>5. ASSUME NEW j \in 1..(i - 1), events'[j].binding = events'[i].binding
        PROVE  events'[j].state \notin Unresolved
    <3>1. j \in Row /\ j # i
      BY ReceiverConstants DEF Row
    <3> QED BY <3>1, <2>1, <2>5, <1>1 DEF HeadOfLine, Keeps, State
  <2>6. /\ State(i)' = "submitting" /\ Target(i)' = Target(i)
    BY <1>1, <2>1 DEF State, Target, Keeps
  <2> QED BY <1>1, <2>3, <2>4, <2>5, <2>6 DEF JobOK, State, Target
<1> QED BY <1>6, <1>8, <1>9 DEF RInv

LEMMA DispatchOK ==
    ASSUME RInv, NEW i \in Row, Dispatch(i)
    PROVE  RInv'
<1>1. events[i] \in Event
  BY StoredEvent
<1>2. CASE State(i) = "pending"
  <2> DEFINE e == [events[i] EXCEPT !.state = "submitting", !.attempts = @ + 1]
  <2>1. events' = [events EXCEPT ![i].state = "submitting", ![i].attempts = @ + 1]
    BY <1>2 DEF Dispatch
  <2>2. job' = [row |-> i, to |-> Target(i).endpoint, at |-> "check"]
    BY <1>2 DEF Dispatch
  <2>3. events' = [events EXCEPT ![i] = e]
    BY <2>1, <1>1 DEF RInv, TypeOK, Event
  <2>4. events[i].attempts + 1 \in 0..MaxAttempts
    <3>1. events[i].attempts < MaxAttempts
      BY <1>2 DEF RInv, Stands, RowsOK
    <3> QED BY <3>1, <1>1, ReceiverConstants DEF Event
  <2>5. e \in Event
    BY <1>1, <2>4 DEF Event, Unresolved
  <2>6. /\ Keeps(events[i], e) /\ e.state = "submitting" /\ e.replays = events[i].replays
    BY <1>1 DEF Event, Keeps
  <2>7. e.manual = events[i].manual
    BY <1>1 DEF Event
  <2> HIDE DEF e
  <2> QED BY <1>2, <2>2, <2>3, <2>5, <2>6, <2>7, Dispatched
<1>3. CASE State(i) # "pending"
  <2> DEFINE e == [events[i] EXCEPT !.state = "submitting"]
  <2>1. events' = [events EXCEPT ![i].state = "submitting"]
    BY <1>3 DEF Dispatch
  <2>2. job' = [row |-> i, to |-> Target(i).endpoint, at |-> "look"]
    BY <1>3 DEF Dispatch
  <2>3. events' = [events EXCEPT ![i] = e]
    BY <2>1, <1>1 DEF RInv, TypeOK, Event
  <2>5. e \in Event
    BY <1>1 DEF Event, Unresolved
  <2>6. /\ Keeps(events[i], e) /\ e.state = "submitting" /\ e.replays = events[i].replays
    BY <1>1 DEF Event, Keeps
  <2>7. e.manual = events[i].manual
    BY <1>1 DEF Event
  <2> HIDE DEF e
  <2> QED BY <1>3, <2>2, <2>3, <2>5, <2>6, <2>7, Dispatched
<1> QED BY <1>2, <1>3

-----------------------------------------------------------------------------
(* Steps of the commands and the senders.                                  *)

LEMMA CommandOK ==
    ASSUME RInv, NEW b \in Binding,
           \/ \E e \in Endpoint : bind(b, e) \/ rebind(b, e)
           \/ \E state \in {"enabled", "paused", "removed"} : RouteAction(b, state)
    PROVE  RInv'
<1>1. route[b] \in [state : {"unbound", "enabled", "paused", "removed"},
                    endpoint : Endpoint \cup {None}]
  BY DEF RInv, TypeOK
<1>2. PICK r \in [state : {"enabled", "paused", "removed"}, endpoint : Endpoint] :
         /\ route' = [route EXCEPT ![b] = r] /\ UNCHANGED <<events, serve, job, native>>
         /\ \/ r.endpoint = route[b].endpoint
            \/ \A i \in Row : State(i) \in InDoubt => events[i].binding # b
  <2>1. CASE \E e \in Endpoint : bind(b, e)
    <3>1. PICK e \in Endpoint : bind(b, e)
      BY <2>1
    <3>2. \A i \in Row : State(i) \in InDoubt => events[i].binding # b
      BY <3>1 DEF bind, RInv, Stands, RowsOK, InDoubt
    <3> QED BY <3>1, <3>2 DEF bind
  <2>2. CASE \E e \in Endpoint : rebind(b, e)
    <3>1. PICK e \in Endpoint : rebind(b, e)
      BY <2>2
    <3> DEFINE r == [route[b] EXCEPT !.endpoint = e]
    <3>2. /\ route' = [route EXCEPT ![b] = r] /\ UNCHANGED <<events, serve, job, native>>
          /\ \A i \in Row : State(i) \in InDoubt => events[i].binding # b
          /\ route[b].state \in {"enabled", "paused"}
      BY <3>1 DEF rebind, InDoubt
    <3>3. r \in [state : {"enabled", "paused", "removed"}, endpoint : Endpoint]
      BY <1>1, <3>2
    <3> HIDE DEF r
    <3> QED BY <3>2, <3>3
  <2>3. CASE \E state \in {"enabled", "paused", "removed"} : RouteAction(b, state)
    <3>1. PICK state \in {"enabled", "paused", "removed"} : RouteAction(b, state)
      BY <2>3
    <3> DEFINE r == [route[b] EXCEPT !.state = state]
    <3>2. /\ route' = [route EXCEPT ![b] = r] /\ UNCHANGED <<events, serve, job, native>>
          /\ route[b].state \in {"enabled", "paused"}
      BY <3>1 DEF RouteAction
    <3>3. route[b].endpoint \in Endpoint
      BY <3>2 DEF RInv, Stands, RoutesOK
    <3>4. r \in [state : {"enabled", "paused", "removed"}, endpoint : Endpoint]
          /\ r.endpoint = route[b].endpoint
      BY <1>1, <3>3
    <3> HIDE DEF r
    <3> QED BY <3>2, <3>4
  <2> QED BY <2>1, <2>2, <2>3
<1>3. Stands'
  BY <1>2, RouteChanges DEF RInv
<1>4. /\ route'[b] = r /\ \A c \in Binding : c # b => route'[c] = route[c]
  BY <1>2 DEF RInv, TypeOK
<1>5. TypeOK'
  BY <1>2 DEF RInv, TypeOK, native
<1>6. job # NoJob =>
         /\ job.row \in Row /\ events[job.row].binding \in Binding
         /\ route'[events[job.row].binding].endpoint = route[events[job.row].binding].endpoint
  <2>1. job # NoJob => /\ job.row \in Row /\ State(job.row) \in InDoubt
                       /\ events[job.row].binding \in Binding
    BY DEF RInv, JobOK, Stands, RowsOK, InDoubt
  <2> QED BY <2>1, <1>2, <1>4
<1>7. \A j \in Row : ~(events[j].replays = 0 /\ ~events[j].manual) \/ ~Decided(j)
  BY DEF Decided
<1>8. JobOK'
  <2>1. Placed' = Placed /\ Given' = Given
    BY <1>2, SettledPlaces
  <2> QED BY <1>2, <1>6, <2>1 DEF RInv, JobOK, State, Target, NotGiven, Taken, Decided
<1> QED BY <1>3, <1>5, <1>8 DEF RInv

\* An event is stored, by a sender or by the pump.
LEMMA InsertOK ==
    ASSUME RInv, NEW i \in Row, NEW b \in Binding, NEW k \in Key,
           NEW state \in {"pending", "ignored"}, Insert(i, b, k, state),
           UNCHANGED <<route, serve, job, native>>
    PROVE  RInv'
<1>1. /\ Stands' /\ events' \in [Row -> Event] /\ State(i) = "none"
      /\ \A j \in Row : j # i => events'[j] = events[j]
      /\ \A j \in Row : State(j) # "none" => j < i
  BY Inserted DEF RInv
<1>2. TypeOK'
  BY <1>1 DEF RInv, TypeOK, native
<1>3. ASSUME job # NoJob
      PROVE  /\ job.row \in Row /\ events'[job.row] = events[job.row]
             /\ \A j \in 1..(job.row - 1) : j \in Row /\ events'[j] = events[j]
  <2>1. job.row \in Row /\ State(job.row) = "submitting" /\ job.row < i
    BY <1>1, <1>3 DEF RInv, JobOK
  <2>2. \A j \in 1..(job.row - 1) : j \in Row /\ j # i
    BY <2>1, ReceiverConstants DEF Row
  <2> QED BY <2>1, <2>2, <1>1 DEF Row
<1>4. \A j \in Row : ~Decided(j) <=> (events[j].replays = 0 /\ ~events[j].manual)
  BY StoredEvent
<1>5. JobOK'
  BY <1>1, <1>3, <1>4, JobStays DEF RInv, State
<1> QED BY <1>1, <1>2, <1>5 DEF RInv

LEMMA ReceiverStepOK ==
    ASSUME RInv, Next
    PROVE  RInv'
<1>1. ASSUME Commands PROVE RInv'
  BY <1>1, CommandOK, ResolveOK DEF Commands
<1>2. ASSUME Senders PROVE RInv'
  BY <1>2, InsertOK DEF Senders, ingest
<1>3. ASSUME dispatch_once PROVE RInv'
  BY <1>3, ExpireOK, DispatchOK, SubmitOK, InspectOK, UnavailableOK, UncertainOK, PermanentOK,
     RetryableOK, AcceptedOK, StoreFailsOK DEF dispatch_once
<1>4. ASSUME AppServer PROVE RInv'
  BY <1>4, TakeOK, RefuseOK, ForgetOK DEF AppServer
<1>5. ASSUME Time PROVE RInv'
  BY <1>5, TimeOK DEF Time
<1>6. ASSUME Start \/ Die PROVE RInv'
  BY <1>6, StartOK, StoreFailsOK
<1> QED BY <1>1, <1>2, <1>3, <1>4, <1>5, <1>6 DEF Next

LEMMA ReceiverInit ==
    ASSUME Init
    PROVE  RInv
<1>1. /\ wire = {} /\ placed = <<>> /\ visible = {} /\ Placed = {} /\ Given = {}
      /\ job = NoJob /\ serve = "down"
  BY DEF Init, Placed, Given
<1>2. NoRow \in Event /\ NoRow.state = "none" /\ NoRow.key = None
  <2>1. NoRow = [binding |-> None, key |-> None, state |-> "none", attempts |-> 0,
                 due |-> TRUE, old |-> FALSE, replays |-> 0, manual |-> FALSE]
    BY DEF NoRow, NewRow
  <2>2. 0 \in 0..MaxAttempts /\ 0 \in 0..MaxReplays
    BY ReceiverConstants
  <2> QED BY <2>1, <2>2 DEF Event
<1>3. /\ events \in [Row -> Event] /\ \A i \in Row : events[i] = NoRow /\ State(i) = "none"
  BY <1>2 DEF Init, State
<1>4. TypeOK
  <2>1. job \in [row : Row \cup {None}, to : Endpoint \cup {None},
                 at : {"idle", "check", "sent", "look", "found"} \cup Answers]
    BY <1>1 DEF NoJob
  <2> QED BY <1>1, <1>3, <2>1 DEF TypeOK, Init
<1>5. RoutesOK
  BY DEF Init, RoutesOK
<1>6. RowsOK /\ KeysOnce /\ Fresh /\ HeldBehind /\ AcceptedIsTaken
  BY <1>3 DEF RowsOK, KeysOnce, Fresh, HeldBehind, AcceptedIsTaken, Unresolved
<1>7. GivenOK /\ Once /\ WireInDoubt /\ LookedForWhereSent /\ TakenInOrder
  BY <1>1 DEF GivenOK, Once, WireInDoubt, LookedForWhereSent, TakenInOrder
<1>8. JobOK
  BY <1>1 DEF JobOK
<1> QED BY <1>4, <1>5, <1>6, <1>7, <1>8 DEF RInv, Stands

-----------------------------------------------------------------------------
(* Each step of the receiver is a step of Delivery, or none.               *)

Stages == [i \in Row |-> DeliveryStage(State(i))]
Lanes == [i \in Row |-> events[i].binding]
Rows == [n \in DOMAIN placed |-> placed[n].row]

LEMMA StageValues ==
    /\ DeliveryStage("none") = "none" /\ DeliveryStage("dead") = "refused"
    /\ DeliveryStage("accepted") = "accepted" /\ DeliveryStage("ignored") = "ignored"
    /\ \A state : DeliveryStage(state) = "open" <=> state \in Unresolved \/ state = "open"
  BY DEF DeliveryStage, Unresolved

LEMMA PromiseTaken ==
    ASSUME NEW i
    PROVE  Promise!Taken(i) <=> Taken(i)
  BY DEF Promise!Taken, Taken, Placed

LEMMA OpenStage ==
    ASSUME TypeOK, NEW i \in Row
    PROVE  Stages[i] = "open" <=> State(i) \in Unresolved
<1>1. State(i) # "open"
  BY DEF TypeOK, Event, State, Unresolved, Settled
<1> QED BY <1>1, StageValues DEF Stages

\* What was never handed over, and nobody decided about, is not taken.
LEMMA NotGivenNotTaken ==
    ASSUME TypeOK, Stands, NEW i \in Row, NotGiven(i), ~Decided(i)
    PROVE  ~Taken(i)
<1>1. events[i].replays \in Nat
  BY ReceiverConstants DEF TypeOK, Event
<1>2. \A s \in Placed : s \in Given /\ s.nth \in Nat
  BY GivenTypes
<1> QED BY <1>1, <1>2 DEF Stands, GivenOK, NotGiven, Taken, Decided

\* Nothing of the promise changes.
LEMMA PromiseStutters ==
    ASSUME placed' = placed,
           \A i \in Row : /\ events'[i].binding = events[i].binding
                          /\ events'[i].state = events[i].state
    PROVE  UNCHANGED Promise!vars
<1>1. Stages' = Stages /\ Lanes' = Lanes /\ Rows' = Rows
  BY DEF Stages, Lanes, Rows, State
<1> QED BY <1>1 DEF Promise!vars, Stages, Lanes, Rows

\* An event that is open goes on, is taken and confirmed, or is given up.
LEMMA OpenEventRefines ==
    ASSUME TypeOK, Stands, Undecided', NEW i \in Row, State(i) \in Unresolved,
           NEW e, Keeps(events[i], e),
           e.replays = events[i].replays, e.manual = events[i].manual,
           \/ e.state \in Unresolved
           \/ e.state = "accepted" /\ Taken(i)
           \/ e.state = "dead" /\ NotGiven(i),
           events' = [events EXCEPT ![i] = e], placed' = placed
    PROVE  [Promise!Next]_(Promise!vars)
<1>1. /\ events'[i] = e /\ \A j \in Row : j # i => events'[j] = events[j]
  BY DEF TypeOK
<1>2. ~Decided(i)
  BY <1>1 DEF Undecided, Decided
<1>3. Lanes' = Lanes /\ Rows' = Rows
  BY <1>1 DEF Lanes, Rows, Keeps
<1>4. Stages' = [Stages EXCEPT ![i] = DeliveryStage(e.state)]
  <2>1. Stages' = [j \in Row |-> DeliveryStage(events'[j].state)]
    BY DEF Stages, State
  <2>2. \A j \in Row : DeliveryStage(events'[j].state) =
                         IF j = i THEN DeliveryStage(e.state) ELSE DeliveryStage(State(j))
    BY <1>1 DEF State
  <2> QED BY <2>1, <2>2 DEF Stages
<1>5. Stages[i] = "open" /\ Stages \in [Row -> {Stages[j] : j \in Row}]
  BY OpenStage DEF Stages
<1>6. CASE e.state \in Unresolved
  <2>1. Stages' = Stages
    BY <1>4, <1>5, <1>6, StageValues
  <2> QED BY <2>1, <1>3 DEF Promise!vars, Stages, Lanes, Rows
<1>7. CASE e.state = "accepted" /\ Taken(i)
  <2>1. Promise!Confirm(i)
    BY <1>3, <1>4, <1>5, <1>7, PromiseTaken, StageValues
    DEF Promise!Confirm, Stages, Lanes, Rows
  <2> QED BY <2>1 DEF Promise!Next
<1>8. CASE e.state = "dead" /\ NotGiven(i)
  <2>1. ~Promise!Taken(i)
    BY <1>2, <1>8, NotGivenNotTaken, PromiseTaken
  <2>2. Stages' = [j \in Row |-> IF j \in {i} THEN "refused" ELSE Stages[j]]
    BY <1>4, <1>5, <1>8, StageValues
  <2>3. Promise!Refuse({i})
    BY <2>1, <2>2, <1>3, <1>5 DEF Promise!Refuse, Stages, Lanes, Rows
  <2>4. {i} \in SUBSET Row
    OBVIOUS
  <2> QED BY <2>3, <2>4 DEF Promise!Next
<1> QED BY <1>6, <1>7, <1>8

\* Senders and the pump store an event.
LEMMA InsertRefines ==
    ASSUME TypeOK, Stands, NEW i \in Row, NEW b \in Binding, NEW k \in Key,
           NEW state \in {"pending", "ignored"}, Insert(i, b, k, state),
           UNCHANGED <<route, native>>
    PROVE  [Promise!Next]_(Promise!vars)
<1>1. /\ events'[i].binding = b /\ events'[i].state = state /\ State(i) = "none"
      /\ \A j \in Row : j # i => events'[j] = events[j]
  BY Inserted
<1>2. /\ DeliveryStage(state) \in {"open", "ignored"} /\ Stages[i] = "none"
      /\ \A j \in Row : j < i => Stages[j] # "none"
  <2>1. \A j \in Row : j < i => j \in 1..(i - 1) /\ State(j) # "none"
    BY DEF Insert, Free, Row
  <2>2. \A j \in Row : State(j) # "none" => DeliveryStage(State(j)) # "none"
    BY DEF DeliveryStage
  <2> QED BY <1>1, <2>1, <2>2, StageValues DEF Stages, Unresolved
<1> DEFINE stages == [j \in {i} |-> DeliveryStage(state)]
           lanes == [j \in {i} |-> b]
<1>3. /\ stages \in [{i} -> {"open", "ignored"}] /\ lanes \in [{i} -> Binding]
      /\ Stages' = [j \in Row |-> IF j \in {i} THEN stages[j] ELSE Stages[j]]
      /\ Lanes' = [j \in Row |-> IF j \in {i} THEN lanes[j] ELSE Lanes[j]]
  BY <1>1, <1>2 DEF Stages, Lanes, State
<1>4. Rows' = Rows
  BY DEF Rows, native
<1> HIDE DEF stages, lanes
<1>5. Promise!Receive({i})
  BY <1>2, <1>3, <1>4 DEF Promise!Receive, Stages, Lanes, Rows
<1>6. {i} \in SUBSET Row
  OBVIOUS
<1> QED BY <1>5, <1>6 DEF Promise!Next

\* thread/queue/add: the event is open, was not taken, and every earlier one of
\* its route is settled.
LEMMA TakeRefines ==
    ASSUME RInv, Undecided', NEW s \in wire, Take(s)
    PROVE  [Promise!Next]_(Promise!vars)
<1> DEFINE i == s.row
<1>1. UNCHANGED events /\ placed' = Append(placed, s)
  BY DEF Take, store
<1>2. \A j \in Row : ~Decided(j)
  BY <1>1 DEF Undecided, Decided
<1>3. /\ s \in Submission /\ i \in Row /\ s.nth \in Nat /\ s \in Given
      /\ \A t \in Given : t.row \in Row /\ t.nth \in Nat
      /\ Placed \subseteq Given
  BY GivenTypes DEF RInv
<1>4. State(i) \in Unresolved
  BY <1>2, <1>3 DEF RInv, Stands, WireInDoubt, InDoubt, Unresolved
<1>5. ~Taken(i)
  <2>1. \A t \in Given : t.row = i => t.nth <= events[i].replays
    BY DEF RInv, Stands, GivenOK
  <2>2. events[i].replays \in Nat /\ ~(events[i].replays > 0)
    BY <1>2, <1>3, StoredEvent DEF Decided
  <2>3. \A t \in Given : t.row = i => t.nth = 0
    BY <2>1, <2>2, <1>3
  <2> QED BY <2>3, <1>3 DEF RInv, Stands, Once, Taken
<1>6. \A j \in Row : j < i /\ events[j].binding = events[i].binding => State(j) \notin Unresolved
  BY <1>2, <1>3 DEF RInv, Stands, HeldBehind, Row
<1>7. Stages[i] = "open" /\ \A j \in Row : j < i /\ Lanes[j] = Lanes[i] => Stages[j] # "open"
  BY <1>3, <1>4, <1>6, OpenStage DEF RInv, Lanes
<1>8. Stages' = Stages /\ Lanes' = Lanes
  BY <1>1 DEF Stages, Lanes, State
<1>9. Rows' = Append(Rows, i)
  <2>1. placed \in Seq(Submission) /\ Len(placed) \in Nat /\ DOMAIN placed = 1..Len(placed)
    BY DEF RInv, TypeOK
  <2>2. /\ DOMAIN placed' = 1..(Len(placed) + 1) /\ placed'[Len(placed) + 1] = s
        /\ \A n \in 1..Len(placed) : placed'[n] = placed[n]
    BY <2>1, <1>1, <1>3
  <2>3. \A n \in 1..Len(placed) : placed[n].row \in Row
    BY <2>1, <1>3 DEF Placed
  <2>4. Rows \in Seq(Row) /\ Len(Rows) = Len(placed)
    BY <2>1, <2>3 DEF Rows
  <2>5. Append(Rows, i) = [n \in 1..(Len(placed) + 1) |->
                             IF n = Len(placed) + 1 THEN i ELSE Rows[n]]
    BY <2>1, <2>4, <1>3
  <2> QED BY <2>1, <2>2, <2>5 DEF Rows
<1>10. Promise!Place(i)
  BY <1>5, <1>7, <1>8, <1>9, PromiseTaken DEF Promise!Place, Stages, Lanes, Rows
<1> QED BY <1>3, <1>10 DEF Promise!Next

\* The commits of dispatch_once.
LEMMA DispatchRefines ==
    ASSUME RInv, Undecided', NEW i \in Row,
           \/ Expire(i) \/ Dispatch(i) \/ Unavailable(i) \/ Uncertain(i)
           \/ Permanent(i) \/ Retryable(i) \/ Accepted(i) \/ NotFound(i)
    PROVE  [Promise!Next]_(Promise!vars)
<1>1. TypeOK /\ Stands /\ events[i] \in Event
  BY StoredEvent DEF RInv
<1> DEFINE Dead == Settle(events[i], "dead")
           Wait == Defer(events[i], "pending")
<1>2. /\ Keeps(events[i], Dead) /\ Dead.state = "dead"
      /\ Dead.replays = events[i].replays /\ Dead.manual = events[i].manual
  BY <1>1, SettleFields DEF Settled
<1>3. /\ Keeps(events[i], Wait) /\ Wait.state = "pending" /\ Wait \in Event
      /\ Wait.replays = events[i].replays /\ Wait.manual = events[i].manual
  BY <1>1, DeferFields DEF Unresolved
<1>4. {"pending", "submitting", "uncertain"} = Unresolved
  BY DEF Unresolved
<1> HIDE DEF Dead, Wait
<1>5. ASSUME NEW e, Stores(i, e)
      PROVE  events' = [events EXCEPT ![i] = e] /\ placed' = placed
  BY <1>5 DEF Stores, native
<1>6. CASE Expire(i)
  <2>1. /\ State(i) = "pending" /\ NotGiven(i)
        /\ events' = [events EXCEPT ![i] = Dead] /\ placed' = placed
    BY <1>6, StoredEvent DEF Expire, Dead, native
  <2> QED BY <2>1, <1>1, <1>2, <1>4, OpenEventRefines
<1>7. CASE Dispatch(i)
  <2>1. State(i) \in Unresolved /\ placed' = placed
    BY <1>7 DEF Dispatch, Eligible, native
  <2>2. PICK e : /\ events' = [events EXCEPT ![i] = e] /\ Keeps(events[i], e)
                 /\ e.state = "submitting"
                 /\ e.replays = events[i].replays /\ e.manual = events[i].manual
    <3>1. CASE State(i) = "pending"
      <4> DEFINE e == [events[i] EXCEPT !.state = "submitting", !.attempts = @ + 1]
      <4>1. events' = [events EXCEPT ![i] = e]
        BY <3>1, <1>7, <1>1 DEF Dispatch, TypeOK
      <4>2. /\ Keeps(events[i], e) /\ e.state = "submitting"
            /\ e.replays = events[i].replays /\ e.manual = events[i].manual
        BY <1>1 DEF Keeps, Event
      <4> QED BY <4>1, <4>2
    <3>2. CASE State(i) # "pending"
      <4> DEFINE e == [events[i] EXCEPT !.state = "submitting"]
      <4>1. events' = [events EXCEPT ![i] = e]
        BY <3>2, <1>7, <1>1 DEF Dispatch, TypeOK
      <4>2. /\ Keeps(events[i], e) /\ e.state = "submitting"
            /\ e.replays = events[i].replays /\ e.manual = events[i].manual
        BY <1>1 DEF Keeps, Event
      <4> QED BY <4>1, <4>2
    <3> QED BY <3>1, <3>2
  <2> QED BY <2>1, <2>2, <1>1, <1>4, OpenEventRefines
<1>8. CASE Unavailable(i)
  <2> DEFINE e == [Wait EXCEPT !.attempts = IF @ > 0 THEN @ - 1 ELSE 0]
  <2>1. At(i, "check") /\ Stores(i, e)
    BY <1>8 DEF Unavailable, Wait
  <2>2. State(i) = "submitting"
    BY <2>1, AtRow
  <2>3. /\ Keeps(events[i], e) /\ e.state = "pending"
        /\ e.replays = events[i].replays /\ e.manual = events[i].manual
    BY <1>3 DEF Keeps, Event
  <2> HIDE DEF e
  <2> QED BY <2>1, <2>2, <2>3, <1>1, <1>4, <1>5, OpenEventRefines
<1>9. CASE Uncertain(i) \/ NotFound(i)
  <2> DEFINE e == Defer(events[i], "uncertain")
  <2>1. PICK step : At(i, step)
    BY <1>9 DEF Uncertain, NotFound
  <2>2. State(i) = "submitting" /\ Stores(i, e)
    BY <2>1, <1>9, AtRow DEF Uncertain, NotFound
  <2>3. /\ Keeps(events[i], e) /\ e.state = "uncertain"
        /\ e.replays = events[i].replays /\ e.manual = events[i].manual
    BY <1>1, DeferFields DEF Unresolved
  <2> HIDE DEF e
  <2> QED BY <2>2, <2>3, <1>1, <1>4, <1>5, OpenEventRefines
<1>10. CASE Permanent(i)
  <2>1. PICK step \in {"check", "rejected"} : At(i, step)
    BY <1>10 DEF Permanent
  <2>2. State(i) = "submitting" /\ NotGiven(i) /\ Stores(i, Dead)
    BY <2>1, <1>10, AtRow DEF Permanent, Dead
  <2> QED BY <2>2, <1>1, <1>2, <1>4, <1>5, OpenEventRefines
<1>11. CASE Retryable(i)
  <2>1. State(i) = "submitting" /\ NotGiven(i) /\ (Stores(i, Dead) \/ Stores(i, Wait))
    BY <1>11, AtRow DEF Retryable, Dead, Wait
  <2>2. CASE Stores(i, Dead)
    BY <2>1, <2>2, <1>1, <1>2, <1>4, <1>5, OpenEventRefines
  <2>3. CASE Stores(i, Wait)
    BY <2>1, <2>3, <1>1, <1>3, <1>4, <1>5, OpenEventRefines
  <2> QED BY <2>1, <2>2, <2>3
<1>12. CASE Accepted(i)
  <2> DEFINE e == Settle(events[i], "accepted")
  <2>1. PICK step \in {"taken", "found"} : At(i, step)
    BY <1>12 DEF Accepted
  <2>2. State(i) = "submitting" /\ Taken(i) /\ Stores(i, e)
    BY <2>1, <1>12, AtRow DEF Accepted
  <2>3. /\ Keeps(events[i], e) /\ e.state = "accepted"
        /\ e.replays = events[i].replays /\ e.manual = events[i].manual
    BY <1>1, SettleFields DEF Settled
  <2> HIDE DEF e
  <2> QED BY <2>2, <2>3, <1>1, <1>4, <1>5, OpenEventRefines
<1> QED BY <1>6, <1>7, <1>8, <1>9, <1>10, <1>11, <1>12

\* An operator's decision ends the promise.
LEMMA ResolveDecides ==
    ASSUME RInv, NEW i \in Row, resolve(i)
    PROVE  ~Undecided'
<1>1. events \in [Row -> Event] /\ events[i].replays \in Nat
  BY StoredEvent DEF RInv, TypeOK
<1>2. ASSUME NEW state, events' = [events EXCEPT ![i] = ByHand(@, state)]
      PROVE  events'[i].manual = TRUE
  BY <1>1, <1>2 DEF ByHand, Settle, Event
<1>3. ASSUME events' = [events EXCEPT ![i] = Replay(@)]
      PROVE  events'[i].replays > 0
  <2>1. events'[i].replays = events[i].replays + 1
    BY <1>1, <1>3 DEF Replay, Settle, Event
  <2> QED BY <2>1, <1>1
<1> QED BY <1>2, <1>3 DEF resolve, Undecided, Decided

\* What time does to an event does not show.
LEMMA TimeRefines ==
    ASSUME RInv, Time
    PROVE  [Promise!Next]_(Promise!vars)
<1>1. placed' = placed
  BY DEF Time, DueComes, GrowOld, native
<1>2. \A i \in Row : events'[i].binding = events[i].binding /\ events'[i].state = events[i].state
  BY DEF Time, DueComes, GrowOld, RInv, TypeOK, Event
<1> QED BY <1>1, <1>2, PromiseStutters

LEMMA ReceiverRefines ==
    ASSUME RInv, Undecided', Next
    PROVE  [Promise!Next]_(Promise!vars)
<1>1. ASSUME UNCHANGED <<events, placed>>
      PROVE  [Promise!Next]_(Promise!vars)
  BY <1>1, PromiseStutters
<1>2. ASSUME Commands PROVE [Promise!Next]_(Promise!vars)
  <2>1. ASSUME NEW i \in Row, resolve(i) PROVE FALSE
    BY <2>1, ResolveDecides
  <2>2. UNCHANGED <<events, placed>>
    BY <1>2, <2>1 DEF Commands, bind, rebind, RouteAction, native
  <2> QED BY <2>2, <1>1
<1>3. ASSUME Senders PROVE [Promise!Next]_(Promise!vars)
  BY <1>3, InsertRefines DEF Senders, ingest, RInv
<1>4. ASSUME dispatch_once PROVE [Promise!Next]_(Promise!vars)
  <2>1. ASSUME NEW i \in Row, Submit(i) \/ Inspect(i) PROVE UNCHANGED <<events, placed>>
    BY <2>1 DEF Submit, Inspect, store, native
  <2>2. ASSUME StoreFails PROVE UNCHANGED <<events, placed>>
    BY <2>2 DEF StoreFails, store, native
  <2> QED BY <1>4, <2>1, <2>2, <1>1, DispatchRefines DEF dispatch_once
<1>5. ASSUME AppServer PROVE [Promise!Next]_(Promise!vars)
  <2>1. ASSUME NEW s \in wire, Refuse(s) PROVE UNCHANGED <<events, placed>>
    BY <2>1 DEF Refuse, store
  <2>2. ASSUME NEW s \in visible, Forget(s) PROVE UNCHANGED <<events, placed>>
    BY <2>2 DEF Forget, store
  <2> QED BY <1>5, <2>1, <2>2, <1>1, TakeRefines DEF AppServer
<1>6. ASSUME Time PROVE [Promise!Next]_(Promise!vars)
  BY <1>6, TimeRefines
<1>7. ASSUME Start \/ Die PROVE [Promise!Next]_(Promise!vars)
  BY <1>7, <1>1 DEF Start, Die, store, native
<1> QED BY <1>2, <1>3, <1>4, <1>5, <1>6, <1>7 DEF Next

-----------------------------------------------------------------------------
(* What the steps of the receiver leave as it is.                           *)

\* The names of the stored events.
KeysStay == \A j \in Row : Keeps(events[j], events'[j])

LEMMA OneKeyStays ==
    ASSUME TypeOK, NEW i \in Row, NEW e, Keeps(events[i], e), events' = [events EXCEPT ![i] = e]
    PROVE  KeysStay
  BY DEF TypeOK, Keeps, KeysStay

LEMMA KeysAreKept ==
    ASSUME RInv, Next, ~Senders
    PROVE  KeysStay
<1>1. CASE UNCHANGED events
  BY <1>1 DEF KeysStay, Keeps
<1>2. ASSUME NEW i \in Row, resolve(i) PROVE KeysStay
  <2>1. events[i] \in Event /\ TypeOK
    BY DEF RInv, TypeOK
  <2>2. CASE \E state \in {"accepted", "discarded"} : events' = [events EXCEPT ![i] = ByHand(@, state)]
    <3>1. PICK state \in {"accepted", "discarded"} : events' = [events EXCEPT ![i] = ByHand(events[i], state)]
      BY <2>2
    <3>2. Keeps(events[i], Settle(events[i], state)) /\ Settle(events[i], state) \in Event
      BY <2>1, SettleFields DEF Settled
    <3>3. Keeps(events[i], ByHand(events[i], state))
      BY <3>2 DEF ByHand, Keeps, Event
    <3> QED BY <3>1, <3>3, <2>1, OneKeyStays
  <2>3. CASE events' = [events EXCEPT ![i] = Replay(@)]
    <3>1. events' = [events EXCEPT ![i] = Replay(events[i])]
      BY <2>3
    <3>2. Keeps(events[i], Settle(events[i], "pending")) /\ Settle(events[i], "pending") \in Event
      BY <2>1, SettleFields
    <3>3. Keeps(events[i], Replay(events[i]))
      BY <3>2 DEF Replay, Keeps, Event
    <3> QED BY <3>1, <3>3, <2>1, OneKeyStays
  <2> QED BY <1>2, <2>2, <2>3 DEF resolve
<1>3. ASSUME NEW i \in Row, NEW e, Stores(i, e), Keeps(events[i], e) PROVE KeysStay
  BY <1>3, OneKeyStays DEF Stores, RInv
<1>4. ASSUME NEW i \in Row,
             \/ Expire(i) \/ Unavailable(i) \/ Uncertain(i) \/ Permanent(i) \/ Retryable(i)
             \/ Accepted(i) \/ NotFound(i)
      PROVE  KeysStay
  <2>1. events[i] \in Event /\ TypeOK
    BY DEF RInv, TypeOK
  <2>2. /\ \A s \in {"dead", "accepted"} : Keeps(events[i], Settle(events[i], s))
        /\ \A s \in {"pending", "uncertain"} :
              Keeps(events[i], Defer(events[i], s)) /\ Defer(events[i], s) \in Event
    BY <2>1, SettleFields, DeferFields DEF Settled, Unresolved
  <2>3. CASE Expire(i)
    BY <2>1, <2>2, <2>3, OneKeyStays DEF Expire
  <2>4. CASE Unavailable(i)
    <3> DEFINE d == Defer(events[i], "pending")
               e == [d EXCEPT !.attempts = IF d.attempts > 0 THEN d.attempts - 1 ELSE 0]
    <3>1. Stores(i, e)
      BY <2>4 DEF Unavailable
    <3>2. d \in Event /\ Keeps(events[i], d)
      BY <2>2
    <3> HIDE DEF d
    <3>3. Keeps(events[i], e)
      BY <3>2 DEF Event, Keeps
    <3> QED BY <3>1, <3>3, <1>3
  <2>5. CASE Uncertain(i) \/ Permanent(i) \/ Retryable(i) \/ Accepted(i) \/ NotFound(i)
    BY <2>2, <2>5, <1>3 DEF Uncertain, Permanent, Retryable, Accepted, NotFound
  <2> QED BY <1>4, <2>3, <2>4, <2>5
<1>5. ASSUME NEW i \in Row, Dispatch(i) PROVE KeysStay
  <2>1. events[i] \in Event /\ TypeOK
    BY DEF RInv, TypeOK
  <2>2. CASE State(i) = "pending"
    <3> DEFINE e == [events[i] EXCEPT !.state = "submitting", !.attempts = @ + 1]
    <3>1. events' = [events EXCEPT ![i].state = "submitting", ![i].attempts = @ + 1]
      BY <1>5, <2>2 DEF Dispatch
    <3>2. events' = [events EXCEPT ![i] = e]
      BY <2>1, <3>1 DEF TypeOK, Event
    <3>3. Keeps(events[i], e)
      BY <2>1 DEF Event, Keeps
    <3> HIDE DEF e
    <3> QED BY <2>1, <3>2, <3>3, OneKeyStays
  <2>3. CASE State(i) # "pending"
    <3>1. events' = [events EXCEPT ![i] = [@ EXCEPT !.state = "submitting"]]
      BY <1>5, <2>3 DEF Dispatch
    <3>2. Keeps(events[i], [events[i] EXCEPT !.state = "submitting"])
      BY <2>1 DEF Event, Keeps
    <3> QED BY <2>1, <3>1, <3>2, OneKeyStays
  <2> QED BY <2>2, <2>3
<1>6. ASSUME NEW i \in Row, DueComes(i) \/ GrowOld(i) PROVE KeysStay
  <2>1. events[i] \in Event /\ TypeOK
    BY DEF RInv, TypeOK
  <2>2. /\ Keeps(events[i], [events[i] EXCEPT !.due = TRUE])
        /\ Keeps(events[i], [events[i] EXCEPT !.old = TRUE])
    BY <2>1 DEF Event, Keeps
  <2>3. \/ events' = [events EXCEPT ![i] = [@ EXCEPT !.due = TRUE]]
        \/ events' = [events EXCEPT ![i] = [@ EXCEPT !.old = TRUE]]
    BY <1>6 DEF DueComes, GrowOld
  <2> QED BY <2>1, <2>2, <2>3, OneKeyStays
<1>7. ASSUME Commands PROVE KeysStay
  BY <1>7, <1>1, <1>2 DEF Commands, bind, rebind, RouteAction
<1>8. ASSUME dispatch_once PROVE KeysStay
  BY <1>8, <1>1, <1>4, <1>5 DEF dispatch_once, Submit, Inspect, StoreFails, store
<1>9. ASSUME AppServer PROVE KeysStay
  BY <1>9, <1>1 DEF AppServer, Take, Refuse, Forget, store
<1>10. ASSUME Time PROVE KeysStay
  BY <1>10, <1>6 DEF Time
<1>11. ASSUME Start \/ Die PROVE KeysStay
  BY <1>11, <1>1 DEF Start, Die, store
<1> QED BY <1>7, <1>8, <1>9, <1>10, <1>11 DEF Next

-----------------------------------------------------------------------------
(* The inductive invariant of requests and their notifications.            *)

IsStored(n) == \E i \in Row : events[i].key = n

RequestsOK ==
    /\ \A q \in Request :
          /\ request[q].state = "none" => request[q].revision = 0
          /\ request[q].state # "none" => request[q].binding \in Binding
    /\ \A n \in Notice : notice[n].state # "none" => n[2] <= request[n[1]].revision

\* A stored notification is one that was announced, and is stored for its route.
ToldOK ==
    /\ \A i \in Row : events[i].key \in Notice =>
          /\ notice[events[i].key].state # "none"
          /\ events[i].binding = RouteOf(events[i].key)
    /\ \A n \in Notice : notice[n].state = "accepted" => IsStored(n)

\* What the pump read is still to be told, and nothing before it is.
PumpOK ==
    /\ \A n \in pump.batch :
          /\ notice[n].state = "pending"
          /\ \A v \in 1..(n[2] - 1) : notice[<<n[1], v>>].state # "pending"
    /\ pump.item # None => IsStored(pump.item)

LInv == /\ RInv /\ LTypeOK
        /\ RequestsOK /\ OpenRequestsCanEnd /\ ToldOK /\ PumpOK /\ ToldInOrder

LEMMA Notices ==
    /\ \A n \in Notice :
          /\ n = <<n[1], n[2]>> /\ n[1] \in Request /\ n[2] \in Nat /\ n[2] \in Revision
          /\ \A v \in 1..n[2] : v \in Nat /\ v <= n[2] /\ <<n[1], v>> \in Notice
          /\ \A v \in 1..(n[2] - 1) : v \in 1..n[2] /\ v < n[2]
    /\ \A q \in Request, v \in Revision : <<q, v>> \in Notice
    /\ Notice \subseteq Key /\ Notice \cap Sent = {} /\ None \notin Notice
  BY LifecycleConstants, ReceiverConstants DEF Notice, Revision

LEMMA LedgerInit ==
    ASSUME LInit
    PROVE  LInv
<1>1. RInv
  BY ReceiverInit DEF LInit
<1>2. \A q \in Request : request[q] = NoRequest
  BY DEF LInit
<1>3. \A n \in Notice : notice[n] = NoNotice
  BY DEF LInit
<1>4. LTypeOK
  BY <1>1, LifecycleConstants DEF LInit, LTypeOK, RInv, NoRequest, NoNotice, AtRest
<1>5. RequestsOK
  BY <1>2, <1>3 DEF RequestsOK, NoRequest, NoNotice
<1>6. OpenRequestsCanEnd
  <2>1. OpenRequests = {} /\ PendingNotices = {}
    BY <1>2, <1>3 DEF OpenRequests, PendingNotices, NoRequest, NoNotice, Open
  <2> QED BY <2>1, FS_EmptySet, LifecycleConstants DEF OpenRequestsCanEnd
<1>7. \A i \in Row : events[i].key \notin Notice
  BY Notices DEF LInit, Init, NoRow, NewRow
<1>8. ToldOK /\ ToldInOrder
  BY <1>3, <1>7 DEF ToldOK, ToldInOrder, NoNotice
<1>9. PumpOK
  BY DEF LInit, AtRest, PumpOK
<1> QED BY <1>1, <1>4, <1>5, <1>6, <1>8, <1>9 DEF LInv

-----------------------------------------------------------------------------
(* Steps of the ledger.                                                    *)

LEMMA OrderStays ==
    ASSUME events' = events, ToldInOrder,
           \A n \in Notice : \A v \in 1..n[2] :
              /\ notice'[n].state = "accepted" => notice[n].state = "accepted" \/ IsStored(n)
              /\ /\ notice[n].state = "accepted" \/ IsStored(n)
                 /\ notice'[<<n[1], v>>].state # "none"
                 => notice[<<n[1], v>>].state # "none"
    PROVE  ToldInOrder'
<1> SUFFICES ASSUME NEW n \in Notice,
                    notice'[n].state = "accepted" \/ (\E i \in Row : events'[i].key = n),
                    NEW v \in 1..n[2], notice'[<<n[1], v>>].state # "none"
             PROVE  \E i \in Row : /\ events'[i].key = <<n[1], v>>
                                   /\ \A j \in Row : events'[j].key = n => i <= j
  BY DEF ToldInOrder
<1>1. notice[n].state = "accepted" \/ (\E i \in Row : events[i].key = n)
  BY DEF IsStored
<1>2. notice[<<n[1], v>>].state # "none"
  BY <1>1 DEF IsStored
<1> QED BY <1>1, <1>2 DEF ToldInOrder

\* Notifications are only added after those that a request has.
LEMMA NoticesGrow ==
    ASSUME LInv, UNCHANGED <<vars, pump>>,
           \A n \in Notice :
              \/ notice'[n].state = notice[n].state
              \/ /\ notice[n].state = "none" /\ notice'[n].state = "pending"
                 /\ n[2] > request[n[1]].revision,
           \A q \in Request : request[q].state # "none" => request'[q].binding = request[q].binding
    PROVE  RInv' /\ ToldOK' /\ PumpOK' /\ ToldInOrder'
<1>1. UNCHANGED <<route, events, serve, job, wire, placed, visible, pump>>
  BY DEF vars, store, native
<1>2. RInv'
  BY <1>1 DEF LInv, RInv, TypeOK, Stands, JobOK, RoutesOK, RowsOK, KeysOnce, GivenOK, Once, Fresh,
     AcceptedIsTaken, LookedForWhereSent, WireInDoubt, HeldBehind, TakenInOrder, State, Target,
     Decided, NotGiven, Taken, Given, Placed
<1>3. /\ LTypeOK /\ RequestsOK /\ ToldOK /\ PumpOK /\ ToldInOrder
  BY DEF LInv
<1>4. \A n \in Notice : notice[n].state # "none" =>
         /\ n[2] <= request[n[1]].revision /\ request[n[1]].state # "none"
         /\ notice'[n].state = notice[n].state
         /\ RouteOf(n)' = RouteOf(n)
  <2> SUFFICES ASSUME NEW n \in Notice, notice[n].state # "none"
               PROVE  /\ n[2] <= request[n[1]].revision /\ request[n[1]].state # "none"
                      /\ notice'[n].state = notice[n].state
                      /\ request'[n[1]].binding = request[n[1]].binding
    BY DEF RouteOf
  <2>1. n[1] \in Request /\ n[2] \in Nat /\ n[2] > 0
    BY Notices DEF Revision
  <2>2. n[2] <= request[n[1]].revision
    BY <1>3 DEF RequestsOK
  <2>3. request[n[1]].state # "none"
    BY <1>3, <2>1, <2>2 DEF RequestsOK
  <2> QED BY <2>1, <2>2, <2>3
<1>5. \A n \in Notice : notice'[n].state = "accepted" => notice[n].state = "accepted"
  OBVIOUS
<1>6. ToldOK'
  BY <1>1, <1>3, <1>4, <1>5 DEF ToldOK, IsStored
<1>7. PumpOK'
  <2> SUFFICES ASSUME NEW n \in pump.batch
               PROVE  /\ notice'[n].state = "pending"
                      /\ \A v \in 1..(n[2] - 1) : notice'[<<n[1], v>>].state # "pending"
    BY <1>1, <1>3 DEF PumpOK, IsStored
  <2>1. n \in Notice /\ notice[n].state = "pending"
    BY <1>3 DEF LTypeOK, PumpOK
  <2>2. notice'[n].state = "pending" /\ n[2] <= request[n[1]].revision
    BY <1>4, <2>1
  <2>3. ASSUME NEW v \in 1..(n[2] - 1) PROVE notice'[<<n[1], v>>].state # "pending"
    <3>1. <<n[1], v>> \in Notice /\ v < n[2] /\ v \in Nat /\ n[1] \in Request
      BY <2>1, Notices
    <3>2. request[n[1]].revision \in Nat
      BY <1>3, <3>1 DEF LTypeOK
    <3>3. ~(<<n[1], v>>[2] > request[<<n[1], v>>[1]].revision)
      BY <3>1, <3>2, <2>2, Notices, <2>1
    <3>4. notice[<<n[1], v>>].state # "pending"
      BY <1>3 DEF PumpOK
    <3> QED BY <3>1, <3>3, <3>4
  <2> QED BY <2>2, <2>3
<1>8. ToldInOrder'
  <2>1. ASSUME NEW n \in Notice, NEW v \in 1..n[2],
               notice[n].state = "accepted" \/ IsStored(n), notice'[<<n[1], v>>].state # "none"
        PROVE  notice[<<n[1], v>>].state # "none"
    <3>1. n[2] <= request[n[1]].revision
      BY <1>3, <1>4, <2>1 DEF ToldOK, IsStored
    <3>2. <<n[1], v>> \in Notice /\ v <= n[2] /\ v \in Nat /\ n[1] \in Request /\ n[2] \in Nat
      BY Notices
    <3>3. request[n[1]].revision \in Nat
      BY <1>3, <3>2 DEF LTypeOK
    <3>4. ~(<<n[1], v>>[2] > request[<<n[1], v>>[1]].revision)
      BY <3>1, <3>2, <3>3
    <3> QED BY <2>1, <3>2, <3>4
  <2> QED BY <1>1, <1>3, <1>5, <2>1, OrderStays
<1> QED BY <1>2, <1>6, <1>7, <1>8

LEMMA Finite ==
    /\ IsFiniteSet(Notice)
    /\ IsFiniteSet(OpenRequests) /\ IsFiniteSet(PendingNotices)
    /\ Cardinality(OpenRequests) \in Nat /\ Cardinality(PendingNotices) \in Nat
<1>1. IsFiniteSet(Request) /\ IsFiniteSet(Revision)
  BY LifecycleConstants, FS_Interval DEF Revision
<1>2. IsFiniteSet(Notice)
  BY <1>1, FS_Product DEF Notice
<1>3. IsFiniteSet(OpenRequests) /\ IsFiniteSet(PendingNotices)
  BY <1>1, <1>2, FS_Subset DEF OpenRequests, PendingNotices
<1> QED BY <1>2, <1>3, FS_CardinalityType

LEMMA CreateOK ==
    ASSUME LInv, NEW q \in Request, NEW i \in Row, NEW deadline \in {"never", "later"},
           create(q, i, deadline)
    PROVE  LInv'
<1> DEFINE r == [state |-> "received", revision |-> 0, binding |-> events[i].binding,
                 deadline |-> deadline]
<1>1. /\ request[q].state = "none" /\ State(i) # "none" /\ Room(Cardinality(OpenRequests) + 1)
      /\ request' = [request EXCEPT ![q] = r] /\ UNCHANGED <<vars, notice, pump>>
  BY DEF create
<1>2. events[i].binding \in Binding
  BY <1>1 DEF LInv, RInv, Stands, RowsOK
<1>3. /\ r.state = "received" /\ r.revision = 0 /\ r.binding \in Binding
      /\ r \in [state : {"none", "ended"} \cup Open, revision : 0..MaxUpdates,
                binding : Binding \cup {None}, deadline : {"never", "later", "due"}]
  BY <1>2, LifecycleConstants DEF Open
<1> HIDE DEF r
<1>4. request'[q] = r /\ \A p \in Request : p # q => request'[p] = request[p]
  BY <1>1 DEF LInv, LTypeOK
<1>5. RInv' /\ ToldOK' /\ PumpOK' /\ ToldInOrder'
  BY <1>1, <1>4, NoticesGrow
<1>6. LTypeOK'
  BY <1>1, <1>3, <1>5 DEF LInv, RInv, LTypeOK
<1>7. RequestsOK'
  <2>1. RequestsOK
    BY DEF LInv
  <2>2. \A n \in Notice : notice[n].state # "none" => n[1] # q
    BY <1>1, <2>1, Notices DEF RequestsOK, Revision
  <2> QED BY <1>1, <1>3, <1>4, <2>1, <2>2, Notices DEF RequestsOK
<1>8. OpenRequestsCanEnd'
  <2>1. OpenRequests' = OpenRequests \cup {q} /\ q \notin OpenRequests
    BY <1>1, <1>3, <1>4 DEF OpenRequests, Open
  <2>2. PendingNotices' = PendingNotices
    BY <1>1 DEF PendingNotices
  <2>3. Cardinality(OpenRequests') = Cardinality(OpenRequests) + 1
    BY <2>1, Finite, FS_AddElement
  <2>4. \A p \in OpenRequests' : request'[p].revision < MaxUpdates
    BY <1>3, <1>4, <2>1, LifecycleConstants DEF LInv, OpenRequestsCanEnd, OpenRequests
  <2> QED BY <1>1, <2>2, <2>3, <2>4 DEF OpenRequestsCanEnd, Room
<1> QED BY <1>5, <1>6, <1>7, <1>8 DEF LInv

LEMMA TransitionOK ==
    ASSUME LInv, NEW q \in Request, NEW target \in Open \cup {"ended"}, transition(q, target)
    PROVE  LInv'
<1> DEFINE r == Advanced(q, target)
           n == <<q, request[q].revision + 1>>
<1>1. /\ allowed(request[q].state, target) /\ Fits(q, target)
      /\ request' = [request EXCEPT ![q] = r] /\ notice' = Announced(q, target)
      /\ UNCHANGED <<vars, pump>>
  BY DEF transition
<1>2. request[q] \in [state : {"none", "ended"} \cup Open, revision : 0..MaxUpdates,
                      binding : Binding \cup {None}, deadline : {"never", "later", "due"}]
  BY DEF LInv, LTypeOK
<1>3. q \in OpenRequests /\ request[q].state # "none" /\ target # "received"
  BY <1>1 DEF allowed, OpenRequests, Open
<1>4. request[q].revision \in Nat /\ request[q].revision < MaxUpdates
  BY <1>2, <1>3 DEF LInv, OpenRequestsCanEnd
<1>5. /\ r.state = target /\ r.revision = request[q].revision + 1 /\ r.binding = request[q].binding
      /\ r \in [state : {"none", "ended"} \cup Open, revision : 0..MaxUpdates,
                binding : Binding \cup {None}, deadline : {"never", "later", "due"}]
  <2>1. request[q].revision + 1 \in 0..MaxUpdates
    BY <1>4, LifecycleConstants
  <2> QED BY <1>2, <2>1 DEF Advanced
<1>6. n \in Notice /\ n[1] = q /\ n[2] = request[q].revision + 1
  BY <1>4, LifecycleConstants, Notices DEF Revision
<1> HIDE DEF r, n
<1>7. request'[q] = r /\ \A p \in Request : p # q => request'[p] = request[p]
  BY <1>1 DEF LInv, LTypeOK
<1>8. notice[n].state = "none"
  BY <1>4, <1>6 DEF LInv, LTypeOK, RequestsOK
<1>9. /\ notice' = IF target \in Notified
                   THEN [notice EXCEPT ![n].state = "pending"] ELSE notice
  BY <1>1 DEF Announced, n
<1>10. /\ \A m \in Notice : m # n => notice'[m].state = notice[m].state
       /\ notice'[n].state = IF target \in Notified THEN "pending" ELSE "none"
       /\ notice' \in [Notice -> [state : {"none", "pending", "accepted"}, due : BOOLEAN]]
  BY <1>6, <1>8, <1>9 DEF LInv, LTypeOK
<1>11. RInv' /\ ToldOK' /\ PumpOK' /\ ToldInOrder'
  <2>1. \A m \in Notice :
           \/ notice'[m].state = notice[m].state
           \/ /\ notice[m].state = "none" /\ notice'[m].state = "pending"
              /\ m[2] > request[m[1]].revision
    BY <1>4, <1>6, <1>8, <1>10
  <2> QED BY <1>1, <1>5, <1>7, <2>1, NoticesGrow
<1>12. LTypeOK'
  BY <1>1, <1>5, <1>10, <1>11 DEF LInv, RInv, LTypeOK
<1>13. RequestsOK'
  <2>1. RequestsOK
    BY DEF LInv
  <2>2. ASSUME NEW p \in Request
        PROVE  /\ request'[p].state = "none" => request'[p].revision = 0
               /\ request'[p].state # "none" => request'[p].binding \in Binding
    BY <1>3, <1>5, <1>7, <2>1 DEF RequestsOK, Open
  <2>3. ASSUME NEW m \in Notice, notice'[m].state # "none"
        PROVE  m[2] <= request'[m[1]].revision
    <3>1. CASE m = n
      BY <3>1, <1>4, <1>5, <1>6, <1>7
    <3>2. CASE m # n
      <4>1. m[2] <= request[m[1]].revision /\ m[1] \in Request /\ m[2] \in Nat
        BY <2>1, <2>3, <3>2, <1>10, Notices DEF RequestsOK
      <4> QED BY <4>1, <1>4, <1>5, <1>7
    <3> QED BY <3>1, <3>2
  <2> QED BY <2>2, <2>3 DEF RequestsOK
<1>14. OpenRequestsCanEnd'
  <2>1. PendingNotices' = IF target \in Notified THEN PendingNotices \cup {n} ELSE PendingNotices
    BY <1>6, <1>8, <1>10 DEF PendingNotices
  <2>2. n \notin PendingNotices
    BY <1>8 DEF PendingNotices
  <2>3. OpenRequests' = IF target = "ended" THEN OpenRequests \ {q} ELSE OpenRequests
    BY <1>3, <1>5, <1>7 DEF OpenRequests, Open
  <2>4. /\ Cardinality(PendingNotices \cup {n}) = Cardinality(PendingNotices) + 1
        /\ Cardinality(OpenRequests \ {q}) = Cardinality(OpenRequests) - 1
    BY <2>2, <1>3, Finite, FS_AddElement, FS_RemoveElement
  <2>5. Cardinality(PendingNotices) + Cardinality(OpenRequests) <= MaxNotices
    BY DEF LInv, OpenRequestsCanEnd
  <2>6. target = "in_progress" => Cardinality(PendingNotices) + Cardinality(OpenRequests) + 1 <= MaxNotices
    BY <1>1, Finite, LifecycleConstants DEF Fits, Room
  <2>7. Cardinality(PendingNotices') + Cardinality(OpenRequests') <= MaxNotices
    <3>1. CASE target = "ended"
      BY <3>1, <2>1, <2>3, <2>4, <2>5, Finite, LifecycleConstants DEF Notified
    <3>2. CASE target = "in_progress"
      BY <3>2, <2>1, <2>3, <2>4, <2>6, Finite, LifecycleConstants DEF Notified
    <3>3. CASE target = "acknowledged"
      BY <3>3, <2>1, <2>3, <2>5 DEF Notified
    <3> QED BY <3>1, <3>2, <3>3, <1>3 DEF Open
  <2>8. ASSUME NEW p \in OpenRequests' PROVE request'[p].revision < MaxUpdates
    <3>1. CASE p = q
      BY <3>1, <2>3, <2>8, <1>1, <1>3, <1>5, <1>7 DEF Fits
    <3>2. CASE p # q
      BY <3>2, <2>3, <2>8, <1>7 DEF LInv, OpenRequestsCanEnd, OpenRequests
    <3> QED BY <3>1, <3>2
  <2> QED BY <2>7, <2>8 DEF OpenRequestsCanEnd
<1> QED BY <1>11, <1>12, <1>13, <1>14 DEF LInv

LEMMA TimePassesOK ==
    ASSUME LInv, (\E q \in Request : DeadlineComes(q)) \/ (\E n \in Notice : NoticeComes(n))
    PROVE  LInv'
<1>1. /\ UNCHANGED <<vars, pump>>
      /\ \A n \in Notice : notice'[n].state = notice[n].state
      /\ notice' \in [Notice -> [state : {"none", "pending", "accepted"}, due : BOOLEAN]]
  <2>1. CASE \E q \in Request : DeadlineComes(q)
    BY <2>1 DEF DeadlineComes, LInv, LTypeOK
  <2>2. CASE \E n \in Notice : NoticeComes(n)
    <3>1. PICK n \in Notice : NoticeComes(n)
      BY <2>2
    <3>2. notice' = [notice EXCEPT ![n].due = TRUE] /\ UNCHANGED <<vars, request, pump>>
      BY <3>1 DEF NoticeComes
    <3>3. notice \in [Notice -> [state : {"none", "pending", "accepted"}, due : BOOLEAN]]
      BY DEF LInv, LTypeOK
    <3> QED BY <3>2, <3>3
  <2> QED BY <2>1, <2>2
<1>2. /\ \A p \in Request : /\ request'[p].state = request[p].state
                            /\ request'[p].revision = request[p].revision
                            /\ request'[p].binding = request[p].binding
      /\ request' \in [Request -> [state : {"none", "ended"} \cup Open, revision : 0..MaxUpdates,
                                   binding : Binding \cup {None},
                                   deadline : {"never", "later", "due"}]]
  BY DEF DeadlineComes, NoticeComes, LInv, LTypeOK
<1>3. RInv' /\ ToldOK' /\ PumpOK' /\ ToldInOrder'
  BY <1>1, <1>2, NoticesGrow
<1>4. LTypeOK'
  BY <1>1, <1>2, <1>3 DEF LInv, RInv, LTypeOK
<1>5. RequestsOK'
  BY <1>1, <1>2, Notices DEF LInv, RequestsOK
<1>6. OpenRequestsCanEnd'
  <2>1. OpenRequests' = OpenRequests /\ PendingNotices' = PendingNotices
    BY <1>1, <1>2 DEF OpenRequests, PendingNotices
  <2>2. \A p \in OpenRequests : request'[p].revision < MaxUpdates
    BY <1>2 DEF LInv, OpenRequestsCanEnd, OpenRequests
  <2> QED BY <2>1, <2>2 DEF LInv, OpenRequestsCanEnd
<1> QED BY <1>3, <1>4, <1>5, <1>6 DEF LInv

LEMMA ExpireDueOK ==
    ASSUME LInv, NEW due \in SUBSET {q \in OpenRequests : request[q].deadline = "due"},
           expire_due(due)
    PROVE  LInv'
<1> DEFINE last(q) == <<q, request[q].revision + 1>>
           f == [q \in due |-> last(q)]
           T == {last(q) : q \in due}
<1>1. /\ due \subseteq OpenRequests /\ due \subseteq Request
      /\ Room(Cardinality(due)) /\ UNCHANGED <<vars, pump>>
  BY DEF expire_due, OpenRequests
<1>2. request \in [Request -> [state : {"none", "ended"} \cup Open, revision : 0..MaxUpdates,
                               binding : Binding \cup {None}, deadline : {"never", "later", "due"}]]
  BY DEF LInv, LTypeOK
<1>3. /\ \A q \in Request : request'[q] = IF q \in due THEN Advanced(q, "ended") ELSE request[q]
      /\ request' = [q \in Request |-> request'[q]]
  BY DEF expire_due
<1>4. \A q \in due : /\ request[q].revision \in Nat /\ request[q].revision < MaxUpdates
                     /\ request[q].state # "none" /\ request[q].state \in Open
  BY <1>1, <1>2 DEF LInv, OpenRequestsCanEnd, OpenRequests, Open
<1>5. ASSUME NEW q \in due
      PROVE  /\ request'[q].state = "ended" /\ request'[q].revision = request[q].revision + 1
             /\ request'[q].binding = request[q].binding
             /\ request'[q] \in [state : {"none", "ended"} \cup Open, revision : 0..MaxUpdates,
                                 binding : Binding \cup {None}, deadline : {"never", "later", "due"}]
  <2>1. request[q].revision + 1 \in 0..MaxUpdates
    BY <1>4, LifecycleConstants
  <2>2. q \in Request /\ request'[q] = [request[q] EXCEPT !.state = "ended",
                                                          !.revision = request[q].revision + 1]
    BY <1>1, <1>3 DEF Advanced
  <2> QED BY <1>2, <2>1, <2>2
<1>6. ASSUME NEW q \in due
      PROVE  /\ last(q) \in Notice /\ last(q)[1] = q /\ last(q)[2] = request[q].revision + 1
             /\ notice[last(q)].state = "none"
  <2>1. last(q) \in Notice
    <3>1. q \in Request /\ request[q].revision + 1 \in Revision
      BY <1>1, <1>4, LifecycleConstants DEF Revision
    <3> QED BY <3>1, Notices
  <2>2. ~(last(q)[2] <= request[last(q)[1]].revision)
    BY <1>4
  <2> QED BY <2>1, <2>2 DEF LInv, RequestsOK
<1>7. \A n \in Notice : n \in T <=> n[1] \in due /\ n[2] = request[n[1]].revision + 1
  BY Notices
<1>8. /\ \A n \in T : n \in Notice /\ notice[n].state = "none"
      /\ \A n \in Notice : notice'[n].state = IF n \in T THEN "pending" ELSE notice[n].state
      /\ notice' \in [Notice -> [state : {"none", "pending", "accepted"}, due : BOOLEAN]]
  <2>1. \A n \in T : n \in Notice /\ notice[n].state = "none"
    BY <1>6
  <2>2. \A n \in Notice : notice'[n] =
           IF n \in T THEN [notice[n] EXCEPT !.state = "pending"] ELSE notice[n]
    BY <1>7 DEF expire_due
  <2>3. \A n \in Notice : notice[n] \in [state : {"none", "pending", "accepted"}, due : BOOLEAN]
    BY DEF LInv, LTypeOK
  <2>4. \A n \in Notice : /\ notice'[n].state = IF n \in T THEN "pending" ELSE notice[n].state
                          /\ notice'[n] \in [state : {"none", "pending", "accepted"}, due : BOOLEAN]
    BY <2>2, <2>3
  <2>5. notice' = [n \in Notice |-> notice'[n]]
    BY DEF expire_due
  <2> HIDE DEF T
  <2> QED BY <2>1, <2>4, <2>5
<1>9. \A n \in T : n[1] \in due /\ n[2] = request[n[1]].revision + 1
  BY <1>7, <1>8
<1>10. /\ IsFiniteSet(due) /\ IsFiniteSet(T) /\ Cardinality(T) <= Cardinality(due)
       /\ Cardinality(due) \in Nat /\ Cardinality(T) \in Nat
  <2>1. IsFiniteSet(due)
    BY <1>1, Finite, FS_Subset
  <2>2. f \in Surjection(due, T)
    BY DEF Surjection
  <2> QED BY <2>1, <2>2, FS_Surjection, FS_CardinalityType
<1> HIDE DEF T, f, last
<1>11. RInv' /\ ToldOK' /\ PumpOK' /\ ToldInOrder'
  <2>1. \A n \in Notice :
           \/ notice'[n].state = notice[n].state
           \/ /\ notice[n].state = "none" /\ notice'[n].state = "pending"
              /\ n[2] > request[n[1]].revision
    BY <1>4, <1>8, <1>9
  <2>2. \A q \in Request : request'[q].binding = request[q].binding
    BY <1>3, <1>5
  <2> QED BY <1>1, <2>1, <2>2, NoticesGrow
<1>12. LTypeOK'
  <2>1. \A q \in Request : request'[q] \in
           [state : {"none", "ended"} \cup Open, revision : 0..MaxUpdates,
            binding : Binding \cup {None}, deadline : {"never", "later", "due"}]
    BY <1>2, <1>3, <1>5
  <2> QED BY <1>1, <1>3, <1>8, <1>11, <2>1 DEF LInv, RInv, LTypeOK
<1>13. RequestsOK'
  <2>1. RequestsOK
    BY DEF LInv
  <2>2. ASSUME NEW p \in Request
        PROVE  /\ request'[p].state = "none" => request'[p].revision = 0
               /\ request'[p].state # "none" => request'[p].binding \in Binding
    BY <1>3, <1>4, <1>5, <2>1 DEF RequestsOK
  <2>3. ASSUME NEW m \in Notice, notice'[m].state # "none"
        PROVE  m[2] <= request'[m[1]].revision
    <3>1. m[1] \in Request /\ m[2] \in Nat
      BY Notices
    <3>2. CASE m \in T
      BY <3>1, <3>2, <1>4, <1>5, <1>9
    <3>3. CASE m \notin T
      <4>1. m[2] <= request[m[1]].revision
        BY <2>1, <2>3, <3>3, <1>8 DEF RequestsOK
      <4> QED BY <3>1, <4>1, <1>3, <1>4, <1>5
    <3> QED BY <3>2, <3>3
  <2> QED BY <2>2, <2>3 DEF RequestsOK
<1>14. OpenRequestsCanEnd'
  <2>1. PendingNotices' = PendingNotices \cup T
    BY <1>8 DEF PendingNotices
  <2>2. OpenRequests' = OpenRequests \ due
    BY <1>1, <1>3, <1>5 DEF OpenRequests, Open
  <2>3. Cardinality(PendingNotices \cup T) <= Cardinality(PendingNotices) + Cardinality(T)
    <3>1. /\ Cardinality(PendingNotices \cup T)
                = Cardinality(PendingNotices) + Cardinality(T) - Cardinality(PendingNotices \cap T)
          /\ Cardinality(PendingNotices \cap T) \in Nat
      BY <1>10, Finite, FS_Union, FS_Intersection, FS_CardinalityType
    <3> QED BY <3>1, <1>10, Finite
  <2>4. Cardinality(OpenRequests \ due) = Cardinality(OpenRequests) - Cardinality(due)
    <3>1. OpenRequests \cap due = due
      BY <1>1
    <3> QED BY <3>1, Finite, FS_Difference
  <2>5. Cardinality(PendingNotices') \in Nat
    BY <2>1, <1>10, Finite, FS_Union, FS_CardinalityType
  <2>6. Cardinality(PendingNotices') + Cardinality(OpenRequests') <= MaxNotices
    BY <2>1, <2>2, <2>3, <2>4, <2>5, <1>10, Finite, LifecycleConstants DEF LInv, OpenRequestsCanEnd
  <2>7. \A p \in OpenRequests' : request'[p].revision < MaxUpdates
    BY <2>2, <1>3 DEF LInv, OpenRequestsCanEnd, OpenRequests
  <2> QED BY <2>6, <2>7 DEF OpenRequestsCanEnd
<1> QED BY <1>11, <1>12, <1>13, <1>14 DEF LInv

-----------------------------------------------------------------------------
(* Steps of the pump.                                                      *)

\* A notification is only marked accepted when it is stored, and only what may
\* be told next is in the batch.
LEMMA PumpMoves ==
    ASSUME LInv, UNCHANGED <<vars, request>>,
           notice' \in [Notice -> [state : {"none", "pending", "accepted"}, due : BOOLEAN]],
           pump' \in [batch : SUBSET Notice, seen : SUBSET Binding, item : Notice \cup {None}],
           \A n \in Notice :
              \/ notice'[n].state = notice[n].state
              \/ /\ notice[n].state = "pending" /\ notice'[n].state = "accepted"
                 /\ IsStored(n) /\ n \notin pump'.batch,
           \A n \in pump'.batch :
              /\ notice[n].state = "pending"
              /\ \A v \in 1..(n[2] - 1) : notice[<<n[1], v>>].state # "pending",
           pump'.item \in {None, pump.item}
    PROVE  LInv'
<1>1. UNCHANGED <<route, events, serve, job, wire, placed, visible, request>>
  BY DEF vars, store, native
<1>2. RInv'
  BY <1>1 DEF LInv, RInv, TypeOK, Stands, JobOK, RoutesOK, RowsOK, KeysOnce, GivenOK, Once, Fresh,
     AcceptedIsTaken, LookedForWhereSent, WireInDoubt, HeldBehind, TakenInOrder, State, Target,
     Decided, NotGiven, Taken, Given, Placed
<1>3. LTypeOK'
  BY <1>1, <1>2 DEF LInv, RInv, LTypeOK
<1>4. \A n \in Notice : /\ notice'[n].state = "none" <=> notice[n].state = "none"
                        /\ notice[n].state # "pending" => notice'[n].state # "pending"
                        /\ RouteOf(n)' = RouteOf(n)
  BY <1>1 DEF RouteOf
<1>5. RequestsOK'
  BY <1>1, <1>4 DEF LInv, RequestsOK
<1>6. ToldOK'
  BY <1>1, <1>4 DEF LInv, ToldOK, IsStored
<1>7. PumpOK'
  <2>1. ASSUME NEW n \in pump'.batch PROVE notice'[n].state = "pending"
    <3>1. n \in Notice
      OBVIOUS
    <3> QED BY <2>1, <3>1
  <2>2. ASSUME NEW n \in pump'.batch, NEW v \in 1..(n[2] - 1)
        PROVE  notice'[<<n[1], v>>].state # "pending"
    <3>1. n \in Notice
      OBVIOUS
    <3>2. <<n[1], v>> \in Notice
      BY <3>1, Notices
    <3> QED BY <2>2, <3>2, <1>4
  <2>3. pump'.item # None => \E i \in Row : events'[i].key = pump'.item
    <3>1. pump.item # None => \E i \in Row : events[i].key = pump.item
      BY DEF LInv, PumpOK, IsStored
    <3>2. events' = events
      BY <1>1
    <3> QED BY <3>1, <3>2
  <2> QED BY <2>1, <2>2, <2>3 DEF PumpOK, IsStored
<1>8. ToldInOrder'
  <2>1. \A n \in Notice : \A v \in 1..n[2] : <<n[1], v>> \in Notice
    BY Notices
  <2>2. events' = events /\ ToldInOrder
    BY <1>1 DEF LInv
  <2>3. \A n \in Notice : \A v \in 1..n[2] :
           /\ notice'[n].state = "accepted" => notice[n].state = "accepted" \/ IsStored(n)
           /\ notice'[<<n[1], v>>].state # "none" => notice[<<n[1], v>>].state # "none"
    BY <2>1, <1>4
  <2> QED BY <2>2, <2>3, OrderStays
<1>9. OpenRequestsCanEnd'
  <2>1. PendingNotices' \in SUBSET PendingNotices /\ OpenRequests' = OpenRequests
    BY <1>1, <1>4 DEF PendingNotices, OpenRequests
  <2>2. Cardinality(PendingNotices') <= Cardinality(PendingNotices)
        /\ Cardinality(PendingNotices') \in Nat
    BY <2>1, Finite, FS_Subset, FS_CardinalityType
  <2>3. /\ Cardinality(PendingNotices) + Cardinality(OpenRequests) <= MaxNotices
        /\ \A q \in OpenRequests : request[q].revision < MaxUpdates
    BY DEF LInv, OpenRequestsCanEnd
  <2>4. Cardinality(PendingNotices') + Cardinality(OpenRequests) <= MaxNotices
    BY <2>2, <2>3, Finite, LifecycleConstants
  <2> QED BY <2>1, <2>3, <2>4, <1>1 DEF OpenRequestsCanEnd
<1> QED BY <1>2, <1>3, <1>5, <1>6, <1>7, <1>8, <1>9 DEF LInv

LEMMA PumpStepOK ==
    ASSUME LInv,
           \/ \E batch \in SUBSET {n \in Notice : NextToTell(n)} : pending_notifications(batch)
           \/ \E n \in Notice : notification_deferred(n) \/ notification_error(n)
           \/ \E n \in Notice : notification_accepted(n)
           \/ PumpFails
    PROVE  LInv'
<1>1. /\ notice \in [Notice -> [state : {"none", "pending", "accepted"}, due : BOOLEAN]]
      /\ pump \in [batch : SUBSET Notice, seen : SUBSET Binding, item : Notice \cup {None}]
      /\ PumpOK
  BY DEF LInv, LTypeOK
<1>2. CASE \E batch \in SUBSET {n \in Notice : NextToTell(n)} : pending_notifications(batch)
  <2>1. PICK batch \in SUBSET {n \in Notice : NextToTell(n)} : pending_notifications(batch)
    BY <1>2
  <2> DEFINE p == [batch |-> batch, seen |-> {b \in Binding : route[b].state = "enabled"}, item |-> None]
  <2>2. pump' = p /\ UNCHANGED <<vars, ledger>>
    BY <2>1 DEF pending_notifications
  <2>3. /\ p.batch = batch /\ p.item = None
        /\ p \in [batch : SUBSET Notice, seen : SUBSET Binding, item : Notice \cup {None}]
    OBVIOUS
  <2> HIDE DEF p
  <2>4. \A n \in batch : /\ notice[n].state = "pending"
                         /\ \A v \in 1..(n[2] - 1) : notice[<<n[1], v>>].state # "pending"
    BY DEF NextToTell
  <2> QED BY <2>2, <2>3, <2>4, <1>1, PumpMoves DEF ledger
<1>3. CASE \E n \in Notice : notification_deferred(n) \/ notification_error(n)
  <2>1. PICK n \in Notice : Later(n)
    BY <1>3 DEF notification_deferred, notification_error
  <2>2. notice' = [notice EXCEPT ![n].due = FALSE] /\ UNCHANGED <<vars, request>>
        /\ pump' = [pump EXCEPT !.batch = @ \ {n}]
    BY <2>1 DEF Later
  <2>3. /\ \A m \in Notice : notice'[m].state = notice[m].state
        /\ notice' \in [Notice -> [state : {"none", "pending", "accepted"}, due : BOOLEAN]]
    BY <2>2, <1>1
  <2>4. /\ pump'.batch \subseteq pump.batch /\ pump'.item = pump.item
        /\ pump' \in [batch : SUBSET Notice, seen : SUBSET Binding, item : Notice \cup {None}]
    BY <2>2, <1>1
  <2> QED BY <2>2, <2>3, <2>4, <1>1, PumpMoves DEF PumpOK
<1>4. CASE \E n \in Notice : notification_accepted(n)
  <2>1. PICK n \in Notice : notification_accepted(n)
    BY <1>4
  <2>2. /\ notice' = [notice EXCEPT ![n].state = "accepted"] /\ UNCHANGED <<vars, request>>
        /\ pump' = [pump EXCEPT !.batch = @ \ {n}, !.item = None]
        /\ pump.item = n /\ n \in pump.batch
    BY <2>1 DEF notification_accepted
  <2>3. /\ \A m \in Notice : m # n => notice'[m].state = notice[m].state
        /\ notice'[n].state = "accepted"
        /\ notice' \in [Notice -> [state : {"none", "pending", "accepted"}, due : BOOLEAN]]
    BY <2>2, <1>1
  <2>4. /\ pump'.batch = pump.batch \ {n} /\ pump'.item = None
        /\ pump' \in [batch : SUBSET Notice, seen : SUBSET Binding, item : Notice \cup {None}]
    BY <2>2, <1>1
  <2>5. IsStored(n) /\ notice[n].state = "pending"
    BY <2>2, <1>1, Notices DEF PumpOK
  <2>6. \A m \in Notice :
           \/ notice'[m].state = notice[m].state
           \/ /\ notice[m].state = "pending" /\ notice'[m].state = "accepted"
              /\ IsStored(m) /\ m \notin pump'.batch
    BY <2>3, <2>4, <2>5
  <2> QED BY <2>2, <2>3, <2>4, <2>6, <1>1, PumpMoves DEF PumpOK
<1>5. CASE PumpFails
  <2>1. /\ pump' = AtRest /\ UNCHANGED <<vars, ledger>>
    BY <1>5 DEF PumpFails
  <2>2. /\ AtRest.batch = {} /\ AtRest.item = None
        /\ AtRest \in [batch : SUBSET Notice, seen : SUBSET Binding, item : Notice \cup {None}]
    BY DEF AtRest
  <2> QED BY <2>1, <2>2, <1>1, PumpMoves DEF ledger
<1> QED BY <1>2, <1>3, <1>4, <1>5

\* A notification is stored behind the earlier ones of its request.
LEMMA StoredInOrder ==
    ASSUME LInv, NEW n \in Notice, n \in pump.batch, NEW i \in Row,
           Insert(i, RouteOf(n), n, "pending"), UNCHANGED <<route, serve, job, native, ledger>>
    PROVE  RInv' /\ ToldOK' /\ ToldInOrder' /\ IsStored(n)'
<1>1. /\ RInv /\ TypeOK /\ Stands /\ ToldOK /\ ToldInOrder /\ PumpOK /\ LTypeOK
      /\ UNCHANGED <<request, notice>>
  BY DEF LInv, RInv, ledger
<1>2. notice[n].state = "pending" /\ RouteOf(n) \in Binding /\ n \in Key
  <2>1. notice[n].state = "pending" /\ n[1] \in Request /\ n[2] \in Nat /\ n[2] > 0
    BY <1>1, Notices DEF PumpOK, Revision
  <2>2. n[2] <= request[n[1]].revision
    BY <2>1 DEF LInv, RequestsOK
  <2> QED BY <2>1, <2>2, Notices DEF LInv, RequestsOK, RouteOf
<1>3. RInv'
  BY <1>1, <1>2, InsertOK
<1>4. /\ events'[i].key = n /\ events'[i].binding = RouteOf(n) /\ State(i) = "none"
      /\ \A j \in Row : j # i => events'[j] = events[j]
      /\ \A j \in Row : State(j) # "none" => j < i
  BY <1>1, <1>2, Inserted
<1>5. /\ events[i].key \notin Notice
      /\ \A j \in Row : events[j].key \in Notice => State(j) # "none" /\ j < i
  <2>1. \A j \in Row : State(j) = "none" => events[j].key = None
    BY <1>1 DEF Stands, RowsOK, NoRow, NewRow
  <2> QED BY <2>1, <1>4, Notices
<1>6. \A j \in Row : events[j].key # n
  <2> SUFFICES ASSUME NEW j \in Row, events[j].key = n PROVE FALSE
    OBVIOUS
  <2>1. events[j].binding = RouteOf(n)
    BY <1>1 DEF ToldOK
  <2> QED BY <2>1 DEF Insert, Known
<1>7. ToldOK'
  <2>1. \A m \in Notice : RouteOf(m)' = RouteOf(m)
    BY <1>1 DEF RouteOf
  <2>2. \A m \in Notice : IsStored(m) => IsStored(m)'
    BY <1>4, <1>5 DEF IsStored
  <2>3. ASSUME NEW j \in Row, events'[j].key \in Notice
        PROVE  /\ notice[events'[j].key].state # "none"
               /\ events'[j].binding = RouteOf(events'[j].key)
    BY <1>1, <1>2, <1>4, <2>3 DEF ToldOK
  <2> QED BY <1>1, <2>1, <2>2, <2>3 DEF ToldOK, RouteOf
<1>8. ToldInOrder'
  <2> SUFFICES ASSUME NEW m \in Notice,
                      notice[m].state = "accepted" \/ (\E j \in Row : events'[j].key = m),
                      NEW v \in 1..m[2], notice[<<m[1], v>>].state # "none"
               PROVE  \E k \in Row : /\ events'[k].key = <<m[1], v>>
                                     /\ \A j \in Row : events'[j].key = m => k <= j
    BY <1>1 DEF ToldInOrder
  <2>1. /\ <<m[1], v>> \in Notice /\ v \in Nat /\ v <= m[2]
        /\ m = <<m[1], m[2]>> /\ m[2] \in Nat
    BY Notices
  <2>2. CASE m = n /\ v = m[2]
    <3>1. \A j \in Row : events'[j].key = n => j = i
      BY <1>4, <1>6
    <3> QED BY <2>1, <2>2, <3>1, <1>4 DEF Row
  <2>3. CASE m = n /\ v # m[2]
    <3>1. v \in 1..(n[2] - 1)
      BY <2>1, <2>3
    <3>2. notice[<<n[1], v>>].state = "accepted"
      <4>1. notice[<<n[1], v>>].state # "pending"
        BY <3>1, <1>1 DEF PumpOK
      <4>2. notice[<<n[1], v>>].state \in {"none", "pending", "accepted"}
        BY <2>1, <2>3, <1>1 DEF LTypeOK
      <4> QED BY <2>3, <4>1, <4>2
    <3>3. PICK k \in Row : events[k].key = <<n[1], v>>
      BY <2>1, <2>3, <3>2, <1>1 DEF ToldOK, IsStored
    <3>4. k < i /\ k # i /\ events'[k].key = <<n[1], v>>
      BY <2>1, <2>3, <3>3, <1>4, <1>5
    <3>5. \A j \in Row : events'[j].key = n => j = i
      BY <1>4, <1>6
    <3> QED BY <2>3, <3>4, <3>5 DEF Row
  <2>4. CASE m # n
    <3>1. \A j \in Row : events'[j].key = m => j # i /\ events[j].key = m
      BY <2>4, <1>4
    <3>2. notice[m].state = "accepted" \/ (\E j \in Row : events[j].key = m)
      BY <3>1
    <3>3. PICK k \in Row : /\ events[k].key = <<m[1], v>>
                           /\ \A j \in Row : events[j].key = m => k <= j
      BY <3>2, <1>1 DEF ToldInOrder
    <3>4. events'[k].key = <<m[1], v>>
      BY <3>3, <2>1, <1>4, <1>5
    <3> QED BY <3>1, <3>3, <3>4
  <2> QED BY <2>2, <2>3, <2>4
<1>9. IsStored(n)'
  BY <1>4 DEF IsStored
<1> QED BY <1>3, <1>7, <1>8, <1>9

LEMMA PumpIngestOK ==
    ASSUME LInv, NEW n \in Notice, PumpIngest(n)
    PROVE  LInv'
<1>1. /\ n \in pump.batch /\ pump' = [pump EXCEPT !.item = n]
      /\ UNCHANGED <<route, serve, job, native, ledger>> /\ UNCHANGED <<request, notice>>
      /\ LTypeOK /\ PumpOK
  BY DEF PumpIngest, LInv, ledger
<1>2. RInv' /\ ToldOK' /\ ToldInOrder' /\ IsStored(n)'
  <2>1. CASE Known(RouteOf(n), n) /\ UNCHANGED events
    <3>1. UNCHANGED <<vars, request, notice>>
      BY <1>1, <2>1 DEF vars, store
    <3>2. RInv'
      BY <3>1 DEF vars, store, native, LInv, RInv, TypeOK, Stands, JobOK, RoutesOK, RowsOK,
         KeysOnce, GivenOK, Once, Fresh, AcceptedIsTaken, LookedForWhereSent, WireInDoubt,
         HeldBehind, TakenInOrder, State, Target, Decided, NotGiven, Taken, Given, Placed
    <3>3. ToldOK' /\ ToldInOrder'
      <4>1. events' = events /\ notice' = notice /\ request' = request
        BY <2>1, <3>1
      <4>2. ToldOK'
        BY <4>1, Zenon DEF LInv, ToldOK, IsStored, RouteOf
      <4>3. ToldInOrder'
        BY <4>1, OrderStays DEF LInv
      <4> QED BY <4>2, <4>3
    <3>4. IsStored(n)'
      BY <2>1 DEF Known, IsStored
    <3> QED BY <3>2, <3>3, <3>4
  <2>2. CASE \E i \in Row : Insert(i, RouteOf(n), n, "pending")
    BY <1>1, <2>2, StoredInOrder
  <2> QED BY <2>1, <2>2 DEF PumpIngest
<1>3. /\ pump'.batch = pump.batch /\ pump'.item = n
      /\ pump' \in [batch : SUBSET Notice, seen : SUBSET Binding, item : Notice \cup {None}]
  BY <1>1 DEF LTypeOK
<1>4. LTypeOK'
  BY <1>1, <1>2, <1>3 DEF LTypeOK, RInv
<1>5. PumpOK'
  <2>1. \E j \in Row : events'[j].key = n
    BY <1>2 DEF IsStored
  <2> QED BY <1>1, <1>3, <2>1 DEF PumpOK, IsStored
<1>6. RequestsOK' /\ OpenRequestsCanEnd'
  BY <1>1 DEF LInv, RequestsOK, OpenRequestsCanEnd, OpenRequests, PendingNotices
<1> QED BY <1>2, <1>4, <1>5, <1>6 DEF LInv

-----------------------------------------------------------------------------
(* Steps of the receiver.                                                  *)

LEMMA SendersSendEvents ==
    ASSUME LInv, Senders
    PROVE  \A j \in Row : \/ Keeps(events[j], events'[j])
                          \/ events[j].key \notin Notice /\ events'[j].key \notin Notice
<1>1. PICK i \in Row, b \in Binding, k \in Sent, state \in {"pending", "ignored"} :
         Insert(i, b, k, state) /\ k \in Key /\ UNCHANGED <<route, native>>
  BY DEF Senders, ingest
<1>2. /\ events'[i].key = k /\ State(i) = "none" /\ \A j \in Row : j # i => events'[j] = events[j]
  BY <1>1, Inserted DEF LInv, RInv
<1>3. events[i].key = None
  BY <1>2 DEF LInv, RInv, Stands, RowsOK, NoRow, NewRow
<1> QED BY <1>2, <1>3, Notices DEF Keeps

LEMMA ReceiverKeepsLedger ==
    ASSUME LInv, ReceiverStep
    PROVE  LInv'
<1>1. /\ Next /\ pump' \in {pump, AtRest} /\ UNCHANGED <<request, notice>>
      /\ LTypeOK /\ ToldOK /\ PumpOK /\ ToldInOrder
  BY DEF ReceiverStep, ledger, LInv
<1>2. RInv'
  BY <1>1, ReceiverStepOK DEF LInv
<1>3. \A j \in Row : \/ Keeps(events[j], events'[j])
                     \/ events[j].key \notin Notice /\ events'[j].key \notin Notice
  BY <1>1, SendersSendEvents, KeysAreKept DEF LInv, KeysStay
<1>4. \A j \in Row, n \in Notice : (events'[j].key = n) <=> (events[j].key = n)
  BY <1>3 DEF Keeps
<1>5. /\ AtRest.batch = {} /\ AtRest.item = None
      /\ AtRest \in [batch : SUBSET Notice, seen : SUBSET Binding, item : Notice \cup {None}]
  BY DEF AtRest
<1>6. LTypeOK'
  BY <1>1, <1>2, <1>5 DEF LTypeOK, RInv
<1>7. ToldOK'
  <2>1. \A n \in Notice : RouteOf(n)' = RouteOf(n) /\ (IsStored(n)' <=> IsStored(n))
    BY <1>1, <1>4 DEF RouteOf, IsStored
  <2>2. ASSUME NEW j \in Row, events'[j].key \in Notice
        PROVE  /\ notice[events'[j].key].state # "none"
               /\ events'[j].binding = RouteOf(events'[j].key)
    <3>1. Keeps(events[j], events'[j])
      BY <2>2, <1>3
    <3> QED BY <2>2, <3>1, <1>1 DEF Keeps, ToldOK
  <2> QED BY <1>1, <2>1, <2>2 DEF ToldOK, RouteOf
<1>8. PumpOK'
  <2>1. pump'.item # None => pump'.item \in Notice /\ pump'.item = pump.item
    BY <1>1, <1>5 DEF LTypeOK
  <2>2. pump'.item # None => \E j \in Row : events'[j].key = pump'.item
    BY <2>1, <1>1, <1>4 DEF PumpOK, IsStored
  <2>3. pump'.batch \subseteq pump.batch
    BY <1>1, <1>5
  <2> QED BY <2>2, <2>3, <1>1 DEF PumpOK, IsStored
<1>9. ToldInOrder'
  <2> SUFFICES ASSUME NEW n \in Notice,
                      notice[n].state = "accepted" \/ (\E j \in Row : events'[j].key = n),
                      NEW v \in 1..n[2], notice[<<n[1], v>>].state # "none"
               PROVE  \E k \in Row : /\ events'[k].key = <<n[1], v>>
                                     /\ \A j \in Row : events'[j].key = n => k <= j
    BY <1>1 DEF ToldInOrder
  <2>1. <<n[1], v>> \in Notice
    BY Notices
  <2>2. PICK k \in Row : /\ events[k].key = <<n[1], v>>
                         /\ \A j \in Row : events[j].key = n => k <= j
    BY <1>1, <1>4 DEF ToldInOrder
  <2> QED BY <2>1, <2>2, <1>4
<1>10. RequestsOK' /\ OpenRequestsCanEnd'
  BY <1>1 DEF LInv, RequestsOK, OpenRequestsCanEnd, OpenRequests, PendingNotices
<1> QED BY <1>2, <1>6, <1>7, <1>8, <1>9, <1>10 DEF LInv

-----------------------------------------------------------------------------
(* The theorems.                                                           *)

LEMMA Step ==
    ASSUME LInv, [LNext]_lvars
    PROVE  LInv'
<1>1. ASSUME ReceiverStep PROVE LInv'
  BY <1>1, ReceiverKeepsLedger
<1>2. ASSUME Ledger PROVE LInv'
  BY <1>2, CreateOK, TransitionOK, TimePassesOK DEF Ledger
<1>3. ASSUME Pump PROVE LInv'
  BY <1>3, ExpireDueOK, PumpStepOK, PumpIngestOK DEF Pump
<1>4. ASSUME \E n \in Notice : NoticeComes(n) PROVE LInv'
  BY <1>4, TimePassesOK
<1>5. ASSUME UNCHANGED lvars PROVE LInv'
  <2>1. /\ UNCHANGED <<vars, pump>> /\ request' = request /\ notice' = notice
    BY <1>5 DEF lvars, ledger
  <2>2. RInv' /\ ToldOK' /\ PumpOK' /\ ToldInOrder'
    BY <2>1, NoticesGrow
  <2>3. LTypeOK' /\ RequestsOK' /\ OpenRequestsCanEnd'
    BY <2>1, <2>2 DEF LInv, RInv, LTypeOK, RequestsOK, OpenRequestsCanEnd, OpenRequests,
       PendingNotices
  <2> QED BY <2>2, <2>3 DEF LInv
<1> QED BY <1>1, <1>2, <1>3, <1>4, <1>5 DEF LNext

\* The invariant holds in every state of the receiver and its ledger.
THEOREM Invariant == LSpec => []LInv
<1>1. LInit => LInv
  BY LedgerInit
<1>2. LInv /\ [LNext]_lvars => LInv'
  BY Step
<1> QED BY <1>1, <1>2, PTL DEF LSpec

\* The variables have their types.
THEOREM TypeCorrect == LSpec => []LTypeOK
<1>1. LInv => LTypeOK
  BY DEF LInv
<1> QED BY <1>1, Invariant, PTL

\* dispatch_once never hands an event to an App Server again that may have it,
\* unless an operator asked for it, whatever answers and processes are lost.
THEOREM NoEventIsTakenTwice == LSpec => []NoBlindReplay
<1>1. LInv => NoBlindReplay
  <2> SUFFICES ASSUME LInv PROVE NoBlindReplay
    OBVIOUS
  <2>1. TypeOK /\ Once /\ Fresh
    BY DEF LInv, RInv, Stands
  <2>2. ASSUME NEW s \in Placed, State(s.row) \in {"pending", "dead"}
        PROVE  s.nth # events[s.row].replays
    <3>1. s \in Given /\ s.row \in Row
      BY <2>1, GivenTypes
    <3> QED BY <2>1, <2>2, <3>1 DEF Fresh, NotGiven
  <2> QED BY <2>1, <2>2 DEF NoBlindReplay, Once
<1> QED BY <1>1, Invariant, PTL

\* The NOT EXISTS of dispatch_once: App Servers take the events of a route in
\* their order.
THEOREM RoutesAreInOrder == LSpec => []TakenInOrder
<1>1. LInv => TakenInOrder
  BY DEF LInv, RInv, Stands
<1> QED BY <1>1, Invariant, PTL

\* dispatch_once reports as accepted only what an App Server took.
THEOREM AcceptedWasTaken == LSpec => []AcceptedIsTaken
<1>1. LInv => AcceptedIsTaken
  BY DEF LInv, RInv, Stands
<1> QED BY <1>1, Invariant, PTL

\* rebind never moves a route away from what was sent over it and is in doubt.
THEOREM DoubtIsResolvedWhereSent == LSpec => []LookedForWhereSent
<1>1. LInv => LookedForWhereSent
  BY DEF LInv, RInv, Stands
<1> QED BY <1>1, Invariant, PTL

\* The limits of create, transition and expire_due leave every open request an
\* update and a notification for its end.
THEOREM RequestsCanEnd == LSpec => []OpenRequestsCanEnd
<1>1. LInv => OpenRequestsCanEnd
  BY DEF LInv
<1> QED BY <1>1, Invariant, PTL

\* The pump stores the notifications of a request in their order, although it
\* may die between the two databases.
THEOREM NotificationsAreInOrder == LSpec => []ToldInOrder
<1>1. LInv => ToldInOrder
  BY DEF LInv
<1> QED BY <1>1, Invariant, PTL

\* From both orders: a conversation is told of a request in the order of its
\* revisions.
THEOREM RevisionsAreInOrder == LSpec => []RevisionsTakenInOrder
<1>1. LInv => RevisionsTakenInOrder
  <2> SUFFICES ASSUME LInv,
                      NEW m \in DOMAIN placed, NEW n \in DOMAIN placed,
                      NEW q \in Request, NEW v \in Revision, NEW w \in Revision, m < n,
                      events[placed[m].row].key = <<q, v>>, events[placed[n].row].key = <<q, w>>,
                      w < v
               PROVE  Decided(placed[n].row)
    BY DEF RevisionsTakenInOrder, Revision
  <2> DEFINE i == placed[m].row
             j == placed[n].row
  <2>1. i \in Row /\ j \in Row /\ State(i) # "none" /\ State(j) # "none"
    <3>1. placed[m] \in Given /\ placed[n] \in Given /\ i \in Row /\ j \in Row
      BY GivenTypes DEF LInv, RInv
    <3> QED BY <3>1 DEF LInv, RInv, Stands, GivenOK
  <2>2. <<q, v>> \in Notice /\ <<q, w>> \in Notice /\ w \in 1..v
    BY Notices DEF Revision
  <2>3. /\ notice[<<q, w>>].state # "none"
        /\ events[i].binding = request[q].binding /\ events[j].binding = request[q].binding
    BY <2>1, <2>2 DEF LInv, ToldOK, RouteOf
  <2>4. PICK k \in Row : events[k].key = <<q, w>> /\ k <= i
    BY <2>1, <2>2, <2>3 DEF LInv, ToldInOrder
  <2>5. State(k) # "none" /\ events[k].binding = request[q].binding
    <3>1. State(k) = "none" => events[k].key = None
      BY DEF LInv, RInv, Stands, RowsOK, NoRow, NewRow
    <3> QED BY <3>1, <2>2, <2>4, Notices DEF LInv, ToldOK, RouteOf
  <2>6. k = j
    BY <2>1, <2>3, <2>4, <2>5 DEF LInv, RInv, Stands, KeysOnce
  <2>7. i # j
    BY <2>2
  <2> QED BY <2>1, <2>3, <2>4, <2>6, <2>7 DEF LInv, RInv, Stands, TakenInOrder, Row
<1> QED BY <1>1, Invariant, PTL

\* Until an operator decides about an event, each commit of dispatch_once, of the
\* senders and of the pump is a step of Delivery, or none: this receiver keeps
\* the promise that the native one keeps.
THEOREM Implements == LSpec => KeepsItsPromise
<1>1. LInit => Promise!Init
  <2> SUFFICES ASSUME Init PROVE Promise!Init
    BY DEF LInit
  <2>1. placed = <<>> /\ \A i \in Row : State(i) = "none" /\ events[i].binding = None
    BY DEF Init, State, NoRow, NewRow
  <2>2. Rows = <<>>
    BY <2>1 DEF Rows
  <2> QED BY <2>1, <2>2, StageValues DEF Promise!Init, Rows
<1>2. LInv /\ [LNext]_lvars => [Undecided' => [Promise!Next]_(Promise!vars)]_vars
  <2> SUFFICES ASSUME LInv, LNext, Undecided', ~UNCHANGED vars
               PROVE  [Promise!Next]_(Promise!vars)
    BY DEF lvars
  <2>1. RInv
    BY DEF LInv
  <2>2. CASE ReceiverStep
    BY <2>1, <2>2, ReceiverRefines DEF ReceiverStep
  <2>3. CASE \E n \in Notice : PumpIngest(n)
    <3>1. PICK n \in Notice : PumpIngest(n)
      BY <2>3
    <3>2. ~(UNCHANGED events)
      BY <3>1 DEF PumpIngest, vars, store
    <3>3. PICK i \in Row : Insert(i, RouteOf(n), n, "pending") /\ UNCHANGED <<route, native>>
      BY <3>1, <3>2 DEF PumpIngest
    <3>4. RouteOf(n) \in Binding /\ n \in Key
      BY <3>1, LifecycleConstants DEF PumpIngest, LInv, LTypeOK
    <3> QED BY <2>1, <3>3, <3>4, InsertRefines DEF RInv
  <2>4. CASE ~ReceiverStep /\ ~(\E n \in Notice : PumpIngest(n))
    BY <2>4 DEF LNext, Ledger, Pump, create, transition, DeadlineComes, NoticeComes, expire_due,
       pending_notifications, notification_deferred, notification_error, Later,
       notification_accepted, PumpFails
  <2> QED BY <2>2, <2>3, <2>4
<1> QED BY <1>1, <1>2, Invariant, PTL DEF LSpec, KeepsItsPromise
=============================================================================
