--------------------------- MODULE DiscordProofs ---------------------------
(***************************************************************************)
(* Proofs about DiscordGateway: its safety properties, for any messages,    *)
(* channels and configurations, any sizes of pages and batches, and any     *)
(* number of lost connections, forgotten sessions and deaths.               *)
(***************************************************************************)
EXTENDS DiscordGateway, FiniteSetTheorems, WellFoundedInduction, TLAPS

-----------------------------------------------------------------------------
(* The inductive invariant of the worker.                                  *)

Targets == {Target[c] : c \in Config}
StoredRow == [state : {"none", "pending", "delivered"}, target : Targets \cup {None},
              tries : 0..MaxAttempts, reacted : BOOLEAN, seenTries : 0..MaxSeen]

RowsOK ==
    /\ config \in Config \cup {None}
    /\ pending \in [Message -> StoredRow]
    /\ raw \subseteq Message /\ later \subseteq Message
    /\ work \in [phase : {"rest", "prepare", "deliver", "seen"},
                 todo : SUBSET Message, waits : {"no", "answer", "error"}]
    /\ received \subseteq Message \X (Targets \cup {None})

WorkerRuns == work.phase # "rest" => config # None

\* The rows in the worker's hands are still those its query selected: nobody
\* else changes them.
PrepareIsRaw == work.phase = "prepare" => work.todo \subseteq raw
DeliverIsDue ==
    work.phase = "deliver" =>
        \A m \in work.todo : pending[m].state = "pending" /\ pending[m].tries < MaxAttempts
SeenIsDelivered ==
    work.phase = "seen" =>
        \A m \in work.todo : pending[m].state = "delivered" /\ pending[m].seenTries < MaxSeen

\* Who waits for an answer has posted the row whose turn it is.
AnswerIsOfPosted ==
    /\ work.waits # "no" => work.phase = "deliver"
    /\ work.waits = "answer" =>
          \A m \in work.todo : m = Min(work.todo) => <<m, pending[m].target>> \in received

\* What the receiver has is a row with the route it was prepared for.
RouteIsStored ==
    \A e \in received : pending[e[1]].state # "none" /\ e[2] = pending[e[1]].target

ConsumedIsStored == consumed \subseteq Rows

RowsInv ==
    /\ RowsOK /\ WorkerRuns
    /\ PrepareIsRaw /\ DeliverIsDue /\ SeenIsDelivered /\ AnswerIsOfPosted
    /\ StoredOnce /\ RouteIsStored /\ ConsumedIsStored /\ ReceiptsTellTruth

-----------------------------------------------------------------------------
(* Helpers of the model.                                                   *)

LEMMA MessagesAreNumbers ==
    /\ Message \subseteq Nat /\ IsFiniteSet(Message) /\ Cardinality(Message) \in Nat
    /\ Message = 1..Cardinality(Message) /\ Greeting \notin Message
  BY GatewayConstants, FS_CardinalityType DEF Greeting

LEMMA LimitsAreNumbers ==
    /\ PageSize \in Nat \ {0} /\ MaxPages \in Nat \ {0} /\ Batch \in Nat \ {0}
    /\ MaxAttempts \in Nat \ {0} /\ MaxSeen \in Nat \ {0}
    /\ MaxSessions \in Nat /\ MaxLosses \in Nat /\ MaxStops \in Nat
  BY GatewayConstants

LEMMA MinIsLeast ==
    ASSUME NEW S \in SUBSET Nat, S # {}
    PROVE  Min(S) \in S /\ \A y \in S : Min(S) <= y
<1>1. PICK x \in S : \A y \in S : ~(<<y, x>> \in OpToRel(<, Nat))
  BY NatLessThanWellFounded, WFMin
<1>2. \A y \in S : x <= y
  <2> SUFFICES ASSUME NEW y \in S PROVE x <= y
    OBVIOUS
  <2>1. ~(<<y, x>> \in OpToRel(<, Nat))
    BY <1>1
  <2>2. ~(y < x)
    BY <2>1 DEF OpToRel
  <2> QED BY <2>2
<1> QED BY <1>2 DEF Min

\* A query returns rows of the set it is made on.
LEMMA FirstOfIsSubset ==
    ASSUME NEW S, NEW n
    PROVE  FirstOf(S, n) \subseteq S
  BY DEF FirstOf

\* enqueue adds at most one message, and none that was prepared.
LEMMA EnqueuedAdds ==
    ASSUME NEW m \in Message
    PROVE  /\ raw \subseteq Enqueued(m)
           /\ Enqueued(m) \subseteq raw \cup {m}
           /\ Enqueued(m) \cap Rows \subseteq raw
  BY DEF Enqueued, IsNew, Accepts

-----------------------------------------------------------------------------
(* Whatever the connection and the process do, the worker's rows are safe.  *)

LEMMA OthersKeepRows ==
    ASSUME RowsInv, UNCHANGED <<pending, received>>,
           config' \in Config \cup {None}, later' \subseteq Message,
           consumed' \subseteq Rows, consumed \subseteq consumed',
           raw' \subseteq Message, raw \subseteq raw', raw' \cap Rows \subseteq raw,
           work' = AtRest \/ (work' = work /\ (config' = config \/ config = None))
    PROVE  RowsInv'
<1> USE DEF RowsInv
<1>1. RowsOK' /\ WorkerRuns'
  BY DEF RowsOK, WorkerRuns, AtRest
<1>2. PrepareIsRaw' /\ DeliverIsDue' /\ SeenIsDelivered' /\ AnswerIsOfPosted'
  BY DEF PrepareIsRaw, DeliverIsDue, SeenIsDelivered, AnswerIsOfPosted, AtRest
<1>3. StoredOnce'
  BY DEF StoredOnce, Rows
<1>4. RouteIsStored' /\ ConsumedIsStored' /\ ReceiptsTellTruth'
  BY DEF RouteIsStored, ConsumedIsStored, ReceiptsTellTruth, Rows
<1> QED BY <1>1, <1>2, <1>3, <1>4

-----------------------------------------------------------------------------
(* The worker.                                                             *)

LEMMA NextPhaseKeepsRows == RowsInv /\ NextPhase => RowsInv'
<1> SUFFICES ASSUME RowsInv, NextPhase PROVE RowsInv'
  OBVIOUS
<1> USE DEF RowsInv
<1>0. UNCHANGED <<config, pending, raw, later, received, consumed>> /\ Running
  BY DEF NextPhase, WorkerOnly, receiver
<1>1. \/ work' = AtRest
      \/ EnterPrepare \/ EnterDeliver \/ EnterSeen
  BY DEF NextPhase, RowsOK
<1>2. ASSUME work' = AtRest PROVE RowsInv'
  BY <1>0, <1>2, OthersKeepRows DEF RowsOK, ConsumedIsStored, StoredOnce
<1>3. ASSUME NEW phase \in {"prepare", "deliver", "seen"}, NEW S \in SUBSET Message,
             Enter(phase, S),
             phase = "prepare" => S \subseteq raw,
             phase = "deliver" => S \subseteq Deliverable,
             phase = "seen" => S \subseteq Unseen
      PROVE  RowsInv'
  <2>1. work' = [phase |-> phase, todo |-> S, waits |-> "no"]
    BY <1>3 DEF Enter
  <2>2. RowsOK' /\ WorkerRuns'
    BY <1>0, <2>1 DEF RowsOK, WorkerRuns, Running
  <2>3. PrepareIsRaw' /\ DeliverIsDue' /\ SeenIsDelivered' /\ AnswerIsOfPosted'
    BY <1>0, <1>3, <2>1
    DEF PrepareIsRaw, DeliverIsDue, SeenIsDelivered, AnswerIsOfPosted, Deliverable,
        Unseen, RowsOK, StoredRow
  <2>4. StoredOnce' /\ RouteIsStored' /\ ConsumedIsStored' /\ ReceiptsTellTruth'
    BY <1>0 DEF StoredOnce, RouteIsStored, ConsumedIsStored, ReceiptsTellTruth, Rows
  <2> QED BY <2>2, <2>3, <2>4
<1>4. Rows \subseteq Message /\ raw \subseteq Message
  BY DEF Rows, RowsOK
<1>5. ASSUME EnterPrepare PROVE RowsInv'
  BY <1>3, <1>4, <1>5, FirstOfIsSubset DEF EnterPrepare
<1>6. ASSUME EnterDeliver PROVE RowsInv'
  <2>1. Deliverable \subseteq Message
    BY <1>4 DEF Deliverable
  <2> QED BY <1>3, <2>1, <1>6, FirstOfIsSubset DEF EnterDeliver
<1>7. ASSUME EnterSeen PROVE RowsInv'
  <2>1. PICK S \in SUBSET Unseen : Enter("seen", S)
    BY <1>7 DEF EnterSeen
  <2>2. Unseen \subseteq Message
    BY <1>4 DEF Unseen
  <2> QED BY <1>3, <2>1, <2>2
<1> QED BY <1>1, <1>2, <1>5, <1>6, <1>7

\* A step that ends the turn of one row, and changes that row alone.
LEMMA TurnKeepsRows ==
    ASSUME RowsInv, NEW m \in Message, m \in work.todo, Done(m),
           UNCHANGED <<config, received, consumed>>,
           later' \subseteq Message,
           NEW row \in StoredRow, pending' = [pending EXCEPT ![m] = row],
           raw' = raw \/ raw' = raw \ {m},
           row.state # "none" => m \notin raw',
           row.target = pending[m].target \/ pending[m].state = "none",
           pending[m].state = "none" \/ row.state # "none",
           row.state = "delivered" => <<m, row.target>> \in received,
           row.reacted => row.state = "delivered" /\ m \in consumed
    PROVE  RowsInv'
<1> USE DEF RowsInv
<1>1. work' = [work EXCEPT !.todo = @ \ {m}, !.waits = "no"]
  BY DEF Done
<1>2. /\ work'.phase = work.phase /\ work'.todo = work.todo \ {m} /\ work'.waits = "no"
      /\ pending'[m] = row
      /\ \A k \in Message \ {m} : pending'[k] = pending[k]
  BY <1>1 DEF RowsOK
<1>3. RowsOK' /\ WorkerRuns'
  BY <1>1 DEF RowsOK, WorkerRuns
<1>4. PrepareIsRaw' /\ DeliverIsDue' /\ SeenIsDelivered' /\ AnswerIsOfPosted'
  BY <1>2 DEF PrepareIsRaw, DeliverIsDue, SeenIsDelivered, AnswerIsOfPosted, RowsOK
<1>5. StoredOnce'
  BY <1>2 DEF StoredOnce, Rows
<1>6. RouteIsStored' /\ ConsumedIsStored'
  BY <1>2 DEF RouteIsStored, ConsumedIsStored, RowsOK, Rows
<1>7. ReceiptsTellTruth'
  BY <1>2 DEF ReceiptsTellTruth, Rows
<1> QED BY <1>3, <1>4, <1>5, <1>6, <1>7

LEMMA PrepareKeepsRows ==
    ASSUME RowsInv, NEW m \in Message, Prepare(m) PROVE RowsInv'
<1> DEFINE row == [NoRow EXCEPT !.state = "pending", !.target = Target[config]]
<1>1. m \in work.todo /\ m \in raw /\ pending[m].state = "none"
  BY DEF RowsInv, Prepare, Turn, PrepareIsRaw, StoredOnce, Rows
<1>2. config \in Config
  BY DEF Prepare, RowsInv, RowsOK, WorkerRuns
<1>3. row \in StoredRow /\ row.state = "pending" /\ ~row.reacted
  <2>1. 0 \in 0..MaxAttempts /\ 0 \in 0..MaxSeen /\ Target[config] \in Targets
    BY <1>2, LimitsAreNumbers DEF Targets
  <2>2. NoRow \in StoredRow /\ ~NoRow.reacted
    BY <2>1 DEF NoRow, StoredRow
  <2> QED BY <2>1, <2>2 DEF StoredRow
<1>4. /\ pending' = [pending EXCEPT ![m] = row] /\ raw' = raw \ {m} /\ Done(m)
      /\ UNCHANGED <<config, received, consumed, later>>
  BY DEF Prepare, WorkerOnly, receiver
<1> HIDE DEF row
<1> QED BY <1>1, <1>3, <1>4, TurnKeepsRows DEF RowsInv, RowsOK

LEMMA DeliveredKeepsRows ==
    ASSUME RowsInv, NEW m \in Message, Delivered(m) PROVE RowsInv'
<1> DEFINE row == [pending[m] EXCEPT !.state = "delivered"]
<1>1. /\ m \in work.todo /\ m = Min(work.todo) /\ pending[m].state = "pending"
      /\ <<m, pending[m].target>> \in received
  BY DEF RowsInv, Delivered, DeliverIsDue, AnswerIsOfPosted
<1>2. /\ row \in StoredRow /\ row.state = "delivered" /\ row.target = pending[m].target
      /\ row.reacted = pending[m].reacted
  BY DEF RowsInv, RowsOK, StoredRow
<1>3. ~pending[m].reacted /\ m \notin raw
  BY <1>1 DEF RowsInv, ReceiptsTellTruth, StoredOnce, Rows
<1>4. /\ pending' = [pending EXCEPT ![m] = row] /\ raw' = raw /\ Done(m)
      /\ UNCHANGED <<config, received, consumed, later>>
  BY DEF Delivered, WorkerOnly, receiver
<1> HIDE DEF row
<1> QED BY <1>1, <1>2, <1>3, <1>4, TurnKeepsRows DEF RowsInv, RowsOK

LEMMA DeliverFailsKeepsRows ==
    ASSUME RowsInv, NEW m \in Message, DeliverFails(m) PROVE RowsInv'
<1> DEFINE row == Failed(m)
<1>1. m \in work.todo /\ pending[m].state = "pending" /\ pending[m].tries < MaxAttempts
  BY DEF RowsInv, DeliverFails, DeliverIsDue
<1>2. /\ row \in StoredRow /\ row.state = "pending" /\ row.target = pending[m].target
      /\ row.reacted = pending[m].reacted
  BY <1>1, LimitsAreNumbers DEF RowsInv, RowsOK, StoredRow, Failed
<1>3. ~pending[m].reacted /\ m \notin raw
  BY <1>1 DEF RowsInv, ReceiptsTellTruth, StoredOnce, Rows
<1>4. /\ pending' = [pending EXCEPT ![m] = row] /\ raw' = raw /\ Done(m)
      /\ UNCHANGED <<config, received, consumed>> /\ later' = later \cup {m}
  BY DEF DeliverFails, WorkerOnly, receiver
<1> HIDE DEF row
<1> QED BY <1>1, <1>2, <1>3, <1>4, TurnKeepsRows DEF RowsInv, RowsOK

LEMMA ReactKeepsRows ==
    ASSUME RowsInv, NEW m \in Message, React(m) PROVE RowsInv'
<1> DEFINE row == Reacted(m)
<1>1. m \in work.todo /\ pending[m].state = "delivered" /\ m \in consumed
  BY DEF RowsInv, React, Turn, IsConsumed, SeenIsDelivered
<1>2. /\ row \in StoredRow /\ row.state = "delivered" /\ row.target = pending[m].target
  BY <1>1 DEF RowsInv, RowsOK, StoredRow, Reacted
<1>3. <<m, pending[m].target>> \in received /\ m \notin raw
  BY <1>1 DEF RowsInv, ReceiptsTellTruth, StoredOnce, Rows
<1>4. /\ pending' = [pending EXCEPT ![m] = row] /\ raw' = raw /\ Done(m)
      /\ UNCHANGED <<config, received, consumed, later>>
  BY DEF React, WorkerOnly, receiver
<1> HIDE DEF row
<1> QED BY <1>1, <1>2, <1>3, <1>4, TurnKeepsRows DEF RowsInv, RowsOK

LEMMA SeenFailsKeepsRows ==
    ASSUME RowsInv, NEW m \in Message, SeenFails(m) PROVE RowsInv'
<1> DEFINE row == [pending[m] EXCEPT !.seenTries = @ + 1]
<1>1. m \in work.todo /\ pending[m].state = "delivered" /\ pending[m].seenTries < MaxSeen
  BY DEF RowsInv, SeenFails, Turn, SeenIsDelivered
<1>2. /\ row \in StoredRow /\ row.state = "delivered" /\ row.target = pending[m].target
      /\ row.reacted = pending[m].reacted
  BY <1>1, LimitsAreNumbers DEF RowsInv, RowsOK, StoredRow
<1>3. /\ <<m, pending[m].target>> \in received /\ m \notin raw
      /\ pending[m].reacted => m \in consumed
  BY <1>1 DEF RowsInv, ReceiptsTellTruth, StoredOnce, Rows
<1>4. /\ pending' = [pending EXCEPT ![m] = row] /\ raw' = raw /\ Done(m)
      /\ UNCHANGED <<config, received, consumed>> /\ later' = later \cup {m}
  BY DEF SeenFails, receiver
<1> HIDE DEF row
<1> QED BY <1>1, <1>2, <1>3, <1>4, TurnKeepsRows DEF RowsInv, RowsOK

LEMMA NotConsumedKeepsRows ==
    ASSUME RowsInv, NEW m \in Message, NotConsumed(m) PROVE RowsInv'
<1>1. m \in work.todo /\ pending[m].state = "delivered"
  BY DEF RowsInv, NotConsumed, Turn, SeenIsDelivered
<1>2. pending[m] \in StoredRow /\ pending = [pending EXCEPT ![m] = pending[m]]
  BY DEF RowsInv, RowsOK
<1>3. /\ <<m, pending[m].target>> \in received /\ m \notin raw
      /\ pending[m].reacted => m \in consumed
  BY <1>1 DEF RowsInv, ReceiptsTellTruth, StoredOnce, Rows
<1>4. /\ pending' = pending /\ raw' = raw /\ Done(m)
      /\ UNCHANGED <<config, received, consumed, later>>
  BY DEF NotConsumed, WorkerOnly, receiver
<1> QED BY <1>1, <1>2, <1>3, <1>4, TurnKeepsRows DEF RowsInv, RowsOK

\* The row goes to the receiver with the route it was prepared for.
LEMMA PostKeepsRows ==
    ASSUME RowsInv, NEW m \in Message, Post(m) PROVE RowsInv'
<1> USE DEF RowsInv
<1> DEFINE e == <<m, pending[m].target>>
<1>1. m \in work.todo /\ m = Min(work.todo) /\ pending[m].state = "pending"
  BY DEF Post, Turn, DeliverIsDue
<1>2. /\ received' \in {received, received \cup {e}}
      /\ \/ work' = [work EXCEPT !.waits = "answer"] /\ received' = received \cup {e}
         \/ work' = [work EXCEPT !.waits = "error"]
      /\ work.phase = "deliver"
      /\ UNCHANGED <<config, raw, pending, later, consumed>>
  BY DEF Post, RouteOf
<1>3. e \in Message \X (Targets \cup {None})
  BY DEF RowsOK, StoredRow
<1>4. RowsOK' /\ WorkerRuns'
  BY <1>2, <1>3 DEF RowsOK, WorkerRuns
<1>5. PrepareIsRaw' /\ DeliverIsDue' /\ SeenIsDelivered' /\ AnswerIsOfPosted'
  BY <1>1, <1>2 DEF PrepareIsRaw, DeliverIsDue, SeenIsDelivered, AnswerIsOfPosted, RowsOK
<1>6. StoredOnce' /\ ConsumedIsStored' /\ ReceiptsTellTruth'
  BY <1>2 DEF StoredOnce, ConsumedIsStored, ReceiptsTellTruth, Rows
<1>7. RouteIsStored'
  BY <1>1, <1>2 DEF RouteIsStored
<1> QED BY <1>4, <1>5, <1>6, <1>7

LEMMA PrepareFailsKeepsRows ==
    ASSUME RowsInv, NEW m \in Message, PrepareFails(m) PROVE RowsInv'
  BY OthersKeepRows DEF PrepareFails, WorkerOnly, receiver, RowsInv, RowsOK, ConsumedIsStored,
     StoredOnce

LEMMA WorkerKeepsRows == RowsInv /\ Worker => RowsInv'
  BY NextPhaseKeepsRows, PrepareKeepsRows, PrepareFailsKeepsRows, PostKeepsRows,
     DeliveredKeepsRows, DeliverFailsKeepsRows, ReactKeepsRows, NotConsumedKeepsRows,
     SeenFailsKeepsRows
  DEF Worker

-----------------------------------------------------------------------------
(* The types of the stream and of the recovery.                            *)

\* All that is stored, prepared or not.
Held == raw \cup Rows

Scan == [state : {"none", "next", "fetch", "store", "failed"}, left : SUBSET Channels,
         channel : Channels \cup {None}, after : Nat, page : SUBSET Message,
         last : BOOLEAN, pages : 0..MaxPages]
Link == [state : {"down", "reading", "storing", "ended"}, sent : Nat]
Session(n) == [id : 0..n, seq : Nat]

DiscordOK ==
    /\ posted \in 0..Cardinality(Message)
    /\ server \in [id : Nat, known : BOOLEAN, log : Seq(Message \cup {Greeting})]
    /\ \A p \in 1..Len(server.log) : server.log[p] <= posted
    /\ server.known => Len(server.log) > 0 /\ server.log[1] = Greeting
LinkOK ==
    /\ session \in Session(server.id) /\ saved \in Session(server.id)
    /\ link \in Link /\ ready \in BOOLEAN
    /\ link.state = "storing" => link.sent < Len(server.log)
    /\ link.state # "down" => config # None
ScanOK ==
    /\ cursor \in [Channels -> 0..posted]
    /\ scan \in Scan /\ scan.after <= posted /\ scan.page \subseteq Posted
    /\ scan.state \in {"fetch", "store"} => scan.channel \in Channels /\ scan.pages < MaxPages
HeldIsPosted == Held \subseteq Posted

StreamOK == DiscordOK /\ LinkOK /\ ScanOK /\ HeldIsPosted

\* A page is of the channel, after the message it is asked to follow.
LEMMA FetchTypes ==
    ASSUME DiscordOK, scan \in Scan, NEW ch \in Channels, NEW after \in 0..posted,
           NEW pages \in 0..MaxPages, pages < MaxPages, Fetch(ch, after, pages)
    PROVE  /\ scan' \in Scan /\ scan'.after <= posted /\ scan'.page \subseteq Posted
           /\ scan'.channel \in Channels /\ scan'.pages < MaxPages
           /\ scan'.state = "store" /\ scan'.channel = ch /\ scan'.after = after
           /\ scan'.left = scan.left
           /\ scan'.page = FirstOf(History(ch, after), PageSize)
           /\ scan'.last = (Cardinality(scan'.page) < PageSize)
<1> DEFINE page == FirstOf(History(ch, after), PageSize)
           last == Cardinality(page) < PageSize
<1>1. page \subseteq Posted /\ page \in SUBSET Message
  BY DEF FirstOf, History, Posted
<1>2. last \in BOOLEAN
  OBVIOUS
<1>3. scan' = [scan EXCEPT !.state = "store", !.channel = ch, !.after = after,
                 !.page = page, !.last = last, !.pages = pages]
  BY DEF Fetch
<1>4. after \in Nat /\ after <= posted
  BY MessagesAreNumbers DEF DiscordOK
<1> HIDE DEF page, last
<1>5. scan' \in Scan
  BY <1>1, <1>2, <1>3, <1>4 DEF Scan
<1>6. /\ scan'.after = after /\ scan'.page = page /\ scan'.channel = ch
      /\ scan'.pages = pages /\ scan'.state = "store" /\ scan'.left = scan.left
      /\ scan'.last = last
  BY <1>3 DEF Scan
<1> QED BY <1>1, <1>4, <1>5, <1>6 DEF page, last

LEMMA NoScanIsScan == NoScan \in Scan /\ NoScan.page = {} /\ NoScan.after = 0
                      /\ NoScan.state = "none"
  BY LimitsAreNumbers DEF NoScan, Scan

LEMMA SpawnedIsScan ==
    ASSUME config \in Config
    PROVE  /\ Spawned \in Scan /\ Spawned.page = {} /\ Spawned.after = 0
           /\ Spawned.state = "next" /\ Spawned.left = Registered
<1>1. Registered \subseteq Channels
  BY GatewayConstants DEF Registered, Channels
<1>2. Spawned = [NoScan EXCEPT !.state = "next", !.left = Registered]
  BY DEF Spawned, NewScan
<1> QED BY <1>1, <1>2, NoScanIsScan DEF Scan

\* Steps of the worker, the clock and the receiver.
Aside == UNCHANGED <<discord, config, stream, cursor>>

LEMMA AsideTypes == StreamOK /\ Aside /\ Held' \subseteq Held => StreamOK'
<1> SUFFICES ASSUME StreamOK, Aside, Held' \subseteq Held PROVE StreamOK'
  OBVIOUS
<1> USE DEF Aside, StreamOK, discord, stream
<1>1. DiscordOK' /\ LinkOK' /\ ScanOK'
  BY DEF DiscordOK, LinkOK, ScanOK, Posted
<1>2. HeldIsPosted'
  BY DEF HeldIsPosted, Posted
<1> QED BY <1>1, <1>2

LEMMA AppendAdds ==
    ASSUME NEW S, NEW q \in Seq(S), NEW x \in S
    PROVE  /\ Append(q, x) \in Seq(S)
           /\ Len(q) \in Nat /\ Len(Append(q, x)) = Len(q) + 1
           /\ \A p \in 1..Len(q) : Append(q, x)[p] = q[p]
           /\ Append(q, x)[Len(q) + 1] = x
  OBVIOUS

\* The log of a session grows at its end.
LEMMA LogGrows ==
    ASSUME DiscordOK, NEW d \in Message \cup {Greeting},
           server' = [server EXCEPT !.log = Append(@, d)]
    PROVE  /\ server' \in [id : Nat, known : BOOLEAN, log : Seq(Message \cup {Greeting})]
           /\ server'.id = server.id /\ server'.known = server.known
           /\ Len(server.log) \in Nat /\ Len(server'.log) = Len(server.log) + 1
           /\ \A p \in 1..Len(server.log) : server'.log[p] = server.log[p]
           /\ server'.log[Len(server.log) + 1] = d
<1>1. server.log \in Seq(Message \cup {Greeting})
  BY DEF DiscordOK
<1> DEFINE grown == Append(server.log, d)
<1>2. /\ grown \in Seq(Message \cup {Greeting})
      /\ Len(server.log) \in Nat /\ Len(grown) = Len(server.log) + 1
      /\ \A p \in 1..Len(server.log) : grown[p] = server.log[p]
      /\ grown[Len(server.log) + 1] = d
  BY <1>1, AppendAdds
<1>3. server' = [server EXCEPT !.log = grown]
  OBVIOUS
<1> HIDE DEF grown
<1>4. server'.log = grown /\ server'.id = server.id /\ server'.known = server.known
      /\ server' \in [id : Nat, known : BOOLEAN, log : Seq(Message \cup {Greeting})]
  BY <1>2, <1>3 DEF DiscordOK
<1> QED BY <1>2, <1>4

LEMMA SayTypes == StreamOK /\ Say => StreamOK'
<1> SUFFICES ASSUME StreamOK, Say PROVE StreamOK'
  OBVIOUS
<1> USE DEF StreamOK, Say, stream
<1>1. /\ posted \in Nat /\ posted' = posted + 1 /\ posted' \in Message
      /\ posted' \in 0..Cardinality(Message)
  BY MessagesAreNumbers DEF DiscordOK
<1>2. /\ server'.id = server.id /\ server'.known = server.known
      /\ Len(server.log) \in Nat /\ Len(server'.log) >= Len(server.log)
      /\ Len(server'.log) \in Nat
      /\ \A p \in 1..Len(server.log) : server'.log[p] = server.log[p]
      /\ \A p \in 1..Len(server'.log) : p \in 1..Len(server.log) \/ server'.log[p] = posted'
      /\ server' \in [id : Nat, known : BOOLEAN, log : Seq(Message \cup {Greeting})]
  <2>1. CASE server.known
    <3>1. PICK d \in Message \cup {Greeting} :
             d = posted' /\ server' = [server EXCEPT !.log = Append(@, d)]
      BY <1>1, <2>1
    <3> HIDE DEF Say
    <3>2. /\ server'.id = server.id /\ server'.known = server.known
          /\ Len(server.log) \in Nat /\ Len(server'.log) = Len(server.log) + 1
          /\ \A p \in 1..Len(server.log) : server'.log[p] = server.log[p]
          /\ server'.log[Len(server.log) + 1] = posted'
          /\ server' \in [id : Nat, known : BOOLEAN, log : Seq(Message \cup {Greeting})]
      BY <3>1, LogGrows DEF StreamOK
    <3>3. \A p \in 1..(Len(server.log) + 1) : p \in 1..Len(server.log) \/ p = Len(server.log) + 1
      BY <3>2
    <3> QED BY <3>2, <3>3
  <2>2. CASE ~server.known
    <3>1. server' = server
      BY <2>2
    <3> HIDE DEF Say
    <3> QED BY <3>1, AppendAdds DEF DiscordOK
  <2> QED BY <2>1, <2>2
<1>3. \A p \in 1..Len(server'.log) : server'.log[p] <= posted'
  <2> HIDE DEF Say
  <2> SUFFICES ASSUME NEW p \in 1..Len(server'.log) PROVE server'.log[p] <= posted'
    OBVIOUS
  <2>1. CASE p \in 1..Len(server.log)
    <3>1. server.log[p] \in Nat /\ server.log[p] <= posted
      BY <2>1, MessagesAreNumbers DEF DiscordOK, Greeting
    <3> QED BY <1>1, <1>2, <2>1, <3>1
  <2>2. CASE server'.log[p] = posted'
    BY <1>1, <2>2
  <2> QED BY <1>2, <2>1, <2>2
<1>4. Len(server.log) > 0 => Len(server'.log) > 0 /\ server'.log[1] = server.log[1]
  BY <1>2
<1>5. DiscordOK'
  BY <1>1, <1>2, <1>3, <1>4 DEF DiscordOK
<1>6. LinkOK'
  BY <1>2, <1>4 DEF LinkOK, Link
<1>7. Posted \subseteq Posted' /\ 0..posted \subseteq 0..posted'
  BY <1>1, MessagesAreNumbers DEF Posted
<1>8. ScanOK'
  BY <1>1, <1>7 DEF ScanOK, Scan
<1>9. HeldIsPosted'
  BY <1>7 DEF HeldIsPosted, Held, Rows
<1> QED BY <1>5, <1>6, <1>8, <1>9

\* Steps that touch neither what Discord has nor what is stored.
LEMMA SameStored ==
    ASSUME UNCHANGED <<posted, raw, pending>>
    PROVE  Held' = Held /\ Posted' = Posted
  BY DEF Held, Rows, Posted

LEMMA IdentifyTypes == StreamOK /\ Identify => StreamOK'
<1> SUFFICES ASSUME StreamOK, Identify PROVE StreamOK'
  OBVIOUS
<1> USE DEF StreamOK, Identify
<1>1. Held' = Held /\ Posted' = Posted
  BY SameStored
<1>2. /\ server'.id = server.id + 1 /\ server'.known = TRUE /\ server'.log = <<Greeting>>
      /\ server.id \in Nat /\ posted \in Nat
  BY MessagesAreNumbers DEF DiscordOK
<1>3. server' \in [id : Nat, known : BOOLEAN, log : Seq(Message \cup {Greeting})]
  BY <1>2
<1>4. DiscordOK'
  BY <1>2, <1>3, MessagesAreNumbers DEF DiscordOK, Greeting
<1>5. LinkOK'
  BY <1>2 DEF LinkOK, Link, Session, Running
<1>6. ScanOK' /\ HeldIsPosted'
  BY <1>1 DEF ScanOK, HeldIsPosted
<1> QED BY <1>4, <1>5, <1>6

LEMMA ResumeTypes == StreamOK /\ Resume => StreamOK'
<1> SUFFICES ASSUME StreamOK, Resume PROVE StreamOK'
  OBVIOUS
<1> USE DEF StreamOK, Resume
<1>1. Held' = Held /\ Posted' = Posted
  BY SameStored
<1>2. /\ server' \in [id : Nat, known : BOOLEAN, log : Seq(Message \cup {Greeting})]
      /\ server'.id = server.id /\ server'.known = server.known
      /\ Len(server.log) \in Nat /\ Len(server'.log) = Len(server.log) + 1
      /\ \A p \in 1..Len(server.log) : server'.log[p] = server.log[p]
      /\ server'.log[Len(server.log) + 1] = 0
  BY LogGrows DEF Greeting
<1>3. posted \in Nat
  BY MessagesAreNumbers DEF DiscordOK
<1>4. DiscordOK'
  BY <1>2, <1>3 DEF DiscordOK, Greeting
<1>5. LinkOK'
  BY <1>2 DEF LinkOK, Link, Session, Running
<1>6. ScanOK' /\ HeldIsPosted'
  BY <1>1 DEF ScanOK, HeldIsPosted
<1> QED BY <1>4, <1>5, <1>6

LEMMA EndedTypes ==
    StreamOK /\ (ResumeRefused \/ Lose \/ Invalidate \/ ScanFails \/ SaveSession) => StreamOK'
<1> SUFFICES ASSUME StreamOK,
                    ResumeRefused \/ Lose \/ Invalidate \/ ScanFails \/ SaveSession
             PROVE  StreamOK'
  OBVIOUS
<1> USE DEF StreamOK
<1>1. UNCHANGED <<posted, cursor, raw, pending>>
  BY DEF ResumeRefused, Lose, Invalidate, ScanFails, SaveSession, discord
<1>2. Held' = Held /\ Posted' = Posted
  BY <1>1, SameStored
<1>3. /\ server'.id = server.id /\ server'.log = server.log
      /\ server' = server \/ server' = [server EXCEPT !.known = FALSE]
      /\ server'.known => server.known
  <2>1. \/ server' = server
        \/ server' = [server EXCEPT !.known = FALSE]
        \/ server' = [server EXCEPT !.known = @ /\ server.id # session.id]
    BY DEF ResumeRefused, Lose, Invalidate, ScanFails, SaveSession, discord
  <2>2. CASE server.known
    BY <2>1, <2>2 DEF DiscordOK
  <2>3. CASE ~server.known
    BY <2>1, <2>3 DEF DiscordOK
  <2> QED BY <2>2, <2>3 DEF DiscordOK
<1>4. DiscordOK'
  BY <1>1, <1>3 DEF DiscordOK
<1>5. NoSession \in Session(server.id)
  BY DEF NoSession, Session, DiscordOK
<1>6. session' \in {session, NoSession} /\ saved' \in {saved, session}
  BY DEF ResumeRefused, Lose, Invalidate, ScanFails, SaveSession
<1>7. /\ link' \in {NoLink, [NoLink EXCEPT !.state = "ended"]}
      /\ ready' \in {ready, FALSE}
  BY DEF ResumeRefused, Lose, Invalidate, ScanFails, SaveSession, LinkEnds
<1>8. LinkOK'
  <2>1. link' \in Link /\ link'.state # "storing"
    BY <1>7 DEF NoLink, Link
  <2>2. Session(server.id)' = Session(server.id)
    BY <1>3 DEF Session
  <2>3. config' = config /\ (link'.state # "down" => config # None)
    BY <1>7 DEF ResumeRefused, Lose, Invalidate, ScanFails, SaveSession, LinkOK, Running,
        NoLink
  <2> QED BY <1>5, <1>6, <1>7, <2>1, <2>2, <2>3 DEF LinkOK
<1>9. scan' = scan \/ scan' = NoScan
  BY DEF ResumeRefused, Lose, Invalidate, ScanFails, SaveSession, LinkEnds
<1>10. posted \in Nat
  BY MessagesAreNumbers DEF DiscordOK
<1>11. ScanOK' /\ HeldIsPosted'
  BY <1>1, <1>2, <1>9, <1>10, NoScanIsScan DEF ScanOK, HeldIsPosted
<1> QED BY <1>4, <1>8, <1>11

\* What the stream or a page brings is stored if it is accepted.
LEMMA EnqueuedIsPosted ==
    ASSUME HeldIsPosted, NEW m \in Posted, raw' = Enqueued(m), pending' = pending,
           posted' = posted
    PROVE  HeldIsPosted' /\ Held \subseteq Held' /\ Held' \subseteq Held \cup {m}
<1>1. m \in Message
  BY DEF Posted
<1>2. Rows' = Rows /\ Posted' = Posted
  BY DEF Rows, Posted
<1>3. raw \subseteq raw' /\ raw' \subseteq raw \cup {m}
  BY <1>1, EnqueuedAdds
<1> QED BY <1>2, <1>3 DEF HeldIsPosted, Held

LEMMA DispatchTypes ==
    ASSUME DiscordOK, NEW p \in 1..Len(server.log), server.log[p] # Greeting
    PROVE  server.log[p] \in Posted
<1>1. server.log[p] \in Message \cup {Greeting}
  BY DEF DiscordOK
<1> QED BY <1>1 DEF DiscordOK, Posted

LEMMA TakeTypes == RowsInv /\ StreamOK /\ Take => StreamOK'
<1> SUFFICES ASSUME RowsInv, StreamOK, Take PROVE StreamOK'
  OBVIOUS
<1> DEFINE d == server.log[link.sent + 1]
<1>1. /\ UNCHANGED <<posted, server, config, saved, ready, cursor, pending>>
      /\ link' = [link EXCEPT !.state = "storing"]
      /\ link.state = "reading" /\ link.sent < Len(server.log)
  BY DEF Take, discord
<1>2. CASE d = Greeting
  <2>1. session' = [session EXCEPT !.id = server.id] /\ scan' = Spawned /\ raw' = raw
    BY <1>2 DEF Take
  <2>2. config \in Config
    BY <1>1 DEF StreamOK, LinkOK, RowsInv, RowsOK
  <2>3. DiscordOK' /\ LinkOK'
    <3>0. link' \in Link /\ link'.sent = link.sent
      BY <1>1 DEF StreamOK, LinkOK, Link
    <3>1. session' \in Session(server.id)
      BY <2>1 DEF StreamOK, DiscordOK, LinkOK, Session
    <3>2. Session(server.id)' = Session(server.id)
      BY <1>1 DEF Session
    <3>3. DiscordOK'
      BY <1>1 DEF StreamOK, DiscordOK
    <3>4. LinkOK'
      BY <1>1, <3>0, <3>1, <3>2 DEF StreamOK, LinkOK
    <3> QED BY <3>3, <3>4
  <2>4. posted \in Nat /\ Spawned \in Scan /\ Spawned.page = {} /\ Spawned.after = 0
        /\ Spawned.state = "next"
    BY <2>2, SpawnedIsScan, MessagesAreNumbers DEF StreamOK, DiscordOK
  <2>5. ScanOK'
    BY <1>1, <2>1, <2>4 DEF StreamOK, ScanOK
  <2>6. HeldIsPosted'
    BY <1>1, <2>1 DEF StreamOK, HeldIsPosted, Held, Rows, Posted
  <2> QED BY <2>3, <2>5, <2>6 DEF StreamOK
<1>3. CASE d # Greeting
  <2>1. session' = session /\ scan' = scan /\ raw' = Enqueued(d)
    BY <1>3 DEF Take
  <2>2. link.sent + 1 \in 1..Len(server.log)
    BY <1>1 DEF StreamOK, LinkOK, Link, DiscordOK
  <2>3. d \in Posted
    BY <1>3, <2>2, DispatchTypes DEF StreamOK
  <2>4. HeldIsPosted'
    BY <1>1, <2>1, <2>3, EnqueuedIsPosted DEF StreamOK
  <2>5. DiscordOK' /\ LinkOK'
    BY <1>1, <2>1 DEF StreamOK, DiscordOK, LinkOK, Link
  <2>6. ScanOK'
    BY <1>1, <2>1 DEF StreamOK, ScanOK, Posted
  <2> QED BY <2>4, <2>5, <2>6 DEF StreamOK
<1> QED BY <1>2, <1>3

LEMMA CheckpointTypes == StreamOK /\ Checkpoint => StreamOK'
<1> SUFFICES ASSUME StreamOK, Checkpoint PROVE StreamOK'
  OBVIOUS
<1> USE DEF StreamOK, Checkpoint, discord
<1>1. Held' = Held /\ Posted' = Posted
  BY SameStored
<1>2. DiscordOK' /\ ScanOK' /\ HeldIsPosted'
  BY <1>1 DEF DiscordOK, ScanOK, HeldIsPosted
<1>3. LinkOK'
  BY DEF LinkOK, Link, Session
<1> QED BY <1>2, <1>3

LEMMA ScanChannelTypes ==
    ASSUME StreamOK, NEW ch \in Channels, ScanChannel(ch)
    PROVE  StreamOK'
<1> USE DEF StreamOK
<1>1. Held' = Held /\ Posted' = Posted
  BY SameStored DEF ScanChannel, discord
<1>2. DiscordOK' /\ LinkOK' /\ HeldIsPosted'
  BY <1>1 DEF ScanChannel, discord, DiscordOK, LinkOK, HeldIsPosted
<1>3. cursor[ch] \in 0..posted /\ 0 \in 0..MaxPages /\ 0 < MaxPages
  BY LimitsAreNumbers DEF ScanOK
<1>4. ScanOK'
  BY <1>1, <1>3, FetchTypes DEF ScanChannel, ScanOK, discord
<1> QED BY <1>2, <1>4

LEMMA NextPageTypes == StreamOK /\ NextPage => StreamOK'
<1> SUFFICES ASSUME StreamOK, NextPage PROVE StreamOK'
  OBVIOUS
<1> USE DEF StreamOK
<1>1. Held' = Held /\ Posted' = Posted
  BY SameStored DEF NextPage, discord
<1>2. DiscordOK' /\ LinkOK' /\ HeldIsPosted'
  BY <1>1 DEF NextPage, discord, DiscordOK, LinkOK, HeldIsPosted
<1>3. /\ scan.channel \in Channels /\ scan.after \in 0..posted
      /\ scan.pages \in 0..MaxPages /\ scan.pages < MaxPages
  BY MessagesAreNumbers DEF NextPage, ScanOK, Scan, DiscordOK
<1>4. ScanOK'
  BY <1>1, <1>3, FetchTypes DEF NextPage, ScanOK, discord
<1> QED BY <1>2, <1>4

\* The oldest message of the page is stored.
LEMMA StoreNextStores ==
    ASSUME StreamOK, StoreNext
    PROVE  /\ Min(scan.page) \in scan.page
           /\ \A k \in scan.page : Min(scan.page) <= k
           /\ raw' = Enqueued(Min(scan.page))
           /\ scan' = [scan EXCEPT !.page = scan.page \ {Min(scan.page)},
                         !.after = Min(scan.page)]
           /\ UNCHANGED <<posted, server, config, session, saved, link, ready, cursor, pending>>
<1>1. scan.page \in SUBSET Nat /\ scan.page # {}
  BY MessagesAreNumbers DEF StoreNext, StreamOK, ScanOK, Scan
<1>2. Min(scan.page) \in scan.page /\ \A k \in scan.page : Min(scan.page) <= k
  BY <1>1, MinIsLeast
<1> QED BY <1>2 DEF StoreNext, discord

LEMMA StoreNextTypes == StreamOK /\ StoreNext => StreamOK'
<1> SUFFICES ASSUME StreamOK, StoreNext PROVE StreamOK'
  OBVIOUS
<1> USE DEF StreamOK
<1> DEFINE m == Min(scan.page)
<1>1. /\ m \in scan.page /\ raw' = Enqueued(m)
      /\ scan' = [scan EXCEPT !.page = scan.page \ {m}, !.after = m]
      /\ UNCHANGED <<posted, server, config, session, saved, link, ready, cursor, pending>>
  BY StoreNextStores
<1> HIDE DEF m
<1>2. m \in Posted /\ m \in Message /\ m \in Nat /\ m <= posted
  BY <1>1, MessagesAreNumbers DEF ScanOK, Posted
<1>3. HeldIsPosted'
  BY <1>1, <1>2, EnqueuedIsPosted
<1>4. DiscordOK' /\ LinkOK'
  BY <1>1 DEF DiscordOK, LinkOK
<1>5. scan' \in Scan /\ scan'.after = m /\ scan'.page \subseteq scan.page
      /\ scan'.state = scan.state /\ scan'.channel = scan.channel /\ scan'.pages = scan.pages
  BY <1>1, <1>2 DEF ScanOK, Scan
<1>6. ScanOK'
  BY <1>1, <1>2, <1>5 DEF ScanOK, Posted
<1> QED BY <1>3, <1>4, <1>6

LEMMA StoreCursorTypes == StreamOK /\ StoreCursor => StreamOK'
<1> SUFFICES ASSUME StreamOK, StoreCursor PROVE StreamOK'
  OBVIOUS
<1> USE DEF StreamOK
<1>1. Held' = Held /\ Posted' = Posted
  BY SameStored DEF StoreCursor, discord
<1>2. DiscordOK' /\ LinkOK' /\ HeldIsPosted'
  BY <1>1 DEF StoreCursor, discord, DiscordOK, LinkOK, HeldIsPosted
<1>3. scan.after \in 0..posted /\ posted' = posted
  BY MessagesAreNumbers DEF StoreCursor, discord, ScanOK, Scan, DiscordOK
<1>4. cursor' \in [Channels -> 0..posted]
  BY <1>3 DEF StoreCursor, CursorTo, ScanOK
<1>5. /\ scan' \in Scan /\ scan'.after = scan.after /\ scan'.page = scan.page
      /\ scan'.state \in {"fetch", "store"} =>
            scan'.channel \in Channels /\ scan'.pages < MaxPages
  <2>1. scan.pages + 1 \in 0..MaxPages
    BY LimitsAreNumbers DEF StoreCursor, ScanOK, Scan
  <2>2. CASE scan.last
    BY <2>2 DEF StoreCursor, ScanOK, Scan
  <2>3. CASE ~scan.last
    <3>1. PICK to \in {"fetch", "failed"} :
             /\ scan' = [scan EXCEPT !.pages = scan.pages + 1, !.state = to]
             /\ to = "fetch" => scan.pages + 1 < MaxPages
      BY <2>3 DEF StoreCursor
    <3> QED BY <2>1, <3>1 DEF StoreCursor, ScanOK, Scan
  <2> QED BY <2>2, <2>3
<1>6. ScanOK'
  BY <1>1, <1>3, <1>4, <1>5 DEF ScanOK
<1> QED BY <1>2, <1>6

LEMMA ProcessTypes ==
    StreamOK /\ (ScanDone \/ Stop \/ \E c \in Config : Start(c)) => StreamOK'
<1> SUFFICES ASSUME StreamOK, ScanDone \/ Stop \/ \E c \in Config : Start(c)
             PROVE  StreamOK'
  OBVIOUS
<1> USE DEF StreamOK
<1>1. UNCHANGED <<posted, server, saved, cursor, raw, pending>>
  BY DEF ScanDone, Stop, Start, discord
<1>2. Held' = Held /\ Posted' = Posted
  BY <1>1, SameStored
<1>3. DiscordOK' /\ HeldIsPosted'
  BY <1>1, <1>2 DEF DiscordOK, HeldIsPosted
<1>4. NoSession \in Session(server.id)
  BY DEF NoSession, Session, DiscordOK
<1>5. /\ session' \in {session, saved, NoSession} /\ ready' \in {ready, TRUE, FALSE}
      /\ link' = NoLink \/ (link' = link /\ (link.state # "down" => config' # None))
  BY DEF ScanDone, Stop, Start, LinkOK, Running
<1>6. NoLink \in Link /\ NoLink.state = "down"
  BY DEF NoLink, Link
<1>7. LinkOK'
  BY <1>1, <1>4, <1>5, <1>6 DEF LinkOK, Session
<1>8. (scan' = scan \/ scan' = NoScan) /\ posted \in Nat
  BY MessagesAreNumbers DEF ScanDone, Stop, Start, DiscordOK
<1>9. ScanOK'
  BY <1>1, <1>2, <1>8, NoScanIsScan DEF ScanOK
<1> QED BY <1>3, <1>7, <1>9

-----------------------------------------------------------------------------
(* Every step keeps the rows and the types, and nothing stored is lost.     *)

\* Prepare moves a message from raw to the rows; nothing else moves one.
LEMMA WorkerHolds ==
    ASSUME RowsInv, Worker
    PROVE  /\ Aside /\ Held' = Held
           /\ \A m \in Message : pending[m].state = "delivered" => pending'[m].state = "delivered"
<1> USE DEF RowsInv
<1>1. CASE NextPhase
  BY <1>1 DEF NextPhase, WorkerOnly, Aside, Held, Rows
<1>2. ASSUME NEW m \in Message, Prepare(m)
      PROVE  /\ Aside /\ Held' = Held
             /\ \A k \in Message : pending[k].state = "delivered"
                                     => pending'[k].state = "delivered"
  <2>1. m \in raw /\ pending[m].state = "none"
    BY <1>2 DEF Prepare, Turn, PrepareIsRaw, StoredOnce, Rows
  <2>2. /\ pending'[m].state = "pending" /\ raw' = raw \ {m}
        /\ \A k \in Message \ {m} : pending'[k] = pending[k]
    BY <1>2 DEF Prepare, NoRow, RowsOK
  <2>3. Held' = Held
    BY <2>1, <2>2 DEF Held, Rows
  <2>4. Aside
    BY <1>2 DEF Prepare, WorkerOnly, Aside
  <2> QED BY <2>1, <2>2, <2>3, <2>4
<1>3. ASSUME NEW m \in Message,
             Delivered(m) \/ DeliverFails(m) \/ React(m) \/ SeenFails(m)
      PROVE  /\ Aside /\ Held' = Held
             /\ \A k \in Message : pending[k].state = "delivered"
                                     => pending'[k].state = "delivered"
  <2>1. Aside /\ raw' = raw
    BY <1>3 DEF Delivered, DeliverFails, React, SeenFails, WorkerOnly, Aside
  <2>2. /\ \A k \in Message \ {m} : pending'[k] = pending[k]
        /\ pending'[m].state \in {pending[m].state, "delivered"}
        /\ pending[m].state # "none"
    BY <1>3 DEF Delivered, DeliverFails, React, SeenFails, Turn, DeliverIsDue,
                SeenIsDelivered, Failed, Reacted, RowsOK, StoredRow
  <2>3. Rows' = Rows
    BY <2>2 DEF Rows
  <2> QED BY <2>1, <2>2, <2>3 DEF Held
<1>4. ASSUME NEW m \in Message, PrepareFails(m) \/ Post(m) \/ NotConsumed(m)
      PROVE  Aside /\ UNCHANGED <<raw, pending>>
  BY <1>4 DEF PrepareFails, Post, NotConsumed, WorkerOnly, Aside
<1> QED BY <1>1, <1>2, <1>3, <1>4 DEF Worker, Held, Rows

\* The clock and the receiver.
Outside == (\E m \in Message : Elapse(m)) \/ (\E e \in received : Consume(e))

LEMMA OutsideHolds ==
    ASSUME Outside \/ UNCHANGED vars
    PROVE  Aside /\ UNCHANGED <<raw, pending, received, work>> /\ Held' = Held
  BY DEF Outside, Elapse, Consume, vars, Aside, receiver, Held, Rows

LEMMA OutsideKeepsRows == RowsInv /\ (Outside \/ UNCHANGED vars) => RowsInv'
<1> SUFFICES ASSUME RowsInv, Outside \/ UNCHANGED vars PROVE RowsInv'
  OBVIOUS
<1>1. UNCHANGED <<config, raw, pending, received, work>>
  BY OutsideHolds DEF Aside
<1>2. \A e \in received : e[1] \in Rows
  BY DEF RowsInv, RowsOK, RouteIsStored, Rows
<1>3. later' \subseteq Message /\ consumed' \subseteq Rows /\ consumed \subseteq consumed'
  BY <1>2 DEF Outside, Elapse, Consume, vars, receiver, RowsInv, RowsOK, ConsumedIsStored
<1> QED BY <1>1, <1>3, OthersKeepRows DEF RowsInv, RowsOK, StoredOnce

\* The connection, the recovery and the process.
Producer == Say \/ Connection \/ Recovery \/ Lose \/ Invalidate
            \/ (\E c \in Config : Start(c)) \/ Stop

LEMMA NextCases == [Next]_vars => Worker \/ Outside \/ UNCHANGED vars \/ Producer
  BY DEF Next, Outside, Producer

LEMMA ProducerTypes == RowsInv /\ StreamOK /\ Producer => StreamOK'
  BY SayTypes, IdentifyTypes, ResumeTypes, EndedTypes, TakeTypes, CheckpointTypes,
     ScanChannelTypes, NextPageTypes, StoreNextTypes, StoreCursorTypes, ProcessTypes
  DEF Producer, Connection, Recovery

\* A message is added to raw at most.
LEMMA ProducerAdds ==
    ASSUME RowsInv, StreamOK, Producer
    PROVE  /\ UNCHANGED <<pending, later, received, consumed>>
           /\ raw' = raw \/ \E m \in Message : raw' = Enqueued(m)
<1>1. CASE Take
  <2>1. link.sent + 1 \in 1..Len(server.log)
    BY <1>1 DEF Take, StreamOK, LinkOK, Link, DiscordOK
  <2>2. server.log[link.sent + 1] \in Message \cup {Greeting}
    BY <2>1 DEF StreamOK, DiscordOK
  <2> QED BY <1>1, <2>2 DEF Take, receiver
<1>2. CASE StoreNext
  <2>1. Min(scan.page) \in Message
    BY <1>2, StoreNextStores DEF StreamOK, ScanOK, Posted
  <2> QED BY <1>2, <2>1 DEF StoreNext, receiver
<1>3. CASE ~Take /\ ~StoreNext
  BY <1>3 DEF Producer, Connection, Recovery, Say, Identify, Resume, ResumeRefused,
              Checkpoint, ScanDone, ScanFails, SaveSession, ScanChannel, NextPage,
              StoreCursor, Lose, Invalidate, Start, Stop, receiver
<1> QED BY <1>1, <1>2, <1>3

LEMMA ProducerKeepsRows == RowsInv /\ StreamOK /\ Producer => RowsInv' /\ Held \subseteq Held'
<1> SUFFICES ASSUME RowsInv, StreamOK, Producer PROVE RowsInv' /\ Held \subseteq Held'
  OBVIOUS
<1>1. UNCHANGED <<pending, later, received, consumed>>
  BY ProducerAdds
<1>2. raw \subseteq raw' /\ raw' \subseteq Message /\ raw' \cap Rows \subseteq raw
  <2>1. CASE raw' = raw
    BY <2>1 DEF RowsInv, RowsOK
  <2>2. ASSUME NEW m \in Message, raw' = Enqueued(m)
        PROVE  raw \subseteq raw' /\ raw' \subseteq Message /\ raw' \cap Rows \subseteq raw
    BY <2>2, EnqueuedAdds DEF RowsInv, RowsOK
  <2> QED BY <2>1, <2>2, ProducerAdds
<1>3. config' \in Config \cup {None}
  BY DEF Producer, Connection, Recovery, Say, Identify, Resume, ResumeRefused, Take,
         Checkpoint, ScanDone, ScanFails, SaveSession, ScanChannel, NextPage, StoreNext,
         StoreCursor, Lose, Invalidate, Start, Stop, RowsInv, RowsOK
<1>4. work' = AtRest \/ (work' = work /\ (config' = config \/ config = None))
  BY DEF Producer, Connection, Recovery, Say, Identify, Resume, ResumeRefused, Take,
         Checkpoint, ScanDone, ScanFails, SaveSession, ScanChannel, NextPage, StoreNext,
         StoreCursor, Lose, Invalidate, Start, Stop, Running
<1>5. RowsInv'
  BY <1>1, <1>2, <1>3, <1>4, OthersKeepRows DEF RowsInv, RowsOK, ConsumedIsStored
<1>6. Held \subseteq Held'
  BY <1>1, <1>2 DEF Held, Rows
<1> QED BY <1>5, <1>6

-----------------------------------------------------------------------------
(* The session.                                                            *)

Linked == link.state \in {"reading", "storing"}

\* A connection that reads has the session Discord knows, or a new one whose
\* greeting it has yet to take.
SessionInv ==
    /\ session.id = 0 => session = NoSession
    /\ saved.id = 0 => saved = NoSession
    /\ server.known => server.id > 0
    /\ scan.state # "none" \/ ready => Linked
    /\ Linked => server.known
    /\ Linked => \/ session.id = server.id
                 \/ session = NoSession /\ link.state = "reading" /\ link.sent = 0

LEMMA ProducerKeepsSession == StreamOK /\ SessionInv /\ Producer => SessionInv'
<1> SUFFICES ASSUME StreamOK, SessionInv, Producer PROVE SessionInv'
  OBVIOUS
<1>1. CASE Say
  <2>1. server'.id = server.id /\ server'.known = server.known
    BY <1>1 DEF Say, StreamOK, DiscordOK
  <2> QED BY <1>1, <2>1 DEF Say, stream, SessionInv, Linked
<1>2. CASE Identify
  <2>1. server'.id = server.id + 1 /\ server'.known /\ server.id \in Nat
    BY <1>2 DEF Identify, StreamOK, DiscordOK
  <2>2. link'.state = "reading" /\ link'.sent = 0 /\ session = NoSession
    BY <1>2 DEF Identify, SessionInv
  <2> QED BY <1>2, <2>1, <2>2 DEF Identify, SessionInv, Linked
<1>3. CASE Resume
  <2>1. server'.id = server.id /\ server'.known = server.known
    BY <1>3 DEF Resume, StreamOK, DiscordOK
  <2> QED BY <1>3, <2>1 DEF Resume, SessionInv, Linked
<1>4. CASE ResumeRefused \/ Lose \/ Invalidate \/ ScanFails \/ SaveSession
  <2>1. server'.id = server.id /\ (server'.known => server.known)
    BY <1>4 DEF ResumeRefused, Lose, Invalidate, ScanFails, SaveSession, discord, StreamOK,
                DiscordOK
  <2>2. session' \in {session, NoSession} /\ saved' \in {saved, session}
    BY <1>4 DEF ResumeRefused, Lose, Invalidate, ScanFails, SaveSession
  <2>3. link'.state \in {"down", "ended"} /\ scan'.state = "none" /\ ~ready'
    BY <1>4 DEF ResumeRefused, Lose, Invalidate, ScanFails, SaveSession, LinkEnds, NoLink,
                NoScan, SessionInv, Linked, StreamOK, LinkOK
  <2> QED BY <2>1, <2>2, <2>3 DEF SessionInv, Linked
<1>5. CASE Take
  <2>1. /\ link'.state = "storing" /\ link'.sent = link.sent /\ Linked
        /\ UNCHANGED <<server, saved, ready>>
    BY <1>5 DEF Take, discord, Linked, StreamOK, LinkOK, Link
  <2>2. CASE server.log[link.sent + 1] = Greeting
    <3>1. session' = [session EXCEPT !.id = server.id]
      BY <1>5, <2>2 DEF Take
    <3>2. session'.id = server.id /\ server.id > 0
      BY <2>1, <3>1 DEF SessionInv, StreamOK, LinkOK, Session
    <3> QED BY <2>1, <3>2 DEF SessionInv, Linked
  <2>3. CASE server.log[link.sent + 1] # Greeting
    <3>1. session' = session /\ scan' = scan
      BY <1>5, <2>3 DEF Take
    <3>2. server.log[1] = Greeting
      BY <2>1 DEF SessionInv, StreamOK, DiscordOK
    <3>3. session.id = server.id
      BY <2>1, <2>3, <3>2 DEF SessionInv
    <3> QED BY <2>1, <3>1, <3>3 DEF SessionInv, Linked
  <2> QED BY <2>2, <2>3
<1>6. CASE Checkpoint
  <2>1. /\ link.state = "storing" /\ link'.state = "reading"
        /\ session' = [session EXCEPT !.seq = link.sent + 1] /\ saved' = session'
        /\ UNCHANGED <<server, scan, ready>>
    BY <1>6 DEF Checkpoint, discord
  <2>2. Linked /\ session.id = server.id /\ server.id > 0
    BY <2>1 DEF SessionInv, Linked
  <2>3. session'.id = session.id /\ saved'.id = session.id
    BY <2>1 DEF StreamOK, LinkOK, Session
  <2> QED BY <2>1, <2>2, <2>3 DEF SessionInv, Linked, StreamOK, LinkOK, Session
<1>7. CASE Recovery \/ ScanDone
  <2>1. UNCHANGED <<server, session, saved, link>> /\ Linked
    BY <1>7 DEF Recovery, ScanDone, ScanChannel, NextPage, StoreNext, StoreCursor, discord,
                SessionInv, Linked
  <2> QED BY <2>1 DEF SessionInv, Linked
<1>8. CASE Stop \/ \E c \in Config : Start(c)
  <2>1. /\ UNCHANGED <<server, saved>> /\ session' \in {NoSession, saved}
        /\ link'.state = "down" /\ scan'.state = "none" /\ ~ready'
    BY <1>8 DEF Stop, Start, discord, NoLink, NoScan, Running, SessionInv, Linked, StreamOK,
                LinkOK
  <2> QED BY <2>1 DEF SessionInv, Linked
<1> QED BY <1>1, <1>2, <1>3, <1>4, <1>5, <1>6, <1>7, <1>8 DEF Producer, Connection

-----------------------------------------------------------------------------
(* What the sequence of a session covers.                                   *)

Must == {m \in Message : AlwaysAllowed(m)}

\* The first n dispatches of the session are stored.
Covers(n) ==
    n <= Len(server.log)
    /\ \A p \in 1..n : server.log[p] \in Must => server.log[p] \in Held

CoverInv ==
    /\ Linked => Covers(link.sent)
    /\ link.state = "storing" =>
          (server.log[link.sent + 1] \in Must => server.log[link.sent + 1] \in Held)
    /\ (server.known /\ session.id = server.id) => Covers(session.seq)
    /\ (server.known /\ saved.id = server.id) => Covers(saved.seq)

\* A log that grows and a store that grows keep what is covered.
LEMMA CoverageStays ==
    ASSUME NEW n \in Nat, Covers(n), Held \subseteq Held',
           Len(server.log) \in Nat, Len(server'.log) \in Nat,
           Len(server.log) <= Len(server'.log),
           \A p \in 1..Len(server.log) : server'.log[p] = server.log[p]
    PROVE  Covers(n)'
  BY DEF Covers, Must, AlwaysAllowed

LEMMA CoversNothing == Len(server.log) \in Nat => Covers(0)
  BY DEF Covers

LEMMA LogLength == DiscordOK => Len(server.log) \in Nat
  BY DEF DiscordOK

\* Whom the configuration accepts in any case, enqueue stores.
LEMMA MustIsEnqueued ==
    ASSUME config \in Config, NEW m \in Must, raw' = Enqueued(m), pending' = pending
    PROVE  m \in Held'
  BY DEF Must, AlwaysAllowed, Enqueued, Accepts, IsNew, Held, Rows

LEMMA ProducerKeepsCover ==
    RowsInv /\ StreamOK /\ StreamOK' /\ SessionInv /\ CoverInv /\ Producer => CoverInv'
<1> SUFFICES ASSUME RowsInv, StreamOK, StreamOK', SessionInv, CoverInv, Producer
             PROVE  CoverInv'
  OBVIOUS
<1>0. Held \subseteq Held'
  BY ProducerKeepsRows
<1>l. /\ Len(server.log) \in Nat /\ Len(server'.log) \in Nat
      /\ session.seq \in Nat /\ saved.seq \in Nat /\ link.sent \in Nat
  BY LogLength DEF StreamOK, DiscordOK, LinkOK, Link, Session
<1>s. ASSUME server'.log = server.log, NEW n \in Nat, Covers(n) PROVE Covers(n)'
  BY <1>0, <1>l, <1>s, CoverageStays
<1>1. CASE Say
  <2>1. /\ server'.id = server.id /\ server'.known = server.known
        /\ Len(server.log) <= Len(server'.log)
        /\ \A p \in 1..Len(server.log) : server'.log[p] = server.log[p]
    <3>1. CASE server.known
      <4>1. PICK d \in Message \cup {Greeting} :
               server' = [server EXCEPT !.log = Append(@, d)]
        BY <1>1, <3>1 DEF Say
      <4>2. /\ server'.id = server.id /\ server'.known = server.known
            /\ Len(server'.log) = Len(server.log) + 1
            /\ \A p \in 1..Len(server.log) : server'.log[p] = server.log[p]
        BY <4>1, LogGrows DEF StreamOK
      <4> QED BY <4>2, <1>l
    <3>2. CASE ~server.known
      BY <1>1, <3>2, <1>l DEF Say
    <3> QED BY <3>1, <3>2
  <2>2. \A n \in Nat : Covers(n) => Covers(n)'
    BY <1>0, <1>l, <2>1, CoverageStays
  <2>3. UNCHANGED <<session, saved, link>>
    BY <1>1 DEF Say, stream
  <2>4. link.state = "storing" => link.sent + 1 \in 1..Len(server.log)
    BY <1>l DEF StreamOK, LinkOK
  <2>5. Must' = Must
    BY DEF Must, AlwaysAllowed
  <2> QED BY <1>0, <1>l, <2>1, <2>2, <2>3, <2>4, <2>5 DEF CoverInv, Linked
<1>2. CASE Identify
  <2>1. /\ server'.id = server.id + 1 /\ server.id \in Nat /\ link' = [state |-> "reading", sent |-> 0]
        /\ UNCHANGED <<session, saved>>
    BY <1>2 DEF Identify, StreamOK, DiscordOK
  <2>2. session.id # server'.id /\ saved.id # server'.id
    BY <2>1 DEF StreamOK, LinkOK, Session
  <2>3. Covers(0)'
    BY <1>l, CoversNothing DEF Covers
  <2> QED BY <2>1, <2>2, <2>3 DEF CoverInv, Linked
<1>3. CASE Resume
  <2>1. /\ server'.id = server.id /\ server'.known = server.known
        /\ Len(server'.log) = Len(server.log) + 1
        /\ \A p \in 1..Len(server.log) : server'.log[p] = server.log[p]
    BY <1>3, LogGrows DEF Resume, StreamOK
  <2>2. \A n \in Nat : Covers(n) => Covers(n)'
    BY <1>0, <1>l, <2>1, CoverageStays
  <2>3. /\ link' = [state |-> "reading", sent |-> session.seq] /\ server.known
        /\ server.id = session.id /\ UNCHANGED <<session, saved>>
    BY <1>3 DEF Resume
  <2> QED BY <1>l, <2>1, <2>2, <2>3 DEF CoverInv, Linked
<1>4. CASE ResumeRefused \/ Lose \/ Invalidate \/ ScanFails \/ SaveSession
  <2>1. server'.id = server.id /\ server'.log = server.log /\ (server'.known => server.known)
    BY <1>4 DEF ResumeRefused, Lose, Invalidate, ScanFails, SaveSession, discord, StreamOK,
                DiscordOK
  <2>2. session' \in {session, NoSession} /\ saved' \in {saved, session}
    BY <1>4 DEF ResumeRefused, Lose, Invalidate, ScanFails, SaveSession
  <2>3. link'.state \in {"down", "ended"}
    BY <1>4 DEF ResumeRefused, Lose, Invalidate, ScanFails, SaveSession, LinkEnds, NoLink
  <2>4. Covers(0)' /\ NoSession.seq = 0
    BY <1>l, CoversNothing DEF Covers, NoSession
  <2> QED BY <1>l, <1>s, <2>1, <2>2, <2>3, <2>4 DEF CoverInv, Linked
<1>5. CASE Take
  <2>1. /\ link'.state = "storing" /\ link'.sent = link.sent /\ Linked
        /\ UNCHANGED <<server, saved, pending, config>>
    BY <1>5 DEF Take, discord, Linked, StreamOK, LinkOK, Link
  <2>2. config \in Config
    BY <2>1 DEF StreamOK, LinkOK, RowsInv, RowsOK, Linked
  <2>3. session'.seq = session.seq
        /\ (session'.id = server.id => session.id = server.id \/ session.seq = 0)
    BY <1>5, <2>1 DEF Take, StreamOK, LinkOK, Session, SessionInv, NoSession
  <2>4. server.log[link.sent + 1] \in Must => server.log[link.sent + 1] \in Held'
    <3>1. CASE server.log[link.sent + 1] = Greeting
      BY <3>1, MessagesAreNumbers DEF Must
    <3>2. CASE server.log[link.sent + 1] # Greeting
      BY <1>5, <2>1, <2>2, <3>2, MustIsEnqueued DEF Take
    <3> QED BY <3>1, <3>2
  <2>5. Covers(0)
    BY <1>l, CoversNothing
  <2>6. Must' = Must
    BY DEF Must, AlwaysAllowed
  <2> QED BY <1>l, <1>s, <2>1, <2>3, <2>4, <2>5, <2>6 DEF CoverInv, Linked
<1>6. CASE Checkpoint
  <2>1. /\ link.state = "storing" /\ link'.state = "reading" /\ link'.sent = link.sent + 1
        /\ session'.seq = link.sent + 1 /\ saved' = session'
        /\ UNCHANGED server
    BY <1>6 DEF Checkpoint, discord, StreamOK, LinkOK, Session
  <2>2. Covers(link.sent) /\ link.sent < Len(server.log)
    BY <2>1 DEF CoverInv, Linked, StreamOK, LinkOK
  <2>3. Covers(link.sent + 1)
    <3>1. \A p \in 1..(link.sent + 1) : p \in 1..link.sent \/ p = link.sent + 1
      BY <1>l
    <3> QED BY <1>l, <2>1, <2>2, <3>1 DEF Covers, CoverInv
  <2>4. PICK n \in Nat : n = link.sent + 1 /\ Covers(n)
    BY <1>l, <2>3
  <2>5. Covers(n)'
    BY <1>s, <2>1, <2>4
  <2> QED BY <2>1, <2>4, <2>5 DEF CoverInv, Linked
<1>7. CASE Recovery \/ ScanDone
  <2>1. UNCHANGED <<server, session, saved, link>>
    BY <1>7 DEF Recovery, ScanDone, ScanChannel, NextPage, StoreNext, StoreCursor, discord
  <2>2. Must' = Must
    BY DEF Must, AlwaysAllowed
  <2> QED BY <1>0, <1>l, <1>s, <2>1, <2>2 DEF CoverInv, Linked
<1>8. CASE Stop \/ \E c \in Config : Start(c)
  <2>1. /\ UNCHANGED <<server, saved>> /\ session' \in {NoSession, saved}
        /\ link'.state = "down"
    BY <1>8 DEF Stop, Start, discord, NoLink, Running, StreamOK, LinkOK
  <2>2. Covers(0)' /\ NoSession.seq = 0
    BY <1>l, CoversNothing DEF Covers, NoSession
  <2> QED BY <1>l, <1>s, <2>1, <2>2 DEF CoverInv, Linked
<1> QED BY <1>1, <1>2, <1>3, <1>4, <1>5, <1>6, <1>7, <1>8 DEF Producer, Connection

-----------------------------------------------------------------------------
(* What the history has brought.                                           *)

Fetching == scan.state \in {"fetch", "store"}
Unread == History(scan.channel, scan.after)

\* Up to the cursor of its channel, and up to the message a page follows, all
\* is stored; a page is the oldest part of what is not read yet.
PageInv ==
    /\ \A m \in Must : m <= cursor[Channel[m]] => m \in Held
    /\ Fetching => \A m \in Must : (Channel[m] = scan.channel /\ m <= scan.after) => m \in Held
    /\ scan.state = "store" => scan.page \subseteq Unread
    /\ scan.state = "store" =>
          \A p \in scan.page : \A k \in Unread : k < p => k \in scan.page

\* The first n of a set are followed by the others, and if they are fewer than
\* n there are no others.
LEMMA FirstOfComesFirst ==
    ASSUME NEW S \in SUBSET Message, NEW n \in Nat, NEW p \in FirstOf(S, n), NEW k \in S, k < p
    PROVE  k \in FirstOf(S, n)
<1> DEFINE below(x) == {j \in S : j < x}
<1>1. IsFiniteSet(S)
  BY MessagesAreNumbers, FS_Subset
<1>2. p \in S /\ Cardinality(below(p)) < n
  BY DEF FirstOf
<1>3. below(k) \subseteq below(p) /\ below(p) \subseteq S
  <2> SUFFICES ASSUME NEW j \in S, j < k PROVE j < p
    OBVIOUS
  <2>1. j \in Nat /\ k \in Nat /\ p \in Nat
    BY <1>2, MessagesAreNumbers
  <2> QED BY <2>1
<1> HIDE DEF below
<1>4. IsFiniteSet(below(p))
  BY <1>1, <1>3, FS_Subset
<1>5. IsFiniteSet(below(k)) /\ Cardinality(below(k)) <= Cardinality(below(p))
  BY <1>3, <1>4, FS_Subset
<1>6. Cardinality(below(k)) \in Nat /\ Cardinality(below(p)) \in Nat
  BY <1>4, <1>5, FS_CardinalityType
<1>7. Cardinality(below(k)) < n
  BY <1>2, <1>5, <1>6
<1> QED BY <1>7 DEF below, FirstOf

LEMMA ShortIsAll ==
    ASSUME NEW S \in SUBSET Message, NEW n \in Nat, Cardinality(FirstOf(S, n)) < n
    PROVE  S \subseteq FirstOf(S, n)
<1> DEFINE rest == S \ FirstOf(S, n)
           below(x) == {j \in S : j < x}
<1>1. SUFFICES ASSUME rest # {} PROVE FALSE
  OBVIOUS
<1>2. rest \in SUBSET Nat
  BY MessagesAreNumbers
<1>3. PICK m \in rest : \A k \in rest : m <= k
  BY <1>1, <1>2, MinIsLeast
<1>4. m \in S /\ ~(Cardinality(below(m)) < n)
  BY <1>3 DEF FirstOf
<1>5. below(m) \subseteq FirstOf(S, n)
  <2> SUFFICES ASSUME NEW j \in S, j < m PROVE j \in FirstOf(S, n)
    OBVIOUS
  <2>1. j \in Nat /\ m \in Nat
    BY <1>4, MessagesAreNumbers
  <2> QED BY <1>3, <2>1
<1> HIDE DEF below
<1>6. IsFiniteSet(FirstOf(S, n))
  BY MessagesAreNumbers, FirstOfIsSubset, FS_Subset
<1>7. IsFiniteSet(below(m)) /\ Cardinality(below(m)) <= Cardinality(FirstOf(S, n))
  BY <1>5, <1>6, FS_Subset
<1>8. Cardinality(below(m)) \in Nat /\ Cardinality(FirstOf(S, n)) \in Nat
  BY <1>6, <1>7, FS_CardinalityType
<1> QED BY <1>4, <1>7, <1>8

LEMMA PagesStay ==
    ASSUME PageInv, UNCHANGED <<posted, cursor>>, Held \subseteq Held',
           scan' = scan \/ scan'.state \in {"none", "next", "failed"}
    PROVE  PageInv'
<1>1. Must' = Must
  BY DEF Must, AlwaysAllowed
<1>2. CASE scan' = scan
  BY <1>1, <1>2 DEF PageInv, Fetching, Unread, History, Posted
<1>3. CASE scan'.state \in {"none", "next", "failed"}
  BY <1>1, <1>3 DEF PageInv, Fetching
<1> QED BY <1>2, <1>3

LEMMA SayKeepsPages == StreamOK /\ PageInv /\ Say => PageInv'
<1> SUFFICES ASSUME StreamOK, PageInv, Say PROVE PageInv'
  OBVIOUS
<1>1. posted' = posted + 1 /\ UNCHANGED <<cursor, scan, raw, pending>> /\ posted \in Nat
  BY MessagesAreNumbers DEF Say, stream, StreamOK, DiscordOK
<1>2. Held' = Held /\ Must' = Must
  BY <1>1 DEF Held, Rows, Must, AlwaysAllowed
<1>3. Posted \subseteq Posted' /\ \A k \in Posted' : k <= posted => k \in Posted
  BY <1>1, MessagesAreNumbers DEF Posted
<1>4. Unread \subseteq Unread' /\ \A k \in Unread' : k <= posted => k \in Unread
  BY <1>1, <1>3 DEF Unread, History
<1>5. scan.state = "store" =>
         \A p \in scan.page : \A k \in Unread' : k < p => k \in scan.page
  <2> SUFFICES ASSUME scan.state = "store", NEW p \in scan.page, NEW k \in Unread', k < p
               PROVE  k \in scan.page
    OBVIOUS
  <2>1. p \in Nat /\ p <= posted
    BY MessagesAreNumbers DEF StreamOK, ScanOK, Posted
  <2>2. k \in Nat
    BY MessagesAreNumbers DEF Unread, History, Posted
  <2>3. k \in Unread
    BY <1>1, <1>4, <2>1, <2>2
  <2> QED BY <2>3 DEF PageInv
<1> QED BY <1>1, <1>2, <1>4, <1>5 DEF PageInv, Fetching

\* A page is asked for after a message up to which all is stored.
LEMMA FetchKeepsPages ==
    ASSUME DiscordOK, PageInv, scan \in Scan, UNCHANGED <<posted, cursor, raw, pending>>,
           NEW ch \in Channels, NEW after \in 0..posted, NEW pages \in 0..MaxPages,
           pages < MaxPages, Fetch(ch, after, pages),
           \A m \in Must : (Channel[m] = ch /\ m <= after) => m \in Held
    PROVE  PageInv'
<1>1. Held' = Held /\ Must' = Must
  BY DEF Held, Rows, Must, AlwaysAllowed
<1>2. /\ scan'.state = "store" /\ scan'.channel = ch /\ scan'.after = after
      /\ scan'.page = FirstOf(History(ch, after), PageSize)
  BY FetchTypes
<1>3. Unread' = History(ch, after) /\ History(ch, after) \in SUBSET Message
  BY <1>2 DEF Unread, History, Posted
<1>4. scan'.page \subseteq Unread'
  BY <1>2, <1>3, FirstOfIsSubset
<1>5. \A p \in scan'.page : \A k \in Unread' : k < p => k \in scan'.page
  BY <1>2, <1>3, FirstOfComesFirst, LimitsAreNumbers
<1> QED BY <1>1, <1>2, <1>4, <1>5 DEF PageInv, Fetching

LEMMA StoreNextKeepsPages ==
    ASSUME RowsInv, StreamOK, SessionInv, PageInv, StoreNext
    PROVE  PageInv'
<1> DEFINE m == Min(scan.page)
<1>1. /\ m \in scan.page /\ (\A k \in scan.page : m <= k) /\ raw' = Enqueued(m)
      /\ scan' = [scan EXCEPT !.page = scan.page \ {m}, !.after = m]
      /\ UNCHANGED <<posted, config, cursor, pending, link>> /\ scan.state = "store"
  BY StoreNextStores DEF StoreNext
<1> HIDE DEF m
<1>2. Must' = Must /\ Held \subseteq Held'
  BY ProducerKeepsRows DEF Must, AlwaysAllowed, Producer, Recovery
<1>3. m \in Unread /\ m \in Message /\ m \in Nat /\ scan.after \in Nat
  BY <1>1, MessagesAreNumbers DEF PageInv, StreamOK, ScanOK, Scan, Posted
<1>4. m \in Must => m \in Held'
  <2>1. config \in Config
    BY <1>1 DEF SessionInv, Linked, StreamOK, LinkOK, RowsInv, RowsOK
  <2> QED BY <1>1, <2>1, MustIsEnqueued
<1>5. /\ scan'.state = "store" /\ scan'.channel = scan.channel /\ scan'.after = m
      /\ scan'.page = scan.page \ {m}
  BY <1>1 DEF StreamOK, ScanOK, Scan
<1>6. Unread' = {k \in Unread : k > m}
  <2>1. Unread' = History(scan.channel, m)
    BY <1>1, <1>5 DEF Unread, History, Posted
  <2>2. scan.after < m
    BY <1>3 DEF Unread, History
  <2>3. \A k \in Posted : k \in Nat /\ (k > m => k > scan.after)
    BY <1>3, <2>2, MessagesAreNumbers DEF Posted
  <2> QED BY <2>1, <2>3 DEF Unread, History
<1>7. \A k \in Must : (Channel[k] = scan.channel /\ k <= m) => k \in Held'
  <2> SUFFICES ASSUME NEW k \in Must, Channel[k] = scan.channel, k <= m PROVE k \in Held'
    OBVIOUS
  <2>0. k \in Message /\ k \in Nat
    BY MessagesAreNumbers DEF Must
  <2>1. CASE k <= scan.after
    BY <1>1, <1>2, <2>1 DEF PageInv, Fetching
  <2>2. CASE k > scan.after /\ k # m
    <3>0. m <= posted /\ posted \in Nat
      BY <1>3, MessagesAreNumbers DEF Unread, History, StreamOK, DiscordOK, Posted
    <3>1. k < m /\ k <= posted
      BY <1>3, <2>0, <2>2, <3>0
    <3>2. k \in Unread
      BY <2>0, <2>2, <3>1 DEF Unread, History, Posted
    <3>3. k \in scan.page
      BY <1>1, <3>1, <3>2 DEF PageInv
    <3> QED BY <1>1, <1>3, <2>0, <3>1, <3>3
  <2>3. CASE k = m
    BY <1>4, <2>3
  <2> QED BY <1>3, <2>0, <2>1, <2>2, <2>3
<1>8. scan.page \ {m} \subseteq Unread'
  <2> SUFFICES ASSUME NEW k \in scan.page \ {m} PROVE k \in Unread /\ k > m
    BY <1>6
  <2>1. k \in Nat /\ m <= k
    BY <1>1, MessagesAreNumbers DEF StreamOK, ScanOK, Posted
  <2> QED BY <1>1, <1>3, <2>1 DEF PageInv
<1>9. \A p \in scan.page \ {m} : \A k \in Unread' : k < p => k \in scan.page \ {m}
  BY <1>1, <1>3, <1>6 DEF PageInv
<1> QED BY <1>1, <1>2, <1>5, <1>7, <1>8, <1>9 DEF PageInv, Fetching

LEMMA StoreCursorKeepsPages == StreamOK /\ PageInv /\ StoreCursor => PageInv'
<1> SUFFICES ASSUME StreamOK, PageInv, StoreCursor PROVE PageInv'
  OBVIOUS
<1>1. /\ cursor' = [cursor EXCEPT ![scan.channel] = scan.after]
      /\ scan.state = "store" /\ scan.channel \in Channels
      /\ scan'.state \in {"next", "fetch", "failed"}
      /\ scan'.channel = scan.channel /\ scan'.after = scan.after
      /\ UNCHANGED <<posted, raw, pending>>
  BY DEF StoreCursor, CursorTo, discord, StreamOK, ScanOK, Scan
<1>2. Held' = Held /\ Must' = Must
  BY <1>1 DEF Held, Rows, Must, AlwaysAllowed
<1>3. \A m \in Must : m <= cursor'[Channel[m]] => m \in Held
  <2> SUFFICES ASSUME NEW m \in Must, m <= cursor'[Channel[m]] PROVE m \in Held
    OBVIOUS
  <2>1. Channel[m] \in Channels
    BY DEF Must, Channels
  <2>2. CASE Channel[m] = scan.channel
    BY <1>1, <2>1, <2>2 DEF PageInv, Fetching, StreamOK, ScanOK
  <2>3. CASE Channel[m] # scan.channel
    BY <1>1, <2>1, <2>3 DEF PageInv, StreamOK, ScanOK
  <2> QED BY <2>2, <2>3
<1> QED BY <1>1, <1>2, <1>3 DEF PageInv, Fetching

LEMMA ProducerKeepsPages ==
    RowsInv /\ StreamOK /\ SessionInv /\ PageInv /\ Producer => PageInv'
<1> SUFFICES ASSUME RowsInv, StreamOK, SessionInv, PageInv, Producer PROVE PageInv'
  OBVIOUS
<1>0. Held \subseteq Held'
  BY ProducerKeepsRows
<1>1. CASE Say
  BY <1>1, SayKeepsPages
<1>2. CASE Connection \/ Lose \/ Invalidate \/ Stop \/ \E c \in Config : Start(c)
  <2>1. UNCHANGED <<posted, cursor>>
    BY <1>2 DEF Connection, Identify, Resume, ResumeRefused, Take, Checkpoint, ScanDone,
                ScanFails, SaveSession, Lose, Invalidate, Stop, Start, discord
  <2>2. scan' = scan \/ scan' = NoScan \/ scan' = Spawned
    BY <1>2 DEF Connection, Identify, Resume, ResumeRefused, Take, Checkpoint, ScanDone,
                ScanFails, SaveSession, Lose, Invalidate, Stop, Start, LinkEnds
  <2>3. NoScan.state = "none" /\ Spawned.state = "next"
    BY DEF NoScan, Spawned, NewScan
  <2> QED BY <1>0, <2>1, <2>2, <2>3, PagesStay
<1>3. ASSUME NEW ch \in Channels, ScanChannel(ch) PROVE PageInv'
  <2>1. /\ Fetch(ch, cursor[ch], 0) /\ UNCHANGED <<posted, cursor, raw, pending>>
        /\ cursor[ch] \in 0..posted /\ 0 \in 0..MaxPages /\ 0 < MaxPages
    BY <1>3, LimitsAreNumbers DEF ScanChannel, discord, StreamOK, ScanOK
  <2>2. \A m \in Must : (Channel[m] = ch /\ m <= cursor[ch]) => m \in Held
    BY DEF PageInv
  <2> QED BY <2>1, <2>2, FetchKeepsPages DEF StreamOK, ScanOK
<1>4. CASE NextPage
  <2>1. /\ Fetch(scan.channel, scan.after, scan.pages)
        /\ UNCHANGED <<posted, cursor, raw, pending>>
        /\ scan.channel \in Channels /\ scan.after \in 0..posted
        /\ scan.pages \in 0..MaxPages /\ scan.pages < MaxPages /\ scan.state = "fetch"
    BY <1>4, MessagesAreNumbers DEF NextPage, discord, StreamOK, ScanOK, Scan, DiscordOK
  <2>2. \A m \in Must : (Channel[m] = scan.channel /\ m <= scan.after) => m \in Held
    BY <2>1 DEF PageInv, Fetching
  <2> QED BY <2>1, <2>2, FetchKeepsPages DEF StreamOK, ScanOK
<1>5. CASE StoreNext
  BY <1>5, StoreNextKeepsPages
<1>6. CASE StoreCursor
  BY <1>6, StoreCursorKeepsPages
<1> QED BY <1>1, <1>2, <1>3, <1>4, <1>5, <1>6 DEF Producer, Recovery

-----------------------------------------------------------------------------
(* What is still to come on the live stream.                                *)

Ahead == {server.log[p] : p \in (link.sent + 1)..Len(server.log)}
Coming == Held \cup Ahead
Missed == {m \in Must : m \in Posted /\ m \notin Coming}

\* A page that was not full had the rest of its channel; what came later, and
\* what is in a channel that was read, is stored or ahead on the stream.
CompleteInv ==
    /\ (scan.state = "store" /\ scan.last) => Missed \cap Unread \subseteq scan.page
    /\ scan.state # "none" => \A m \in Missed : Channel[m] \in scan.left
    /\ ready => Missed = {}

\* Nothing is missed by a step that handles the dispatches it passes.
LEMMA MissedStays ==
    ASSUME Linked, Linked' , DiscordOK, DiscordOK', LinkOK, LinkOK', CoverInv,
           posted' = posted, server' = server, Held \subseteq Held',
           link'.sent = link.sent \/ (link.state = "storing" /\ link'.sent = link.sent + 1)
    PROVE  Missed' \subseteq Missed
<1> SUFFICES ASSUME NEW m \in Missed' PROVE m \in Missed
  OBVIOUS
<1>1. m \in Must /\ m \in Posted /\ m \notin Held /\ m \notin Ahead'
  BY DEF Missed, Must, AlwaysAllowed, Posted, Coming
<1>2. SUFFICES ASSUME m \in Ahead PROVE FALSE
  BY <1>1 DEF Missed, Coming
<1>3. PICK p \in (link.sent + 1)..Len(server.log) : m = server.log[p]
  BY <1>2 DEF Ahead
<1>4. link.sent \in Nat /\ link'.sent \in Nat /\ Len(server.log) \in Nat
  BY LogLength DEF LinkOK, Link
<1>5. CASE p \in (link'.sent + 1)..Len(server.log)
  BY <1>1, <1>3, <1>5 DEF Ahead
<1>6. CASE p \notin (link'.sent + 1)..Len(server.log)
  <2>1. link.state = "storing" /\ p = link.sent + 1
    BY <1>3, <1>4, <1>6
  <2> QED BY <1>1, <1>3, <2>1 DEF CoverInv
<1> QED BY <1>5, <1>6

LEMMA SameMissed ==
    ASSUME UNCHANGED <<posted, server, link>>, Held \subseteq Held'
    PROVE  Missed' \subseteq Missed
  BY DEF Missed, Must, AlwaysAllowed, Posted, Coming, Ahead

LEMMA SayMissesNothing ==
    ASSUME StreamOK, StreamOK', Linked, SessionInv, CoverInv, Say
    PROVE  Missed' \subseteq Missed
<1> SUFFICES ASSUME NEW m \in Missed' PROVE m \in Missed
  OBVIOUS
<1>1. /\ posted' = posted + 1 /\ posted' \in Message /\ UNCHANGED <<link, raw, pending>>
      /\ server' = [server EXCEPT !.log = Append(@, posted + 1)]
  BY DEF Say, stream, SessionInv
<1>2. PICK d \in Message \cup {Greeting} :
         d = posted + 1 /\ server' = [server EXCEPT !.log = Append(@, d)]
  BY <1>1
<1>3. /\ Len(server.log) \in Nat /\ Len(server'.log) = Len(server.log) + 1
      /\ \A p \in 1..Len(server.log) : server'.log[p] = server.log[p]
      /\ server'.log[Len(server.log) + 1] = posted + 1
  BY <1>2, LogGrows DEF StreamOK
<1>4. Held' = Held /\ Must' = Must /\ link.sent \in Nat /\ link'.sent = link.sent
  BY <1>1 DEF Held, Rows, Must, AlwaysAllowed, StreamOK, LinkOK, Link
<1>5. m \in Must /\ m \in Posted' /\ m \notin Held /\ m \notin Ahead'
  BY <1>4 DEF Missed, Coming
<1>6. Ahead \subseteq Ahead'
  <2> SUFFICES ASSUME NEW p \in (link.sent + 1)..Len(server.log)
               PROVE  server.log[p] \in Ahead'
    BY DEF Ahead
  <2>1. p \in 1..Len(server.log) /\ p \in (link'.sent + 1)..Len(server'.log)
    BY <1>3, <1>4
  <2> QED BY <1>3, <2>1 DEF Ahead
<1>7. posted + 1 \in Ahead'
  <2>1. link.sent <= Len(server.log)
    BY DEF CoverInv, Covers
  <2>2. Len(server.log) + 1 \in (link'.sent + 1)..Len(server'.log)
    BY <1>3, <1>4, <2>1
  <2> QED BY <1>3, <2>2 DEF Ahead
<1>8. m # posted + 1 /\ m \notin Ahead
  BY <1>5, <1>6, <1>7
<1>9. m \in Posted
  BY <1>1, <1>5, <1>8, MessagesAreNumbers DEF Posted, StreamOK, DiscordOK
<1> QED BY <1>5, <1>8, <1>9 DEF Missed, Coming

\* The recovery step by step.
LEMMA RecoveryIsComplete ==
    ASSUME RowsInv, StreamOK, StreamOK', SessionInv, PageInv, CompleteInv, Recovery
    PROVE  CompleteInv'
<1>1. UNCHANGED <<posted, server, link, ready>>
  BY DEF Recovery, ScanChannel, NextPage, StoreNext, StoreCursor, discord
<1>2. Held \subseteq Held'
  BY ProducerKeepsRows DEF Producer
<1>3. Missed' \subseteq Missed
  BY <1>1, <1>2, SameMissed
<1>4. ready' => Missed' = {}
  BY <1>1, <1>3 DEF CompleteInv
<1>5. ASSUME NEW ch \in Channels, NEW after \in 0..posted, NEW pages \in 0..MaxPages,
             pages < MaxPages, Fetch(ch, after, pages), scan.state # "none"
      PROVE  CompleteInv'
  <2>1. /\ scan'.channel = ch /\ scan'.after = after /\ scan'.left = scan.left
        /\ scan'.page = FirstOf(History(ch, after), PageSize)
        /\ scan'.last = (Cardinality(scan'.page) < PageSize)
    BY <1>5, FetchTypes DEF StreamOK, ScanOK
  <2>2. Unread' = History(ch, after) /\ History(ch, after) \in SUBSET Message
    BY <1>1, <2>1 DEF Unread, History, Posted
  <2>3. scan'.last => Unread' \subseteq scan'.page
    <3>1. PICK S \in SUBSET Message : S = History(ch, after)
      BY <2>2
    <3>2. Cardinality(FirstOf(S, PageSize)) < PageSize => S \subseteq FirstOf(S, PageSize)
      BY ShortIsAll, LimitsAreNumbers
    <3>3. scan'.page = FirstOf(S, PageSize) /\ Unread' = S
      BY <2>1, <2>2, <3>1
    <3> QED BY <2>1, <3>2, <3>3
  <2>4. \A m \in Missed' : Channel[m] \in scan'.left
    BY <1>3, <1>5, <2>1 DEF CompleteInv
  <2> QED BY <1>4, <2>3, <2>4 DEF CompleteInv
<1>6. ASSUME NEW ch \in Channels, ScanChannel(ch) PROVE CompleteInv'
  <2>1. /\ Fetch(ch, cursor[ch], 0) /\ scan.state = "next"
        /\ cursor[ch] \in 0..posted /\ 0 \in 0..MaxPages /\ 0 < MaxPages
    BY <1>6, LimitsAreNumbers DEF ScanChannel, StreamOK, ScanOK
  <2> QED BY <1>5, <2>1
<1>7. CASE NextPage
  <2>1. /\ Fetch(scan.channel, scan.after, scan.pages) /\ scan.state = "fetch"
        /\ scan.channel \in Channels /\ scan.after \in 0..posted
        /\ scan.pages \in 0..MaxPages /\ scan.pages < MaxPages
    BY <1>7, MessagesAreNumbers DEF NextPage, StreamOK, ScanOK, Scan, DiscordOK
  <2> QED BY <1>5, <2>1
<1>8. CASE StoreNext
  <2> DEFINE m == Min(scan.page)
  <2>1. /\ m \in scan.page /\ raw' = Enqueued(m) /\ scan.state = "store"
        /\ scan' = [scan EXCEPT !.page = scan.page \ {m}, !.after = m]
        /\ UNCHANGED <<config, pending>>
    BY <1>8, StoreNextStores DEF StoreNext
  <2> HIDE DEF m
  <2>2. /\ scan'.page = scan.page \ {m} /\ scan'.after = m /\ scan'.channel = scan.channel
        /\ scan'.last = scan.last /\ scan'.left = scan.left /\ scan'.state = "store"
    BY <2>1 DEF StreamOK, ScanOK, Scan
  <2>3. config \in Config
    BY <2>1 DEF SessionInv, Linked, StreamOK, LinkOK, RowsInv, RowsOK
  <2>4. m \notin Missed'
    BY <2>1, <2>3, MustIsEnqueued DEF Missed, Coming, Must, AlwaysAllowed
  <2>5. m \in Unread /\ m \in Nat
    BY <2>1, MessagesAreNumbers DEF PageInv, StreamOK, ScanOK, Posted
  <2>6. Unread' \subseteq Unread
    <3>1. Unread' = History(scan.channel, m)
      BY <1>1, <2>2 DEF Unread, History, Posted
    <3>2. m > scan.after /\ scan.after \in Nat
      BY <2>5 DEF Unread, History, StreamOK, ScanOK, Scan
    <3>3. \A k \in Posted : k > m => k > scan.after
      BY <2>5, <3>2, MessagesAreNumbers DEF Posted
    <3> QED BY <3>1, <3>3 DEF Unread, History
  <2> QED BY <1>3, <1>4, <2>1, <2>2, <2>4, <2>6 DEF CompleteInv
<1>9. CASE StoreCursor
  <2>1. scan.state = "store" /\ scan.page = {}
    BY <1>9 DEF StoreCursor
  <2>2. CASE scan.last
    <3>1. scan'.state = "next" /\ scan'.left = scan.left \ {scan.channel}
      BY <1>9, <2>2 DEF StoreCursor, StreamOK, ScanOK, Scan
    <3>2. Missed \cap Unread = {}
      BY <2>1, <2>2 DEF CompleteInv
    <3>3. \A m \in Missed : Channel[m] # scan.channel
      <4> SUFFICES ASSUME NEW m \in Missed, Channel[m] = scan.channel PROVE FALSE
        OBVIOUS
      <4>1. m \in Must /\ m \in Posted /\ m \notin Held
        BY DEF Missed, Coming
      <4>2. ~(m <= scan.after)
        BY <2>1, <4>1 DEF PageInv, Fetching
      <4>3. m \in Nat /\ scan.after \in Nat
        BY <4>1, MessagesAreNumbers DEF Posted, StreamOK, ScanOK, Scan
      <4>4. m \in Unread
        BY <4>1, <4>2, <4>3 DEF Unread, History
      <4> QED BY <3>2, <4>4
    <3> QED BY <1>3, <1>4, <2>1, <3>1, <3>3 DEF CompleteInv
  <2>3. CASE ~scan.last
    <3>1. scan'.state \in {"fetch", "failed"} /\ scan'.left = scan.left
      BY <1>9, <2>3 DEF StoreCursor, StreamOK, ScanOK, Scan
    <3> QED BY <1>3, <1>4, <2>1, <3>1 DEF CompleteInv
  <2> QED BY <2>2, <2>3
<1> QED BY <1>6, <1>7, <1>8, <1>9 DEF Recovery

\* A greeting starts a recovery of every registered channel.
LEMMA MustIsRegistered ==
    ASSUME config \in Config, NEW m \in Must PROVE Channel[m] \in Registered
  BY DEF Must, AlwaysAllowed, Registered

LEMMA ProducerIsComplete ==
    ASSUME RowsInv, StreamOK, StreamOK', SessionInv, SessionInv', CoverInv, PageInv,
           CompleteInv, Producer
    PROVE  CompleteInv'
<1>0. Held \subseteq Held'
  BY ProducerKeepsRows
<1>1. ASSUME Missed' \subseteq Missed, UNCHANGED <<posted, scan, ready>> PROVE CompleteInv'
  BY <1>1 DEF CompleteInv, Unread, History, Posted
<1>2. ASSUME scan'.state = "none", ~ready' PROVE CompleteInv'
  BY <1>2 DEF CompleteInv
<1>3. CASE Say
  <2>1. UNCHANGED <<link, scan, ready>> /\ posted' = posted + 1
    BY <1>3 DEF Say, stream
  <2>2. CASE Linked
    <3>1. Missed' \subseteq Missed
      BY <1>3, <2>2, SayMissesNothing
    <3>2. Missed' \cap Unread' \subseteq Missed \cap Unread
      BY <2>1, <3>1 DEF Unread, History, Missed
    <3> QED BY <2>1, <3>1, <3>2 DEF CompleteInv
  <2>3. CASE ~Linked
    BY <1>2, <2>1, <2>3 DEF SessionInv, StreamOK, LinkOK
  <2> QED BY <2>2, <2>3
<1>4. CASE Identify \/ Resume
  <2>1. UNCHANGED <<scan, ready>> /\ ~Linked
    BY <1>4 DEF Identify, Resume, Linked
  <2> QED BY <1>2, <2>1 DEF SessionInv
<1>5. CASE ResumeRefused \/ SaveSession
  <2>1. UNCHANGED <<scan, ready>> /\ ~Linked
    BY <1>5 DEF ResumeRefused, SaveSession, Linked
  <2> QED BY <1>2, <2>1 DEF SessionInv
<1>6. CASE Lose \/ Invalidate \/ ScanFails \/ Stop
  <2>1. scan' = NoScan /\ ready' = FALSE
    BY <1>6 DEF Lose, Invalidate, ScanFails, Stop, LinkEnds
  <2> QED BY <1>2, <2>1, NoScanIsScan
<1>7. CASE \E c \in Config : Start(c)
  <2>1. UNCHANGED <<scan, ready>> /\ ~Linked
    BY <1>7 DEF Start, Running, StreamOK, LinkOK, Linked
  <2> QED BY <1>2, <2>1 DEF SessionInv
<1>8. CASE Checkpoint
  <2>1. /\ UNCHANGED <<posted, server, scan, ready>> /\ Linked /\ Linked'
        /\ link.state = "storing" /\ link'.sent = link.sent + 1
    BY <1>8 DEF Checkpoint, discord, Linked
  <2>2. Missed' \subseteq Missed
    BY <1>0, <2>1, MissedStays DEF StreamOK
  <2> QED BY <1>1, <2>1, <2>2
<1>9. CASE Take
  <2>1. /\ UNCHANGED <<posted, server, ready, config>> /\ Linked /\ Linked'
        /\ link'.sent = link.sent
    BY <1>9 DEF Take, discord, Linked, StreamOK, LinkOK, Link
  <2>2. Missed' \subseteq Missed
    BY <1>0, <2>1, MissedStays DEF StreamOK
  <2>3. CASE scan' = scan
    BY <1>1, <2>1, <2>2, <2>3
  <2>4. CASE scan' = Spawned
    <3>1. config \in Config
      BY <2>1 DEF StreamOK, LinkOK, RowsInv, RowsOK, Linked
    <3>2. scan'.state = "next" /\ scan'.left = Registered
      BY <2>4, <3>1, SpawnedIsScan
    <3>3. \A m \in Missed : Channel[m] \in Registered
      BY <3>1, MustIsRegistered DEF Missed
    <3> QED BY <2>1, <2>2, <3>2, <3>3 DEF CompleteInv
  <2> QED BY <1>9, <2>3, <2>4 DEF Take
<1>10. CASE ScanDone
  <2>1. UNCHANGED <<posted, server, link>> /\ scan' = NoScan
        /\ scan.state = "next" /\ scan.left = {}
    BY <1>10 DEF ScanDone, discord, Recovered
  <2>2. Missed' \subseteq Missed
    BY <1>0, <2>1, SameMissed
  <2>3. Missed = {}
    BY <2>1 DEF CompleteInv
  <2> QED BY <2>1, <2>2, <2>3, NoScanIsScan DEF CompleteInv
<1>11. CASE Recovery
  BY <1>11, RecoveryIsComplete
<1> QED BY <1>3, <1>4, <1>5, <1>6, <1>7, <1>8, <1>9, <1>10, <1>11 DEF Producer, Connection

-----------------------------------------------------------------------------
(* The theorems.                                                           *)

IInv == RowsInv /\ StreamOK /\ SessionInv /\ CoverInv /\ PageInv /\ CompleteInv

\* The worker, the clock and the receiver leave the stream as it is.
LEMMA AsideKeeps ==
    ASSUME IInv, Aside, Held' = Held
    PROVE  StreamOK' /\ SessionInv' /\ CoverInv' /\ PageInv' /\ CompleteInv'
<1>1. UNCHANGED <<posted, server, session, saved, link, ready, scan, cursor>>
  BY DEF Aside, discord, stream
<1>2. StreamOK'
  BY AsideTypes DEF IInv
<1>3. SessionInv'
  BY <1>1 DEF IInv, SessionInv, Linked
<1>4. CoverInv'
  BY <1>1 DEF IInv, CoverInv, Covers, Linked, Must, AlwaysAllowed
<1>5. PageInv'
  BY <1>1, PagesStay DEF IInv
<1>6. CompleteInv'
  BY <1>1 DEF IInv, CompleteInv, Missed, Unread, History, Posted, Coming, Ahead, Must,
              AlwaysAllowed
<1> QED BY <1>2, <1>3, <1>4, <1>5, <1>6

LEMMA InitialRows == Init => RowsInv
<1> SUFFICES ASSUME Init PROVE RowsInv
  OBVIOUS
<1>1. 0 \in 0..MaxAttempts /\ 0 \in 0..MaxSeen
  BY LimitsAreNumbers
<1>2. NoRow \in StoredRow /\ NoRow.state = "none"
  BY <1>1 DEF NoRow, StoredRow
<1>3. pending \in [Message -> StoredRow] /\ Rows = {}
  BY <1>2 DEF Init, Rows
<1>4. RowsOK /\ WorkerRuns
  BY <1>3 DEF Init, RowsOK, WorkerRuns, AtRest
<1>5. PrepareIsRaw /\ DeliverIsDue /\ SeenIsDelivered /\ AnswerIsOfPosted
  BY DEF Init, PrepareIsRaw, DeliverIsDue, SeenIsDelivered, AnswerIsOfPosted, AtRest
<1>6. StoredOnce /\ RouteIsStored /\ ConsumedIsStored /\ ReceiptsTellTruth
  BY <1>3 DEF Init, StoredOnce, RouteIsStored, ConsumedIsStored, ReceiptsTellTruth
<1> QED BY <1>4, <1>5, <1>6 DEF RowsInv

LEMMA InitialInvariant == Init => IInv
<1> SUFFICES ASSUME Init PROVE IInv
  OBVIOUS
<1>1. Held = {}
  BY DEF Init, Held, Rows, NoRow
<1>2. /\ posted = 0 /\ server = [id |-> 0, known |-> FALSE, log |-> <<>>] /\ config = None
      /\ session = NoSession /\ saved = NoSession /\ link = NoLink /\ ready = FALSE
      /\ scan = NoScan /\ cursor = [ch \in Channels |-> 0]
  BY DEF Init
<1>3. DiscordOK
  BY <1>2, MessagesAreNumbers DEF DiscordOK
<1>4. LinkOK
  <2>1. NoSession \in Session(0)
    BY DEF NoSession, Session
  <2>2. NoLink \in Link /\ NoLink.state = "down"
    BY DEF NoLink, Link
  <2>3. server.id = 0
    BY <1>2
  <2> QED BY <1>2, <2>1, <2>2, <2>3 DEF LinkOK
<1>5. ScanOK
  BY <1>2, NoScanIsScan DEF ScanOK
<1>6. SessionInv
  BY <1>2, NoScanIsScan DEF SessionInv, Linked, NoLink
<1>7. CoverInv
  BY <1>2 DEF CoverInv, Linked, NoLink
<1>8. PageInv
  <2> SUFFICES ASSUME NEW m \in Must PROVE ~(m <= cursor[Channel[m]])
    BY <1>2, NoScanIsScan DEF PageInv, Fetching
  <2>1. m \in Message /\ Channel[m] \in Channels
    BY DEF Must, Channels
  <2> QED BY <1>2, <2>1, MessagesAreNumbers
<1>9. CompleteInv
  BY <1>2, NoScanIsScan DEF CompleteInv
<1> QED BY <1>1, <1>3, <1>4, <1>5, <1>6, <1>7, <1>8, <1>9, InitialRows
        DEF IInv, StreamOK, HeldIsPosted

LEMMA InvariantStep == IInv /\ [Next]_vars => IInv'
<1> SUFFICES ASSUME IInv, [Next]_vars PROVE IInv'
  OBVIOUS
<1>1. CASE Worker
  <2>1. Aside /\ Held' = Held /\ RowsInv'
    BY <1>1, WorkerHolds, WorkerKeepsRows DEF IInv
  <2> QED BY <2>1, AsideKeeps DEF IInv
<1>2. CASE Outside \/ UNCHANGED vars
  <2>1. Aside /\ Held' = Held /\ RowsInv'
    BY <1>2, OutsideHolds, OutsideKeepsRows DEF IInv
  <2> QED BY <2>1, AsideKeeps DEF IInv
<1>3. CASE Producer
  <2>1. RowsInv' /\ StreamOK'
    BY <1>3, ProducerKeepsRows, ProducerTypes DEF IInv
  <2>2. SessionInv' /\ PageInv'
    BY <1>3, ProducerKeepsSession, ProducerKeepsPages DEF IInv
  <2>3. CoverInv'
    BY <1>3, <2>1, ProducerKeepsCover DEF IInv
  <2>4. CompleteInv'
    BY <1>3, <2>1, <2>2, ProducerIsComplete DEF IInv
  <2> QED BY <2>1, <2>2, <2>3, <2>4 DEF IInv
<1> QED BY <1>1, <1>2, <1>3, NextCases

\* The rows, the session, the cursors and the recovery agree in every state.
THEOREM Invariant == Spec => []IInv
  BY InitialInvariant, InvariantStep, PTL DEF Spec

\* Every variable has its type: what is stored, received or consumed was said
\* in Discord, and attempts and pages stay within their limits.
THEOREM TypeCorrect == Spec => []TypeOK
<1>1. IInv => TypeOK
  <2> SUFFICES ASSUME IInv PROVE TypeOK
    OBVIOUS
  <2>1. /\ posted \in 0..Cardinality(Message)
        /\ server \in [id : Nat, known : BOOLEAN, log : Seq(Message \cup {Greeting})]
        /\ config \in Config \cup {None}
    BY DEF IInv, StreamOK, DiscordOK, RowsInv, RowsOK
  <2>2. /\ {session, saved} \subseteq [id : 0..server.id, seq : Nat]
        /\ link \in [state : {"down", "reading", "storing", "ended"}, sent : Nat]
        /\ ready \in BOOLEAN
    BY DEF IInv, StreamOK, LinkOK, Session, Link
  <2>3. /\ cursor \in [Channels -> 0..posted]
        /\ scan.state \in {"none", "next", "fetch", "store", "failed"}
        /\ scan.left \subseteq Channels /\ scan.page \subseteq Posted
        /\ scan.pages \in 0..MaxPages
    BY DEF IInv, StreamOK, ScanOK, Scan
  <2>4. raw \subseteq Posted /\ Rows \subseteq Posted
    BY DEF IInv, StreamOK, HeldIsPosted, Held
  <2>5. \A m \in Message : /\ pending[m].state \in {"none", "pending", "delivered"}
                           /\ pending[m].tries \in 0..MaxAttempts
                           /\ pending[m].seenTries \in 0..MaxSeen
    BY DEF IInv, RowsInv, RowsOK, StoredRow
  <2>6. later \subseteq Message /\ work.phase \in {"rest", "prepare", "deliver", "seen"}
    BY DEF IInv, RowsInv, RowsOK
  <2>7. \A e \in received : e[1] \in Rows
    BY DEF IInv, RowsInv, RowsOK, RouteIsStored, Rows
  <2>8. {e[1] : e \in received} \subseteq Posted /\ consumed \subseteq Posted
    BY <2>4, <2>7 DEF IInv, RowsInv, ConsumedIsStored
  <2> QED BY <2>1, <2>2, <2>3, <2>4, <2>5, <2>6, <2>8 DEF TypeOK
<1> QED BY <1>1, Invariant, PTL

\* A crash between two statements loses no message: neither the cursor of a
\* channel nor the saved sequence of a session is past one that is not stored.
THEOREM CheckpointsAreSafe == Spec => []CheckpointsCoverOnlyStored
<1>1. IInv => CheckpointsCoverOnlyStored
  <2> SUFFICES ASSUME IInv, NEW m \in Owed, ~Stored(m)
               PROVE  /\ m > cursor[Channel[m]]
                      /\ (server.known /\ saved.id = server.id)
                            => \A p \in 1..saved.seq : server.log[p] # m
    BY DEF CheckpointsCoverOnlyStored
  <2>1. m \in Must /\ m \notin Held
    BY DEF Owed, Must, Posted, Stored, Held
  <2>2. ~(m <= cursor[Channel[m]])
    BY <2>1 DEF IInv, PageInv
  <2>3. m \in Nat /\ cursor[Channel[m]] \in Nat
    <3>1. m \in Message /\ Channel[m] \in Channels
      BY <2>1 DEF Must, Channels
    <3> QED BY <3>1, MessagesAreNumbers DEF IInv, StreamOK, ScanOK, DiscordOK
  <2>4. (server.known /\ saved.id = server.id) => \A p \in 1..saved.seq : server.log[p] # m
    BY <2>1 DEF IInv, CoverInv, Covers
  <2> QED BY <2>2, <2>3, <2>4
<1> QED BY <1>1, Invariant, PTL

\* A gateway that calls itself ready has, or has yet to read, every message.
THEOREM ReadyIsComplete == Spec => []ReadyMissesNothing
<1>1. IInv => ReadyMissesNothing
  <2> SUFFICES ASSUME IInv, ready, NEW m \in Owed, ~Stored(m)
               PROVE  \E p \in DOMAIN server.log : p > link.sent /\ server.log[p] = m
    BY DEF ReadyMissesNothing
  <2>1. m \in Must /\ m \in Posted /\ m \notin Held
    BY DEF Owed, Must, Posted, Stored, Held
  <2>2. m \in Ahead
    BY <2>1 DEF IInv, CompleteInv, Missed, Coming
  <2>3. PICK p \in (link.sent + 1)..Len(server.log) : m = server.log[p]
    BY <2>2 DEF Ahead
  <2>4. link.sent \in Nat /\ DOMAIN server.log = 1..Len(server.log)
    BY DEF IInv, StreamOK, LinkOK, Link, DiscordOK
  <2>5. p \in DOMAIN server.log /\ p > link.sent
    BY <2>3, <2>4, LogLength DEF IInv, StreamOK
  <2> QED BY <2>3, <2>5
<1> QED BY <1>1, Invariant, PTL

\* Stream, replay and history bring a message again; it is stored once.
THEOREM StoredOnlyOnce == Spec => []StoredOnce
  BY Invariant, PTL DEF IInv, RowsInv

\* One message is offered to the receiver on one route.
THEOREM OnOneRoute == Spec => []OneRoute
<1>1. IInv => OneRoute
  <2> SUFFICES ASSUME IInv, NEW d \in received, NEW e \in received, d[1] = e[1] PROVE d = e
    BY DEF OneRoute
  <2>1. d[2] = e[2]
    BY DEF IInv, RowsInv, RouteIsStored
  <2> QED BY <2>1 DEF IInv, RowsInv, RowsOK
<1> QED BY <1>1, Invariant, PTL

\* Deliveries and reactions are recorded only of what happened.
THEOREM ReceiptsAreTrue == Spec => []ReceiptsTellTruth
  BY Invariant, PTL DEF IInv, RowsInv

\* A stored message stays stored, and a delivered one delivered.
THEOREM NothingIsTakenBack == Spec => NeverTakenBack
<1> DEFINE Kept == \A m \in Message :
                     /\ Stored(m) => Stored(m)'
                     /\ pending[m].state = "delivered" => pending'[m].state = "delivered"
<1>1. IInv /\ [Next]_vars => [Kept]_vars
  <2> SUFFICES ASSUME IInv, [Next]_vars PROVE Kept
    OBVIOUS
  <2>1. \A m : Stored(m) <=> m \in Held
    BY DEF Stored, Held
  <2>2. \A m : Stored(m)' <=> m \in Held'
    BY DEF Stored, Held
  <2>3. Held \subseteq Held' /\ \A m \in Message :
           pending[m].state = "delivered" => pending'[m].state = "delivered"
    <3>1. CASE Worker
      BY <3>1, WorkerHolds DEF IInv
    <3>2. CASE Outside \/ UNCHANGED vars
      BY <3>2, OutsideHolds
    <3>3. CASE Producer
      BY <3>3, ProducerKeepsRows, ProducerAdds DEF IInv
    <3> QED BY <3>1, <3>2, <3>3, NextCases
  <2> QED BY <2>1, <2>2, <2>3
<1> QED BY <1>1, Invariant, PTL DEF Spec, NeverTakenBack

=============================================================================
