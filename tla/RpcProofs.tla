----------------------------- MODULE RpcProofs -----------------------------
(***************************************************************************)
(* Proofs about RpcConnection, for any number of calls, endpoints and       *)
(* places in the pool: its safety properties, and that it implements        *)
(* RemoteCall.                                                             *)
(***************************************************************************)
EXTENDS RpcConnection, FiniteSetTheorems, TLAPS

-----------------------------------------------------------------------------
(* The inductive invariant.                                                *)

\* Until it is written, and when it is unavailable, the server cannot know a call.
Unread ==
    \A c \in Call :
        at[c] \in {"pool", "connecting", "closing", "waiting", "sending", "unavailable"}
            => c \notin wire /\ c \notin performed

OnceOnly == \A c \in wire : c \notin performed

\* Who sends or receives has the call lock of an open connection.
HoldsTurn ==
    \A c \in Call : at[c] \in {"sending", "receiving"} => on[c] \in open /\ turn[on[c]] = c

HasConnection == \A c \in Call : at[c] = "waiting" => on[c] \in Conn

\* Nobody has a connection before it is opened.
NotYetOpened ==
    \A c \in Call : at[c] \in {"pool", "connecting"} =>
        /\ on[c] = None
        /\ \A d \in Call : on[d] # c
        /\ \A e \in Endpoint : sessions[e] # c

\* A number is given with the call lock, from those of the connection.
Numbered ==
    \A c \in Call :
        /\ at[c] \in {"pool", "connecting", "closing", "waiting"} => id[c] = 0
        /\ at[c] \in {"sending", "receiving"} => id[c] # 0
        /\ c \in wire \/ c \in performed => id[c] # 0
        /\ id[c] # 0 => on[c] \in Conn /\ id[c] < nextId[on[c]]

Distinct ==
    \A c, d \in Call :
        (c # d /\ id[c] # 0 /\ id[d] # 0 /\ on[c] = on[d]) => id[c] # id[d]

\* What is on a stream: a line with the number of the call it answers, or none.
Answers(line, k) ==
    \/ line = Fragment
    \/ /\ line.of \in performed
       /\ on[line.of] = k
       /\ line.id = id[line.of]

Labelled == \A k \in Conn : \A n \in 1..Len(answers[k]) : Answers(answers[k][n], k)

AnsweredIsPerformed == \A c \in Call : at[c] = "answered" => got[c] = c /\ c \in performed

LockIsHeld == \A c \in Call : at[c] = "connecting" => lock = c

IInv ==
    /\ TypeOK
    /\ Unread /\ OnceOnly
    /\ HoldsTurn /\ HasConnection /\ NotYetOpened
    /\ Numbered /\ Distinct /\ Labelled /\ AnsweredIsPerformed
    /\ LockIsHeld /\ PoolWithinCapacity

-----------------------------------------------------------------------------
(* Types.                                                                  *)

USE DEF Conn

\* The initial values have their types.
LEMMA InitIsTyped == ASSUME Init PROVE TypeOK
  BY RpcConstants DEF Init, TypeOK, Active

\* What SessionPool::connection assigns has its type.
LEMMA PoolIsTyped ==
    ASSUME TypeOK, NEW c \in Call, InPool(c) PROVE TypeOK'
<1> USE RpcConstants DEF TypeOK, Active, Ended, link, server, pool
<1>1. CASE Reuse(c)
  BY <1>1 DEF Reuse
<1>2. CASE Replace(c)
  <2>1. \A f \in Endpoint : Kept(f) \subseteq Conn
    BY DEF Kept
  <2>2. PICK evicted \in Evictions(EndpointOf[c]) :
            /\ sessions' = [f \in Endpoint |->
                    IF f \in evicted \cup {EndpointOf[c]} THEN None ELSE sessions[f]]
            /\ retired' = [retired EXCEPT ![c] =
                    UNION {Kept(f) : f \in evicted \cup {EndpointOf[c]}}]
    BY <1>2 DEF Replace
  <2>3. evicted \subseteq Endpoint
    BY <2>2 DEF Evictions, Others
  <2>4. UNION {Kept(f) : f \in evicted \cup {EndpointOf[c]}} \subseteq Conn
    BY <2>1, <2>3
  <2> QED BY <1>2, <2>2, <2>4 DEF Replace
<1>3. CASE Refuse(c)
  BY <1>3 DEF Refuse, Kept
<1>4. CASE Connected(c)
  BY <1>4 DEF Connected
<1>5. CASE ConnectFails(c)
  BY <1>5 DEF ConnectFails
<1>6. CASE CloseRetired(c)
  BY <1>6 DEF CloseRetired
<1>7. CASE LeavePool(c)
  BY <1>7 DEF LeavePool
<1> QED BY <1>1, <1>2, <1>3, <1>4, <1>5, <1>6, <1>7 DEF InPool

\* What request_raw assigns has its type.
LEMMA RequestIsTyped ==
    ASSUME TypeOK, HasConnection, HoldsTurn, NEW c \in Call, InRequest(c) PROVE TypeOK'
<1> USE RpcConstants DEF TypeOK, Active, Ended, link, server, pool
<1>1. CASE Acquire(c)
  BY <1>1 DEF Acquire, HasConnection
<1>2. CASE FindClosed(c)
  BY <1>2 DEF FindClosed, HasConnection
<1>3. CASE Send(c)
  BY <1>3 DEF Send, Delivered
<1>4. CASE SendFails(c)
  BY <1>4 DEF SendFails, Delivered, Break, AfterBroken, HoldsTurn
<1>5. CASE Receive(c)
  <2>1. on[c] \in Conn
    BY <1>5 DEF Receive, HoldsTurn
  <2>2. Head(answers[on[c]]) \in Line /\ Tail(answers[on[c]]) \in Seq(Line)
    BY <1>5, <2>1 DEF Receive
  <2> QED BY <1>5, <2>1, <2>2 DEF Receive, Line
<1>6. CASE Skip(c)
  <2>1. on[c] \in Conn /\ Tail(answers[on[c]]) \in Seq(Line)
    BY <1>6 DEF Skip, HoldsTurn
  <2> QED BY <1>6, <2>1 DEF Skip
<1>7. CASE ReceiveFails(c)
  BY <1>7 DEF ReceiveFails, Break, AfterBroken, HoldsTurn
<1> QED BY <1>1, <1>2, <1>3, <1>4, <1>5, <1>6, <1>7 DEF InRequest

\* What a dropped call leaves has its type.
LEMMA CancelIsTyped ==
    ASSUME TypeOK, HasConnection, HoldsTurn, NEW c \in Call, Cancel(c) PROVE TypeOK'
<1> USE RpcConstants DEF TypeOK, Active, Ended, link, server, pool
<1>1. CASE CancelInPool(c)
  BY <1>1 DEF CancelInPool
<1>2. CASE CancelWaiting(c)
  BY <1>2 DEF CancelWaiting, Guard, HasConnection
<1>3. CASE CancelSending(c)
  BY <1>3 DEF CancelSending, Guard, Delivered, HoldsTurn
<1>4. CASE CancelReceiving(c)
  <2>1. on[c] \in Conn
    BY <1>4 DEF CancelReceiving, HoldsTurn
  <2>2. answers[on[c]] # <<>> => <<Fragment>> \o Tail(answers[on[c]]) \in Seq(Line)
    <3>1. Fragment \in Line
      BY DEF Fragment, Line
    <3>2. answers[on[c]] # <<>> => Tail(answers[on[c]]) \in Seq(Line)
      BY <2>1
    <3>3. <<Fragment>> \in Seq(Line)
      BY <3>1
    <3> QED BY <3>2, <3>3
  <2>3. answers' \in [Conn -> Seq(Line)]
    <3>1. CASE UNCHANGED answers
      BY <3>1
    <3>2. CASE /\ answers[on[c]] # <<>>
               /\ answers' = [answers EXCEPT ![on[c]] = <<Fragment>> \o Tail(@)]
      BY <3>2, <2>2
    <3> QED BY <1>4, <3>1, <3>2 DEF CancelReceiving
  <2> QED BY <1>4, <2>1, <2>3 DEF CancelReceiving, Guard
<1> QED BY <1>1, <1>2, <1>3, <1>4 DEF Cancel

\* What the App Server answers are lines.
LEMMA PerformIsTyped ==
    ASSUME TypeOK, NEW c \in Call, Perform(c) PROVE TypeOK'
<1> USE RpcConstants DEF TypeOK, Active, Ended, link, pool
<1>1. [id |-> id[c], of |-> c] \in Line
  BY DEF Line
<1>2. on[c] \in open => Append(answers[on[c]], [id |-> id[c], of |-> c]) \in Seq(Line)
  BY <1>1
<1>3. answers' \in [Conn -> Seq(Line)]
  <2>1. CASE UNCHANGED answers
    BY <2>1
  <2>2. CASE /\ on[c] \in open
             /\ answers' = [answers EXCEPT ![on[c]] = Append(@, [id |-> id[c], of |-> c])]
    BY <2>2, <1>2
  <2> QED BY <2>1, <2>2 DEF Perform
<1> QED BY <1>3 DEF Perform

\* A step of a call, or of the server for it.
Step(c) == InPool(c) \/ InRequest(c) \/ Cancel(c) \/ Perform(c)

\* Every step keeps the types.
LEMMA StepIsTyped ==
    ASSUME TypeOK, HasConnection, HoldsTurn, NEW c \in Call, Step(c) PROVE TypeOK'
  BY PoolIsTyped, RequestIsTyped, CancelIsTyped, PerformIsTyped DEF Step

-----------------------------------------------------------------------------
(* What a step preserves.                                                  *)

\* A call is written when it sends, and cannot be unavailable after that.
LEMMA KeepsUnread ==
    ASSUME TypeOK, HasConnection, HoldsTurn, Unread, NEW c \in Call, Step(c) PROVE Unread'
<1> USE RpcConstants DEF TypeOK, Active, Ended, pool, link, server, Unread
<1>1. CASE Reuse(c)
  BY <1>1 DEF Reuse
<1>2. CASE Replace(c)
  BY <1>2 DEF Replace
<1>3. CASE Refuse(c)
  BY <1>3 DEF Refuse
<1>4. CASE Connected(c)
  BY <1>4 DEF Connected
<1>5. CASE ConnectFails(c)
  BY <1>5 DEF ConnectFails
<1>6. CASE CloseRetired(c)
  BY <1>6 DEF CloseRetired
<1>7. CASE LeavePool(c)
  BY <1>7 DEF LeavePool
<1>8. CASE Acquire(c)
  BY <1>8 DEF Acquire
<1>9. CASE FindClosed(c)
  BY <1>9 DEF FindClosed
<1>10. CASE Send(c)
  BY <1>10 DEF Send, Delivered
<1>11. CASE SendFails(c)
  BY <1>11 DEF SendFails, Break, AfterBroken, Delivered
<1>12. CASE Receive(c)
  BY <1>12 DEF Receive
<1>13. CASE Skip(c)
  BY <1>13 DEF Skip
<1>14. CASE ReceiveFails(c)
  BY <1>14 DEF ReceiveFails, Break, AfterBroken
<1>15. CASE CancelInPool(c)
  BY <1>15 DEF CancelInPool
<1>16. CASE CancelWaiting(c)
  BY <1>16 DEF CancelWaiting, Guard
<1>17. CASE CancelSending(c)
  BY <1>17 DEF CancelSending, Guard, Delivered
<1>18. CASE CancelReceiving(c)
  BY <1>18 DEF CancelReceiving, Guard
<1>19. CASE Perform(c)
  BY <1>19 DEF Perform
<1> QED BY <1>1, <1>2, <1>3, <1>4, <1>5, <1>6, <1>7, <1>8, <1>9, <1>10, <1>11, <1>12, <1>13, <1>14, <1>15, <1>16, <1>17, <1>18, <1>19
         DEF Step, InPool, InRequest, Cancel

\* What is performed leaves the wire, and only a call that sends enters it.
LEMMA KeepsOnceOnly ==
    ASSUME TypeOK, HoldsTurn, Unread, OnceOnly, NEW c \in Call, Step(c) PROVE OnceOnly'
<1> USE RpcConstants DEF TypeOK, Active, Ended, pool, link, server, Unread, OnceOnly
<1>1. CASE Reuse(c)
  BY <1>1 DEF Reuse
<1>2. CASE Replace(c)
  BY <1>2 DEF Replace
<1>3. CASE Refuse(c)
  BY <1>3 DEF Refuse
<1>4. CASE Connected(c)
  BY <1>4 DEF Connected
<1>5. CASE ConnectFails(c)
  BY <1>5 DEF ConnectFails
<1>6. CASE CloseRetired(c)
  BY <1>6 DEF CloseRetired
<1>7. CASE LeavePool(c)
  BY <1>7 DEF LeavePool
<1>8. CASE Acquire(c)
  BY <1>8 DEF Acquire
<1>9. CASE FindClosed(c)
  BY <1>9 DEF FindClosed
<1>10. CASE Send(c)
  BY <1>10 DEF Send, Delivered
<1>11. CASE SendFails(c)
  BY <1>11 DEF SendFails, Break, AfterBroken, Delivered
<1>12. CASE Receive(c)
  BY <1>12 DEF Receive
<1>13. CASE Skip(c)
  BY <1>13 DEF Skip
<1>14. CASE ReceiveFails(c)
  BY <1>14 DEF ReceiveFails, Break, AfterBroken
<1>15. CASE CancelInPool(c)
  BY <1>15 DEF CancelInPool
<1>16. CASE CancelWaiting(c)
  BY <1>16 DEF CancelWaiting, Guard
<1>17. CASE CancelSending(c)
  BY <1>17 DEF CancelSending, Guard, Delivered
<1>18. CASE CancelReceiving(c)
  BY <1>18 DEF CancelReceiving, Guard
<1>19. CASE Perform(c)
  BY <1>19 DEF Perform
<1> QED BY <1>1, <1>2, <1>3, <1>4, <1>5, <1>6, <1>7, <1>8, <1>9, <1>10, <1>11, <1>12, <1>13, <1>14, <1>15, <1>16, <1>17, <1>18, <1>19
         DEF Step, InPool, InRequest, Cancel

\* The call lock and the transport stay with the call that uses them.
LEMMA KeepsTurn ==
    ASSUME TypeOK, HasConnection, NotYetOpened, HoldsTurn, NEW c \in Call, Step(c) PROVE HoldsTurn'
<1> USE RpcConstants DEF TypeOK, Active, Ended, pool, link, server, HoldsTurn, HasConnection, NotYetOpened
<1>1. CASE Reuse(c)
  BY <1>1 DEF Reuse
<1>2. CASE Replace(c)
  BY <1>2 DEF Replace
<1>3. CASE Refuse(c)
  BY <1>3 DEF Refuse
<1>4. CASE Connected(c)
  BY <1>4 DEF Connected
<1>5. CASE ConnectFails(c)
  BY <1>5 DEF ConnectFails
<1>6. CASE CloseRetired(c)
  BY <1>6 DEF CloseRetired, MayClose
<1>7. CASE LeavePool(c)
  BY <1>7 DEF LeavePool
<1>8. CASE Acquire(c)
  BY <1>8 DEF Acquire
<1>9. CASE FindClosed(c)
  BY <1>9 DEF FindClosed
<1>10. CASE Send(c)
  BY <1>10 DEF Send, Delivered
<1>11. CASE SendFails(c)
  BY <1>11 DEF SendFails, Break, AfterBroken, Delivered
<1>12. CASE Receive(c)
  BY <1>12 DEF Receive
<1>13. CASE Skip(c)
  BY <1>13 DEF Skip
<1>14. CASE ReceiveFails(c)
  BY <1>14 DEF ReceiveFails, Break, AfterBroken
<1>15. CASE CancelInPool(c)
  BY <1>15 DEF CancelInPool
<1>16. CASE CancelWaiting(c)
  BY <1>16 DEF CancelWaiting, Guard
<1>17. CASE CancelSending(c)
  BY <1>17 DEF CancelSending, Guard, Delivered
<1>18. CASE CancelReceiving(c)
  BY <1>18 DEF CancelReceiving, Guard
<1>19. CASE Perform(c)
  BY <1>19 DEF Perform
<1> QED BY <1>1, <1>2, <1>3, <1>4, <1>5, <1>6, <1>7, <1>8, <1>9, <1>10, <1>11, <1>12, <1>13, <1>14, <1>15, <1>16, <1>17, <1>18, <1>19
         DEF Step, InPool, InRequest, Cancel

\* The pool gives every call that waits a connection.
LEMMA KeepsConnection ==
    ASSUME TypeOK, HasConnection, NEW c \in Call, Step(c) PROVE HasConnection'
<1> USE RpcConstants DEF TypeOK, Active, Ended, pool, link, server, HasConnection
<1>1. CASE Reuse(c)
  BY <1>1 DEF Reuse
<1>2. CASE Replace(c)
  BY <1>2 DEF Replace
<1>3. CASE Refuse(c)
  BY <1>3 DEF Refuse
<1>4. CASE Connected(c)
  BY <1>4 DEF Connected
<1>5. CASE ConnectFails(c)
  BY <1>5 DEF ConnectFails
<1>6. CASE CloseRetired(c)
  BY <1>6 DEF CloseRetired
<1>7. CASE LeavePool(c)
  BY <1>7 DEF LeavePool
<1>8. CASE Acquire(c)
  BY <1>8 DEF Acquire
<1>9. CASE FindClosed(c)
  BY <1>9 DEF FindClosed
<1>10. CASE Send(c)
  BY <1>10 DEF Send, Delivered
<1>11. CASE SendFails(c)
  BY <1>11 DEF SendFails, Break, AfterBroken, Delivered
<1>12. CASE Receive(c)
  BY <1>12 DEF Receive
<1>13. CASE Skip(c)
  BY <1>13 DEF Skip
<1>14. CASE ReceiveFails(c)
  BY <1>14 DEF ReceiveFails, Break, AfterBroken
<1>15. CASE CancelInPool(c)
  BY <1>15 DEF CancelInPool
<1>16. CASE CancelWaiting(c)
  BY <1>16 DEF CancelWaiting, Guard
<1>17. CASE CancelSending(c)
  BY <1>17 DEF CancelSending, Guard, Delivered
<1>18. CASE CancelReceiving(c)
  BY <1>18 DEF CancelReceiving, Guard
<1>19. CASE Perform(c)
  BY <1>19 DEF Perform
<1> QED BY <1>1, <1>2, <1>3, <1>4, <1>5, <1>6, <1>7, <1>8, <1>9, <1>10, <1>11, <1>12, <1>13, <1>14, <1>15, <1>16, <1>17, <1>18, <1>19
         DEF Step, InPool, InRequest, Cancel

\* A connection is known from the moment it is opened.
LEMMA KeepsNotYetOpened ==
    ASSUME TypeOK, HasConnection, HoldsTurn, NotYetOpened, NEW c \in Call, Step(c) PROVE NotYetOpened'
<1> USE RpcConstants DEF TypeOK, Active, Ended, pool, link, server, NotYetOpened, HasConnection, HoldsTurn
<1>1. CASE Reuse(c)
  BY <1>1 DEF Reuse
<1>2. CASE Replace(c)
  BY <1>2 DEF Replace
<1>3. CASE Refuse(c)
  BY <1>3 DEF Refuse
<1>4. CASE Connected(c)
  BY <1>4 DEF Connected
<1>5. CASE ConnectFails(c)
  BY <1>5 DEF ConnectFails
<1>6. CASE CloseRetired(c)
  BY <1>6 DEF CloseRetired
<1>7. CASE LeavePool(c)
  BY <1>7 DEF LeavePool
<1>8. CASE Acquire(c)
  BY <1>8 DEF Acquire
<1>9. CASE FindClosed(c)
  BY <1>9 DEF FindClosed
<1>10. CASE Send(c)
  BY <1>10 DEF Send, Delivered
<1>11. CASE SendFails(c)
  BY <1>11 DEF SendFails, Break, AfterBroken, Delivered
<1>12. CASE Receive(c)
  BY <1>12 DEF Receive
<1>13. CASE Skip(c)
  BY <1>13 DEF Skip
<1>14. CASE ReceiveFails(c)
  BY <1>14 DEF ReceiveFails, Break, AfterBroken
<1>15. CASE CancelInPool(c)
  BY <1>15 DEF CancelInPool
<1>16. CASE CancelWaiting(c)
  BY <1>16 DEF CancelWaiting, Guard
<1>17. CASE CancelSending(c)
  BY <1>17 DEF CancelSending, Guard, Delivered
<1>18. CASE CancelReceiving(c)
  BY <1>18 DEF CancelReceiving, Guard
<1>19. CASE Perform(c)
  BY <1>19 DEF Perform
<1> QED BY <1>1, <1>2, <1>3, <1>4, <1>5, <1>6, <1>7, <1>8, <1>9, <1>10, <1>11, <1>12, <1>13, <1>14, <1>15, <1>16, <1>17, <1>18, <1>19
         DEF Step, InPool, InRequest, Cancel

\* One call connects at a time.
LEMMA KeepsLock ==
    ASSUME TypeOK, LockIsHeld, NEW c \in Call, Step(c) PROVE LockIsHeld'
<1> USE RpcConstants DEF TypeOK, Active, Ended, pool, link, server, LockIsHeld
<1>1. CASE Reuse(c)
  BY <1>1 DEF Reuse
<1>2. CASE Replace(c)
  BY <1>2 DEF Replace
<1>3. CASE Refuse(c)
  BY <1>3 DEF Refuse
<1>4. CASE Connected(c)
  BY <1>4 DEF Connected
<1>5. CASE ConnectFails(c)
  BY <1>5 DEF ConnectFails
<1>6. CASE CloseRetired(c)
  BY <1>6 DEF CloseRetired
<1>7. CASE LeavePool(c)
  BY <1>7 DEF LeavePool
<1>8. CASE Acquire(c)
  BY <1>8 DEF Acquire
<1>9. CASE FindClosed(c)
  BY <1>9 DEF FindClosed
<1>10. CASE Send(c)
  BY <1>10 DEF Send, Delivered
<1>11. CASE SendFails(c)
  BY <1>11 DEF SendFails, Break, AfterBroken, Delivered
<1>12. CASE Receive(c)
  BY <1>12 DEF Receive
<1>13. CASE Skip(c)
  BY <1>13 DEF Skip
<1>14. CASE ReceiveFails(c)
  BY <1>14 DEF ReceiveFails, Break, AfterBroken
<1>15. CASE CancelInPool(c)
  BY <1>15 DEF CancelInPool
<1>16. CASE CancelWaiting(c)
  BY <1>16 DEF CancelWaiting, Guard
<1>17. CASE CancelSending(c)
  BY <1>17 DEF CancelSending, Guard, Delivered
<1>18. CASE CancelReceiving(c)
  BY <1>18 DEF CancelReceiving, Guard
<1>19. CASE Perform(c)
  BY <1>19 DEF Perform
<1> QED BY <1>1, <1>2, <1>3, <1>4, <1>5, <1>6, <1>7, <1>8, <1>9, <1>10, <1>11, <1>12, <1>13, <1>14, <1>15, <1>16, <1>17, <1>18, <1>19
         DEF Step, InPool, InRequest, Cancel

\* The numbers of a connection grow.
LEMMA KeepsNumbered ==
    ASSUME TypeOK, HasConnection, HoldsTurn, NotYetOpened, Numbered, NEW c \in Call, Step(c) PROVE Numbered'
<1> USE RpcConstants DEF TypeOK, Active, Ended, pool, link, server, NotYetOpened, HasConnection, HoldsTurn, Numbered
<1>1. CASE Reuse(c)
  BY <1>1 DEF Reuse
<1>2. CASE Replace(c)
  BY <1>2 DEF Replace
<1>3. CASE Refuse(c)
  BY <1>3 DEF Refuse
<1>4. CASE Connected(c)
  BY <1>4 DEF Connected
<1>5. CASE ConnectFails(c)
  BY <1>5 DEF ConnectFails
<1>6. CASE CloseRetired(c)
  BY <1>6 DEF CloseRetired
<1>7. CASE LeavePool(c)
  BY <1>7 DEF LeavePool
<1>8. CASE Acquire(c)
  BY <1>8 DEF Acquire
<1>9. CASE FindClosed(c)
  BY <1>9 DEF FindClosed
<1>10. CASE Send(c)
  BY <1>10 DEF Send, Delivered
<1>11. CASE SendFails(c)
  BY <1>11 DEF SendFails, Break, AfterBroken, Delivered
<1>12. CASE Receive(c)
  BY <1>12 DEF Receive
<1>13. CASE Skip(c)
  BY <1>13 DEF Skip
<1>14. CASE ReceiveFails(c)
  BY <1>14 DEF ReceiveFails, Break, AfterBroken
<1>15. CASE CancelInPool(c)
  BY <1>15 DEF CancelInPool
<1>16. CASE CancelWaiting(c)
  BY <1>16 DEF CancelWaiting, Guard
<1>17. CASE CancelSending(c)
  BY <1>17 DEF CancelSending, Guard, Delivered
<1>18. CASE CancelReceiving(c)
  BY <1>18 DEF CancelReceiving, Guard
<1>19. CASE Perform(c)
  BY <1>19 DEF Perform
<1> QED BY <1>1, <1>2, <1>3, <1>4, <1>5, <1>6, <1>7, <1>8, <1>9, <1>10, <1>11, <1>12, <1>13, <1>14, <1>15, <1>16, <1>17, <1>18, <1>19
         DEF Step, InPool, InRequest, Cancel

\* The number of a call is below the next of its connection.
LEMMA NumberIsLow ==
    ASSUME Numbered, NEW d \in Call, id[d] # 0 PROVE id[d] < nextId[on[d]]
  BY DEF Numbered

\* The next number of a connection is nobody's.
LEMMA NewNumberIsDistinct ==
    ASSUME Numbered, Distinct, NEW c \in Call,
           on' = on /\ id'[c] = nextId[on[c]] /\ \A d \in Call \ {c} : id'[d] = id[d],
           nextId[on[c]] \in Nat /\ \A d \in Call : id[d] \in Nat
    PROVE  Distinct'
<1>1. ASSUME NEW d \in Call \ {c}, id[d] # 0, on[d] = on[c] PROVE id[d] # nextId[on[c]]
  <2>1. id[d] < nextId[on[c]]
    BY <1>1, NumberIsLow
  <2> QED BY <2>1
<1>2. ASSUME NEW d \in Call, NEW f \in Call, d # f, id'[d] # 0, id'[f] # 0, on'[d] = on'[f]
      PROVE  id'[d] # id'[f]
  <2>1. CASE d = c
    BY <2>1, <1>1, <1>2
  <2>2. CASE f = c
    BY <2>2, <1>1, <1>2
  <2>3. CASE d # c /\ f # c
    BY <2>3, <1>2 DEF Distinct
  <2> QED BY <2>1, <2>2, <2>3
<1> QED BY <1>2 DEF Distinct

\* No two calls of a connection have a number in common.
LEMMA KeepsDistinct ==
    ASSUME TypeOK, HasConnection, HoldsTurn, NotYetOpened, Numbered, Distinct, NEW c \in Call, Step(c) PROVE Distinct'
<1> USE RpcConstants DEF TypeOK, Active, Ended, pool, link, server, NotYetOpened, HasConnection, HoldsTurn, Numbered, Distinct
<1>1. CASE Reuse(c)
  BY <1>1 DEF Reuse
<1>2. CASE Replace(c)
  BY <1>2 DEF Replace
<1>3. CASE Refuse(c)
  BY <1>3 DEF Refuse
<1>4. CASE Connected(c)
  BY <1>4 DEF Connected
<1>5. CASE ConnectFails(c)
  BY <1>5 DEF ConnectFails
<1>6. CASE CloseRetired(c)
  BY <1>6 DEF CloseRetired
<1>7. CASE LeavePool(c)
  BY <1>7 DEF LeavePool
<1>8. CASE Acquire(c)
  <2>1. on' = on /\ id'[c] = nextId[on[c]] /\ \A d \in Call \ {c} : id'[d] = id[d]
    BY <1>8 DEF Acquire
  <2>2. nextId[on[c]] \in Nat /\ \A d \in Call : id[d] \in Nat
    BY <1>8 DEF Acquire
  <2> QED BY <2>1, <2>2, NewNumberIsDistinct
<1>9. CASE FindClosed(c)
  BY <1>9 DEF FindClosed
<1>10. CASE Send(c)
  BY <1>10 DEF Send, Delivered
<1>11. CASE SendFails(c)
  BY <1>11 DEF SendFails, Break, AfterBroken, Delivered
<1>12. CASE Receive(c)
  BY <1>12 DEF Receive
<1>13. CASE Skip(c)
  BY <1>13 DEF Skip
<1>14. CASE ReceiveFails(c)
  BY <1>14 DEF ReceiveFails, Break, AfterBroken
<1>15. CASE CancelInPool(c)
  BY <1>15 DEF CancelInPool
<1>16. CASE CancelWaiting(c)
  BY <1>16 DEF CancelWaiting, Guard
<1>17. CASE CancelSending(c)
  BY <1>17 DEF CancelSending, Guard, Delivered
<1>18. CASE CancelReceiving(c)
  BY <1>18 DEF CancelReceiving, Guard
<1>19. CASE Perform(c)
  BY <1>19 DEF Perform
<1> QED BY <1>1, <1>2, <1>3, <1>4, <1>5, <1>6, <1>7, <1>8, <1>9, <1>10, <1>11, <1>12, <1>13, <1>14, <1>15, <1>16, <1>17, <1>18, <1>19
         DEF Step, InPool, InRequest, Cancel

\* A performed call keeps its connection and its number.
LEMMA PerformedIsFixed ==
    ASSUME TypeOK, HasConnection, HoldsTurn, NotYetOpened, Numbered, NEW c \in Call, Step(c) PROVE (\A d \in performed : d \in performed' /\ on'[d] = on[d] /\ id'[d] = id[d])
<1> USE RpcConstants DEF TypeOK, Active, Ended, pool, link, server, NotYetOpened, HasConnection, HoldsTurn, Numbered
<1>1. CASE Reuse(c)
  BY <1>1 DEF Reuse
<1>2. CASE Replace(c)
  BY <1>2 DEF Replace
<1>3. CASE Refuse(c)
  BY <1>3 DEF Refuse
<1>4. CASE Connected(c)
  BY <1>4 DEF Connected
<1>5. CASE ConnectFails(c)
  BY <1>5 DEF ConnectFails
<1>6. CASE CloseRetired(c)
  BY <1>6 DEF CloseRetired
<1>7. CASE LeavePool(c)
  BY <1>7 DEF LeavePool
<1>8. CASE Acquire(c)
  BY <1>8 DEF Acquire
<1>9. CASE FindClosed(c)
  BY <1>9 DEF FindClosed
<1>10. CASE Send(c)
  BY <1>10 DEF Send, Delivered
<1>11. CASE SendFails(c)
  BY <1>11 DEF SendFails, Break, AfterBroken, Delivered
<1>12. CASE Receive(c)
  BY <1>12 DEF Receive
<1>13. CASE Skip(c)
  BY <1>13 DEF Skip
<1>14. CASE ReceiveFails(c)
  BY <1>14 DEF ReceiveFails, Break, AfterBroken
<1>15. CASE CancelInPool(c)
  BY <1>15 DEF CancelInPool
<1>16. CASE CancelWaiting(c)
  BY <1>16 DEF CancelWaiting, Guard
<1>17. CASE CancelSending(c)
  BY <1>17 DEF CancelSending, Guard, Delivered
<1>18. CASE CancelReceiving(c)
  BY <1>18 DEF CancelReceiving, Guard
<1>19. CASE Perform(c)
  BY <1>19 DEF Perform
<1> QED BY <1>1, <1>2, <1>3, <1>4, <1>5, <1>6, <1>7, <1>8, <1>9, <1>10, <1>11, <1>12, <1>13, <1>14, <1>15, <1>16, <1>17, <1>18, <1>19
         DEF Step, InPool, InRequest, Cancel

\* Answers in the next state, of a line of this one.
WillAnswer(line, k) ==
    \/ line = Fragment
    \/ /\ line.of \in performed'
       /\ on'[line.of] = k
       /\ line.id = id'[line.of]

\* Who cuts lines is the call that uses the stream, who adds one the server.
LEMMA StreamChanges ==
    ASSUME TypeOK, HoldsTurn, NEW c \in Call, Step(c)
    PROVE  \/ UNCHANGED answers
           \/ /\ on[c] \in Conn /\ answers[on[c]] # <<>>
              /\ \/ answers' = [answers EXCEPT ![on[c]] = Tail(answers[on[c]])]
                 \/ answers' = [answers EXCEPT ![on[c]] = <<Fragment>> \o Tail(answers[on[c]])]
           \/ /\ Perform(c) /\ on[c] \in Conn
              /\ answers' = [answers EXCEPT
                     ![on[c]] = Append(answers[on[c]], [id |-> id[c], of |-> c])]
<1>1. CASE InPool(c)
  BY <1>1 DEF InPool, Reuse, Replace, Refuse, Connected, ConnectFails, CloseRetired, LeavePool
<1>2. CASE InRequest(c)
  <2>1. CASE Receive(c) \/ Skip(c)
    BY <2>1 DEF Receive, Skip, HoldsTurn, TypeOK
  <2>2. CASE Acquire(c) \/ FindClosed(c) \/ Send(c) \/ SendFails(c) \/ ReceiveFails(c)
    BY <2>2 DEF Acquire, FindClosed, Send, SendFails, ReceiveFails
  <2> QED BY <1>2, <2>1, <2>2 DEF InRequest
<1>3. CASE Cancel(c)
  <2>1. CASE CancelReceiving(c)
    BY <2>1 DEF CancelReceiving, HoldsTurn, TypeOK
  <2>2. CASE CancelInPool(c) \/ CancelWaiting(c) \/ CancelSending(c)
    BY <2>2 DEF CancelInPool, CancelWaiting, CancelSending
  <2> QED BY <1>3, <2>1, <2>2 DEF Cancel
<1>4. CASE Perform(c)
  BY <1>4 DEF Perform, TypeOK
<1> QED BY <1>1, <1>2, <1>3, <1>4 DEF Step

\* A stream whose lines are those of before, cut or added to, is labelled.
LEMMA StreamIsLabelled ==
    ASSUME TypeOK, Labelled, NEW k \in Conn, NEW new \in Seq(Line),
           \A j \in Conn : \A n \in 1..Len(answers[j]) : WillAnswer(answers[j][n], j),
           \A n \in 1..Len(new) : WillAnswer(new[n], k),
           answers' = [answers EXCEPT ![k] = new]
    PROVE  Labelled'
<1> SUFFICES ASSUME NEW j \in Conn, NEW n \in 1..Len(answers'[j])
             PROVE  WillAnswer(answers'[j][n], j)
  BY DEF Labelled, Answers, WillAnswer
<1>1. CASE j = k
  <2>1. answers'[j] = new
    BY <1>1 DEF TypeOK
  <2> QED BY <2>1, <1>1
<1>2. CASE j # k
  <2>1. answers'[j] = answers[j]
    BY <1>2 DEF TypeOK
  <2> QED BY <2>1
<1> QED BY <1>1, <1>2

\* What is left of a stream without its first line.
LEMMA RestIsLabelled ==
    ASSUME TypeOK, NEW k \in Conn, answers[k] # <<>>,
           \A n \in 1..Len(answers[k]) : WillAnswer(answers[k][n], k)
    PROVE  /\ Tail(answers[k]) \in Seq(Line)
           /\ \A n \in 1..Len(Tail(answers[k])) : WillAnswer(Tail(answers[k])[n], k)
<1>1. answers[k] \in Seq(Line)
  BY DEF TypeOK
<1>2. /\ Tail(answers[k]) \in Seq(Line)
      /\ Len(Tail(answers[k])) = Len(answers[k]) - 1
      /\ Len(answers[k]) \in Nat
      /\ \A n \in 1..Len(Tail(answers[k])) : Tail(answers[k])[n] = answers[k][n + 1]
  BY <1>1
<1>3. \A n \in 1..Len(Tail(answers[k])) : n + 1 \in 1..Len(answers[k])
  BY <1>2
<1>4. ASSUME NEW n \in 1..Len(Tail(answers[k]))
      PROVE  WillAnswer(Tail(answers[k])[n], k)
  <2>1. WillAnswer(answers[k][n + 1], k)
    BY <1>3
  <2>2. Tail(answers[k])[n] = answers[k][n + 1]
    BY <1>2
  <2> QED BY <2>1, <2>2
<1> QED BY <1>2, <1>4

\* Lines are only taken from the front, cut at the front, or added at the end.
LEMMA KeepsLabelled ==
    ASSUME TypeOK, HasConnection, HoldsTurn, NotYetOpened, Numbered, Labelled,
           NEW c \in Call, Step(c)
    PROVE  Labelled'
<1> DEFINE k == on[c]
           rest == Tail(answers[k])
           cut == <<Fragment>> \o rest
           line == [id |-> id[c], of |-> c]
           longer == Append(answers[k], line)
<1>1. ASSUME NEW j \in Conn, NEW n \in 1..Len(answers[j])
      PROVE  WillAnswer(answers[j][n], j)
  <2>1. Answers(answers[j][n], j)
    BY DEF Labelled
  <2> QED BY <2>1, PerformedIsFixed DEF Answers, WillAnswer
<1>2. CASE UNCHANGED answers
  BY <1>1, <1>2 DEF Labelled, Answers, WillAnswer
<1>3. ASSUME k \in Conn, answers[k] # <<>>
      PROVE  rest \in Seq(Line) /\ \A n \in 1..Len(rest) : WillAnswer(rest[n], k)
  BY <1>1, <1>3, RestIsLabelled
<1>4. CASE k \in Conn /\ answers[k] # <<>> /\ answers' = [answers EXCEPT ![k] = rest]
  <2> HIDE DEF k, rest
  <2> QED BY <1>1, <1>3, <1>4, StreamIsLabelled
<1>5. CASE k \in Conn /\ answers[k] # <<>> /\ answers' = [answers EXCEPT ![k] = cut]
  <2>1. rest \in Seq(Line) /\ Fragment \in Line
    BY <1>3, <1>5 DEF Fragment, Line
  <2>2. /\ cut \in Seq(Line) /\ Len(cut) = Len(rest) + 1 /\ Len(rest) \in Nat
        /\ cut[1] = Fragment
        /\ \A n \in 1..Len(cut) : n # 1 => n - 1 \in 1..Len(rest) /\ cut[n] = rest[n - 1]
    <3> HIDE DEF rest
    <3> QED BY <2>1
  <2>3. ASSUME NEW n \in 1..Len(cut) PROVE WillAnswer(cut[n], k)
    <3>1. CASE n = 1
      <4>1. cut[n] = Fragment
        BY <2>2, <3>1
      <4> HIDE DEF cut
      <4> QED BY <4>1 DEF WillAnswer
    <3>2. CASE n # 1
      <4>1. n - 1 \in 1..Len(rest) /\ cut[n] = rest[n - 1]
        BY <2>2, <3>2
      <4>2. WillAnswer(rest[n - 1], k)
        BY <4>1, <1>3, <1>5
      <4> HIDE DEF cut, rest
      <4> QED BY <4>1, <4>2
    <3> QED BY <3>1, <3>2
  <2> HIDE DEF k, cut
  <2> QED BY <1>1, <1>5, <2>2, <2>3, StreamIsLabelled
<1>6. CASE Perform(c) /\ k \in Conn /\ answers' = [answers EXCEPT ![k] = longer]
  <2>1. answers[k] \in Seq(Line) /\ line \in Line
    BY <1>6 DEF TypeOK, Line
  <2>2. /\ longer \in Seq(Line)
        /\ Len(longer) = Len(answers[k]) + 1 /\ Len(answers[k]) \in Nat
        /\ longer[Len(answers[k]) + 1] = line
        /\ \A n \in 1..Len(answers[k]) : longer[n] = answers[k][n]
    <3> HIDE DEF line
    <3> QED BY <2>1
  <2>3. WillAnswer(line, k)
    BY <1>6 DEF Perform, WillAnswer
  <2>4. ASSUME NEW n \in 1..Len(longer) PROVE WillAnswer(longer[n], k)
    <3>1. CASE n \in 1..Len(answers[k])
      <4>1. longer[n] = answers[k][n]
        BY <2>2, <3>1
      <4>2. WillAnswer(answers[k][n], k)
        BY <1>1, <1>6, <3>1
      <4> HIDE DEF longer
      <4> QED BY <4>1, <4>2
    <3>2. CASE n = Len(answers[k]) + 1
      <4>1. longer[n] = line
        BY <2>2, <3>2
      <4> HIDE DEF longer, line
      <4> QED BY <4>1, <2>3
    <3>3. n \in 1..Len(answers[k]) \/ n = Len(answers[k]) + 1
      <4> HIDE DEF longer
      <4> QED BY <2>2
    <3> QED BY <3>1, <3>2, <3>3
  <2> HIDE DEF k, longer
  <2> QED BY <1>1, <1>6, <2>2, <2>4, StreamIsLabelled
<1>7. \/ UNCHANGED answers
      \/ k \in Conn /\ answers[k] # <<>> /\ answers' = [answers EXCEPT ![k] = rest]
      \/ k \in Conn /\ answers[k] # <<>> /\ answers' = [answers EXCEPT ![k] = cut]
      \/ Perform(c) /\ k \in Conn /\ answers' = [answers EXCEPT ![k] = longer]
  BY StreamChanges
<1> QED BY <1>2, <1>4, <1>5, <1>6, <1>7

\* The line a call takes for its answer has its number, which no other call of
\* the connection has.
LEMMA ReceivesItsOwn ==
    ASSUME TypeOK, HoldsTurn, Numbered, Distinct, Labelled, NEW c \in Call, Receive(c)
    PROVE  got'[c] = c /\ c \in performed
<1> DEFINE k == on[c]
           line == Head(answers[k])
<1>1. k \in Conn /\ answers[k] \in Seq(Line) /\ answers[k] # <<>>
  BY DEF Receive, HoldsTurn, TypeOK
<1>2. 1 \in 1..Len(answers[k]) /\ line = answers[k][1]
  BY <1>1
<1>3. line # Fragment /\ line.id = id[c] /\ got'[c] = line.of
  BY DEF Receive, IsFor, TypeOK
<1>4. line.of \in performed /\ on[line.of] = k /\ line.id = id[line.of]
  <2>1. Answers(answers[k][1], k)
    BY <1>1, <1>2 DEF Labelled
  <2>2. Answers(line, k)
    <3> HIDE DEF line, k
    <3> QED BY <1>2, <2>1
  <2> HIDE DEF line, k
  <2> QED BY <1>3, <2>2 DEF Answers
<1>5. line.of \in Call /\ id[line.of] # 0 /\ id[c] # 0
  <2> HIDE DEF line, k
  <2> QED BY <1>4 DEF Receive, Numbered, TypeOK
<1>6. line.of = c
  <2> HIDE DEF line
  <2> QED BY <1>3, <1>4, <1>5 DEF Distinct
<1> QED BY <1>3, <1>4, <1>6

\* Only the own answer ends a call as answered.
LEMMA KeepsAnswered ==
    ASSUME TypeOK, HoldsTurn, Numbered, Distinct, Labelled, AnsweredIsPerformed, NEW c \in Call, Step(c) PROVE AnsweredIsPerformed'
<1> USE RpcConstants DEF TypeOK, Active, Ended, pool, link, server, AnsweredIsPerformed
<1>1. CASE Reuse(c)
  BY <1>1 DEF Reuse
<1>2. CASE Replace(c)
  BY <1>2 DEF Replace
<1>3. CASE Refuse(c)
  BY <1>3 DEF Refuse
<1>4. CASE Connected(c)
  BY <1>4 DEF Connected
<1>5. CASE ConnectFails(c)
  BY <1>5 DEF ConnectFails
<1>6. CASE CloseRetired(c)
  BY <1>6 DEF CloseRetired
<1>7. CASE LeavePool(c)
  BY <1>7 DEF LeavePool
<1>8. CASE Acquire(c)
  BY <1>8 DEF Acquire
<1>9. CASE FindClosed(c)
  BY <1>9 DEF FindClosed
<1>10. CASE Send(c)
  BY <1>10 DEF Send, Delivered
<1>11. CASE SendFails(c)
  BY <1>11 DEF SendFails, Break, AfterBroken, Delivered
<1>12. CASE Receive(c)
  <2>1. got'[c] = c /\ c \in performed
    BY <1>12, ReceivesItsOwn
  <2> QED BY <1>12, <2>1 DEF Receive
<1>13. CASE Skip(c)
  BY <1>13 DEF Skip
<1>14. CASE ReceiveFails(c)
  BY <1>14 DEF ReceiveFails, Break, AfterBroken
<1>15. CASE CancelInPool(c)
  BY <1>15 DEF CancelInPool
<1>16. CASE CancelWaiting(c)
  BY <1>16 DEF CancelWaiting, Guard
<1>17. CASE CancelSending(c)
  BY <1>17 DEF CancelSending, Guard, Delivered
<1>18. CASE CancelReceiving(c)
  BY <1>18 DEF CancelReceiving, Guard
<1>19. CASE Perform(c)
  BY <1>19 DEF Perform
<1> QED BY <1>1, <1>2, <1>3, <1>4, <1>5, <1>6, <1>7, <1>8, <1>9, <1>10, <1>11, <1>12, <1>13, <1>14, <1>15, <1>16, <1>17, <1>18, <1>19
         DEF Step, InPool, InRequest, Cancel

-----------------------------------------------------------------------------
(* The capacity of the pool.                                               *)

\* Endpoints that have a connection, or a call that connects to them.
Held == {e \in Endpoint : sessions[e] # None \/ \E c \in Call :
             at[c] = "connecting" /\ EndpointOf[c] = e}

\* Only Replace adds to the pool.
LEMMA OthersShrink ==
    ASSUME TypeOK, NEW c \in Call, Step(c), ~Replace(c) PROVE Held' \subseteq Held
<1> USE RpcConstants DEF TypeOK, Active, Ended, pool, Held
<1>1. CASE InPool(c)
  <2>1. CASE Connected(c)
    BY <2>1 DEF Connected
  <2>2. CASE Refuse(c)
    BY <2>2 DEF Refuse
  <2>3. CASE Reuse(c) \/ ConnectFails(c) \/ CloseRetired(c) \/ LeavePool(c)
    BY <2>3 DEF Reuse, ConnectFails, CloseRetired, LeavePool
  <2> QED BY <1>1, <2>1, <2>2, <2>3 DEF InPool
<1>2. CASE InRequest(c)
  <2>1. CASE Acquire(c) \/ FindClosed(c) \/ Send(c) \/ Receive(c) \/ Skip(c)
    BY <2>1 DEF Acquire, FindClosed, Send, Receive, Skip
  <2>2. CASE SendFails(c) \/ ReceiveFails(c)
    BY <2>2 DEF SendFails, ReceiveFails, Break, AfterBroken
  <2> QED BY <1>2, <2>1, <2>2 DEF InRequest
<1>3. CASE Cancel(c)
  BY <1>3 DEF Cancel, CancelInPool, CancelWaiting, CancelSending, CancelReceiving, Guard
<1>4. CASE Perform(c)
  BY <1>4 DEF Perform
<1> QED BY <1>1, <1>2, <1>3, <1>4 DEF Step

\* While the lock of the pool is free nobody connects, so Replace counts all.
LEMMA ReplaceFits ==
    ASSUME TypeOK, LockIsHeld, PoolWithinCapacity, NEW c \in Call, Replace(c)
    PROVE  IsFiniteSet(Held') /\ Cardinality(Held') <= MaxSessions
<1> DEFINE e == EndpointOf[c]
<1> USE RpcConstants DEF TypeOK, Active, Ended, pool
<1>1. e \in Endpoint
  OBVIOUS
<1>2. \A d \in Call : at[d] # "connecting"
  BY DEF LockIsHeld, Replace
<1>3. Held = {f \in Endpoint : sessions[f] # None} /\ Others(e) = Held \ {e}
  BY <1>2 DEF Held, Others
<1>4. /\ IsFiniteSet(Held) /\ Cardinality(Held) \in Nat
      /\ IsFiniteSet(Others(e)) /\ Cardinality(Others(e)) \in Nat
      /\ Cardinality(Others(e)) <= Cardinality(Held)
  <2>1. IsFiniteSet(Held) /\ Others(e) \subseteq Held
    BY <1>3, FS_Subset
  <2> QED BY <2>1, FS_Subset, FS_CardinalityType
<1>5. Cardinality(Held) <= MaxSessions
  BY DEF PoolWithinCapacity, Held
<1>6. PICK evicted \in Evictions(e) :
          sessions' = [f \in Endpoint |-> IF f \in evicted \cup {e} THEN None ELSE sessions[f]]
  BY DEF Replace
<1>7. Held' = (Others(e) \ evicted) \cup {e}
  <2>1. \A d \in Call : at'[d] = "connecting" <=> d = c
    BY <1>2 DEF Replace
  <2>2. \A f \in Endpoint : sessions'[f] # None <=> f \in Others(e) \ evicted
    BY <1>6 DEF Others
  <2> QED BY <1>1, <2>1, <2>2 DEF Held, Others
<1>8. e \notin Others(e)
  BY DEF Others
<1>9. CASE ~Full(e)
  <2>1. evicted = {}
    BY <1>6, <1>9 DEF Evictions
  <2>2. Held' = Others(e) \cup {e}
    BY <1>7, <2>1
  <2>3. Cardinality(Others(e)) < MaxSessions
    BY <1>4, <1>9 DEF Full
  <2>4. /\ IsFiniteSet(Others(e) \cup {e})
        /\ Cardinality(Others(e) \cup {e}) = Cardinality(Others(e)) + 1
    BY <1>4, <1>8, FS_AddElement
  <2> HIDE DEF e
  <2> QED BY <1>4, <2>2, <2>3, <2>4
<1>10. CASE Full(e)
  <2>1. PICK f \in Others(e) : evicted = {f}
    BY <1>6, <1>10 DEF Evictions
  <2> DEFINE rest == Others(e) \ {f}
  <2>2. Held' = rest \cup {e}
    BY <1>7, <2>1
  <2>3. IsFiniteSet(rest) /\ Cardinality(rest) = Cardinality(Others(e)) - 1
    <3>1. IsFiniteSet(rest)
      BY <1>4, FS_RemoveElement
    <3>2. rest \cup {f} = Others(e) /\ f \notin rest
      BY <2>1
    <3>3. Cardinality(rest \cup {f}) = Cardinality(rest) + 1
      <4> HIDE DEF rest
      <4> QED BY <3>1, <3>2, FS_AddElement
    <3>4. Cardinality(rest) \in Nat
      BY <3>1, FS_CardinalityType
    <3>5. Cardinality(Others(e)) = Cardinality(rest) + 1
      BY <3>2, <3>3, Zenon
    <3> HIDE DEF e, rest
    <3> QED BY <3>1, <3>4, <3>5
  <2>4. IsFiniteSet(rest \cup {e}) /\ Cardinality(rest \cup {e}) = Cardinality(rest) + 1
    <3>1. e \notin rest
      BY <1>8
    <3> HIDE DEF e, rest
    <3> QED BY <2>3, <3>1, FS_AddElement
  <2> HIDE DEF e, rest
  <2> QED BY <1>4, <1>5, <2>2, <2>3, <2>4
<1> QED BY <1>9, <1>10

\* The pool, with the connection being opened, stays within MAX_SESSIONS.
LEMMA KeepsCapacity ==
    ASSUME TypeOK, LockIsHeld, PoolWithinCapacity, NEW c \in Call, Step(c)
    PROVE  PoolWithinCapacity'
<1>1. CASE Replace(c)
  BY <1>1, ReplaceFits DEF PoolWithinCapacity, Held
<1>2. CASE ~Replace(c)
  <2>1. Held' \subseteq Held
    BY <1>2, OthersShrink
  <2>2. IsFiniteSet(Held) /\ Cardinality(Held) <= MaxSessions
    BY RpcConstants, FS_Subset DEF PoolWithinCapacity, Held
  <2>3. /\ Cardinality(Held') \in Nat /\ Cardinality(Held) \in Nat
        /\ Cardinality(Held') <= Cardinality(Held)
    BY <2>1, <2>2, FS_Subset, FS_CardinalityType
  <2>4. Cardinality(Held') <= MaxSessions
    BY <2>2, <2>3, RpcConstants
  <2> QED BY <2>4 DEF PoolWithinCapacity, Held
<1> QED BY <1>1, <1>2

-----------------------------------------------------------------------------
(* The inductive invariant holds.                                          *)

\* The invariant holds when the receiver starts.
LEMMA InitHolds == ASSUME Init PROVE IInv
<1> USE RpcConstants DEF Init
<1>1. TypeOK
  BY InitIsTyped
<1>2. /\ Unread /\ OnceOnly /\ HoldsTurn /\ HasConnection /\ NotYetOpened
      /\ Numbered /\ Distinct /\ AnsweredIsPerformed /\ LockIsHeld
  BY DEF Unread, OnceOnly, HoldsTurn, HasConnection, NotYetOpened, Numbered,
         Distinct, AnsweredIsPerformed, LockIsHeld
<1>3. Labelled
  BY DEF Labelled
<1>4. PoolWithinCapacity
  <2>1. Held = {}
    BY DEF Held
  <2>2. Cardinality(Held) = 0
    BY <2>1, FS_EmptySet
  <2> QED BY <2>2 DEF PoolWithinCapacity, Held
<1> QED BY <1>1, <1>2, <1>3, <1>4 DEF IInv

\* The invariant is kept by every step of a call or the server.
LEMMA StepHolds == ASSUME IInv, NEW c \in Call, Step(c) PROVE IInv'
<1> USE DEF IInv
<1>1. TypeOK'
  BY StepIsTyped
<1>2. Unread' /\ OnceOnly'
  BY KeepsUnread, KeepsOnceOnly
<1>3. HoldsTurn' /\ HasConnection' /\ NotYetOpened'
  BY KeepsTurn, KeepsConnection, KeepsNotYetOpened
<1>4. Numbered' /\ Distinct' /\ Labelled' /\ AnsweredIsPerformed'
  BY KeepsNumbered, KeepsDistinct, KeepsLabelled, KeepsAnswered
<1>5. LockIsHeld' /\ PoolWithinCapacity'
  BY KeepsLock, KeepsCapacity
<1> QED BY <1>1, <1>2, <1>3, <1>4, <1>5

\* The invariant is about nothing but the variables.
LEMMA StutterHolds == ASSUME IInv, UNCHANGED vars PROVE IInv'
<1> USE DEF IInv, vars, pool, link, server
<1>1. TypeOK'
  BY DEF TypeOK
<1>2. /\ Unread' /\ OnceOnly' /\ HoldsTurn' /\ HasConnection' /\ NotYetOpened'
      /\ Numbered' /\ Distinct' /\ AnsweredIsPerformed' /\ LockIsHeld'
  BY DEF Unread, OnceOnly, HoldsTurn, HasConnection, NotYetOpened, Numbered,
         Distinct, AnsweredIsPerformed, LockIsHeld
<1>3. Labelled'
  BY DEF Labelled, Answers
<1>4. PoolWithinCapacity'
  BY DEF PoolWithinCapacity
<1> QED BY <1>1, <1>2, <1>3, <1>4

\* The strengthening of the safety properties of the connection is invariant:
\* whatever the calls do, at any await they may be dropped.
THEOREM Inductive == Spec => []IInv
<1>1. Init => IInv
  BY InitHolds
<1>2. IInv /\ [Next]_vars => IInv'
  <2> SUFFICES ASSUME IInv, [Next]_vars PROVE IInv'
    OBVIOUS
  <2>1. CASE UNCHANGED vars
    BY <2>1, StutterHolds
  <2>2. CASE Next
    <3>1. PICK c \in Call : Step(c)
      BY <2>2 DEF Next, Step
    <3> QED BY <3>1, StepHolds
  <2> QED BY <2>1, <2>2
<1> QED BY <1>1, <1>2, PTL DEF Spec

\* The variables keep their types.
THEOREM TypeCorrect == Spec => []TypeOK
<1>1. IInv => TypeOK
  BY DEF IInv
<1> QED BY <1>1, Inductive, PTL

\* request_raw hands a caller the answer to its own request, whatever calls
\* were dropped on the same connection before it.
THEOREM OwnAnswer == Spec => []AnswerIsOwn
<1>1. IInv => AnswerIsOwn
  BY DEF IInv, AnsweredIsPerformed, AnswerIsOwn
<1> QED BY <1>1, Inductive, PTL

\* A call that ends as UpstreamUnavailable was not and will not be performed,
\* so that deliver_one may submit the row again.
THEOREM SafeToRepeat == Spec => []UnavailableIsUnsent
<1>1. IInv => UnavailableIsUnsent
  BY DEF IInv, Unread, UnavailableIsUnsent
<1> QED BY <1>1, Inductive, PTL

\* The pool never holds more than MAX_SESSIONS connections, the one being
\* opened included.
THEOREM BoundedPool == Spec => []PoolWithinCapacity
<1>1. IInv => PoolWithinCapacity
  BY DEF IInv
<1> QED BY <1>1, Inductive, PTL

\* A connection is not closed under a call that uses it.
THEOREM ClosedAlone == Spec => []NobodyElseCloses
<1>1. IInv => NobodyElseCloses
  BY DEF IInv, HoldsTurn, NobodyElseCloses
<1> QED BY <1>1, Inductive, PTL

-----------------------------------------------------------------------------
(* RpcConnection implements RemoteCall.                                    *)

\* How a call ended, for its caller: the refinement mapping.
Told == [c \in Call |->
            IF at[c] \in Active THEN "open"
            ELSE IF at[c] = "answered" /\ got[c] # c THEN "mistaken" ELSE at[c]]

\* A step moves one call that has not ended, or is one of the server.
LEMMA OneCallMoves ==
    ASSUME TypeOK, NEW c \in Call, Step(c), ~Perform(c)
    PROVE  /\ at[c] \in Active
           /\ performed' = performed
           /\ \A d \in Call \ {c} : at'[d] = at[d] /\ got'[d] = got[d]
<1> USE DEF TypeOK, Active, server
<1>1. CASE InPool(c)
  BY <1>1 DEF InPool, Reuse, Replace, Refuse, Connected, ConnectFails, CloseRetired, LeavePool
<1>2. CASE InRequest(c)
  <2>1. CASE Acquire(c) \/ FindClosed(c) \/ Send(c) \/ Receive(c) \/ Skip(c)
    BY <2>1 DEF Acquire, FindClosed, Send, Receive, Skip
  <2>2. CASE SendFails(c) \/ ReceiveFails(c)
    BY <2>2 DEF SendFails, ReceiveFails, Break
  <2> QED BY <1>2, <2>1, <2>2 DEF InRequest
<1>3. CASE Cancel(c)
  BY <1>3 DEF Cancel, CancelInPool, CancelWaiting, CancelSending, CancelReceiving, Guard
<1> QED BY <1>1, <1>2, <1>3 DEF Step

\* A step returns from one call of RemoteCall, performs one, or changes nothing there.
LEMMA StepKeepsContract ==
    ASSUME IInv, IInv', NEW c \in Call, Step(c)
    PROVE  Contract!Next \/ UNCHANGED Contract!vars
<1> USE DEF IInv
<1>1. CASE Perform(c)
  <2>1. c \notin performed /\ at[c] # "unavailable"
    BY <1>1 DEF Perform, OnceOnly, Unread
  <2>2. at' = at /\ got' = got /\ performed' = performed \cup {c}
    BY <1>1 DEF Perform
  <2>3. Told[c] # "unavailable" /\ Told' = Told
    BY <2>1, <2>2 DEF Told
  <2>4. Contract!Perform(c)
    BY <2>1, <2>2, <2>3 DEF Contract!Perform, Told
  <2> QED BY <2>4 DEF Contract!Next
<1>2. CASE ~Perform(c)
  <2>1. /\ at[c] \in Active
        /\ performed' = performed
        /\ \A d \in Call \ {c} : at'[d] = at[d] /\ got'[d] = got[d]
    BY <1>2, OneCallMoves
  <2>2. Told[c] = "open" /\ \A d \in Call \ {c} : Told'[d] = Told[d]
    BY <2>1 DEF Told
  <2>3. CASE at'[c] \in Active
    <3>1. Told'[c] = "open"
      BY <2>3 DEF Told
    <3>2. Told' = Told
      BY <2>2, <3>1 DEF Told
    <3> QED BY <2>1, <3>2 DEF Contract!vars, Told
  <2>4. CASE at'[c] \notin Active
    <3>1. PICK ending : ending = at'[c]
      OBVIOUS
    <3>2. ending \in Contract!Outcome \ {"open"}
      BY <2>4, <3>1 DEF TypeOK, Active, Ended, Contract!Outcome
    <3>3. ending = "answered" => got'[c] = c /\ c \in performed
      BY <2>1, <3>1 DEF AnsweredIsPerformed
    <3>4. ending = "unavailable" => c \notin performed
      BY <2>1, <3>1 DEF Unread
    <3>5. Told'[c] = ending
      BY <2>4, <3>1, <3>3 DEF Told
    <3>6. Told' = [Told EXCEPT ![c] = ending]
      BY <2>2, <3>5 DEF Told
    <3>7. Contract!Return(c, ending)
      BY <2>1, <2>2, <3>3, <3>4, <3>6 DEF Contract!Return, Told
    <3> QED BY <3>2, <3>7 DEF Contract!Next
  <2> QED BY <2>3, <2>4
<1> QED BY <1>1, <1>2

\* The session pool keeps what its callers rely on: an answer is the answer to
\* this very request, "unavailable" means never performed, and no request is
\* performed twice.
THEOREM Implements == Spec => KeepsItsContract
<1>1. Init => Contract!Init
  BY DEF Init, Active, Contract!Init
<1>2. IInv /\ IInv' /\ [Next]_vars => [Contract!Next]_(Contract!vars)
  <2> SUFFICES ASSUME IInv, IInv', [Next]_vars
               PROVE  Contract!Next \/ UNCHANGED Contract!vars
    OBVIOUS
  <2>1. CASE UNCHANGED vars
    BY <2>1 DEF vars, server, Contract!vars
  <2>2. CASE Next
    <3>1. PICK c \in Call : Step(c)
      BY <2>2 DEF Next, Step
    <3> QED BY <3>1, StepKeepsContract
  <2> QED BY <2>1, <2>2
<1> QED BY <1>1, <1>2, Inductive, PTL DEF Spec, KeepsItsContract, Contract!Spec

=============================================================================
