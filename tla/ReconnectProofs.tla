--------------------------- MODULE ReconnectProofs ---------------------------
(***************************************************************************)
(* Proofs about Reconnect: one dashboard at a time carries out a change, it *)
(* overwrites only what its user confirmed, and the permissions it replaces *)
(* stay in a backup, for any number of dashboards, residents, permissions,  *)
(* failures and deaths.                                                     *)
(***************************************************************************)
EXTENDS Reconnect, TLAPS

-----------------------------------------------------------------------------
(* The inductive invariant.                                                *)

ServicesOK ==
    /\ file \in [Service -> Policy] /\ known \in [Service -> Policy]
    /\ run \in [Service -> Policy \cup {None}]
    /\ pid \in Nat /\ loaded \subseteq Resident
    /\ working \in {"idle", "queued", "active"}
OperationsOK ==
    /\ lock \in Dashboard \cup {None}
    /\ op \in [Dashboard -> Operation]
    /\ \A u \in Dashboard : op[u].at # "idle" => lock = u /\ op[u].plan # NoPlan
HistoryOK == backups \subseteq [Service -> Policy] /\ inForce \in [Service -> Policy]
BoundsOK == {changes, edits, fails, deaths} \subseteq Nat

Changing(u) == Executing(u) /\ op[u].plan.policy # Keep
ChangeSteps == {"prepare", "stop", "write", "reload", "start",
                "unstop", "unwrite", "unreload", "unstart"}

\* Only a change of permissions takes the steps of one.
PolicyIsKnown ==
    \A u \in Dashboard : op[u].at \in ChangeSteps => op[u].plan.policy # Keep

\* While a change is carried out, a backup has what was in force, and the files
\* are those it saw, its own, or edited since.
BackedUp ==
    \A u \in Dashboard : Changing(u) =>
        \A s \in Service : \E b \in backups : b[s] = inForce[s]
SeenOrOwn ==
    \A u \in Dashboard : Changing(u) =>
        \A s \in Untouched(u) : file[s] \in {op[u].plan.file[s], op[u].plan.policy}

Order == /\ OperationsOK /\ HistoryOK
         /\ PolicyIsKnown /\ BackedUp /\ SeenOrOwn /\ OriginalsAreKept
IInv == ServicesOK /\ BoundsOK /\ Order

-----------------------------------------------------------------------------
(* Operators of the model.                                                 *)

LEMMA TypeParts == TypeOK <=> ServicesOK /\ OperationsOK /\ HistoryOK /\ BoundsOK
  BY DEF TypeOK, ServicesOK, OperationsOK, HistoryOK, BoundsOK

LEMMA OwnerIsService == Owner \in Service /\ Resident \subseteq Service /\ Owner \notin Resident
  BY ReconnectConstants DEF Service, Owner

\* After, Attempted, Unless and RollBack change where an operation is, and
\* neither its plan nor what was edited meanwhile.
LEMMA AfterKeeps ==
    ASSUME NEW o \in Operation, NEW s \in Service, NEW at \in Steps
    PROVE  /\ After(o, s, at) \in Operation
           /\ After(o, s, at).plan = o.plan /\ After(o, s, at).late = o.late
           /\ After(o, s, at).at \in {o.at, at}
  BY DEF After, Operation

LEMMA AttemptedKeeps ==
    ASSUME NEW o \in Operation, NEW s \in Service
    PROVE  /\ Attempted(o, s) \in Operation
           /\ Attempted(o, s).plan = o.plan /\ Attempted(o, s).late = o.late
           /\ Attempted(o, s).at = o.at
  BY DEF Attempted, Operation

LEMMA UnlessKeeps ==
    ASSUME NEW o \in Operation, NEW failed \in BOOLEAN
    PROVE  /\ Unless(o, failed) \in Operation
           /\ Unless(o, failed).plan = o.plan /\ Unless(o, failed).late = o.late
           /\ Unless(o, failed).at = o.at
  BY DEF Unless, Operation

LEMMA RollBackKeeps ==
    ASSUME NEW o \in Operation
    PROVE  /\ RollBack(o) \in Operation
           /\ RollBack(o).plan = o.plan /\ RollBack(o).late = o.late
           /\ RollBack(o).at = "unstop"
  BY DEF RollBack, Operation, Steps

LEMMA IdleIsOperation ==
    ASSUME NEW report \in Reports
    PROVE  /\ Idle \in Operation /\ Idle.at = "idle"
           /\ [Idle EXCEPT !.report = report] \in Operation
           /\ [Idle EXCEPT !.report = report].at = "idle"
  BY DEF Idle, Operation, Steps, Reports

\* Starting, stopping and restarting keep the types.
LEMMA GoesTypes ==
    ASSUME ServicesOK, NEW s \in Service, NEW with \in Policy \cup {None}, Goes(s, with)
    PROVE  /\ run' \in [Service -> Policy \cup {None}]
           /\ pid' \in Nat /\ loaded' \subseteq Resident
           /\ working' \in {"idle", "queued", "active"}
  BY DEF ServicesOK, Goes, Interrupted

LEMMA StaysTypes ==
    ASSUME ServicesOK, Stays
    PROVE  /\ run' \in [Service -> Policy \cup {None}]
           /\ pid' \in Nat /\ loaded' \subseteq Resident
           /\ working' \in {"idle", "queued", "active"}
  BY DEF ServicesOK, Stays

LEMMA UpTypes ==
    ASSUME ServicesOK, NEW s \in Service, Up(s)
    PROVE  /\ run' \in [Service -> Policy \cup {None}]
           /\ pid' \in Nat /\ loaded' \subseteq Resident
           /\ working' \in {"idle", "queued", "active"}
<1>1. CASE run[s] = None
  <2>1. known[s] \in Policy \cup {None} /\ Goes(s, known[s])
    BY <1>1 DEF Up, ServicesOK
  <2> QED BY <2>1, GoesTypes
<1>2. CASE run[s] # None
  BY <1>2, StaysTypes DEF Up
<1> QED BY <1>1, <1>2

LEMMA FailsBounds == BoundsOK /\ (Fails \/ UNCHANGED bounds) => BoundsOK'
  BY DEF BoundsOK, Fails, bounds

-----------------------------------------------------------------------------
(* What a step of one dashboard does to the invariant.                     *)

LEMMA OneAtATime ==
    ASSUME OperationsOK, NEW u \in Dashboard, op[u].at # "idle",
           NEW v \in Dashboard, v # u
    PROVE  op[v].at = "idle" /\ lock = u
  BY DEF OperationsOK

\* A step inside the execution of a change or of a reconnect.
LEMMA ExecutionStep ==
    ASSUME IInv, NEW u \in Dashboard, Executing(u),
           NEW o \in Operation, To(u, o),
           o.plan = op[u].plan, o.late = op[u].late,
           o.at \in Steps \ {"idle", "locked", "prepare"},
           o.at \in ChangeSteps => op[u].plan.policy # Keep,
           UNCHANGED <<lock, inForce, backups>>,
           file' = file \/ Changing(u),
           \A s \in Untouched(u) :
              file'[s] \in {file[s], op[u].plan.file[s], op[u].plan.policy}
    PROVE  Order'
<1>1. OperationsOK /\ HistoryOK /\ op[u].at # "idle"
  BY DEF IInv, Order, Executing
<1>2. op[u].plan # NoPlan /\ lock = u
  BY <1>1 DEF OperationsOK
<1>3. op' = [op EXCEPT ![u] = o] /\ op'[u] = o /\ \A v \in Dashboard \ {u} : op'[v] = op[v]
  BY <1>1 DEF To, OperationsOK
<1>4. \A v \in Dashboard \ {u} : op'[v].at = "idle"
  BY <1>1, <1>3, OneAtATime
<1>5. OperationsOK'
  <2>1. op' \in [Dashboard -> Operation]
    BY <1>1, <1>3 DEF OperationsOK
  <2>2. op'[u].plan # NoPlan /\ lock' = u
    BY <1>2, <1>3
  <2> QED BY <1>1, <1>4, <2>1, <2>2 DEF OperationsOK
<1>6. HistoryOK'
  BY <1>1 DEF HistoryOK
<1>7. PolicyIsKnown'
  BY <1>3, <1>4 DEF IInv, Order, PolicyIsKnown, ChangeSteps
<1>8. Changing(u)' <=> Changing(u)
  BY <1>3 DEF Changing, Executing
<1>9. \A v \in Dashboard \ {u} : ~Changing(v)'
  BY <1>4 DEF Changing, Executing
<1>10. BackedUp'
  BY <1>8, <1>9 DEF IInv, Order, BackedUp
<1>11. SeenOrOwn'
  <2>1. Untouched(u)' = Untouched(u) /\ op'[u].plan = op[u].plan
    BY <1>3 DEF Untouched
  <2>2. ASSUME Changing(u), NEW s \in Untouched(u)
        PROVE  file'[s] \in {op[u].plan.file[s], op[u].plan.policy}
    BY <2>2 DEF IInv, Order, SeenOrOwn
  <2> QED BY <1>8, <1>9, <2>1, <2>2 DEF SeenOrOwn
<1>12. OriginalsAreKept'
  <2>1. CASE Changing(u)
    BY <2>1, <1>8, <1>10 DEF BackedUp, OriginalsAreKept
  <2>2. CASE ~Changing(u)
    BY <2>2 DEF IInv, Order, OriginalsAreKept
  <2> QED BY <2>1, <2>2
<1> QED BY <1>5, <1>6, <1>7, <1>10, <1>11, <1>12 DEF Order

\* A step that ends an operation.
LEMMA EndStep ==
    ASSUME IInv, NEW u \in Dashboard, op[u].at # "idle",
           NEW report \in Reports, Ends(u, report),
           UNCHANGED <<file, backups>>, inForce' \in {inForce, file}
    PROVE  Order'
<1> DEFINE o == [Idle EXCEPT !.report = report]
<1>1. ServicesOK /\ OperationsOK /\ HistoryOK
  BY DEF IInv, Order
<1>2. o \in Operation /\ o.at = "idle"
  BY IdleIsOperation
<1>3. op' = [op EXCEPT ![u] = o] /\ lock' = None
  BY DEF Ends, To
<1> HIDE DEF o
<1>4. op' \in [Dashboard -> Operation]
  BY <1>1, <1>2, <1>3 DEF OperationsOK
<1>5. \A v \in Dashboard : op'[v].at = "idle"
  <2> TAKE v \in Dashboard
  <2>1. CASE v = u
    BY <2>1, <1>1, <1>2, <1>3 DEF OperationsOK
  <2>2. CASE v # u
    BY <2>2, <1>1, <1>3, OneAtATime DEF OperationsOK
  <2> QED BY <2>1, <2>2
<1>6. OperationsOK'
  BY <1>3, <1>4, <1>5 DEF OperationsOK
<1>7. HistoryOK'
  BY <1>1 DEF HistoryOK, ServicesOK
<1>8. PolicyIsKnown' /\ BackedUp' /\ SeenOrOwn'
  BY <1>5 DEF PolicyIsKnown, ChangeSteps, BackedUp, SeenOrOwn, Changing, Executing
<1>9. OriginalsAreKept'
  BY DEF IInv, Order, OriginalsAreKept
<1> QED BY <1>6, <1>7, <1>8, <1>9 DEF Order

\* A step before the lock, or the one that takes it.
LEMMA IdleStep ==
    ASSUME IInv, NEW u \in Dashboard, op[u].at = "idle",
           NEW o \in Operation, To(u, o),
           \/ o.at = "idle" /\ lock' = lock
           \/ o.at = "locked" /\ o.plan # NoPlan /\ lock = None /\ lock' = u,
           UNCHANGED <<file, inForce, backups>>
    PROVE  Order'
<1>1. Order /\ OperationsOK
  BY DEF IInv, Order
<1>2. /\ op' = [op EXCEPT ![u] = o] /\ op'[u] = o
      /\ \A v \in Dashboard \ {u} : op'[v] = op[v]
  BY <1>1 DEF To, OperationsOK
<1>3. OperationsOK'
  <2>1. op' \in [Dashboard -> Operation] /\ lock' \in Dashboard \cup {None}
    BY <1>1, <1>2 DEF OperationsOK
  <2>2. ASSUME NEW v \in Dashboard, op'[v].at # "idle"
        PROVE  lock' = v /\ op'[v].plan # NoPlan
    <3>1. CASE v = u
      BY <3>1, <2>2, <1>2
    <3>2. CASE v # u
      <4>1. op[v].at # "idle" /\ lock = v /\ op[v].plan # NoPlan
        BY <3>2, <2>2, <1>1, <1>2 DEF OperationsOK
      <4>2. lock # None
        BY <4>1, ReconnectConstants
      <4> QED BY <3>2, <4>1, <4>2, <1>2
    <3> QED BY <3>1, <3>2
  <2> QED BY <2>1, <2>2 DEF OperationsOK
<1>4. o.at \notin ChangeSteps /\ ~Changing(u)'
  BY <1>2 DEF ChangeSteps, Changing, Executing
<1>5. PolicyIsKnown'
  BY <1>1, <1>2, <1>4 DEF Order, PolicyIsKnown
<1>6. \A v \in Dashboard \ {u} : /\ Changing(v)' <=> Changing(v)
                                 /\ Untouched(v)' = Untouched(v)
  BY <1>2 DEF Changing, Executing, Untouched
<1>7. BackedUp'
  BY <1>1, <1>4, <1>6 DEF Order, BackedUp
<1>8. SeenOrOwn'
  BY <1>1, <1>2, <1>4, <1>6 DEF Order, SeenOrOwn
<1>9. HistoryOK' /\ OriginalsAreKept'
  BY <1>1 DEF Order, HistoryOK, OriginalsAreKept
<1> QED BY <1>3, <1>5, <1>7, <1>8, <1>9 DEF Order

\* A step of the services, or of those who work with them, that writes no unit.
LEMMA OutsideStep ==
    ASSUME IInv, UNCHANGED <<op, lock, file, inForce, backups>>
    PROVE  Order'
<1>1. OperationsOK' /\ HistoryOK' /\ PolicyIsKnown' /\ OriginalsAreKept'
  BY DEF IInv, Order, OperationsOK, HistoryOK, PolicyIsKnown, OriginalsAreKept
<1>2. \A u \in Dashboard : (Changing(u)' <=> Changing(u)) /\ Untouched(u)' = Untouched(u)
  BY DEF Changing, Executing, Untouched
<1>3. BackedUp'
  BY <1>2 DEF IInv, Order, BackedUp
<1>4. SeenOrOwn'
  BY <1>2 DEF IInv, Order, SeenOrOwn
<1> QED BY <1>1, <1>3, <1>4 DEF Order

-----------------------------------------------------------------------------
(* One lemma per action.                                                   *)

LEMMA SubscribeStep == ASSUME IInv, NEW r \in Resident, Subscribe(r) PROVE IInv'
<1>1. ServicesOK' /\ BoundsOK'
  BY DEF IInv, ServicesOK, BoundsOK, Subscribe, bounds
<1>2. Order'
  BY OutsideStep DEF Subscribe
<1> QED BY <1>1, <1>2 DEF IInv

LEMMA WorkStep == ASSUME IInv, Work PROVE IInv'
<1>1. ServicesOK' /\ BoundsOK'
  BY DEF IInv, ServicesOK, BoundsOK, Work, bounds
<1>2. Order'
  BY OutsideStep DEF Work
<1> QED BY <1>1, <1>2 DEF IInv

LEMMA RestartedStep == ASSUME IInv, NEW s \in Service, Restarted(s) PROVE IInv'
<1>1. known[s] \in Policy \cup {None} /\ Goes(s, known[s])
  BY DEF IInv, ServicesOK, Restarted
<1>2. ServicesOK'
  BY <1>1, GoesTypes DEF IInv, ServicesOK, Restarted
<1>3. BoundsOK'
  BY FailsBounds DEF IInv, Restarted
<1>4. Order'
  BY OutsideStep DEF Restarted
<1> QED BY <1>2, <1>3, <1>4 DEF IInv

LEMMA ApplyStep == ASSUME IInv, Apply PROVE IInv'
<1>1. ServicesOK'
  BY DEF IInv, ServicesOK, Apply, Interrupted
<1>2. BoundsOK'
  BY DEF IInv, BoundsOK, Apply
<1>3. \A u \in Dashboard : op'[u].at = "idle"
  BY ReconnectConstants DEF IInv, Order, OperationsOK, Apply
<1>4. OperationsOK' /\ HistoryOK'
  BY DEF IInv, Order, OperationsOK, HistoryOK, ServicesOK, Apply
<1>5. PolicyIsKnown' /\ BackedUp' /\ SeenOrOwn'
  BY <1>3 DEF PolicyIsKnown, ChangeSteps, BackedUp, SeenOrOwn, Changing, Executing
<1>6. OriginalsAreKept'
  BY DEF OriginalsAreKept, Apply
<1> QED BY <1>1, <1>2, <1>4, <1>5, <1>6 DEF IInv, Order

LEMMA EditStep ==
    ASSUME IInv, NEW s \in Service, NEW p \in Policy, Edit(s, p)
    PROVE  IInv'
<1>1. ServicesOK' /\ BoundsOK'
  BY DEF IInv, ServicesOK, BoundsOK, Edit
<1>2. Order /\ OperationsOK
  BY DEF IInv, Order
<1>3. ASSUME NEW u \in Dashboard
      PROVE  /\ op'[u] \in Operation
             /\ op'[u].at = op[u].at /\ op'[u].plan = op[u].plan
             /\ op'[u].late = IF Executing(u) THEN op[u].late \cup {s} ELSE op[u].late
  <2>1. op[u] \in Operation
    BY <1>2 DEF OperationsOK
  <2>2. op'[u] = IF Executing(u) THEN [op[u] EXCEPT !.late = @ \cup {s}] ELSE op[u]
    BY DEF Edit
  <2> QED BY <2>1, <2>2 DEF Operation
<1>4. op' \in [Dashboard -> Operation]
  BY <1>3 DEF Edit
<1>5. OperationsOK'
  BY <1>2, <1>3, <1>4 DEF OperationsOK, Edit
<1>6. HistoryOK'
  BY DEF IInv, Order, HistoryOK, Edit
<1>7. PolicyIsKnown'
  BY <1>2, <1>3 DEF Order, PolicyIsKnown
<1>8. \A u \in Dashboard : Changing(u)' <=> Changing(u)
  BY <1>3 DEF Changing, Executing
<1>9. (\E u \in Dashboard : Changing(u)) => inForce' = inForce
  BY DEF Edit, Changing
<1>10. BackedUp'
  BY <1>2, <1>8, <1>9 DEF Order, BackedUp, Edit
<1>11. SeenOrOwn'
  <2>1. ASSUME NEW u \in Dashboard, Changing(u)', NEW t \in Untouched(u)'
        PROVE  file'[t] \in {op'[u].plan.file[t], op'[u].plan.policy}
    <3>1. Changing(u) /\ Executing(u)
      BY <2>1, <1>8 DEF Changing
    <3>2. t \in Untouched(u) /\ t # s
      BY <2>1, <3>1, <1>3 DEF Untouched
    <3>3. file'[t] = file[t]
      BY <3>2 DEF Edit, IInv, ServicesOK, Untouched
    <3> QED BY <3>1, <3>2, <3>3, <1>2, <1>3 DEF Order, SeenOrOwn
  <2> QED BY <2>1 DEF SeenOrOwn
<1>12. OriginalsAreKept'
  <2>1. CASE \E u \in Dashboard : Changing(u)
    BY <2>1, <1>8, <1>10 DEF BackedUp, OriginalsAreKept
  <2>2. CASE ~\E u \in Dashboard : Changing(u)
    <3>1. inForce' = [inForce EXCEPT ![s] = p] /\ file' = [file EXCEPT ![s] = p]
      BY <2>2 DEF Edit, Changing
    <3> QED BY <3>1, <1>2 DEF Order, OriginalsAreKept, HistoryOK, IInv, ServicesOK, Edit
  <2> QED BY <2>1, <2>2
<1> QED BY <1>1, <1>5, <1>6, <1>7, <1>10, <1>11, <1>12 DEF IInv, Order

LEMMA OperationOf ==
    ASSUME IInv, NEW u \in Dashboard
    PROVE  /\ op[u] \in Operation
           /\ op[u].at # "idle" => op[u].plan \in Plan
           /\ op[u].at \in ChangeSteps =>
                 /\ op[u].plan.policy # Keep /\ op[u].plan.policy \in Policy
                 /\ op[u].plan.file \in [Service -> Policy]
           /\ op[u].at \in ChangeSteps \ {"prepare"} => Executing(u) /\ Changing(u)
<1>1. op[u] \in Operation /\ (op[u].at # "idle" => op[u].plan # NoPlan)
  BY DEF IInv, Order, OperationsOK
<1>2. op[u].at # "idle" => op[u].plan \in Plan
  BY <1>1 DEF Operation
<1>3. op[u].at \in ChangeSteps => op[u].plan.policy # Keep /\ op[u].at # "idle"
  BY DEF IInv, Order, PolicyIsKnown, ChangeSteps
<1>4. op[u].at \in ChangeSteps =>
         op[u].plan.policy \in Policy /\ op[u].plan.file \in [Service -> Policy]
  BY <1>2, <1>3 DEF Plan
<1>5. op[u].at \in ChangeSteps \ {"prepare"} => Executing(u) /\ Changing(u)
  BY <1>3 DEF Executing, Changing, ChangeSteps
<1> QED BY <1>1, <1>2, <1>3, <1>4, <1>5

LEMMA PreviewStep ==
    ASSUME IInv, NEW u \in Dashboard, NEW p \in Policy \cup {Keep}, Preview(u, p)
    PROVE  IInv'
<1> DEFINE o == [op[u] EXCEPT !.plan = Seen(p)]
<1>1. ServicesOK' /\ BoundsOK'
  BY DEF IInv, ServicesOK, BoundsOK, Preview, OnlyOp, services, bounds
<1>2. Seen(p) \in Plan
  BY DEF IInv, ServicesOK, Seen, Plan
<1>3. o \in Operation /\ o.at = "idle"
  BY <1>2, OperationOf DEF Preview, Operation
<1>4. Order'
  BY <1>3, IdleStep DEF Preview, OnlyOp, services
<1> QED BY <1>1, <1>4 DEF IInv

LEMMA ForgetStep == ASSUME IInv, NEW u \in Dashboard, Forget(u) PROVE IInv'
<1> DEFINE o == [op[u] EXCEPT !.plan = NoPlan]
<1>1. ServicesOK' /\ BoundsOK'
  BY DEF IInv, ServicesOK, BoundsOK, Forget, OnlyOp, services, bounds
<1>2. o \in Operation /\ o.at = "idle"
  BY OperationOf DEF Forget, Operation
<1>3. Order'
  BY <1>2, IdleStep DEF Forget, OnlyOp, services
<1> QED BY <1>1, <1>3 DEF IInv

LEMMA ConfirmStep == ASSUME IInv, NEW u \in Dashboard, Confirm(u) PROVE IInv'
<1>1. ServicesOK'
  BY DEF IInv, ServicesOK, Confirm, services
<1>2. BoundsOK'
  BY DEF IInv, BoundsOK, Confirm
<1>3. CASE Free
  <2> DEFINE o == [op[u] EXCEPT !.at = "locked", !.report = "none"]
  <2>1. o \in Operation /\ o.at = "locked" /\ o.plan # NoPlan
    BY OperationOf DEF Confirm, Operation, Steps, Reports
  <2>2. Order'
    BY <1>3, <2>1, IdleStep DEF Confirm, Free, services
  <2> QED BY <1>1, <1>2, <2>2 DEF IInv
<1>4. CASE ~Free
  <2> DEFINE o == [Idle EXCEPT !.report = "refused"]
  <2>1. o \in Operation /\ o.at = "idle"
    BY IdleIsOperation DEF Reports
  <2>2. To(u, o) /\ lock' = lock
    BY <1>4 DEF Confirm
  <2> HIDE DEF o
  <2>3. Order'
    BY <2>1, <2>2, IdleStep DEF Confirm, services
  <2> QED BY <1>1, <1>2, <2>3 DEF IInv
<1> QED BY <1>3, <1>4

\* A step under the lock that changes only where the operation is, before it
\* touches anything; or that starts an execution.
LEMMA CheckStep == ASSUME IInv, NEW u \in Dashboard, Check(u) PROVE IInv'
<1> DEFINE o == [op[u] EXCEPT !.at = IF op[u].plan.policy = Keep
                                     THEN "restart" ELSE "prepare"]
<1>1. ServicesOK' /\ BoundsOK'
  BY DEF IInv, ServicesOK, BoundsOK, Check, OnlyOp, services, bounds
<1>2. /\ o \in Operation /\ o.plan = op[u].plan
      /\ o.at = IF op[u].plan.policy = Keep THEN "restart" ELSE "prepare"
  BY OperationOf DEF Operation, Steps
<1>3. Order /\ OperationsOK /\ op[u].at = "locked" /\ op[u].plan # NoPlan /\ lock = u
  BY DEF IInv, Order, OperationsOK, Check
<1>4. op' = [op EXCEPT ![u] = o] /\ UNCHANGED <<lock, file, inForce, backups>>
  BY DEF Check, To, OnlyOp, services
<1> HIDE DEF o
<1>5. op'[u] = o /\ \A v \in Dashboard \ {u} : op'[v] = op[v] /\ op[v].at = "idle"
  BY <1>3, <1>4, OneAtATime DEF OperationsOK
<1>6. OperationsOK'
  <2>1. op' \in [Dashboard -> Operation]
    BY <1>2, <1>3, <1>4 DEF OperationsOK
  <2> QED BY <2>1, <1>2, <1>3, <1>4, <1>5 DEF OperationsOK
<1>7. PolicyIsKnown'
  BY <1>2, <1>5 DEF PolicyIsKnown, ChangeSteps
<1>8. \A v \in Dashboard : ~Changing(v)'
  BY <1>2, <1>5 DEF Changing, Executing
<1>9. BackedUp' /\ SeenOrOwn'
  BY <1>8 DEF BackedUp, SeenOrOwn
<1>10. HistoryOK' /\ OriginalsAreKept'
  BY <1>3, <1>4 DEF Order, HistoryOK, OriginalsAreKept
<1> QED BY <1>1, <1>6, <1>7, <1>9, <1>10 DEF IInv, Order

LEMMA RefuseStep == ASSUME IInv, NEW u \in Dashboard, Refuse(u) PROVE IInv'
<1>1. ServicesOK' /\ BoundsOK'
  BY DEF IInv, ServicesOK, BoundsOK, Refuse, OnlyOp, services, bounds
<1>2. Order'
  BY EndStep DEF Refuse, OnlyOp, services, Reports
<1> QED BY <1>1, <1>2 DEF IInv

LEMMA PrepareStep == ASSUME IInv, NEW u \in Dashboard, Prepare(u) PROVE IInv'
<1> DEFINE o == [op[u] EXCEPT !.at = "stop", !.todo = Service]
<1>1. ServicesOK' /\ BoundsOK'
  BY DEF IInv, ServicesOK, BoundsOK, Prepare, services, bounds
<1>2. o \in Operation /\ o.plan = op[u].plan /\ o.at = "stop" /\ o.late = op[u].late
  BY OperationOf DEF Operation, Steps
<1>3. /\ Order /\ OperationsOK /\ op[u].at = "prepare" /\ op[u].plan # NoPlan /\ lock = u
      /\ file = op[u].plan.file
  BY DEF IInv, Order, OperationsOK, Prepare
<1>4. /\ op' = [op EXCEPT ![u] = o] /\ UNCHANGED <<lock, file, inForce>>
      /\ backups' = backups \cup {file}
  BY DEF Prepare, To, services
<1> HIDE DEF o
<1>5. op'[u] = o /\ \A v \in Dashboard \ {u} : op'[v] = op[v] /\ op[v].at = "idle"
  BY <1>3, <1>4, OneAtATime DEF OperationsOK
<1>6. OperationsOK'
  <2>1. op' \in [Dashboard -> Operation]
    BY <1>2, <1>3, <1>4 DEF OperationsOK
  <2> QED BY <2>1, <1>2, <1>3, <1>4, <1>5 DEF OperationsOK
<1>7. PolicyIsKnown'
  BY <1>2, <1>3, <1>5 DEF Order, PolicyIsKnown, ChangeSteps
<1>8. \A s \in Service : \E b \in backups' : b[s] = inForce'[s]
  BY <1>3, <1>4 DEF Order, OriginalsAreKept
<1>9. BackedUp' /\ OriginalsAreKept'
  BY <1>8 DEF BackedUp, OriginalsAreKept
<1>10. SeenOrOwn'
  <2>1. \A v \in Dashboard \ {u} : ~Changing(v)'
    BY <1>5 DEF Changing, Executing
  <2>2. file' = op'[u].plan.file
    BY <1>2, <1>3, <1>4, <1>5
  <2> QED BY <2>1, <2>2 DEF SeenOrOwn
<1>11. HistoryOK'
  BY <1>3, <1>4, <1>1 DEF Order, HistoryOK, ServicesOK
<1> QED BY <1>1, <1>6, <1>7, <1>9, <1>10, <1>11 DEF IInv, Order

LEMMA DieStep == ASSUME IInv, NEW u \in Dashboard, Die(u) PROVE IInv'
<1>1. ServicesOK' /\ BoundsOK'
  BY DEF IInv, ServicesOK, BoundsOK, Die, services
<1>2. Order /\ OperationsOK /\ Idle \in Operation /\ Idle.at = "idle"
  BY IdleIsOperation DEF IInv, Order, Reports
<1>3. /\ op' = [op EXCEPT ![u] = Idle] /\ UNCHANGED <<file, inForce, backups>>
      /\ lock' = IF lock = u THEN None ELSE lock
  BY DEF Die, To, services
<1>4. op'[u] = Idle /\ \A v \in Dashboard \ {u} : op'[v] = op[v]
  BY <1>2, <1>3 DEF OperationsOK
<1>5. OperationsOK'
  <2>1. op' \in [Dashboard -> Operation] /\ lock' \in Dashboard \cup {None}
    BY <1>2, <1>3 DEF OperationsOK
  <2>2. ASSUME NEW v \in Dashboard, op'[v].at # "idle"
        PROVE  lock' = v /\ op'[v].plan # NoPlan
    BY <2>2, <1>2, <1>3, <1>4 DEF OperationsOK
  <2> QED BY <2>1, <2>2 DEF OperationsOK
<1>6. PolicyIsKnown'
  BY <1>2, <1>4 DEF Order, PolicyIsKnown, ChangeSteps
<1>7. /\ ~Changing(u)'
      /\ \A v \in Dashboard \ {u} : (Changing(v)' <=> Changing(v)) /\ Untouched(v)' = Untouched(v)
  BY <1>2, <1>4 DEF Changing, Executing, Untouched
<1>8. BackedUp'
  BY <1>2, <1>3, <1>7 DEF Order, BackedUp
<1>9. SeenOrOwn'
  BY <1>2, <1>3, <1>4, <1>7 DEF Order, SeenOrOwn
<1>10. HistoryOK' /\ OriginalsAreKept'
  BY <1>2, <1>3 DEF Order, HistoryOK, OriginalsAreKept
<1> QED BY <1>1, <1>5, <1>6, <1>8, <1>9, <1>10 DEF IInv, Order

-----------------------------------------------------------------------------
(* The change and its rollback.                                            *)

\* Where an operation goes on: the premises of ExecutionStep about it.
GoesOn(u, o) ==
    /\ o \in Operation /\ o.plan = op[u].plan /\ o.late = op[u].late
    /\ o.at \in (ChangeSteps \ {"prepare"}) \cup {"verify"}

LEMMA ChangeStep ==
    ASSUME IInv, NEW u \in Dashboard, Changing(u),
           NEW o, GoesOn(u, o), To(u, o),
           UNCHANGED <<lock, inForce, backups>>,
           \A s \in Untouched(u) :
              file'[s] \in {file[s], op[u].plan.file[s], op[u].plan.policy}
    PROVE  Order'
<1>1. o \in Operation /\ o.at \in Steps \ {"idle", "locked", "prepare"}
  BY DEF GoesOn, ChangeSteps, Steps
<1>2. Executing(u) /\ op[u].plan.policy # Keep
  BY DEF Changing
<1> QED BY <1>1, <1>2, ExecutionStep DEF GoesOn

LEMMA StillUnderWay ==
    ASSUME IInv, NEW u \in Dashboard, NEW o, GoesOn(u, o), To(u, o)
    PROVE  op'[u] = o /\ op'[u].at # "idle"
<1>1. op'[u] = o
  BY DEF To, IInv, Order, OperationsOK
<1> QED BY <1>1 DEF GoesOn, ChangeSteps

LEMMA AfterGoesOn ==
    ASSUME NEW u \in Dashboard, NEW o, GoesOn(u, o), NEW s \in Service,
           NEW at \in {"write", "reload", "verify", "unwrite", "unreload"}
    PROVE  GoesOn(u, After(o, s, at))
<1>1. o \in Operation /\ at \in Steps
  BY DEF GoesOn, Steps
<1> QED BY <1>1, AfterKeeps DEF GoesOn, ChangeSteps

LEMMA RollBackGoesOn ==
    ASSUME NEW u \in Dashboard, NEW o, GoesOn(u, o)
    PROVE  GoesOn(u, RollBack(o))
  BY RollBackKeeps DEF GoesOn, ChangeSteps

\* The operation itself, and with a mark set on it.
LEMMA OperationGoesOn ==
    ASSUME IInv, NEW u \in Dashboard, op[u].at \in (ChangeSteps \ {"prepare"}) \cup {"verify"}
    PROVE  /\ GoesOn(u, op[u])
           /\ \A s \in Service : GoesOn(u, Attempted(op[u], s))
           /\ \A failed \in BOOLEAN : GoesOn(u, Unless(op[u], failed))
<1>1. op[u] \in Operation
  BY OperationOf
<1> QED BY <1>1, AttemptedKeeps, UnlessKeeps DEF GoesOn

LEMMA StopStep ==
    ASSUME IInv, NEW u \in Dashboard, NEW s \in Service, Stop(u, s)
    PROVE  IInv' /\ op'[u].at # "idle"
<1>1. op[u].at = "stop" /\ Changing(u)
  BY OperationOf DEF Stop, ChangeSteps
<1>2. ServicesOK'
  <2>1. /\ run' \in [Service -> Policy \cup {None}]
        /\ pid' \in Nat /\ loaded' \subseteq Resident
        /\ working' \in {"idle", "queued", "active"}
    BY GoesTypes DEF IInv, Stop
  <2> QED BY <2>1 DEF IInv, ServicesOK, Stop
<1>3. BoundsOK'
  BY FailsBounds DEF IInv, Stop
<1>4. PICK o : GoesOn(u, o) /\ To(u, o)
  <2>1. GoesOn(u, op[u]) /\ (\A t \in Service : GoesOn(u, Attempted(op[u], t)))
        /\ (\A failed \in BOOLEAN : GoesOn(u, Unless(op[u], failed)))
    BY <1>1, OperationGoesOn DEF ChangeSteps
  <2> QED BY <2>1, AfterGoesOn DEF Stop
<1>5. UNCHANGED <<lock, inForce, backups>>
  BY DEF Stop
<1>6. \A s_1 \in Untouched(u) :
         file'[s_1] \in {file[s_1], op[u].plan.file[s_1], op[u].plan.policy}
  BY DEF Stop
<1>7. Order'
  BY <1>1, <1>4, <1>5, <1>6, ChangeStep
<1>8. op'[u].at # "idle"
  BY <1>4, StillUnderWay
<1> QED BY <1>2, <1>3, <1>7, <1>8 DEF IInv

LEMMA StopFailsStep ==
    ASSUME IInv, NEW u \in Dashboard, NEW s \in Service, StopFails(u, s)
    PROVE  IInv' /\ op'[u].at # "idle"
<1>1. op[u].at = "stop" /\ Changing(u)
  BY OperationOf DEF StopFails, ChangeSteps
<1>2. ServicesOK'
  <2>1. /\ run' \in [Service -> Policy \cup {None}]
        /\ pid' \in Nat /\ loaded' \subseteq Resident
        /\ working' \in {"idle", "queued", "active"}
    BY GoesTypes, StaysTypes DEF IInv, StopFails
  <2> QED BY <2>1 DEF IInv, ServicesOK, StopFails
<1>3. BoundsOK'
  BY FailsBounds DEF IInv, StopFails
<1>4. PICK o : GoesOn(u, o) /\ To(u, o)
  <2>1. GoesOn(u, op[u]) /\ (\A t \in Service : GoesOn(u, Attempted(op[u], t)))
        /\ (\A failed \in BOOLEAN : GoesOn(u, Unless(op[u], failed)))
    BY <1>1, OperationGoesOn DEF ChangeSteps
  <2> QED BY <2>1, RollBackGoesOn DEF StopFails
<1>5. UNCHANGED <<lock, inForce, backups>>
  BY DEF StopFails
<1>6. \A s_1 \in Untouched(u) :
         file'[s_1] \in {file[s_1], op[u].plan.file[s_1], op[u].plan.policy}
  BY DEF StopFails
<1>7. Order'
  BY <1>1, <1>4, <1>5, <1>6, ChangeStep
<1>8. op'[u].at # "idle"
  BY <1>4, StillUnderWay
<1> QED BY <1>2, <1>3, <1>7, <1>8 DEF IInv

LEMMA WriteStep ==
    ASSUME IInv, NEW u \in Dashboard, NEW s \in Service, Write(u, s)
    PROVE  IInv' /\ op'[u].at # "idle"
<1>1. op[u].at = "write" /\ Changing(u)
  BY OperationOf DEF Write, ChangeSteps
<1>2. ServicesOK'
  <2>1. file' = [file EXCEPT ![s] = op[u].plan.policy] /\ op[u].plan.policy \in Policy /\ op[u].plan.file \in [Service -> Policy]
    BY <1>1, OperationOf DEF Write, ChangeSteps
  <2> QED BY <2>1 DEF IInv, ServicesOK, Write
<1>3. BoundsOK'
  BY FailsBounds DEF IInv, Write
<1>4. PICK o : GoesOn(u, o) /\ To(u, o)
  <2>1. GoesOn(u, op[u]) /\ (\A t \in Service : GoesOn(u, Attempted(op[u], t)))
        /\ (\A failed \in BOOLEAN : GoesOn(u, Unless(op[u], failed)))
    BY <1>1, OperationGoesOn DEF ChangeSteps
  <2> QED BY <2>1, AfterGoesOn DEF Write
<1>5. UNCHANGED <<lock, inForce, backups>>
  BY DEF Write
<1>6. \A s_1 \in Untouched(u) :
         file'[s_1] \in {file[s_1], op[u].plan.file[s_1], op[u].plan.policy}
  BY DEF Write, IInv, ServicesOK, Untouched
<1>7. Order'
  BY <1>1, <1>4, <1>5, <1>6, ChangeStep
<1>8. op'[u].at # "idle"
  BY <1>4, StillUnderWay
<1> QED BY <1>2, <1>3, <1>7, <1>8 DEF IInv

LEMMA WriteFailsStep ==
    ASSUME IInv, NEW u \in Dashboard, NEW s \in Service, WriteFails(u, s)
    PROVE  IInv' /\ op'[u].at # "idle"
<1>1. op[u].at = "write" /\ Changing(u)
  BY OperationOf DEF WriteFails, ChangeSteps
<1>2. ServicesOK'
  <2>1. file' \in {file, [file EXCEPT ![s] = op[u].plan.policy]} /\ op[u].plan.policy \in Policy /\ op[u].plan.file \in [Service -> Policy]
    BY <1>1, OperationOf DEF WriteFails, ChangeSteps
  <2> QED BY <2>1 DEF IInv, ServicesOK, WriteFails
<1>3. BoundsOK'
  BY FailsBounds DEF IInv, WriteFails
<1>4. PICK o : GoesOn(u, o) /\ To(u, o)
  <2>1. GoesOn(u, op[u]) /\ (\A t \in Service : GoesOn(u, Attempted(op[u], t)))
        /\ (\A failed \in BOOLEAN : GoesOn(u, Unless(op[u], failed)))
    BY <1>1, OperationGoesOn DEF ChangeSteps
  <2> QED BY <2>1, RollBackGoesOn DEF WriteFails
<1>5. UNCHANGED <<lock, inForce, backups>>
  BY DEF WriteFails
<1>6. \A s_1 \in Untouched(u) :
         file'[s_1] \in {file[s_1], op[u].plan.file[s_1], op[u].plan.policy}
  BY DEF WriteFails, IInv, ServicesOK, Untouched
<1>7. Order'
  BY <1>1, <1>4, <1>5, <1>6, ChangeStep
<1>8. op'[u].at # "idle"
  BY <1>4, StillUnderWay
<1> QED BY <1>2, <1>3, <1>7, <1>8 DEF IInv

LEMMA ReloadStep ==
    ASSUME IInv, NEW u \in Dashboard, Reload(u)
    PROVE  IInv' /\ op'[u].at # "idle"
<1>1. op[u].at = "reload" /\ Changing(u)
  BY OperationOf DEF Reload, ChangeSteps
<1>2. ServicesOK'
  BY DEF IInv, ServicesOK, Reload
<1>3. BoundsOK'
  BY FailsBounds DEF IInv, Reload
<1>4. PICK o : GoesOn(u, o) /\ To(u, o)
  <2>1. GoesOn(u, op[u]) /\ (\A t \in Service : GoesOn(u, Attempted(op[u], t)))
        /\ (\A failed \in BOOLEAN : GoesOn(u, Unless(op[u], failed)))
    BY <1>1, OperationGoesOn DEF ChangeSteps
  <2>2. GoesOn(u, [op[u] EXCEPT !.at = "start"])
    BY <2>1 DEF GoesOn, Operation, ChangeSteps, Steps
  <2> QED BY <2>2 DEF Reload
<1>5. UNCHANGED <<lock, inForce, backups>>
  BY DEF Reload
<1>6. \A s_1 \in Untouched(u) :
         file'[s_1] \in {file[s_1], op[u].plan.file[s_1], op[u].plan.policy}
  BY DEF Reload
<1>7. Order'
  BY <1>1, <1>4, <1>5, <1>6, ChangeStep
<1>8. op'[u].at # "idle"
  BY <1>4, StillUnderWay
<1> QED BY <1>2, <1>3, <1>7, <1>8 DEF IInv

LEMMA ReloadFailsStep ==
    ASSUME IInv, NEW u \in Dashboard, ReloadFails(u)
    PROVE  IInv' /\ op'[u].at # "idle"
<1>1. op[u].at = "reload" /\ Changing(u)
  BY OperationOf DEF ReloadFails, ChangeSteps
<1>2. ServicesOK'
  BY DEF IInv, ServicesOK, ReloadFails
<1>3. BoundsOK'
  BY FailsBounds DEF IInv, ReloadFails
<1>4. PICK o : GoesOn(u, o) /\ To(u, o)
  <2>1. GoesOn(u, op[u]) /\ (\A t \in Service : GoesOn(u, Attempted(op[u], t)))
        /\ (\A failed \in BOOLEAN : GoesOn(u, Unless(op[u], failed)))
    BY <1>1, OperationGoesOn DEF ChangeSteps
  <2> QED BY <2>1, RollBackGoesOn DEF ReloadFails
<1>5. UNCHANGED <<lock, inForce, backups>>
  BY DEF ReloadFails
<1>6. \A s_1 \in Untouched(u) :
         file'[s_1] \in {file[s_1], op[u].plan.file[s_1], op[u].plan.policy}
  BY DEF ReloadFails
<1>7. Order'
  BY <1>1, <1>4, <1>5, <1>6, ChangeStep
<1>8. op'[u].at # "idle"
  BY <1>4, StillUnderWay
<1> QED BY <1>2, <1>3, <1>7, <1>8 DEF IInv

LEMMA StartStep ==
    ASSUME IInv, NEW u \in Dashboard, NEW s \in Service, Start(u, s)
    PROVE  IInv' /\ op'[u].at # "idle"
<1>1. op[u].at = "start" /\ Changing(u)
  BY OperationOf DEF Start, ChangeSteps
<1>2. ServicesOK'
  <2>1. /\ run' \in [Service -> Policy \cup {None}]
        /\ pid' \in Nat /\ loaded' \subseteq Resident
        /\ working' \in {"idle", "queued", "active"}
    BY UpTypes DEF IInv, Start
  <2> QED BY <2>1 DEF IInv, ServicesOK, Start
<1>3. BoundsOK'
  BY FailsBounds DEF IInv, Start
<1>4. PICK o : GoesOn(u, o) /\ To(u, o)
  <2>1. GoesOn(u, op[u]) /\ (\A t \in Service : GoesOn(u, Attempted(op[u], t)))
        /\ (\A failed \in BOOLEAN : GoesOn(u, Unless(op[u], failed)))
    BY <1>1, OperationGoesOn DEF ChangeSteps
  <2> QED BY <2>1, AfterGoesOn, RollBackGoesOn DEF Start
<1>5. UNCHANGED <<lock, inForce, backups>>
  BY DEF Start
<1>6. \A s_1 \in Untouched(u) :
         file'[s_1] \in {file[s_1], op[u].plan.file[s_1], op[u].plan.policy}
  BY DEF Start
<1>7. Order'
  BY <1>1, <1>4, <1>5, <1>6, ChangeStep
<1>8. op'[u].at # "idle"
  BY <1>4, StillUnderWay
<1> QED BY <1>2, <1>3, <1>7, <1>8 DEF IInv

LEMMA StartFailsStep ==
    ASSUME IInv, NEW u \in Dashboard, NEW s \in Service, StartFails(u, s)
    PROVE  IInv' /\ op'[u].at # "idle"
<1>1. op[u].at = "start" /\ Changing(u)
  BY OperationOf DEF StartFails, ChangeSteps
<1>2. ServicesOK'
  <2>1. /\ run' \in [Service -> Policy \cup {None}]
        /\ pid' \in Nat /\ loaded' \subseteq Resident
        /\ working' \in {"idle", "queued", "active"}
    BY UpTypes, StaysTypes DEF IInv, StartFails
  <2> QED BY <2>1 DEF IInv, ServicesOK, StartFails
<1>3. BoundsOK'
  BY FailsBounds DEF IInv, StartFails
<1>4. PICK o : GoesOn(u, o) /\ To(u, o)
  <2>1. GoesOn(u, op[u]) /\ (\A t \in Service : GoesOn(u, Attempted(op[u], t)))
        /\ (\A failed \in BOOLEAN : GoesOn(u, Unless(op[u], failed)))
    BY <1>1, OperationGoesOn DEF ChangeSteps
  <2> QED BY <2>1, RollBackGoesOn DEF StartFails
<1>5. UNCHANGED <<lock, inForce, backups>>
  BY DEF StartFails
<1>6. \A s_1 \in Untouched(u) :
         file'[s_1] \in {file[s_1], op[u].plan.file[s_1], op[u].plan.policy}
  BY DEF StartFails
<1>7. Order'
  BY <1>1, <1>4, <1>5, <1>6, ChangeStep
<1>8. op'[u].at # "idle"
  BY <1>4, StillUnderWay
<1> QED BY <1>2, <1>3, <1>7, <1>8 DEF IInv

LEMMA UnstopStep ==
    ASSUME IInv, NEW u \in Dashboard, NEW s \in Service, Unstop(u, s)
    PROVE  IInv' /\ op'[u].at # "idle"
<1>1. op[u].at = "unstop" /\ Changing(u)
  BY OperationOf DEF Unstop, ChangeSteps
<1>2. ServicesOK'
  <2>1. /\ run' \in [Service -> Policy \cup {None}]
        /\ pid' \in Nat /\ loaded' \subseteq Resident
        /\ working' \in {"idle", "queued", "active"}
    BY GoesTypes DEF IInv, Unstop
  <2> QED BY <2>1 DEF IInv, ServicesOK, Unstop
<1>3. BoundsOK'
  BY FailsBounds DEF IInv, Unstop
<1>4. PICK o : GoesOn(u, o) /\ To(u, o)
  <2>1. GoesOn(u, op[u]) /\ (\A t \in Service : GoesOn(u, Attempted(op[u], t)))
        /\ (\A failed \in BOOLEAN : GoesOn(u, Unless(op[u], failed)))
    BY <1>1, OperationGoesOn DEF ChangeSteps
  <2>2. PICK failed \in {FALSE, run[s] = None} : To(u, After(Unless(op[u], failed), s, "unwrite"))
    BY DEF Unstop
  <2>3. GoesOn(u, Unless(op[u], failed))
    BY <2>1
  <2> QED BY <2>2, <2>3, AfterGoesOn
<1>5. UNCHANGED <<lock, inForce, backups>>
  BY DEF Unstop
<1>6. \A s_1 \in Untouched(u) :
         file'[s_1] \in {file[s_1], op[u].plan.file[s_1], op[u].plan.policy}
  BY DEF Unstop
<1>7. Order'
  BY <1>1, <1>4, <1>5, <1>6, ChangeStep
<1>8. op'[u].at # "idle"
  BY <1>4, StillUnderWay
<1> QED BY <1>2, <1>3, <1>7, <1>8 DEF IInv

LEMMA UnstopFailsStep ==
    ASSUME IInv, NEW u \in Dashboard, NEW s \in Service, UnstopFails(u, s)
    PROVE  IInv' /\ op'[u].at # "idle"
<1>1. op[u].at = "unstop" /\ Changing(u)
  BY OperationOf DEF UnstopFails, ChangeSteps
<1>2. ServicesOK'
  <2>1. /\ run' \in [Service -> Policy \cup {None}]
        /\ pid' \in Nat /\ loaded' \subseteq Resident
        /\ working' \in {"idle", "queued", "active"}
    BY GoesTypes, StaysTypes DEF IInv, UnstopFails
  <2> QED BY <2>1 DEF IInv, ServicesOK, UnstopFails
<1>3. BoundsOK'
  BY FailsBounds DEF IInv, UnstopFails
<1>4. PICK o : GoesOn(u, o) /\ To(u, o)
  <2>1. GoesOn(u, op[u]) /\ (\A t \in Service : GoesOn(u, Attempted(op[u], t)))
        /\ (\A failed \in BOOLEAN : GoesOn(u, Unless(op[u], failed)))
    BY <1>1, OperationGoesOn DEF ChangeSteps
  <2> QED BY <2>1, AfterGoesOn DEF UnstopFails
<1>5. UNCHANGED <<lock, inForce, backups>>
  BY DEF UnstopFails
<1>6. \A s_1 \in Untouched(u) :
         file'[s_1] \in {file[s_1], op[u].plan.file[s_1], op[u].plan.policy}
  BY DEF UnstopFails
<1>7. Order'
  BY <1>1, <1>4, <1>5, <1>6, ChangeStep
<1>8. op'[u].at # "idle"
  BY <1>4, StillUnderWay
<1> QED BY <1>2, <1>3, <1>7, <1>8 DEF IInv

LEMMA UnwriteStep ==
    ASSUME IInv, NEW u \in Dashboard, NEW s \in Service, Unwrite(u, s)
    PROVE  IInv' /\ op'[u].at # "idle"
<1>1. op[u].at = "unwrite" /\ Changing(u)
  BY OperationOf DEF Unwrite, ChangeSteps
<1>2. ServicesOK'
  <2>1. file' = [file EXCEPT ![s] = op[u].plan.file[s]] /\ op[u].plan.policy \in Policy /\ op[u].plan.file \in [Service -> Policy]
    BY <1>1, OperationOf DEF Unwrite, ChangeSteps
  <2> QED BY <2>1 DEF IInv, ServicesOK, Unwrite
<1>3. BoundsOK'
  BY FailsBounds DEF IInv, Unwrite
<1>4. PICK o : GoesOn(u, o) /\ To(u, o)
  <2>1. GoesOn(u, op[u]) /\ (\A t \in Service : GoesOn(u, Attempted(op[u], t)))
        /\ (\A failed \in BOOLEAN : GoesOn(u, Unless(op[u], failed)))
    BY <1>1, OperationGoesOn DEF ChangeSteps
  <2> QED BY <2>1, AfterGoesOn DEF Unwrite
<1>5. UNCHANGED <<lock, inForce, backups>>
  BY DEF Unwrite
<1>6. \A s_1 \in Untouched(u) :
         file'[s_1] \in {file[s_1], op[u].plan.file[s_1], op[u].plan.policy}
  BY DEF Unwrite, IInv, ServicesOK, Untouched
<1>7. Order'
  BY <1>1, <1>4, <1>5, <1>6, ChangeStep
<1>8. op'[u].at # "idle"
  BY <1>4, StillUnderWay
<1> QED BY <1>2, <1>3, <1>7, <1>8 DEF IInv

LEMMA UnwriteFailsStep ==
    ASSUME IInv, NEW u \in Dashboard, NEW s \in Service, UnwriteFails(u, s)
    PROVE  IInv' /\ op'[u].at # "idle"
<1>1. op[u].at = "unwrite" /\ Changing(u)
  BY OperationOf DEF UnwriteFails, ChangeSteps
<1>2. ServicesOK'
  <2>1. file' \in {file, [file EXCEPT ![s] = op[u].plan.file[s]]} /\ op[u].plan.policy \in Policy /\ op[u].plan.file \in [Service -> Policy]
    BY <1>1, OperationOf DEF UnwriteFails, ChangeSteps
  <2> QED BY <2>1 DEF IInv, ServicesOK, UnwriteFails
<1>3. BoundsOK'
  BY FailsBounds DEF IInv, UnwriteFails
<1>4. PICK o : GoesOn(u, o) /\ To(u, o)
  <2>1. GoesOn(u, op[u]) /\ (\A t \in Service : GoesOn(u, Attempted(op[u], t)))
        /\ (\A failed \in BOOLEAN : GoesOn(u, Unless(op[u], failed)))
    BY <1>1, OperationGoesOn DEF ChangeSteps
  <2> QED BY <2>1, AfterGoesOn DEF UnwriteFails
<1>5. UNCHANGED <<lock, inForce, backups>>
  BY DEF UnwriteFails
<1>6. \A s_1 \in Untouched(u) :
         file'[s_1] \in {file[s_1], op[u].plan.file[s_1], op[u].plan.policy}
  BY DEF UnwriteFails, IInv, ServicesOK, Untouched
<1>7. Order'
  BY <1>1, <1>4, <1>5, <1>6, ChangeStep
<1>8. op'[u].at # "idle"
  BY <1>4, StillUnderWay
<1> QED BY <1>2, <1>3, <1>7, <1>8 DEF IInv

LEMMA UnreloadStep ==
    ASSUME IInv, NEW u \in Dashboard, NEW failed \in BOOLEAN, Unreload(u, failed)
    PROVE  IInv' /\ op'[u].at # "idle"
<1>1. op[u].at = "unreload" /\ Changing(u)
  BY OperationOf DEF Unreload, ChangeSteps
<1>2. ServicesOK'
  BY DEF IInv, ServicesOK, Unreload
<1>3. BoundsOK'
  BY FailsBounds DEF IInv, Unreload
<1>4. PICK o : GoesOn(u, o) /\ To(u, o)
  <2>1. GoesOn(u, op[u]) /\ (\A t \in Service : GoesOn(u, Attempted(op[u], t)))
        /\ (\A lost \in BOOLEAN : GoesOn(u, Unless(op[u], lost)))
    BY <1>1, OperationGoesOn DEF ChangeSteps
  <2>2. GoesOn(u, Unless(op[u], failed)) /\ op[u] \in Operation
    BY <2>1, OperationOf
  <2>3. GoesOn(u, [Unless(op[u], failed) EXCEPT !.at = "unstart", !.todo = op[u].stopped])
    BY <2>2 DEF GoesOn, Operation, ChangeSteps, Steps
  <2> QED BY <2>3 DEF Unreload
<1>5. UNCHANGED <<lock, inForce, backups>>
  BY DEF Unreload
<1>6. \A s_1 \in Untouched(u) :
         file'[s_1] \in {file[s_1], op[u].plan.file[s_1], op[u].plan.policy}
  BY DEF Unreload
<1>7. Order'
  BY <1>1, <1>4, <1>5, <1>6, ChangeStep
<1>8. op'[u].at # "idle"
  BY <1>4, StillUnderWay
<1> QED BY <1>2, <1>3, <1>7, <1>8 DEF IInv

LEMMA RestartedOrEndsStep ==
    ASSUME IInv, NEW u \in Dashboard, op[u].at = "unstart",
           NEW s \in Service, NEW failed \in BOOLEAN, RestartedOrEnds(u, s, failed),
           UNCHANGED <<file, backups, inForce>>
    PROVE  Order'
<1> DEFINE o == Unless(op[u], failed)
<1>1. /\ Changing(u) /\ GoesOn(u, o) /\ o.at = "unstart"
  <2>1. op[u] \in Operation /\ Changing(u)
    BY OperationOf DEF ChangeSteps
  <2>2. GoesOn(u, o)
    BY OperationGoesOn DEF ChangeSteps
  <2> QED BY <2>1, <2>2, UnlessKeeps
<1>2. CASE o.todo = {s}
  <2>1. PICK report \in {"completed", "incomplete"} : Ends(u, report)
    BY <1>2 DEF RestartedOrEnds
  <2> QED BY <2>1, EndStep DEF Reports
<1>3. CASE o.todo # {s}
  <2> DEFINE p == [o EXCEPT !.todo = @ \ {s}]
  <2>1. To(u, p) /\ UNCHANGED lock
    BY <1>3 DEF RestartedOrEnds
  <2>2. GoesOn(u, p)
    <3> HIDE DEF o
    <3> QED BY <1>1 DEF GoesOn, Operation
  <2> HIDE DEF p
  <2> QED BY <1>1, <2>1, <2>2, ChangeStep
<1> QED BY <1>2, <1>3

LEMMA UnstartStep ==
    ASSUME IInv, NEW u \in Dashboard, NEW s \in Service, Unstart(u, s)
    PROVE  IInv'
<1>1. ServicesOK'
  <2>1. /\ run' \in [Service -> Policy \cup {None}]
        /\ pid' \in Nat /\ loaded' \subseteq Resident
        /\ working' \in {"idle", "queued", "active"}
    BY UpTypes DEF IInv, Unstart
  <2> QED BY <2>1 DEF IInv, ServicesOK, Unstart
<1>2. BoundsOK'
  BY FailsBounds DEF IInv, Unstart
<1>3. Order'
  <2>1. PICK failed \in BOOLEAN : RestartedOrEnds(u, s, failed)
    BY DEF Unstart
  <2> QED BY <2>1, RestartedOrEndsStep DEF Unstart
<1> QED BY <1>1, <1>2, <1>3 DEF IInv

LEMMA UnstartFailsStep ==
    ASSUME IInv, NEW u \in Dashboard, NEW s \in Service, UnstartFails(u, s)
    PROVE  IInv'
<1>1. ServicesOK'
  <2>1. /\ run' \in [Service -> Policy \cup {None}]
        /\ pid' \in Nat /\ loaded' \subseteq Resident
        /\ working' \in {"idle", "queued", "active"}
    BY UpTypes, StaysTypes DEF IInv, UnstartFails
  <2> QED BY <2>1 DEF IInv, ServicesOK, UnstartFails
<1>2. BoundsOK'
  BY FailsBounds DEF IInv, UnstartFails
<1>3. Order'
  BY RestartedOrEndsStep DEF UnstartFails
<1> QED BY <1>1, <1>2, <1>3 DEF IInv

-----------------------------------------------------------------------------
(* Restart and verification.                                               *)

LEMMA VerifyStep == ASSUME IInv, NEW u \in Dashboard, Verify(u) PROVE IInv'
<1>1. ServicesOK' /\ BoundsOK'
  BY DEF IInv, ServicesOK, BoundsOK, Verify, services, bounds
<1>2. PICK report \in Reports : Ends(u, report)
  BY DEF Verify, Reports
<1>3. op[u].at # "idle" /\ UNCHANGED <<file, backups>> /\ inForce' \in {inForce, file}
  BY DEF Verify, services
<1>4. Order'
  BY <1>2, <1>3, EndStep
<1> QED BY <1>1, <1>4 DEF IInv

LEMMA VerifyFailsStep == ASSUME IInv, NEW u \in Dashboard, VerifyFails(u) PROVE IInv'
<1>1. ServicesOK' /\ BoundsOK'
  BY DEF IInv, ServicesOK, BoundsOK, VerifyFails, services, bounds
<1>2. op[u].at = "verify" /\ UNCHANGED <<file, backups, inForce>>
  BY DEF VerifyFails, services
<1>3. CASE op[u].plan.policy = Keep
  <2>1. Ends(u, "unverified")
    BY <1>3 DEF VerifyFails
  <2>2. Order'
    BY <1>2, <2>1, EndStep DEF Reports
  <2> QED BY <1>1, <2>2 DEF IInv
<1>4. CASE op[u].plan.policy # Keep
  <2>1. Changing(u)
    BY <1>2, <1>4 DEF Changing, Executing
  <2>2. GoesOn(u, RollBack(op[u]))
    BY <1>2, OperationGoesOn, RollBackGoesOn
  <2>3. To(u, RollBack(op[u])) /\ UNCHANGED lock
    BY <1>4 DEF VerifyFails
  <2>4. Order'
    BY <1>2, <2>1, <2>2, <2>3, ChangeStep
  <2> QED BY <1>1, <2>4 DEF IInv
<1> QED BY <1>3, <1>4

LEMMA RestartStep == ASSUME IInv, NEW u \in Dashboard, Restart(u) PROVE IInv'
<1> DEFINE o == [op[u] EXCEPT !.at = "verify"]
<1>1. ServicesOK'
  <2>1. known[Owner] \in Policy \cup {None} /\ Owner \in Service
    BY OwnerIsService DEF IInv, ServicesOK
  <2>2. \/ \E with \in Policy \cup {None} : Goes(Owner, with)
        \/ Stays
    BY <2>1 DEF Restart
  <2>3. /\ run' \in [Service -> Policy \cup {None}]
        /\ pid' \in Nat /\ loaded' \subseteq Resident
        /\ working' \in {"idle", "queued", "active"}
    BY <2>1, <2>2, GoesTypes, StaysTypes DEF IInv
  <2> QED BY <2>3 DEF IInv, ServicesOK, Restart
<1>2. BoundsOK'
  BY FailsBounds DEF IInv, Restart
<1>3. /\ op[u].at = "restart" /\ Executing(u) /\ To(u, o)
      /\ UNCHANGED <<lock, file, inForce, backups>>
  BY DEF Restart, Executing
<1>4. o \in Operation /\ o.plan = op[u].plan /\ o.late = op[u].late /\ o.at = "verify"
  BY OperationOf DEF Operation, Steps
<1> HIDE DEF o
<1>5. o.at \in Steps \ {"idle", "locked", "prepare"} /\ o.at \notin ChangeSteps
  BY <1>4 DEF Steps, ChangeSteps
<1>6. Order'
  BY <1>3, <1>4, <1>5, ExecutionStep
<1> QED BY <1>1, <1>2, <1>6 DEF IInv

-----------------------------------------------------------------------------
(* The theorems.                                                           *)

LEMMA InitInv == Init => IInv
<1> SUFFICES ASSUME Init PROVE IInv
  OBVIOUS
<1>1. PICK p \in Policy : file = [s \in Service |-> p] /\ inForce = file
  BY DEF Init
<1>2. ServicesOK
  BY <1>1 DEF Init, ServicesOK
<1>3. BoundsOK
  BY DEF Init, BoundsOK
<1>4. Idle \in Operation /\ Idle.at = "idle"
  BY IdleIsOperation DEF Reports
<1>5. \A u \in Dashboard : op[u].at = "idle"
  BY <1>4 DEF Init
<1>6. OperationsOK
  BY <1>4, <1>5 DEF Init, OperationsOK
<1>7. PolicyIsKnown /\ BackedUp /\ SeenOrOwn
  BY <1>5 DEF PolicyIsKnown, ChangeSteps, BackedUp, SeenOrOwn, Changing, Executing
<1>8. HistoryOK /\ OriginalsAreKept
  BY <1>1 DEF Init, HistoryOK, OriginalsAreKept
<1> QED BY <1>2, <1>3, <1>6, <1>7, <1>8 DEF IInv, Order

LEMMA StutterInv == IInv /\ UNCHANGED vars => IInv'
<1> SUFFICES ASSUME IInv, UNCHANGED vars PROVE IInv'
  OBVIOUS
<1>1. ServicesOK' /\ BoundsOK'
  BY DEF IInv, ServicesOK, BoundsOK, vars, services, bounds
<1>2. Order'
  BY OutsideStep DEF vars, services
<1> QED BY <1>1, <1>2 DEF IInv

LEMMA ExecuteInv == ASSUME IInv, NEW u \in Dashboard, Execute(u) PROVE IInv'
<1>1. CASE Check(u) \/ Refuse(u) \/ Restart(u) \/ Verify(u) \/ VerifyFails(u)
  BY <1>1, CheckStep, RefuseStep, RestartStep, VerifyStep, VerifyFailsStep
<1>2. CASE Change(u)
  <2>1. CASE Prepare(u) \/ Reload(u) \/ ReloadFails(u)
    BY <2>1, PrepareStep, ReloadStep, ReloadFailsStep
  <2>2. CASE \E s \in Service : Stop(u, s) \/ StopFails(u, s) \/ Write(u, s)
    BY <2>2, StopStep, StopFailsStep, WriteStep
  <2>3. CASE \E s \in Service : WriteFails(u, s) \/ Start(u, s) \/ StartFails(u, s)
    BY <2>3, WriteFailsStep, StartStep, StartFailsStep
  <2> QED BY <1>2, <2>1, <2>2, <2>3 DEF Change
<1>3. CASE Undo(u)
  <2>1. CASE \E failed \in BOOLEAN : Unreload(u, failed)
    BY <2>1, UnreloadStep
  <2>2. CASE \E s \in Service : Unstop(u, s) \/ UnstopFails(u, s) \/ Unwrite(u, s)
    BY <2>2, UnstopStep, UnstopFailsStep, UnwriteStep
  <2>3. CASE \E s \in Service : UnwriteFails(u, s) \/ Unstart(u, s) \/ UnstartFails(u, s)
    BY <2>3, UnwriteFailsStep, UnstartStep, UnstartFailsStep
  <2> QED BY <1>3, <2>1, <2>2, <2>3 DEF Undo
<1> QED BY <1>1, <1>2, <1>3 DEF Execute

LEMMA NextInv == IInv /\ [Next]_vars => IInv'
<1> SUFFICES ASSUME IInv, Next PROVE IInv'
  BY StutterInv
<1>1. ASSUME NEW u \in Dashboard, NEW p \in Policy \cup {Keep}, Preview(u, p) PROVE IInv'
  BY <1>1, PreviewStep
<1>2. ASSUME NEW u \in Dashboard, Forget(u) \/ Confirm(u) \/ Die(u) PROVE IInv'
  BY <1>2, ForgetStep, ConfirmStep, DieStep
<1>3. ASSUME NEW u \in Dashboard, Execute(u) PROVE IInv'
  BY <1>3, ExecuteInv
<1>4. ASSUME NEW s \in Service, NEW p \in Policy, Edit(s, p) PROVE IInv'
  BY <1>4, EditStep
<1>5. ASSUME NEW s \in Service, Restarted(s) PROVE IInv'
  BY <1>5, RestartedStep
<1>6. ASSUME NEW r \in Resident, Subscribe(r) PROVE IInv'
  BY <1>6, SubscribeStep
<1>7. ASSUME Work \/ Apply PROVE IInv'
  BY <1>7, WorkStep, ApplyStep
<1> QED BY <1>1, <1>2, <1>3, <1>4, <1>5, <1>6, <1>7 DEF Next

\* The inductive invariant.
THEOREM Invariant == Spec => []IInv
  BY InitInv, NextInv, PTL DEF Spec

\* The types, and one dashboard at a time past the lock.
THEOREM TypeCorrect == Spec => []TypeOK
<1>1. IInv => TypeOK
  BY TypeParts DEF IInv, Order
<1> QED BY <1>1, Invariant, PTL

\* The permissions last set by hand, or last reported changed, stay in a unit
\* file or in a backup, whatever fails or dies.
THEOREM OriginalsStay == Spec => []OriginalsAreKept
<1>1. IInv => OriginalsAreKept
  BY DEF IInv, Order
<1> QED BY <1>1, Invariant, PTL

\* Who writes units: the user, and the dashboard that executes a change.
Writes(u) == \E s \in Service : \/ Write(u, s) \/ WriteFails(u, s)
                               \/ Unwrite(u, s) \/ UnwriteFails(u, s)

LEMMA Writers ==
    ASSUME [Next]_vars
    PROVE  \/ file' = file
           \/ \E s \in Service, p \in Policy : Edit(s, p)
           \/ \E u \in Dashboard : Writes(u)
<1>1. CASE UNCHANGED vars
  BY <1>1 DEF vars, services
<1>2. CASE Work \/ Apply \/ \E r \in Resident : Subscribe(r)
  BY <1>2 DEF Work, Apply, Subscribe
<1>3. ASSUME NEW s \in Service, Restarted(s) \/ \E p \in Policy : Edit(s, p)
      PROVE  file' = file \/ \E p \in Policy : Edit(s, p)
  BY <1>3 DEF Restarted
<1>4. ASSUME NEW u \in Dashboard,
             (\E p \in Policy \cup {Keep} : Preview(u, p)) \/ Forget(u) \/ Confirm(u) \/ Die(u)
      PROVE  file' = file
  BY <1>4 DEF Preview, Forget, Confirm, Die, OnlyOp, services
<1>5. ASSUME NEW u \in Dashboard,
             Check(u) \/ Refuse(u) \/ Restart(u) \/ Verify(u) \/ VerifyFails(u)
      PROVE  file' = file
  BY <1>5 DEF Check, Refuse, Restart, Verify, VerifyFails, OnlyOp, services
<1>6. ASSUME NEW u \in Dashboard, Change(u)
      PROVE  file' = file \/ Writes(u)
  <2>1. CASE Prepare(u) \/ Reload(u) \/ ReloadFails(u)
    BY <2>1 DEF Prepare, Reload, ReloadFails, services
  <2>2. CASE \E s \in Service : Stop(u, s) \/ StopFails(u, s) \/ Start(u, s) \/ StartFails(u, s)
    BY <2>2 DEF Stop, StopFails, Start, StartFails
  <2>3. CASE \E s \in Service : Write(u, s) \/ WriteFails(u, s)
    BY <2>3 DEF Writes
  <2> QED BY <1>6, <2>1, <2>2, <2>3 DEF Change
<1>7. ASSUME NEW u \in Dashboard, Undo(u)
      PROVE  file' = file \/ Writes(u)
  <2>1. CASE \E failed \in BOOLEAN : Unreload(u, failed)
    BY <2>1 DEF Unreload
  <2>2. CASE \E s \in Service : \/ Unstop(u, s) \/ UnstopFails(u, s)
                                \/ Unstart(u, s) \/ UnstartFails(u, s)
    BY <2>2 DEF Unstop, UnstopFails, Unstart, UnstartFails
  <2>3. CASE \E s \in Service : Unwrite(u, s) \/ UnwriteFails(u, s)
    BY <2>3 DEF Writes
  <2> QED BY <1>7, <2>1, <2>2, <2>3 DEF Undo
<1>8. ASSUME NEW u \in Dashboard, Execute(u)
      PROVE  file' = file \/ Writes(u)
  BY <1>5, <1>6, <1>7, <1>8 DEF Execute
<1> QED BY <1>1, <1>2, <1>3, <1>4, <1>8 DEF Next

LEMMA WritesKeep ==
    ASSUME IInv, NEW u \in Dashboard, Writes(u)
    PROVE  op[u].at # "idle" /\ op'[u].late = op[u].late
<1>1. PICK s \in Service : \/ Write(u, s) \/ WriteFails(u, s)
                          \/ Unwrite(u, s) \/ UnwriteFails(u, s)
  BY DEF Writes
<1>2. op[u].at \in {"write", "unwrite"}
  BY <1>1 DEF Write, WriteFails, Unwrite, UnwriteFails
<1>3. GoesOn(u, op[u]) /\ \A failed \in BOOLEAN : GoesOn(u, Unless(op[u], failed))
  BY <1>2, OperationGoesOn DEF ChangeSteps
<1>4. PICK o : GoesOn(u, o) /\ To(u, o)
  <2>1. GoesOn(u, After(op[u], s, "reload")) /\ GoesOn(u, RollBack(op[u]))
    BY <1>3, AfterGoesOn, RollBackGoesOn
  <2>2. /\ GoesOn(u, After(op[u], s, "unreload"))
        /\ GoesOn(u, After(Unless(op[u], TRUE), s, "unreload"))
    BY <1>3, AfterGoesOn
  <2>3. \/ To(u, After(op[u], s, "reload")) \/ To(u, RollBack(op[u]))
        \/ To(u, After(op[u], s, "unreload"))
        \/ To(u, After(Unless(op[u], TRUE), s, "unreload"))
    BY <1>1 DEF Write, WriteFails, Unwrite, UnwriteFails
  <2> QED BY <2>1, <2>2, <2>3
<1>5. op'[u] = o
  BY <1>4 DEF To, IInv, Order, OperationsOK
<1> QED BY <1>2, <1>4, <1>5 DEF GoesOn

\* A change writes over nothing but what its user confirmed or what it wrote.
THEOREM NothingElseIsOverwritten == Spec => OverwritesOnlyWhatItSaw
<1> DEFINE Act ==
      \A u \in Dashboard, s \in Service :
        file'[s] # file[s] /\ op[u].at \in {"write", "unwrite"} /\ s \in Untouched(u)'
            => file[s] \in {op[u].plan.file[s], op[u].plan.policy}
<1>1. IInv /\ [Next]_vars => [Act]_vars
  <2> SUFFICES ASSUME IInv, [Next]_vars, NEW u \in Dashboard, NEW s \in Service,
                      file'[s] # file[s], op[u].at \in {"write", "unwrite"},
                      s \in Untouched(u)'
               PROVE  file[s] \in {op[u].plan.file[s], op[u].plan.policy}
    OBVIOUS
  <2>1. Changing(u)
    BY OperationOf DEF ChangeSteps
  <2>2. s \in Untouched(u)
    <3>1. CASE \E t \in Service, p \in Policy : Edit(t, p)
      <4>1. op'[u].late \in {op[u].late \cup {t} : t \in Service}
        BY <3>1, <2>1, OperationOf DEF Edit, Operation, Changing
      <4> QED BY <4>1 DEF Untouched
    <3>2. CASE \E v \in Dashboard : Writes(v)
      <4>1. PICK v \in Dashboard : Writes(v)
        BY <3>2
      <4>2. op[v].at # "idle" /\ op'[v].late = op[v].late
        BY <4>1, WritesKeep
      <4>3. v = u
        BY <4>2, <2>1, OneAtATime DEF IInv, Order, Changing, Executing
      <4> QED BY <4>2, <4>3 DEF Untouched
    <3> QED BY <3>1, <3>2, Writers
  <2> QED BY <2>1, <2>2 DEF IInv, Order, SeenOrOwn
<1> QED BY <1>1, Invariant, PTL DEF Spec, OverwritesOnlyWhatItSaw

-----------------------------------------------------------------------------
(* What Reconnect reports is so: by induction over the steps of a change, of *)
(* its rollback and of a reconnect, each of which brings the services one    *)
(* step nearer to what the report will say.                                  *)

-----------------------------------------------------------------------------
(* How far an operation has come.                                          *)

Forward == {"write", "reload", "start", "verify"}
Undoing == {"unstop", "unwrite", "unreload", "unstart"}

\* Until the first stop everything is as planned; a service that is not yet
\* counted as stopped still is.
Begun(u) ==
    LET o == op[u]  p == o.plan IN
    /\ o.at \in {"prepare", "stop", "restart"} => known = p.file
    /\ o.at \in {"prepare", "restart"} => run = p.file
    /\ o.at = "stop" =>
          /\ o.todo \cup o.stopped = Service
          /\ \A s \in Service \ o.stopped : run[s] = p.file[s]
    /\ o.at = "restart" => p.policy = Keep
    /\ o.at \in {"stop", "restart"} => \A s \in Untouched(u) : file[s] = p.file[s]

\* Writing, reading and starting the units brings the new permission to each.
Applied(u) ==
    LET o == op[u]  p == o.plan IN
    o.at \in Forward /\ p.policy # Keep =>
        /\ o.stopped = Service /\ (o.at = "reload" => o.todo = Service)
        /\ \A s \in Untouched(u) :
              /\ o.at # "write" \/ s \notin o.todo => file[s] = p.policy
              /\ o.at \in {"start", "verify"} => known[s] = p.policy
              /\ (o.at = "start" /\ s \notin o.todo) \/ o.at = "verify" => run[s] = p.policy

\* So does the rollback with the old one, unless it reports a failure.
Undone(u) ==
    LET o == op[u]  p == o.plan IN
    o.at \in Undoing =>
        /\ o.at \in {"unstop", "unstart"} => o.todo \subseteq o.stopped
        /\ \A s \in Untouched(u) :
              /\ s \notin o.stopped =>
                    file[s] = p.file[s] /\ known[s] = p.file[s] /\ run[s] = p.file[s]
              /\ o.restored =>
                    /\ (o.at = "unwrite" /\ s \notin o.todo) \/ o.at \in {"unreload", "unstart"}
                           => file[s] = p.file[s]
                    /\ o.at = "unstart" => known[s] = p.file[s]
                    /\ o.at = "unstart" /\ s \notin o.todo => run[s] = p.file[s]

\* A reconnect leaves files and residents alone.
Reconnecting(u) ==
    LET o == op[u]  p == o.plan IN
    /\ o.at \in {"restart", "verify"} /\ p.policy = Keep => pid >= p.pid
    /\ o.at = "verify" /\ p.policy = Keep =>
          /\ \A s \in Untouched(u) : file[s] = p.file[s]
          /\ \A r \in Resident : run[r] # None

Sound(u) == Begun(u) /\ Applied(u) /\ Undone(u) /\ Reconnecting(u)
Progress == \A u \in Dashboard : Sound(u)

-----------------------------------------------------------------------------
(* Operators of the model.                                                 *)

\* The step is done for every service but this.
LastOf(o, s) == o.todo = {s}

LEMMA AfterIs ==
    ASSUME NEW o \in Operation, NEW s \in Service, NEW at \in Steps
    PROVE  /\ After(o, s, at).stopped = o.stopped
           /\ After(o, s, at).restored = o.restored
           /\ LastOf(o, s) => After(o, s, at).at = at /\ After(o, s, at).todo = Service
           /\ ~LastOf(o, s) => /\ After(o, s, at).at = o.at
                               /\ After(o, s, at).todo = o.todo \ {s}
  BY DEF After, Operation, LastOf

LEMMA AttemptedIs ==
    ASSUME NEW o \in Operation, NEW s \in Service
    PROVE  Attempted(o, s).stopped = o.stopped \cup {s} /\ Attempted(o, s).todo = o.todo
  BY DEF Attempted, Operation

LEMMA UnlessIs ==
    ASSUME NEW o \in Operation, NEW failed \in BOOLEAN
    PROVE  /\ Unless(o, failed).stopped = o.stopped /\ Unless(o, failed).todo = o.todo
           /\ Unless(o, failed).restored => o.restored /\ ~failed
  BY DEF Unless, Operation

LEMMA RollBackIs ==
    ASSUME NEW o \in Operation
    PROVE  RollBack(o).stopped = o.stopped /\ RollBack(o).todo = o.stopped
  BY DEF RollBack, Operation

\* What starting, stopping and restarting a service leaves alone.
LEMMA GoesIs ==
    ASSUME ServicesOK, NEW s \in Service, NEW with \in Policy \cup {None}, Goes(s, with)
    PROVE  /\ run'[s] = with /\ \A t \in Service \ {s} : run'[t] = run[t]
           /\ pid' >= pid
  BY DEF ServicesOK, Goes

LEMMA UpIs ==
    ASSUME ServicesOK, NEW s \in Service, Up(s)
    PROVE  \A t \in Service \ {s} : run'[t] = run[t]
<1>1. CASE run[s] = None
  BY <1>1, GoesIs DEF Up, ServicesOK
<1>2. CASE run[s] # None
  BY <1>2 DEF Up, Stays
<1> QED BY <1>1, <1>2

LEMMA IdleIsSound ==
    ASSUME NEW u \in Dashboard, op[u].at \in {"idle", "locked"}
    PROVE  Sound(u)
  BY DEF Sound, Begun, Applied, Undone, Reconnecting, Forward, Undoing

\* A step of one operation: the others are idle.
LEMMA OwnStep ==
    ASSUME IInv, NEW u \in Dashboard, op[u].at # "idle", NEW o, To(u, o),
           op'[u] = o => Sound(u)'
    PROVE  Progress'
<1>1. OperationsOK
  BY DEF IInv, Order
<1>2. op'[u] = o /\ \A v \in Dashboard \ {u} : op'[v] = op[v] /\ op[v].at = "idle"
  BY <1>1, OneAtATime DEF To, OperationsOK
<1>3. ASSUME NEW v \in Dashboard \ {u} PROVE Sound(v)'
  <2>1. op'[v].at = "idle"
    BY <1>2
  <2> QED BY <2>1 DEF Sound, Begun, Applied, Undone, Reconnecting, Forward, Undoing
<1> QED BY <1>2, <1>3 DEF Progress

\* A step that ends an operation leaves nobody at work.
LEMMA EndsSoundly ==
    ASSUME IInv, NEW u \in Dashboard, op[u].at # "idle", NEW report, Ends(u, report)
    PROVE  Progress'
<1> DEFINE o == [Idle EXCEPT !.report = report]
<1>1. To(u, o) /\ o.at = "idle"
  BY DEF Ends, Idle
<1> HIDE DEF o
<1>2. ASSUME op'[u] = o PROVE Sound(u)'
  BY <1>1, <1>2 DEF Sound, Begun, Applied, Undone, Reconnecting, Forward, Undoing
<1> QED BY <1>1, <1>2, OwnStep

\* The services and one operation are as they were.
LEMMA SoundAsBefore ==
    ASSUME NEW u \in Dashboard, Sound(u), op'[u] = op[u],
           UNCHANGED <<file, known, run, pid>>
    PROVE  Sound(u)'
<1>1. Untouched(u)' = Untouched(u)
  BY DEF Untouched
<1>2. Begun(u)' /\ Reconnecting(u)'
  BY <1>1 DEF Sound, Begun, Reconnecting
<1>3. Applied(u)' /\ Undone(u)'
  BY <1>1 DEF Sound, Applied, Undone
<1> QED BY <1>2, <1>3 DEF Sound

-----------------------------------------------------------------------------
(* The change.                                                             *)

LEMMA StopSound ==
    ASSUME IInv, Progress, NEW u \in Dashboard, NEW s \in Service, Stop(u, s)
    PROVE  Progress'
<1> DEFINE w == Attempted(op[u], s)
<1> DEFINE o == After(w, s, "write")
<1>1. op[u] \in Operation /\ op[u].at = "stop" /\ s \in op[u].todo
  BY OperationOf DEF Stop, ChangeSteps, OwnerFirst, OwnerLast
<1>2. (\A t \in Service \ {s} : run'[t] = run[t]) /\ UNCHANGED <<file, known>>
  BY GoesIs DEF Stop, IInv
<1>3. To(u, o)
  BY DEF Stop
<1>4. /\ w \in Operation /\ w.plan = op[u].plan /\ w.late = op[u].late
      /\ w.at = "stop" /\ w.todo = op[u].todo /\ w.stopped = op[u].stopped \cup {s}
  BY <1>1, AttemptedKeeps, AttemptedIs
<1>5. LastOf(w, s) <=> LastOf(op[u], s)
  BY <1>4 DEF LastOf
<1> HIDE DEF w
<1> "stop" \in Steps /\ "write" \in Steps
  BY DEF Steps
<1>6. /\ o.plan = op[u].plan /\ o.late = op[u].late
      /\ o.stopped = op[u].stopped \cup {s}
  BY <1>1, <1>4, <1>5, AfterIs, AfterKeeps
<1>7. LastOf(op[u], s) => o.at = "write" /\ o.todo = Service
  BY <1>1, <1>4, <1>5, AfterIs, AfterKeeps
<1>8. ~LastOf(op[u], s) => o.at = "stop" /\ o.todo = op[u].todo \ {s}
  BY <1>1, <1>4, <1>5, AfterIs, AfterKeeps
<1> HIDE DEF o
<1>9. Sound(u) /\ Changing(u)
  BY <1>1, OperationOf DEF Progress, ChangeSteps
<1>10. ASSUME op'[u] = o PROVE Sound(u)'
  <2>1. Untouched(u)' = Untouched(u) /\ Untouched(u) \subseteq Service
    BY <1>6, <1>10 DEF Untouched
  <2>2. Begun(u)'
    BY <1>1, <1>2, <1>6, <1>9, <1>10, <1>7, <1>8, <2>1 DEF LastOf, Sound, Begun
  <2>3. Applied(u)'
    BY <1>1, <1>2, <1>6, <1>9, <1>10, <1>7, <1>8, <2>1
       DEF LastOf, Sound, Applied, Forward, Changing, Begun
  <2>4. Undone(u)'
    BY <1>1, <1>2, <1>6, <1>9, <1>10, <1>7, <1>8, <2>1
       DEF LastOf, Sound, Undone, Undoing
  <2>5. Reconnecting(u)'
    BY <1>1, <1>6, <1>9, <1>10, <1>7, <1>8 DEF Reconnecting, Changing
  <2> QED BY <2>2, <2>3, <2>4, <2>5 DEF Sound
<1>11. op[u].at # "idle"
  BY <1>1
<1> QED BY <1>3, <1>10, <1>11, OwnStep

LEMMA StopFailsSound ==
    ASSUME IInv, Progress, NEW u \in Dashboard, NEW s \in Service, StopFails(u, s)
    PROVE  Progress'
<1> DEFINE o == RollBack(Attempted(op[u], s))
<1>1. op[u] \in Operation /\ op[u].at = "stop" /\ s \in op[u].todo
  BY OperationOf DEF StopFails, ChangeSteps, OwnerFirst, OwnerLast
<1>2. (\A t \in Service \ {s} : run'[t] = run[t]) /\ UNCHANGED <<file, known>>
  BY GoesIs DEF StopFails, IInv, Stays
<1>3. To(u, o)
  BY DEF StopFails
<1>4. /\ o.plan = op[u].plan /\ o.late = op[u].late /\ o.at = "unstop"
      /\ o.stopped = op[u].stopped \cup {s} /\ o.todo = op[u].stopped \cup {s}
  BY <1>1, RollBackKeeps, RollBackIs, AttemptedKeeps, AttemptedIs
<1> HIDE DEF o
<1>5. Sound(u) /\ Changing(u)
  BY <1>1, OperationOf DEF Progress, ChangeSteps
<1>6. ASSUME op'[u] = o PROVE Sound(u)'
  <2>1. Untouched(u)' = Untouched(u) /\ Untouched(u) \subseteq Service
    BY <1>4, <1>6 DEF Untouched
  <2>2. Begun(u)'
    BY <1>1, <1>2, <1>4, <1>5, <1>6, <2>1 DEF Sound, Begun
  <2>3. Applied(u)'
    BY <1>1, <1>2, <1>4, <1>5, <1>6, <2>1 DEF Sound, Applied, Forward, Changing
  <2>4. Undone(u)'
    BY <1>1, <1>2, <1>4, <1>5, <1>6, <2>1 DEF Sound, Undone, Undoing, Begun
  <2>5. Reconnecting(u)'
    BY <1>1, <1>4, <1>5, <1>6 DEF Reconnecting, Changing
  <2> QED BY <2>2, <2>3, <2>4, <2>5 DEF Sound
<1>7. op[u].at # "idle"
  BY <1>1
<1> QED BY <1>3, <1>6, <1>7, OwnStep

LEMMA WriteSound ==
    ASSUME IInv, Progress, NEW u \in Dashboard, NEW s \in Service, Write(u, s)
    PROVE  Progress'
<1> DEFINE o == After(op[u], s, "reload")
<1>1. op[u] \in Operation /\ op[u].at = "write" /\ s \in op[u].todo
  BY OperationOf DEF Write, ChangeSteps, OwnerFirst, OwnerLast
<1>2. /\ file'[s] = op[u].plan.policy /\ \A t \in Service \ {s} : file'[t] = file[t]
      /\ UNCHANGED <<known, run>>
  BY DEF Write, IInv, ServicesOK
<1>3. To(u, o)
  BY DEF Write
<1> "write" \in Steps /\ "reload" \in Steps
  BY DEF Steps
<1>4. /\ o.plan = op[u].plan /\ o.late = op[u].late
      /\ o.stopped = op[u].stopped
  BY <1>1, AfterIs, AfterKeeps
<1>5. LastOf(op[u], s) => o.at = "reload" /\ o.todo = Service
  BY <1>1, AfterIs, AfterKeeps
<1>6. ~LastOf(op[u], s) => o.at = "write" /\ o.todo = op[u].todo \ {s}
  BY <1>1, AfterIs, AfterKeeps
<1> HIDE DEF o
<1>7. Sound(u) /\ Changing(u)
  BY <1>1, OperationOf DEF Progress, ChangeSteps
<1>8. ASSUME op'[u] = o PROVE Sound(u)'
  <2>1. Untouched(u)' = Untouched(u) /\ Untouched(u) \subseteq Service
    BY <1>4, <1>8 DEF Untouched
  <2>2. Begun(u)'
    BY <1>1, <1>2, <1>4, <1>7, <1>8, <1>5, <1>6, <2>1 DEF LastOf, Sound, Begun
  <2>3. Applied(u)'
    BY <1>1, <1>2, <1>4, <1>7, <1>8, <1>5, <1>6, <2>1
       DEF LastOf, Sound, Applied, Forward, Changing
  <2>4. Undone(u)'
    BY <1>1, <1>2, <1>4, <1>7, <1>8, <1>5, <1>6, <2>1
       DEF LastOf, Sound, Undone, Undoing
  <2>5. Reconnecting(u)'
    BY <1>1, <1>4, <1>7, <1>8, <1>5, <1>6 DEF Reconnecting, Changing
  <2> QED BY <2>2, <2>3, <2>4, <2>5 DEF Sound
<1>9. op[u].at # "idle"
  BY <1>1
<1> QED BY <1>3, <1>8, <1>9, OwnStep

\* Once every service was stopped, the rollback starts from scratch.
LEMMA RollsBackSoundly ==
    ASSUME IInv, Progress, NEW u \in Dashboard, op[u].at \in Forward,
           op[u].plan.policy # Keep, To(u, RollBack(op[u]))
    PROVE  Progress'
<1> DEFINE o == RollBack(op[u])
<1>1. op[u] \in Operation /\ op[u].at # "idle" /\ op[u].stopped = Service
  BY OperationOf DEF Progress, Sound, Applied, Forward
<1>2. o.at = "unstop" /\ o.stopped = Service /\ o.todo = Service
  BY <1>1, RollBackKeeps, RollBackIs
<1> HIDE DEF o
<1>3. ASSUME op'[u] = o PROVE Sound(u)'
  <2>1. Untouched(u)' \subseteq Service
    BY DEF Untouched
  <2> QED BY <1>2, <1>3, <2>1 DEF Sound, Begun, Applied, Undone, Reconnecting, Forward, Undoing
<1> QED BY <1>1, <1>3, OwnStep DEF o

LEMMA WriteFailsSound ==
    ASSUME IInv, Progress, NEW u \in Dashboard, NEW s \in Service, WriteFails(u, s)
    PROVE  Progress'
<1>1. op[u].at = "write" /\ op[u].plan.policy # Keep /\ To(u, RollBack(op[u]))
  BY OperationOf DEF WriteFails, ChangeSteps
<1> QED BY <1>1, RollsBackSoundly DEF Forward

LEMMA ReloadSound ==
    ASSUME IInv, Progress, NEW u \in Dashboard, Reload(u)
    PROVE  Progress'
<1> DEFINE o == [op[u] EXCEPT !.at = "start"]
<1>1. op[u] \in Operation /\ op[u].at = "reload"
  BY OperationOf DEF Reload, ChangeSteps, OwnerFirst, OwnerLast
<1>2. known' = file /\ UNCHANGED <<file, run>>
  BY DEF Reload
<1>3. To(u, o)
  BY DEF Reload
<1>4. /\ o.plan = op[u].plan /\ o.late = op[u].late /\ o.at = "start"
      /\ o.stopped = op[u].stopped /\ o.todo = op[u].todo
  BY <1>1 DEF Operation
<1> HIDE DEF o
<1>5. Sound(u) /\ Changing(u)
  BY <1>1, OperationOf DEF Progress, ChangeSteps
<1>6. ASSUME op'[u] = o PROVE Sound(u)'
  <2>1. Untouched(u)' = Untouched(u) /\ Untouched(u) \subseteq Service
    BY <1>4, <1>6 DEF Untouched
  <2>2. Begun(u)'
    BY <1>1, <1>2, <1>4, <1>5, <1>6, <2>1 DEF Sound, Begun
  <2>3. Applied(u)'
    BY <1>1, <1>2, <1>4, <1>5, <1>6, <2>1 DEF Sound, Applied, Forward, Changing
  <2>4. Undone(u)'
    BY <1>1, <1>2, <1>4, <1>5, <1>6, <2>1 DEF Sound, Undone, Undoing
  <2>5. Reconnecting(u)'
    BY <1>1, <1>4, <1>5, <1>6 DEF Reconnecting, Changing
  <2> QED BY <2>2, <2>3, <2>4, <2>5 DEF Sound
<1>7. op[u].at # "idle"
  BY <1>1
<1> QED BY <1>3, <1>6, <1>7, OwnStep

LEMMA ReloadFailsSound ==
    ASSUME IInv, Progress, NEW u \in Dashboard, ReloadFails(u)
    PROVE  Progress'
<1>1. op[u].at = "reload" /\ op[u].plan.policy # Keep /\ To(u, RollBack(op[u]))
  BY OperationOf DEF ReloadFails, ChangeSteps
<1> QED BY <1>1, RollsBackSoundly DEF Forward

LEMMA StartSound ==
    ASSUME IInv, Progress, NEW u \in Dashboard, NEW s \in Service, Start(u, s)
    PROVE  Progress'
<1>1. /\ op[u] \in Operation /\ op[u].at = "start" /\ s \in op[u].todo
      /\ op[u].plan.policy # Keep
  BY OperationOf DEF Start, ChangeSteps, OwnerFirst
<1>2. CASE Matches(s)' /\ file[s] = op[u].plan.policy
  <2> DEFINE o == After(op[u], s, "verify")
  <2>1. To(u, o)
    BY <1>2 DEF Start
  <2>2. /\ run'[s] = op[u].plan.policy /\ \A t \in Service \ {s} : run'[t] = run[t]
        /\ UNCHANGED <<file, known>>
    BY <1>2, UpIs DEF Start, Matches, IInv
  <2> "verify" \in Steps
    BY DEF Steps
  <2>3. o.plan = op[u].plan /\ o.late = op[u].late /\ o.stopped = op[u].stopped
    BY <1>1, AfterIs, AfterKeeps
  <2>4. LastOf(op[u], s) => o.at = "verify" /\ o.todo = Service
    BY <1>1, AfterIs
  <2>5. ~LastOf(op[u], s) => o.at = "start" /\ o.todo = op[u].todo \ {s}
    BY <1>1, AfterIs
  <2> HIDE DEF o
  <2>6. Sound(u)
    BY DEF Progress
  <2>7. ASSUME op'[u] = o PROVE Sound(u)'
    <3>1. Untouched(u)' = Untouched(u) /\ Untouched(u) \subseteq Service
      BY <2>3, <2>7 DEF Untouched
    <3>2. Applied(u)'
      BY <1>1, <2>2, <2>3, <2>6, <2>7, <2>4, <2>5, <3>1 DEF Sound, Applied, Forward, LastOf
    <3> QED BY <1>1, <2>3, <2>7, <2>4, <2>5, <3>2 DEF Sound, Begun, Undone, Reconnecting, Undoing
  <2>8. op[u].at # "idle"
    BY <1>1
  <2> QED BY <2>1, <2>7, <2>8, OwnStep
<1>3. CASE ~(Matches(s)' /\ file[s] = op[u].plan.policy)
  <2>1. To(u, RollBack(op[u]))
    BY <1>3 DEF Start
  <2> QED BY <1>1, <2>1, RollsBackSoundly DEF Forward
<1> QED BY <1>2, <1>3

LEMMA StartFailsSound ==
    ASSUME IInv, Progress, NEW u \in Dashboard, NEW s \in Service, StartFails(u, s)
    PROVE  Progress'
<1>1. op[u].at = "start" /\ op[u].plan.policy # Keep /\ To(u, RollBack(op[u]))
  BY OperationOf DEF StartFails, ChangeSteps
<1> QED BY <1>1, RollsBackSoundly DEF Forward

-----------------------------------------------------------------------------
(* The rollback.                                                           *)

LEMMA UnstopSound ==
    ASSUME IInv, Progress, NEW u \in Dashboard, NEW s \in Service, Unstop(u, s)
    PROVE  Progress'
<1>1. PICK failed \in {FALSE, run[s] = None} : To(u, After(Unless(op[u], failed), s, "unwrite"))
  BY DEF Unstop
<1> failed \in BOOLEAN
  OBVIOUS
<1> DEFINE w == Unless(op[u], failed)
<1> DEFINE o == After(w, s, "unwrite")
<1>2. op[u] \in Operation /\ op[u].at = "unstop" /\ s \in op[u].todo
  BY OperationOf DEF Unstop, ChangeSteps, OwnerFirst, OwnerLast
<1>3. (\A t \in Service \ {s} : run'[t] = run[t]) /\ UNCHANGED <<file, known>>
  BY GoesIs DEF Unstop, IInv
<1>4. To(u, o)
  BY <1>1
<1>5. /\ w \in Operation /\ w.plan = op[u].plan /\ w.late = op[u].late
      /\ w.at = "unstop" /\ w.todo = op[u].todo /\ w.stopped = op[u].stopped
  BY <1>2, UnlessKeeps, UnlessIs
<1>6. LastOf(w, s) <=> LastOf(op[u], s)
  BY <1>5 DEF LastOf
<1> HIDE DEF w
<1> "unstop" \in Steps /\ "unwrite" \in Steps
  BY DEF Steps
<1>7. /\ o.plan = op[u].plan /\ o.late = op[u].late
      /\ o.stopped = op[u].stopped
  BY <1>2, <1>5, <1>6, AfterIs, AfterKeeps
<1>8. LastOf(op[u], s) => o.at = "unwrite" /\ o.todo = Service
  BY <1>2, <1>5, <1>6, AfterIs, AfterKeeps
<1>9. ~LastOf(op[u], s) => o.at = "unstop" /\ o.todo = op[u].todo \ {s}
  BY <1>2, <1>5, <1>6, AfterIs, AfterKeeps
<1> HIDE DEF o
<1>10. Sound(u) /\ Changing(u)
  BY <1>2, OperationOf DEF Progress, ChangeSteps
<1>11. ASSUME op'[u] = o PROVE Sound(u)'
  <2>1. Untouched(u)' = Untouched(u) /\ Untouched(u) \subseteq Service
    BY <1>7, <1>11 DEF Untouched
  <2>2. Begun(u)'
    BY <1>2, <1>3, <1>7, <1>10, <1>11, <1>8, <1>9, <2>1 DEF LastOf, Sound, Begun
  <2>3. Applied(u)'
    BY <1>2, <1>3, <1>7, <1>10, <1>11, <1>8, <1>9, <2>1
       DEF LastOf, Sound, Applied, Forward, Changing
  <2>4. Undone(u)'
    BY <1>2, <1>3, <1>7, <1>10, <1>11, <1>8, <1>9, <2>1
       DEF LastOf, Sound, Undone, Undoing
  <2>5. Reconnecting(u)'
    BY <1>2, <1>7, <1>10, <1>11, <1>8, <1>9 DEF Reconnecting, Changing
  <2> QED BY <2>2, <2>3, <2>4, <2>5 DEF Sound
<1>12. op[u].at # "idle"
  BY <1>2
<1> QED BY <1>4, <1>11, <1>12, OwnStep

LEMMA UnstopFailsSound ==
    ASSUME IInv, Progress, NEW u \in Dashboard, NEW s \in Service, UnstopFails(u, s)
    PROVE  Progress'
<1> DEFINE w == Unless(op[u], TRUE)
<1> DEFINE o == After(w, s, "unwrite")
<1>1. op[u] \in Operation /\ op[u].at = "unstop" /\ s \in op[u].todo
  BY OperationOf DEF UnstopFails, ChangeSteps, OwnerFirst, OwnerLast
<1>2. (\A t \in Service \ {s} : run'[t] = run[t]) /\ UNCHANGED <<file, known>>
  BY GoesIs DEF UnstopFails, IInv, Stays
<1>3. To(u, o)
  BY DEF UnstopFails
<1>4. /\ w \in Operation /\ w.plan = op[u].plan /\ w.late = op[u].late
      /\ w.at = "unstop" /\ w.todo = op[u].todo /\ w.stopped = op[u].stopped
      /\ ~w.restored
  BY <1>1, UnlessKeeps, UnlessIs
<1>5. LastOf(w, s) <=> LastOf(op[u], s)
  BY <1>4 DEF LastOf
<1> HIDE DEF w
<1> "unstop" \in Steps /\ "unwrite" \in Steps
  BY DEF Steps
<1>6. /\ o.plan = op[u].plan /\ o.late = op[u].late
      /\ o.stopped = op[u].stopped
  BY <1>1, <1>4, <1>5, AfterIs, AfterKeeps
<1>7. LastOf(op[u], s) => o.at = "unwrite" /\ o.todo = Service
  BY <1>1, <1>4, <1>5, AfterIs, AfterKeeps
<1>8. ~LastOf(op[u], s) => o.at = "unstop" /\ o.todo = op[u].todo \ {s}
  BY <1>1, <1>4, <1>5, AfterIs, AfterKeeps
<1> HIDE DEF o
<1>9. Sound(u) /\ Changing(u)
  BY <1>1, OperationOf DEF Progress, ChangeSteps
<1>10. ASSUME op'[u] = o PROVE Sound(u)'
  <2>1. Untouched(u)' = Untouched(u) /\ Untouched(u) \subseteq Service
    BY <1>6, <1>10 DEF Untouched
  <2>2. Begun(u)'
    BY <1>1, <1>2, <1>6, <1>9, <1>10, <1>7, <1>8, <2>1 DEF LastOf, Sound, Begun
  <2>3. Applied(u)'
    BY <1>1, <1>2, <1>6, <1>9, <1>10, <1>7, <1>8, <2>1
       DEF LastOf, Sound, Applied, Forward, Changing
  <2>4. Undone(u)'
    BY <1>1, <1>2, <1>6, <1>9, <1>10, <1>7, <1>8, <2>1
       DEF LastOf, Sound, Undone, Undoing
  <2>5. Reconnecting(u)'
    BY <1>1, <1>6, <1>9, <1>10, <1>7, <1>8 DEF Reconnecting, Changing
  <2> QED BY <2>2, <2>3, <2>4, <2>5 DEF Sound
<1>11. op[u].at # "idle"
  BY <1>1
<1> QED BY <1>3, <1>10, <1>11, OwnStep

LEMMA UnwriteSound ==
    ASSUME IInv, Progress, NEW u \in Dashboard, NEW s \in Service, Unwrite(u, s)
    PROVE  Progress'
<1> DEFINE o == After(op[u], s, "unreload")
<1>1. op[u] \in Operation /\ op[u].at = "unwrite" /\ s \in op[u].todo
  BY OperationOf DEF Unwrite, ChangeSteps, OwnerFirst, OwnerLast
<1>2. /\ file'[s] = op[u].plan.file[s] /\ \A t \in Service \ {s} : file'[t] = file[t]
      /\ UNCHANGED <<known, run>>
  BY DEF Unwrite, IInv, ServicesOK
<1>3. To(u, o)
  BY DEF Unwrite
<1> "unwrite" \in Steps /\ "unreload" \in Steps
  BY DEF Steps
<1>4. /\ o.plan = op[u].plan /\ o.late = op[u].late
      /\ o.stopped = op[u].stopped
      /\ o.restored = op[u].restored
  BY <1>1, AfterIs, AfterKeeps
<1>5. LastOf(op[u], s) => o.at = "unreload" /\ o.todo = Service
  BY <1>1, AfterIs, AfterKeeps
<1>6. ~LastOf(op[u], s) => o.at = "unwrite" /\ o.todo = op[u].todo \ {s}
  BY <1>1, AfterIs, AfterKeeps
<1> HIDE DEF o
<1>7. Sound(u) /\ Changing(u)
  BY <1>1, OperationOf DEF Progress, ChangeSteps
<1>8. ASSUME op'[u] = o PROVE Sound(u)'
  <2>1. Untouched(u)' = Untouched(u) /\ Untouched(u) \subseteq Service
    BY <1>4, <1>8 DEF Untouched
  <2>2. Begun(u)'
    BY <1>1, <1>2, <1>4, <1>7, <1>8, <1>5, <1>6, <2>1 DEF LastOf, Sound, Begun
  <2>3. Applied(u)'
    BY <1>1, <1>2, <1>4, <1>7, <1>8, <1>5, <1>6, <2>1
       DEF LastOf, Sound, Applied, Forward, Changing
  <2>4. Undone(u)'
    BY <1>1, <1>2, <1>4, <1>7, <1>8, <1>5, <1>6, <2>1
       DEF LastOf, Sound, Undone, Undoing
  <2>5. Reconnecting(u)'
    BY <1>1, <1>4, <1>7, <1>8, <1>5, <1>6 DEF Reconnecting, Changing
  <2> QED BY <2>2, <2>3, <2>4, <2>5 DEF Sound
<1>9. op[u].at # "idle"
  BY <1>1
<1> QED BY <1>3, <1>8, <1>9, OwnStep

LEMMA UnwriteFailsSound ==
    ASSUME IInv, Progress, NEW u \in Dashboard, NEW s \in Service, UnwriteFails(u, s)
    PROVE  Progress'
<1> DEFINE w == Unless(op[u], TRUE)
<1> DEFINE o == After(w, s, "unreload")
<1>1. op[u] \in Operation /\ op[u].at = "unwrite" /\ s \in op[u].todo
  BY OperationOf DEF UnwriteFails, ChangeSteps, OwnerFirst, OwnerLast
<1>2. /\ file'[s] \in {file[s], op[u].plan.file[s]} /\ \A t \in Service \ {s} : file'[t] = file[t]
      /\ UNCHANGED <<known, run>>
  BY DEF UnwriteFails, IInv, ServicesOK
<1>3. To(u, o)
  BY DEF UnwriteFails
<1>4. /\ w \in Operation /\ w.plan = op[u].plan /\ w.late = op[u].late
      /\ w.at = "unwrite" /\ w.todo = op[u].todo /\ w.stopped = op[u].stopped
      /\ ~w.restored
  BY <1>1, UnlessKeeps, UnlessIs
<1>5. LastOf(w, s) <=> LastOf(op[u], s)
  BY <1>4 DEF LastOf
<1> HIDE DEF w
<1> "unwrite" \in Steps /\ "unreload" \in Steps
  BY DEF Steps
<1>6. /\ o.plan = op[u].plan /\ o.late = op[u].late
      /\ o.stopped = op[u].stopped
      /\ o.restored => FALSE
  BY <1>1, <1>4, <1>5, AfterIs, AfterKeeps
<1>7. LastOf(op[u], s) => o.at = "unreload" /\ o.todo = Service
  BY <1>1, <1>4, <1>5, AfterIs, AfterKeeps
<1>8. ~LastOf(op[u], s) => o.at = "unwrite" /\ o.todo = op[u].todo \ {s}
  BY <1>1, <1>4, <1>5, AfterIs, AfterKeeps
<1> HIDE DEF o
<1>9. Sound(u) /\ Changing(u)
  BY <1>1, OperationOf DEF Progress, ChangeSteps
<1>10. ASSUME op'[u] = o PROVE Sound(u)'
  <2>1. Untouched(u)' = Untouched(u) /\ Untouched(u) \subseteq Service
    BY <1>6, <1>10 DEF Untouched
  <2>2. Begun(u)'
    BY <1>1, <1>2, <1>6, <1>9, <1>10, <1>7, <1>8, <2>1 DEF LastOf, Sound, Begun
  <2>3. Applied(u)'
    BY <1>1, <1>2, <1>6, <1>9, <1>10, <1>7, <1>8, <2>1
       DEF LastOf, Sound, Applied, Forward, Changing
  <2>4. Undone(u)'
    BY <1>1, <1>2, <1>6, <1>9, <1>10, <1>7, <1>8, <2>1
       DEF LastOf, Sound, Undone, Undoing
  <2>5. Reconnecting(u)'
    BY <1>1, <1>6, <1>9, <1>10, <1>7, <1>8 DEF Reconnecting, Changing
  <2> QED BY <2>2, <2>3, <2>4, <2>5 DEF Sound
<1>11. op[u].at # "idle"
  BY <1>1
<1> QED BY <1>3, <1>10, <1>11, OwnStep

LEMMA UnreloadSound ==
    ASSUME IInv, Progress, NEW u \in Dashboard, NEW failed \in BOOLEAN, Unreload(u, failed)
    PROVE  Progress'
<1> DEFINE o == [Unless(op[u], failed) EXCEPT !.at = "unstart", !.todo = op[u].stopped]
<1>1. op[u] \in Operation /\ op[u].at = "unreload"
  BY OperationOf DEF Unreload, ChangeSteps, OwnerFirst, OwnerLast
<1>2. /\ known' \in {known, file} /\ (~failed => known' = file)
      /\ UNCHANGED <<file, run>>
  BY DEF Unreload
<1>3. To(u, o)
  BY DEF Unreload
<1>4. /\ o.plan = op[u].plan /\ o.late = op[u].late /\ o.at = "unstart"
      /\ o.stopped = op[u].stopped /\ o.todo = op[u].stopped
      /\ o.restored => op[u].restored /\ ~failed
  BY <1>1, UnlessKeeps, UnlessIs DEF Operation, Unless
<1> HIDE DEF o
<1>5. Sound(u) /\ Changing(u)
  BY <1>1, OperationOf DEF Progress, ChangeSteps
<1>6. ASSUME op'[u] = o PROVE Sound(u)'
  <2>1. Untouched(u)' = Untouched(u) /\ Untouched(u) \subseteq Service
    BY <1>4, <1>6 DEF Untouched
  <2>2. Begun(u)'
    BY <1>1, <1>2, <1>4, <1>5, <1>6, <2>1 DEF Sound, Begun
  <2>3. Applied(u)'
    BY <1>1, <1>2, <1>4, <1>5, <1>6, <2>1 DEF Sound, Applied, Forward, Changing
  <2>4. Undone(u)'
    BY <1>1, <1>2, <1>4, <1>5, <1>6, <2>1 DEF Sound, Undone, Undoing
  <2>5. Reconnecting(u)'
    BY <1>1, <1>4, <1>5, <1>6 DEF Reconnecting, Changing
  <2> QED BY <2>2, <2>3, <2>4, <2>5 DEF Sound
<1>7. op[u].at # "idle"
  BY <1>1
<1> QED BY <1>3, <1>6, <1>7, OwnStep

\* One service more runs as it did, or the report will not say so.
LEMMA OneMoreRestarted ==
    ASSUME IInv, Progress, NEW u \in Dashboard, op[u].at = "unstart",
           NEW s \in Service, s \in op[u].todo, NEW failed \in BOOLEAN,
           RestartedOrEnds(u, s, failed),
           \A t \in Service \ {s} : run'[t] = run[t], UNCHANGED <<file, known>>,
           ~failed => run'[s] = op[u].plan.file[s]
    PROVE  /\ Progress'
           /\ op'[u].report = "completed" /\ op'[u].at = "idle" =>
                 \A t \in Untouched(u) :
                    file'[t] = op[u].plan.file[t] /\ run'[t] = op[u].plan.file[t]
<1> DEFINE o == Unless(op[u], failed)
<1>1. op[u] \in Operation /\ Sound(u) /\ op \in [Dashboard -> Operation]
  BY OperationOf DEF Progress, IInv, Order, OperationsOK
<1>2. /\ o \in Operation /\ o.plan = op[u].plan /\ o.late = op[u].late
      /\ o.at = "unstart" /\ o.stopped = op[u].stopped /\ o.todo = op[u].todo
      /\ o.restored => op[u].restored /\ ~failed
  BY <1>1, UnlessKeeps, UnlessIs
<1>3. Untouched(u) \subseteq Service
  BY DEF Untouched
<1>4. ASSUME o.restored, NEW t \in Untouched(u), t \notin op[u].todo \/ t = s
      PROVE  file'[t] = op[u].plan.file[t] /\ run'[t] = op[u].plan.file[t]
  BY <1>1, <1>2, <1>3, <1>4 DEF Sound, Undone, Undoing
<1>5. CASE o.todo = {s}
  <2>1. Ends(u, IF o.restored THEN "completed" ELSE "incomplete")
    BY <1>5 DEF RestartedOrEnds
  <2>2. Progress'
    BY <2>1, EndsSoundly
  <2>3. op'[u].report = IF o.restored THEN "completed" ELSE "incomplete"
    BY <2>1, <1>1, <1>2 DEF Ends, To, Idle
  <2> QED BY <1>2, <1>4, <1>5, <2>2, <2>3
<1>6. CASE o.todo # {s}
  <2> DEFINE p == [o EXCEPT !.todo = @ \ {s}]
  <2>1. To(u, p)
    BY <1>6 DEF RestartedOrEnds
  <2>2. /\ p.plan = op[u].plan /\ p.late = op[u].late /\ p.at = "unstart"
        /\ p.stopped = op[u].stopped /\ p.todo = op[u].todo \ {s} /\ p.restored = o.restored
    <3> HIDE DEF o
    <3> QED BY <1>2 DEF Operation
  <2> HIDE DEF p
  <2>3. ASSUME op'[u] = p PROVE Sound(u)'
    <3>1. Untouched(u)' = Untouched(u)
      BY <2>2, <2>3 DEF Untouched
    <3>2. Undone(u)'
      BY <1>1, <1>2, <1>3, <1>4, <2>2, <2>3, <3>1 DEF Sound, Undone, Undoing
    <3> QED BY <2>2, <2>3, <3>2 DEF Sound, Begun, Applied, Reconnecting, Forward
  <2>4. op'[u].at = "unstart"
    BY <1>1, <2>1, <2>2 DEF To
  <2> QED BY <2>1, <2>3, <2>4, OwnStep
<1> QED BY <1>5, <1>6

\* What starting a service again shows of the report.
UndoneTruly(u) ==
    op'[u].report = "completed" /\ op'[u].at = "idle" =>
        \A t \in Untouched(u) :
           file'[t] = op[u].plan.file[t] /\ run'[t] = op[u].plan.file[t]

LEMMA UnstartSound ==
    ASSUME IInv, Progress, NEW u \in Dashboard, NEW s \in Service, Unstart(u, s)
    PROVE  Progress' /\ UndoneTruly(u)
<1> DEFINE failed == ~(Matches(s)' /\ file[s] = op[u].plan.file[s])
<1>1. op[u].at = "unstart" /\ s \in op[u].todo /\ RestartedOrEnds(u, s, failed)
  BY DEF Unstart, OwnerFirst
<1>2. failed \in BOOLEAN /\ (~failed => run'[s] = op[u].plan.file[s])
  BY DEF Matches, Unstart
<1> HIDE DEF failed
<1>3. (\A t \in Service \ {s} : run'[t] = run[t]) /\ UNCHANGED <<file, known>>
  BY UpIs DEF Unstart, IInv
<1> QED BY <1>1, <1>2, <1>3, OneMoreRestarted DEF UndoneTruly

LEMMA UnstartFailsSound ==
    ASSUME IInv, Progress, NEW u \in Dashboard, NEW s \in Service, UnstartFails(u, s)
    PROVE  Progress' /\ UndoneTruly(u)
<1>1. op[u].at = "unstart" /\ s \in op[u].todo /\ RestartedOrEnds(u, s, TRUE)
  BY DEF UnstartFails, OwnerFirst
<1>2. (\A t \in Service \ {s} : run'[t] = run[t]) /\ UNCHANGED <<file, known>>
  BY UpIs DEF UnstartFails, IInv, Stays
<1> QED BY <1>1, <1>2, OneMoreRestarted DEF UndoneTruly

-----------------------------------------------------------------------------
(* Everything else.                                                        *)

LEMMA AtRestSound ==
    ASSUME IInv, Progress, NEW u \in Dashboard, NEW o, o.at \in {"idle", "locked"},
           To(u, o), UNCHANGED <<file, known, run, pid>>
    PROVE  Progress'
<1>1. op'[u] = o /\ \A v \in Dashboard \ {u} : op'[v] = op[v]
  BY DEF To, IInv, Order, OperationsOK
<1>2. Sound(u)'
  BY <1>1 DEF Sound, Begun, Applied, Undone, Reconnecting, Forward, Undoing
<1>3. ASSUME NEW v \in Dashboard \ {u} PROVE Sound(v)'
  BY <1>1, SoundAsBefore DEF Progress
<1> QED BY <1>2, <1>3 DEF Progress

LEMMA PreviewSound ==
    ASSUME IInv, Progress, NEW u \in Dashboard, NEW p \in Policy \cup {Keep}, Preview(u, p)
    PROVE  Progress'
<1> DEFINE o == [op[u] EXCEPT !.plan = Seen(p)]
<1>1. To(u, o) /\ UNCHANGED <<file, known, run, pid>>
  BY DEF Preview, OnlyOp, services
<1>2. o.at = "idle"
  BY OperationOf DEF Preview, Operation
<1> HIDE DEF o
<1> QED BY <1>1, <1>2, AtRestSound

LEMMA ForgetSound ==
    ASSUME IInv, Progress, NEW u \in Dashboard, Forget(u)
    PROVE  Progress'
<1> DEFINE o == [op[u] EXCEPT !.plan = NoPlan]
<1>1. To(u, o) /\ UNCHANGED <<file, known, run, pid>>
  BY DEF Forget, OnlyOp, services
<1>2. o.at = "idle"
  BY OperationOf DEF Forget, Operation
<1> HIDE DEF o
<1> QED BY <1>1, <1>2, AtRestSound

LEMMA ConfirmSound ==
    ASSUME IInv, Progress, NEW u \in Dashboard, Confirm(u)
    PROVE  Progress'
<1> DEFINE o == [op[u] EXCEPT !.at = "locked", !.report = "none"]
<1> DEFINE i == [Idle EXCEPT !.report = "refused"]
<1>1. (To(u, o) \/ To(u, i)) /\ UNCHANGED <<file, known, run, pid>>
  BY DEF Confirm, services
<1>2. o.at = "locked" /\ i.at = "idle"
  BY OperationOf DEF Operation, Idle
<1> HIDE DEF o, i
<1> QED BY <1>1, <1>2, AtRestSound

LEMMA DieSound ==
    ASSUME IInv, Progress, NEW u \in Dashboard, Die(u)
    PROVE  Progress'
<1>1. To(u, Idle) /\ UNCHANGED <<file, known, run, pid>> /\ Idle.at = "idle"
  BY DEF Die, services, Idle
<1> QED BY <1>1, AtRestSound

LEMMA RefuseSound ==
    ASSUME IInv, Progress, NEW u \in Dashboard, Refuse(u)
    PROVE  Progress'
<1>1. op[u].at # "idle" /\ Ends(u, "refused")
  BY DEF Refuse
<1> QED BY <1>1, EndsSoundly

\* The plan confirmed is what there is.
LEMMA CheckSound ==
    ASSUME IInv, Progress, NEW u \in Dashboard, Check(u)
    PROVE  Progress'
<1> DEFINE o == [op[u] EXCEPT !.at = IF op[u].plan.policy = Keep THEN "restart" ELSE "prepare"]
<1>1. op[u] \in Operation /\ op[u].at # "idle"
  BY OperationOf DEF Check
<1>2. To(u, o) /\ UNCHANGED <<file, known, run, pid>>
  BY DEF Check, OnlyOp, services
<1>3. /\ o.plan = op[u].plan /\ o.late = op[u].late
      /\ o.at = IF o.plan.policy = Keep THEN "restart" ELSE "prepare"
  BY <1>1 DEF Operation
<1> HIDE DEF o
<1>4. op[u].plan.file = file /\ op[u].plan.pid = pid
  BY DEF Check, AsPreviewed, Seen
<1>5. known = file /\ run = file
  BY DEF Check, Plannable, Matches, IInv, ServicesOK
<1>6. ASSUME op'[u] = o PROVE Sound(u)'
  <2>1. Untouched(u)' \subseteq Service
    BY DEF Untouched
  <2>2. Begun(u)'
    BY <1>2, <1>3, <1>4, <1>5, <1>6, <2>1 DEF Begun
  <2>3. Reconnecting(u)'
    BY <1>2, <1>3, <1>4, <1>6 DEF Reconnecting, IInv, ServicesOK
  <2>4. Applied(u)' /\ Undone(u)'
    BY <1>3, <1>6 DEF Applied, Undone, Forward, Undoing
  <2> QED BY <2>2, <2>3, <2>4 DEF Sound
<1> QED BY <1>1, <1>2, <1>6, OwnStep

LEMMA PrepareSound ==
    ASSUME IInv, Progress, NEW u \in Dashboard, Prepare(u)
    PROVE  Progress'
<1> DEFINE o == [op[u] EXCEPT !.at = "stop", !.todo = Service]
<1>1. op[u] \in Operation /\ op[u].at # "idle" /\ op[u].at = "prepare" /\ Sound(u)
  BY OperationOf DEF Prepare, Progress
<1>2. To(u, o) /\ UNCHANGED <<file, known, run, pid>> /\ file = op[u].plan.file
  BY DEF Prepare, services
<1>3. /\ o.plan = op[u].plan /\ o.late = op[u].late /\ o.at = "stop"
      /\ o.todo = Service /\ o.stopped = op[u].stopped /\ o.stopped \subseteq Service
  BY <1>1 DEF Operation
<1> HIDE DEF o
<1>4. ASSUME op'[u] = o PROVE Sound(u)'
  <2>1. Begun(u)'
    BY <1>1, <1>2, <1>3, <1>4 DEF Sound, Begun, Untouched
  <2> QED BY <1>3, <1>4, <2>1 DEF Sound, Applied, Undone, Reconnecting, Forward, Undoing
<1> QED BY <1>1, <1>2, <1>4, OwnStep

\* The one process that may go is the owner's.
LEMMA RestartSound ==
    ASSUME IInv, Progress, NEW u \in Dashboard, Restart(u)
    PROVE  Progress'
<1> DEFINE o == [op[u] EXCEPT !.at = "verify"]
<1>1. /\ op[u] \in Operation /\ op[u].at # "idle" /\ op[u].at = "restart" /\ Sound(u)
      /\ op[u].plan \in Plan
  BY OperationOf DEF Restart, Progress
<1>2. To(u, o) /\ UNCHANGED <<file, known>>
  BY DEF Restart
<1>3. o.plan = op[u].plan /\ o.late = op[u].late /\ o.at = "verify"
  BY <1>1 DEF Operation
<1> HIDE DEF o
<1>4. known[Owner] \in Policy \cup {None} /\ Owner \in Service
  BY OwnerIsService DEF IInv, ServicesOK
<1>5. (\A s \in Service \ {Owner} : run'[s] = run[s]) /\ pid' >= pid /\ pid' \in Nat
  <2>1. CASE \E with \in Policy \cup {None} : Goes(Owner, with)
    BY <1>4, <2>1, GoesIs, GoesTypes DEF IInv
  <2>2. CASE Stays
    BY <2>2 DEF Stays, IInv, ServicesOK
  <2> QED BY <1>4, <2>1, <2>2 DEF Restart
<1>6. \A r \in Resident : run[r] # None
  BY <1>1, OwnerIsService, ReconnectConstants DEF Sound, Begun, Plan
<1>7. pid \in Nat /\ op[u].plan.pid \in Nat
  BY <1>1 DEF IInv, ServicesOK, Plan
<1>8. ASSUME op'[u] = o PROVE Sound(u)'
  <2>1. Untouched(u)' = Untouched(u)
    BY <1>3, <1>8 DEF Untouched
  <2>2. Reconnecting(u)'
    BY <1>1, <1>2, <1>3, <1>5, <1>6, <1>7, <1>8, <2>1, OwnerIsService
       DEF Sound, Begun, Reconnecting
  <2>3. Applied(u)'
    BY <1>1, <1>3, <1>8 DEF Sound, Begun, Applied
  <2> QED BY <1>3, <1>8, <2>2, <2>3 DEF Sound, Begun, Undone, Undoing
<1> QED BY <1>1, <1>2, <1>8, OwnStep

LEMMA VerifySound ==
    ASSUME IInv, Progress, NEW u \in Dashboard, Verify(u) \/ VerifyFails(u)
    PROVE  Progress'
<1>1. op[u].at = "verify" /\ op[u].at # "idle"
  BY DEF Verify, VerifyFails
<1>2. CASE \E report \in Reports : Ends(u, report)
  BY <1>1, <1>2, EndsSoundly
<1>3. CASE op[u].plan.policy # Keep /\ To(u, RollBack(op[u]))
  BY <1>1, <1>3, RollsBackSoundly DEF Forward
<1> QED BY <1>2, <1>3 DEF Verify, VerifyFails, Reports

\* A unit saved by hand is not looked at any more.
LEMMA EditSound ==
    ASSUME IInv, Progress, NEW s \in Service, NEW p \in Policy, Edit(s, p)
    PROVE  Progress'
<1> SUFFICES ASSUME NEW u \in Dashboard PROVE Sound(u)'
  BY DEF Progress
<1>1. op[u] \in Operation /\ Sound(u)
  BY OperationOf DEF Progress
<1>2. (\A t \in Service \ {s} : file'[t] = file[t]) /\ UNCHANGED <<known, run, pid>>
  BY DEF Edit, IInv, ServicesOK
<1>3. CASE Executing(u)
  <2> DEFINE o == [op[u] EXCEPT !.late = @ \cup {s}]
  <2>1. op'[u] = o
    BY <1>3 DEF Edit
  <2>2. /\ o.at = op[u].at /\ o.plan = op[u].plan /\ o.todo = op[u].todo
        /\ o.stopped = op[u].stopped /\ o.restored = op[u].restored
        /\ o.late = op[u].late \cup {s}
    BY <1>1 DEF Operation
  <2> HIDE DEF o
  <2>3. Untouched(u)' \subseteq Untouched(u) \ {s} /\ Untouched(u) \subseteq Service
    BY <2>1, <2>2 DEF Untouched
  <2>4. Begun(u)'
    BY <1>1, <1>2, <1>3, <2>1, <2>2, <2>3 DEF Sound, Begun, Executing
  <2>5. Applied(u)'
    BY <1>1, <1>2, <2>1, <2>2, <2>3 DEF Sound, Applied
  <2>6. Undone(u)'
    BY <1>1, <1>2, <2>1, <2>2, <2>3 DEF Sound, Undone
  <2>7. Reconnecting(u)'
    BY <1>1, <1>2, <2>1, <2>2, <2>3 DEF Sound, Reconnecting
  <2> QED BY <2>4, <2>5, <2>6, <2>7 DEF Sound
<1>4. CASE ~Executing(u)
  <2>1. op'[u] = op[u]
    BY <1>4 DEF Edit
  <2> QED BY <1>1, <1>2, <1>4, <2>1 DEF Executing, Sound, Begun, Applied, Undone, Reconnecting, Forward, Undoing
<1> QED BY <1>3, <1>4

\* A service that comes back by itself runs the unit that was read.
LEMMA RestartedSound ==
    ASSUME IInv, Progress, NEW s \in Service, Restarted(s)
    PROVE  Progress'
<1> SUFFICES ASSUME NEW u \in Dashboard PROVE Sound(u)'
  BY DEF Progress
<1>1. op[u] \in Operation /\ Sound(u) /\ (op[u].at # "idle" => op[u].plan \in Plan)
  BY OperationOf DEF Progress
<1>2. known[s] \in Policy /\ Untouched(u)' = Untouched(u) /\ Untouched(u) \subseteq Service
  BY DEF IInv, ServicesOK, Restarted, Untouched
<1>3. /\ UNCHANGED <<file, known, op>> /\ run[s] # None
      /\ run' = [run EXCEPT ![s] = known[s]] /\ run \in [Service -> Policy \cup {None}]
  BY DEF Restarted, Goes, IInv, ServicesOK
<1>4. run'[s] = known[s] /\ \A t \in Service \ {s} : run'[t] = run[t]
  BY <1>3
<1>5. pid' >= pid /\ pid \in Nat /\ pid' \in Nat
  BY <1>2, GoesIs, GoesTypes DEF Restarted, IInv, ServicesOK
<1>6. Begun(u)'
  <2>1. known = op[u].plan.file /\ run = op[u].plan.file => run' = op[u].plan.file
    BY <1>3
  <2> QED BY <1>1, <1>2, <1>3, <1>4, <2>1 DEF Sound, Begun
<1>7. Applied(u)'
  BY <1>1, <1>2, <1>3, <1>4 DEF Sound, Applied
<1>8. Undone(u)'
  BY <1>1, <1>2, <1>3, <1>4 DEF Sound, Undone
<1>9. Reconnecting(u)'
  <2>1. op[u].at # "idle" => op[u].plan.pid \in Nat
    BY <1>1 DEF Plan
  <2> QED BY <1>1, <1>2, <1>3, <1>4, <1>5, <2>1, OwnerIsService, ReconnectConstants
          DEF Sound, Reconnecting
<1> QED BY <1>6, <1>7, <1>8, <1>9 DEF Sound

LEMMA OtherSound ==
    ASSUME IInv, Progress, Work \/ Apply \/ (\E r \in Resident : Subscribe(r)) \/ UNCHANGED vars
    PROVE  Progress'
<1> SUFFICES ASSUME NEW u \in Dashboard PROVE Sound(u)'
  BY DEF Progress
<1>1. CASE Apply
  <2>1. op'[u] = op[u] /\ op[u].at = "idle"
    BY <1>1, ReconnectConstants DEF Apply, IInv, Order, OperationsOK
  <2> QED BY <2>1 DEF Sound, Begun, Applied, Undone, Reconnecting, Forward, Undoing
<1>2. CASE ~Apply
  <2>1. UNCHANGED <<op, file, known, run, pid>>
    BY <1>2 DEF Work, Subscribe, vars, services
  <2> QED BY <2>1, SoundAsBefore DEF Progress
<1> QED BY <1>1, <1>2

LEMMA ExecuteSound ==
    ASSUME IInv, Progress, NEW u \in Dashboard, Execute(u)
    PROVE  Progress'
<1>1. CASE Check(u) \/ Refuse(u) \/ Restart(u) \/ Verify(u) \/ VerifyFails(u)
  BY <1>1, CheckSound, RefuseSound, RestartSound, VerifySound
<1>2. CASE Change(u)
  <2>1. CASE Prepare(u) \/ Reload(u) \/ ReloadFails(u)
    BY <2>1, PrepareSound, ReloadSound, ReloadFailsSound
  <2>2. CASE \E s \in Service : Stop(u, s) \/ StopFails(u, s) \/ Write(u, s)
    BY <2>2, StopSound, StopFailsSound, WriteSound
  <2>3. CASE \E s \in Service : WriteFails(u, s) \/ Start(u, s) \/ StartFails(u, s)
    BY <2>3, WriteFailsSound, StartSound, StartFailsSound
  <2> QED BY <1>2, <2>1, <2>2, <2>3 DEF Change
<1>3. CASE Undo(u)
  <2>1. CASE \E failed \in BOOLEAN : Unreload(u, failed)
    BY <2>1, UnreloadSound
  <2>2. CASE \E s \in Service : Unstop(u, s) \/ UnstopFails(u, s) \/ Unwrite(u, s)
    BY <2>2, UnstopSound, UnstopFailsSound, UnwriteSound
  <2>3. CASE \E s \in Service : UnwriteFails(u, s) \/ Unstart(u, s) \/ UnstartFails(u, s)
    BY <2>3, UnwriteFailsSound, UnstartSound, UnstartFailsSound
  <2> QED BY <1>3, <2>1, <2>2, <2>3 DEF Undo
<1> QED BY <1>1, <1>2, <1>3 DEF Execute

LEMMA NextSound == IInv /\ Progress /\ [Next]_vars => Progress'
<1> SUFFICES ASSUME IInv, Progress, [Next]_vars PROVE Progress'
  OBVIOUS
<1>1. ASSUME NEW u \in Dashboard, NEW p \in Policy \cup {Keep}, Preview(u, p) PROVE Progress'
  BY <1>1, PreviewSound
<1>2. ASSUME NEW u \in Dashboard, Forget(u) \/ Confirm(u) \/ Die(u) PROVE Progress'
  BY <1>2, ForgetSound, ConfirmSound, DieSound
<1>3. ASSUME NEW u \in Dashboard, Execute(u) PROVE Progress'
  BY <1>3, ExecuteSound
<1>4. ASSUME NEW s \in Service, Restarted(s) \/ \E p \in Policy : Edit(s, p) PROVE Progress'
  BY <1>4, EditSound, RestartedSound
<1> QED BY <1>1, <1>2, <1>3, <1>4, OtherSound DEF Next

LEMMA InitSound == Init => Progress
<1> SUFFICES ASSUME Init, NEW u \in Dashboard PROVE Sound(u)
  BY DEF Progress
<1>1. op[u].at = "idle"
  BY DEF Init, Idle
<1> QED BY <1>1, IdleIsSound

-----------------------------------------------------------------------------
(* What an operation says when it ends.                                    *)

Truly(u) ==
    op[u].at # "idle" /\ op'[u].at = "idle" =>
        LET p == op[u].plan IN
        /\ op'[u].report = "changed" =>
              \A s \in Untouched(u) :
                 file'[s] = p.policy /\ known'[s] = p.policy /\ run'[s] = p.policy
        /\ op'[u].report = "completed" =>
              \A s \in Untouched(u) : file'[s] = p.file[s] /\ run'[s] = p.file[s]
        /\ op'[u].report = "reconnected" =>
              /\ pid' > p.pid /\ p.loaded \subseteq loaded'
              /\ \A s \in Untouched(u) : file'[s] = p.file[s] /\ run'[s] # None

LEMMA NothingSaid ==
    ASSUME NEW u \in Dashboard,
           \/ op'[u].at = op[u].at \/ op[u].at = "idle" \/ op'[u].at # "idle"
           \/ op'[u].report \in {"none", "refused", "incomplete", "unverified"}
    PROVE  Truly(u)
  BY DEF Truly

LEMMA EndSays ==
    ASSUME IInv, NEW u \in Dashboard, NEW report, Ends(u, report)
    PROVE  op'[u].at = "idle" /\ op'[u].report = report
  BY DEF Ends, To, Idle, IInv, Order, OperationsOK

LEMMA VerifiedTruly ==
    ASSUME IInv, Progress, NEW u \in Dashboard, Verify(u)
    PROVE  Truly(u)
<1>1. /\ Sound(u) /\ op[u].at = "verify" /\ op[u].plan \in Plan
      /\ UNCHANGED <<file, known, run, pid, loaded>>
      /\ Untouched(u) \subseteq Service
  BY OperationOf DEF Progress, Verify, services, Untouched
<1>2. CASE op[u].plan.policy = Keep
  <2>1. op'[u].report = "reconnected"
    BY <1>2, EndSays DEF Verify
  <2>2. pid > op[u].plan.pid /\ op[u].plan.loaded \subseteq loaded
    BY <1>1, <1>2 DEF Sound, Reconnecting, Verify, Verified, AnotherOwner, Plan, IInv, ServicesOK
  <2>3. \A s \in Service : run[s] # None
    BY <1>1, <1>2 DEF Sound, Reconnecting, Verify, Verified, AnotherOwner, Matches, Service, Owner
  <2>4. \A s \in Untouched(u) : file[s] = op[u].plan.file[s]
    BY <1>1, <1>2 DEF Sound, Reconnecting
  <2> QED BY <1>1, <2>1, <2>2, <2>3, <2>4 DEF Truly
<1>3. CASE op[u].plan.policy # Keep
  <2>1. op'[u].report = "changed"
    BY <1>3, EndSays DEF Verify
  <2>2. \A s \in Untouched(u) : /\ file[s] = op[u].plan.policy
                                /\ known[s] = op[u].plan.policy /\ run[s] = op[u].plan.policy
    BY <1>1, <1>3 DEF Sound, Applied, Forward
  <2> QED BY <1>1, <2>1, <2>2 DEF Truly
<1> QED BY <1>2, <1>3

LEMMA RestoredTruly ==
    ASSUME IInv, Progress, NEW u \in Dashboard, NEW s \in Service,
           Unstart(u, s) \/ UnstartFails(u, s)
    PROVE  Truly(u)
<1>1. UndoneTruly(u)
  BY UnstartSound, UnstartFailsSound
<1>2. PICK failed \in BOOLEAN : RestartedOrEnds(u, s, failed)
  BY DEF Unstart, UnstartFails
<1> DEFINE o == Unless(op[u], failed)
<1>3. o \in Operation /\ o.at = "unstart"
  BY OperationOf, UnlessKeeps DEF Unstart, UnstartFails
<1>4. CASE o.todo = {s}
  <2>1. op'[u].report \in {"completed", "incomplete"}
    BY <1>2, <1>4, EndSays DEF RestartedOrEnds
  <2> QED BY <1>1, <2>1 DEF Truly, UndoneTruly
<1>5. CASE o.todo # {s}
  <2> DEFINE q == [o EXCEPT !.todo = @ \ {s}]
  <2>1. To(u, q)
    BY <1>2, <1>5 DEF RestartedOrEnds
  <2> HIDE DEF o
  <2>2. q.at = "unstart"
    BY <1>3 DEF Operation
  <2> HIDE DEF q
  <2>3. op'[u].at # "idle"
    BY <2>1, <2>2 DEF To, IInv, Order, OperationsOK
  <2> QED BY <2>3, NothingSaid
<1> QED BY <1>4, <1>5

LEMMA ExecutedTruly ==
    ASSUME IInv, Progress, NEW u \in Dashboard, Execute(u)
    PROVE  Truly(u)
<1> op \in [Dashboard -> Operation] /\ op[u] \in Operation
  BY OperationOf DEF IInv, Order, OperationsOK
<1>1. CASE Refuse(u)
  BY <1>1, EndSays, NothingSaid DEF Refuse
<1>2. CASE Check(u) \/ Restart(u) \/ Prepare(u)
  <2>1. Check(u) => op'[u].at \in {"restart", "prepare"}
    BY DEF Check, To, Operation
  <2>2. Restart(u) => op'[u].at = "verify"
    BY DEF Restart, To, Operation
  <2>3. Prepare(u) => op'[u].at = "stop"
    BY DEF Prepare, To, Operation
  <2> QED BY <1>2, <2>1, <2>2, <2>3, NothingSaid
<1>3. CASE VerifyFails(u)
  <2>1. CASE op[u].plan.policy = Keep
    BY <1>3, <2>1, EndSays, NothingSaid DEF VerifyFails
  <2>2. CASE op[u].plan.policy # Keep
    <3>1. To(u, RollBack(op[u]))
      BY <1>3, <2>2 DEF VerifyFails
    <3>2. op'[u].at = "unstop"
      BY <3>1, RollBackKeeps DEF To
    <3> QED BY <3>2, NothingSaid
  <2> QED BY <2>1, <2>2
<1>4. CASE Reload(u) \/ ReloadFails(u)
  BY <1>4, ReloadStep, ReloadFailsStep, NothingSaid
<1>5. CASE \E s \in Service : Stop(u, s) \/ StopFails(u, s) \/ Write(u, s)
  BY <1>5, StopStep, StopFailsStep, WriteStep, NothingSaid
<1>6. CASE \E s \in Service : WriteFails(u, s) \/ Start(u, s) \/ StartFails(u, s)
  BY <1>6, WriteFailsStep, StartStep, StartFailsStep, NothingSaid
<1>7. CASE \E failed \in BOOLEAN : Unreload(u, failed)
  BY <1>7, UnreloadStep, NothingSaid
<1>8. CASE \E s \in Service : Unstop(u, s) \/ UnstopFails(u, s)
  BY <1>8, UnstopStep, UnstopFailsStep, NothingSaid
<1>9. CASE \E s \in Service : Unwrite(u, s) \/ UnwriteFails(u, s)
  BY <1>9, UnwriteStep, UnwriteFailsStep, NothingSaid
<1>10. Change(u) \/ Undo(u) => Truly(u)
  BY <1>2, <1>4, <1>5, <1>6, <1>7, <1>8, <1>9, RestoredTruly DEF Change, Undo
<1> QED BY <1>1, <1>2, <1>3, <1>10, VerifiedTruly DEF Execute

\* A dashboard changes no other's operation.
LEMMA OwnOperation ==
    ASSUME IInv, NEW u \in Dashboard, NEW v \in Dashboard, v # u,
           \/ \E p \in Policy \cup {Keep} : Preview(u, p)
           \/ Forget(u) \/ Confirm(u) \/ Execute(u) \/ Die(u)
    PROVE  op'[v] = op[v]
<1>1. CASE \E o : To(u, o)
  BY <1>1 DEF To, IInv, Order, OperationsOK
<1>2. CASE (\E p \in Policy \cup {Keep} : Preview(u, p)) \/ Forget(u) \/ Confirm(u) \/ Die(u)
  BY <1>1, <1>2 DEF Preview, Forget, Confirm, Die
<1>3. CASE Check(u) \/ Refuse(u) \/ Restart(u) \/ Verify(u) \/ VerifyFails(u)
  BY <1>1, <1>3 DEF Check, Refuse, Restart, Verify, VerifyFails, Ends
<1>4. CASE Prepare(u) \/ Reload(u) \/ ReloadFails(u)
  BY <1>1, <1>4 DEF Prepare, Reload, ReloadFails
<1>5. CASE \E s \in Service : Stop(u, s) \/ StopFails(u, s) \/ Write(u, s) \/ WriteFails(u, s)
  BY <1>1, <1>5 DEF Stop, StopFails, Write, WriteFails
<1>6. CASE \E s \in Service : Start(u, s) \/ StartFails(u, s)
  BY <1>1, <1>6 DEF Start, StartFails
<1>7. CASE (\E failed \in BOOLEAN : Unreload(u, failed)) \/ \E s \in Service : Unstop(u, s)
  BY <1>1, <1>7 DEF Unreload, Unstop
<1>8. CASE \E s \in Service : UnstopFails(u, s) \/ Unwrite(u, s) \/ UnwriteFails(u, s)
  BY <1>1, <1>8 DEF UnstopFails, Unwrite, UnwriteFails
<1>9. CASE \E s \in Service : Unstart(u, s) \/ UnstartFails(u, s)
  BY <1>1, <1>9 DEF Unstart, UnstartFails, RestartedOrEnds, Ends
<1>10. Change(u) \/ Undo(u) => op'[v] = op[v]
  BY <1>4, <1>5, <1>6, <1>7, <1>8, <1>9 DEF Change, Undo
<1> QED BY <1>2, <1>3, <1>10 DEF Execute

LEMMA NextTruly ==
    ASSUME IInv, Progress, [Next]_vars, NEW v \in Dashboard
    PROVE  Truly(v)
<1>1. CASE UNCHANGED vars \/ Work \/ Apply
  BY <1>1, NothingSaid DEF vars, Work, Apply
<1>2. CASE \E r \in Resident : Subscribe(r)
  BY <1>2, NothingSaid DEF Subscribe
<1>3. ASSUME NEW s \in Service, Restarted(s) \/ \E p \in Policy : Edit(s, p)
      PROVE  Truly(v)
  <2>1. op'[v].at = op[v].at
    BY <1>3, OperationOf DEF Restarted, Edit, Operation
  <2> QED BY <2>1, NothingSaid
<1>4. ASSUME NEW u \in Dashboard,
             \/ \E p \in Policy \cup {Keep} : Preview(u, p)
             \/ Forget(u) \/ Confirm(u) \/ Execute(u) \/ Die(u)
      PROVE  Truly(v)
  <2>1. CASE v # u
    BY <1>4, <2>1, OwnOperation, NothingSaid
  <2>2. CASE v = u /\ Execute(u)
    BY <2>2, ExecutedTruly
  <2>3. CASE v = u /\ Die(u)
    <3>1. op'[v].report = "none"
      BY <2>3 DEF Die, To, Idle, IInv, Order, OperationsOK
    <3> QED BY <3>1, NothingSaid
  <2>4. CASE v = u /\ op[u].at = "idle"
    BY <2>4, NothingSaid
  <2> QED BY <1>4, <2>1, <2>2, <2>3, <2>4 DEF Preview, Forget, Confirm
<1> QED BY <1>1, <1>2, <1>3, <1>4 DEF Next

\* What a finished operation says is so: "changed", "restoration completed" and
\* "reconnected" hold of the files and services it was about.
THEOREM ReportsAreTrue == Spec => ReportsTellTruth
<1> DEFINE Said == \A u \in Dashboard : Truly(u)
<1>1. IInv /\ Progress /\ [Next]_vars => [Said]_vars
  BY NextTruly
<1>2. Spec => []Progress
  BY InitSound, NextSound, Invariant, PTL DEF Spec
<1> QED BY <1>1, <1>2, Invariant, PTL DEF Spec, ReportsTellTruth, Truly
=============================================================================
