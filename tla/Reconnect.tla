------------------------------ MODULE Reconnect ------------------------------
(***************************************************************************)
(* Reconnect and permission change of a shared owner (rust/src/reconnect.rs, *)
(* reconnect/systemd.rs, and the confirmation in ui.rs).  Several dashboards *)
(* may preview and confirm changes of the same services: the owner, an App   *)
(* Server, and the residents that keep its conversations loaded.  What a     *)
(* unit file says is the permission it grants.  Every command to the service *)
(* manager and every file written is an action, and each may fail, with or   *)
(* without effect; a dashboard may die between any two.                      *)
(***************************************************************************)
EXTENDS Naturals, FiniteSets

CONSTANTS
    Dashboard,
    Resident,
    Policy,      \* the permissions a unit may grant
    None,
    MaxChanges,  \* bound: operations confirmed
    MaxEdits,    \* bound: unit files changed by hand
    MaxFails,    \* bound: commands, writes and processes that fail
    MaxDeaths    \* bound: dashboards that die

ASSUME ReconnectConstants ==
    /\ Resident # {} /\ "owner" \notin Resident
    /\ None \notin Policy \cup Dashboard /\ "keep" \notin Policy
    /\ {MaxChanges, MaxEdits, MaxFails, MaxDeaths} \subseteq Nat

VARIABLES
    file,      \* the unit files
    known,     \* the units as the service manager has read them
    run,       \* what each service runs with, None if it is down
    pid,       \* the number of the owner's process
    loaded,    \* residents whose conversation the owner has loaded
    working,   \* a conversation is active, or none is and one has queued input
    lock,      \* the reconnect lock of the endpoint
    op,        \* the operation of each dashboard
    backups,   \* directories under permission-backups
    inForce,   \* history: the permissions last set by hand or reported changed
    changes, edits, fails, deaths

services == <<file, known, run, pid, loaded, working>>
bounds == <<changes, edits, fails, deaths>>
vars == <<services, lock, op, backups, inForce, bounds>>

-----------------------------------------------------------------------------
Owner == "owner"
Keep == "keep"   \* a reconnect that changes no permission
Service == Resident \cup {Owner}
NoPlan == [policy |-> None]
Idle == [at |-> "idle", plan |-> NoPlan, todo |-> {}, stopped |-> {},
         restored |-> TRUE, late |-> {}, report |-> "none"]
Steps == {"idle", "locked", "prepare", "stop", "write", "reload", "start", "verify",
          "unstop", "unwrite", "unreload", "unstart", "restart"}
Reports == {"none", "refused", "changed", "completed", "incomplete",
            "reconnected", "unverified"}
\* Past the last look at the saved units.
Executing(u) == op[u].at \notin {"idle", "locked", "prepare"}
Seen(p) == [policy |-> p, file |-> file, pid |-> pid, loaded |-> loaded]

Init ==
    /\ \E p \in Policy : /\ file = [s \in Service |-> p]
                         /\ inForce = file
    /\ known = file /\ run = file
    /\ pid = 0
    /\ loaded = Resident
    /\ working = "idle"
    /\ lock = None
    /\ op = [u \in Dashboard |-> Idle]
    /\ backups = {}
    /\ changes = 0 /\ edits = 0 /\ fails = 0 /\ deaths = 0

-----------------------------------------------------------------------------
(* Services and their manager.                                             *)

\* pid: the saved unit, the loaded unit and the process agree.
Matches(s) == run[s] # None /\ run[s] = file[s] /\ known[s] = file[s]

Interrupted == IF working = "active" THEN "idle" ELSE working

\* A new process of the owner has no conversation loaded.
Goes(s, with) ==
    /\ run' = [run EXCEPT ![s] = with]
    /\ IF s = Owner
       THEN /\ loaded' = {} /\ working' = Interrupted
            /\ pid' = IF with = None THEN pid ELSE pid + 1
       ELSE UNCHANGED <<loaded, working, pid>>
Stays == UNCHANGED <<run, pid, loaded, working>>
Fails == fails < MaxFails /\ fails' = fails + 1 /\ UNCHANGED <<changes, edits, deaths>>

Subscribe(r) ==
    /\ run[Owner] # None /\ run[r] # None /\ r \notin loaded
    /\ loaded' = loaded \cup {r}
    /\ UNCHANGED <<file, known, run, pid, working, lock, op, backups, inForce, bounds>>

Work ==
    /\ run[Owner] # None
    /\ working' \in {"idle", "queued", "active"} \ {working}
    /\ UNCHANGED <<file, known, run, pid, loaded, lock, op, backups, inForce, bounds>>

\* Restart=on-failure.
Restarted(s) ==
    /\ run[s] # None
    /\ Goes(s, known[s])
    /\ Fails
    /\ UNCHANGED <<file, known, lock, op, backups, inForce>>

\* By hand: a unit is saved, at any time, or all units are reloaded and
\* restarted, while no dashboard carries out a change.
Edit(s, p) ==
    /\ edits < MaxEdits /\ edits' = edits + 1
    /\ file' = [file EXCEPT ![s] = p]
    /\ op' = [u \in Dashboard |-> IF Executing(u) THEN [op[u] EXCEPT !.late = @ \cup {s}]
                                 ELSE op[u]]
    /\ inForce' = IF \E u \in Dashboard : Executing(u) /\ op[u].plan.policy # Keep
                  THEN inForce
                  ELSE [inForce EXCEPT ![s] = p]
    /\ UNCHANGED <<known, run, pid, loaded, working, lock, backups, changes, fails, deaths>>

Apply ==
    /\ lock = None /\ edits < MaxEdits
    /\ edits' = edits + 1
    /\ known' = file /\ run' = file
    /\ pid' = pid + 1
    /\ loaded' = {} /\ working' = Interrupted
    /\ inForce' = file
    /\ UNCHANGED <<file, lock, op, backups, changes, fails, deaths>>

-----------------------------------------------------------------------------
(* Preview and confirmation.                                               *)

\* plan: every service matches, conversations are loaded and idle; only a
\* change of permissions asks for empty queues.
Plannable(p) == /\ \A s \in Service : Matches(s)
                /\ loaded # {}
                /\ working = "idle" \/ (p = Keep /\ working = "queued")

To(u, o) == op' = [op EXCEPT ![u] = o]
Ends(u, report) == /\ To(u, [Idle EXCEPT !.report = report])
                   /\ lock' = None
OnlyOp == UNCHANGED <<services, backups, inForce, bounds>>

Preview(u, p) ==
    /\ op[u].at = "idle" /\ Plannable(p)
    /\ To(u, [op[u] EXCEPT !.plan = Seen(p)])
    /\ OnlyOp /\ UNCHANGED lock

\* 60 seconds, a key, or another selection.
Forget(u) ==
    /\ op[u].at = "idle" /\ op[u].plan # NoPlan
    /\ To(u, [op[u] EXCEPT !.plan = NoPlan])
    /\ OnlyOp /\ UNCHANGED lock

\* Wrong: no lock.
FreeAlways == TRUE
Free == lock = None

Confirm(u) ==
    /\ op[u].at = "idle" /\ op[u].plan # NoPlan
    /\ changes < MaxChanges /\ changes' = changes + 1
    /\ IF Free
       THEN lock' = u /\ To(u, [op[u] EXCEPT !.at = "locked", !.report = "none"])
       ELSE UNCHANGED lock /\ To(u, [Idle EXCEPT !.report = "refused"])
    /\ UNCHANGED <<services, backups, inForce, edits, fails, deaths>>

\* Wrong: does not compare what was previewed with what there is.
AsPreviewedAlways(u) == TRUE
AsPreviewed(u) == Seen(op[u].plan.policy) = op[u].plan

\* fresh_account and plan once more, under the lock.
Check(u) ==
    /\ op[u].at = "locked"
    /\ Plannable(op[u].plan.policy) /\ AsPreviewed(u)
    /\ To(u, [op[u] EXCEPT !.at = IF op[u].plan.policy = Keep
                                   THEN "restart" ELSE "prepare"])
    /\ OnlyOp /\ UNCHANGED lock

\* The login is gone, something changed, or a resident is too old.
Refuse(u) ==
    /\ op[u].at \in {"locked", "prepare"}
    /\ Ends(u, "refused")
    /\ OnlyOp

-----------------------------------------------------------------------------
(* A permission change: residents stop before the owner; files, reload and    *)
(* start follow with the owner first; the first failure starts the rollback. *)

After(o, s, at) == IF o.todo = {s} THEN [o EXCEPT !.at = at, !.todo = Service]
                   ELSE [o EXCEPT !.todo = @ \ {s}]
OwnerFirst(o, s) == s \in o.todo /\ (Owner \in o.todo => s = Owner)
OwnerLast(o, s) == s \in o.todo /\ (s = Owner => o.todo = {s})
Attempted(o, s) == [o EXCEPT !.stopped = @ \cup {s}]
RollBack(o) == [o EXCEPT !.at = "unstop", !.todo = o.stopped]

\* Wrong: nothing is kept of the files that are about to be overwritten.
PrepareUnkept(u) ==
    /\ op[u].at = "prepare" /\ file = op[u].plan.file
    /\ To(u, [op[u] EXCEPT !.at = "stop", !.todo = Service])
    /\ UNCHANGED <<services, lock, backups, inForce, bounds>>

Prepare(u) ==
    /\ op[u].at = "prepare" /\ file = op[u].plan.file
    /\ backups' = backups \cup {op[u].plan.file}
    /\ To(u, [op[u] EXCEPT !.at = "stop", !.todo = Service])
    /\ UNCHANGED <<services, lock, inForce, bounds>>

Stop(u, s) ==
    /\ op[u].at = "stop" /\ OwnerLast(op[u], s)
    /\ Goes(s, None)
    /\ To(u, After(Attempted(op[u], s), s, "write"))
    /\ UNCHANGED <<file, known, lock, backups, inForce, bounds>>

\* Wrong: a service counts as stopped only when its stop was confirmed.
StopFailsUncounted(u, s) ==
    /\ op[u].at = "stop" /\ OwnerLast(op[u], s)
    /\ Stays \/ Goes(s, None)
    /\ To(u, RollBack(op[u]))
    /\ Fails
    /\ UNCHANGED <<file, known, lock, backups, inForce>>

\* Refused, or accepted and not seen to finish in time.
StopFails(u, s) ==
    /\ op[u].at = "stop" /\ OwnerLast(op[u], s)
    /\ Stays \/ Goes(s, None)
    /\ To(u, RollBack(Attempted(op[u], s)))
    /\ Fails
    /\ UNCHANGED <<file, known, lock, backups, inForce>>

Write(u, s) ==
    /\ op[u].at = "write" /\ OwnerFirst(op[u], s)
    /\ file' = [file EXCEPT ![s] = op[u].plan.policy]
    /\ To(u, After(op[u], s, "reload"))
    /\ UNCHANGED <<known, run, pid, loaded, working, lock, backups, inForce, bounds>>

\* Before the rename, or at the sync of the directory after it.
WriteFails(u, s) ==
    /\ op[u].at = "write" /\ OwnerFirst(op[u], s)
    /\ file' \in {file, [file EXCEPT ![s] = op[u].plan.policy]}
    /\ To(u, RollBack(op[u]))
    /\ Fails
    /\ UNCHANGED <<known, run, pid, loaded, working, lock, backups, inForce>>

Reload(u) ==
    /\ op[u].at = "reload"
    /\ known' = file
    /\ To(u, [op[u] EXCEPT !.at = "start"])
    /\ UNCHANGED <<file, run, pid, loaded, working, lock, backups, inForce, bounds>>

ReloadFails(u) ==
    /\ op[u].at = "reload"
    /\ known' \in {known, file}
    /\ To(u, RollBack(op[u]))
    /\ Fails
    /\ UNCHANGED <<file, run, pid, loaded, working, lock, backups, inForce>>

\* The manager runs the unit it has read; a running service stays as it is.
Up(s) == IF run[s] = None THEN Goes(s, known[s]) ELSE Stays

Start(u, s) ==
    /\ op[u].at = "start" /\ OwnerFirst(op[u], s)
    /\ UNCHANGED <<file, known, lock, backups, inForce, bounds>>
    /\ Up(s)
    /\ To(u, IF Matches(s)' /\ file[s] = op[u].plan.policy
             THEN After(op[u], s, "verify") ELSE RollBack(op[u]))

StartFails(u, s) ==
    /\ op[u].at = "start" /\ OwnerFirst(op[u], s)
    /\ Stays \/ Up(s)
    /\ To(u, RollBack(op[u]))
    /\ Fails
    /\ UNCHANGED <<file, known, lock, backups, inForce>>

-----------------------------------------------------------------------------
(* Verification: another process of the owner, every conversation of the plan *)
(* loaded again, and every one with the permission that was asked for.       *)

Expected(p, s) == IF p.policy = Keep THEN p.file[s] ELSE p.policy

\* Wrong: an owner that answers has been restarted.
AnotherOwnerAlways(u) == Matches(Owner) /\ file[Owner] = Expected(op[u].plan, Owner)
AnotherOwner(u) == /\ Matches(Owner) /\ file[Owner] = Expected(op[u].plan, Owner)
                   /\ pid # op[u].plan.pid

Verified(u) ==
    /\ AnotherOwner(u)
    /\ op[u].plan.loaded \subseteq loaded
    /\ op[u].plan.policy # Keep => \A r \in Resident : run[r] = op[u].plan.policy

Verify(u) ==
    /\ op[u].at = "verify" /\ Verified(u)
    /\ IF op[u].plan.policy = Keep
       THEN Ends(u, "reconnected") /\ UNCHANGED inForce
       ELSE Ends(u, "changed") /\ inForce' = file
    /\ UNCHANGED <<services, backups, bounds>>

\* 35 seconds: the restart, a subscription or the account was not as expected.
VerifyFails(u) ==
    /\ op[u].at = "verify"
    /\ IF op[u].plan.policy = Keep THEN Ends(u, "unverified")
       ELSE To(u, RollBack(op[u])) /\ UNCHANGED lock
    /\ UNCHANGED <<services, backups, inForce, bounds>>

\* One restart that is never retried; whether the command failed is ignored.
Restart(u) ==
    /\ op[u].at = "restart"
    /\ \/ Goes(Owner, known[Owner]) /\ UNCHANGED bounds
       \/ (Stays \/ Goes(Owner, None)) /\ Fails
    /\ To(u, [op[u] EXCEPT !.at = "verify"])
    /\ UNCHANGED <<file, known, lock, backups, inForce>>

-----------------------------------------------------------------------------
(* Rollback: no failure ends it early, and every one is reported.            *)

Unless(o, failed) == [o EXCEPT !.restored = @ /\ ~failed]

\* launchctl refuses to stop a service that is not loaded.
Unstop(u, s) ==
    /\ op[u].at = "unstop" /\ OwnerFirst(op[u], s)
    /\ Goes(s, None)
    /\ \E failed \in {FALSE, run[s] = None} :
          To(u, After(Unless(op[u], failed), s, "unwrite"))
    /\ UNCHANGED <<file, known, lock, backups, inForce, bounds>>

UnstopFails(u, s) ==
    /\ op[u].at = "unstop" /\ OwnerFirst(op[u], s)
    /\ Stays \/ Goes(s, None)
    /\ To(u, After(Unless(op[u], TRUE), s, "unwrite"))
    /\ Fails
    /\ UNCHANGED <<file, known, lock, backups, inForce>>

Unwrite(u, s) ==
    /\ op[u].at = "unwrite" /\ OwnerFirst(op[u], s)
    /\ file' = [file EXCEPT ![s] = op[u].plan.file[s]]
    /\ To(u, After(op[u], s, "unreload"))
    /\ UNCHANGED <<known, run, pid, loaded, working, lock, backups, inForce, bounds>>

UnwriteFails(u, s) ==
    /\ op[u].at = "unwrite" /\ OwnerFirst(op[u], s)
    /\ file' \in {file, [file EXCEPT ![s] = op[u].plan.file[s]]}
    /\ To(u, After(Unless(op[u], TRUE), s, "unreload"))
    /\ Fails
    /\ UNCHANGED <<known, run, pid, loaded, working, lock, backups, inForce>>

Unreload(u, failed) ==
    /\ op[u].at = "unreload"
    /\ IF failed THEN known' \in {known, file} /\ Fails
       ELSE known' = file /\ UNCHANGED bounds
    /\ To(u, [Unless(op[u], failed) EXCEPT !.at = "unstart", !.todo = op[u].stopped])
    /\ UNCHANGED <<file, run, pid, loaded, working, lock, backups, inForce>>

\* Wrong: the report does not say that a service could not be started.
RestartedOrEndsSilently(u, s, failed) ==
    IF op[u].todo = {s}
    THEN Ends(u, IF op[u].restored THEN "completed" ELSE "incomplete")
    ELSE To(u, [op[u] EXCEPT !.todo = @ \ {s}]) /\ UNCHANGED lock

RestartedOrEnds(u, s, failed) ==
    LET o == Unless(op[u], failed) IN
    IF o.todo = {s}
    THEN Ends(u, IF o.restored THEN "completed" ELSE "incomplete")
    ELSE To(u, [o EXCEPT !.todo = @ \ {s}]) /\ UNCHANGED lock

Unstart(u, s) ==
    /\ op[u].at = "unstart" /\ OwnerFirst(op[u], s)
    /\ UNCHANGED <<file, known, backups, inForce, bounds>>
    /\ Up(s)
    /\ RestartedOrEnds(u, s, ~(Matches(s)' /\ file[s] = op[u].plan.file[s]))

UnstartFails(u, s) ==
    /\ op[u].at = "unstart" /\ OwnerFirst(op[u], s)
    /\ Stays \/ Up(s)
    /\ RestartedOrEnds(u, s, TRUE)
    /\ Fails
    /\ UNCHANGED <<file, known, backups, inForce>>

\* The lock is the process's: it goes with it.
Die(u) ==
    /\ deaths < MaxDeaths /\ deaths' = deaths + 1
    /\ To(u, Idle)
    /\ lock' = IF lock = u THEN None ELSE lock
    /\ UNCHANGED <<services, backups, inForce, changes, edits, fails>>

-----------------------------------------------------------------------------
Change(u) ==
    \/ Prepare(u) \/ Reload(u) \/ ReloadFails(u)
    \/ \E s \in Service : \/ Stop(u, s) \/ StopFails(u, s)
                         \/ Write(u, s) \/ WriteFails(u, s)
                         \/ Start(u, s) \/ StartFails(u, s)
Undo(u) ==
    \/ \E failed \in BOOLEAN : Unreload(u, failed)
    \/ \E s \in Service : \/ Unstop(u, s) \/ UnstopFails(u, s)
                         \/ Unwrite(u, s) \/ UnwriteFails(u, s)
                         \/ Unstart(u, s) \/ UnstartFails(u, s)
Execute(u) == \/ Check(u) \/ Refuse(u) \/ Change(u) \/ Undo(u)
              \/ Restart(u) \/ Verify(u) \/ VerifyFails(u)

Next ==
    \/ \E u \in Dashboard : \/ \E p \in Policy \cup {Keep} : Preview(u, p)
                           \/ Forget(u) \/ Confirm(u) \/ Execute(u) \/ Die(u)
    \/ \E s \in Service : Restarted(s) \/ \E p \in Policy : Edit(s, p)
    \/ \E r \in Resident : Subscribe(r)
    \/ Work \/ Apply

Spec == Init /\ [][Next]_vars

-----------------------------------------------------------------------------
(* Properties.                                                             *)

Plan == [policy : Policy \cup {Keep}, file : [Service -> Policy],
         pid : Nat, loaded : SUBSET Resident]
Operation == [at : Steps, plan : Plan \cup {NoPlan}, todo : SUBSET Service,
              stopped : SUBSET Service, restored : BOOLEAN, late : SUBSET Service,
              report : Reports]

\* The values the variables take, and one dashboard at a time past the lock
\* (reconnect.rs: Job, Plan; execute, 586-594).
TypeOK ==
    /\ file \in [Service -> Policy]
    /\ known \in [Service -> Policy]
    /\ run \in [Service -> Policy \cup {None}]
    /\ pid \in Nat /\ loaded \subseteq Resident
    /\ working \in {"idle", "queued", "active"}
    /\ lock \in Dashboard \cup {None}
    /\ op \in [Dashboard -> Operation]
    /\ \A u \in Dashboard : op[u].at # "idle" => lock = u /\ op[u].plan # NoPlan
    /\ backups \subseteq [Service -> Policy]
    /\ inForce \in [Service -> Policy]
    /\ {changes, edits, fails, deaths} \subseteq Nat

Untouched(u) == Service \ op[u].late

\* What a finished operation says is so: after "changed" every file, loaded unit
\* and service has the permission; after "restoration completed" every file is
\* the original again and every service runs with it, so that none was left
\* down or changed without a word; after "reconnected" another process of the
\* owner runs, with the files and the conversations of the preview (execute,
\* 648-699).  Units saved by hand meanwhile are excepted.
ReportsTellTruth == [][
    \A u \in Dashboard : op[u].at # "idle" /\ op'[u].at = "idle" =>
        LET p == op[u].plan IN
        /\ op'[u].report = "changed" =>
              \A s \in Untouched(u) :
                 file'[s] = p.policy /\ known'[s] = p.policy /\ run'[s] = p.policy
        /\ op'[u].report = "completed" =>
              \A s \in Untouched(u) : file'[s] = p.file[s] /\ run'[s] = p.file[s]
        /\ op'[u].report = "reconnected" =>
              /\ pid' > p.pid /\ p.loaded \subseteq loaded'
              /\ \A s \in Untouched(u) : file'[s] = p.file[s] /\ run'[s] # None
    ]_vars

\* A change writes over nothing but what its user confirmed or what it wrote
\* itself, whatever other dashboards change or edits came in between preview
\* and confirmation (execute, 586-611: lock, second plan, comparison).
OverwritesOnlyWhatItSaw == [][
    \A u \in Dashboard, s \in Service :
        file'[s] # file[s] /\ op[u].at \in {"write", "unwrite"} /\ s \in Untouched(u)'
            => file[s] \in {op[u].plan.file[s], op[u].plan.policy}
    ]_vars

\* The permissions last set by hand, or last reported changed, are in a unit file
\* or in a backup, after any sequence of changes that fail, are rolled back in
\* part or die half way (execute, 637-646).
OriginalsAreKept ==
    \A s \in Service : \/ inForce[s] = file[s]
                       \/ \E b \in backups : b[s] = inForce[s]
=============================================================================
