------------------------------- MODULE Installer -------------------------------
(***************************************************************************)
(* The isolated installer of the native runtime (rust/installer.py) and the  *)
(* user service it may carry (rust/service.py).  Everything either knows is  *)
(* on disk, below one prefix: a marker that names the releases, a directory  *)
(* for each, a symlink to the current one, a launcher, and for the service a *)
(* definition and a marker of its own.  A command is a sequence of steps on  *)
(* that disk; any step may fail, which runs the command's except clause, and *)
(* the process may die between any two, which runs nothing.                  *)
(***************************************************************************)
EXTENDS FiniteSets

CONSTANTS
    Installer,   \* processes that run a command
    Release,     \* bound: names of releases, each given once
    Binary,      \* what a release may hold
    None,
    SameName     \* all processes write the prefix the same way

ASSUME InstallerConstants ==
    /\ None \notin Release \cup Binary
    /\ SameName \in BOOLEAN

VARIABLES
    prefix,     \* the directory: "absent", "bare" without a marker, or "owned"
    junk,       \* a temporary file is left at its top
    names,      \* releases the marker names
    dir,        \* what there is of each release below releases/
    sha,        \* the binary a release was made of, None if the name is free
    current,    \* where the symlink leads
    launcher,   \* the command in bin/ is there
    folder,     \* the directory of the service
    pinned,     \* the release its definition starts
    svcMarker,  \* the release its marker records, None without a marker
    loaded,     \* the release the service manager keeps running
    populated,  \* the state directory, outside the prefix, is not empty
    op          \* the command each process carries out

tree == <<prefix, junk, names, dir, sha, current, launcher>>
service == <<folder, pinned, svcMarker, loaded>>
vars == <<tree, service, populated, op>>

-----------------------------------------------------------------------------
Idle == [at |-> "idle", act |-> "none", rel |-> None, was |-> None,
         knew |-> {}, report |-> "none"]
Steps == {"idle", "claim", "copy", "publish", "register", "launch", "switch",
          "unpoint", "unlaunch", "untree", "unmark", "rmdir",
          "define", "own", "load", "unload", "undefine", "disown", "rmfolder", "return"}
Acts == {"none", "install", "upgrade", "rollback", "uninstall", "start", "stop", "remove"}

Init ==
    /\ prefix = "absent" /\ junk = FALSE
    /\ names = {}
    /\ dir = [r \in Release |-> "absent"]
    /\ sha = [r \in Release |-> None]
    /\ current = None /\ launcher = FALSE
    /\ folder = "absent" /\ pinned = None /\ svcMarker = None /\ loaded = None
    /\ populated \in BOOLEAN
    /\ op = [p \in Installer |-> Idle]

-----------------------------------------------------------------------------
(* What a command looks at before it changes anything.                     *)

\* Wrong: the lock is not taken.
FreeAlways(p) == op[p].at = "idle"

\* The lock is a file named after the prefix as it was written.
Free(p) == /\ op[p].at = "idle"
           /\ SameName => \A q \in Installer : op[q].at = "idle"

Present == {r \in Release : dir[r] # "absent"}

\* No release is missing or untracked, and current leads to one of them.
LayoutOK == /\ prefix = "owned"
            /\ Present = names
            /\ current # None => current \in names

Verified(r) == dir[r] = "whole"
Installed == LayoutOK /\ current # None /\ Verified(current)

\* Wrong: the service is not asked for.
NoServiceAlways == TRUE
NoService == svcMarker = None /\ folder = "absent"

\* _read_owned of the service: what it starts is still the current release.
OwnsService == svcMarker # None /\ svcMarker = current /\ folder = "plist"

Begins(p, act, rel, at) ==
    op' = [op EXCEPT ![p] = [at |-> at, act |-> act, rel |-> rel, was |-> current,
                             knew |-> names, report |-> "none"]]
To(p, at) == op' = [op EXCEPT ![p].at = at]
Ends(p, report) == op' = [op EXCEPT ![p] = [Idle EXCEPT !.report = report]]

OnlyOp == UNCHANGED <<tree, service, populated>>

-----------------------------------------------------------------------------
(* install and upgrade.                                                    *)

Install(p) ==
    /\ Free(p)
    /\ \/ prefix # "owned" /\ ~junk /\ Begins(p, "install", None, "claim")
       \/ /\ LayoutOK /\ NoService
          /\ current = None /\ names = {}
          /\ Begins(p, "install", None, "copy")
    /\ OnlyOp

\* An empty prefix is claimed before it is asked what is installed there.
Upgrade(p) ==
    /\ Free(p)
    /\ \/ prefix # "owned" /\ ~junk /\ Begins(p, "upgrade", None, "claim")
       \/ Installed /\ NoService /\ Begins(p, "upgrade", None, "copy")
    /\ OnlyOp

Claim(p) ==
    /\ op[p].at = "claim"
    /\ prefix' = "owned" /\ names' = {}
    /\ \/ op[p].act = "install" /\ To(p, "copy")
       \/ op[p].act = "upgrade" /\ Ends(p, "failed")
    /\ UNCHANGED <<junk, dir, sha, current, launcher, service, populated>>

\* Into a stage directory of its own.
Copy(p, r, b) ==
    /\ op[p].at = "copy" /\ sha[r] = None
    /\ sha' = [sha EXCEPT ![r] = b]
    /\ dir' = [dir EXCEPT ![r] = "staged"]
    /\ op' = [op EXCEPT ![p].at = "publish", ![p].rel = r]
    /\ UNCHANGED <<prefix, junk, names, current, launcher, service, populated>>

\* The copy has the digest of its source and has run; the stage is renamed.
Publish(p) ==
    /\ op[p].at = "publish"
    /\ dir' = [dir EXCEPT ![op[p].rel] = "whole"]
    /\ To(p, "register")
    /\ UNCHANGED <<prefix, junk, names, sha, current, launcher, service, populated>>

\* Wrong: current is switched before the rest is in place.
RegisterSwitched(p) ==
    /\ op[p].at = "register"
    /\ names' = op[p].knew \cup {op[p].rel}
    /\ current' = op[p].rel
    /\ To(p, "launch")
    /\ UNCHANGED <<prefix, junk, dir, sha, launcher, service, populated>>

\* registered is set only after the call that replaced the marker returned: if
\* the fsync after the rename raises, the release goes.
Register(p) ==
    /\ op[p].at = "register"
    /\ names' = op[p].knew \cup {op[p].rel}
    /\ \/ To(p, "launch") /\ UNCHANGED dir
       \/ /\ Ends(p, "failed")
          /\ dir' = [dir EXCEPT ![op[p].rel] = "absent"]
    /\ UNCHANGED <<prefix, junk, sha, current, launcher, service, populated>>

Launch(p) ==
    /\ op[p].at = "launch"
    /\ launcher' = TRUE
    /\ To(p, "switch")
    /\ UNCHANGED <<prefix, junk, names, dir, sha, current, service, populated>>

\* Wrong: the pointer is removed, and then made anew.
SwitchInTwo(p) ==
    /\ op[p].at = "switch"
    /\ \/ current # None /\ current' = None /\ UNCHANGED op
       \/ current = None /\ current' = op[p].rel /\ To(p, "return")
    /\ UNCHANGED <<prefix, junk, names, dir, sha, launcher, service, populated>>

\* os.replace of the pointer.
Switch(p) ==
    /\ op[p].at = "switch"
    /\ current' = op[p].rel
    /\ To(p, "return")
    /\ UNCHANGED <<prefix, junk, names, dir, sha, launcher, service, populated>>

\* The last fsync and the answer, of every command.
Finish(p) ==
    /\ op[p].at = "return"
    /\ Ends(p, "done")
    /\ OnlyOp

-----------------------------------------------------------------------------
(* rollback and uninstall.                                                 *)

\* The service is not asked for.
Rollback(p, r) ==
    /\ Free(p)
    /\ Installed
    /\ r \in names \ {current} /\ Verified(r)
    /\ populated => sha[r] = sha[current]
    /\ Begins(p, "rollback", r, "switch")
    /\ OnlyOp

Uninstall(p) ==
    /\ Free(p)
    /\ LayoutOK /\ NoService /\ ~junk
    /\ names # {} => current # None
    /\ \A r \in names : Verified(r)
    /\ Begins(p, "uninstall", None, "unpoint")
    /\ OnlyOp

\* Wrong: the pointer goes after what it leads to.
UnpointLate(p) ==
    /\ op[p].at = "unpoint"
    /\ To(p, "unlaunch")
    /\ OnlyOp

Unpoint(p) ==
    /\ op[p].at = "unpoint"
    /\ current' = None
    /\ To(p, "unlaunch")
    /\ UNCHANGED <<prefix, junk, names, dir, sha, launcher, service, populated>>

Unlaunch(p) ==
    /\ op[p].at = "unlaunch"
    /\ launcher' = FALSE
    /\ To(p, "untree")
    /\ UNCHANGED <<prefix, junk, names, dir, sha, current, service, populated>>

\* One entry after another.
Untree(p, r) ==
    /\ op[p].at = "untree" /\ r \in op[p].knew /\ dir[r] # "absent"
    /\ dir' = [dir EXCEPT ![r] = IF @ = "whole" THEN "torn" ELSE "absent"]
    /\ UNCHANGED <<prefix, junk, names, sha, current, launcher, service, populated, op>>

Untreed(p) ==
    /\ op[p].at = "untree"
    /\ \A r \in op[p].knew : dir[r] = "absent"
    /\ To(p, "unmark")
    /\ OnlyOp

Unmark(p) ==
    /\ op[p].at = "unmark"
    /\ prefix' = "bare" /\ names' = {}
    /\ To(p, "rmdir")
    /\ UNCHANGED <<junk, dir, sha, current, launcher, service, populated>>

Rmdir(p) ==
    /\ op[p].at = "rmdir"
    /\ prefix' = "absent"
    /\ To(p, "return")
    /\ UNCHANGED <<junk, names, dir, sha, current, launcher, service, populated>>

-----------------------------------------------------------------------------
(* The service.                                                            *)

ServiceInstall(p) ==
    /\ Free(p)
    /\ Installed
    /\ svcMarker = None /\ folder \in {"absent", "empty"}
    /\ Begins(p, "start", None, "define")
    /\ OnlyOp

Define(p) ==
    /\ op[p].at = "define"
    /\ folder' = "plist" /\ pinned' = current
    /\ To(p, "own")
    /\ UNCHANGED <<tree, svcMarker, loaded, populated>>

\* Wrong: started before anything records it.
OwnLate(p) ==
    /\ op[p].at = "own"
    /\ loaded' = pinned
    /\ To(p, "own")
    /\ UNCHANGED <<tree, folder, pinned, svcMarker, populated>>

Own(p) ==
    /\ op[p].at = "own"
    /\ svcMarker' = current
    /\ To(p, "load")
    /\ UNCHANGED <<tree, folder, pinned, loaded, populated>>

\* start; restart too, whose kickstart changes nothing of this.
ServiceStart(p) ==
    /\ Free(p)
    /\ Installed /\ OwnsService
    /\ Begins(p, "start", None, "load")
    /\ OnlyOp

Load(p) ==
    /\ op[p].at = "load"
    /\ loaded' = IF loaded = None THEN pinned ELSE loaded
    /\ To(p, "return")
    /\ UNCHANGED <<tree, folder, pinned, svcMarker, populated>>

ServiceStop(p) ==
    /\ Free(p)
    /\ Installed /\ OwnsService
    /\ \E act \in {"stop", "remove"} : Begins(p, act, None, "unload")
    /\ OnlyOp

\* Wrong: does not wait until the job is gone.
UnloadAsked(p) ==
    /\ op[p].at = "unload"
    /\ \/ op[p].act = "stop" /\ To(p, "return")
       \/ op[p].act = "remove" /\ To(p, "undefine")
    /\ OnlyOp

\* bootout, and the wait for it.
Unload(p) ==
    /\ op[p].at = "unload"
    /\ loaded' = None
    /\ \/ op[p].act = "stop" /\ To(p, "return")
       \/ op[p].act = "remove" /\ To(p, "undefine")
    /\ UNCHANGED <<tree, folder, pinned, svcMarker, populated>>

Undefine(p) ==
    /\ op[p].at = "undefine"
    /\ folder' = "empty" /\ pinned' = None
    /\ To(p, "disown")
    /\ UNCHANGED <<tree, svcMarker, loaded, populated>>

Disown(p) ==
    /\ op[p].at = "disown"
    /\ svcMarker' = None
    /\ To(p, "rmfolder")
    /\ UNCHANGED <<tree, folder, pinned, loaded, populated>>

RmFolder(p) ==
    /\ op[p].at = "rmfolder"
    /\ folder' = "absent"
    /\ To(p, "return")
    /\ UNCHANGED <<tree, pinned, svcMarker, loaded, populated>>

-----------------------------------------------------------------------------
(* Failure and death.                                                      *)

\* A step fails before its effect, or the fsync of the one before it raises:
\* the except clauses drop a stage, and a release while it is not registered.
Fail(p) ==
    /\ op[p].at # "idle"
    /\ Ends(p, "failed")
    /\ prefix' = IF op[p].at = "claim" /\ prefix = "absent" THEN "bare" ELSE prefix
    /\ dir' = IF op[p].at \in {"publish", "register"}
              THEN [dir EXCEPT ![op[p].rel] = "absent"] ELSE dir
    /\ folder' \in IF op[p].at = "define" THEN {folder, "empty"} ELSE {folder}
    /\ UNCHANGED <<junk, names, sha, current, launcher, pinned, svcMarker, loaded, populated>>

\* A temporary file stays where it was being written.
Die(p) ==
    /\ op[p].at # "idle"
    /\ Ends(p, "died")
    /\ \/ UNCHANGED <<prefix, junk, folder>>
       \/ /\ op[p].at \in {"claim", "register", "switch", "own"}
          /\ prefix' = IF prefix = "absent" THEN "bare" ELSE prefix
          /\ junk' \in BOOLEAN /\ (junk => junk')
          /\ UNCHANGED folder
       \/ /\ op[p].at = "define"
          /\ folder' \in {"empty", "debris"}
          /\ UNCHANGED <<prefix, junk>>
    /\ UNCHANGED <<names, dir, sha, current, launcher, pinned, svcMarker, loaded, populated>>

\* Logout, or a bootout that outlasted its wait: the definition is not where
\* a login would find it.
Unloaded ==
    /\ loaded # None /\ loaded' = None
    /\ UNCHANGED <<tree, folder, pinned, svcMarker, populated, op>>

\* The service or the launcher writes its state.
Populate ==
    /\ ~populated /\ (loaded # None \/ (current # None /\ launcher))
    /\ populated' = TRUE
    /\ UNCHANGED <<tree, service, op>>

\* By hand.
Clear ==
    /\ populated /\ populated' = FALSE
    /\ UNCHANGED <<tree, service, op>>

-----------------------------------------------------------------------------
Command(p) ==
    \/ Install(p) \/ Upgrade(p) \/ Claim(p) \/ Publish(p)
    \/ Register(p) \/ Launch(p) \/ Switch(p) \/ Finish(p)
    \/ Uninstall(p) \/ Unpoint(p) \/ Unlaunch(p) \/ Untreed(p) \/ Unmark(p) \/ Rmdir(p)
    \/ \E r \in Release : \/ Rollback(p, r) \/ Untree(p, r)
                          \/ \E b \in Binary : Copy(p, r, b)

Service(p) ==
    \/ ServiceInstall(p) \/ Define(p) \/ Own(p) \/ ServiceStart(p) \/ Load(p)
    \/ ServiceStop(p) \/ Unload(p) \/ Undefine(p) \/ Disown(p) \/ RmFolder(p)

Next ==
    \/ \E p \in Installer : Command(p) \/ Service(p) \/ Fail(p) \/ Die(p)
    \/ Unloaded \/ Populate \/ Clear

Spec == Init /\ [][Next]_vars

-----------------------------------------------------------------------------
(* Correctness.                                                            *)

Ops == [at : Steps, act : Acts, rel : Release \cup {None}, was : Release \cup {None},
        knew : SUBSET Release, report : {"none", "done", "failed", "died"}]

\* The values of the variables.
TypeOK ==
    /\ prefix \in {"absent", "bare", "owned"}
    /\ junk \in BOOLEAN
    /\ names \in SUBSET Release
    /\ dir \in [Release -> {"absent", "staged", "whole", "torn"}]
    /\ sha \in [Release -> Binary \cup {None}]
    /\ current \in Release \cup {None}
    /\ launcher \in BOOLEAN
    /\ folder \in {"absent", "empty", "debris", "plist"}
    /\ pinned \in Release \cup {None}
    /\ svcMarker \in Release \cup {None}
    /\ loaded \in Release \cup {None}
    /\ populated \in BOOLEAN
    /\ op \in [Installer -> Ops]

\* At every moment, also between the steps of a command and after one that
\* failed or died, current leads to a whole release the marker names, and the
\* launcher is there (_switch_current is last, uninstall removes current
\* first).
CurrentIsUsable ==
    current # None => current \in names /\ Verified(current) /\ launcher

\* What the service manager runs is whole on disk, and a definition and a
\* marker record it: no command deletes what runs, or forgets that it does
\* (service.py:256-270, 309-327).
RunningServiceIsOwned ==
    loaded # None => /\ folder = "plist" /\ pinned = loaded /\ svcMarker = loaded
                     /\ loaded \in names /\ Verified(loaded)

\* A command that fails or dies before it replaced the pointer leaves current
\* where it found it, and one that reports success has replaced it.  In between,
\* an fsync that raises, or a death, leaves the new release current and no
\* success reported (installer.py:452-462, 524-595).
FailureKeepsCurrent ==
    [][\A p \in Installer :
           /\ op[p].act \in {"install", "upgrade", "rollback"}
           /\ op'[p].at = "idle"
           => /\ current' = IF op[p].at = "return" THEN op[p].rel ELSE op[p].was
              /\ op'[p].report = "done" => current' = op[p].rel]_vars
=============================================================================
