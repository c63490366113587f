--------------------------- MODULE InstallerProofs ---------------------------
(***************************************************************************)
(* Proofs about Installer: for any processes, releases and binaries, if all *)
(* processes write the prefix the same way, what is current and what runs   *)
(* stay whole and recorded, whatever command fails or dies at any step.     *)
(***************************************************************************)
EXTENDS Installer, TLAPS

-----------------------------------------------------------------------------
(* The inductive invariant.                                                *)

DiskOK ==
    /\ prefix \in {"absent", "bare", "owned"}
    /\ junk \in BOOLEAN
    /\ names \in SUBSET Release
    /\ dir \in [Release -> {"absent", "staged", "whole", "torn"}]
    /\ sha \in [Release -> Binary \cup {None}]
    /\ current \in Release \cup {None}
    /\ launcher \in BOOLEAN
ServiceOK ==
    /\ folder \in {"absent", "empty", "debris", "plist"}
    /\ pinned \in Release \cup {None}
    /\ svcMarker \in Release \cup {None}
    /\ loaded \in Release \cup {None}
    /\ populated \in BOOLEAN

Alone(p) == \A q \in Installer : q # p => op[q].at = "idle"
OneAtATime == \A p \in Installer : op[p].at # "idle" => Alone(p)

\* What holds of the disk whatever runs.
Consistent ==
    /\ CurrentIsUsable /\ RunningServiceIsOwned
    /\ prefix # "owned" => names = {} /\ current = None /\ loaded = None
    /\ \A r \in names : sha[r] # None
    /\ svcMarker # None /\ folder = "plist" => pinned = svcMarker

\* What each step of a command finds.
Preparing(o) ==
    /\ o.at = "claim" => prefix # "owned"
    /\ o.at \in {"claim", "copy", "publish", "register"} => o.knew = names
    /\ o.at \in {"publish", "register"} => o.rel \in Release \ names /\ sha[o.rel] # None
    /\ o.at = "register" => dir[o.rel] = "whole"
    /\ o.at \in {"copy", "publish", "register"} => prefix = "owned"
    /\ o.at \in {"launch", "switch"} => o.rel \in names /\ dir[o.rel] = "whole"
    /\ o.at = "switch" => launcher
Removing(o) ==
    /\ o.at \in {"unpoint", "unlaunch", "untree", "unmark", "rmdir"} => loaded = None
    /\ o.at \in {"unlaunch", "untree", "unmark", "rmdir"} => current = None
    /\ o.at = "rmdir" => prefix # "owned"
Serving(o) ==
    /\ o.at \in {"define", "own", "undefine", "disown", "rmfolder"} => loaded = None
    /\ o.at \in {"define", "own", "load"} => current # None
    /\ o.at = "define" => svcMarker = None
    /\ o.at \in {"own", "load"} => folder = "plist" /\ pinned = current
    /\ o.at = "load" => svcMarker = current
Holds(o) == Preparing(o) /\ Removing(o) /\ Serving(o)

IInv == DiskOK /\ ServiceOK /\ op \in [Installer -> Ops] /\ OneAtATime
        /\ Consistent /\ \A p \in Installer : Holds(op[p])

-----------------------------------------------------------------------------
(* One process moves while the others hold nothing.                        *)

Moves(p) == \E o \in Ops : op' = [op EXCEPT ![p] = o] /\ Holds(o)'
Safe == DiskOK /\ ServiceOK /\ Consistent
StepSafe(p) == Safe' /\ Moves(p)

LEMMA MovesKeeps ==
    ASSUME IInv, NEW p \in Installer, Alone(p), Moves(p)
    PROVE  /\ op' \in [Installer -> Ops] /\ OneAtATime'
           /\ \A q \in Installer : Holds(op[q])'
<1>1. PICK o \in Ops : op' = [op EXCEPT ![p] = o] /\ Holds(o)'
  BY DEF Moves
<1>2. op' \in [Installer -> Ops] /\ op'[p] = o
      /\ \A q \in Installer \ {p} : op'[q] = op[q] /\ op[q].at = "idle"
  BY <1>1 DEF IInv, Alone
<1>3. OneAtATime'
  BY <1>2 DEF OneAtATime, Alone
<1>4. ASSUME NEW q \in Installer PROVE Holds(op[q])'
  <2>1. CASE q = p
    BY <1>1, <1>2, <2>1 DEF Holds, Preparing, Removing, Serving
  <2>2. CASE q # p
    BY <1>2, <2>2 DEF Holds, Preparing, Removing, Serving
  <2> QED BY <2>1, <2>2
<1> QED BY <1>2, <1>3, <1>4

LEMMA IdleHolds ==
    ASSUME NEW o, o.at = "idle"
    PROVE  Holds(o)'
  BY DEF Holds, Preparing, Removing, Serving

LEMMA EndsMoves ==
    ASSUME NEW p \in Installer, NEW report \in {"none", "done", "failed", "died"}, Ends(p, report)
    PROVE  Moves(p)
<1> DEFINE o == [Idle EXCEPT !.report = report]
<1>1. o \in Ops /\ o.at = "idle"
  BY DEF Ops, Idle, Steps, Acts
<1>2. op' = [op EXCEPT ![p] = o]
  BY DEF Ends
<1>3. Holds(o)'
  BY <1>1, IdleHolds
<1> QED BY <1>1, <1>2, <1>3 DEF Moves

\* A command goes on to its next step, or begins with one.
LEMMA ToIs ==
    ASSUME op \in [Installer -> Ops], NEW p \in Installer, NEW at \in Steps, To(p, at)
    PROVE  \E o \in Ops : /\ op' = [op EXCEPT ![p] = o]
                          /\ o.at = at /\ o.rel = op[p].rel /\ o.knew = op[p].knew
                          /\ o.act = op[p].act /\ o.was = op[p].was
<1> DEFINE o == [op[p] EXCEPT !.at = at]
<1>1. o \in Ops /\ o.at = at /\ o.rel = op[p].rel /\ o.knew = op[p].knew
      /\ o.act = op[p].act /\ o.was = op[p].was
  BY DEF Ops
<1>2. op' = [op EXCEPT ![p] = o]
  BY DEF To
<1> QED BY <1>1, <1>2

LEMMA BeginsIs ==
    ASSUME DiskOK, NEW p \in Installer, NEW act \in Acts, NEW rel \in Release \cup {None},
           NEW at \in Steps, Begins(p, act, rel, at)
    PROVE  \E o \in Ops : /\ op' = [op EXCEPT ![p] = o]
                          /\ o.at = at /\ o.rel = rel /\ o.knew = names
                          /\ o.act = act /\ o.was = current
<1> DEFINE o == [at |-> at, act |-> act, rel |-> rel, was |-> current,
                 knew |-> names, report |-> "none"]
<1>1. o \in Ops /\ o.at = at /\ o.rel = rel /\ o.knew = names
      /\ o.act = act /\ o.was = current
  BY DEF Ops, DiskOK
<1>2. op' = [op EXCEPT ![p] = o]
  BY DEF Begins
<1> QED BY <1>1, <1>2

\* Before it returns, a command relies on nothing any more.
LEMMA ReturnMoves ==
    ASSUME op \in [Installer -> Ops], NEW p \in Installer, To(p, "return")
    PROVE  Moves(p)
<1>1. "return" \in Steps
  BY DEF Steps
<1>2. PICK o \in Ops : op' = [op EXCEPT ![p] = o] /\ o.at = "return"
  BY <1>1, ToIs
<1>3. Holds(o)'
  BY <1>2 DEF Holds, Preparing, Removing, Serving
<1> QED BY <1>2, <1>3 DEF Moves

-----------------------------------------------------------------------------
(* The steps of the commands.                                              *)

LEMMA Begun ==
    ASSUME IInv, NEW p \in Installer, NEW act \in Acts, NEW rel \in Release \cup {None},
           NEW at \in Steps, Begins(p, act, rel, at), OnlyOp,
           \A o \in Ops : o.at = at /\ o.rel = rel /\ o.knew = names => Holds(o)
    PROVE  StepSafe(p)
<1>1. Safe'
  BY DEF IInv, Safe, OnlyOp, tree, service, DiskOK, ServiceOK, Consistent,
     CurrentIsUsable, RunningServiceIsOwned, Verified
<1>2. PICK o \in Ops : op' = [op EXCEPT ![p] = o] /\ o.at = at /\ o.rel = rel /\ o.knew = names
  BY BeginsIs DEF IInv
<1>3. Holds(o)
  BY <1>2
<1>4. Holds(o)'
  BY <1>3 DEF OnlyOp, tree, service, Holds, Preparing, Removing, Serving
<1> QED BY <1>1, <1>2, <1>4 DEF StepSafe, Moves

LEMMA InstallSafe ==
    ASSUME IInv, NEW p \in Installer, Install(p)
    PROVE  StepSafe(p)
<1>1. OnlyOp /\ \E at \in {"claim", "copy"} : Begins(p, "install", None, at)
                                             /\ (at = "claim" <=> prefix # "owned")
  BY DEF Install, LayoutOK
<1>2. PICK at \in {"claim", "copy"} : Begins(p, "install", None, at) /\ (at = "claim" <=> prefix # "owned")
  BY <1>1
<1>3. ASSUME NEW o \in Ops, o.at = at, o.rel = None, o.knew = names
      PROVE Holds(o)
  BY <1>2, <1>3 DEF Holds, Preparing, Removing, Serving
<1>4. "install" \in Acts /\ at \in Steps
  BY DEF Acts, Steps
<1> QED BY <1>1, <1>2, <1>3, <1>4, Begun

LEMMA UpgradeSafe ==
    ASSUME IInv, NEW p \in Installer, Upgrade(p)
    PROVE  StepSafe(p)
<1>1. OnlyOp /\ \E at \in {"claim", "copy"} : Begins(p, "upgrade", None, at)
                                             /\ (at = "claim" <=> prefix # "owned")
  BY DEF Upgrade, Installed, LayoutOK
<1>2. PICK at \in {"claim", "copy"} : Begins(p, "upgrade", None, at) /\ (at = "claim" <=> prefix # "owned")
  BY <1>1
<1>3. ASSUME NEW o \in Ops, o.at = at, o.rel = None, o.knew = names
      PROVE Holds(o)
  BY <1>2, <1>3 DEF Holds, Preparing, Removing, Serving
<1>4. "upgrade" \in Acts /\ at \in Steps
  BY DEF Acts, Steps
<1> QED BY <1>1, <1>2, <1>3, <1>4, Begun

LEMMA RollbackSafe ==
    ASSUME IInv, NEW p \in Installer, NEW r \in Release, Rollback(p, r)
    PROVE  StepSafe(p)
<1>1. Begins(p, "rollback", r, "switch") /\ OnlyOp
  BY DEF Rollback
<1>2. ASSUME NEW o \in Ops, o.at = "switch", o.rel = r, o.knew = names
      PROVE Holds(o)
  BY <1>2 DEF Rollback, Installed, LayoutOK, IInv, Holds, Preparing, Removing,
     Serving, DiskOK, ServiceOK, Consistent, CurrentIsUsable, RunningServiceIsOwned,
     Verified
<1>3. "rollback" \in Acts /\ r \in Release \cup {None} /\ "switch" \in Steps
  BY DEF Acts, Steps
<1> QED BY <1>1, <1>2, <1>3, Begun

LEMMA UninstallSafe ==
    ASSUME IInv, NEW p \in Installer, Uninstall(p)
    PROVE  StepSafe(p)
<1>1. Begins(p, "uninstall", None, "unpoint") /\ OnlyOp
  BY DEF Uninstall
<1>2. ASSUME NEW o \in Ops, o.at = "unpoint", o.rel = None, o.knew = names
      PROVE Holds(o)
  BY <1>2, InstallerConstants DEF Uninstall, NoService, IInv, Holds, Preparing,
     Removing, Serving, DiskOK, ServiceOK, Consistent, CurrentIsUsable,
     RunningServiceIsOwned, Verified
<1>3. "uninstall" \in Acts /\ None \in Release \cup {None} /\ "unpoint" \in Steps
  BY DEF Acts, Steps
<1> QED BY <1>1, <1>2, <1>3, Begun

LEMMA ServiceInstallSafe ==
    ASSUME IInv, NEW p \in Installer, ServiceInstall(p)
    PROVE  StepSafe(p)
<1>1. Begins(p, "start", None, "define") /\ OnlyOp
  BY DEF ServiceInstall
<1>2. ASSUME NEW o \in Ops, o.at = "define", o.rel = None, o.knew = names
      PROVE Holds(o)
  BY <1>2, InstallerConstants DEF ServiceInstall, Installed, IInv, Holds, Preparing,
     Removing, Serving, DiskOK, ServiceOK, Consistent, CurrentIsUsable,
     RunningServiceIsOwned, Verified
<1>3. "start" \in Acts /\ None \in Release \cup {None} /\ "define" \in Steps
  BY DEF Acts, Steps
<1> QED BY <1>1, <1>2, <1>3, Begun

LEMMA ServiceStartSafe ==
    ASSUME IInv, NEW p \in Installer, ServiceStart(p)
    PROVE  StepSafe(p)
<1>1. Begins(p, "start", None, "load") /\ OnlyOp
  BY DEF ServiceStart
<1>2. ASSUME NEW o \in Ops, o.at = "load", o.rel = None, o.knew = names
      PROVE Holds(o)
  BY <1>2 DEF ServiceStart, Installed, OwnsService, IInv, Holds, Preparing, Removing,
     Serving, DiskOK, ServiceOK, Consistent, CurrentIsUsable, RunningServiceIsOwned,
     Verified
<1>3. "start" \in Acts /\ None \in Release \cup {None} /\ "load" \in Steps
  BY DEF Acts, Steps
<1> QED BY <1>1, <1>2, <1>3, Begun

LEMMA ServiceStopSafe ==
    ASSUME IInv, NEW p \in Installer, ServiceStop(p)
    PROVE  StepSafe(p)
<1>1. PICK act \in {"stop", "remove"} : Begins(p, act, None, "unload")
  BY DEF ServiceStop
<1>2. OnlyOp
  BY DEF ServiceStop
<1>3. ASSUME NEW o \in Ops, o.at = "unload", o.rel = None, o.knew = names
      PROVE Holds(o)
  BY <1>3 DEF Holds, Preparing, Removing, Serving
<1>4. act \in Acts /\ "unload" \in Steps
  BY DEF Acts, Steps
<1> QED BY <1>1, <1>2, <1>3, <1>4, Begun

LEMMA ClaimSafe ==
    ASSUME IInv, NEW p \in Installer, Claim(p)
    PROVE  StepSafe(p)
<1>1. /\ DiskOK /\ ServiceOK /\ Consistent
      /\ op[p] \in Ops /\ Holds(op[p])
  BY DEF IInv
<1>2. DiskOK'
  BY <1>1 DEF Claim, tree, service, Ops, DiskOK
<1>3. ServiceOK'
  BY <1>1 DEF Claim, tree, service, DiskOK, ServiceOK
<1>4. Consistent'
  BY <1>1, InstallerConstants DEF Claim, tree, service, Holds, Preparing, Removing,
     Serving, DiskOK, ServiceOK, Consistent, CurrentIsUsable, RunningServiceIsOwned,
     Verified
<1>5. Safe'
  BY <1>2, <1>3, <1>4 DEF Safe
<1>6. ASSUME To(p, "copy") PROVE Moves(p)
  <2>1. "copy" \in Steps
    BY DEF Steps
  <2>2. PICK o \in Ops : /\ op' = [op EXCEPT ![p] = o] /\ o.at = "copy"
                         /\ o.rel = op[p].rel /\ o.knew = op[p].knew
    BY <1>6, <2>1, ToIs DEF IInv
  <2>3. Holds(o)'
    BY <2>2, InstallerConstants DEF Claim, IInv, tree, service, Holds, Preparing,
       Removing, Serving, DiskOK, ServiceOK, Consistent, CurrentIsUsable,
       RunningServiceIsOwned, Verified
  <2> QED BY <2>2, <2>3 DEF Moves
<1>7. ASSUME Ends(p, "failed") PROVE Moves(p)
  BY <1>7, EndsMoves
<1>8. To(p, "copy") \/ Ends(p, "failed")
  BY DEF Claim
<1> QED BY <1>5, <1>6, <1>7, <1>8 DEF StepSafe

LEMMA CopySafe ==
    ASSUME IInv, NEW p \in Installer, NEW r \in Release, NEW b \in Binary, Copy(p, r, b)
    PROVE  StepSafe(p)
<1>1. Safe'
  BY InstallerConstants DEF Copy, IInv, Safe, tree, service, DiskOK, ServiceOK,
     Consistent, CurrentIsUsable, RunningServiceIsOwned, Verified
<1>2. PICK o : o = [op[p] EXCEPT !.at = "publish", !.rel = r]
  OBVIOUS
<1>3. o \in Ops /\ o.at = "publish" /\ o.rel = r /\ o.knew = op[p].knew
  BY <1>2 DEF Ops, Steps, IInv
<1>4. op' = [op EXCEPT ![p] = o]
  BY <1>2 DEF Copy
<1>5. Holds(o)'
  BY <1>3, InstallerConstants DEF Copy, IInv, service, Holds, Preparing, Removing,
     Serving, DiskOK, ServiceOK, Consistent, CurrentIsUsable, RunningServiceIsOwned,
     Verified
<1> QED BY <1>1, <1>3, <1>4, <1>5 DEF StepSafe, Moves

LEMMA PublishSafe ==
    ASSUME IInv, NEW p \in Installer, Publish(p)
    PROVE  StepSafe(p)
<1>1. /\ DiskOK /\ ServiceOK /\ Consistent
      /\ op[p] \in Ops /\ Holds(op[p])
  BY DEF IInv
<1>2. DiskOK'
  BY <1>1 DEF Publish, tree, service, Ops, DiskOK
<1>3. ServiceOK'
  BY <1>1 DEF Publish, tree, service, DiskOK, ServiceOK
<1>4. Consistent'
  BY <1>1, InstallerConstants DEF Publish, tree, service, Holds, Preparing, Removing,
     Serving, DiskOK, ServiceOK, Consistent, CurrentIsUsable, RunningServiceIsOwned,
     Verified
<1>5. Safe'
  BY <1>2, <1>3, <1>4 DEF Safe
<1>6. ASSUME To(p, "register") PROVE Moves(p)
  <2>1. "register" \in Steps
    BY DEF Steps
  <2>2. PICK o \in Ops : /\ op' = [op EXCEPT ![p] = o] /\ o.at = "register"
                         /\ o.rel = op[p].rel /\ o.knew = op[p].knew
    BY <1>6, <2>1, ToIs DEF IInv
  <2>3. Holds(o)'
    BY <2>2, InstallerConstants DEF Publish, IInv, tree, service, Holds, Preparing,
       Removing, Serving, DiskOK, ServiceOK, Consistent, CurrentIsUsable,
       RunningServiceIsOwned, Verified
  <2> QED BY <2>2, <2>3 DEF Moves
<1>7. To(p, "register")
  BY DEF Publish
<1> QED BY <1>5, <1>6, <1>7 DEF StepSafe

LEMMA RegisterSafe ==
    ASSUME IInv, NEW p \in Installer, Register(p)
    PROVE  StepSafe(p)
<1>1. /\ DiskOK /\ ServiceOK /\ Consistent
      /\ op[p] \in Ops /\ Holds(op[p]) /\ op[p].at = "register"
  BY DEF IInv, Register
<1>2. PICK r \in Release : r = op[p].rel /\ r \notin names /\ sha[r] # None /\ dir[r] = "whole"
  BY <1>1 DEF Holds, Preparing
<1>3. names' = names \cup {r}
  BY <1>1, <1>2 DEF Register, Holds, Preparing
<1>4. UNCHANGED <<prefix, junk, sha, current, launcher, folder, pinned, svcMarker, loaded, populated>>
  BY DEF Register, service
<1>5. dir' = dir \/ dir' = [dir EXCEPT ![r] = "absent"]
  BY <1>2 DEF Register
<1>6. dir' \in [Release -> {"absent", "staged", "whole", "torn"}]
  BY <1>1, <1>5 DEF DiskOK
<1>7. DiskOK'
  BY <1>1, <1>3, <1>4, <1>6 DEF DiskOK
<1>8. ServiceOK'
  BY <1>1, <1>4 DEF ServiceOK
<1>9. DiskOK' /\ ServiceOK'
  BY <1>7, <1>8
<1>10. prefix # "owned" => names = {} /\ current = None /\ loaded = None
  BY <1>1 DEF Consistent
<1>11. Consistent'
  BY <1>1, <1>2, <1>3, <1>4, <1>5, <1>10 DEF DiskOK, Consistent, CurrentIsUsable,
     RunningServiceIsOwned, Verified, Holds, Preparing
<1>12. CASE To(p, "launch") /\ dir' = dir
  <2>1. "launch" \in Steps
    BY DEF Steps
  <2>2. PICK o \in Ops : /\ op' = [op EXCEPT ![p] = o] /\ o.at = "launch"
                         /\ o.rel = op[p].rel /\ o.knew = op[p].knew
    BY <1>12, <2>1, ToIs DEF IInv
  <2>3. Holds(o)'
    BY <1>2, <1>3, <1>12, <2>2 DEF Holds, Preparing, Removing, Serving
  <2> QED BY <1>9, <1>11, <2>2, <2>3 DEF StepSafe, Safe, Moves
<1>13. CASE Ends(p, "failed")
  BY <1>9, <1>11, <1>13, EndsMoves DEF StepSafe, Safe
<1> QED BY <1>12, <1>13 DEF Register

LEMMA LaunchSafe ==
    ASSUME IInv, NEW p \in Installer, Launch(p)
    PROVE  StepSafe(p)
<1>1. /\ DiskOK /\ ServiceOK /\ Consistent
      /\ op[p] \in Ops /\ Holds(op[p])
  BY DEF IInv
<1>2. DiskOK'
  BY <1>1 DEF Launch, tree, service, Ops, DiskOK
<1>3. ServiceOK'
  BY <1>1 DEF Launch, tree, service, DiskOK, ServiceOK
<1>4. Consistent'
  BY <1>1, InstallerConstants DEF Launch, tree, service, Holds, Preparing, Removing,
     Serving, DiskOK, ServiceOK, Consistent, CurrentIsUsable, RunningServiceIsOwned,
     Verified
<1>5. Safe'
  BY <1>2, <1>3, <1>4 DEF Safe
<1>6. ASSUME To(p, "switch") PROVE Moves(p)
  <2>1. "switch" \in Steps
    BY DEF Steps
  <2>2. PICK o \in Ops : /\ op' = [op EXCEPT ![p] = o] /\ o.at = "switch"
                         /\ o.rel = op[p].rel /\ o.knew = op[p].knew
    BY <1>6, <2>1, ToIs DEF IInv
  <2>3. Holds(o)'
    BY <2>2, InstallerConstants DEF Launch, IInv, tree, service, Holds, Preparing,
       Removing, Serving, DiskOK, ServiceOK, Consistent, CurrentIsUsable,
       RunningServiceIsOwned, Verified
  <2> QED BY <2>2, <2>3 DEF Moves
<1>7. To(p, "switch")
  BY DEF Launch
<1> QED BY <1>5, <1>6, <1>7 DEF StepSafe

LEMMA SwitchSafe ==
    ASSUME IInv, NEW p \in Installer, Switch(p)
    PROVE  StepSafe(p)
<1>1. /\ DiskOK /\ ServiceOK /\ Consistent
      /\ op[p] \in Ops /\ Holds(op[p])
  BY DEF IInv
<1>2. DiskOK'
  BY <1>1 DEF Switch, tree, service, Ops, DiskOK
<1>3. ServiceOK'
  BY <1>1 DEF Switch, tree, service, DiskOK, ServiceOK
<1>4. Consistent'
  BY <1>1, InstallerConstants DEF Switch, tree, service, Holds, Preparing, Removing,
     Serving, DiskOK, ServiceOK, Consistent, CurrentIsUsable, RunningServiceIsOwned,
     Verified
<1>5. Safe'
  BY <1>2, <1>3, <1>4 DEF Safe
<1>6. Moves(p)
  BY ReturnMoves DEF Switch, IInv
<1> QED BY <1>5, <1>6 DEF StepSafe

LEMMA FinishSafe ==
    ASSUME IInv, NEW p \in Installer, Finish(p)
    PROVE  StepSafe(p)
<1>1. Safe'
  BY DEF Finish, IInv, Safe, OnlyOp, tree, service, DiskOK, ServiceOK, Consistent,
     CurrentIsUsable, RunningServiceIsOwned, Verified
<1>2. Moves(p)
  BY EndsMoves DEF Finish
<1> QED BY <1>1, <1>2 DEF StepSafe

LEMMA UnpointSafe ==
    ASSUME IInv, NEW p \in Installer, Unpoint(p)
    PROVE  StepSafe(p)
<1>1. /\ DiskOK /\ ServiceOK /\ Consistent
      /\ op[p] \in Ops /\ Holds(op[p])
  BY DEF IInv
<1>2. DiskOK'
  BY <1>1 DEF Unpoint, tree, service, Ops, DiskOK
<1>3. ServiceOK'
  BY <1>1 DEF Unpoint, tree, service, DiskOK, ServiceOK
<1>4. Consistent'
  BY <1>1, InstallerConstants DEF Unpoint, tree, service, Holds, Preparing, Removing,
     Serving, DiskOK, ServiceOK, Consistent, CurrentIsUsable, RunningServiceIsOwned,
     Verified
<1>5. Safe'
  BY <1>2, <1>3, <1>4 DEF Safe
<1>6. ASSUME To(p, "unlaunch") PROVE Moves(p)
  <2>1. "unlaunch" \in Steps
    BY DEF Steps
  <2>2. PICK o \in Ops : /\ op' = [op EXCEPT ![p] = o] /\ o.at = "unlaunch"
                         /\ o.rel = op[p].rel /\ o.knew = op[p].knew
    BY <1>6, <2>1, ToIs DEF IInv
  <2>3. Holds(o)'
    BY <2>2, InstallerConstants DEF Unpoint, IInv, tree, service, Holds, Preparing,
       Removing, Serving, DiskOK, ServiceOK, Consistent, CurrentIsUsable,
       RunningServiceIsOwned, Verified
  <2> QED BY <2>2, <2>3 DEF Moves
<1>7. To(p, "unlaunch")
  BY DEF Unpoint
<1> QED BY <1>5, <1>6, <1>7 DEF StepSafe

LEMMA UnlaunchSafe ==
    ASSUME IInv, NEW p \in Installer, Unlaunch(p)
    PROVE  StepSafe(p)
<1>1. /\ DiskOK /\ ServiceOK /\ Consistent
      /\ op[p] \in Ops /\ Holds(op[p])
  BY DEF IInv
<1>2. DiskOK'
  BY <1>1 DEF Unlaunch, tree, service, Ops, DiskOK
<1>3. ServiceOK'
  BY <1>1 DEF Unlaunch, tree, service, DiskOK, ServiceOK
<1>4. Consistent'
  BY <1>1, InstallerConstants DEF Unlaunch, tree, service, Holds, Preparing, Removing,
     Serving, DiskOK, ServiceOK, Consistent, CurrentIsUsable, RunningServiceIsOwned,
     Verified
<1>5. Safe'
  BY <1>2, <1>3, <1>4 DEF Safe
<1>6. ASSUME To(p, "untree") PROVE Moves(p)
  <2>1. "untree" \in Steps
    BY DEF Steps
  <2>2. PICK o \in Ops : /\ op' = [op EXCEPT ![p] = o] /\ o.at = "untree"
                         /\ o.rel = op[p].rel /\ o.knew = op[p].knew
    BY <1>6, <2>1, ToIs DEF IInv
  <2>3. Holds(o)'
    BY <2>2, InstallerConstants DEF Unlaunch, IInv, tree, service, Holds, Preparing,
       Removing, Serving, DiskOK, ServiceOK, Consistent, CurrentIsUsable,
       RunningServiceIsOwned, Verified
  <2> QED BY <2>2, <2>3 DEF Moves
<1>7. To(p, "untree")
  BY DEF Unlaunch
<1> QED BY <1>5, <1>6, <1>7 DEF StepSafe

LEMMA UntreeSafe ==
    ASSUME IInv, NEW p \in Installer, NEW r \in Release, Untree(p, r)
    PROVE  StepSafe(p)
<1>1. Safe'
  BY InstallerConstants DEF Untree, IInv, Safe, service, Holds, Preparing, Removing,
     Serving, DiskOK, ServiceOK, Consistent, CurrentIsUsable, RunningServiceIsOwned,
     Verified
<1>2. PICK o : o = op[p]
  OBVIOUS
<1>3. o \in Ops /\ Holds(o) /\ o.at = "untree" /\ op' = [op EXCEPT ![p] = o]
  BY <1>2 DEF Untree, IInv
<1>4. Holds(o)'
  BY <1>3 DEF Untree, service, Holds, Preparing, Removing, Serving
<1>5. Moves(p)
  BY <1>3, <1>4 DEF Moves
<1> QED BY <1>1, <1>5 DEF StepSafe

LEMMA UntreedSafe ==
    ASSUME IInv, NEW p \in Installer, Untreed(p)
    PROVE  StepSafe(p)
<1>1. /\ DiskOK /\ ServiceOK /\ Consistent
      /\ op[p] \in Ops /\ Holds(op[p])
  BY DEF IInv
<1>2. DiskOK'
  BY <1>1 DEF Untreed, OnlyOp, tree, service, Ops, DiskOK
<1>3. ServiceOK'
  BY <1>1 DEF Untreed, OnlyOp, tree, service, DiskOK, ServiceOK
<1>4. Consistent'
  BY <1>1, InstallerConstants DEF Untreed, OnlyOp, tree, service, Holds, Preparing,
     Removing, Serving, DiskOK, ServiceOK, Consistent, CurrentIsUsable,
     RunningServiceIsOwned, Verified
<1>5. Safe'
  BY <1>2, <1>3, <1>4 DEF Safe
<1>6. ASSUME To(p, "unmark") PROVE Moves(p)
  <2>1. "unmark" \in Steps
    BY DEF Steps
  <2>2. PICK o \in Ops : /\ op' = [op EXCEPT ![p] = o] /\ o.at = "unmark"
                         /\ o.rel = op[p].rel /\ o.knew = op[p].knew
    BY <1>6, <2>1, ToIs DEF IInv
  <2>3. Holds(o)'
    BY <2>2, InstallerConstants DEF Untreed, IInv, OnlyOp, tree, service, Holds,
       Preparing, Removing, Serving, DiskOK, ServiceOK, Consistent, CurrentIsUsable,
       RunningServiceIsOwned, Verified
  <2> QED BY <2>2, <2>3 DEF Moves
<1>7. To(p, "unmark")
  BY DEF Untreed
<1> QED BY <1>5, <1>6, <1>7 DEF StepSafe

LEMMA UnmarkSafe ==
    ASSUME IInv, NEW p \in Installer, Unmark(p)
    PROVE  StepSafe(p)
<1>1. /\ DiskOK /\ ServiceOK /\ Consistent
      /\ op[p] \in Ops /\ Holds(op[p])
  BY DEF IInv
<1>2. DiskOK'
  BY <1>1 DEF Unmark, tree, service, Ops, DiskOK
<1>3. ServiceOK'
  BY <1>1 DEF Unmark, tree, service, DiskOK, ServiceOK
<1>4. Consistent'
  BY <1>1, InstallerConstants DEF Unmark, tree, service, Holds, Preparing, Removing,
     Serving, DiskOK, ServiceOK, Consistent, CurrentIsUsable, RunningServiceIsOwned,
     Verified
<1>5. Safe'
  BY <1>2, <1>3, <1>4 DEF Safe
<1>6. ASSUME To(p, "rmdir") PROVE Moves(p)
  <2>1. "rmdir" \in Steps
    BY DEF Steps
  <2>2. PICK o \in Ops : /\ op' = [op EXCEPT ![p] = o] /\ o.at = "rmdir"
                         /\ o.rel = op[p].rel /\ o.knew = op[p].knew
    BY <1>6, <2>1, ToIs DEF IInv
  <2>3. Holds(o)'
    BY <2>2, InstallerConstants DEF Unmark, IInv, tree, service, Holds, Preparing,
       Removing, Serving, DiskOK, ServiceOK, Consistent, CurrentIsUsable,
       RunningServiceIsOwned, Verified
  <2> QED BY <2>2, <2>3 DEF Moves
<1>7. To(p, "rmdir")
  BY DEF Unmark
<1> QED BY <1>5, <1>6, <1>7 DEF StepSafe

LEMMA RmdirSafe ==
    ASSUME IInv, NEW p \in Installer, Rmdir(p)
    PROVE  StepSafe(p)
<1>1. /\ DiskOK /\ ServiceOK /\ Consistent
      /\ op[p] \in Ops /\ Holds(op[p])
  BY DEF IInv
<1>2. DiskOK'
  BY <1>1 DEF Rmdir, tree, service, Ops, DiskOK
<1>3. ServiceOK'
  BY <1>1 DEF Rmdir, tree, service, DiskOK, ServiceOK
<1>4. Consistent'
  BY <1>1, InstallerConstants DEF Rmdir, tree, service, Holds, Preparing, Removing,
     Serving, DiskOK, ServiceOK, Consistent, CurrentIsUsable, RunningServiceIsOwned,
     Verified
<1>5. Safe'
  BY <1>2, <1>3, <1>4 DEF Safe
<1>6. Moves(p)
  BY ReturnMoves DEF Rmdir, IInv
<1> QED BY <1>5, <1>6 DEF StepSafe

LEMMA DefineSafe ==
    ASSUME IInv, NEW p \in Installer, Define(p)
    PROVE  StepSafe(p)
<1>1. /\ DiskOK /\ ServiceOK /\ Consistent
      /\ op[p] \in Ops /\ Holds(op[p])
  BY DEF IInv
<1>2. DiskOK'
  BY <1>1 DEF Define, tree, service, Ops, DiskOK
<1>3. ServiceOK'
  BY <1>1 DEF Define, tree, service, DiskOK, ServiceOK
<1>4. Consistent'
  BY <1>1, InstallerConstants DEF Define, tree, service, Holds, Preparing, Removing,
     Serving, DiskOK, ServiceOK, Consistent, CurrentIsUsable, RunningServiceIsOwned,
     Verified
<1>5. Safe'
  BY <1>2, <1>3, <1>4 DEF Safe
<1>6. ASSUME To(p, "own") PROVE Moves(p)
  <2>1. "own" \in Steps
    BY DEF Steps
  <2>2. PICK o \in Ops : /\ op' = [op EXCEPT ![p] = o] /\ o.at = "own"
                         /\ o.rel = op[p].rel /\ o.knew = op[p].knew
    BY <1>6, <2>1, ToIs DEF IInv
  <2>3. Holds(o)'
    BY <2>2, InstallerConstants DEF Define, IInv, tree, service, Holds, Preparing,
       Removing, Serving, DiskOK, ServiceOK, Consistent, CurrentIsUsable,
       RunningServiceIsOwned, Verified
  <2> QED BY <2>2, <2>3 DEF Moves
<1>7. To(p, "own")
  BY DEF Define
<1> QED BY <1>5, <1>6, <1>7 DEF StepSafe

LEMMA OwnSafe ==
    ASSUME IInv, NEW p \in Installer, Own(p)
    PROVE  StepSafe(p)
<1>1. /\ DiskOK /\ ServiceOK /\ Consistent
      /\ op[p] \in Ops /\ Holds(op[p])
  BY DEF IInv
<1>2. DiskOK'
  BY <1>1 DEF Own, tree, service, Ops, DiskOK
<1>3. ServiceOK'
  BY <1>1 DEF Own, tree, service, DiskOK, ServiceOK
<1>4. Consistent'
  BY <1>1, InstallerConstants DEF Own, tree, service, Holds, Preparing, Removing,
     Serving, DiskOK, ServiceOK, Consistent, CurrentIsUsable, RunningServiceIsOwned,
     Verified
<1>5. Safe'
  BY <1>2, <1>3, <1>4 DEF Safe
<1>6. ASSUME To(p, "load") PROVE Moves(p)
  <2>1. "load" \in Steps
    BY DEF Steps
  <2>2. PICK o \in Ops : /\ op' = [op EXCEPT ![p] = o] /\ o.at = "load"
                         /\ o.rel = op[p].rel /\ o.knew = op[p].knew
    BY <1>6, <2>1, ToIs DEF IInv
  <2>3. Holds(o)'
    BY <2>2, InstallerConstants DEF Own, IInv, tree, service, Holds, Preparing,
       Removing, Serving, DiskOK, ServiceOK, Consistent, CurrentIsUsable,
       RunningServiceIsOwned, Verified
  <2> QED BY <2>2, <2>3 DEF Moves
<1>7. To(p, "load")
  BY DEF Own
<1> QED BY <1>5, <1>6, <1>7 DEF StepSafe

LEMMA LoadSafe ==
    ASSUME IInv, NEW p \in Installer, Load(p)
    PROVE  StepSafe(p)
<1>1. /\ DiskOK /\ ServiceOK /\ Consistent
      /\ op[p] \in Ops /\ Holds(op[p])
  BY DEF IInv
<1>2. DiskOK'
  BY <1>1 DEF Load, tree, service, Ops, DiskOK
<1>3. ServiceOK'
  BY <1>1 DEF Load, tree, service, DiskOK, ServiceOK
<1>4. Consistent'
  BY <1>1, InstallerConstants DEF Load, tree, service, Holds, Preparing, Removing,
     Serving, DiskOK, ServiceOK, Consistent, CurrentIsUsable, RunningServiceIsOwned,
     Verified
<1>5. Safe'
  BY <1>2, <1>3, <1>4 DEF Safe
<1>6. Moves(p)
  BY ReturnMoves DEF Load, IInv
<1> QED BY <1>5, <1>6 DEF StepSafe

LEMMA UnloadSafe ==
    ASSUME IInv, NEW p \in Installer, Unload(p)
    PROVE  StepSafe(p)
<1>1. /\ DiskOK /\ ServiceOK /\ Consistent
      /\ op[p] \in Ops /\ Holds(op[p])
  BY DEF IInv
<1>2. DiskOK'
  BY <1>1 DEF Unload, tree, service, Ops, DiskOK
<1>3. ServiceOK'
  BY <1>1 DEF Unload, tree, service, DiskOK, ServiceOK
<1>4. Consistent'
  BY <1>1, InstallerConstants DEF Unload, tree, service, Holds, Preparing, Removing,
     Serving, DiskOK, ServiceOK, Consistent, CurrentIsUsable, RunningServiceIsOwned,
     Verified
<1>5. Safe'
  BY <1>2, <1>3, <1>4 DEF Safe
<1>6. ASSUME To(p, "undefine") PROVE Moves(p)
  <2>1. "undefine" \in Steps
    BY DEF Steps
  <2>2. PICK o \in Ops : /\ op' = [op EXCEPT ![p] = o] /\ o.at = "undefine"
                         /\ o.rel = op[p].rel /\ o.knew = op[p].knew
    BY <1>6, <2>1, ToIs DEF IInv
  <2>3. Holds(o)'
    BY <2>2, InstallerConstants DEF Unload, IInv, tree, service, Holds, Preparing,
       Removing, Serving, DiskOK, ServiceOK, Consistent, CurrentIsUsable,
       RunningServiceIsOwned, Verified
  <2> QED BY <2>2, <2>3 DEF Moves
<1>7. ASSUME To(p, "return") PROVE Moves(p)
  BY <1>7, ReturnMoves DEF IInv
<1>8. To(p, "undefine") \/ To(p, "return")
  BY DEF Unload
<1> QED BY <1>5, <1>6, <1>7, <1>8 DEF StepSafe

LEMMA UndefineSafe ==
    ASSUME IInv, NEW p \in Installer, Undefine(p)
    PROVE  StepSafe(p)
<1>1. /\ DiskOK /\ ServiceOK /\ Consistent
      /\ op[p] \in Ops /\ Holds(op[p])
  BY DEF IInv
<1>2. DiskOK'
  BY <1>1 DEF Undefine, tree, service, Ops, DiskOK
<1>3. ServiceOK'
  BY <1>1 DEF Undefine, tree, service, DiskOK, ServiceOK
<1>4. Consistent'
  BY <1>1, InstallerConstants DEF Undefine, tree, service, Holds, Preparing, Removing,
     Serving, DiskOK, ServiceOK, Consistent, CurrentIsUsable, RunningServiceIsOwned,
     Verified
<1>5. Safe'
  BY <1>2, <1>3, <1>4 DEF Safe
<1>6. ASSUME To(p, "disown") PROVE Moves(p)
  <2>1. "disown" \in Steps
    BY DEF Steps
  <2>2. PICK o \in Ops : /\ op' = [op EXCEPT ![p] = o] /\ o.at = "disown"
                         /\ o.rel = op[p].rel /\ o.knew = op[p].knew
    BY <1>6, <2>1, ToIs DEF IInv
  <2>3. Holds(o)'
    BY <2>2, InstallerConstants DEF Undefine, IInv, tree, service, Holds, Preparing,
       Removing, Serving, DiskOK, ServiceOK, Consistent, CurrentIsUsable,
       RunningServiceIsOwned, Verified
  <2> QED BY <2>2, <2>3 DEF Moves
<1>7. To(p, "disown")
  BY DEF Undefine
<1> QED BY <1>5, <1>6, <1>7 DEF StepSafe

LEMMA DisownSafe ==
    ASSUME IInv, NEW p \in Installer, Disown(p)
    PROVE  StepSafe(p)
<1>1. /\ DiskOK /\ ServiceOK /\ Consistent
      /\ op[p] \in Ops /\ Holds(op[p])
  BY DEF IInv
<1>2. DiskOK'
  BY <1>1 DEF Disown, tree, service, Ops, DiskOK
<1>3. ServiceOK'
  BY <1>1 DEF Disown, tree, service, DiskOK, ServiceOK
<1>4. Consistent'
  BY <1>1, InstallerConstants DEF Disown, tree, service, Holds, Preparing, Removing,
     Serving, DiskOK, ServiceOK, Consistent, CurrentIsUsable, RunningServiceIsOwned,
     Verified
<1>5. Safe'
  BY <1>2, <1>3, <1>4 DEF Safe
<1>6. ASSUME To(p, "rmfolder") PROVE Moves(p)
  <2>1. "rmfolder" \in Steps
    BY DEF Steps
  <2>2. PICK o \in Ops : /\ op' = [op EXCEPT ![p] = o] /\ o.at = "rmfolder"
                         /\ o.rel = op[p].rel /\ o.knew = op[p].knew
    BY <1>6, <2>1, ToIs DEF IInv
  <2>3. Holds(o)'
    BY <2>2, InstallerConstants DEF Disown, IInv, tree, service, Holds, Preparing,
       Removing, Serving, DiskOK, ServiceOK, Consistent, CurrentIsUsable,
       RunningServiceIsOwned, Verified
  <2> QED BY <2>2, <2>3 DEF Moves
<1>7. To(p, "rmfolder")
  BY DEF Disown
<1> QED BY <1>5, <1>6, <1>7 DEF StepSafe

LEMMA RmFolderSafe ==
    ASSUME IInv, NEW p \in Installer, RmFolder(p)
    PROVE  StepSafe(p)
<1>1. /\ DiskOK /\ ServiceOK /\ Consistent
      /\ op[p] \in Ops /\ Holds(op[p])
  BY DEF IInv
<1>2. DiskOK'
  BY <1>1 DEF RmFolder, tree, service, Ops, DiskOK
<1>3. ServiceOK'
  BY <1>1 DEF RmFolder, tree, service, DiskOK, ServiceOK
<1>4. Consistent'
  BY <1>1, InstallerConstants DEF RmFolder, tree, service, Holds, Preparing, Removing,
     Serving, DiskOK, ServiceOK, Consistent, CurrentIsUsable, RunningServiceIsOwned,
     Verified
<1>5. Safe'
  BY <1>2, <1>3, <1>4 DEF Safe
<1>6. Moves(p)
  BY ReturnMoves DEF RmFolder, IInv
<1> QED BY <1>5, <1>6 DEF StepSafe

LEMMA FailSafe ==
    ASSUME IInv, NEW p \in Installer, Fail(p)
    PROVE  StepSafe(p)
<1>1. /\ DiskOK /\ ServiceOK /\ Consistent
      /\ op[p] \in Ops /\ Holds(op[p])
  BY DEF IInv
<1>2. DiskOK'
  BY <1>1 DEF Fail, tree, service, Ops, DiskOK
<1>3. ServiceOK'
  BY <1>1 DEF Fail, tree, service, DiskOK, ServiceOK
<1>4. Consistent'
  BY <1>1, InstallerConstants DEF Fail, tree, service, Holds, Preparing, Removing,
     Serving, DiskOK, ServiceOK, Consistent, CurrentIsUsable, RunningServiceIsOwned,
     Verified
<1>5. Safe'
  BY <1>2, <1>3, <1>4 DEF Safe
<1>6. \E report \in {"none", "done", "failed", "died"} : Ends(p, report)
  BY DEF Fail
<1>7. Moves(p)
  BY <1>6, EndsMoves
<1> QED BY <1>5, <1>7 DEF StepSafe

LEMMA DieSafe ==
    ASSUME IInv, NEW p \in Installer, Die(p)
    PROVE  StepSafe(p)
<1>1. /\ DiskOK /\ ServiceOK /\ Consistent
      /\ op[p] \in Ops /\ Holds(op[p])
  BY DEF IInv
<1>2. DiskOK'
  BY <1>1 DEF Die, tree, service, Ops, DiskOK
<1>3. ServiceOK'
  BY <1>1 DEF Die, tree, service, DiskOK, ServiceOK
<1>4. Consistent'
  BY <1>1, InstallerConstants DEF Die, tree, service, Holds, Preparing, Removing,
     Serving, DiskOK, ServiceOK, Consistent, CurrentIsUsable, RunningServiceIsOwned,
     Verified
<1>5. Safe'
  BY <1>2, <1>3, <1>4 DEF Safe
<1>6. \E report \in {"none", "done", "failed", "died"} : Ends(p, report)
  BY DEF Die
<1>7. Moves(p)
  BY <1>6, EndsMoves
<1> QED BY <1>5, <1>7 DEF StepSafe

-----------------------------------------------------------------------------
(* The theorems.                                                           *)

LEMMA BusyIsAlone ==
    ASSUME SameName, IInv, NEW p \in Installer, Free(p) \/ op[p].at # "idle"
    PROVE  Alone(p)
  BY DEF IInv, OneAtATime, Alone, Free

LEMMA CommandSafe ==
    ASSUME IInv, NEW p \in Installer, Command(p) \/ Service(p) \/ Fail(p) \/ Die(p)
    PROVE  StepSafe(p)
<1>1. CASE Command(p)
  BY <1>1, InstallSafe, UpgradeSafe, ClaimSafe, PublishSafe, RegisterSafe, LaunchSafe,
     SwitchSafe, FinishSafe, UninstallSafe, UnpointSafe, UnlaunchSafe, UntreedSafe, UnmarkSafe,
     RmdirSafe, RollbackSafe, UntreeSafe, CopySafe DEF Command
<1>2. CASE Service(p)
  BY <1>2, ServiceInstallSafe, DefineSafe, OwnSafe, ServiceStartSafe, LoadSafe,
     ServiceStopSafe, UnloadSafe, UndefineSafe, DisownSafe, RmFolderSafe DEF Service
<1> QED BY <1>1, <1>2, FailSafe, DieSafe

\* A command takes the lock with its first step and steps only while it has it.
LEMMA CommandIsAlone ==
    ASSUME SameName, IInv, NEW p \in Installer,
           Command(p) \/ Service(p) \/ Fail(p) \/ Die(p)
    PROVE  Alone(p)
<1>1. Free(p) \/ op[p].at # "idle"
  <2>1. CASE Command(p)
    BY <2>1 DEF Command, Install, Upgrade, Claim, Publish, Register, Launch, Switch,
       Finish, Uninstall, Unpoint, Unlaunch, Untreed, Unmark, Rmdir, Rollback, Untree, Copy
  <2>2. CASE Service(p)
    BY <2>2 DEF Service, ServiceInstall, Define, Own, ServiceStart, Load, ServiceStop,
       Unload, Undefine, Disown, RmFolder
  <2> QED BY <2>1, <2>2 DEF Fail, Die
<1> QED BY <1>1, BusyIsAlone

\* What no command does leaves the commands and the releases as they are.
LEMMA OtherwiseSafe ==
    ASSUME IInv, Unloaded \/ Populate \/ Clear \/ UNCHANGED vars
    PROVE  IInv'
<1>1. /\ DiskOK /\ ServiceOK /\ Consistent
      /\ op' = op /\ UNCHANGED <<tree, folder, pinned, svcMarker>>
      /\ loaded' \in {loaded, None} /\ populated' \in {populated, TRUE, FALSE}
  BY DEF IInv, Unloaded, Populate, Clear, vars, tree, service
<1>2. DiskOK' /\ ServiceOK'
  BY <1>1 DEF DiskOK, ServiceOK, tree
<1>3. Consistent'
  BY <1>1 DEF Consistent, CurrentIsUsable, RunningServiceIsOwned, Verified, tree
<1>4. ASSUME NEW p \in Installer PROVE Holds(op[p])'
  BY <1>1 DEF IInv, Holds, Preparing, Removing, Serving, tree
<1>5. op' \in [Installer -> Ops] /\ OneAtATime'
  BY <1>1 DEF IInv, OneAtATime, Alone
<1> QED BY <1>2, <1>3, <1>4, <1>5 DEF IInv

\* Every reachable state is consistent, and each command at the step the disk
\* is at (rust/installer.py, rust/service.py).
THEOREM Invariant ==
    ASSUME SameName
    PROVE  Spec => []IInv
<1>1. Init => IInv
  <2> SUFFICES ASSUME Init PROVE IInv
    OBVIOUS
  <2>1. Idle \in Ops /\ Idle.at = "idle"
    BY DEF Idle, Ops, Steps, Acts
  <2>2. DiskOK /\ ServiceOK /\ Consistent
    BY DEF Init, DiskOK, ServiceOK, Consistent, CurrentIsUsable, RunningServiceIsOwned
  <2>3. op \in [Installer -> Ops] /\ OneAtATime
    BY <2>1 DEF Init, OneAtATime, Alone
  <2>4. \A p \in Installer : Holds(op[p])
    BY <2>1 DEF Init, Holds, Preparing, Removing, Serving
  <2> QED BY <2>2, <2>3, <2>4 DEF IInv
<1>2. IInv /\ [Next]_vars => IInv'
  <2> SUFFICES ASSUME IInv, [Next]_vars PROVE IInv'
    OBVIOUS
  <2>1. ASSUME NEW p \in Installer, Command(p) \/ Service(p) \/ Fail(p) \/ Die(p)
        PROVE  IInv'
    <3>1. StepSafe(p) /\ Alone(p)
      BY <2>1, CommandSafe, CommandIsAlone
    <3>2. DiskOK' /\ ServiceOK' /\ Consistent' /\ Moves(p)
      BY <3>1 DEF StepSafe, Safe
    <3>3. /\ op' \in [Installer -> Ops] /\ OneAtATime'
          /\ \A q \in Installer : Holds(op[q])'
      BY <3>1, <3>2, MovesKeeps
    <3> QED BY <3>2, <3>3 DEF IInv
  <2>2. CASE Unloaded \/ Populate \/ Clear \/ UNCHANGED vars
    BY <2>2, OtherwiseSafe
  <2> QED BY <2>1, <2>2 DEF Next
<1> QED BY <1>1, <1>2, PTL DEF Spec

\* The variables keep their types.
THEOREM TypeCorrect ==
    ASSUME SameName
    PROVE  Spec => []TypeOK
<1>1. IInv => TypeOK
  BY DEF IInv, DiskOK, ServiceOK, TypeOK
<1> QED BY <1>1, Invariant, PTL

\* At every step of every command, and whatever died, current leads to a whole
\* release that the marker names, with the launcher in place (installer.py:
\* 524-647).
THEOREM CurrentStaysUsable ==
    ASSUME SameName
    PROVE  Spec => []CurrentIsUsable
<1>1. IInv => CurrentIsUsable
  BY DEF IInv, Consistent
<1> QED BY <1>1, Invariant, PTL

\* What the service manager runs is whole, and recorded by a definition and a
\* marker (service.py:256-327).
THEOREM ServiceStaysOwned ==
    ASSUME SameName
    PROVE  Spec => []RunningServiceIsOwned
<1>1. IInv => RunningServiceIsOwned
  BY DEF IInv, Consistent
<1> QED BY <1>1, Invariant, PTL

-----------------------------------------------------------------------------
(* What a command that failed leaves current.                              *)

Changes == {"install", "upgrade", "rollback"}
ChangeSteps == {"claim", "copy", "publish", "register", "launch", "switch", "return"}
Leaves(o) == IF o.at = "return" THEN o.rel ELSE o.was
Tracked(o) == o.act \in Changes => o.at \in ChangeSteps /\ current = Leaves(o)
KeepInv == IInv /\ \A p \in Installer : Tracked(op[p])
Outcome(p) ==
    op[p].act \in Changes /\ op'[p].at = "idle"
        => /\ current' = Leaves(op[p])
           /\ op'[p].report = "done" => current' = op[p].rel
Tracks(p) == /\ \E o \in Ops : op' = [op EXCEPT ![p] = o] /\ Tracked(o)'
             /\ Outcome(p)

\* A step to another step of the same command: it leaves current as it was, or
\* replaces it last.
LEMMA ToTracks ==
    ASSUME KeepInv, NEW p \in Installer, NEW at \in Steps, To(p, at), at # "idle",
           op[p].act \in Changes =>
               /\ at \in ChangeSteps /\ op[p].at # "return"
               /\ current' = IF at = "return" THEN op[p].rel ELSE current
    PROVE  Tracks(p)
<1>1. PICK o \in Ops : /\ op' = [op EXCEPT ![p] = o] /\ o.at = at /\ o.rel = op[p].rel
                       /\ o.act = op[p].act /\ o.was = op[p].was
  BY ToIs DEF KeepInv, IInv
<1>2. Tracked(op[p]) /\ op'[p] = o
  BY <1>1 DEF KeepInv, IInv
<1>3. Tracked(o)'
  BY <1>1, <1>2 DEF Tracked, Leaves
<1> QED BY <1>1, <1>2, <1>3 DEF Tracks, Outcome

LEMMA BeginsTracks ==
    ASSUME KeepInv, NEW p \in Installer, NEW act \in Acts, NEW rel \in Release \cup {None},
           NEW at \in Steps, Begins(p, act, rel, at), Free(p), current' = current,
           act \in Changes => at \in ChangeSteps \ {"return"}
    PROVE  Tracks(p)
<1>1. PICK o \in Ops : /\ op' = [op EXCEPT ![p] = o] /\ o.at = at
                       /\ o.act = act /\ o.was = current
  BY BeginsIs DEF KeepInv, IInv
<1>2. Tracked(o)'
  BY <1>1 DEF Tracked, Leaves
<1>3. op[p].act \notin Changes
  BY DEF Free, KeepInv, Tracked, ChangeSteps
<1> QED BY <1>1, <1>2, <1>3 DEF Tracks, Outcome

LEMMA EndsTracks ==
    ASSUME KeepInv, NEW p \in Installer, NEW report \in {"none", "done", "failed", "died"},
           Ends(p, report), op[p].act \in Changes => current' = current,
           report = "done" => op[p].at = "return"
    PROVE  Tracks(p)
<1>1. PICK o : o = [Idle EXCEPT !.report = report]
  OBVIOUS
<1>2. o \in Ops /\ o.act = "none" /\ o.report = report
  BY <1>1 DEF Ops, Idle, Steps, Acts
<1>3. op' = [op EXCEPT ![p] = o]
  BY <1>1 DEF Ends
<1>4. op'[p] = o
  BY <1>3 DEF KeepInv, IInv
<1>5. Tracked(o)'
  BY <1>2 DEF Tracked, Changes
<1>6. Tracked(op[p])
  BY DEF KeepInv
<1> QED BY <1>2, <1>3, <1>4, <1>5, <1>6 DEF Tracks, Outcome, Tracked, Leaves

LEMMA BeginningTracks ==
    ASSUME KeepInv, NEW p \in Installer,
           \/ Install(p) \/ Upgrade(p) \/ Uninstall(p) \/ ServiceInstall(p)
           \/ ServiceStart(p) \/ ServiceStop(p) \/ \E r \in Release : Rollback(p, r)
    PROVE  Tracks(p)
<1>1. PICK act \in Acts, rel \in Release \cup {None}, at \in Steps :
          /\ Begins(p, act, rel, at)
          /\ act \in Changes => at \in ChangeSteps \ {"return"}
  <2>1. {"claim", "copy", "switch", "unpoint", "define", "load", "unload"} \subseteq Steps
    BY DEF Steps
  <2>2. Changes \cup {"uninstall", "start", "stop", "remove"} \subseteq Acts
    BY DEF Acts, Changes
  <2>3. CASE Install(p)
    BY <2>1, <2>2, <2>3 DEF Install, Changes, ChangeSteps
  <2>4. CASE Upgrade(p)
    BY <2>1, <2>2, <2>4 DEF Upgrade, Changes, ChangeSteps
  <2>5. CASE Uninstall(p)
    BY <2>1, <2>2, <2>5 DEF Uninstall, Changes
  <2>6. CASE ServiceInstall(p) \/ ServiceStart(p)
    BY <2>1, <2>2, <2>6 DEF ServiceInstall, ServiceStart, Changes
  <2>7. CASE ServiceStop(p)
    BY <2>1, <2>2, <2>7 DEF ServiceStop, Changes
  <2>8. CASE \E r \in Release : Rollback(p, r)
    BY <2>1, <2>2, <2>8 DEF Rollback, Changes, ChangeSteps
  <2> QED BY <2>3, <2>4, <2>5, <2>6, <2>7, <2>8
<1>2. Free(p) /\ current' = current
  BY DEF Install, Upgrade, Uninstall, ServiceInstall, ServiceStart, ServiceStop,
     Rollback,
     OnlyOp, tree
<1> QED BY <1>1, <1>2, BeginsTracks

LEMMA ChangingTracks ==
    ASSUME KeepInv, NEW p \in Installer,
           \/ Claim(p) \/ Publish(p) \/ Register(p) \/ Launch(p) \/ Switch(p)
           \/ \E r \in Release, b \in Binary : Copy(p, r, b)
    PROVE  Tracks(p)
<1>1. CASE \E r \in Release, b \in Binary : Copy(p, r, b)
  <2>1. PICK r \in Release : op' = [op EXCEPT ![p].at = "publish", ![p].rel = r]
    BY <1>1 DEF Copy
  <2>2. PICK o : o = [op[p] EXCEPT !.at = "publish", !.rel = r]
    OBVIOUS
  <2>3. op[p] \in Ops /\ Tracked(op[p])
    BY DEF KeepInv, IInv
  <2>4. current' = current
    BY <1>1 DEF Copy
  <2>5. o \in Ops /\ o.at = "publish" /\ o.act = op[p].act /\ o.was = op[p].was
    BY <2>2, <2>3 DEF Ops, Steps
  <2>6. /\ o \in Ops /\ o.at = "publish" /\ o.act = op[p].act /\ o.was = op[p].was
        /\ Tracked(op[p]) /\ current' = current
    BY <2>3, <2>4, <2>5
  <2>7. op' = [op EXCEPT ![p] = o] /\ op'[p] = o
    BY <2>1, <2>2 DEF KeepInv, IInv
  <2>8. Tracked(o)' /\ op[p].at = "copy"
    BY <1>1, <2>6 DEF Copy, Tracked, ChangeSteps, Leaves
  <2> QED BY <2>6, <2>7, <2>8 DEF Tracks, Outcome
<1>2. CASE Claim(p) \/ Publish(p) \/ Register(p) \/ Launch(p) \/ Switch(p)
  <2>1. \/ \E at \in {"copy", "register", "launch", "switch"} : To(p, at) /\ current' = current
        \/ To(p, "return") /\ current' = op[p].rel
        \/ Ends(p, "failed") /\ current' = current
    BY <1>2 DEF Claim, Publish, Register, Launch, Switch
  <2>2. /\ {"copy", "register", "launch", "switch"} \subseteq (Steps \cap ChangeSteps) \ {"return"}
        /\ "return" \in Steps \cap ChangeSteps
    BY DEF Steps, ChangeSteps
  <2>3. op[p].at # "return"
    BY <1>2 DEF Claim, Publish, Register, Launch, Switch
  <2>4. CASE Ends(p, "failed") /\ current' = current
    BY <2>4, EndsTracks
  <2> QED BY <2>1, <2>2, <2>3, <2>4, ToTracks
<1> QED BY <1>1, <1>2

\* The steps of an uninstall or of the service are no steps of a change.
LEMMA RemovingTracks ==
    ASSUME KeepInv, NEW p \in Installer,
           \/ Unpoint(p) \/ Unlaunch(p) \/ Untreed(p) \/ Unmark(p) \/ Rmdir(p)
           \/ Define(p) \/ Own(p) \/ Load(p) \/ Unload(p) \/ Undefine(p) \/ Disown(p)
           \/ RmFolder(p) \/ \E r \in Release : Untree(p, r)
    PROVE  Tracks(p)
<1>1. op[p].at \notin ChangeSteps
  BY DEF ChangeSteps, Unpoint, Unlaunch, Untree, Untreed, Unmark, Rmdir, Define, Own,
     Load,
     Unload, Undefine, Disown, RmFolder
<1>2. op[p].act \notin Changes
  BY <1>1 DEF KeepInv, Tracked
<1>3. CASE \E r \in Release : Untree(p, r)
  <2>1. PICK o : o = op[p]
    OBVIOUS
  <2>2. o \in Ops /\ op' = [op EXCEPT ![p] = o] /\ o.act \notin Changes
    BY <1>2, <1>3, <2>1 DEF Untree, KeepInv, IInv
  <2>3. Tracked(o)'
    BY <2>2 DEF Tracked
  <2> QED BY <1>2, <2>2, <2>3 DEF Tracks, Outcome
<1>4. CASE \E at \in {"unlaunch", "untree", "unmark", "rmdir", "own", "load", "undefine",
                      "disown", "rmfolder", "return"} : To(p, at)
  <2>1. {"unlaunch", "untree", "unmark", "rmdir", "own", "load", "undefine",
         "disown", "rmfolder", "return"} \subseteq Steps \ {"idle"}
    BY DEF Steps
  <2> QED BY <1>2, <1>4, <2>1, ToTracks
<1>5. CASE \/ Unpoint(p) \/ Unlaunch(p) \/ Untreed(p) \/ Unmark(p) \/ Rmdir(p)
           \/ Define(p) \/ Own(p)
  BY <1>4, <1>5 DEF Unpoint, Unlaunch, Untreed, Unmark, Rmdir, Define, Own
<1>6. CASE Load(p) \/ Unload(p) \/ Undefine(p) \/ Disown(p) \/ RmFolder(p)
  BY <1>4, <1>6 DEF Load, Unload, Undefine, Disown, RmFolder
<1> QED BY <1>3, <1>5, <1>6

LEMMA EndingTracks ==
    ASSUME KeepInv, NEW p \in Installer, Finish(p) \/ Fail(p) \/ Die(p)
    PROVE  Tracks(p)
<1>1. PICK report \in {"done", "failed", "died"} :
          Ends(p, report) /\ (report = "done" => op[p].at = "return")
  BY DEF Finish, Fail, Die
<1>2. current' = current
  BY DEF Finish, OnlyOp, tree, Fail, Die
<1> QED BY <1>1, <1>2, EndsTracks

LEMMA CommandTracks ==
    ASSUME KeepInv, NEW p \in Installer,
           Command(p) \/ Service(p) \/ Fail(p) \/ Die(p)
    PROVE  Tracks(p)
<1>1. CASE Command(p)
  BY <1>1, BeginningTracks, ChangingTracks, RemovingTracks, EndingTracks DEF Command
<1>2. CASE Service(p)
  BY <1>2, BeginningTracks, RemovingTracks DEF Service
<1> QED BY <1>1, <1>2, EndingTracks

LEMMA TrackStep ==
    ASSUME SameName, KeepInv, [Next]_vars
    PROVE  (\A p \in Installer : Tracked(op[p])') /\ \A p \in Installer : Outcome(p)
<1>1. ASSUME NEW q \in Installer, Command(q) \/ Service(q) \/ Fail(q) \/ Die(q),
             NEW p \in Installer
      PROVE  Tracked(op[p])' /\ Outcome(p)
  <2>1. Tracks(q) /\ Alone(q)
    BY <1>1, CommandTracks, CommandIsAlone DEF KeepInv
  <2>2. PICK o \in Ops : op' = [op EXCEPT ![q] = o] /\ Tracked(o)'
    BY <2>1 DEF Tracks
  <2>3. CASE p = q
    <3>1. op'[p] = o
      BY <2>2, <2>3 DEF KeepInv, IInv
    <3>2. Tracked(op[p])'
      BY <2>2, <3>1 DEF Tracked
    <3> QED BY <2>1, <2>3, <3>2 DEF Tracks
  <2>4. CASE p # q
    <3>1. op'[p] = op[p] /\ op[p].at = "idle"
      BY <2>1, <2>2, <2>4 DEF Alone, KeepInv, IInv
    <3>2. op[p].act \notin Changes
      BY <3>1 DEF KeepInv, Tracked, ChangeSteps
    <3> QED BY <3>1, <3>2 DEF Tracked, Outcome
  <2> QED BY <2>3, <2>4
<1>2. ASSUME Unloaded \/ Populate \/ Clear \/ UNCHANGED vars, NEW p \in Installer
      PROVE  Tracked(op[p])' /\ Outcome(p)
  <2>1. op' = op /\ current' = current
    BY <1>2 DEF Unloaded, Populate, Clear, vars, tree
  <2>2. Tracked(op[p])
    BY DEF KeepInv
  <2> QED BY <2>1, <2>2 DEF Tracked, Outcome, ChangeSteps
<1> QED BY <1>1, <1>2 DEF Next

\* Whatever fails or dies, a command that did not get to replace the pointer
\* leaves current as it was, and one that reports success has replaced it
\* (installer.py:452-462, 524-595).
THEOREM FailureLeavesCurrent ==
    ASSUME SameName
    PROVE  Spec => FailureKeepsCurrent
<1>1. Init => \A p \in Installer : Tracked(op[p])
  BY DEF Init, Idle, Tracked, Changes
<1>2. IInv /\ (\A p \in Installer : Tracked(op[p])) /\ [Next]_vars
          => (\A p \in Installer : Tracked(op[p]))'
  BY TrackStep DEF KeepInv
<1>3. IInv /\ (\A p \in Installer : Tracked(op[p])) /\ [Next]_vars
          => [\A p \in Installer :
                 /\ op[p].act \in {"install", "upgrade", "rollback"}
                 /\ op'[p].at = "idle"
                 => /\ current' = IF op[p].at = "return" THEN op[p].rel ELSE op[p].was
                    /\ op'[p].report = "done" => current' = op[p].rel]_vars
  BY TrackStep DEF KeepInv, Outcome, Changes, Leaves
<1>4. Spec => []IInv
  BY Invariant
<1> QED BY <1>1, <1>2, <1>3, <1>4, PTL DEF Spec, FailureKeepsCurrent

=============================================================================
