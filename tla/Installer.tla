------------------------------- MODULE Installer -------------------------------
(***************************************************************************)
(* scripts/install.sh from the moment it stops the timer: the backup of    *)
(* the installed files, their replacement one by one, the reload of        *)
(* systemd and, when a command fails before the installation is committed, *)
(* the rollback by the EXIT trap; and scripts/uninstall.sh, which has no   *)
(* rollback, once its question is answered.                                *)
(*                                                                         *)
(* Abstractions.                                                           *)
(*   - A file is absent, the old one, the new one, or "torn": the part a   *)
(*     copy had written when it failed.                                    *)
(*   - The download and the checks of the release end before anything is   *)
(*     changed and are left out.                                           *)
(*   - --purge also removes the configuration and the state: only the      *)
(*     files above are followed.                                           *)
(*   - External: any command may fail; systemd runs the units as it has    *)
(*     loaded them.                                                        *)
(***************************************************************************)
EXTENDS Naturals, Sequences, SequencesExt

CONSTANTS
  Tears,     \* may a failing copy leave a part of the file behind?
  MaxFaults  \* bound on the commands that fail

ASSUME InstallerAssumption == Tears \in BOOLEAN /\ MaxFaults \in Nat

\* BACKUP_NAMES, and the files that are replaced, in the script's order.
BackupOrder == <<"binary", "service", "timer", "override", "uninstall", "manifest">>
ReplaceOrder == <<"binary", "service", "timer", "uninstall", "manifest">>
Files == ToSet(BackupOrder)

\* The manifest install.sh writes, and the list uninstall.sh has without one.
RemoveOrder == <<"binary", "uninstall", "service", "timer">>
Units == {"service", "timer", "override"}

VARIABLES
  pc,         \* the command the script is at
  todo,       \* the files left to back up, to replace or to restore
  upgrade,    \* --upgrade was given, which needs an installed binary
  configured, \* config.toml exists
  original,   \* the files before the script
  file,       \* the files
  backup,     \* what TEMP_DIR holds for each file
  loaded,     \* the units as systemd has loaded them
  active,     \* the timer is active
  wasActive,  \* TIMER_WAS_ACTIVE
  faults,     \* the commands that failed so far
  ignored     \* ghost: where the script ignored a failure: "stop", "rollback"

inputs == <<upgrade, configured, original>>
timer == <<active, wasActive>>
vars == <<pc, todo, inputs, file, backup, loaded, timer, faults, ignored>>

Init ==
  /\ pc \in {"stop", "disable"}
  /\ todo = <<>>
  /\ original \in [Files -> {"absent", "old"}]
  /\ upgrade = (original["binary"] = "old")
  /\ configured \in BOOLEAN
  /\ file = original
  /\ backup = [f \in Files |-> "none"]
  /\ loaded = [u \in Units |-> original[u]]
  /\ active \in {original["timer"] = "old", FALSE}
  /\ wasActive = active
  /\ faults = 0
  /\ ignored = {}

Proceed(next, rest) == pc' = next /\ todo' = rest

Succeed(next, rest) == Proceed(next, rest) /\ UNCHANGED <<faults, ignored>>

Fault == faults < MaxFaults /\ faults' = faults + 1

\* "|| true": the script goes on after a failure.
Ignore(where, next, rest) ==
  Fault /\ ignored' = ignored \cup {where} /\ Proceed(next, rest)

\* Any other failure ends the script, and the trap starts the rollback.
Abort == Fault /\ Proceed("restore", BackupOrder) /\ UNCHANGED ignored

\* What a copy leaves in its target when it fails.
Leftover(before) == {before} \cup (IF Tears THEN {"torn"} ELSE {})

Reload(files) == loaded' = [u \in Units |-> files[u]]

-----------------------------------------------------------------------------
(* The installation *)

\* Mutant of StopTimer: the timer keeps running during the installation.
KeepTimer ==
  /\ pc = "stop"
  /\ Succeed("directories", todo)
  /\ UNCHANGED <<inputs, file, backup, loaded, timer>>

\* The timer and a running check are stopped; a failure is ignored.
StopTimer ==
  /\ pc = "stop"
  /\ \/ Succeed("directories", todo) /\ active' = FALSE
     \/ Ignore("stop", "directories", todo) /\ UNCHANGED active
  /\ UNCHANGED <<inputs, file, backup, loaded, wasActive>>

MakeDirectories ==
  /\ pc = "directories"
  /\ Succeed("backup", BackupOrder) \/ Abort
  /\ UNCHANGED <<inputs, file, backup, loaded, timer>>

\* Mutant of BackUp: an absent file is not noted.
BackUpPresent ==
  /\ pc = "backup" /\ todo # <<>>
  /\ LET f == Head(todo)
     IN \/ /\ Succeed("backup", Tail(todo))
           /\ backup' = [backup EXCEPT ![f] = IF file[f] = "absent" THEN "none" ELSE file[f]]
        \/ /\ Abort
           /\ \E left \in Leftover("none") : backup' = [backup EXCEPT ![f] = left]
  /\ UNCHANGED <<inputs, file, loaded, timer>>

\* backup_target copies a file, or notes that there is none.
BackUp ==
  /\ pc = "backup" /\ todo # <<>>
  /\ LET f == Head(todo)
     IN \/ /\ Succeed("backup", Tail(todo))
           /\ backup' = [backup EXCEPT ![f] = file[f]]
        \/ /\ Abort
           /\ \E left \in Leftover("none") : backup' = [backup EXCEPT ![f] = left]
  /\ UNCHANGED <<inputs, file, loaded, timer>>

BackedUp ==
  /\ pc = "backup" /\ todo = <<>>
  /\ Succeed("replace", ReplaceOrder)
  /\ UNCHANGED <<inputs, file, backup, loaded, timer>>

\* atomic_install renames a finished copy; when it fails, the script ends
\* before the rename.
Replace ==
  /\ pc = "replace" /\ todo # <<>>
  /\ \/ /\ Succeed("replace", Tail(todo))
        /\ file' = [file EXCEPT ![Head(todo)] = "new"]
     \/ Abort /\ UNCHANGED file
  /\ UNCHANGED <<inputs, backup, loaded, timer>>

Replaced ==
  /\ pc = "replace" /\ todo = <<>>
  /\ Succeed("reload", todo)
  /\ UNCHANGED <<inputs, file, backup, loaded, timer>>

DaemonReload ==
  /\ pc = "reload"
  /\ \/ Succeed(IF configured THEN "sync" ELSE "verify", todo) /\ Reload(file)
     \/ Abort /\ UNCHANGED loaded
  /\ UNCHANGED <<inputs, file, backup, timer>>

\* "timer sync" writes the override and reloads systemd; either may fail.
TimerSync ==
  /\ pc = "sync"
  /\ LET synced == [file EXCEPT !["override"] = "new"]
     IN \/ Succeed("verify", todo) /\ file' = synced /\ Reload(synced)
        \/ Abort /\ file' \in {file, synced} /\ UNCHANGED loaded
  /\ UNCHANGED <<inputs, backup, timer>>

Verify ==
  /\ pc = "verify"
  /\ Succeed("commit", todo) \/ Abort
  /\ UNCHANGED <<inputs, file, backup, loaded, timer>>

\* Mutant of Commit: the timer stays stopped.
CommitOnly ==
  /\ pc = "commit"
  /\ Succeed("installed", todo)
  /\ UNCHANGED <<inputs, file, backup, loaded, timer>>

\* An upgrade starts the timer again if it was active; a failure to do so is
\* the last that is rolled back.
Commit ==
  /\ pc = "commit"
  /\ IF upgrade /\ wasActive
     THEN \/ Succeed("installed", todo) /\ active' = TRUE
          \/ Abort /\ UNCHANGED active
     ELSE Succeed("installed", todo) /\ UNCHANGED active
  /\ UNCHANGED <<inputs, file, backup, loaded, wasActive>>

-----------------------------------------------------------------------------
(* The rollback *)

\* restore_target ignores every failure, and with it atomic_install does: after
\* a copy that failed half way, the rename still takes place.
Restore ==
  /\ pc = "restore" /\ todo # <<>>
  /\ LET f == Head(todo)
         restored == IF backup[f] = "none" THEN file[f] ELSE backup[f]
     IN \/ /\ Succeed("restore", Tail(todo))
           /\ file' = [file EXCEPT ![f] = restored]
        \/ /\ backup[f] # "none"
           /\ Ignore("rollback", "restore", Tail(todo))
           /\ \E left \in IF backup[f] = "absent" THEN {file[f]} ELSE Leftover(file[f]) :
                file' = [file EXCEPT ![f] = left]
  /\ UNCHANGED <<inputs, backup, loaded, timer>>

\* Mutant of RestoreUnits: systemd is not told.
RestartOnly ==
  /\ pc = "restore" /\ todo = <<>>
  /\ Succeed("rolled back", todo)
  /\ active' = (active \/ wasActive)
  /\ UNCHANGED <<inputs, file, backup, loaded, wasActive>>

\* The end of the trap: reload, and start the timer if it was active.
RestoreUnits ==
  /\ pc = "restore" /\ todo = <<>>
  /\ \/ Succeed("rolled back", todo) /\ Reload(file) /\ active' = (active \/ wasActive)
     \/ /\ Ignore("rollback", "rolled back", todo)
        /\ \/ UNCHANGED loaded /\ active' = (active \/ wasActive)
           \/ Reload(file) /\ UNCHANGED active
  /\ UNCHANGED <<inputs, file, backup, wasActive>>

-----------------------------------------------------------------------------
(* uninstall.sh *)

\* Without a trap, a failure just ends the script.
Fail == Fault /\ Proceed("failed", todo) /\ UNCHANGED ignored

\* The timer is disabled first; a failure to do so is ignored.
DisableTimer ==
  /\ pc = "disable"
  /\ \/ Succeed("remove", RemoveOrder) /\ active' = FALSE
     \/ Ignore("stop", "remove", RemoveOrder) /\ UNCHANGED active
  /\ UNCHANGED <<inputs, file, backup, loaded, wasActive>>

RemoveFile ==
  /\ pc = "remove" /\ todo # <<>>
  /\ \/ /\ Succeed("remove", Tail(todo))
        /\ file' = [file EXCEPT ![Head(todo)] = "absent"]
     \/ Fail /\ UNCHANGED file
  /\ UNCHANGED <<inputs, backup, loaded, timer>>

\* The manifest goes last; --purge removes the override before it.
RemoveManifest ==
  /\ pc = "remove" /\ todo = <<>>
  /\ \E gone \in {{}, {"override"}} :
       \/ /\ Succeed("forget", todo)
          /\ file' = [f \in Files |-> IF f \in gone \cup {"manifest"} THEN "absent" ELSE file[f]]
       \/ /\ Fail
          /\ file' = [f \in Files |-> IF f \in gone THEN "absent" ELSE file[f]]
  /\ UNCHANGED <<inputs, backup, loaded, timer>>

ForgetUnits ==
  /\ pc = "forget"
  /\ \/ Succeed("uninstalled", todo) /\ Reload(file)
     \/ Fail /\ UNCHANGED loaded
  /\ UNCHANGED <<inputs, file, backup, timer>>

Next ==
  \/ StopTimer
  \/ MakeDirectories
  \/ BackUp
  \/ BackedUp
  \/ Replace
  \/ Replaced
  \/ DaemonReload
  \/ TimerSync
  \/ Verify
  \/ Commit
  \/ Restore
  \/ RestoreUnits
  \/ DisableTimer
  \/ RemoveFile
  \/ RemoveManifest
  \/ ForgetUnits

Spec == Init /\ [][Next]_vars /\ WF_vars(Next)

-----------------------------------------------------------------------------
(* Properties *)

AllNew == \A f \in ToSet(ReplaceOrder) : file[f] = "new"

\* internal/installer/install_test.go lines 117 and 120: whichever command the
\* installation failed at, the rollback restores every file and the timer, unless
\* a command of the rollback itself fails.
RollbackRestores ==
  pc = "rolled back" /\ "rollback" \notin ignored =>
    file = original /\ active = wasActive

\* When a script ends, systemd has loaded the units that are installed: the last
\* reload (install.sh lines 78, 457 and "timer sync", uninstall.sh line 92) comes
\* after the last change of a unit.
LoadedUnitsAreInstalled ==
  pc \in {"installed", "rolled back", "uninstalled"} /\ "rollback" \notin ignored =>
    \A u \in Units : loaded[u] = file[u]

\* The timer never starts a check of an installation that is half replaced or half
\* removed (install.sh lines 311 and 470, line 80 in the rollback, uninstall.sh
\* line 53), also after a script that failed.
TimerRunsOneVersion == active /\ ignored = {} => file = original \/ AllNew

\* A script ends: rolled back after a failure; with everything installed, the
\* override that belongs to the configuration, and an upgraded timer as it was;
\* or with everything the manifest lists removed, unless a removal failed.
InstallationEnds ==
  <>(\/ pc = "rolled back" /\ faults > 0
     \/ pc = "failed" /\ faults > 0
     \/ pc = "uninstalled" /\ \A f \in ToSet(ReplaceOrder) : file[f] = "absent"
     \/ /\ pc = "installed" /\ AllNew
        /\ upgrade => active = wasActive
        /\ configured => file["override"] = "new")
================================================================================
