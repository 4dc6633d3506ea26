---------------------------- MODULE InstallerProofs ----------------------------
(***************************************************************************)
(* Theorems about Installer for any number of failing commands.  A copy    *)
(* that fails leaves nothing behind (~Tears) where a theorem says so; the  *)
(* run installer_torn shows that it has to.                                *)
(***************************************************************************)
EXTENDS Installer, TLAPS

\* A sequence that is worked off from its head.
LEMMA HeadAndTail ==
  ASSUME NEW S, NEW s \in Seq(S), s # <<>>
  PROVE  /\ Head(s) \in S /\ Tail(s) \in Seq(S)
         /\ ToSet(s) = {Head(s)} \cup ToSet(Tail(s))
PROOF
<1>1. Head(s) \in S /\ Tail(s) \in Seq(S)
  OBVIOUS
<1>2. /\ Len(s) \in Nat \ {0} /\ DOMAIN s = 1 .. Len(s) /\ Head(s) = s[1]
      /\ DOMAIN Tail(s) = 1 .. Len(s) - 1
  OBVIOUS
<1>3. \A i \in 1 .. Len(s) - 1 : Tail(s)[i] = s[i + 1]
  OBVIOUS
<1>4. ASSUME NEW x \in ToSet(s) PROVE x \in {Head(s)} \cup ToSet(Tail(s))
  <2>1. PICK i \in 1 .. Len(s) : x = s[i]
    BY <1>2, <1>4 DEF ToSet
  <2>2. CASE i = 1
    BY <2>1, <2>2, <1>2
  <2>3. CASE i # 1
    <3>1. i - 1 \in 1 .. Len(s) - 1 /\ (i - 1) + 1 = i
      BY <2>1, <2>3, <1>2
    <3>2. Tail(s)[i - 1] = x
      BY <3>1, <2>1, <1>3
    <3> QED BY <3>1, <3>2, <1>2 DEF ToSet
  <2> QED BY <2>2, <2>3
<1>5. ASSUME NEW x \in {Head(s)} \cup ToSet(Tail(s)) PROVE x \in ToSet(s)
  <2>1. CASE x = Head(s)
    <3>1. 1 \in DOMAIN s
      BY <1>2
    <3> QED BY <3>1, <2>1, <1>2 DEF ToSet
  <2>2. CASE x \in ToSet(Tail(s))
    <3>1. PICK i \in 1 .. Len(s) - 1 : x = Tail(s)[i]
      BY <1>2, <2>2 DEF ToSet
    <3>2. i + 1 \in 1 .. Len(s)
      BY <3>1, <1>2
    <3> QED BY <3>1, <3>2, <1>2, <1>3 DEF ToSet
  <2> QED BY <1>5, <2>1, <2>2
<1> QED BY <1>1, <1>4, <1>5

\* What the orders list; the orders themselves stay hidden.
LEMMA Orders ==
  /\ Files = {"binary", "service", "timer", "override", "uninstall", "manifest"}
  /\ {BackupOrder, ReplaceOrder, RemoveOrder, <<>>} \subseteq Seq(Files)
  /\ ToSet(BackupOrder) = Files
  /\ ToSet(ReplaceOrder) \subseteq Files
  /\ ToSet(<<>>) = {}
  /\ Units \subseteq Files
PROOF
<1>1. Files = {"binary", "service", "timer", "override", "uninstall", "manifest"}
  BY DEF Files, BackupOrder, ToSet
<1>2. ToSet(ReplaceOrder) = {"binary", "service", "timer", "uninstall", "manifest"}
  BY DEF ReplaceOrder, ToSet
<1> QED BY <1>1, <1>2 DEF BackupOrder, ReplaceOrder, RemoveOrder, Files, Units, ToSet

-----------------------------------------------------------------------------
(* systemd and the files *)

\* From the reload on, the loaded units are the installed ones.
InStep ==
  pc \in {"sync", "verify", "commit", "installed", "rolled back", "uninstalled"}
    /\ "rollback" \notin ignored => \A u \in Units : loaded[u] = file[u]

\* Whatever fails, left parts included, systemd has loaded what is installed when
\* a script has ended, unless a command of the rollback failed.
THEOREM UnitsAreLoaded == Spec => []LoadedUnitsAreInstalled
PROOF
<1>1. Init => InStep
  BY DEF Init, InStep
<1>2. InStep /\ [Next]_vars => InStep'
  <2> SUFFICES ASSUME InStep, [Next]_vars PROVE InStep'
    OBVIOUS
  <2> USE DEF InStep, Succeed, Abort, Ignore, Fail, Proceed, inputs, timer
  <2>1. CASE StopTimer
    BY <2>1 DEF StopTimer
  <2>2. CASE MakeDirectories
    BY <2>2 DEF MakeDirectories
  <2>3. CASE BackUp
    BY <2>3 DEF BackUp, Leftover
  <2>4. CASE BackedUp
    BY <2>4 DEF BackedUp
  <2>5. CASE Replace
    BY <2>5 DEF Replace
  <2>6. CASE Replaced
    BY <2>6 DEF Replaced
  <2>7. CASE DaemonReload
    BY <2>7 DEF DaemonReload, Reload
  <2>8. CASE TimerSync
    BY <2>8 DEF TimerSync, Reload
  <2>9. CASE Verify
    BY <2>9 DEF Verify
  <2>10. CASE Commit
    BY <2>10 DEF Commit
  <2>11. CASE Restore
    BY <2>11 DEF Restore, Leftover
  <2>12. CASE RestoreUnits
    BY <2>12 DEF RestoreUnits, Reload
  <2>13. CASE DisableTimer
    BY <2>13 DEF DisableTimer
  <2>14. CASE RemoveFile
    BY <2>14 DEF RemoveFile
  <2>15. CASE RemoveManifest
    BY <2>15 DEF RemoveManifest
  <2>16. CASE ForgetUnits
    BY <2>16 DEF ForgetUnits, Reload
  <2>17. CASE UNCHANGED vars
    BY <2>17 DEF vars
  <2> QED BY <2>1, <2>2, <2>3, <2>4, <2>5, <2>6, <2>7, <2>8, <2>9, <2>10, <2>11,
             <2>12, <2>13, <2>14, <2>15, <2>16, <2>17 DEF Next
<1>3. InStep => LoadedUnitsAreInstalled
  BY DEF InStep, LoadedUnitsAreInstalled
<1> QED BY <1>1, <1>2, <1>3, PTL DEF Spec

-----------------------------------------------------------------------------
(* The rollback and the timer, when a copy that fails leaves nothing *)

Shape ==
  /\ todo \in Seq(Files)
  /\ original \in [Files -> {"absent", "old"}]
  /\ file \in [Files -> {"absent", "old", "new"}]
  /\ backup \in [Files -> {"none", "absent", "old"}]

\* Only a timer that was active is ever started.
TimerKept == active \in BOOLEAN /\ wasActive \in BOOLEAN /\ (active => wasActive)

\* Before the first replacement or removal nothing has changed.
Untouched == pc \in {"stop", "directories", "backup", "disable"} => file = original

\* Whatever was backed up is the original; when files are replaced, all are.
BackedUpIsOriginal ==
  /\ \A f \in Files : backup[f] \in {"none", original[f]}
  /\ pc = "backup" => \A f \in Files : f \in ToSet(todo) \/ backup[f] = original[f]
  /\ pc \in {"replace", "reload", "sync", "verify", "commit"} =>
       \A f \in Files : backup[f] = original[f]

ReplacedIsNew ==
  /\ pc = "replace" => \A f \in ToSet(ReplaceOrder) : f \in ToSet(todo) \/ file[f] = "new"
  /\ pc \in {"reload", "sync", "verify", "commit", "installed"} => AllNew

\* A file without a backup was not replaced, the others are worked off.
RestoredIsOriginal ==
  /\ pc = "restore" => \A f \in Files : backup[f] = "none" => file[f] = original[f]
  /\ pc = "restore" /\ "rollback" \notin ignored =>
       \A f \in Files : f \in ToSet(todo) \/ file[f] = original[f]

Halted ==
  active /\ ignored = {} => pc \in {"stop", "disable", "installed", "rolled back"}

IInv ==
  /\ Shape /\ TimerKept /\ Untouched /\ BackedUpIsOriginal /\ ReplacedIsNew
  /\ RestoredIsOriginal /\ RollbackRestores /\ Halted

\* File by file the original files are the original files.
LEMMA AllFilesOriginal ==
  ASSUME Shape, \A f \in Files : file[f] = original[f]
  PROVE  file = original
PROOF
  BY DEF Shape

\* The ways a command changes the timer.
LEMMA TimerIsKept ==
  ASSUME TimerKept, wasActive' = wasActive,
         active' \in {FALSE, active, active \/ wasActive}
  PROVE  TimerKept'
PROOF
  BY Zenon DEF TimerKept

\* A command of the installation that fails starts the rollback of every file: one that
\* was not backed up still has to be the original.
LEMMA AbortKeeps ==
  ASSUME IInv, Abort, UNCHANGED <<original, backup, active, wasActive>>,
         pc \in {"directories", "replace", "reload", "sync", "verify", "commit"},
         file' \in [Files -> {"absent", "old", "new"}],
         \A f \in Files : backup[f] = "none" => file'[f] = original[f]
  PROVE  IInv'
PROOF
<1>1. /\ pc' = "restore" /\ todo' = BackupOrder /\ ignored' = ignored
      /\ original' = original /\ backup' = backup /\ active' = active /\ wasActive' = wasActive
  BY DEF Abort, Proceed
<1>2. /\ BackupOrder \in Seq(Files) /\ ToSet(BackupOrder) = Files
  BY Orders
<1>3. Shape' /\ TimerKept'
  BY <1>1, <1>2 DEF IInv, Shape, TimerKept
<1>4. Untouched' /\ ReplacedIsNew' /\ RollbackRestores'
  BY ONLY <1>1 DEF Untouched, ReplacedIsNew, RollbackRestores
<1>5. BackedUpIsOriginal' /\ RestoredIsOriginal'
  BY <1>1, <1>2 DEF IInv, BackedUpIsOriginal, RestoredIsOriginal
<1>6. Halted'
  <2>1. ~ (active /\ ignored = {})
    BY DEF IInv, Halted
  <2> QED BY ONLY <1>1, <2>1, Zenon DEF Halted
<1> QED BY <1>3, <1>4, <1>5, <1>6 DEF IInv

\* The invariant holds at the start of either script.
LEMMA InitIInv == Init => IInv
PROOF
<1> SUFFICES ASSUME Init PROVE IInv
  OBVIOUS
<1>1. Shape
  BY Orders DEF Init, Shape
<1> QED BY <1>1 DEF Init, IInv, TimerKept, Untouched, BackedUpIsOriginal, ReplacedIsNew,
                    RestoredIsOriginal, RollbackRestores, Halted

\* Each command, failing or not, preserves the invariant.
LEMMA NextIInv == ASSUME ~Tears PROVE IInv /\ [Next]_vars => IInv'
PROOF
<1> SUFFICES ASSUME IInv, [Next]_vars PROVE IInv'
  OBVIOUS
<1> USE DEF Succeed, Abort, Ignore, Fail, Proceed, inputs, timer
<1> USE DEF IInv, Shape, TimerKept, Untouched, BackedUpIsOriginal, ReplacedIsNew, AllNew,
            RestoredIsOriginal, RollbackRestores, Halted
<1>o. /\ {BackupOrder, ReplaceOrder, RemoveOrder, <<>>} \subseteq Seq(Files)
      /\ ToSet(BackupOrder) = Files /\ ToSet(ReplaceOrder) \subseteq Files
      /\ ToSet(<<>>) = {}
  BY Orders
<1>h. todo # <<>> => /\ Head(todo) \in Files /\ Tail(todo) \in Seq(Files)
                     /\ ToSet(todo) = {Head(todo)} \cup ToSet(Tail(todo))
  BY HeadAndTail
<1>1. CASE StopTimer
  <2>1. wasActive' = wasActive /\ active' \in {FALSE, active, active \/ wasActive}
    BY <1>1 DEF StopTimer
  <2>2. TimerKept'
    BY <2>1, TimerIsKept
  <2>3. Shape' /\ Untouched' /\ BackedUpIsOriginal' /\ ReplacedIsNew'
    BY <1>o, <1>1 DEF StopTimer
  <2>4. RestoredIsOriginal' /\ RollbackRestores' /\ Halted'
    BY <1>o, <1>1 DEF StopTimer
  <2> QED BY <2>2, <2>3, <2>4
<1>2. CASE MakeDirectories
  <2>1. UNCHANGED <<original, file, backup, active, wasActive>> /\ pc = "directories"
    BY <1>2 DEF MakeDirectories
  <2>2. file = original /\ file \in [Files -> {"absent", "old", "new"}]
    BY <2>1
  <2>3. CASE Abort
    BY ONLY IInv, <2>1, <2>2, <2>3, AbortKeeps
  <2>4. CASE Succeed("backup", BackupOrder)
    BY <1>o, <2>1, <2>4
  <2> QED BY <1>2, <2>3, <2>4 DEF MakeDirectories
<1>3. CASE BackUp
  <2> DEFINE f == Head(todo)
  <2>1. f \in Files /\ file = original /\ original[f] \in {"absent", "old"}
    BY <1>h, <1>3 DEF BackUp
  <2>2. /\ UNCHANGED <<original, file, timer>>
        /\ \/ /\ pc' = "backup" /\ todo' = Tail(todo)
              /\ backup' = [backup EXCEPT ![f] = original[f]]
           \/ /\ pc' = "restore" /\ todo' = BackupOrder
              /\ backup' = [backup EXCEPT ![f] = "none"]
    BY <1>3, <2>1 DEF BackUp, Leftover
  <2>3. todo' \in Seq(Files) /\ UNCHANGED <<original, file>>
    <3>1. todo # <<>>
      BY <1>3 DEF BackUp
    <3> HIDE DEF f
    <3> QED BY ONLY <1>o, <1>h, <2>2, <3>1
  <2>a. backup \in [Files -> {"none", "absent", "old"}]
    OBVIOUS
  <2>4. backup' \in [Files -> {"none", "absent", "old"}]
    <3> HIDE DEF f
    <3>1. PICK x \in {"none", "absent", "old"} : backup' = [backup EXCEPT ![f] = x]
      BY ONLY <2>1, <2>2
    <3> QED BY ONLY <2>a, <3>1
  <2>5. \A g \in Files : backup'[g] = IF g # f THEN backup[g]
                                      ELSE IF pc' = "backup" THEN original[f] ELSE "none"
    <3> HIDE DEF f
    <3> QED BY ONLY <2>1, <2>2, <2>a
  <2>6. BackedUpIsOriginal'
    <3>1. /\ pc = "backup" /\ ToSet(todo) = {f} \cup ToSet(Tail(todo)) /\ BackedUpIsOriginal
          /\ pc' \in {"backup", "restore"} /\ original' = original
          /\ pc' = "backup" => todo' = Tail(todo)
      BY <1>h, <1>3, <2>2 DEF BackUp
    <3> HIDE DEF f
    <3>2. \A g \in Files : backup'[g] \in {"none", original[g]}
      BY ONLY <2>5, <3>1 DEF BackedUpIsOriginal
    <3>3. pc' = "backup" => \A g \in Files : g \in ToSet(todo') \/ backup'[g] = original[g]
      BY ONLY <2>5, <3>1 DEF BackedUpIsOriginal
    <3> QED BY ONLY <3>1, <3>2, <3>3 DEF BackedUpIsOriginal
  <2>7. Shape' /\ TimerKept' /\ Untouched'
    BY <1>3, <2>1, <2>2, <2>3, <2>4 DEF BackUp
  <2>8. RestoredIsOriginal'
    BY <1>o, <2>1, <2>2
  <2>9. ReplacedIsNew' /\ RollbackRestores'
    BY <2>2
  <2>10. Halted'
    BY <1>3 DEF BackUp
  <2> QED BY <2>6, <2>7, <2>8, <2>9, <2>10
<1>4. CASE BackedUp
  BY <1>o, <1>4 DEF BackedUp
<1>5. CASE Replace
  <2> DEFINE f == Head(todo)
  <2>1. /\ f \in Files /\ Tail(todo) \in Seq(Files) /\ ToSet(todo) = {f} \cup ToSet(Tail(todo))
        /\ UNCHANGED <<original, backup, active, wasActive>>
        /\ pc = "replace" /\ file \in [Files -> {"absent", "old", "new"}]
    BY <1>h, <1>5 DEF Replace
  <2>2. \A g \in Files : backup[g] = original[g] /\ original[g] # "none"
    BY <2>1
  <2>3. CASE Abort /\ UNCHANGED file
    BY ONLY IInv, <2>1, <2>2, <2>3, AbortKeeps
  <2>4. CASE /\ Succeed("replace", Tail(todo))
             /\ file' = [file EXCEPT ![f] = "new"]
    <3>1. pc' = "replace" /\ todo' = Tail(todo) /\ ignored' = ignored
      BY <2>4
    <3>2. /\ file' \in [Files -> {"absent", "old", "new"}] /\ file'[f] = "new"
          /\ \A g \in Files \ {f} : file'[g] = file[g]
      <4> HIDE DEF f
      <4> QED BY ONLY <2>1, <2>4
    <3>3. Shape' /\ TimerKept'
      BY <2>1, <3>1, <3>2
    <3>4. BackedUpIsOriginal' /\ RestoredIsOriginal'
      BY <2>1, <2>2, <3>1
    <3>5. ReplacedIsNew'
      BY <1>o, <2>1, <3>1, <3>2
    <3>6. Untouched' /\ RollbackRestores' /\ Halted'
      BY <2>1, <3>1
    <3> QED BY ONLY <3>3, <3>4, <3>5, <3>6 DEF IInv
  <2> QED BY <1>5, <2>3, <2>4 DEF Replace
<1>6. CASE Replaced
  BY <1>o, <1>6 DEF Replaced
<1>a. pc \in {"reload", "sync", "verify", "commit"} =>
        /\ \A f \in Files : backup[f] = original[f] /\ original[f] # "none"
        /\ file \in [Files -> {"absent", "old", "new"}] /\ AllNew
  OBVIOUS
<1>7. CASE DaemonReload
  <2>1. UNCHANGED <<original, file, backup, active, wasActive>> /\ pc = "reload"
    BY <1>7 DEF DaemonReload
  <2>2. CASE Abort
    BY ONLY IInv, <1>a, <2>1, <2>2, AbortKeeps
  <2>3. CASE Succeed(IF configured THEN "sync" ELSE "verify", todo)
    BY <1>a, <2>1, <2>3
  <2> QED BY <1>7, <2>2, <2>3 DEF DaemonReload
<1>8. CASE TimerSync
  <2> DEFINE synced == [file EXCEPT !["override"] = "new"]
  <2>1. UNCHANGED <<original, backup, active, wasActive>> /\ pc = "sync"
    BY <1>8 DEF TimerSync
  <2>2. /\ synced \in [Files -> {"absent", "old", "new"}]
        /\ \A f \in ToSet(ReplaceOrder) : synced[f] = "new"
    <3>1. \A f \in Files : synced[f] = IF f = "override" THEN "new" ELSE file[f]
      BY ONLY <1>a, <2>1
    <3>2. synced \in [Files -> {"absent", "old", "new"}]
      BY ONLY <1>a, <2>1
    <3> HIDE DEF synced
    <3> QED BY <1>o, <1>a, <2>1, <3>1, <3>2
  <2>3. (Succeed("verify", todo) /\ file' = synced) \/ (Abort /\ file' \in {file, synced})
    BY <1>8 DEF TimerSync
  <2> HIDE DEF synced
  <2>4. CASE Abort /\ file' \in {file, synced}
    <3>1. file' \in [Files -> {"absent", "old", "new"}]
      BY ONLY <1>a, <2>1, <2>2, <2>4
    <3> QED BY ONLY IInv, <1>a, <2>1, <2>4, <3>1, AbortKeeps
  <2>5. CASE Succeed("verify", todo) /\ file' = synced
    BY <1>a, <2>1, <2>2, <2>5
  <2> QED BY ONLY <2>3, <2>4, <2>5
<1>9. CASE Verify
  <2>1. UNCHANGED <<original, file, backup, active, wasActive>> /\ pc = "verify"
    BY <1>9 DEF Verify
  <2>2. CASE Abort
    BY ONLY IInv, <1>a, <2>1, <2>2, AbortKeeps
  <2>3. CASE Succeed("commit", todo)
    BY <1>a, <2>1, <2>3
  <2> QED BY <1>9, <2>2, <2>3 DEF Verify
<1>10. CASE Commit
  <2>1. UNCHANGED <<original, file, backup, wasActive>> /\ pc = "commit"
    BY <1>10 DEF Commit
  <2>2. CASE Abort /\ UNCHANGED active
    BY ONLY IInv, <1>a, <2>1, <2>2, AbortKeeps
  <2>3. CASE Succeed("installed", todo) /\ ((wasActive /\ active' = TRUE) \/ UNCHANGED active)
    <3>1. TimerKept'
      <4>1. TimerKept /\ wasActive' = wasActive
        BY <2>1
      <4>2. CASE wasActive /\ active' = TRUE
        BY ONLY <4>1, <4>2, Zenon DEF TimerKept
      <4>3. CASE active' = active
        BY ONLY <4>1, <4>3, Zenon DEF TimerKept
      <4> QED BY ONLY <2>3, <4>2, <4>3
    <3>2. Shape' /\ Untouched' /\ BackedUpIsOriginal' /\ ReplacedIsNew'
      BY <1>a, <2>1, <2>3
    <3> QED BY <2>1, <2>3, <3>1, <3>2
  <2> QED BY <1>10, <2>2, <2>3 DEF Commit
<1>11. CASE Restore
  <2> DEFINE f == Head(todo)
  <2>1. /\ f \in Files /\ todo' = Tail(todo) /\ pc' = "restore"
        /\ UNCHANGED <<original, backup, timer>>
    BY <1>h, <1>11 DEF Restore
  <2>2. \/ /\ ignored' = ignored
           /\ file' = [file EXCEPT ![f] = IF backup[f] = "none" THEN file[f] ELSE backup[f]]
        \/ /\ backup[f] # "none" /\ "rollback" \in ignored'
           /\ file' = [file EXCEPT ![f] = file[f]]
    BY <1>11 DEF Restore, Leftover
  <2>3. /\ file' \in [Files -> {"absent", "old", "new"}]
        /\ \A g \in Files \ {f} : file'[g] = file[g]
    <3>1. PICK x \in {"absent", "old", "new"} : file' = [file EXCEPT ![f] = x]
      <4>1. file[f] \in {"absent", "old", "new"} /\ backup[f] \in {"none", "absent", "old"}
        BY <2>1
      <4> QED BY <2>2, <4>1
    <3> QED BY <2>1, <3>1
  <2>4. "rollback" \notin ignored' => "rollback" \notin ignored /\ file'[f] = original[f]
    BY <1>11, <2>1, <2>2 DEF Restore
  <2>5. \A g \in Files : backup[g] = "none" => file'[g] = original[g]
    BY <1>11, <2>1, <2>2 DEF Restore
  <2>6. RestoredIsOriginal'
    BY <1>h, <1>11, <2>1, <2>3, <2>4, <2>5 DEF Restore
  <2>7. Shape'
    BY <1>h, <1>11, <2>1, <2>3 DEF Restore
  <2>8. Halted'
    BY <1>11 DEF Restore
  <2> QED BY <2>1, <2>6, <2>7, <2>8
<1>12. CASE RestoreUnits
  <2>1. wasActive' = wasActive /\ active' \in {FALSE, active, active \/ wasActive}
    BY <1>12 DEF RestoreUnits
  <2>2. TimerKept'
    BY <2>1, TimerIsKept
  <2>3. Shape' /\ Untouched' /\ BackedUpIsOriginal' /\ ReplacedIsNew'
    BY <1>o, <1>12 DEF RestoreUnits
  <2>4. RestoredIsOriginal' /\ Halted'
    BY <1>o, <1>12 DEF RestoreUnits
  <2>5. RollbackRestores'
    <3> SUFFICES ASSUME "rollback" \notin ignored'
                 PROVE  file' = original' /\ active' = wasActive'
      OBVIOUS
    <3>1. \A f \in Files : file[f] = original[f]
      BY <1>o, <1>12 DEF RestoreUnits
    <3>2. Shape
      OBVIOUS
    <3>3. file = original
      BY <3>1, <3>2, AllFilesOriginal
    <3>4. active' = (active \/ wasActive) /\ TimerKept
      BY <1>12 DEF RestoreUnits
    <3>5. active' = wasActive
      BY <3>4, Zenon DEF TimerKept
    <3> QED BY <1>12, <3>3, <3>5 DEF RestoreUnits
  <2> QED BY <2>2, <2>3, <2>4, <2>5
<1>13. CASE DisableTimer
  <2>1. wasActive' = wasActive /\ active' \in {FALSE, active, active \/ wasActive}
    BY <1>13 DEF DisableTimer
  <2>2. TimerKept'
    BY <2>1, TimerIsKept
  <2>3. Shape' /\ Untouched' /\ BackedUpIsOriginal' /\ ReplacedIsNew'
    BY <1>o, <1>13 DEF DisableTimer
  <2>4. RestoredIsOriginal' /\ RollbackRestores' /\ Halted'
    BY <1>o, <1>13 DEF DisableTimer
  <2> QED BY <2>2, <2>3, <2>4
<1>14. CASE RemoveFile
  BY <1>o, <1>h, <1>14 DEF RemoveFile
<1>15. CASE RemoveManifest
  <2>1. PICK gone \in {{}, {"override"}, {"manifest"}, {"override", "manifest"}} :
          file' = [f \in Files |-> IF f \in gone THEN "absent" ELSE file[f]]
    <3>1. ASSUME NEW gone \in {{}, {"override"}}
          PROVE  /\ gone \in {{}, {"override"}, {"manifest"}, {"override", "manifest"}}
                 /\ gone \cup {"manifest"} \in {{"manifest"}, {"override", "manifest"}}
      OBVIOUS
    <3> QED BY <1>15, <3>1 DEF RemoveManifest
  <2>2. file' \in [Files -> {"absent", "old", "new"}]
    BY <2>1
  <2>3. Shape' /\ Halted' /\ TimerKept'
    BY <1>15, <2>2 DEF RemoveManifest
  <2>4. Untouched' /\ BackedUpIsOriginal' /\ ReplacedIsNew'
    BY <1>15 DEF RemoveManifest
  <2>5. RestoredIsOriginal' /\ RollbackRestores'
    BY <1>15 DEF RemoveManifest
  <2> QED BY <2>3, <2>4, <2>5
<1>16. CASE ForgetUnits
  BY <1>o, <1>16 DEF ForgetUnits
<1>17. CASE UNCHANGED vars
  BY <1>17 DEF vars
<1> QED BY <1>1, <1>2, <1>3, <1>4, <1>5, <1>6, <1>7, <1>8, <1>9, <1>10, <1>11, <1>12, <1>13, <1>14, <1>15, <1>16, <1>17 DEF Next

\* Whatever fails outside the rollback, it restores every file and the timer.
THEOREM RollbackIsExact == ASSUME ~Tears PROVE Spec => []RollbackRestores
PROOF
<1>1. IInv => RollbackRestores
  BY DEF IInv
<1> QED BY InitIInv, NextIInv, <1>1, PTL DEF Spec

\* Whatever fails but the stop of the timer and the rollback, the timer runs only
\* while all files are the old or all are the new ones.
THEOREM TimerMeetsOneVersion == ASSUME ~Tears PROVE Spec => []TimerRunsOneVersion
PROOF
<1>1. IInv => TimerRunsOneVersion
  BY DEF IInv, Untouched, ReplacedIsNew, RollbackRestores, Halted, TimerRunsOneVersion
<1> QED BY InitIInv, NextIInv, <1>1, PTL DEF Spec
================================================================================
