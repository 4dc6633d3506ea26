------------------------------- MODULE SecureFile -------------------------------
(***************************************************************************)
(* securefile.Write, call by system call: the way every file of the agent  *)
(* is replaced.  Calls may overlap (two commands that save the             *)
(* configuration do), a call may be killed at any point, and a power cut   *)
(* keeps only what the file system has on disk.                            *)
(*                                                                         *)
(* Abstractions.                                                           *)
(*   - A content is the call that wrote it; its length is the same for all *)
(*     calls, and how much of it is written is a number of bytes.          *)
(*   - External: until a file is synced, a power cut may take any end of   *)
(*     it; until the directory is synced, it may undo renames.             *)
(*   - The mode set by Chmod is not modelled, its failure is.              *)
(***************************************************************************)
EXTENDS Naturals

CONSTANTS
  Calls,     \* the calls of Write for one path
  Original,  \* the content of the path before them
  Size       \* the length of a content

ASSUME SecureFileAssumption == Original \notin Calls /\ Size \in Nat

VARIABLES
  pc,       \* the last system call each call has made
  alive,    \* the calls whose process is not killed
  written,  \* the bytes a reader of the call's file would find
  synced,   \* the calls whose file is on disk
  path,     \* the call whose file the path names
  durable   \* the calls whose file it may name after a power cut

vars == <<pc, alive, written, synced, path, durable>>

Init ==
  /\ pc = [c \in Calls |-> "ready"]
  /\ alive = Calls
  /\ written = [c \in Calls |-> 0]
  /\ synced = {}
  /\ path = Original
  /\ durable = {Original}

Advance(c, from, to) ==
  /\ c \in alive /\ pc[c] = from
  /\ pc' = [pc EXCEPT ![c] = to]
  /\ UNCHANGED alive

-----------------------------------------------------------------------------
(* Write *)

Create(c) ==
  /\ Advance(c, "ready", "created")
  /\ UNCHANGED <<written, synced, path, durable>>

Chmod(c) ==
  /\ Advance(c, "created", "protected")
  /\ UNCHANGED <<written, synced, path, durable>>

\* Mutant of WriteData: a short write is taken for a whole one.
WriteShort(c) ==
  /\ Advance(c, "protected", "written")
  /\ \E bytes \in 0..Size : written' = [written EXCEPT ![c] = bytes]
  /\ UNCHANGED <<synced, path, durable>>

WriteData(c) ==
  /\ Advance(c, "protected", "written")
  /\ written' = [written EXCEPT ![c] = Size]
  /\ UNCHANGED <<synced, path, durable>>

\* Mutant of Sync: the file is not synced.
NoSync(c) ==
  /\ Advance(c, "written", "synced")
  /\ UNCHANGED <<written, synced, path, durable>>

Sync(c) ==
  /\ Advance(c, "written", "synced")
  /\ synced' = synced \cup {c}
  /\ UNCHANGED <<written, path, durable>>

Close(c) ==
  /\ Advance(c, "synced", "closed")
  /\ UNCHANGED <<written, synced, path, durable>>

Rename(c) ==
  /\ Advance(c, "closed", "renamed")
  /\ path' = c
  /\ durable' = durable \cup {c}
  /\ UNCHANGED <<written, synced>>

\* Mutant of SyncDir: a directory that cannot be synced is an error.
SyncDirOrFail(c) ==
  /\ \/ Advance(c, "renamed", "ok") /\ durable' = {path}
     \/ Advance(c, "renamed", "error") /\ UNCHANGED durable
  /\ UNCHANGED <<written, synced, path>>

\* The directory is synced if that is possible; its error is ignored.
SyncDir(c) ==
  /\ Advance(c, "renamed", "ok")
  /\ durable' = {path} \/ UNCHANGED durable
  /\ UNCHANGED <<written, synced, path>>

Fallible == {"ready", "created", "protected", "written", "synced", "closed"}

\* Every step up to the rename may fail.  A write that fails leaves a part of
\* the data in the temporary file, which is then removed.
Fail(c) ==
  /\ c \in alive /\ pc[c] \in Fallible
  /\ pc' = [pc EXCEPT ![c] = "error"]
  /\ \E bytes \in 0..Size : written' = [written EXCEPT ![c] = bytes]
  /\ synced' = synced \ {c}
  /\ UNCHANGED <<alive, path, durable>>

-----------------------------------------------------------------------------
(* Crashes *)

Kill(c) ==
  /\ c \in alive /\ pc[c] \notin {"ready", "ok", "error"}
  /\ alive' = alive \ {c}
  /\ UNCHANGED <<pc, written, synced, path, durable>>

PowerCut ==
  /\ alive' = {c \in alive : pc[c] \in {"ready", "ok", "error"}}
  /\ written' \in [Calls -> 0..Size]
  /\ \A c \in Calls :
       /\ written'[c] <= written[c]
       /\ c \in synced => written'[c] = written[c]
  /\ path' \in durable
  /\ durable' = {path'}
  /\ UNCHANGED <<pc, synced>>

Step(c) ==
  \/ Create(c)
  \/ Chmod(c)
  \/ WriteData(c)
  \/ Sync(c)
  \/ Close(c)
  \/ Rename(c)
  \/ SyncDir(c)
  \/ Fail(c)
  \/ Kill(c)

Next == (\E c \in Calls : Step(c)) \/ PowerCut

Spec == Init /\ [][Next]_vars

-----------------------------------------------------------------------------
(* Properties *)

TypeOK ==
  /\ pc \in [Calls -> Fallible \cup {"renamed", "ok", "error"}]
  /\ alive \subseteq Calls
  /\ written \in [Calls -> 0..Size]
  /\ synced \subseteq Calls
  /\ path \in Calls \cup {Original}
  /\ durable \subseteq Calls \cup {Original}

\* A reader never finds a part of a content, whatever is killed or cut off.
WholeFile == path # Original => written[path] = Size

\* What the path names, or may name after a power cut, is whole and on disk, and
\* no call that failed or is not that far is among it.
NamedIsDurable ==
  /\ path \in durable
  /\ \A c \in durable \ {Original} :
       c \in synced /\ written[c] = Size /\ pc[c] \in {"renamed", "ok"}

\* A call that reports an error has changed nothing, one that succeeds has
\* installed its content as a whole.
Register == INSTANCE AtomicFile WITH
  value <- path,
  fallbacks <- durable,
  outcome <- [c \in Calls |->
                IF pc[c] \in {"renamed", "ok"} THEN "installed"
                ELSE IF pc[c] = "error" THEN "failed" ELSE "pending"]

AtomicFileSpec == Register!Spec
================================================================================
