--------------------------- MODULE SecureFileProofs ---------------------------
(***************************************************************************)
(* Theorems about SecureFile, for any number of overlapping calls and any  *)
(* length of their contents.                                               *)
(*                                                                         *)
(* The inductive invariant adds to NamedIsDurable what the code's order    *)
(* establishes before the rename: a call that has synced its file has it   *)
(* whole on disk.                                                          *)
(***************************************************************************)
EXTENDS SecureFile, TLAPS

\* A process that was killed may have lost the data it has not synced.
PreparedAlive ==
  \A c \in Calls :
    /\ c \in alive /\ pc[c] = "written" => written[c] = Size
    /\ pc[c] \in {"synced", "closed", "renamed", "ok"} =>
         c \in synced /\ written[c] = Size

IInv == TypeOK /\ NamedIsDurable /\ PreparedAlive

\* Before the first call the path names the original.
LEMMA InitIInv == Init => IInv
  BY SecureFileAssumption
  DEF Init, IInv, TypeOK, NamedIsDurable, PreparedAlive, Fallible

\* The steps of Write preserve the invariant.
LEMMA StepIInv == ASSUME IInv, NEW c \in Calls, Step(c) PROVE IInv'
<1> USE SecureFileAssumption DEF IInv, TypeOK, NamedIsDurable, PreparedAlive, Fallible, Advance
<1>1. CASE Create(c)
  BY <1>1 DEF Create
<1>2. CASE Chmod(c)
  BY <1>2 DEF Chmod
<1>3. CASE WriteData(c)
  BY <1>3 DEF WriteData
<1>4. CASE Sync(c)
  BY <1>4 DEF Sync
<1>5. CASE Close(c)
  BY <1>5 DEF Close
<1>6. CASE Rename(c)
  BY <1>6 DEF Rename
<1>7. CASE SyncDir(c)
  BY <1>7 DEF SyncDir
<1>8. CASE Fail(c)
  BY <1>8 DEF Fail
<1>9. CASE Kill(c)
  BY <1>9 DEF Kill
<1>10. QED
  BY <1>1, <1>2, <1>3, <1>4, <1>5, <1>6, <1>7, <1>8, <1>9 DEF Step

\* A power cut keeps what is synced, which is all that the path may name.
LEMMA PowerCutIInv == ASSUME IInv, PowerCut PROVE IInv'
  BY SecureFileAssumption
  DEF IInv, TypeOK, NamedIsDurable, PreparedAlive, Fallible, PowerCut

\* The invariant holds in every state.
LEMMA Invariance == Spec => []IInv
<1>1. IInv /\ [Next]_vars => IInv'
  <2> SUFFICES ASSUME IInv, [Next]_vars PROVE IInv'
    OBVIOUS
  <2>1. CASE \E c \in Calls : Step(c)
    BY <2>1, StepIInv
  <2>2. CASE PowerCut
    BY <2>2, PowerCutIInv
  <2>3. CASE UNCHANGED vars
    BY <2>3 DEF vars, IInv, TypeOK, NamedIsDurable, PreparedAlive
  <2>4. QED
    BY <2>1, <2>2, <2>3 DEF Next
<1>2. QED
  BY InitIInv, <1>1, PTL DEF Spec

\* What the path names is always on disk and whole, and was installed by a call
\* that did not report an error.
THEOREM NamedFilesAreDurable == Spec => []NamedIsDurable
  BY Invariance, PTL DEF IInv

\* Readers of a file that securefile.Write replaces never find a part of it.
THEOREM ReadersFindWholeFiles == Spec => []WholeFile
<1>1. IInv => WholeFile
  BY DEF IInv, TypeOK, NamedIsDurable, WholeFile
<1>2. QED
  BY Invariance, <1>1, PTL

-----------------------------------------------------------------------------
(* Refinement *)

\* The register holds the first content.
LEMMA RegisterInit == Init => Register!Init
  BY DEF Init, Register!Init

\* Each system call is a step of the atomic file or changes nothing of it.
LEMMA RegisterStep ==
  ASSUME IInv, [Next]_vars
  PROVE  [Register!Next]_(Register!vars)
<1> DEFINE became == [c \in Calls |->
                IF pc[c] \in {"renamed", "ok"} THEN "installed"
                ELSE IF pc[c] = "error" THEN "failed" ELSE "pending"]
<1> USE DEF IInv, TypeOK, NamedIsDurable, Fallible, Advance
<1>1. ASSUME NEW c \in Calls, Create(c) \/ Chmod(c) \/ WriteData(c) \/ Sync(c) \/ Close(c) \/ Kill(c)
      PROVE  UNCHANGED Register!vars
  <2>1. became' = became
    BY <1>1 DEF Create, Chmod, WriteData, Sync, Close, Kill
  <2>2. QED
    BY <2>1, <1>1 DEF Create, Chmod, WriteData, Sync, Close, Kill, Register!vars
<1>2. ASSUME NEW c \in Calls, Rename(c) PROVE Register!Install(c)
  <2>1. became[c] = "pending"
    BY <1>2 DEF Rename
  <2>2. became' = [became EXCEPT ![c] = "installed"]
    BY <1>2 DEF Rename
  <2>3. QED
    BY <2>1, <2>2, <1>2 DEF Rename, Register!Install
<1>3. ASSUME NEW c \in Calls, Fail(c) PROVE Register!Refuse(c)
  <2>1. became[c] = "pending"
    BY <1>3 DEF Fail
  <2>2. became' = [became EXCEPT ![c] = "failed"]
    BY <1>3 DEF Fail
  <2>3. QED
    BY <2>1, <2>2, <1>3 DEF Fail, Register!Refuse
<1>4. ASSUME NEW c \in Calls, SyncDir(c)
      PROVE  Register!Settle \/ UNCHANGED Register!vars
  <2>1. became' = became
    BY <1>4 DEF SyncDir
  <2>2. QED
    BY <2>1, <1>4 DEF SyncDir, Register!Settle, Register!vars
<1>5. ASSUME PowerCut PROVE Register!Revert
  <2>1. became' = became
    BY <1>5 DEF PowerCut
  <2>2. QED
    BY <2>1, <1>5 DEF PowerCut, Register!Revert
<1>6. CASE UNCHANGED vars
  BY <1>6 DEF vars, Register!vars
<1>7. QED
  BY <1>1, <1>2, <1>3, <1>4, <1>5, <1>6 DEF Next, Step, Register!Next

\* The file that securefile.Write replaces behaves like the atomic file the
\* agent's saves rely on: an error changes nothing, a power cut leaves the
\* present content or one that was not settled away.
THEOREM SecureFileImplementsAtomicFile == Spec => AtomicFileSpec
<1>1. Init => Register!Init
  BY RegisterInit
<1>2. IInv /\ [Next]_vars => [Register!Next]_(Register!vars)
  BY RegisterStep
<1>3. QED
  BY Invariance, <1>1, <1>2, PTL DEF Spec, AtomicFileSpec, Register!Spec
================================================================================
