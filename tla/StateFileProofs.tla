--------------------------- MODULE StateFileProofs ---------------------------
(***************************************************************************)
(* What every step of AtomicWriteWithBackup, and every stop in the middle  *)
(* of it, preserves, whatever the documents are.                           *)
(***************************************************************************)
EXTENDS StateFile, TLAPS

(***************************************************************************)
(* The typing of the file, and what the fsync buys: from then on a power   *)
(* loss would show the whole of path.tmp.                                  *)
(***************************************************************************)
FileInv(Doc) ==
    /\ FileTypeOK(Doc)
    /\ wpc \in {"staged", "promote"} => tmp = data

\* A data directory without the file satisfies the invariant.
LEMMA FileInvInit ==
    ASSUME NEW D, FileInit
    PROVE  FileInv(D)
BY DEF FileInit, FileInv, FileTypeOK, Directory, WriteSteps

\* Opening and writing the temporary file preserves it.
LEMMA BeginWriteInv ==
    ASSUME NEW D, NEW doc \in D, FileInv(D), BeginWrite(doc)
    PROVE  FileInv(D)'
BY DEF BeginWrite, FileInv, FileTypeOK, Directory, WriteSteps

\* The fsync and the two renames preserve it.
LEMMA WriteStepInv ==
    ASSUME NEW D, FileInv(D), WriteStep
    PROVE  FileInv(D)'
<1>1. CASE Fsync
  BY <1>1 DEF Fsync, FileInv, FileTypeOK, Directory, WriteSteps
<1>2. CASE KeepBackup
  BY <1>2 DEF KeepBackup, FileInv, FileTypeOK, Directory, WriteSteps
<1>3. CASE Promote
  <2>1. tmp = data /\ data \in D
    BY <1>3 DEF Promote, FileInv, FileTypeOK
  <2>2. dir' \in Directory(D) /\ dir' = [dir EXCEPT !.main = tmp]
    BY <1>3, <2>1 DEF Promote, FileInv, FileTypeOK, Directory
  <2> QED
    BY <1>3, <2>1, <2>2 DEF Promote, FileInv, FileTypeOK, WriteSteps
<1> QED
  BY <1>1, <1>2, <1>3 DEF WriteStep

\* So does the successful return after fsync(dir).
LEMMA WriteOKInv ==
    ASSUME NEW D, FileInv(D), WriteOK
    PROVE  FileInv(D)'
BY DEF WriteOK, Return, FileInv, FileTypeOK, Directory, WriteSteps

\* So does every error return.
LEMMA WriteErrorInv ==
    ASSUME NEW D, FileInv(D), WriteError
    PROVE  FileInv(D)'
<1>1. CASE StageFails
  BY <1>1 DEF StageFails, Return, FileInv, FileTypeOK, Directory, WriteSteps
<1>2. CASE KeepBackupFails
  BY <1>2 DEF KeepBackupFails, Return, FileInv, FileTypeOK, Directory, WriteSteps
<1>3. CASE PromoteFails
  BY <1>3 DEF PromoteFails, Return, FileInv, FileTypeOK, Directory, WriteSteps
<1>4. CASE SyncFails
  BY <1>4 DEF SyncFails, Return, FileInv, FileTypeOK, Directory, WriteSteps
<1> QED
  BY <1>1, <1>2, <1>3, <1>4 DEF WriteError

\* So does the death of the process at any step.
LEMMA ProcessDiesInv ==
    ASSUME NEW D, FileInv(D), ProcessDies
    PROVE  FileInv(D)'
BY DEF ProcessDies, Return, FileInv, FileTypeOK, Directory, WriteSteps

\* So does a power loss at any step.
LEMMA PowerFailsInv ==
    ASSUME NEW D, FileInv(D), PowerFails
    PROVE  FileInv(D)'
BY DEF PowerFails, Return, FileInv, FileTypeOK, Directory, WriteSteps

\* So does damage to the file at rest.
LEMMA CorruptInv ==
    ASSUME NEW D, FileInv(D), Corrupt
    PROVE  FileInv(D)'
BY DEF Corrupt, FileInv, FileTypeOK, Directory, WriteSteps

\* A step that does not touch the file preserves it.
LEMMA FileUnchangedInv ==
    ASSUME NEW D, FileInv(D), UNCHANGED fileVars
    PROVE  FileInv(D)'
BY DEF fileVars, FileInv, FileTypeOK, Directory, WriteSteps
=============================================================================
