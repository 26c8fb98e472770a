------------------------- MODULE DocumentStoreProofs -------------------------
(***************************************************************************)
(* Proofs about DocumentStore for any number of savers, generations,       *)
(* stops, I/O errors and damaged files.                                    *)
(***************************************************************************)
EXTENDS DocumentStore, StateFileProofs

-----------------------------------------------------------------------------
(* Type correctness.                                                       *)

\* The typing of what is not the file.
StoreTypeOK ==
    /\ status \in {"down", "booting", "up", "refused"}
    /\ mem \in Nat
    /\ gen \in Nat
    /\ phase \in [Savers -> {"idle", "queued", "writing"}]
    /\ want \in [Savers -> Nat]
    /\ owner \in Savers \cup {Nobody}
    /\ acked \in Nat
    /\ disposable \in BOOLEAN
    /\ crashes \in 0..MaxCrashes
    /\ ioErrors \in 0..MaxIOErrors
    /\ corruptions \in 0..MaxCorruptions

\* A document that is being served, or saved by NewStore, is a real one.
TypeInv ==
    /\ FileInv(Doc)
    /\ StoreTypeOK
    /\ status \in {"booting", "up"} => mem \in Doc

\* The state before the first start is well typed.
LEMMA TypeInvInit == Init => TypeInv
BY DocumentAssumption, FileInvInit DEF Init, TypeInv, StoreTypeOK

\* A file step of a running store keeps the file well typed.
LEMMA FileInvNext == TypeInv /\ [Next]_vars => FileInv(Doc)'
<1> SUFFICES ASSUME TypeInv, [Next]_vars
             PROVE  FileInv(Doc)'
  OBVIOUS
<1>0. FileInv(Doc)
  BY DEF TypeInv
<1>1. CASE BootCreate
  <2>1. mem' \in Doc /\ BeginWrite(mem')
    BY <1>1 DEF BootCreate, TypeInv, StoreTypeOK, Doc
  <2> QED
    BY <1>0, <2>1 DEF BeginWrite, FileInv, FileTypeOK, Directory, WriteSteps
<1>2. CASE BootMain
  BY <1>0, <1>2, FileUnchangedInv DEF BootMain
<1>3. CASE BootBackup \/ BootKeypair
  <2>1. mem' \in Doc /\ BeginWrite(mem')
    BY <1>0, <1>3 DEF BootBackup, BootKeypair, Usable, FileInv, FileTypeOK, Directory
  <2> QED
    BY <1>0, <2>1 DEF BeginWrite, FileInv, FileTypeOK, Directory, WriteSteps
<1>4. CASE BootUnusable
  BY <1>0, <1>4, FileUnchangedInv DEF BootUnusable
<1>5. CASE BootSaved
  BY <1>0, <1>5, WriteOKInv DEF BootSaved
<1>6. CASE BootSaveFails
  BY <1>0, <1>6, WriteErrorInv DEF BootSaveFails
<1>7. CASE Restart
  BY <1>0, <1>7, FileUnchangedInv DEF Restart
<1>8. ASSUME NEW s \in Savers, Change(s)
      PROVE  FileInv(Doc)'
  BY <1>0, <1>8, FileUnchangedInv DEF Change
<1>9. ASSUME NEW s \in Savers, BeginSave(s)
      PROVE  FileInv(Doc)'
  <2>1. mem \in Doc /\ BeginWrite(mem)
    BY <1>9 DEF BeginSave, TypeInv
  <2> QED
    BY <1>0, <2>1 DEF BeginWrite, FileInv, FileTypeOK, Directory, WriteSteps
<1>10. ASSUME NEW s \in Savers, Saved(s)
       PROVE  FileInv(Doc)'
  BY <1>0, <1>10, WriteOKInv DEF Saved
<1>11. ASSUME NEW s \in Savers, SaveFails(s)
       PROVE  FileInv(Doc)'
  BY <1>0, <1>11, WriteErrorInv DEF SaveFails
<1>12. CASE Write
  BY <1>0, <1>12, WriteStepInv DEF Write
<1>13. CASE Crash
  BY <1>0, <1>13, ProcessDiesInv DEF Crash
<1>14. CASE PowerLoss
  BY <1>0, <1>14, PowerFailsInv DEF PowerLoss
<1>15. CASE Damage
  BY <1>0, <1>15, CorruptInv DEF Damage
<1>16. CASE UNCHANGED vars
  BY <1>0, <1>16, FileUnchangedInv DEF vars
<1> QED
  BY <1>1, <1>2, <1>3, <1>4, <1>5, <1>6, <1>7, <1>8, <1>9, <1>10, <1>11,
     <1>12, <1>13, <1>14, <1>15, <1>16 DEF Next, Boot

\* Every step keeps the store well typed.
LEMMA TypeInvNext == TypeInv /\ [Next]_vars => TypeInv'
<1> SUFFICES ASSUME TypeInv, [Next]_vars
             PROVE  (StoreTypeOK /\ (status \in {"booting", "up"} => mem \in Doc))'
  BY FileInvNext DEF TypeInv
<1> USE DocumentAssumption DEF TypeInv, StoreTypeOK, Doc, outside
<1>0. dir.main \in Doc \cup {Absent, Torn} /\ dir.bak \in Doc \cup {Absent, Torn}
  BY DEF FileInv, FileTypeOK, Directory
<1>1. CASE BootCreate
  BY <1>1 DEF BootCreate
<1>2. CASE BootMain
  BY <1>0, <1>2 DEF BootMain, Usable
<1>3. CASE BootBackup \/ BootKeypair
  BY <1>0, <1>3 DEF BootBackup, BootKeypair, Usable
<1>4. CASE BootUnusable
  BY <1>4 DEF BootUnusable
<1>5. CASE BootSaved
  BY <1>5 DEF BootSaved, Later
<1>6. CASE BootSaveFails
  BY <1>6 DEF BootSaveFails
<1>7. CASE Restart
  BY <1>7 DEF Restart
<1>8. ASSUME NEW s \in Savers, Change(s) \/ BeginSave(s) \/ SaveFails(s)
      PROVE  (StoreTypeOK /\ (status \in {"booting", "up"} => mem \in Doc))'
  BY <1>8 DEF Change, BeginSave, SaveFails, EndSave
<1>9. ASSUME NEW s \in Savers, Saved(s)
      PROVE  (StoreTypeOK /\ (status \in {"booting", "up"} => mem \in Doc))'
  BY <1>9 DEF Saved, EndSave, Later
<1>10. CASE Write
  BY <1>10 DEF Write
<1>11. CASE Crash \/ PowerLoss
  BY <1>11 DEF Crash, PowerLoss, Stop
<1>12. CASE Damage
  BY <1>12 DEF Damage
<1>13. CASE UNCHANGED vars
  BY <1>13 DEF vars
<1> QED
  BY <1>1, <1>2, <1>3, <1>4, <1>5, <1>6, <1>7, <1>8, <1>9, <1>10, <1>11,
     <1>12, <1>13 DEF Next, Boot

(***************************************************************************)
(* Every state the store reaches is well typed: no step of a save, of a    *)
(* start or of a stop leaves a directory entry, a snapshot or a saver that *)
(* the code has no meaning for.                                            *)
(***************************************************************************)
THEOREM TypeCorrect == Spec => []TypeOK
<1>1. TypeInv => TypeOK
  BY DEF TypeInv, TypeOK, StoreTypeOK, FileInv
<1> QED
  BY <1>1, TypeInvInit, TypeInvNext, PTL DEF Spec

-----------------------------------------------------------------------------
(* What holds whatever happens to the files.                               *)

\* Who is inside AtomicWriteWithBackup: NewStore or the holder of saveMu.
LockInv ==
    /\ wpc # "idle" => status = "booting" \/ (status = "up" /\ owner # Nobody)
    /\ status = "booting" => wpc # "idle"
    /\ status # "up" => owner = Nobody /\ \A s \in Savers : phase[s] = "idle"
    /\ owner # Nobody => wpc # "idle" /\ phase[owner] = "writing"

\* Nothing in memory, in a save or in a file is beyond the newest generation,
\* and memory holds every change that is waiting to be saved.
MadeInv ==
    /\ mem <= gen
    /\ wpc # "idle" => data <= gen
    /\ \A d \in journal : /\ Usable(d.main) => d.main <= gen
                          /\ Usable(d.bak) => d.bak <= gen
    /\ \A s \in Savers : phase[s] # "idle" => want[s] <= mem

\* Every step keeps the lock and the generations in order, damage included.
LEMMA BaseInvNext ==
    ASSUME TypeInv, LockInv, MadeInv, [Next]_vars
    PROVE  LockInv' /\ MadeInv'
<1> USE DocumentAssumption, MarksDiffer
<1>t. /\ dir.main \in Doc \cup {Absent, Torn} /\ dir.bak \in Doc \cup {Absent, Torn}
      /\ dir \in journal
      /\ dir = [main |-> dir.main, bak |-> dir.bak]
      /\ wpc # "idle" => data \in Doc
      /\ wpc \in {"staged", "promote"} => tmp = data
      /\ \A d \in journal : /\ d.main \in Doc \cup {Absent, Torn}
                            /\ d.bak \in Doc \cup {Absent, Torn}
      /\ StoreTypeOK
  BY DEF TypeInv, FileInv, FileTypeOK, Directory
<1>1. CASE BootCreate
  BY <1>1, <1>t
     DEF BootCreate, BeginWrite, StoreTypeOK, LockInv, MadeInv, Usable, Doc
<1>2. CASE BootMain \/ BootKeypair \/ BootBackup
  BY <1>2, <1>t
     DEF BootMain, BootKeypair, BootBackup, BeginWrite, fileVars, StoreTypeOK,
         LockInv, MadeInv, Usable, Doc
<1>3. CASE BootUnusable
  BY <1>3, <1>t
     DEF BootUnusable, fileVars, StoreTypeOK, LockInv, MadeInv, Usable, Doc
<1>4. CASE BootSaved
  BY <1>4, <1>t
     DEF BootSaved, WriteOK, Return, StoreTypeOK, LockInv, MadeInv, Usable, Doc
<1>5. CASE BootSaveFails
  BY <1>5, <1>t
     DEF BootSaveFails, WriteError, StageFails, KeepBackupFails, PromoteFails, SyncFails,
         Return, StoreTypeOK, LockInv, MadeInv, Usable, Doc
<1>6. CASE Restart
  BY <1>6, <1>t DEF Restart, fileVars, StoreTypeOK, LockInv, MadeInv
<1>7. ASSUME NEW s \in Savers, Change(s)
      PROVE  LockInv' /\ MadeInv'
  BY <1>7, <1>t DEF Change, fileVars, StoreTypeOK, LockInv, MadeInv, Usable, Doc
<1>8. ASSUME NEW s \in Savers, BeginSave(s)
      PROVE  LockInv' /\ MadeInv'
  BY <1>8, <1>t DEF BeginSave, BeginWrite, StoreTypeOK, LockInv, MadeInv, Usable
<1>9. ASSUME NEW s \in Savers, Saved(s)
      PROVE  LockInv' /\ MadeInv'
  BY <1>9, <1>t
     DEF Saved, EndSave, WriteOK, Return, StoreTypeOK, LockInv, MadeInv, Usable
<1>10. ASSUME NEW s \in Savers, SaveFails(s)
       PROVE  LockInv' /\ MadeInv'
  BY <1>10, <1>t
     DEF SaveFails, EndSave, WriteError, StageFails, KeepBackupFails, PromoteFails,
         SyncFails, Return, StoreTypeOK, LockInv, MadeInv, Usable
<1>11. CASE Write /\ Fsync
  BY <1>11, <1>t DEF Write, Fsync, StoreTypeOK, LockInv, MadeInv
<1>12. CASE Write /\ KeepBackup
  BY <1>12, <1>t DEF Write, KeepBackup, StoreTypeOK, LockInv, MadeInv, Usable
<1>13. CASE Write /\ Promote
  BY <1>13, <1>t DEF Write, Promote, StoreTypeOK, LockInv, MadeInv, Usable
<1>14. CASE Crash \/ PowerLoss
  BY <1>14, <1>t
     DEF Crash, PowerLoss, Stop, ProcessDies, PowerFails, Return, StoreTypeOK,
         LockInv, MadeInv
<1>15. CASE Damage
  BY <1>15, <1>t DEF Damage, Corrupt, StoreTypeOK, LockInv, MadeInv, Usable
<1>16. CASE UNCHANGED vars
  BY <1>16 DEF vars, fileVars, LockInv, MadeInv
<1> QED
  BY <1>1, <1>2, <1>3, <1>4, <1>5, <1>6, <1>7, <1>8, <1>9, <1>10, <1>11,
     <1>12, <1>13, <1>14, <1>15, <1>16 DEF Next, Boot, Write, WriteStep

-----------------------------------------------------------------------------
(* Durability of acknowledged saves, until something damages a file at rest. *)

\* Where the save is, and what the main file then holds.
StepInv ==
    /\ wpc = "promote" => dir.main = Absent
    /\ wpc = "sync" => dir.main = data

\* The document in memory is as new as anything on disk or acknowledged.
FreshInv ==
    /\ mem <= gen
    /\ acked <= gen
    /\ status \in {"booting", "up"} =>
        /\ acked <= mem
        /\ Usable(dir.main) => dir.main <= mem
        /\ Usable(dir.bak) => dir.bak <= mem

\* The snapshot being written is as new as anything on disk or acknowledged,
\* and holds the change its caller waits for.
SnapshotInv ==
    /\ wpc # "idle" =>
        /\ data <= mem
        /\ acked <= data
        /\ Usable(dir.main) => dir.main <= data
        /\ Usable(dir.bak) => dir.bak <= data
    /\ status = "booting" => data = mem
    /\ \A s \in Savers : phase[s] # "idle" => want[s] <= mem
    /\ owner # Nobody => want[owner] <= data

\* A directory that keeps generation g safe; no entry is beyond the last one.
Safe(d, g) ==
    /\ d.main # Torn
    /\ d.bak # Torn
    /\ d.main # Absent => g <= d.main /\ d.main <= gen
    /\ d.bak # Absent => d.bak <= gen
    /\ d.main = Absent => g = 0 \/ (d.bak # Absent /\ g <= d.bak)
    /\ d.main # Absent /\ d.bak # Absent => d.bak <= d.main

JournalInv == \A d \in journal : Safe(d, acked)

SafeInv == StepInv /\ FreshInv /\ SnapshotInv /\ JournalInv

DurableInv == TypeInv /\ LockInv /\ MadeInv /\ (Undamaged => SafeInv)

\* Nothing is saved before the first start.
LEMMA DurableInvInit == Init => DurableInv
<1> SUFFICES ASSUME Init
             PROVE  DurableInv
  OBVIOUS
<1>1. dir.main = Absent /\ dir.bak = Absent
  BY DEF Init, FileInit
<1>2. JournalInv
  BY <1>1, MarksDiffer DEF Init, FileInit, JournalInv, Safe
<1>3. LockInv /\ MadeInv /\ StepInv
  BY <1>1 DEF Init, FileInit, LockInv, MadeInv, StepInv, Usable
<1>4. FreshInv /\ SnapshotInv
  BY <1>1 DEF Init, FileInit, FreshInv, SnapshotInv, Usable
<1> QED
  BY <1>2, <1>3, <1>4, TypeInvInit DEF DurableInv, SafeInv

\* The strengthened invariant is inductive: damage only makes it weaker.
LEMMA DurableInvNext == DurableInv /\ [Next]_vars => DurableInv'
<1> SUFFICES ASSUME DurableInv, [Next]_vars
             PROVE  DurableInv'
  OBVIOUS
<1>b. TypeInv' /\ LockInv' /\ MadeInv'
  BY TypeInvNext, BaseInvNext DEF DurableInv
<1> SUFFICES ASSUME Undamaged'
             PROVE  SafeInv'
  BY <1>b DEF DurableInv
<1>u. Undamaged /\ ~Damage
  BY DEF Undamaged, Next, Boot, BootCreate, BootMain, BootKeypair, BootBackup,
         BootUnusable, BootSaved, BootSaveFails, Restart, Change, BeginSave, Saved,
         SaveFails, Write, Crash, PowerLoss, Stop, Damage, outside, vars,
         DurableInv, TypeInv, StoreTypeOK
<1>0. TypeInv /\ LockInv /\ StepInv /\ FreshInv /\ SnapshotInv /\ JournalInv
  BY <1>u DEF DurableInv, SafeInv
<1>t. /\ dir.main \in Doc \cup {Absent, Torn} /\ dir.bak \in Doc \cup {Absent, Torn}
      /\ dir = [main |-> dir.main, bak |-> dir.bak]
      /\ dir \in journal
      /\ \A d \in journal : /\ d.main \in Doc \cup {Absent, Torn}
                            /\ d.bak \in Doc \cup {Absent, Torn}
      /\ wpc # "idle" => data \in Doc
      /\ wpc \in {"staged", "promote"} => tmp = data
  BY <1>0 DEF TypeInv, FileInv, FileTypeOK, Directory
<1>d. Safe(dir, acked)
  BY <1>0, <1>t DEF JournalInv
<1> SUFFICES (StepInv /\ FreshInv /\ SnapshotInv /\ JournalInv)'
  BY DEF SafeInv
<1> DEFINE Rest == StepInv /\ FreshInv /\ SnapshotInv /\ JournalInv
<1> USE DocumentAssumption, MarksDiffer
<1>1. CASE BootCreate
  BY <1>0, <1>t, <1>d, <1>1
     DEF BootCreate, BeginWrite, TypeInv, StoreTypeOK, LockInv, StepInv, FreshInv,
         SnapshotInv, JournalInv, Safe, Usable, Doc
<1>2. CASE BootMain
  BY <1>0, <1>t, <1>d, <1>2
     DEF BootMain, fileVars, TypeInv, StoreTypeOK, LockInv, StepInv, FreshInv,
         SnapshotInv, JournalInv, Safe, Usable, Doc
<1>3. CASE BootBackup \/ BootUnusable
  BY <1>d, <1>3 DEF BootBackup, BootUnusable, Safe
<1>11. CASE BootKeypair
  BY <1>0, <1>t, <1>d, <1>11
     DEF BootKeypair, BeginWrite, TypeInv, StoreTypeOK, LockInv, StepInv, FreshInv,
         SnapshotInv, JournalInv, Safe, Usable, Doc
<1>4. CASE BootSaved
  <2>1. /\ dir' = dir /\ journal' = {dir} /\ wpc = "sync" /\ wpc' = "idle"
        /\ status = "booting" /\ status' = "up"
        /\ acked' = Later(acked, mem)
        /\ UNCHANGED <<mem, gen, phase, want, owner>>
    BY <1>4 DEF BootSaved, WriteOK, Return
  <2>2. dir.main = mem /\ acked' = mem /\ mem \in Doc
    BY <1>0, <2>1
       DEF TypeInv, StoreTypeOK, StepInv, SnapshotInv, FreshInv, Later, Doc
  <2>3. JournalInv'
    BY <1>0, <1>t, <1>d, <2>1, <2>2
       DEF TypeInv, StoreTypeOK, FreshInv, JournalInv, Safe, Usable, Doc
  <2>4. StepInv'
    BY <1>0, <2>1 DEF StepInv
  <2>5. FreshInv' /\ SnapshotInv'
    BY <1>0, <1>t, <2>1, <2>2
       DEF TypeInv, StoreTypeOK, LockInv, FreshInv, SnapshotInv, Usable, Doc
  <2> QED
    BY <2>3, <2>4, <2>5
<1>5. CASE BootSaveFails
  BY <1>0, <1>t, <1>d, <1>5
     DEF BootSaveFails, WriteError, StageFails, KeepBackupFails, PromoteFails, SyncFails,
         Return, TypeInv, StoreTypeOK, LockInv, StepInv, FreshInv,
         SnapshotInv, JournalInv, Safe, Usable, Doc
<1>6. CASE Restart
  BY <1>0, <1>6
     DEF Restart, fileVars, TypeInv, StoreTypeOK, LockInv, StepInv, FreshInv,
         SnapshotInv, JournalInv, Safe
<1>7. ASSUME NEW s \in Savers, Change(s)
      PROVE  Rest'
  BY <1>0, <1>t, <1>7
     DEF Change, fileVars, TypeInv, StoreTypeOK, LockInv, StepInv, FreshInv,
         SnapshotInv, JournalInv, Safe, Usable, Doc
<1>8. ASSUME NEW s \in Savers, BeginSave(s)
      PROVE  Rest'
  BY <1>0, <1>t, <1>8
     DEF BeginSave, BeginWrite, TypeInv, StoreTypeOK, LockInv, StepInv, FreshInv,
         SnapshotInv, JournalInv, Safe, Usable, Doc
<1>9. ASSUME NEW s \in Savers, Saved(s)
      PROVE  Rest'
  BY <1>0, <1>t, <1>d, <1>9
     DEF Saved, EndSave, WriteOK, Return, TypeInv, StoreTypeOK, LockInv, StepInv,
         FreshInv, SnapshotInv, JournalInv, Safe, Usable, Later, Doc
<1>10. ASSUME NEW s \in Savers, SaveFails(s)
       PROVE  Rest'
  BY <1>0, <1>t, <1>d, <1>10
     DEF SaveFails, EndSave, WriteError, StageFails, KeepBackupFails, PromoteFails,
         SyncFails, Return, TypeInv, StoreTypeOK, LockInv, StepInv, FreshInv,
         SnapshotInv, JournalInv, Safe, Usable, Doc
<1>12. CASE Write /\ Fsync
  BY <1>0, <1>t, <1>12
     DEF Write, Fsync, TypeInv, StoreTypeOK, LockInv, StepInv, FreshInv,
         SnapshotInv, JournalInv, Safe, Usable
<1>13. CASE Write /\ KeepBackup
  BY <1>0, <1>t, <1>d, <1>13
     DEF Write, KeepBackup, TypeInv, StoreTypeOK, LockInv, StepInv, FreshInv,
         SnapshotInv, JournalInv, Safe, Usable, Doc
<1>14. CASE Write /\ Promote
  <2>1. /\ dir' = [main |-> data, bak |-> dir.bak]
        /\ journal' = journal \cup {dir'}
        /\ data \in Doc /\ wpc = "promote" /\ wpc' = "sync"
        /\ UNCHANGED <<data, status, mem, gen, phase, want, owner, acked>>
    BY <1>t, <1>14 DEF Write, Promote
  <2>2. Safe(dir', acked)
    BY <1>0, <1>t, <1>d, <2>1
       DEF TypeInv, StoreTypeOK, FreshInv, SnapshotInv, StepInv, Safe, Usable, Doc
  <2>3. JournalInv'
    BY <1>0, <2>1, <2>2 DEF JournalInv, Safe
  <2>4. StepInv'
    BY <1>0, <2>1 DEF StepInv
  <2>5. FreshInv' /\ SnapshotInv'
    BY <1>0, <1>t, <2>1
       DEF TypeInv, StoreTypeOK, LockInv, FreshInv, SnapshotInv, Usable, Doc
  <2> QED
    BY <2>3, <2>4, <2>5
<1>15. CASE Crash \/ PowerLoss
  BY <1>0, <1>15
     DEF Crash, PowerLoss, Stop, ProcessDies, PowerFails, Return, TypeInv, StoreTypeOK,
         LockInv, StepInv, FreshInv, SnapshotInv, JournalInv, Safe
<1>17. CASE UNCHANGED vars
  BY <1>0, <1>17
     DEF vars, fileVars, StepInv, FreshInv, SnapshotInv, JournalInv, Safe
<1> QED
  BY <1>1, <1>2, <1>3, <1>4, <1>5, <1>6, <1>7, <1>8, <1>9, <1>10, <1>11,
     <1>12, <1>13, <1>14, <1>15, <1>17, <1>u DEF Next, Boot, Write, WriteStep

(***************************************************************************)
(* Until a file is damaged at rest, a generation whose save was reported   *)
(* successful, or a later one, can be read from path or path.bak whatever  *)
(* saves, I/O errors, process deaths and power losses follow.              *)
(***************************************************************************)
THEOREM AckedIsDurable == Spec => []AckedOnDisk
<1>1. DurableInv => AckedOnDisk
  <2> SUFFICES ASSUME DurableInv, Undamaged, NEW d \in journal
               PROVE  Holds(d, acked)
    BY DEF AckedOnDisk
  <2>1. /\ d.main \in Doc \cup {Absent, Torn} /\ d.bak \in Doc \cup {Absent, Torn}
        /\ acked \in Nat
    BY DEF DurableInv, TypeInv, StoreTypeOK, FileInv, FileTypeOK, Directory
  <2>2. Safe(d, acked)
    BY DEF DurableInv, SafeInv, JournalInv
  <2> QED
    BY <2>1, <2>2, DocumentAssumption DEF Holds, Safe, Usable, Doc
<1> QED
  BY <1>1, DurableInvInit, DurableInvNext, PTL DEF Spec

(***************************************************************************)
(* No stop, at whatever step of whatever save, leaves a half-written       *)
(* document under path or path.bak, until a file is damaged at rest.       *)
(***************************************************************************)
THEOREM StopsNeverTear == Spec => []NeverTorn
<1>1. DurableInv => NeverTorn
  BY DEF DurableInv, SafeInv, JournalInv, Safe, NeverTorn
<1> QED
  BY <1>1, DurableInvInit, DurableInvNext, PTL DEF Spec

(***************************************************************************)
(* However many savers queue on saveMu, an older snapshot is never         *)
(* promoted after a fresher one, until a file is damaged at rest.          *)
(***************************************************************************)
THEOREM NeverReordered == Spec => []BackupIsOlder
<1>1. DurableInv => BackupIsOlder
  <2> SUFFICES ASSUME DurableInv, Undamaged, NEW d \in journal,
                      Usable(d.main), Usable(d.bak)
               PROVE  d.main >= d.bak
    BY DEF BackupIsOlder
  <2>1. d.main \in Doc /\ d.bak \in Doc
    BY DEF DurableInv, TypeInv, FileInv, FileTypeOK, Directory, Usable
  <2>2. Safe(d, acked)
    BY DEF DurableInv, SafeInv, JournalInv
  <2> QED
    BY <2>1, <2>2 DEF Safe, Usable, Doc
<1> QED
  BY <1>1, DurableInvInit, DurableInvNext, PTL DEF Spec

\* A start on undamaged files uses the main file, which holds what was
\* acknowledged.
LEMMA StartUsesMain ==
    ASSUME DurableInv, Undamaged, [Next]_vars,
           status = "down", status' # "down", dir.main # Absent
    PROVE  (BootMain \/ BootKeypair) /\ mem' >= acked
<1>1. Safe(dir, acked) /\ dir.main \in Doc \cup {Absent, Torn} /\ acked \in Nat
  BY DEF DurableInv, SafeInv, JournalInv, TypeInv, StoreTypeOK, FileInv, FileTypeOK,
         Directory
<1>2. wpc = "idle" /\ owner = Nobody
  BY DEF DurableInv, LockInv, TypeInv, FileInv, FileTypeOK
<1>3. BootMain \/ BootKeypair
  BY <1>1, <1>2, DocumentAssumption
     DEF Next, Boot, BootCreate, BootBackup, BootUnusable, BootSaved, BootSaveFails,
         Restart, Change, BeginSave, Saved, SaveFails, EndSave, Write, Crash, PowerLoss,
         Stop, Damage, Safe, vars
<1> QED
  BY <1>1, <1>3 DEF BootMain, BootKeypair, Safe, Usable, Doc

(***************************************************************************)
(* A start on undamaged files that finds a main file never serves          *)
(* something older than the last acknowledged generation.                  *)
(***************************************************************************)
THEOREM StartKeepsAcked == Spec => BootKeepsAcked
<1> DEFINE Kept == Undamaged /\ status = "down" /\ status' # "down" /\ dir.main # Absent
                     => mem' >= acked
<1>1. DurableInv /\ [Next]_vars => [Kept]_vars
  BY StartUsesMain
<1> QED
  BY <1>1, DurableInvInit, DurableInvNext, PTL DEF Spec, BootKeepsAcked

-----------------------------------------------------------------------------
(* The detailed store implements the durable register.                     *)

\* A start whose document is made a new one, or is in memory but not served
\* yet, is no step of the register, or Default.
LEMMA RegisterBoots ==
    ASSUME DurableInv, BootCreate \/ BootKeypair \/ BootBackup
    PROVE  [Register!Next]_Register!vars
<1>1. CASE BootCreate
  <2>1. Register!Default
    BY <1>1 DEF BootCreate, Register!Default, Undamaged, outside
  <2> QED
    BY <2>1 DEF Register!Next
<1>2. CASE BootKeypair \/ BootBackup
  BY <1>2 DEF BootKeypair, BootBackup, Register!vars, Undamaged, outside
<1> QED
  BY <1>1, <1>2

\* The moments at which the store begins to serve are Recover.
LEMMA RegisterRecovers ==
    ASSUME DurableInv, [Next]_vars, status # "up", status' = "up"
    PROVE  Register!Recover
<1> USE DocumentAssumption DEF DurableInv, TypeInv, StoreTypeOK
<1>1. /\ dir.main \in Doc \cup {Absent, Torn}
      /\ dir \in journal
      /\ Usable(dir.main) => dir.main \in Doc /\ dir.main <= gen
      /\ acked \in Nat /\ gen \in Nat /\ mem \in Nat /\ mem <= gen
  BY DEF FileInv, FileTypeOK, Directory, MadeInv, Usable
<1>2. owner = Nobody
  BY DEF LockInv
<1>3. CASE BootMain
  <2>1. Undamaged => mem' >= acked
    BY <1>1, <1>3, StartUsesMain DEF BootMain, Usable
  <2> QED
    BY <1>1, <1>3, <2>1 DEF BootMain, Register!Recover, Undamaged, outside, Doc
<1>4. CASE BootUnusable
  <2>1. ~Undamaged
    BY <1>1, <1>4 DEF BootUnusable, SafeInv, JournalInv, Safe
  <2> QED
    BY <1>1, <1>4, <2>1 DEF BootUnusable, Register!Recover, Undamaged, outside
<1>5. CASE BootSaved
  BY <1>1, <1>5
     DEF BootSaved, Later, Register!Recover, Undamaged, outside, Doc, SafeInv, FreshInv
<1>6. CASE BootSaveFails
  BY <1>1, <1>6
     DEF BootSaveFails, Register!Recover, Undamaged, Doc, SafeInv, FreshInv
<1> QED
  BY <1>2, <1>3, <1>4, <1>5, <1>6
     DEF Next, Boot, BootCreate, BootKeypair, BootBackup, Restart, Change, BeginSave,
         Saved, SaveFails, EndSave, Write, Crash, PowerLoss, Stop, Damage, vars

\* Every step of the store is a step of the register, or none.
LEMMA RegisterNext ==
    ASSUME DurableInv, [Next]_vars
    PROVE  [Register!Next]_Register!vars
<1> USE DocumentAssumption DEF DurableInv, TypeInv, StoreTypeOK
<1>1. CASE status # "up" /\ status' = "up"
  BY <1>1, RegisterRecovers DEF Register!Next
<1>2. CASE BootCreate \/ BootKeypair \/ BootBackup
  BY <1>2, RegisterBoots
<1>3. CASE Restart \/ Write
  BY <1>3 DEF Restart, Write, Register!vars, Undamaged, outside
<1>4. CASE /\ BootMain \/ BootUnusable \/ BootSaved \/ BootSaveFails
           /\ ~(status # "up" /\ status' = "up")
  BY <1>4 DEF BootMain, BootUnusable, BootSaved, BootSaveFails, Register!vars,
              Undamaged, outside
<1>5. ASSUME NEW s \in Savers, Change(s)
      PROVE  [Register!Next]_Register!vars
  <2>1. Register!Change
    BY <1>5 DEF Change, Register!Change, Undamaged, outside
  <2> QED
    BY <2>1 DEF Register!Next
<1>6. ASSUME NEW s \in Savers, BeginSave(s) \/ SaveFails(s)
      PROVE  [Register!Next]_Register!vars
  BY <1>6 DEF BeginSave, SaveFails, Register!vars, Undamaged, outside
<1>7. ASSUME NEW s \in Savers, Saved(s)
      PROVE  [Register!Next]_Register!vars
  <2>1. status = "up" /\ want[s] \in Nat /\ want[s] <= mem
    BY <1>7 DEF Saved, EndSave, LockInv, MadeInv
  <2>2. CASE acked >= want[s]
    BY <1>7, <2>2 DEF Saved, Later, Register!vars, Undamaged, outside
  <2>3. CASE ~(acked >= want[s])
    <3>1. Register!Acknowledge
      BY <1>7, <2>1, <2>3 DEF Saved, Later, Register!Acknowledge, Undamaged, outside
    <3> QED
      BY <3>1 DEF Register!Next
  <2> QED
    BY <2>2, <2>3
<1>8. CASE Crash \/ PowerLoss
  <2>1. Register!Stop
    BY <1>8 DEF Crash, PowerLoss, Stop, Register!Stop, Undamaged
  <2> QED
    BY <2>1 DEF Register!Next
<1>9. CASE Damage
  <2>1. Register!Damage
    BY <1>9 DEF Damage, Register!Damage, Undamaged
  <2> QED
    BY <2>1 DEF Register!Next
<1>10. CASE UNCHANGED vars
  BY <1>10 DEF vars, outside, Register!vars, Undamaged
<1> QED
  BY <1>1, <1>2, <1>3, <1>4, <1>5, <1>6, <1>7, <1>8, <1>9, <1>10 DEF Next, Boot

(***************************************************************************)
(* The document store implements the durable register, for any number of   *)
(* savers, changes, stops, I/O errors and damaged files: no interleaving   *)
(* of saves, starts and faults makes the panel serve anything else than    *)
(* DurableRegister allows.                                                 *)
(***************************************************************************)
THEOREM Refinement == Spec => ImplementsRegister
<1>1. Init => Register!Init
  BY DEF Init, Register!Init, Undamaged
<1>2. DurableInv /\ [Next]_vars => [Register!Next]_Register!vars
  BY RegisterNext
<1> QED
  BY <1>1, <1>2, DurableInvInit, DurableInvNext, PTL
     DEF Spec, ImplementsRegister, Register!Spec
=============================================================================
