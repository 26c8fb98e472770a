-------------------------- MODULE TrafficStoreProofs --------------------------
(***************************************************************************)
(* Proofs about TrafficStore for any set of users and handlers and any     *)
(* number of pushes, edits, starts, crashes and I/O errors.                *)
(***************************************************************************)
EXTENDS TrafficStore, StateFileProofs

-----------------------------------------------------------------------------
(* Type correctness.                                                       *)

\* The typing of what is not the file.
CoreTypeOK ==
    /\ status \in StatusValues
    /\ usersFile \in SUBSET Users
    /\ users \in SUBSET Users
    /\ traffic \in Doc
    /\ hpc \in [Handlers -> {"idle", "start", "pruned", "body", "mark"}]
    /\ fpc \in [Threads -> {"idle", "claimed", "writing", "failed"}]
    /\ pushes \in 0..MaxPushes
    /\ edits \in 0..MaxEdits
    /\ starts \in 0..MaxStarts
    /\ crashes \in 0..MaxCrashes
    /\ ioErrors \in 0..MaxIOErrors

StoreTypeOK == CoreTypeOK /\ dirty \in BOOLEAN

TypeInv == FileInv(Doc) /\ StoreTypeOK

\* What a start loads is a document, and so is a pruned one.
LEMMA LoadedType ==
    ASSUME FileInv(Doc)
    PROVE  Loaded \in Doc
BY DEF Loaded, Usable, Empty, Doc, FileInv, FileTypeOK, Directory

\* Pruning yields a document.
LEMMA PrunedType ==
    ASSUME NEW f \in Doc, NEW U
    PROVE  Pruned(f, U) \in Doc
BY DEF Pruned, Doc

\* The state before the first start is well typed.
LEMMA TypeInvInit == Init => TypeInv
<1> SUFFICES ASSUME Init
             PROVE  TypeInv
  OBVIOUS
<1>1. FileInv(Doc)
  BY FileInvInit DEF Init
<1>2. Empty \in Doc
  BY DEF Empty, Doc
<1>3. CoreTypeOK
  BY <1>2, TrafficAssumption DEF Init, CoreTypeOK, StatusValues
<1>4. dirty \in BOOLEAN
  BY DEF Init
<1> QED
  BY <1>1, <1>3, <1>4 DEF TypeInv, StoreTypeOK

\* Every step keeps the file well typed.
LEMMA FileInvNext == TypeInv /\ [Next]_vars => FileInv(Doc)'
<1> SUFFICES ASSUME TypeInv, [Next]_vars
             PROVE  FileInv(Doc)'
  OBVIOUS
<1>0. FileInv(Doc) /\ traffic \in Doc
  BY DEF TypeInv, StoreTypeOK, CoreTypeOK
<1>1. CASE BootSaving
  <2>1. traffic' \in Doc /\ BeginWrite(traffic')
    BY <1>0, <1>1, LoadedType DEF BootSaving
  <2> QED
    BY <1>0, <2>1 DEF BeginWrite, FileInv, FileTypeOK, Directory, WriteSteps
<1>2. CASE BootPlain \/ Edit
  BY <1>0, <1>2, FileUnchangedInv DEF BootPlain, Edit
<1>3. CASE BootSaved
  BY <1>0, <1>3, WriteOKInv, WriteErrorInv DEF BootSaved
<1>4. ASSUME NEW h \in Handlers, Handle(h)
      PROVE  FileInv(Doc)'
  BY <1>0, <1>4, FileUnchangedInv
     DEF Handle, Request, RefreshUsers, RefreshKeeps, MarkPruned, Accumulate, MarkDirty, Respond
<1>5. ASSUME NEW t \in Threads, Claim(t) \/ Redirty(t)
      PROVE  FileInv(Doc)'
  BY <1>0, <1>5, FileUnchangedInv DEF Claim, Redirty
<1>6. ASSUME NEW t \in Threads, SaveTraffic(t)
      PROVE  FileInv(Doc)'
  <2>1. BeginWrite(traffic)
    BY <1>6 DEF SaveTraffic
  <2> QED
    BY <1>0, <2>1 DEF BeginWrite, FileInv, FileTypeOK, Directory, WriteSteps
<1>7. ASSUME NEW t \in Threads, Saved(t) \/ SaveFails(t)
      PROVE  FileInv(Doc)'
  BY <1>0, <1>7, WriteOKInv, WriteErrorInv DEF Saved, SaveFails
<1>8. CASE Write
  BY <1>0, <1>8, WriteStepInv DEF Write
<1>9. CASE Terminate \/ DrainTimeout \/ Drained \/ NothingToFlush
  BY <1>0, <1>9, FileUnchangedInv
     DEF Terminate, DrainTimeout, Drained, NothingToFlush, SetStatus
<1>10. CASE Exit \/ Crash
  BY <1>0, <1>10, ProcessDiesInv, PowerFailsInv DEF Exit, Crash
<1>11. CASE UNCHANGED vars
  BY <1>0, <1>11, FileUnchangedInv DEF vars
<1> QED
  BY <1>1, <1>2, <1>3, <1>4, <1>5, <1>6, <1>7, <1>8, <1>9, <1>10, <1>11
     DEF Next, Boot, Shutdown, Flush

\* The flag stays a Boolean.
LEMMA FlagNext == TypeInv /\ [Next]_vars => (dirty \in BOOLEAN)'
<1> SUFFICES ASSUME dirty \in BOOLEAN, [Next]_vars
             PROVE  (dirty \in BOOLEAN)'
  BY DEF TypeInv, StoreTypeOK
<1>1. dirty' \in {dirty, TRUE, FALSE}
  BY DEF Next, Boot, BootSaving, BootPlain, BootSaved, Edit, Handle, Request,
         RefreshUsers, RefreshKeeps, MarkPruned, Accumulate, MarkDirty, Respond, Flush, Claim,
         SaveTraffic, Saved, SaveFails, Redirty, Write, Terminate, DrainTimeout,
         Shutdown, Drained, NothingToFlush, SetStatus, Exit, Crash, Halt, vars
<1> QED
  BY <1>1

\* Every step keeps the store well typed.
LEMMA TypeInvNext == TypeInv /\ [Next]_vars => TypeInv'
<1> SUFFICES ASSUME TypeInv, [Next]_vars
             PROVE  CoreTypeOK'
  BY FileInvNext, FlagNext DEF TypeInv, StoreTypeOK
<1>0. FileInv(Doc) /\ CoreTypeOK
  BY DEF TypeInv, StoreTypeOK
<1>l. Loaded \in Doc /\ \A U : Pruned(Loaded, U) \in Doc /\ Pruned(traffic, U) \in Doc
  BY <1>0, LoadedType, PrunedType DEF CoreTypeOK
<1> USE TrafficAssumption DEF CoreTypeOK, StatusValues, bounds
<1>1. CASE Boot
  BY <1>0, <1>l, <1>1 DEF Boot, BootSaving, BootPlain
<1>2. CASE BootSaved
  BY <1>0, <1>l, <1>2 DEF BootSaved
<1>3. CASE Edit
  BY <1>0, <1>3 DEF Edit
<1>4. ASSUME NEW h \in Handlers, Request(h) \/ RefreshUsers(h) \/ RefreshKeeps(h) \/ MarkPruned(h)
                                   \/ MarkDirty(h) \/ Respond(h)
      PROVE  CoreTypeOK'
  BY <1>0, <1>l, <1>4 DEF Request, RefreshUsers, RefreshKeeps, MarkPruned, MarkDirty, Respond
<1>5. ASSUME NEW h \in Handlers, NEW u \in Users, Accumulate(h, u)
      PROVE  CoreTypeOK'
  <2>1. traffic' \in Doc
    BY <1>0, <1>5 DEF Accumulate, Doc
  <2> QED
    BY <1>0, <1>5, <2>1 DEF Accumulate
<1>6. ASSUME NEW t \in Threads, Flush(t)
      PROVE  CoreTypeOK'
  BY <1>0, <1>6 DEF Flush, Claim, SaveTraffic, Saved, SaveFails, Redirty
<1>7. CASE Write
  BY <1>0, <1>7 DEF Write
<1>8. CASE Terminate \/ DrainTimeout \/ Drained \/ NothingToFlush
  BY <1>0, <1>8 DEF Terminate, DrainTimeout, Drained, NothingToFlush, SetStatus
<1>9. CASE Exit \/ Crash
  <2>1. Empty \in Doc
    BY DEF Empty, Doc
  <2> QED
    BY <1>0, <1>9, <2>1 DEF Exit, Crash, Halt
<1>10. CASE UNCHANGED vars
  BY <1>0, <1>10 DEF vars
<1> QED
  BY <1>1, <1>2, <1>3, <1>4, <1>5, <1>6, <1>7, <1>8, <1>9, <1>10
     DEF Next, Shutdown, Handle

(***************************************************************************)
(* Every state of the traffic store is well typed; in particular each      *)
(* snapshot that reaches traffic.json is a complete set of counters.       *)
(***************************************************************************)
THEOREM TypeCorrect == Spec => []TypeOK
<1>1. TypeInv => TypeOK
  BY DEF TypeInv, TypeOK, StoreTypeOK, CoreTypeOK, FileInv
<1> QED
  BY <1>1, TypeInvInit, TypeInvNext, PTL DEF Spec
-----------------------------------------------------------------------------
(* Counters belong to known users.                                         *)

(***************************************************************************)
(* For every set of users and every interleaving of pushes, reloads and    *)
(* starts, the counters in memory belong to users that are known: the      *)
(* check of Accumulate and the prune of RefreshUsers share one lock.       *)
(***************************************************************************)
THEOREM CountersOfKnownUsers == Spec => []OnlyKnownUsers
<1>1. Init => OnlyKnownUsers
  BY DEF Init, OnlyKnownUsers, Running
<1>2. TypeInv /\ OnlyKnownUsers /\ [Next]_vars => OnlyKnownUsers'
  <2> SUFFICES ASSUME TypeInv, OnlyKnownUsers, [Next]_vars
               PROVE  OnlyKnownUsers'
    OBVIOUS
  <2>0. traffic \in Doc /\ status \in StatusValues
    BY DEF TypeInv, StoreTypeOK, CoreTypeOK
  <2> USE DEF OnlyKnownUsers, Running, StatusValues
  <2>1. CASE Boot \/ BootSaved
    BY <2>0, <2>1 DEF Boot, BootSaving, BootPlain, BootSaved, Pruned
  <2>2. ASSUME NEW h \in Handlers, Request(h) \/ RefreshUsers(h) \/ RefreshKeeps(h) \/ MarkPruned(h)
                                      \/ MarkDirty(h) \/ Respond(h)
        PROVE  OnlyKnownUsers'
    BY <2>0, <2>2 DEF Request, RefreshUsers, RefreshKeeps, MarkPruned, MarkDirty, Respond, Pruned
  <2>3. ASSUME NEW h \in Handlers, NEW u \in Users, Accumulate(h, u)
        PROVE  OnlyKnownUsers'
    BY <2>0, <2>3 DEF Accumulate, Doc
  <2>4. ASSUME NEW t \in Threads, Flush(t)
        PROVE  OnlyKnownUsers'
    BY <2>0, <2>4 DEF Flush, Claim, SaveTraffic, Saved, SaveFails, Redirty
  <2>5. CASE Edit \/ Write \/ Terminate \/ DrainTimeout \/ Drained \/ NothingToFlush
    BY <2>0, <2>5
       DEF Edit, Write, Terminate, DrainTimeout, Drained, NothingToFlush, SetStatus
  <2>6. CASE Exit \/ Crash
    BY <2>6 DEF Exit, Crash, Halt
  <2>7. CASE UNCHANGED vars
    BY <2>7 DEF vars
  <2> QED
    BY <2>1, <2>2, <2>3, <2>4, <2>5, <2>6, <2>7 DEF Next, Shutdown, Handle
<1> QED
  BY <1>1, <1>2, TypeInvInit, TypeInvNext, PTL DEF Spec

-----------------------------------------------------------------------------
(* Unsaved counters are scheduled.                                         *)

\* Nobody is inside SaveTraffic.
NoWriter == \A t \in Threads : fpc[t] # "writing"

\* One thread at a time writes, and it is the one inside the procedure.
LockInv ==
    /\ \A t, o \in Threads : fpc[t] = "writing" /\ fpc[o] = "writing" => t = o
    /\ ~NoWriter => wpc # "idle"
    /\ Running /\ wpc # "idle" => ~NoWriter
    /\ ~Running => NoWriter
    /\ status = "down" => wpc = "idle"
    /\ wpc = "sync" => dir.main = data

\* Stops leave no half-written file; a start that saves starts from nothing.
BootInv ==
    /\ \A d \in journal : d.main # Torn /\ d.bak # Torn
    /\ status = "booting" => \A u \in Users : traffic[u] = 0

\* Counters that the snapshot being written lacks are scheduled.
SnapshotInv ==
    ~NoWriter => \A u \in Users : traffic[u] # 0 /\ traffic[u] # data[u] => FlushPending

\* Counters that traffic.json lacks are scheduled while nobody writes.
QuietInv ==
    Running /\ NoWriter =>
        \A u \in Users : traffic[u] # 0 /\ traffic[u] # Disk[u] => FlushPending

ScheduledInv == TypeInv /\ LockInv /\ BootInv /\ SnapshotInv /\ QuietInv
\* Nothing is unsaved before the first start.
LEMMA ScheduledInvInit == Init => ScheduledInv
<1> SUFFICES ASSUME Init
             PROVE  ScheduledInv
  OBVIOUS
<1>1. NoWriter /\ ~Running
  BY DEF Init, NoWriter, Running
<1>2. LockInv
  BY <1>1 DEF Init, FileInit, LockInv, NoWriter
<1>3. BootInv
  BY MarksDiffer DEF Init, FileInit, BootInv
<1> QED
  BY <1>1, <1>2, <1>3, TypeInvInit DEF ScheduledInv, SnapshotInv, QuietInv

\* Every directory a stop may leave holds whole documents.
LEMMA BootInvNext == ScheduledInv /\ [Next]_vars => BootInv'
<1> SUFFICES ASSUME ScheduledInv, [Next]_vars
             PROVE  BootInv'
  OBVIOUS
<1> DEFINE Whole == \A d \in journal : d.main # Torn /\ d.bak # Torn
<1>0. /\ Whole
      /\ dir \in journal /\ dir.main # Torn /\ dir.bak # Torn
      /\ dir = [main |-> dir.main, bak |-> dir.bak]
      /\ wpc \in {"staged", "promote"} => tmp = data
      /\ wpc # "idle" => data # Torn
      /\ status = "booting" => \A u \in Users : traffic[u] = 0
      /\ status \in StatusValues
  BY TrafficAssumption
     DEF ScheduledInv, TypeInv, StoreTypeOK, CoreTypeOK, FileInv, FileTypeOK, Directory,
         Doc, BootInv
<1>1. CASE Boot
  <2>1. Whole'
    BY <1>0, <1>1 DEF Boot, BootSaving, BootPlain, BeginWrite, fileVars
  <2>2. CASE BootSaving
    <3>1. traffic' = Empty
      BY <1>0, <2>2 DEF BootSaving, SavesOnLoad, Loaded, Usable
    <3> QED
      BY <2>1, <3>1 DEF BootInv, Empty
  <2>3. CASE BootPlain
    BY <2>1, <2>3 DEF BootInv, BootPlain
  <2> QED
    BY <1>1, <2>2, <2>3 DEF Boot
<1>2. CASE Write
  <2>1. CASE Fsync
    BY <1>0, <1>2, <2>1 DEF Write, Fsync, BootInv
  <2>2. CASE KeepBackup
    BY <1>0, <1>2, <2>2, MarksDiffer DEF Write, KeepBackup, BootInv
  <2>3. CASE Promote
    <3>1. journal' = journal \cup {[main |-> data, bak |-> dir.bak]} /\ data # Torn
      BY <1>0, <2>3 DEF Promote
    <3> QED
      BY <1>0, <1>2, <3>1 DEF Write, BootInv
  <2> QED
    BY <1>2, <2>1, <2>2, <2>3 DEF Write, WriteStep
<1>3. ASSUME WriteOK \/ WriteError \/ ProcessDies \/ PowerFails, status' # "booting"
      PROVE  BootInv'
  BY <1>0, <1>3, MarksDiffer
     DEF WriteOK, WriteError, StageFails, KeepBackupFails, PromoteFails, SyncFails,
         ProcessDies, PowerFails, BootInv
<1>4. CASE BootSaved \/ Exit \/ Crash
  BY <1>3, <1>4 DEF BootSaved, Exit, Crash, Halt
<1>5. ASSUME NEW t \in Threads, Saved(t) \/ SaveFails(t)
      PROVE  BootInv'
  BY <1>3, <1>5 DEF Saved, SaveFails, Running
<1>6. ASSUME UNCHANGED journal, status' # "booting"
      PROVE  BootInv'
  BY <1>0, <1>6 DEF BootInv
<1>7. ASSUME NEW t \in Threads, Claim(t) \/ SaveTraffic(t) \/ Redirty(t)
      PROVE  BootInv'
  BY <1>6, <1>7
     DEF Claim, SaveTraffic, BeginWrite, Redirty, Running, fileVars
<1>8. ASSUME NEW h \in Handlers, Handle(h)
      PROVE  BootInv'
  BY <1>6, <1>8
     DEF Handle, Request, RefreshUsers, RefreshKeeps, MarkPruned, Accumulate, MarkDirty, Respond,
         Running, fileVars
<1>9. CASE Terminate \/ DrainTimeout \/ Drained \/ NothingToFlush
  BY <1>6, <1>9
     DEF Terminate, DrainTimeout, Drained, NothingToFlush, SetStatus, fileVars
<1>10. CASE Edit \/ UNCHANGED vars
  BY <1>0, <1>10 DEF Edit, vars, fileVars, BootInv
<1> QED
  BY <1>1, <1>2, <1>4, <1>5, <1>7, <1>8, <1>9, <1>10 DEF Next, Shutdown, Flush

\* saveMu admits one writer, and only a writer is inside the procedure.
LEMMA LockInvNext == ScheduledInv /\ [Next]_vars => LockInv'
<1> SUFFICES ASSUME ScheduledInv, [Next]_vars
             PROVE  LockInv'
  OBVIOUS
<1>0. /\ LockInv /\ status \in StatusValues
      /\ fpc \in [Threads -> {"idle", "claimed", "writing", "failed"}]
      /\ wpc \in WriteSteps
      /\ dir = [main |-> dir.main, bak |-> dir.bak]
  BY DEF ScheduledInv, TypeInv, StoreTypeOK, CoreTypeOK, FileInv, FileTypeOK, Directory
<1> USE DEF LockInv, NoWriter, Running, StatusValues
<1>1. CASE Boot
  BY <1>0, <1>1 DEF Boot, BootSaving, BootPlain, BeginWrite, fileVars, WriteSteps
<1>2. CASE BootSaved
  BY <1>0, <1>2
     DEF BootSaved, WriteOK, WriteError, StageFails, KeepBackupFails, PromoteFails,
         SyncFails, Return
<1>3. CASE Edit \/ UNCHANGED vars
  BY <1>0, <1>3 DEF Edit, vars, fileVars
<1>4. ASSUME NEW h \in Handlers, Handle(h)
      PROVE  LockInv'
  BY <1>0, <1>4
     DEF Handle, Request, RefreshUsers, RefreshKeeps, MarkPruned, Accumulate, MarkDirty, Respond, fileVars
<1>5. ASSUME NEW t \in Threads, Claim(t) \/ Redirty(t)
      PROVE  LockInv'
  BY <1>0, <1>5 DEF Claim, Redirty, fileVars
<1>6. ASSUME NEW t \in Threads, SaveTraffic(t)
      PROVE  LockInv'
  BY <1>0, <1>6 DEF SaveTraffic, BeginWrite
<1>7. ASSUME NEW t \in Threads, Saved(t) \/ SaveFails(t)
      PROVE  LockInv'
  BY <1>0, <1>7
     DEF Saved, SaveFails, WriteOK, WriteError, StageFails, KeepBackupFails, PromoteFails,
         SyncFails, Return
<1>8. CASE Write
  BY <1>0, <1>8 DEF Write, WriteStep, Fsync, KeepBackup, Promote
<1>9. CASE Terminate \/ DrainTimeout \/ Drained \/ NothingToFlush
  BY <1>0, <1>9 DEF Terminate, DrainTimeout, Drained, NothingToFlush, SetStatus, fileVars
<1>10. CASE Exit \/ Crash
  BY <1>10 DEF Exit, Crash, Halt, ProcessDies, PowerFails, Return
<1> QED
  BY <1>1, <1>2, <1>3, <1>4, <1>5, <1>6, <1>7, <1>8, <1>9, <1>10
     DEF Next, Shutdown, Flush
\* A step that leaves the counters, the file and the writer alone and does not
\* lose a pending flush keeps unsaved counters scheduled.
LEMMA NothingForgotten ==
    ASSUME ScheduledInv, UNCHANGED <<traffic, data, dir>>, NoWriter' = NoWriter,
           Running' => Running, FlushPending => FlushPending'
    PROVE  SnapshotInv' /\ QuietInv'
BY DEF ScheduledInv, SnapshotInv, QuietInv, Disk, Usable, Empty

\* The two parts about the counters themselves.
LEMMA CountersNext == ScheduledInv /\ [Next]_vars => SnapshotInv' /\ QuietInv'
<1> SUFFICES ASSUME ScheduledInv, [Next]_vars
             PROVE  SnapshotInv' /\ QuietInv'
  OBVIOUS
<1>0. /\ LockInv /\ SnapshotInv /\ QuietInv /\ BootInv /\ LockInv' /\ BootInv'
      /\ traffic \in Doc /\ traffic' \in Doc
      /\ status \in StatusValues
      /\ fpc \in [Threads -> {"idle", "claimed", "writing", "failed"}]
      /\ hpc \in [Handlers -> {"idle", "start", "pruned", "body", "mark"}]
  BY LockInvNext, BootInvNext, TypeInvNext
     DEF ScheduledInv, TypeInv, StoreTypeOK, CoreTypeOK
<1>1. CASE BootSaving
  BY <1>0, <1>1 DEF BootSaving, SnapshotInv, QuietInv, LockInv, Running, NoWriter
<1>2. CASE BootPlain
  <2>1. NoWriter' /\ Disk' = Loaded
    BY <1>0, <1>2
       DEF BootPlain, LockInv, NoWriter, Running, Disk, Loaded, SavesOnLoad, fileVars, Empty
  <2>2. \A u \in Users : traffic'[u] # 0 => traffic'[u] = Loaded[u]
    BY <1>2 DEF BootPlain, Pruned
  <2> QED
    BY <2>1, <2>2 DEF SnapshotInv, QuietInv
<1>3. CASE BootSaved
  <2>1. NoWriter' /\ \A u \in Users : traffic'[u] = 0
    BY <1>0, <1>3 DEF BootSaved, LockInv, BootInv, NoWriter, Running, Pruned
  <2> QED
    BY <2>1 DEF SnapshotInv, QuietInv
<1>4. ASSUME NEW h \in Handlers, Request(h) \/ RefreshKeeps(h) \/ MarkPruned(h)
                                   \/ MarkDirty(h) \/ Respond(h)
      PROVE  SnapshotInv' /\ QuietInv'
  <2>1. /\ UNCHANGED <<traffic, data, dir, fpc, status>>
        /\ FlushPending => FlushPending'
    BY <1>0, <1>4
       DEF Request, RefreshKeeps, MarkPruned, MarkDirty, Respond, FlushPending, fileVars
  <2> QED
    BY <2>1, NothingForgotten DEF NoWriter, Running
<1>5. ASSUME NEW h \in Handlers, RefreshUsers(h)
      PROVE  SnapshotInv' /\ QuietInv'
  <2>1. /\ UNCHANGED <<data, dir, fpc, status>>
        /\ \A u \in Users : traffic'[u] # 0 => traffic'[u] = traffic[u]
        /\ FlushPending => FlushPending'
    BY <1>0, <1>5 DEF RefreshUsers, Pruned, FlushPending, fileVars
  <2> QED
    BY <1>0, <2>1 DEF SnapshotInv, QuietInv, NoWriter, Running, Disk, Usable, Empty
<1>6. ASSUME NEW h \in Handlers, NEW u \in Users, Accumulate(h, u)
      PROVE  SnapshotInv' /\ QuietInv'
  <2>1. FlushPending'
    BY <1>0, <1>6 DEF Accumulate, FlushPending
  <2> QED
    BY <2>1 DEF SnapshotInv, QuietInv
<1>7. ASSUME NEW t \in Threads, Claim(t)
      PROVE  SnapshotInv' /\ QuietInv'
  <2>1. FlushPending'
    BY <1>0, <1>7 DEF Claim, FlushPending
  <2> QED
    BY <2>1 DEF SnapshotInv, QuietInv
<1>8. ASSUME NEW t \in Threads, SaveTraffic(t)
      PROVE  SnapshotInv' /\ QuietInv'
  <2>1. ~NoWriter' /\ data' = traffic'
    BY <1>0, <1>8 DEF SaveTraffic, BeginWrite, NoWriter
  <2> QED
    BY <2>1 DEF SnapshotInv, QuietInv
<1>9. ASSUME NEW t \in Threads, Saved(t)
      PROVE  SnapshotInv' /\ QuietInv'
  <2>1. ~NoWriter /\ NoWriter'
    BY <1>0, <1>9 DEF Saved, LockInv, NoWriter, Running, WriteOK, Return
  <2>2. traffic' = traffic /\ Disk' = data /\ (FlushPending => FlushPending')
    <3>1. dir' = dir /\ dir.main = data /\ data \in Doc
      BY <1>0, <1>9
         DEF Saved, WriteOK, LockInv, ScheduledInv, TypeInv, FileInv, FileTypeOK
    <3>2. FlushPending => FlushPending'
      BY <1>0, <1>9 DEF Saved, FlushPending
    <3> QED
      BY <1>9, <3>1, <3>2, TrafficAssumption DEF Saved, Disk, Usable, Doc
  <2> QED
    BY <1>0, <2>1, <2>2 DEF SnapshotInv, QuietInv
<1>10. ASSUME NEW t \in Threads, SaveFails(t) \/ Redirty(t)
       PROVE  SnapshotInv' /\ QuietInv'
  <2>1. FlushPending'
    BY <1>0, <1>10 DEF SaveFails, Redirty, FlushPending
  <2> QED
    BY <2>1 DEF SnapshotInv, QuietInv
<1>11. CASE Write
  <2>1. /\ UNCHANGED <<traffic, data, fpc, status, dirty, hpc>>
        /\ wpc # "idle" /\ (Running => ~NoWriter)
    BY <1>0, <1>11 DEF Write, WriteStep, Fsync, KeepBackup, Promote, LockInv
  <2> QED
    BY <1>0, <2>1 DEF SnapshotInv, QuietInv, FlushPending, NoWriter, Running
<1>12. CASE Terminate \/ DrainTimeout \/ Drained \/ NothingToFlush
  <2>1. /\ UNCHANGED <<traffic, data, dir, fpc, hpc, dirty>>
        /\ Running' => Running
    BY <1>12
       DEF Terminate, DrainTimeout, Drained, NothingToFlush, SetStatus, fileVars, Running
  <2> QED
    BY <2>1, NothingForgotten DEF NoWriter, FlushPending
<1>13. CASE Exit \/ Crash
  <2>1. NoWriter' /\ ~Running'
    BY <1>13 DEF Exit, Crash, Halt, NoWriter, Running
  <2> QED
    BY <2>1 DEF SnapshotInv, QuietInv
<1>14. CASE Edit \/ UNCHANGED vars
  <2>1. UNCHANGED <<traffic, data, dir, fpc, hpc, dirty, status>>
    BY <1>14 DEF Edit, vars, fileVars
  <2> QED
    BY <2>1, NothingForgotten DEF NoWriter, FlushPending, Running
<1> QED
  BY <1>1, <1>2, <1>3, <1>4, <1>5, <1>6, <1>7, <1>8, <1>9, <1>10, <1>11, <1>12,
     <1>13, <1>14 DEF Next, Boot, Shutdown, Flush, Handle

\* Every step keeps unsaved counters scheduled.
LEMMA ScheduledInvNext == ScheduledInv /\ [Next]_vars => ScheduledInv'
BY TypeInvNext, LockInvNext, BootInvNext, CountersNext DEF ScheduledInv

(***************************************************************************)
(* For every set of users and handlers and every interleaving of pushes,   *)
(* reloads, flushes, I/O errors, stops and starts: counters that differ    *)
(* from traffic.json are being written or a flush of them is pending.      *)
(***************************************************************************)
THEOREM UnsavedAlwaysScheduled == Spec => []UnsavedIsScheduled
<1>1. ScheduledInv => UnsavedIsScheduled
  BY DEF ScheduledInv, SnapshotInv, QuietInv, UnsavedIsScheduled, BeingWritten, NoWriter
<1> QED
  BY <1>1, ScheduledInvInit, ScheduledInvNext, PTL DEF Spec

-----------------------------------------------------------------------------
(* The last flush.                                                         *)

\* Once Shutdown has returned nil no handler is left, so none will mark.
DrainInv == status = "final" => \A h \in Handlers : hpc[h] = "idle"

\* Requests arrive only before the shutdown.
LEMMA DrainInvNext == ScheduledInv /\ DrainInv /\ [Next]_vars => DrainInv'
<1> SUFFICES ASSUME ScheduledInv, DrainInv, [Next]_vars
             PROVE  DrainInv'
  OBVIOUS
<1>0. /\ hpc \in [Handlers -> {"idle", "start", "pruned", "body", "mark"}]
      /\ status \in StatusValues
  BY DEF ScheduledInv, TypeInv, StoreTypeOK, CoreTypeOK
<1> USE DEF DrainInv
<1>1. CASE Boot \/ BootSaved
  BY <1>1 DEF Boot, BootSaving, BootPlain, BootSaved
<1>2. CASE Edit \/ Write \/ UNCHANGED vars
  BY <1>2 DEF Edit, Write, vars
<1>3. ASSUME NEW h \in Handlers, Handle(h)
      PROVE  DrainInv'
  BY <1>0, <1>3
     DEF Handle, Request, RefreshUsers, RefreshKeeps, MarkPruned, Accumulate, MarkDirty, Respond
<1>4. ASSUME NEW t \in Threads, Flush(t)
      PROVE  DrainInv'
  BY <1>4 DEF Flush, Claim, SaveTraffic, Saved, SaveFails, Redirty
<1>5. CASE Terminate \/ DrainTimeout \/ Drained \/ NothingToFlush
  BY <1>5 DEF Terminate, DrainTimeout, Drained, NothingToFlush, SetStatus
<1>6. CASE Exit \/ Crash
  BY <1>6 DEF Exit, Crash, Halt
<1> QED
  BY <1>1, <1>2, <1>3, <1>4, <1>5, <1>6 DEF Next, Shutdown

\* A shutdown that ends with nothing marked, while the flusher is idle, finds
\* every counter on disk.
LEMMA QuietEnd ==
    ASSUME ScheduledInv, DrainInv, [Next]_vars,
           status = "final", status' = "done", fpc["flusher"] = "idle", ~dirty'
    PROVE  \A u \in Users : traffic[u] # 0 => traffic[u] = Disk[u]
<1>0. /\ LockInv /\ SnapshotInv /\ QuietInv /\ Running
      /\ fpc \in [Threads -> {"idle", "claimed", "writing", "failed"}]
      /\ \A h \in Handlers : hpc[h] = "idle"
  BY DEF ScheduledInv, TypeInv, StoreTypeOK, CoreTypeOK, Running, DrainInv
<1>1. NothingToFlush \/ \E t \in Threads : t # "flusher" /\ (Saved(t) \/ Redirty(t))
  BY DEF Next, Boot, BootSaving, BootPlain, BootSaved, Edit, Handle, Request,
         RefreshUsers, RefreshKeeps, MarkPruned, Accumulate, MarkDirty, Respond, Flush, Claim,
         SaveTraffic, Saved, SaveFails, Redirty, Write, Terminate, DrainTimeout,
         Shutdown, Drained, NothingToFlush, SetStatus, Exit, Crash, Halt, vars
<1>2. CASE NothingToFlush
  <2>1. NoWriter /\ ~FlushPending
    BY <1>0, <1>2 DEF NothingToFlush, NoWriter, FlushPending, Threads
  <2> QED
    BY <1>0, <2>1 DEF QuietInv
<1>3. CASE Saved("main")
  <2>1. ~NoWriter /\ ~FlushPending /\ dir.main = data
    BY <1>0, <1>3 DEF Saved, NoWriter, FlushPending, Threads, WriteOK, LockInv
  <2>2. Disk = data
    BY <2>1, TrafficAssumption
       DEF ScheduledInv, TypeInv, LockInv, FileInv, FileTypeOK, Disk, Usable, Doc
  <2> QED
    BY <1>0, <2>1, <2>2 DEF SnapshotInv
<1>4. CASE Redirty("main")
  BY <1>4 DEF Redirty
<1> QED
  BY <1>1, <1>2, <1>3, <1>4 DEF Threads

(***************************************************************************)
(* For every set of users and handlers: a shutdown of serve whose handlers *)
(* all answered, whose flush did not fail and which did not meet a flush   *)
(* of the periodic flusher leaves every counter in traffic.json.           *)
(***************************************************************************)
THEOREM QuietShutdownLosesNothing == Spec => QuietShutdownSaves
<1>1. Init => ScheduledInv /\ DrainInv
  BY ScheduledInvInit DEF Init, DrainInv
<1>2. ScheduledInv /\ DrainInv /\ [Next]_vars =>
        [ /\ status = "final" /\ status' = "done"
          /\ fpc["flusher"] = "idle"
          /\ ~dirty'
         => \A u \in Users : traffic[u] # 0 => traffic[u] = Disk[u] ]_vars
  BY QuietEnd
<1> QED
  BY <1>1, <1>2, ScheduledInvNext, DrainInvNext, PTL DEF Spec, QuietShutdownSaves
=============================================================================
