---------------------------- MODULE DocumentStore ----------------------------
(***************************************************************************)
(* The life of one persisted document of the panel's Store                 *)
(* (tiny-xboard/store.go): it is loaded or created by NewStore, changed in *)
(* memory and saved by several goroutines at once, and the process or the  *)
(* machine may stop between any two steps of a save.                       *)
(*                                                                         *)
(* node.json, nodes.json and users.json are required documents: the server *)
(* does not start without them.  traffic.json is disposable.               *)
(*                                                                         *)
(* A document is abstracted to its generation: every change in memory, and *)
(* every default made for a missing file, gets the next number.            *)
(***************************************************************************)
EXTENDS StateFile, Integers

CONSTANTS
    Savers,         \* goroutines that change the document and save it
    Nobody,         \* saveMu is free
    MaxChanges,     \* bound: no change is made beyond this generation
    MaxCrashes,     \* bound on process and machine stops
    MaxIOErrors,    \* bound on failing file operations
    MaxCorruptions  \* bound on damage to the main file at rest

ASSUME DocumentAssumption ==
    /\ Nobody \notin Savers
    /\ Absent \notin Nat
    /\ Torn \notin Nat
    /\ {MaxChanges, MaxCrashes, MaxIOErrors, MaxCorruptions} \subseteq Nat

VARIABLES
    status,     \* "down", "booting" (NewStore is saving), "up" or "refused"
    mem,        \* the generation in memory
    gen,        \* the newest generation ever made
    phase,      \* per saver: "idle", "queued" on saveMu, or "writing"
    want,       \* per saver: the generation its caller made and wants saved
    owner,      \* the saver that holds saveMu
    acked,      \* the newest generation whose save was reported successful
    disposable, \* TRUE for traffic.json; never changes
    crashes, ioErrors, corruptions

outside == <<disposable, crashes, ioErrors, corruptions>>
vars == <<fileVars, status, mem, gen, phase, want, owner, acked, outside>>

\* The documents that decode and that the validate functions accept.
Doc == Nat \ {0}

Later(a, b) == IF a >= b THEN a ELSE b

TypeOK ==
    /\ FileTypeOK(Doc)
    /\ status \in {"down", "booting", "up", "refused"}
    /\ mem \in Nat
    /\ gen \in Nat
    /\ phase \in [Savers -> {"idle", "queued", "writing"}]
    /\ want \in [Savers -> Nat]
    /\ owner \in Savers \cup {Nobody}
    /\ acked \in Nat
    /\ disposable \in BOOLEAN
    /\ crashes \in 0..MaxCrashes
    /\ ioErrors \in 0..MaxIOErrors
    /\ corruptions \in 0..MaxCorruptions

Init ==
    /\ FileInit
    /\ status = "down"
    /\ mem = 0
    /\ gen = 0
    /\ phase = [s \in Savers |-> "idle"]
    /\ want = [s \in Savers |-> 0]
    /\ owner = Nobody
    /\ acked = 0
    /\ disposable \in BOOLEAN
    /\ crashes = 0 /\ ioErrors = 0 /\ corruptions = 0

-----------------------------------------------------------------------------
(* NewStore: loadSingleNode, loadNodesFile, loadUsers, loadTraffic.        *)

\* os.Stat says the main file does not exist: a default document is made and
\* saved.  path.bak is not looked at.
BootCreate ==
    /\ status = "down"
    /\ dir.main = Absent
    /\ gen' = gen + 1
    /\ mem' = gen'
    /\ BeginWrite(mem')
    /\ status' = "booting"
    /\ UNCHANGED <<phase, want, owner, acked, outside>>

\* Mutant: the backup is read first.
MutBootMainPrefersBackup ==
    /\ status = "down"
    /\ Usable(dir.main)
    /\ mem' = IF Usable(dir.bak) THEN dir.bak ELSE dir.main
    /\ status' = "up"
    /\ UNCHANGED <<fileVars, gen, phase, want, owner, acked, outside>>

\* Mutant: the decoded document is not validated.
MutBootMainUnchecked ==
    /\ status = "down"
    /\ dir.main # Absent
    /\ mem' = dir.main
    /\ status' = "up"
    /\ UNCHANGED <<fileVars, gen, phase, want, owner, acked, outside>>

\* The main file is good.
BootMain ==
    /\ status = "down"
    /\ Usable(dir.main)
    /\ mem' = dir.main
    /\ status' = "up"
    /\ UNCHANGED <<fileVars, gen, phase, want, owner, acked, outside>>

\* The main file is good, but ensureRealityKeypair had to complete a node
\* document (one put there by the operator): it is saved with its keys.
BootKeypair ==
    /\ status = "down"
    /\ ~disposable
    /\ Usable(dir.main)
    /\ mem' = dir.main
    /\ BeginWrite(mem')
    /\ status' = "booting"
    /\ UNCHANGED <<gen, phase, want, owner, acked, outside>>

\* Mutant: the main file is not restored.
MutBootBackupNoSave ==
    /\ status = "down"
    /\ dir.main = Torn
    /\ Usable(dir.bak)
    /\ mem' = dir.bak
    /\ status' = "up"
    /\ UNCHANGED <<fileVars, gen, phase, want, owner, acked, outside>>

\* The main file is there but no good and the backup is: it is loaded and
\* saved at once, to restore the main file.
BootBackup ==
    /\ status = "down"
    /\ dir.main = Torn
    /\ Usable(dir.bak)
    /\ mem' = dir.bak
    /\ BeginWrite(mem')
    /\ status' = "booting"
    /\ UNCHANGED <<gen, phase, want, owner, acked, outside>>

\* Mutant: every document is required.
MutBootUnusableRefuses ==
    /\ status = "down"
    /\ dir.main = Torn
    /\ ~Usable(dir.bak)
    /\ status' = "refused"
    /\ UNCHANGED <<fileVars, gen, mem, phase, want, owner, acked, outside>>

\* Neither copy is good.  The server refuses to start, except for the
\* disposable document, which starts empty and is not saved.
BootUnusable ==
    /\ status = "down"
    /\ dir.main = Torn
    /\ ~Usable(dir.bak)
    /\ IF disposable
       THEN /\ gen' = gen + 1
            /\ mem' = gen'
            /\ status' = "up"
       ELSE /\ status' = "refused"
            /\ UNCHANGED <<gen, mem>>
    /\ UNCHANGED <<fileVars, phase, want, owner, acked, outside>>

\* The save made by NewStore succeeds.
BootSaved ==
    /\ status = "booting"
    /\ WriteOK
    /\ status' = "up"
    /\ acked' = Later(acked, mem)
    /\ UNCHANGED <<mem, gen, phase, want, owner, outside>>

\* The save made by NewStore fails: only the disposable document goes on.
BootSaveFails ==
    /\ status = "booting"
    /\ ioErrors < MaxIOErrors
    /\ WriteError
    /\ status' = IF disposable THEN "up" ELSE "refused"
    /\ ioErrors' = ioErrors + 1
    /\ UNCHANGED <<mem, gen, phase, want, owner, acked, disposable, crashes, corruptions>>

\* systemd starts the process again (Restart=always).
Restart ==
    /\ status = "refused"
    /\ status' = "down"
    /\ UNCHANGED <<fileVars, mem, gen, phase, want, owner, acked, outside>>

-----------------------------------------------------------------------------
(* SetUsers, AddUser, DeleteUser and the Save functions at run time.       *)

\* The state is changed under mu; the caller then queues on saveMu.
Change(s) ==
    /\ status = "up"
    /\ phase[s] = "idle"
    /\ gen < MaxChanges
    /\ gen' = gen + 1
    /\ mem' = gen'
    /\ want' = [want EXCEPT ![s] = gen']
    /\ phase' = [phase EXCEPT ![s] = "queued"]
    /\ UNCHANGED <<fileVars, status, owner, acked, outside>>

\* Mutant: the snapshot is the one taken before saveMu was acquired.
MutBeginSaveEarlySnapshot(s) ==
    /\ status = "up"
    /\ phase[s] = "queued"
    /\ owner = Nobody
    /\ owner' = s
    /\ phase' = [phase EXCEPT ![s] = "writing"]
    /\ BeginWrite(want[s])
    /\ UNCHANGED <<status, mem, gen, want, acked, outside>>

\* saveMu is acquired and the snapshot is taken while it is held.
BeginSave(s) ==
    /\ status = "up"
    /\ phase[s] = "queued"
    /\ owner = Nobody
    /\ owner' = s
    /\ phase' = [phase EXCEPT ![s] = "writing"]
    /\ BeginWrite(mem)
    /\ UNCHANGED <<status, mem, gen, want, acked, outside>>

\* The write returns, saveMu is released and the caller gets the result.
EndSave(s) ==
    /\ owner = s
    /\ owner' = Nobody
    /\ phase' = [phase EXCEPT ![s] = "idle"]

Saved(s) ==
    /\ EndSave(s)
    /\ WriteOK
    /\ acked' = Later(acked, want[s])
    /\ UNCHANGED <<status, mem, gen, want, outside>>

\* Mutant: the error return forgets to release saveMu.
MutSaveFailsKeepsLock(s) ==
    /\ owner = s
    /\ phase' = [phase EXCEPT ![s] = "idle"]
    /\ ioErrors < MaxIOErrors
    /\ WriteError
    /\ ioErrors' = ioErrors + 1
    /\ UNCHANGED <<owner, status, mem, gen, want, acked, disposable, crashes, corruptions>>

SaveFails(s) ==
    /\ EndSave(s)
    /\ ioErrors < MaxIOErrors
    /\ WriteError
    /\ ioErrors' = ioErrors + 1
    /\ UNCHANGED <<status, mem, gen, want, acked, disposable, crashes, corruptions>>

\* The next step inside AtomicWriteWithBackup.
Write ==
    /\ WriteStep
    /\ UNCHANGED <<status, mem, gen, phase, want, owner, acked, outside>>

-----------------------------------------------------------------------------
(* Stops and damage.                                                       *)

Stop ==
    /\ status \in {"booting", "up"}
    /\ crashes < MaxCrashes
    /\ crashes' = crashes + 1
    /\ status' = "down"
    /\ owner' = Nobody
    /\ phase' = [s \in Savers |-> "idle"]
    /\ UNCHANGED <<mem, gen, want, acked, disposable, ioErrors, corruptions>>

Crash == Stop /\ ProcessDies

PowerLoss == Stop /\ PowerFails

Damage ==
    /\ corruptions < MaxCorruptions
    /\ corruptions' = corruptions + 1
    /\ Corrupt
    /\ UNCHANGED <<status, mem, gen, phase, want, owner, acked,
                   disposable, crashes, ioErrors>>

Boot == BootCreate \/ BootMain \/ BootKeypair \/ BootBackup \/ BootUnusable

Next ==
    \/ Boot \/ BootSaved \/ BootSaveFails \/ Restart
    \/ \E s \in Savers : Change(s) \/ BeginSave(s) \/ Saved(s) \/ SaveFails(s)
    \/ Write
    \/ Crash \/ PowerLoss \/ Damage

Spec == Init /\ [][Next]_vars

(***************************************************************************)
(* The process runs on: system calls return, systemd restarts the service  *)
(* and a Go mutex does not starve a waiter (its starvation mode hands the  *)
(* lock over in FIFO order), hence strong fairness of taking saveMu.       *)
(* Nothing makes a change, an error or a stop happen.                      *)
(***************************************************************************)
Fairness ==
    /\ WF_vars(Boot) /\ WF_vars(Restart)
    /\ WF_vars(BootSaved) /\ WF_vars(Write)
    /\ \A s \in Savers : SF_vars(BeginSave(s)) /\ WF_vars(Saved(s))

FairSpec == Spec /\ Fairness

-----------------------------------------------------------------------------
(* Properties.                                                             *)

\* Nothing has damaged a file at rest.
Undamaged == corruptions = 0

\* A copy of generation g or a later one can be read from directory d.
Holds(d, g) ==
    \/ g = 0
    \/ Usable(d.main) /\ d.main >= g
    \/ Usable(d.bak) /\ d.bak >= g

(***************************************************************************)
(* Once a save was reported successful, that generation or a later one can *)
(* be read from path or path.bak at every later moment, in the middle of   *)
(* any later save, after any failed one and after any power loss, as long  *)
(* as nothing damages a file at rest: the order write, fsync, backup,      *)
(* promote, fsync(dir) of AtomicWriteWithBackup and the snapshot under     *)
(* saveMu.                                                                 *)
(***************************************************************************)
AckedOnDisk == Undamaged => \A d \in journal : Holds(d, acked)

(***************************************************************************)
(* No stop, at whatever step of whatever save, leaves a half-written       *)
(* document under path or path.bak (the temporary file is fsynced before   *)
(* it is renamed).                                                         *)
(***************************************************************************)
NeverTorn == Undamaged => \A d \in journal : d.main # Torn /\ d.bak # Torn

(***************************************************************************)
(* "an older snapshot can never be promoted after a fresher one": the      *)
(* backup never is newer than the main file.                               *)
(***************************************************************************)
BackupIsOlder ==
    Undamaged => \A d \in journal : Usable(d.main) /\ Usable(d.bak) => d.main >= d.bak

(***************************************************************************)
(* A start that finds a main file serves what was last reported saved, or  *)
(* something newer: an unacknowledged save may survive, an acknowledged    *)
(* one is never rolled back by NewStore.                                   *)
(***************************************************************************)
BootKeepsAcked ==
    [][Undamaged /\ status = "down" /\ status' # "down" /\ dir.main # Absent
         => mem' >= acked]_vars

(***************************************************************************)
(* Every caller of a Save function gets an answer: no error path of a save *)
(* leaves saveMu locked, unless the process stops first.                   *)
(***************************************************************************)
SavesReturn == \A s \in Savers : phase[s] = "queued" ~> phase[s] = "idle"

(***************************************************************************)
(* Damage to the document, failing writes and stops never keep the server  *)
(* from coming up for good (loadTraffic; only claimed of the disposable    *)
(* document).                                                              *)
(***************************************************************************)
AlwaysServesAgain == disposable => []<>(status = "up")

(***************************************************************************)
(* A start that finds the main file damaged and the backup good puts a     *)
(* readable main file back (the restoring save of the load functions), if  *)
(* nothing more goes wrong.                                                *)
(***************************************************************************)
RollbackCompletes ==
    /\ status = "down" /\ dir.main = Torn /\ Usable(dir.bak)
    /\ crashes = MaxCrashes /\ ioErrors = MaxIOErrors
    /\ corruptions = MaxCorruptions
    ~> Usable(dir.main)

(***************************************************************************)
(* The README says that a crash loses no data and loadWithFallback that a  *)
(* missing main file is replaced by the backup: a start then never makes a *)
(* new default document once one was saved.                                *)
(***************************************************************************)
RestartRemembers ==
    [][status = "down" /\ status' # "down" /\ acked > 0 => gen' = gen]_vars

HasCopy(d) == Usable(d.main) \/ Usable(d.bak)

(***************************************************************************)
(* The README says that a damaged main file is rolled back to path.bak,    *)
(* and that a crash loses no data: once a start found the main file        *)
(* damaged and the backup good, and nothing is damaged after that, every   *)
(* later start finds a readable copy.                                      *)
(***************************************************************************)
RollbackKeepsACopy ==
    []( /\ status = "down" /\ dir.main = Torn /\ Usable(dir.bak)
        /\ corruptions = MaxCorruptions
       => [](status = "down" => HasCopy(dir)))

-----------------------------------------------------------------------------
(* Refinement.                                                             *)

Register == INSTANCE DurableRegister WITH
    up <- status = "up",
    cur <- IF status = "up" THEN mem ELSE 0,
    made <- gen,
    damaged <- ~Undamaged

(***************************************************************************)
(* Through all steps of saves, starts, stops, I/O errors and damage, the   *)
(* document is a durable register: what is served only changes by a        *)
(* change, a stop or a start, and a start serves what was acknowledged or  *)
(* something newer.                                                        *)
(***************************************************************************)
ImplementsRegister == Register!Spec
=============================================================================
