----------------------------- MODULE TrafficStore -----------------------------
(***************************************************************************)
(* Cumulative traffic of the panel: request handlers add to it in memory   *)
(* (tiny-xboard/api.go, Accumulate and RefreshUsers of store.go), a        *)
(* periodic flusher and the shutdown path write it behind to traffic.json  *)
(* (flushTrafficIfDirty, SaveTraffic, serve and runTrafficFlusher of       *)
(* main.go), and a start reads it back and prunes it (loadTraffic,         *)
(* pruneTraffic).                                                          *)
(*                                                                         *)
(* The upload and download counters of a user are one number, 0 when the   *)
(* user has no entry; every accepted push adds one unit.  users.json is an *)
(* input here: Edit replaces it and RefreshUsers reads it in one step.     *)
(***************************************************************************)
EXTENDS StateFile, Integers

CONSTANTS
    Users,          \* user ids
    Handlers,       \* request goroutines
    MaxPushes,      \* bound on accepted entries
    MaxEdits,       \* bound on edits of users.json
    MaxStarts,      \* bound on starts of the process
    MaxCrashes,     \* bound on process deaths and power losses
    MaxIOErrors     \* bound on failing file operations

ASSUME TrafficAssumption ==
    /\ Absent \notin [Users -> Nat]
    /\ Torn \notin [Users -> Nat]
    /\ {MaxPushes, MaxEdits, MaxStarts, MaxCrashes, MaxIOErrors} \subseteq Nat

Threads == {"flusher", "main"}

VARIABLES
    status,     \* of the process, see StatusValues
    usersFile,  \* the ids in users.json
    users,      \* s.users
    traffic,    \* s.traffic
    dirty,      \* s.dirty
    hpc,        \* where each handler is
    fpc,        \* where each flushing thread is in flushTrafficIfDirty
    pushes, edits, starts, crashes, ioErrors

bounds == <<pushes, edits, starts, crashes, ioErrors>>
vars == <<fileVars, status, usersFile, users, traffic, dirty, hpc, fpc, bounds>>

(***************************************************************************)
(* "booting": NewStore is saving.  "draining": srv.Shutdown waits for the  *)
(* handlers.  "final": they are done and main flushes.  "done", "aborted": *)
(* serve has returned nil, or the error of Shutdown.                       *)
(***************************************************************************)
StatusValues == {"down", "booting", "up", "draining", "final", "done", "aborted"}

Running == status \in {"up", "draining", "final", "done", "aborted"}

Doc == [Users -> Nat]

Empty == [u \in Users |-> 0]

\* What a reader of path finds of traffic.json.
Disk == IF Usable(dir.main) THEN dir.main ELSE Empty

\* The counters f without those of users that are not in U.
Pruned(f, U) == [u \in Users |-> IF u \in U THEN f[u] ELSE 0]

TypeOK ==
    /\ FileTypeOK(Doc)
    /\ status \in StatusValues
    /\ usersFile \in SUBSET Users
    /\ users \in SUBSET Users
    /\ traffic \in Doc
    /\ dirty \in BOOLEAN
    /\ hpc \in [Handlers -> {"idle", "start", "pruned", "body", "mark"}]
    /\ fpc \in [Threads -> {"idle", "claimed", "writing", "failed"}]
    /\ pushes \in 0..MaxPushes
    /\ edits \in 0..MaxEdits
    /\ starts \in 0..MaxStarts
    /\ crashes \in 0..MaxCrashes
    /\ ioErrors \in 0..MaxIOErrors

Init ==
    /\ FileInit
    /\ status = "down"
    /\ usersFile = Users
    /\ users = {}
    /\ traffic = Empty
    /\ dirty = FALSE
    /\ hpc = [h \in Handlers |-> "idle"]
    /\ fpc = [t \in Threads |-> "idle"]
    /\ pushes = 0 /\ edits = 0 /\ starts = 0 /\ crashes = 0 /\ ioErrors = 0

-----------------------------------------------------------------------------
(* NewStore: loadTraffic, then pruneTraffic.                               *)

\* Mutant: whatever os.Stat and the decoder say, the main file is used.
MutLoadedUnchecked == dir.main

\* loadTraffic: the main file, else its backup if the main file is damaged,
\* else nothing.
Loaded ==
    IF Usable(dir.main) THEN dir.main
    ELSE IF dir.main = Torn /\ Usable(dir.bak) THEN dir.bak
    ELSE Empty

\* It saves when it created the document or recovered the backup.
SavesOnLoad ==
    \/ dir.main = Absent
    \/ dir.main = Torn /\ Usable(dir.bak)

\* A start loads and saves; pruneTraffic runs when the save is over.
BootSaving ==
    /\ status = "down" /\ starts < MaxStarts
    /\ starts' = starts + 1
    /\ SavesOnLoad
    /\ users' = usersFile
    /\ traffic' = Loaded
    /\ dirty' = FALSE
    /\ BeginWrite(traffic')
    /\ status' = "booting"
    /\ UNCHANGED <<usersFile, hpc, fpc, pushes, edits, crashes, ioErrors>>

\* A start that saves nothing.  Pruning does not mark the traffic dirty.
BootPlain ==
    /\ status = "down" /\ starts < MaxStarts
    /\ starts' = starts + 1
    /\ ~SavesOnLoad
    /\ users' = usersFile
    /\ traffic' = Pruned(Loaded, usersFile)
    /\ dirty' = FALSE
    /\ status' = "up"
    /\ UNCHANGED <<fileVars, usersFile, hpc, fpc, pushes, edits, crashes, ioErrors>>

\* The save made by loadTraffic ends; its failure is only logged.
BootSaved ==
    /\ status = "booting"
    /\ \/ WriteOK /\ UNCHANGED ioErrors
       \/ /\ WriteError
          /\ ioErrors < MaxIOErrors
          /\ ioErrors' = ioErrors + 1
    /\ traffic' = Pruned(traffic, users)
    /\ status' = "up"
    /\ UNCHANGED <<usersFile, users, dirty, hpc, fpc, pushes, edits, starts, crashes>>

-----------------------------------------------------------------------------
(* Request handlers.                                                       *)

\* users.json is edited by the operator.
Edit ==
    /\ edits < MaxEdits
    /\ edits' = edits + 1
    /\ usersFile' \in SUBSET Users \ {usersFile}
    /\ UNCHANGED <<fileVars, status, users, traffic, dirty, hpc, fpc,
                   pushes, starts, crashes, ioErrors>>

\* An authenticated request to /user or /push reaches its handler.
Request(h) ==
    /\ status = "up"
    /\ hpc[h] = "idle"
    /\ hpc' = [hpc EXCEPT ![h] = "start"]
    /\ UNCHANGED <<fileVars, status, usersFile, users, traffic, dirty, fpc, bounds>>

\* RefreshUsers installs the users of users.json and drops the counters of
\* the others in one critical section of mu.
RefreshUsers(h) ==
    /\ Running
    /\ hpc[h] = "start"
    /\ users' = usersFile
    /\ traffic' = Pruned(traffic, usersFile)
    /\ hpc' = [hpc EXCEPT ![h] = IF traffic' # traffic THEN "pruned" ELSE "body"]
    /\ UNCHANGED <<fileVars, status, usersFile, dirty, fpc, bounds>>

\* It keeps the current set: users.json is not newer, is missing or cannot be
\* used.
RefreshKeeps(h) ==
    /\ Running
    /\ hpc[h] = "start"
    /\ hpc' = [hpc EXCEPT ![h] = "body"]
    /\ UNCHANGED <<fileVars, status, usersFile, users, traffic, dirty, fpc, bounds>>

\* After the critical section it marks the traffic dirty if it dropped any.
MarkPruned(h) ==
    /\ Running
    /\ hpc[h] = "pruned"
    /\ dirty' = TRUE
    /\ hpc' = [hpc EXCEPT ![h] = "body"]
    /\ UNCHANGED <<fileVars, status, usersFile, users, traffic, fpc, bounds>>

\* Mutant: the user list is not consulted.
MutAccumulateUnchecked(h, u) ==
    /\ Running
    /\ hpc[h] = "body"
    /\ pushes < MaxPushes
    /\ pushes' = pushes + 1
    /\ traffic' = [traffic EXCEPT ![u] = @ + 1]
    /\ hpc' = [hpc EXCEPT ![h] = "mark"]
    /\ UNCHANGED <<fileVars, status, usersFile, users, dirty, fpc,
                   edits, starts, crashes, ioErrors>>

\* Accumulate adds to the counters of a known user under mu ...
Accumulate(h, u) ==
    /\ Running
    /\ hpc[h] = "body"
    /\ u \in users
    /\ pushes < MaxPushes
    /\ pushes' = pushes + 1
    /\ traffic' = [traffic EXCEPT ![u] = @ + 1]
    /\ hpc' = [hpc EXCEPT ![h] = "mark"]
    /\ UNCHANGED <<fileVars, status, usersFile, users, dirty, fpc,
                   edits, starts, crashes, ioErrors>>

\* ... and marks the traffic dirty after the unlock.
MarkDirty(h) ==
    /\ Running
    /\ hpc[h] = "mark"
    /\ dirty' = TRUE
    /\ hpc' = [hpc EXCEPT ![h] = "body"]
    /\ UNCHANGED <<fileVars, status, usersFile, users, traffic, fpc, bounds>>

\* The handler answers: /user, a bad payload, or the last entry of a push.
Respond(h) ==
    /\ Running
    /\ hpc[h] = "body"
    /\ hpc' = [hpc EXCEPT ![h] = "idle"]
    /\ UNCHANGED <<fileVars, status, usersFile, users, traffic, dirty, fpc, bounds>>

Handle(h) ==
    \/ Request(h) \/ RefreshUsers(h) \/ RefreshKeeps(h)
    \/ MarkPruned(h) \/ MarkDirty(h) \/ Respond(h)
    \/ \E u \in Users : Accumulate(h, u)

-----------------------------------------------------------------------------
(* flushTrafficIfDirty in the flusher goroutine and in main.               *)

\* The compare-and-swap takes the flag.  The flusher's select may still pick
\* a tick after the context was cancelled, and main gets here once drained.
Claim(t) ==
    /\ IF t = "main" THEN status = "final" ELSE Running
    /\ fpc[t] = "idle"
    /\ dirty
    /\ dirty' = FALSE
    /\ fpc' = [fpc EXCEPT ![t] = "claimed"]
    /\ UNCHANGED <<fileVars, status, usersFile, users, traffic, hpc, bounds>>

\* SaveTraffic: saveMu is acquired and the snapshot is taken while it is held.
SaveTraffic(t) ==
    /\ Running
    /\ fpc[t] = "claimed"
    /\ \A o \in Threads : fpc[o] # "writing"
    /\ fpc' = [fpc EXCEPT ![t] = "writing"]
    /\ BeginWrite(traffic)
    /\ UNCHANGED <<status, usersFile, users, traffic, dirty, hpc, bounds>>

\* Mutant: SaveTraffic clears the flag itself when it is done.
MutSavedClearsFlag(t) ==
    /\ Running
    /\ fpc[t] = "writing"
    /\ WriteOK
    /\ fpc' = [fpc EXCEPT ![t] = "idle"]
    /\ status' = IF t = "main" THEN "done" ELSE status
    /\ dirty' = FALSE
    /\ UNCHANGED <<usersFile, users, traffic, hpc, bounds>>

\* It succeeds and releases saveMu; main is then done.
Saved(t) ==
    /\ Running
    /\ fpc[t] = "writing"
    /\ WriteOK
    /\ fpc' = [fpc EXCEPT ![t] = "idle"]
    /\ status' = IF t = "main" THEN "done" ELSE status
    /\ UNCHANGED <<usersFile, users, traffic, dirty, hpc, bounds>>

\* Mutant: the error return forgets to release saveMu.
MutSaveFailsKeepsLock(t) ==
    /\ Running
    /\ fpc[t] = "writing"
    /\ WriteError
    /\ ioErrors < MaxIOErrors
    /\ ioErrors' = ioErrors + 1
    /\ UNCHANGED <<status, usersFile, users, traffic, dirty, hpc, fpc,
                   pushes, edits, starts, crashes>>

\* It fails and releases saveMu.
SaveFails(t) ==
    /\ Running
    /\ fpc[t] = "writing"
    /\ WriteError
    /\ ioErrors < MaxIOErrors
    /\ ioErrors' = ioErrors + 1
    /\ fpc' = [fpc EXCEPT ![t] = "failed"]
    /\ UNCHANGED <<status, usersFile, users, traffic, dirty, hpc,
                   pushes, edits, starts, crashes>>

\* Mutant: the failure is only logged.
MutRedirtyForgets(t) ==
    /\ Running
    /\ fpc[t] = "failed"
    /\ fpc' = [fpc EXCEPT ![t] = "idle"]
    /\ status' = IF t = "main" THEN "done" ELSE status
    /\ UNCHANGED <<fileVars, usersFile, users, traffic, dirty, hpc, bounds>>

\* The flag is put back after a failure.
Redirty(t) ==
    /\ Running
    /\ fpc[t] = "failed"
    /\ dirty' = TRUE
    /\ fpc' = [fpc EXCEPT ![t] = "idle"]
    /\ status' = IF t = "main" THEN "done" ELSE status
    /\ UNCHANGED <<fileVars, usersFile, users, traffic, hpc, bounds>>

Flush(t) == Claim(t) \/ SaveTraffic(t) \/ Saved(t) \/ SaveFails(t) \/ Redirty(t)

\* The next step inside AtomicWriteWithBackup.
Write ==
    /\ WriteStep
    /\ UNCHANGED <<status, usersFile, users, traffic, dirty, hpc, fpc, bounds>>

-----------------------------------------------------------------------------
(* serve: shutdown.                                                        *)

SetStatus(s) ==
    /\ status' = s
    /\ UNCHANGED <<fileVars, usersFile, users, traffic, dirty, hpc, fpc, bounds>>

\* SIGTERM or SIGINT: the listener is closed, no request arrives any more.
Terminate == status = "up" /\ SetStatus("draining")

\* Mutant: the handlers are not waited for.
MutDrainedEarly == status = "draining" /\ SetStatus("final")

\* srv.Shutdown returns nil once every handler has answered.
Drained ==
    /\ status = "draining"
    /\ \A h \in Handlers : hpc[h] = "idle"
    /\ SetStatus("final")

\* It gives up after five seconds: serve returns the error and flushes nothing.
DrainTimeout ==
    /\ status = "draining"
    /\ \E h \in Handlers : hpc[h] # "idle"
    /\ SetStatus("aborted")

\* main finds the flag clear.
NothingToFlush ==
    /\ status = "final"
    /\ fpc["main"] = "idle"
    /\ ~dirty
    /\ SetStatus("done")

\* Memory and every goroutine end with the process, wherever they are.
Halt ==
    /\ status' = "down"
    /\ users' = {}
    /\ traffic' = Empty
    /\ dirty' = FALSE
    /\ hpc' = [h \in Handlers |-> "idle"]
    /\ fpc' = [t \in Threads |-> "idle"]
    /\ UNCHANGED <<usersFile, pushes, edits, starts, ioErrors>>

\* main returns.
Exit ==
    /\ status \in {"done", "aborted"}
    /\ ProcessDies
    /\ Halt
    /\ UNCHANGED crashes

Crash ==
    /\ status # "down"
    /\ crashes < MaxCrashes
    /\ crashes' = crashes + 1
    /\ ProcessDies \/ PowerFails
    /\ Halt

Boot == BootSaving \/ BootPlain

Shutdown == Drained \/ NothingToFlush \/ Exit

Next ==
    \/ Boot \/ BootSaved \/ Edit
    \/ \E h \in Handlers : Handle(h)
    \/ \E t \in Threads : Flush(t)
    \/ Write
    \/ Terminate \/ DrainTimeout \/ Shutdown
    \/ Crash

Spec == Init /\ [][Next]_vars

\* The steps of each goroutine that happen by themselves.
MainProceeds == Boot \/ BootSaved \/ Shutdown
HandlerProceeds(h) ==
    RefreshUsers(h) \/ RefreshKeeps(h) \/ MarkPruned(h) \/ MarkDirty(h) \/ Respond(h)
FlushProceeds(t) == Claim(t) \/ SaveTraffic(t) \/ Saved(t) \/ Redirty(t)

(***************************************************************************)
(* The Go scheduler runs every runnable goroutine, the ticker keeps        *)
(* ticking, system calls return and a handler ends (the HTTP server's read *)
(* and write timeouts).  Requests, edits, signals, I/O errors and crashes  *)
(* need not happen.                                                        *)
(***************************************************************************)
Fairness ==
    /\ WF_vars(MainProceeds) /\ WF_vars(Write)
    /\ \A h \in Handlers : WF_vars(HandlerProceeds(h))
    /\ \A t \in Threads : WF_vars(FlushProceeds(t))

FairSpec == Spec /\ Fairness

-----------------------------------------------------------------------------
(* Properties.                                                             *)

\* A write of u's current counters is under way.
BeingWritten(u) == \E t \in Threads : fpc[t] = "writing" /\ data[u] = traffic[u]

\* Some thread is going to write a later snapshot, or to ask for one.
FlushPending ==
    \/ dirty
    \/ \E h \in Handlers : hpc[h] \in {"pruned", "mark"}
    \/ \E t \in Threads : fpc[t] \in {"claimed", "failed"}

(***************************************************************************)
(* Counters that differ from traffic.json are never forgotten: the flag is *)
(* set, or some goroutine will set it, or a write that holds them is under *)
(* way.  This is what the order "add, unlock, mark" of Accumulate, "clear, *)
(* snapshot, write" of flushTrafficIfDirty and the repeated mark after an  *)
(* I/O error are for.                                                      *)
(***************************************************************************)
UnsavedIsScheduled ==
    Running => \A u \in Users :
        traffic[u] # 0 /\ traffic[u] # Disk[u] => FlushPending \/ BeingWritten(u)

(***************************************************************************)
(* The counters are bounded by the user list: no interleaving of pushes    *)
(* and reloads leaves counters of a user who is not known.                 *)
(***************************************************************************)
OnlyKnownUsers == Running => \A u \in Users : traffic[u] # 0 => u \in users

(***************************************************************************)
(* A shutdown that is not cut short, whose flush did not fail and which    *)
(* does not meet a flush of the periodic flusher leaves nothing unsaved.   *)
(***************************************************************************)
QuietShutdownSaves ==
    [][ /\ status = "final" /\ status' = "done"
        /\ fpc["flusher"] = "idle"
        /\ ~dirty'
       => \A u \in Users : traffic[u] # 0 => traffic[u] = Disk[u] ]_vars

\* As long as the process runs, what was pushed reaches traffic.json.
PushesReachDisk ==
    \A u \in Users : \A n \in 1..MaxPushes :
        status = "up" /\ traffic[u] = n ~> Disk[u] >= n \/ traffic[u] < n \/ status # "up"

(***************************************************************************)
(* A signalled server exits: neither the drain nor the wait for saveMu     *)
(* blocks it for ever.                                                     *)
(***************************************************************************)
ShutdownEnds == status = "draining" ~> status = "down"

(***************************************************************************)
(* The README says that SIGTERM and SIGINT write the traffic to disk       *)
(* before exit, and serve that it "flushes traffic before exit": when main *)
(* returns after a complete drain, traffic.json holds the counters.        *)
(***************************************************************************)
GracefulExitSaves ==
    [][ status = "done" /\ status' = "down" /\ crashes' = crashes
       => \A u \in Users : traffic[u] # 0 => traffic[u] = Disk[u] ]_vars
=============================================================================
