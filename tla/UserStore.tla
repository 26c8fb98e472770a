------------------------------ MODULE UserStore ------------------------------
(***************************************************************************)
(* The hot reload of users.json: every request to /user and /push runs     *)
(* RefreshUsers (tiny-xboard/store.go), which looks at the file, reads it  *)
(* and installs it in separate steps, without a lock around them, while    *)
(* the operator edits the file and other requests do the same.             *)
(*                                                                         *)
(* A list is the number of the edit that made it: `lists[v]' is the set of *)
(* users of version v.  Every write of a file takes the next tick of the   *)
(* clock as its modification time.  Stops and restarts are the subject of  *)
(* DocumentStore, the dirty flag that of TrafficStore.                     *)
(***************************************************************************)
EXTENDS Integers, Sequences

CONSTANTS
    Users,          \* user ids
    Handlers,       \* request goroutines
    Nobody,         \* saveMu is free
    Absent, Torn,   \* no file; bytes that do not decode or do not validate
    MaxEdits,       \* bound on edits of users.json
    MaxRollbacks,   \* bound on reads of the backup
    MaxIOErrors     \* bound on failing file operations

ASSUME UserStoreAssumption ==
    /\ Nobody \notin Handlers
    /\ Absent # Torn
    /\ Absent \notin Nat /\ Torn \notin Nat
    /\ {MaxEdits, MaxRollbacks, MaxIOErrors} \subseteq Nat

VARIABLES
    main, bak,  \* users.json and users.json.bak: a version, Absent or Torn
    stamp,      \* modification time of users.json
    clock,      \* the last modification time given out
    editing,    \* the file an editor has open, "away", or "none"
    lists,      \* the user lists of all versions
    mem,        \* s.users, as a version
    usersMod,   \* s.usersMod; 0, the zero time, until users.json is loaded
    counted,    \* the users with an entry in s.traffic
    owner,      \* the handler that holds saveMu
    snap,       \* its snapshot and the modification time of users.json.tmp
    hpc,        \* where each handler is
    seen,       \* per handler: the modification time it found
    got,        \* per handler: the version it read
    overtaken,  \* history: handlers passed by another one since their read
    rollbacks,  \* how often the backup was read
    spoiled,    \* history: a backup was read, and no edit has got past it yet
    ioErrors

file == <<main, bak, stamp, clock, editing, lists>>
save == <<owner, snap>>
memory == <<mem, usersMod, counted>>
request == <<hpc, seen, got>>
history == <<overtaken, rollbacks, spoiled>>
vars == <<file, save, memory, request, history, ioErrors>>

Versions == 1..Len(lists)
Latest == Len(lists)

NoSnapshot == [version |-> 0, mtime |-> 0]

Usable(content) == content \notin {Absent, Torn}

Steps == {"idle", "check", "read", "readBackup", "install", "installBackup",
          "save", "backup", "promote", "body"}

TypeOK ==
    /\ lists \in Seq(SUBSET Users)
    /\ main \in Versions \cup {Absent, Torn}
    /\ bak \in Versions \cup {Absent, Torn}
    /\ clock \in Nat /\ stamp \in 0..clock /\ usersMod \in 0..clock
    /\ editing \in {"none", "main", "bak", "unlinked", "away"}
    /\ mem \in Versions
    /\ counted \in SUBSET lists[mem]
    /\ owner \in Handlers \cup {Nobody}
    /\ snap \in [version : Versions \cup {0}, mtime : 0..clock]
    /\ hpc \in [Handlers -> Steps]
    /\ seen \in [Handlers -> 0..clock]
    /\ got \in [Handlers -> Versions \cup {0}]
    /\ overtaken \in SUBSET Handlers
    /\ rollbacks \in 0..MaxRollbacks /\ spoiled \in BOOLEAN
    /\ ioErrors \in 0..MaxIOErrors

(***************************************************************************)
(* NewStore has loaded version 2, or found no file and made an empty one,  *)
(* which it does not count as loaded.  A backup with the list before it    *)
(* may have been left by an earlier save or by the operator.               *)
(***************************************************************************)
Init ==
    /\ \E list \in SUBSET Users : lists = <<Users, list>>
    /\ main = 2 /\ mem = 2
    /\ bak \in {Absent, 1}
    /\ stamp = 1 /\ clock = 1
    /\ usersMod = 1 \/ (usersMod = 0 /\ lists[2] = {})
    /\ editing = "none"
    /\ counted = {}
    /\ owner = Nobody
    /\ snap = NoSnapshot
    /\ hpc = [h \in Handlers |-> "idle"]
    /\ seen = [h \in Handlers |-> 0]
    /\ got = [h \in Handlers |-> 0]
    /\ overtaken = {}
    /\ rollbacks = 0 /\ spoiled = FALSE /\ ioErrors = 0

-----------------------------------------------------------------------------
(* The operator.                                                           *)

Edits == Len(lists) - 2

\* The operator changes the list last written.
Edited ==
    \E list \in SUBSET Users \ {lists[Latest]} : lists' = Append(lists, list)

\* A request has read the backup and is going to install it or to save it.
RollingBack ==
    \E h \in Handlers : hpc[h] \in {"installBackup", "save", "backup", "promote"}

\* users.json is replaced by a finished file (an editor that renames, mv).
EditByRename ==
    /\ editing = "none"
    /\ Edits < MaxEdits
    /\ Edited
    /\ main' = Latest + 1
    /\ clock' = clock + 1
    /\ stamp' = clock'
    /\ spoiled' = (spoiled /\ RollingBack)
    /\ UNCHANGED <<bak, editing, save, memory, request, overtaken, rollbacks, ioErrors>>

\* users.json is truncated and is going to be written in place.
EditBegins ==
    /\ editing = "none"
    /\ Edits < MaxEdits
    /\ main # Absent
    /\ editing' = "main"
    /\ main' = Torn
    /\ clock' = clock + 1
    /\ stamp' = clock'
    /\ UNCHANGED <<bak, lists, save, memory, request, history, ioErrors>>

\* users.json is moved away and is going to be written anew.
EditMovesAway ==
    /\ editing = "none"
    /\ Edits < MaxEdits
    /\ main # Absent
    /\ editing' = "away"
    /\ main' = Absent
    /\ UNCHANGED <<bak, stamp, clock, lists, save, memory, request, history, ioErrors>>

\* The bytes are written, to the file the editor has open (a save of the
\* server may have renamed it since) or to a new users.json.
EditEnds ==
    /\ editing # "none"
    /\ editing' = "none"
    /\ Edited
    /\ clock' = clock + 1
    /\ IF editing \in {"main", "away"}
       THEN main' = Latest + 1 /\ stamp' = clock'
       ELSE UNCHANGED <<main, stamp>>
    /\ bak' = IF editing = "bak" THEN Latest + 1 ELSE bak
    /\ spoiled' = (spoiled /\ (RollingBack \/ editing \notin {"main", "away"}))
    /\ UNCHANGED <<save, memory, request, overtaken, rollbacks, ioErrors>>

-----------------------------------------------------------------------------
(* RefreshUsers, called by handleUser and handlePush.                      *)

Goto(h, step) == hpc' = [hpc EXCEPT ![h] = step]

\* An authenticated request arrives: os.Stat.  When the file is missing the
\* current set is kept.
Stat(h) ==
    /\ hpc[h] = "idle"
    /\ IF main = Absent
       THEN Goto(h, "body") /\ UNCHANGED seen
       ELSE Goto(h, "check") /\ seen' = [seen EXCEPT ![h] = stamp]
    /\ UNCHANGED <<file, save, memory, got, history, ioErrors>>

\* Under mu: is the file newer than the one that was loaded?
Check(h) ==
    /\ hpc[h] = "check"
    /\ Goto(h, IF seen[h] > usersMod THEN "read" ELSE "body")
    /\ UNCHANGED <<file, save, memory, seen, got, history, ioErrors>>

\* loadUsersFromDisk: the main file, if it decodes and validates.
ReadMain(h) ==
    /\ hpc[h] = "read"
    /\ IF Usable(main)
       THEN Goto(h, "install") /\ got' = [got EXCEPT ![h] = main]
       ELSE Goto(h, "readBackup") /\ UNCHANGED got
    /\ UNCHANGED <<file, save, memory, seen, history, ioErrors>>

\* Else the backup.  With neither the error is logged and the set is kept.
ReadBackup(h) ==
    /\ hpc[h] = "readBackup"
    /\ IF Usable(bak)
       THEN /\ rollbacks < MaxRollbacks
            /\ rollbacks' = rollbacks + 1
            /\ spoiled' = TRUE
            /\ Goto(h, "installBackup")
            /\ got' = [got EXCEPT ![h] = bak]
       ELSE /\ Goto(h, "body")
            /\ UNCHANGED <<got, rollbacks, spoiled>>
    /\ UNCHANGED <<file, save, memory, seen, overtaken, ioErrors>>

\* Mutant: the modification time is taken when the list is installed.
MutInstallLateStat(h) ==
    /\ hpc[h] \in {"install", "installBackup"}
    /\ mem' = got[h]
    /\ usersMod' = stamp
    /\ counted' = counted \cap lists[got[h]]
    /\ Goto(h, IF hpc[h] = "installBackup" THEN "save" ELSE "body")
    /\ overtaken' = {o \in Handlers \ {h} :
                        o \in overtaken \/ hpc[o] \in {"install", "installBackup"}}
    /\ UNCHANGED <<file, save, seen, got, rollbacks, spoiled, ioErrors>>

\* Mutant: everybody's counters start again with a new list.
MutInstallResets(h) ==
    /\ hpc[h] \in {"install", "installBackup"}
    /\ mem' = got[h]
    /\ usersMod' = seen[h]
    /\ counted' = {}
    /\ Goto(h, IF hpc[h] = "installBackup" THEN "save" ELSE "body")
    /\ overtaken' = {o \in Handlers \ {h} :
                        o \in overtaken \/ hpc[o] \in {"install", "installBackup"}}
    /\ UNCHANGED <<file, save, seen, got, rollbacks, spoiled, ioErrors>>

\* Mutant: the counters of removed users are left alone.
MutInstallUnpruned(h) ==
    /\ hpc[h] \in {"install", "installBackup"}
    /\ mem' = got[h]
    /\ usersMod' = seen[h]
    /\ Goto(h, IF hpc[h] = "installBackup" THEN "save" ELSE "body")
    /\ overtaken' = {o \in Handlers \ {h} :
                        o \in overtaken \/ hpc[o] \in {"install", "installBackup"}}
    /\ UNCHANGED <<file, save, counted, seen, got, rollbacks, spoiled, ioErrors>>

\* In one critical section of mu the list read, the modification time found
\* before the read and the pruned counters are installed.  A list read from
\* the backup is then saved.
Install(h) ==
    /\ hpc[h] \in {"install", "installBackup"}
    /\ mem' = got[h]
    /\ usersMod' = seen[h]
    /\ counted' = counted \cap lists[got[h]]
    /\ Goto(h, IF hpc[h] = "installBackup" THEN "save" ELSE "body")
    /\ overtaken' = {o \in Handlers \ {h} :
                        o \in overtaken \/ hpc[o] \in {"install", "installBackup"}}
    /\ UNCHANGED <<file, save, seen, got, rollbacks, spoiled, ioErrors>>

-----------------------------------------------------------------------------
(* SaveUsers and AtomicWriteWithBackup.                                    *)

\* saveMu is acquired, the snapshot is taken and users.json.tmp is written.
SaveBegins(h) ==
    /\ hpc[h] = "save"
    /\ owner = Nobody
    /\ owner' = h
    /\ clock' = clock + 1
    /\ snap' = [version |-> mem, mtime |-> clock']
    /\ Goto(h, "backup")
    /\ UNCHANGED <<main, bak, stamp, editing, lists, memory, seen, got, history, ioErrors>>

\* A main file that exists, whoever wrote it, is renamed over the backup.
KeepBackup(h) ==
    /\ hpc[h] = "backup"
    /\ Goto(h, "promote")
    /\ IF main = Absent
       THEN UNCHANGED <<main, bak, editing>>
       ELSE /\ bak' = main
            /\ main' = Absent
            /\ editing' = CASE editing = "main" -> "bak"
                            [] editing = "bak" -> "unlinked"
                            [] OTHER -> editing
    /\ UNCHANGED <<stamp, clock, lists, save, memory, seen, got, history, ioErrors>>

\* users.json.tmp is renamed to users.json, over whatever is there; saveMu is
\* released.
Promote(h) ==
    /\ hpc[h] = "promote"
    /\ main' = snap.version
    /\ stamp' = snap.mtime
    /\ editing' = IF editing = "main" THEN "unlinked" ELSE editing
    /\ owner' = Nobody
    /\ snap' = NoSnapshot
    /\ Goto(h, "body")
    /\ UNCHANGED <<bak, clock, lists, memory, seen, got, history, ioErrors>>

\* An operation of the save fails; a failed promotion renames the backup back,
\* unless that fails too.  The error is logged.
SaveFails(h) ==
    /\ hpc[h] \in {"backup", "promote"}
    /\ ioErrors < MaxIOErrors
    /\ ioErrors' = ioErrors + 1
    /\ \/ UNCHANGED <<main, bak, editing>>
       \/ /\ hpc[h] = "promote" /\ bak # Absent
          /\ main' = bak
          /\ bak' = Absent
          /\ editing' = CASE editing = "bak" -> "main"
                          [] editing = "main" -> "unlinked"
                          [] OTHER -> editing
    /\ owner' = Nobody
    /\ snap' = NoSnapshot
    /\ Goto(h, "body")
    /\ UNCHANGED <<stamp, clock, lists, memory, seen, got, history>>

-----------------------------------------------------------------------------
(* The rest of a request.                                                  *)

\* Accumulate, for an entry of a push that names a known user.
Accumulate(h, u) ==
    /\ hpc[h] = "body"
    /\ u \in lists[mem]
    /\ counted' = counted \cup {u}
    /\ UNCHANGED <<file, save, mem, usersMod, request, history, ioErrors>>

\* The answer; the locals are gone.
Respond(h) ==
    /\ hpc[h] = "body"
    /\ Goto(h, "idle")
    /\ seen' = [seen EXCEPT ![h] = 0]
    /\ got' = [got EXCEPT ![h] = 0]
    /\ UNCHANGED <<file, save, memory, history, ioErrors>>

RefreshUsers(h) ==
    \/ Stat(h) \/ Check(h) \/ ReadMain(h) \/ ReadBackup(h) \/ Install(h)
    \/ KeepBackup(h) \/ Promote(h)

Next ==
    \/ EditByRename \/ EditBegins \/ EditMovesAway \/ EditEnds
    \/ \E h \in Handlers :
        \/ RefreshUsers(h) \/ SaveBegins(h) \/ SaveFails(h) \/ Respond(h)
        \/ \E u \in Users : Accumulate(h, u)

Spec == Init /\ [][Next]_vars

(***************************************************************************)
(* Agents poll the panel for ever (Syncer.Run), a request is answered, a   *)
(* Go mutex does not starve a waiter, and an editor that has truncated or  *)
(* moved the file writes it.  Nothing makes an edit, a push or an I/O      *)
(* error happen.                                                           *)
(***************************************************************************)
Fairness ==
    /\ WF_vars(EditEnds)
    /\ \A h \in Handlers :
        WF_vars(RefreshUsers(h) \/ Respond(h)) /\ SF_vars(SaveBegins(h))

FairSpec == Spec /\ Fairness

-----------------------------------------------------------------------------
(* Properties.                                                             *)

(***************************************************************************)
(* No edit is passed over: while the list in memory is not the last one    *)
(* the operator wrote, users.json is newer than the modification time on   *)
(* record, so that the next request looks at it again.  The race is        *)
(* between a Stat, a read, an edit and the installs of other requests: the *)
(* time goes with a list read after it was found, and never with an older  *)
(* list.  Nothing is claimed from a read of the backup up to the next edit *)
(* that does not meet a request on its way to save that backup: such a     *)
(* save writes over the edit with a new modification time.                 *)
(***************************************************************************)
EditsAreNoticed == mem # Latest /\ ~spoiled => usersMod < stamp

\* MaxRollbacks keeps a request from the read that it would do next.
Cut == \E h \in Handlers : hpc[h] = "readBackup" /\ Usable(bak) /\ rollbacks = MaxRollbacks

(***************************************************************************)
(* An edit takes effect without a restart, also one made while a request   *)
(* is between its Stat and its read, or is installing what it read before: *)
(* the last list the operator wrote is served in the end and for good, and *)
(* also after a read of the backup once another edit has got past it.      *)
(***************************************************************************)
EditsAreServed == <>[](mem = Latest) \/ <>[]spoiled \/ <>Cut

(***************************************************************************)
(* RefreshUsers drops the counters of a user only if the operator removed  *)
(* the user by an edit made since the list in memory was read, or if       *)
(* another request installed a list between its own read and its install.  *)
(***************************************************************************)
PruneFollowsEdits ==
    [][ \A h \in Handlers \ overtaken : Install(h) /\ rollbacks = 0 =>
          \A u \in counted \ counted' : \E v \in mem + 1 .. Latest : u \notin lists[v] ]_vars
=============================================================================
