------------------------------ MODULE StateFile ------------------------------
(***************************************************************************)
(* One JSON document of the panel's data directory and the procedure that  *)
(* replaces it, AtomicWriteWithBackup of tiny-xboard/persist.go.           *)
(*                                                                         *)
(* The file system is seen twice.  `dir' is what the running kernel shows; *)
(* `journal' is the set of directory states a power loss may leave behind: *)
(* the renames made since the last SyncDir reach the disk in order, but    *)
(* any number of them may be missing.  A file's bytes are only sure to be  *)
(* on disk once the file was fsynced, so `tmp' holds what a power loss     *)
(* would show under the name path.tmp.                                     *)
(*                                                                         *)
(* The module has actions only; the components that own a document         *)
(* conjoin them with their own state.                                      *)
(***************************************************************************)
EXTENDS FiniteSets

CONSTANTS
    Absent,     \* no file under that name
    Torn        \* bytes that do not decode, or decode to an invalid document

ASSUME MarksDiffer == Absent # Torn

VARIABLES
    dir,        \* [main, bak]: the live directory entries path and path.bak
    journal,    \* the values of dir that a power loss may leave
    tmp,        \* what a power loss would show of path.tmp
    wpc,        \* where AtomicWriteWithBackup is
    data        \* its data argument (Absent between two calls)

fileVars == <<dir, journal, tmp, wpc, data>>

(***************************************************************************)
(* LoadFile followed by the validation of the document: only a document    *)
(* that decodes and validates can be used.                                 *)
(***************************************************************************)
Usable(content) == content \notin {Absent, Torn}

Directory(Doc) == [main : Doc \cup {Absent, Torn}, bak : Doc \cup {Absent, Torn}]

WriteSteps == {"idle", "written", "staged", "promote", "sync"}

FileTypeOK(Doc) ==
    /\ dir \in Directory(Doc)
    /\ journal \in SUBSET Directory(Doc)
    /\ dir \in journal
    /\ tmp \in Doc \cup {Absent, Torn}
    /\ wpc \in WriteSteps
    /\ data \in Doc \cup {Absent}
    /\ wpc # "idle" => data \in Doc

FileInit ==
    /\ dir = [main |-> Absent, bak |-> Absent]
    /\ journal = {dir}
    /\ tmp = Absent
    /\ wpc = "idle"
    /\ data = Absent

(***************************************************************************)
(* The ways out of the procedure: the deferred function closes and removes *)
(* path.tmp unless it was promoted.                                        *)
(***************************************************************************)
Return ==
    /\ wpc' = "idle"
    /\ data' = Absent
    /\ tmp' = Absent

-----------------------------------------------------------------------------
(* The steps that succeed.                                                 *)

\* Open path.tmp with O_TRUNC and write the bytes; nothing is durable yet.
BeginWrite(doc) ==
    /\ wpc = "idle"
    /\ wpc' = "written"
    /\ data' = doc
    /\ tmp' = Torn
    /\ UNCHANGED <<dir, journal>>

\* Mutant: the temporary file is not fsynced.
MutFsyncSkipped ==
    /\ wpc = "written"
    /\ wpc' = "staged"
    /\ UNCHANGED <<dir, journal, tmp, data>>

\* f.Sync and f.Close.
Fsync ==
    /\ wpc = "written"
    /\ wpc' = "staged"
    /\ tmp' = data
    /\ UNCHANGED <<dir, journal, data>>

\* Mutant: the old main file is removed, not kept as the backup.
MutKeepBackupRemoves ==
    /\ wpc = "staged"
    /\ wpc' = "promote"
    /\ dir' = [dir EXCEPT !.main = Absent]
    /\ journal' = journal \cup {dir'}
    /\ UNCHANGED <<tmp, data>>

\* A main file that exists is renamed to path.bak, over the older backup.
KeepBackup ==
    /\ wpc = "staged"
    /\ wpc' = "promote"
    /\ dir' = IF dir.main = Absent THEN dir
                                   ELSE [main |-> Absent, bak |-> dir.main]
    /\ journal' = journal \cup {dir'}
    /\ UNCHANGED <<tmp, data>>

\* path.tmp is renamed to path.
Promote ==
    /\ wpc = "promote"
    /\ wpc' = "sync"
    /\ dir' = [dir EXCEPT !.main = data]
    /\ journal' = journal \cup {[dir EXCEPT !.main = tmp]}
    /\ tmp' = Absent
    /\ UNCHANGED data

\* SyncDir succeeds: the renames are durable and the call returns nil.
WriteOK ==
    /\ wpc = "sync"
    /\ journal' = {dir}
    /\ Return
    /\ UNCHANGED dir

WriteStep == Fsync \/ KeepBackup \/ Promote

-----------------------------------------------------------------------------
(* The steps that fail: each one returns an error to the caller.           *)

\* Opening, writing, fsyncing or closing path.tmp fails.
StageFails ==
    /\ wpc = "written"
    /\ Return
    /\ UNCHANGED <<dir, journal>>

\* Renaming the main file to path.bak fails.
KeepBackupFails ==
    /\ wpc = "staged"
    /\ dir.main # Absent
    /\ Return
    /\ UNCHANGED <<dir, journal>>

\* Renaming path.tmp to path fails; path.bak is renamed back, unless that
\* rename fails too or there is no backup.
PromoteFails ==
    /\ wpc = "promote"
    /\ \/ dir' = dir
       \/ /\ dir.bak # Absent
          /\ dir' = [main |-> dir.bak, bak |-> Absent]
    /\ journal' = journal \cup {dir'}
    /\ Return

\* SyncDir fails: an error is returned although the new document is in place.
SyncFails ==
    /\ wpc = "sync"
    /\ Return
    /\ UNCHANGED <<dir, journal>>

WriteError == StageFails \/ KeepBackupFails \/ PromoteFails \/ SyncFails

-----------------------------------------------------------------------------
(* What the environment does to the file.                                  *)

\* The process dies in the middle of whatever it was doing; the kernel goes
\* on and loses nothing.  A leftover path.tmp is truncated by the next write.
ProcessDies ==
    /\ Return
    /\ UNCHANGED <<dir, journal>>

\* The machine loses power: some of the unsynced renames are undone.
PowerFails ==
    /\ \E d \in journal :
        /\ dir' = d
        /\ journal' = {d}
    /\ Return

\* A main file at rest is damaged (a bad sector, a bad edit).
Corrupt ==
    /\ wpc = "idle"
    /\ Usable(dir.main)
    /\ dir' = [dir EXCEPT !.main = Torn]
    /\ journal' = {dir'}
    /\ UNCHANGED <<tmp, wpc, data>>
=============================================================================
