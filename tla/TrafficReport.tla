---------------------------- MODULE TrafficReport ----------------------------
(***************************************************************************)
(* How the agent counts the bytes of its users and reports them: Hook      *)
(* (cmd/mini-sb-agent/main.go), TrafficCounter and ConnCounter             *)
(* (counter/counter.go), Syncer (panelapi/sync.go), Client and MultiPanel  *)
(* (panelapi/client.go, multi.go).                                         *)
(*                                                                         *)
(* A cell is one TrafficStorage, found under an inbound tag and a user     *)
(* key.  Upload and download are counted alike, as one number.  The panels *)
(* are numbered in the order MultiPanel pushes to them; `billed' is what   *)
(* they have added up for a cell, `used' what its connections carried.     *)
(***************************************************************************)
EXTENDS Integers, FiniteSets

CONSTANTS
    Tags,           \* inbound tags
    Hy2,            \* those of Hysteria2 inbounds, which name a user by the id
    Users,          \* numeric user ids
    Secrets,        \* keys that Resolve could not turn into an id
    Conns,          \* connections
    NPanels,        \* number of panels
    PanelOf,        \* the panel whose client matches a tag, 0 if none does
    Cells,          \* the pairs of a tag and a key that occur
    MaxUnits,       \* bound on units of traffic
    MaxFailures     \* bound on failed pushes

Keys == Users \cup Secrets

ASSUME ReportAssumption ==
    /\ Users \cap Secrets = {}
    /\ Hy2 \subseteq Tags
    /\ NPanels \in Nat
    /\ Cells # {} /\ Cells \subseteq Tags \X Keys
    /\ PanelOf \in [Tags -> 0..NPanels]
    /\ MaxUnits \in Nat
    /\ MaxFailures \in Nat

\* isNumericUser, of the key of a cell.
IsNumericUser(x) == x[2] \in Users

\* Client.matchesInbound, of the tag of a cell.
MatchesInbound(p, x) == PanelOf[x[1]] = p

VARIABLES
    live,       \* cells present in their TrafficCounter
    total,      \* UpCounter + DownCounter
    committed,  \* CommittedUp + CommittedDown
    cst,        \* per connection: "closed", "resolved", "attached", "orphan"
    ccell,      \* per connection: the cell it was opened for
    active,     \* ids of the last user list that ApplyBox accepted
    pc,         \* where the Syncer goroutine is
    toCheck,    \* cells RemoveAbsent still has to look at
    victim,     \* the cell it is about to delete, as a set
    delta,      \* the snapshot being pushed
    panel,      \* the panel whose turn it is
    ctxDone,    \* SIGINT or SIGTERM was received
    final,      \* the flush under way is the last one
    used, orphaned, billed,     \* per cell: carried, carried uncounted, billed
    resent,     \* per cell: billed of snapshots that are not committed, so sent again
    failures, units

connVars == <<cst, ccell>>
cellVars == <<live, total, committed>>
syncVars == <<toCheck, victim, delta, panel, final>>
tally == <<used, orphaned, billed, resent, failures, units>>
vars == <<cellVars, connVars, active, pc, syncVars, ctxDone, tally>>

None == [x \in Cells |-> 0]

\* Stands for the cell of a closed connection.
AnyCell == CHOOSE x \in Cells : TRUE

TypeOK ==
    /\ live \in SUBSET Cells
    /\ total \in [Cells -> Nat]
    /\ committed \in [Cells -> Nat]
    /\ cst \in [Conns -> {"closed", "resolved", "attached", "orphan"}]
    /\ ccell \in [Conns -> Cells]
    /\ active \in SUBSET Users
    /\ pc \in {"wait", "remove", "delete", "flush", "push", "stopped", "exited"}
    /\ toCheck \in SUBSET Cells
    /\ victim \in SUBSET Cells
    /\ delta \in [Cells -> Nat]
    /\ panel \in 1..(NPanels + 1)
    /\ ctxDone \in BOOLEAN
    /\ final \in BOOLEAN
    /\ used \in [Cells -> Nat]
    /\ orphaned \in [Cells -> Nat]
    /\ billed \in [Cells -> Nat]
    /\ resent \in [Cells -> Nat]
    /\ failures \in 0..MaxFailures
    /\ units \in 0..MaxUnits

Init ==
    /\ live = {}
    /\ total = None /\ committed = None
    /\ cst = [c \in Conns |-> "closed"]
    /\ ccell = [c \in Conns |-> AnyCell]
    /\ active = {}
    /\ pc = "wait"
    /\ toCheck = {} /\ victim = {}
    /\ delta = None
    /\ panel = 1
    /\ ctxDone = FALSE /\ final = FALSE
    /\ used = None /\ orphaned = None /\ billed = None /\ resent = None
    /\ failures = 0 /\ units = 0

-----------------------------------------------------------------------------
(* Connections.                                                            *)

\* RoutedConnection resolves the user of an authenticated connection: to the
\* id of an active user, or to the name itself when it is not known, which is
\* the secret, or the id of a user no longer active.
Resolve(c, x) ==
    /\ pc # "exited"
    /\ cst[c] = "closed"
    /\ x[2] \in active \cup Secrets \/ x[1] \in Hy2
    /\ cst' = [cst EXCEPT ![c] = "resolved"]
    /\ ccell' = [ccell EXCEPT ![c] = x]
    /\ UNCHANGED <<cellVars, active, pc, syncVars, ctxDone, tally>>

\* GetCounter finds the storage or creates it; the connection keeps it.
GetCounter(c) ==
    /\ pc # "exited"
    /\ cst[c] = "resolved"
    /\ cst' = [cst EXCEPT ![c] = "attached"]
    /\ live' = live \cup {ccell[c]}
    /\ UNCHANGED <<total, committed, ccell, active, pc, syncVars, ctxDone, tally>>

\* Read, Write and their buffer and packet forms add what they carried to the
\* storage the connection holds, whether or not it is still in the map.
Carry(c) ==
    /\ pc # "exited"
    /\ cst[c] \in {"attached", "orphan"}
    /\ units < MaxUnits
    /\ units' = units + 1
    /\ used' = [used EXCEPT ![ccell[c]] = @ + 1]
    /\ total' = IF cst[c] = "attached" THEN [total EXCEPT ![ccell[c]] = @ + 1]
                                        ELSE total
    /\ orphaned' = IF cst[c] = "orphan" \/ ccell[c] \in victim
                   THEN [orphaned EXCEPT ![ccell[c]] = @ + 1]
                   ELSE orphaned
    /\ UNCHANGED <<live, committed, connVars, active, pc, syncVars, ctxDone,
                   billed, resent, failures>>

Close(c) ==
    /\ pc # "exited"
    /\ cst[c] # "closed"
    /\ cst' = [cst EXCEPT ![c] = "closed"]
    /\ ccell' = [ccell EXCEPT ![c] = AnyCell]
    /\ UNCHANGED <<cellVars, active, pc, syncVars, ctxDone, tally>>

-----------------------------------------------------------------------------
(* Syncer.syncOnce: users first.                                           *)

\* FetchUsers and ApplyBox succeed; RemoveAbsent starts on the keys that are
\* not active ids.  A cancelled context fails the request.
ApplyUsers ==
    /\ pc = "wait"
    /\ ~ctxDone
    /\ active' \in SUBSET Users
    /\ toCheck' = {x \in Cells : x[2] \notin active'}
    /\ pc' = "remove"
    /\ UNCHANGED <<cellVars, connVars, victim, delta, panel, final, ctxDone, tally>>

\* One of them fails: the old list stays, nothing is removed.
UsersFail ==
    /\ pc = "wait"
    /\ pc' = "flush"
    /\ UNCHANGED <<cellVars, connVars, active, syncVars, ctxDone, tally>>

\* Mutant: the committed counters are not consulted.
MutCheckAbsentUncounted(x) ==
    /\ pc = "remove"
    /\ x \in toCheck
    /\ toCheck' = toCheck \ {x}
    /\ IF x \in live
       THEN pc' = "delete" /\ victim' = {x}
       ELSE UNCHANGED <<pc, victim>>
    /\ UNCHANGED <<cellVars, connVars, active, delta, panel, final, ctxDone, tally>>

\* RemoveAbsent comes to one key: it may have been stored since the walk of
\* the map began.  It compares the counters of the storage ...
CheckAbsent(x) ==
    /\ pc = "remove"
    /\ x \in toCheck
    /\ toCheck' = toCheck \ {x}
    /\ IF x \in live /\ total[x] = committed[x]
       THEN pc' = "delete" /\ victim' = {x}
       ELSE UNCHANGED <<pc, victim>>
    /\ UNCHANGED <<cellVars, connVars, active, delta, panel, final, ctxDone, tally>>

\* Mutant: the counters are reset, the committed counters are not.
MutDeleteAbsentKeepsCommitted ==
    /\ pc = "delete"
    /\ live' = live \ victim
    /\ total' = [x \in Cells |-> IF x \in victim THEN 0 ELSE total[x]]
    /\ UNCHANGED committed
    /\ cst' = [c \in Conns |->
                 IF cst[c] = "attached" /\ ccell[c] \in victim THEN "orphan" ELSE cst[c]]
    /\ victim' = {}
    /\ pc' = "remove"
    /\ UNCHANGED <<ccell, active, toCheck, delta, panel, final, ctxDone,
                   tally>>

\* ... and then deletes it from the map; connections keep the pointer, and a
\* new storage under that key starts from zero.
DeleteAbsent ==
    /\ pc = "delete"
    /\ live' = live \ victim
    /\ total' = [x \in Cells |-> IF x \in victim THEN 0 ELSE total[x]]
    /\ committed' = [x \in Cells |-> IF x \in victim THEN 0 ELSE committed[x]]
    /\ cst' = [c \in Conns |->
                 IF cst[c] = "attached" /\ ccell[c] \in victim THEN "orphan" ELSE cst[c]]
    /\ victim' = {}
    /\ pc' = "remove"
    /\ UNCHANGED <<ccell, active, toCheck, delta, panel, final, ctxDone,
                   tally>>

RemoveDone ==
    /\ pc = "remove"
    /\ toCheck = {}
    /\ pc' = "flush"
    /\ UNCHANGED <<cellVars, connVars, active, syncVars, ctxDone, tally>>

-----------------------------------------------------------------------------
(* Syncer.flush.                                                           *)

\* After the flush the goroutine waits, or returns if it was the final one.
FlushEnds ==
    /\ pc' = IF final THEN "stopped" ELSE "wait"
    /\ delta' = None
    /\ panel' = 1

\* The part of a cell that is counted and not committed.
Pending(x) == total[x] - committed[x]

\* Mutant: only active users are reported.
MutSnapshotDeltaActive ==
    /\ pc = "flush"
    /\ IF \E x \in live : x[2] \in active /\ IsNumericUser(x) /\ Pending(x) > 0
       THEN /\ delta' = [x \in Cells |-> IF x \in live /\ x[2] \in active THEN Pending(x) ELSE 0]
            /\ pc' = "push"
            /\ UNCHANGED panel
       ELSE FlushEnds
    /\ UNCHANGED <<cellVars, connVars, active, toCheck, victim, final, ctxDone, tally>>

\* SnapshotDelta; without numeric users there is nothing to push.
SnapshotDelta ==
    /\ pc = "flush"
    /\ IF \E x \in live : IsNumericUser(x) /\ Pending(x) > 0
       THEN /\ delta' = [x \in Cells |-> IF x \in live THEN Pending(x) ELSE 0]
            /\ pc' = "push"
            /\ UNCHANGED panel
       ELSE FlushEnds
    /\ UNCHANGED <<cellVars, connVars, active, toCheck, victim, final, ctxDone, tally>>

\* What the client of panel p sends.
Payload(p) == {x \in Cells : MatchesInbound(p, x) /\ IsNumericUser(x) /\ delta[x] > 0}

Bill(p) ==
    billed' = [x \in Cells |-> IF x \in Payload(p) THEN billed[x] + delta[x] ELSE billed[x]]

\* The request runs under a context that a signal has cancelled; the final
\* flush has a context of its own.
Cancelled == ctxDone /\ ~final

\* Mutant: the loop over the panels runs once more.
MutPushOKOneMore ==
    /\ pc = "push"
    /\ panel <= NPanels + 1
    /\ ~Cancelled \/ Payload(panel) = {}
    /\ Bill(panel)
    /\ panel' = panel + 1
    /\ UNCHANGED <<cellVars, connVars, active, pc, toCheck, victim, delta, final, ctxDone,
                   used, orphaned, resent, failures, units>>

\* There is nothing for this panel, or it adds the payload and answers 2xx.
PushOK ==
    /\ pc = "push"
    /\ panel <= NPanels
    /\ ~Cancelled \/ Payload(panel) = {}
    /\ Bill(panel)
    /\ panel' = panel + 1
    /\ UNCHANGED <<cellVars, connVars, active, pc, toCheck, victim, delta, final, ctxDone,
                   used, orphaned, resent, failures, units>>

PushFails ==
    /\ pc = "push"
    /\ panel <= NPanels
    /\ Payload(panel) # {}
    /\ failures < MaxFailures
    /\ failures' = failures + 1
    /\ FlushEnds
    /\ UNCHANGED <<cellVars, connVars, active, toCheck, victim, final, ctxDone,
                   used, orphaned, units>>

\* The snapshot is not committed: what the panels in P took of it they will be
\* sent again.
Resend(P) ==
    resent' = [x \in Cells |-> IF \E p \in P : x \in Payload(p) THEN resent[x] + delta[x]
                                                              ELSE resent[x]]

\* The panel never adds the payload: refused, unreachable, not 2xx.
PushRejected ==
    /\ PushFails
    /\ Resend(1..(panel - 1))
    /\ UNCHANGED billed

\* The panel adds the payload, but its answer comes too late or not at all:
\* the client's timeout, a lost connection, the cancelled context.
PushReplyLost ==
    /\ PushFails
    /\ Bill(panel)
    /\ Resend(1..panel)

\* Mutant: only active users are committed.
MutCommitActive ==
    /\ pc = "push"
    /\ panel > NPanels
    /\ committed' = [x \in Cells |->
                       IF x \in live /\ x[2] \in active THEN committed[x] + delta[x]
                                                         ELSE committed[x]]
    /\ FlushEnds
    /\ UNCHANGED <<live, total, connVars, active, toCheck, victim, final, ctxDone, tally>>

\* commitDelta and CommitSnapshot, once every panel took the snapshot.
Commit ==
    /\ pc = "push"
    /\ panel > NPanels
    /\ committed' = [x \in Cells |->
                       IF x \in live /\ IsNumericUser(x) THEN committed[x] + delta[x]
                                                         ELSE committed[x]]
    /\ FlushEnds
    /\ UNCHANGED <<live, total, connVars, active, toCheck, victim, final, ctxDone, tally>>

-----------------------------------------------------------------------------
(* Shutdown.                                                               *)

Terminate ==
    /\ ~ctxDone /\ pc # "exited"
    /\ ctxDone' = TRUE
    /\ UNCHANGED <<cellVars, connVars, active, pc, syncVars, tally>>

\* The waiting Syncer sees the cancelled context and flushes a last time.
FinalFlush ==
    /\ pc = "wait"
    /\ ctxDone
    /\ pc' = "flush"
    /\ final' = TRUE
    /\ UNCHANGED <<cellVars, connVars, active, toCheck, victim, delta, panel, ctxDone, tally>>

\* main closes the box and returns; it does not wait for the Syncer.
Exit ==
    /\ ctxDone /\ pc # "exited"
    /\ pc' = "exited"
    /\ UNCHANGED <<cellVars, connVars, active, syncVars, ctxDone, tally>>

Sync ==
    \/ ApplyUsers \/ UsersFail \/ (\E x \in Cells : CheckAbsent(x))
    \/ DeleteAbsent \/ RemoveDone
    \/ SnapshotDelta \/ PushOK \/ PushRejected \/ PushReplyLost \/ Commit
    \/ FinalFlush

Next ==
    \/ \E c \in Conns : (\E x \in Cells : Resolve(c, x)) \/ GetCounter(c) \/ Carry(c) \/ Close(c)
    \/ Sync
    \/ Terminate \/ Exit

Spec == Init /\ [][Next]_vars

\* What the Syncer goroutine does when no push fails.
SyncProceeds ==
    \/ ApplyUsers \/ UsersFail \/ (\E x \in Cells : CheckAbsent(x))
    \/ DeleteAbsent \/ RemoveDone \/ SnapshotDelta \/ PushOK \/ Commit

(***************************************************************************)
(* The ticker keeps ticking, requests end (the client's timeout is 15 s)   *)
(* and the goroutine is scheduled.  Users need not connect or send.        *)
(***************************************************************************)
FairSpec == Spec /\ WF_vars(SyncProceeds)

-----------------------------------------------------------------------------
(* Properties.                                                             *)

\* Cells whose traffic some panel is to be told of.
Billable == {x \in Cells : IsNumericUser(x) /\ PanelOf[x[1]] # 0}

(***************************************************************************)
(* Nothing that passed through a storage in the map is forgotten: it is    *)
(* billed, not counting what is billed a second time, or still pending,    *)
(* whatever pushes fail, however they fail and whichever users come and    *)
(* go.  What is lost is what connections add to a storage that             *)
(* RemoveAbsent took away from under them.                                 *)
(***************************************************************************)
NoUsageForgotten ==
    \A x \in Billable : used[x] <= billed[x] - resent[x] + Pending(x) + orphaned[x]

(***************************************************************************)
(* SnapshotDelta never sees more committed than counted: CommitSnapshot    *)
(* meets the very storage the snapshot was taken from.                     *)
(***************************************************************************)
CommittedWithinCounted == \A x \in Cells : committed[x] <= total[x]

(***************************************************************************)
(* Nothing is billed twice but what a push that failed makes unavoidable:  *)
(* a panel has billed at most what was used and, once more for each failed *)
(* push, the part of that snapshot it had taken before the failure.        *)
(***************************************************************************)
NoDoubleBilling == \A x \in Cells : billed[x] <= used[x] + resent[x]

(***************************************************************************)
(* What was carried is billed in the end, besides what is billed a second  *)
(* time, however often pushes fail and users come and go, unless the agent *)
(* is stopped.                                                             *)
(***************************************************************************)
UsageIsBilled ==
    \A x \in Billable : \A n \in 1..MaxUnits :
        used[x] >= n ~> billed[x] - resent[x] + orphaned[x] >= n \/ ctxDone
=============================================================================
