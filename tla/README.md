# A TLA+ verification of mini-sb-agent and tiny-xboard

The repository holds two programs. **mini-sb-agent** runs a sing-box instance
(VLESS Reality and Hysteria 2) on a small server, takes its user list from one
or two panels, limits the speed of users, counts their traffic and reports it.
**tiny-xboard** is a small panel: an HTTP server that keeps nodes, users and
cumulative traffic in JSON files and serves the UniProxy protocol the agent
speaks. This directory models the parts of both that keep state and run
concurrently, model-checks them with TLC and proves their main safety
properties with TLAPS. `PROJECT.json` lists components, runs, the
correspondence of definitions to source lines, findings, hazards and theorems.

## The system

| Component | State | Operations | Interacts with |
|---|---|---|---|
| Atomic file writes (`tiny-xboard/persist.go`) | `path`, `path.bak`, `path.tmp` | `AtomicWriteWithBackup`, `SyncDir`, `LoadFile`, `loadWithFallback` | called by the Store under `saveMu`; the file system may lose what was not synced |
| Store, documents (`tiny-xboard/store.go`) | `node`/`nodes`, `users`, `mu`, `saveMu` | `NewStore` and the load functions, `SaveNode`, `SaveUsers`, `SaveTraffic` | request goroutines, flusher, systemd restarts |
| Store, traffic (`store.go`, `main.go`, `api.go`) | `traffic`, `dirty` | `Accumulate`, `RefreshUsers`, `flushTrafficIfDirty`, `runTrafficFlusher`, `serve` | request goroutines, the periodic flusher and the shutdown path share the counters, the flag and the file |
| Agent accounting (`counter/counter.go`, `Hook` in `cmd/mini-sb-agent/main.go`) | a `TrafficCounter` per inbound, a `TrafficStorage` per user with counted and committed bytes | `GetCounter`, the connection wrappers, `SnapshotDelta`, `CommitSnapshot`, `RemoveAbsent` | connections add at any time, the Syncer reads, commits and deletes |
| Agent synchronisation (`panelapi/sync.go`, `client.go`, `multi.go`) | the snapshot under way | `Run`, `syncOnce`, `flush`, `FetchUsers`, `PushTraffic` | panels over HTTP, which may reject, act and not answer, or time out; SIGTERM |
| Agent users (`user_manager.go`) | `users`, `bySecret`, `limiters`; the user lists inside the inbounds | `ApplyBox`, `Resolve`, `DirectionalLimiters` | Syncer applies lists, connections are authenticated and wired meanwhile |
| Rate limiter (`counter/ratelimit.go`) | `rate`, `burst`, `tokens`, `last`, `closed` | `SetRate`, `Close`, `Wait`, `Allow`, stream and packet wrappers | shared by all connections of a user, re-rated by `ApplyBox` |
| Hot reload of users (`store.go`) | `users`, `usersMod`, `users.json` and its backup | `RefreshUsers`, `loadUsersFromDisk`, `SaveUsers` | every request runs it, without a lock around its steps; the operator edits the file meanwhile |
| Node set-up (`tiny-xboard/auth.go`, `api.go`, `reality.go`; `panelapi/node_config.go`, `xboard_config.go`, `install.sh`) | `nodeList`, `nodes.json` with its backup and `node.json` of the panel; `cert.pem`, `key.pem`, `config.json` of the agent | `loadNodesFile`, `ensureRealityKeypair`, `authenticate`, `/config`, `generate-config.sh`, `generateXboardConfig`, `ensureSelfSignedCert` | the agent asks the panel at its first start; both may be stopped at any step and are restarted by systemd |
| Local user file, diagnostics, build variants, control scripts | none of their own | | see "Not modelled" |

What is hard in this code, and what therefore the properties are about:

* stops between any two steps of a file replacement, and the start after them;
* the `dirty` flag, a lock-free hand-over between pushes, the flusher and the
  shutdown path;
* reporting with retries to panels that may have acted although the request
  failed, while connections count and users are removed;
* a user list replaced inbound by inbound, possibly failing half-way, under
  live authentication, with limiters that open connections keep;
* a file that is looked at, read and installed in separate steps by many
  requests while somebody edits it;
* files that a generator writes in place and later starts take for good;
* a token bucket that goes into debt, whose owner changes its rate or closes it
  while others sleep.

Correctness, per component: what a save acknowledged is never lost and is what
a later start serves; counters that differ from the file are always on their
way to it; every counted byte is billed, and again only where a failed push
makes that unavoidable; inbounds admit exactly the active users and connections
run at their current limits; an edit of the user list is noticed and takes
effect; an agent runs the nodes it asked for, with the panel's key, and comes up
after stops; the limit holds for all connections of a bucket together, and
nobody waits for ever.

## Modules

| Module | Models | Variables and code |
|---|---|---|
| `StateFile` | one file and `AtomicWriteWithBackup` | `dir` is the live directory, `journal` the directories a power loss may leave, `tmp` what it would show of `path.tmp`, `wpc`/`data` the call under way. Actions only; used by `DocumentStore` and `TrafficStore` |
| `DocumentStore` | one document of the Store, from start to stop and restart | `mem` is the document in memory as a generation number, `owner` is `saveMu`, `phase`/`want` the goroutines in a Save function, `acked` the newest generation whose save returned nil |
| `DurableRegister` | what a persisted document promises | an abstract specification: `cur` while `up`, `made`, `acked`, `damaged`; `DocumentStore` implements it |
| `UserStore` | `RefreshUsers` and an operator who edits `users.json` | `main`, `bak`, `stamp` are the files and the modification time, `lists` the list of every edit, `mem`, `usersMod`, `counted` the Store, `hpc`, `seen`, `got` the locals of a request; `overtaken` (requests that another one has passed between read and install) and `spoiled` (a read of the backup that no edit has got past yet) are history |
| `NodeSetup` | the panel's nodes and keys, `/config`, the generator and the start of the agent | `entries` is what the operator wrote, `disk` and `bak` are `nodes.json` and its backup, `single` is `node.json`, `nodes` and `panel` the Store; `damages` counts damage to `nodes.json`; `pc`, `fetched`, `cert`, `key`, `config` on the agent's |
| `TrafficStore` | counters, `dirty`, flusher, shutdown, start | `traffic`, `users`, `dirty` as in the Store, `hpc` per request goroutine, `fpc` per thread in `flushTrafficIfDirty`, `status` for the steps of `serve` |
| `TrafficReport` | counting and reporting in the agent | `total`, `committed`, `live` per cell (inbound tag and user key), connections in `cst`/`ccell`, the Syncer in `pc`, `delta`, `panel`; `used`, `billed`, `orphaned`, and `resent`, what was billed of snapshots that are not committed, are the ledger the properties compare |
| `UserManager` | `ApplyBox` and the life of a connection | `users`, `limiters` as in the code, `rate` of every limiter ever made, `accepts` of every inbound, `todo`/`half` for the loop over inbounds |
| `RateLimiter` | the token bucket | `rate`, `tokens`, `closed` as in the code, `age` for `last`, one record per call of `Wait`; `excess` (bytes passed beyond the rate) and `late` are history |
| `MCTrafficReport`, `MCUserManager`, `MCNodeSetup` | constants and symmetry for TLC | |
| `StateFileProofs`, `DocumentStoreProofs`, `TrafficStoreProofs`, `TrafficReportProofs`, `UserManagerProofs`, `UserStoreProofs`, `NodeSetupProofs`, `RateLimiterProofs` | theorems and proofs about the module of the same name | |

A step of a model is what the code does between two points where another
goroutine, a failure or a stop can come between: one system call of a save, one
critical section of `mu`, one atomic operation, one request.

### Abstractions

* A document is a generation number, or in `TrafficStore` the counters. `Torn`
  is content that does not decode or does not validate.
* Renames made since the last `SyncDir` reach the disk in order but any suffix
  of them may be missing; bytes are on disk once the file was fsynced. A file
  system that reorders renames within a directory would admit more.
* Each file is a `DocumentStore` of its own. That a missing `nodes.json` makes
  `NewStore` load or make `node.json` is in `NodeSetup`. `BootKeypair` is the
  load that completes the keys of a node and saves it.
* `disposable` of `DocumentStore` tells `traffic.json` from the required
  documents; it is chosen at the start and never changes.
* In `UserStore` every write of a file gets a modification time of its own. The
  steps of a save that cannot be seen by a reader (`path.tmp`, the fsyncs) are
  not separate steps, and nothing is stopped: `DocumentStore` is about stops.
* `NodeSetup` starts from a `nodes.json`. Its save is the two renames of
  `AtomicWriteWithBackup`; what the steps before them do to a file after a power
  loss is in `DocumentStore`. `node.json` occurs only as the panel makes it when
  `nodes.json` is missing: one node, with a random token that no agent has. It is
  there with one rename, since it has no predecessor. Damage at rest happens to
  `nodes.json` only. Of an entry the module keeps
  type, token, port, whether it is enabled, and the keys; a public key has the
  name of its private key. `MCNodeSetup` lists eleven entries: every type, and
  entries that are disabled, have a token of their own, have keys that are
  complete, half given, inconsistent or garbled, or an invalid port. The agent
  is installed under systemd; under OpenRC nothing starts a failed service
  again.
* `SetUsers`, `AddUser` and `DeleteUser` are called only by tests; in
  `DocumentStore` they stand for any change followed by a save, of which the
  running server makes one (`SaveUsers` in `RefreshUsers`).
* Upload and download counters are treated alike everywhere in the code and are
  one number. In `UserManager` the two directions of a limiter pair are one
  limiter for the same reason, and the node's limiter, which never changes, is
  left out.
* `RefreshUsers` is one step of `TrafficStore` (`UserStore` has its steps), and `SnapshotDelta` one step of
  `TrafficReport`: it reads each storage once, and a later read of a cell only
  finds more, which the next snapshot would find.
* What sing-box does with `AddUsers` and `DelUsers`, how it authenticates, and
  how a panel adds a payload, are modelled from how this code uses them. An
  inbound that was left with two users of one credential by a failed call
  admits either.
* `RateLimiter` counts time in ticks and rates in bytes per tick. Tokens are
  then integers, and the truncation of a sleep to a whole tick stands for the
  conversion to `time.Duration`. A goroutine may sleep longer than it asked.
  `UserManager` closes limiters instead of setting a rate of 0 and never
  reopens one, so those branches of `SetRate` are left out.
* `UserManager` and `RateLimiter` are the default build; the tag `nouserlimit`
  removes user limits.

## Runs

| Run | Module | Result | What it shows |
|---|---|---|---|
| `Document` | `DocumentStore` | pass | acknowledged saves stay readable (`AckedOnDisk`) and complete (`NeverTorn`), snapshots are written in order (`BackupIsOlder`), a start with a main file serves what was acknowledged (`BootKeepsAcked`), every save returns (`SavesReturn`); damage and stops never keep the server down if the document is disposable (`AlwaysServesAgain`), a rollback restores the main file (`RollbackCompletes`); all of it implements `DurableRegister` (`ImplementsRegister`) |
| `DocForgets` | `DocumentStore` | violation of `RestartRemembers` | a power loss between the two renames makes the next start create a default document although `path.bak` is good |
| `DocRollback` | `DocumentStore` | violation of `RollbackKeepsACopy` | the restoring save renames the damaged file over the only good copy first; after a stop there the main file is missing and the backup damaged, so the next start makes a default document |
| `Traffic` | `TrafficStore` | pass | unsaved counters are scheduled (`UnsavedIsScheduled`) and written (`PushesReachDisk`), belong to known users (`OnlyKnownUsers`); a shutdown ends (`ShutdownEnds`) and saves unless it meets the flusher (`QuietShutdownSaves`) |
| `TrafficShutdown` | `TrafficStore` | violation of `GracefulExitSaves` | main exits while the flusher holds a claimed, unwritten flush |
| `Report` | `MCTrafficReport` | pass | nothing counted is forgotten (`NoUsageForgotten`) or over-committed (`CommittedWithinCounted`); what is billed exceeds what was used by no more than the part of a snapshot that a panel took before the push failed, once for each failed push (`NoDoubleBilling`); all of it is billed in the end (`UsageIsBilled`) |
| `UserSync` | `MCUserManager` | pass | the deltas of `ApplyBox` add up (`AcceptsActiveOnly`), a reload interrupts nobody who stays (`NeverInterrupted`), held and new limiters follow the list, also after a failed call (`HeldLimitersFollow`, `LimitsInForce`) |
| `UserLimits` | `MCUserManager` | violation of `LimitsReachConnections` | a limit given later does not reach a connection that is open |
| `UserReload` | `UserStore` | pass | while memory has not the last list, the file is newer than the time on record, so no edit is passed over (`EditsAreNoticed`), and the list last written is served in the end (`EditsAreServed`); counters are dropped only for users an edit removed (`PruneFollowsEdits`). The first two claim nothing from a read of the backup up to the next edit that meets no request on its way to save it; the last claims nothing after a read of the backup, nor of a request that another overtook between its read and its install |
| `NodeSetup` | `MCNodeSetup` | pass | a running agent has exactly the inbounds of its mode, from nodes it may use (`RunsWhatWasAsked`), with the key that the panel keeps, for an operator's key also over damage and recovery (`KeysAgree`); it comes up (`AgentComesUp`) unless it is left with files of its own that no start replaces, which only an interrupted or failed write does (`OnlyInterruptionsWedge`), or the panel with a `nodes.json` that a stop between the renames made disappear, or that is damaged without a backup |
| `KeyChanges` | `MCNodeSetup` | violation of `KeyIsReused` | a damaged `nodes.json` is recovered from a backup that is from before the panel made the key, so it makes another |
| `RateLimit` | `RateLimiter` | pass | over every interval the bytes that pass stay within the rate, a burst, and one operation of every connection once and for each call of `SetRate` (`RateHolds`), debts are those of sleeping connections (`DebtHasOwners`), `Close` stops connections (`CloseStops`), every `Wait` returns (`WaitReturns`) |

Each passing run also checks its module's type invariant. The systems may stop
for good (bounds are used up, a server refuses to start), so deadlock is not
checked. The operators named `Mut...` are faulty variants of single
definitions; each property is violated when one of them is substituted, which
shows that the property depends on the code it is about.

### Bounds

* `Document`, `DocForgets`, `DocRollback`: two savers, the smallest number with
  an order to get wrong; four generations, so that main file, backup, snapshot
  and memory can all differ; two stops, so that the start after a stop can be
  stopped too; one I/O error and one damaged file, before, between and after
  them. The proofs cover the general case.
* `UserReload`: two requests, so that one can overtake the other; one user who
  is added and removed by two edits after the list that was loaded, enough for
  a request to be two lists behind; one fall-back to the backup, which the
  second edit can follow, and one failing save. Two requests can take each
  other's half-done saves for a damaged file and fall back for ever; where the
  bound keeps a request from that (`Cut`), `EditsAreServed` claims nothing.
* `NodeSetup`, `KeyChanges`: two node ids, so that a request can meet the wrong
  one; two stops of the panel, so that the start after a stop in a save can be
  stopped in its own save; one damage, before, between or after them; one stop
  of the agent and one failing operation, so that a repeated start can fail with
  the files the first has left.
* `Traffic`: two handlers and two flushing threads race; two pushes, so that one
  can arrive during the write of another; one edit that removes a user, two
  starts, one crash and one I/O error. Removing a user matters one user at a
  time, so one user is enough.
* `Report`: two inbounds, two panels, one user and one unresolved credential,
  one connection, two units of traffic and one failed push: a unit before and
  one after a snapshot, or one on each inbound, so that the second panel can
  fail after the first has taken its part. The proofs cover the general case.
* `UserSync`: two users exchange two credentials and change among three speeds
  over three lists, the last of which is applied after a failure.
* `RateLimit` has no bound on time or on the number of operations: all times
  are relative and the state space is finite. The two rates have different
  bursts and sizes are at, and beyond, a burst.

### Fairness

`DocumentStore`: system calls return, systemd restarts the service
(`Restart=always`), and a Go mutex does not starve a waiter, hence strong
fairness of taking `saveMu`. `TrafficStore`: runnable goroutines run, the
ticker ticks, and handlers end, by the server's read and write timeouts.
`UserStore`: agents poll for ever, so requests keep coming; an editor that has
truncated or moved the file writes it. `NodeSetup`: systemd starts both
services whenever they are down; their `RestartSec` of 2 and 3 seconds keeps
them below its default start limit.
`TrafficReport`: the Syncer's ticker ticks and requests end, by the client's
timeout; failures are finitely many. `RateLimiter`: time passes and goroutines
whose sleep is over are scheduled. No fairness makes a client, an operator, a
signal, an error or a stop happen. `UserManager` has no liveness property.

## Proofs

All theorems are about `Spec` for every value of the constants under the named
assumptions of the modules: marks such as `Torn` or `Nobody` are distinct from
what they mark the absence of, bounds are natural numbers, the entries of a
`nodes.json` are entries (`Shapes`), and the connections, rates and sizes of a
limiter are finitely many and positive. Each module's proof has one inductive
invariant, a lemma per action that it is preserved, and the theorems as its
consequences. Every invariant and every action property that a passing run
checks is also stated by a theorem.

* `DocumentStoreProofs`: `TypeCorrect`, `AckedIsDurable`, `StopsNeverTear`,
  `NeverReordered`, `StartKeepsAcked`, `Refinement`. `AckedOnDisk` is not
  inductive: it says nothing of where the acknowledged copy is, so a save could
  overwrite it. `DurableInv` has a part that holds whatever happens: who is
  writing (`LockInv`), and that nothing in memory, in a save or in a file is
  beyond the newest generation (`MadeInv`). Its other part, `SafeInv`, holds
  until a file is damaged at rest: what the main file holds at each step
  (`StepInv`), that memory (`FreshInv`) and the snapshot (`SnapshotInv`) are as
  new as anything on disk or acknowledged, and that *every* directory a power
  loss may leave is safe (`JournalInv`): its main file is new enough, or is
  missing and the backup is new enough. `StateFileProofs` has the lemmas on
  single file steps.
* `Refinement` maps the served document to the register: `cur` is `mem` while
  `status = "up"`. Only the moments at which the store begins to serve need
  `SafeInv` (`RegisterRecovers`); an acknowledgement needs that memory holds the
  change being saved, also after damage (`MadeInv`). `DurableRegister` allows a
  start to make a new default document, because the code does that when the
  main file is missing (finding `DocForgets`); what it rules out is an older
  document served after a newer one was acknowledged, a change that appears
  from nowhere, and an acknowledgement of something that is not served.
* `TrafficStoreProofs`: `TypeCorrect`, `CountersOfKnownUsers`,
  `UnsavedAlwaysScheduled`, `QuietShutdownLosesNothing`. The invariant `ScheduledInv` splits the claim at the
  write: while a thread writes, counters that the snapshot lacks are scheduled
  (`SnapshotInv`); while none does, those that the file lacks are (`QuietInv`).
  The end of a write turns the first into the second, because the promoted file
  is the snapshot (`LockInv`). The last theorem also needs that nobody counts
  after the drain: once `Shutdown` has returned nil every handler is idle
  (`DrainInv`), so a clear flag and an idle flusher leave only the file.
* `TrafficReportProofs`: `TypeCorrect`, `UsageNeverForgotten`,
  `NeverOverCommitted`, `BilledOnce`. `LedgerInv` balances per cell what was used
  against what is billed, pending and sent but not yet committed, and says that
  a snapshot is only of storages still in the map and never more than what is
  pending; both hold because a single goroutine snapshots, commits and deletes.
  What panels have taken of a snapshot whose push fails moves from "sent" to
  `resent`.
* `UserManagerProofs`: `TypeCorrect`, `AdmitsActiveOnly`,
  `ReloadInterruptsNobody`, `HeldLimitersAreReached`, `LimitsAreInForce`.
  `AcceptsActiveOnly` speaks of the states between two calls; `AcceptInv` says
  what an inbound admits at every step of one: the old list before its turn,
  the users who stay between `DelUsers` and `AddUsers`, the new list after it.
  That the two deltas turn one list into the other, whichever credentials move
  between users, is the lemma `DeltasAddUp`. For the limiters, `LimiterInv`
  says that a limiter runs exactly as long as it is in the map, `ForceInv` that
  the limiters are those of the *next* list during a call (`ApplyBox` changes
  them first), and `HeldInv` that a running limiter which a connection holds
  belongs to a user of both lists, so that the next `SetRate` or `Close` finds it.
* `UserStoreProofs`: `TypeCorrect`, `EditsNeverMissed`, `PruningFollowsEdits`.
  `OperatorInv`: while nothing is spoiled no request saves, so the file is the
  operator's last list or an edit in progress. `EditsAreNoticed` alone is not
  inductive, since a request may install a time it found long ago: `StampInv`
  says that no time on record or in the locals of a request is later than the
  file's, and that one which equals it comes with the last list. An edit that
  meets no request rolling back makes both true again, whatever was spoiled.
  `ReadInv`: a list that was read is not older than the one in memory unless its
  reader was overtaken, which is why the action property must leave those out.
* `NodeSetupProofs`: `TypeCorrect`, `RunsAsAsked`, `KeysStayInStep`,
  `WedgedByInterruptionsOnly`. `PanelInv` says that both copies of `nodes.json`,
  and what a panel serves from them, are the operator's entries with keys added
  (`Derived`), and that a panel which made a `node.json` instead serves no agent
  (`Random`). The lemma `EnsureKeeps`, that completing changes no key that is
  there, gives the operator's keys over every stop, damage and recovery. For the
  keys that the panel makes it is not enough, because the backup lacks them:
  `Settled` says that once a panel answers from a `nodes.json`, the file is
  complete, so that no later start saves, and only damage can change it. An
  answer (`Answers`) stays right while that holds.
  `FetchInv` and `ConfigInv` carry this from a response to `config.json`.
  `PairInv` says which of the agent's files may be unfinished at which step.
* `RateLimiterProofs`: `TypeCorrect`, `LimitHolds`, `DebtsHaveOwners`,
  `ClosedStops`. `RateHolds` follows from a potential: the bytes that passed
  beyond the rate, those of calls under way that nothing will pay for any more
  (`Taken`) and what the bucket holds together never exceed one burst and one
  operation of every connection
  (`ExcessInv`); a reservation moves tokens into a call, the end of a call moves
  its bytes into excess, and time adds to the bucket what it takes off the
  excess. `SetRate` raises the potential, by the debt it forgives and by what a
  smaller burst leaves uncharged, but by no more than one allowance. To conclude,
  the bucket's debt must be bounded by the reservations. That alone is not
  inductive, because the debt has to remain owned when a sleeper passes: `DebtInv`
  says for *every* number of ticks t that the debt left in t ticks is reserved
  by connections that still sleep then, up to less than one tick. `SleepInv`
  follows from it for a new sleeper, since a connection reserves no more than its
  operation (`ConnInv`). `LateInv` gives what a connection may have ended after
  `Close` by where it stands. The sums over connections are reasoned about by
  lemmas on finite sums that are proved by induction on the subsets of the
  connections, as the absence of a smallest exception.
  The attempt to prove an earlier form of `DebtHasOwners`, which bounded a sleep
  by the time of one operation of every connection exactly, failed for a
  reason: with one rate of 3, sizes of 2 and two connections a sleep can be up
  to a tick longer, which the instance of the run does not show. The property
  now says less than a tick longer.

Model-checked only, because the prover has neither fairness nor `ENABLED`, are
the liveness properties: `SavesReturn`, `AlwaysServesAgain`, `RollbackCompletes`,
`PushesReachDisk`, `ShutdownEnds`, `UsageIsBilled`, `EditsAreServed`,
`AgentComesUp` and `WaitReturns`. The five runs that end in a violation are
counterexamples and need no proof.

## Findings

Five places where the code does something else than its documents say, each
with a run that ends in a counterexample; `PROJECT.json` quotes the lines:
a start forgets a document whose only copy is the backup (`DocForgets`), a
rollback destroys the good copy first (`DocRollback`), a graceful exit can lose
the traffic being flushed (`TrafficShutdown`), a new limit does not reach open
connections (`UserLimits`), and the recovery of a damaged `nodes.json` replaces
the Reality key (`KeyChanges`).

Three more behaviours are worth knowing. A push that fails after a panel took
its part is billed again; no document excludes it, and `NoDoubleBilling` bounds
it. A request that meets a half-written `users.json` saves the backup over the
operator's edit; the properties of `UserReload` say from when on edits count
again. Two overlapping requests can drop counters of a user whom no edit removed
(the exception in `PruneFollowsEdits`).

## Not modelled

* The local user file (`panelapi/local.go`) is read once per synchronisation and
  keeps no state; its list is an input of `UserManager`.
* Runtime diagnostics write a CSV file; build variants are constants and
  registrations. Flags and the Hysteria 2 tuning of the agent only pass values
  on. The `/stats` handler reads counters and changes none: `Snapshot` ignores
  its `reset` argument and `SnapshotDelta` does not commit.
* Request formats, body limits and `pushBodySem` of the API change no state of
  the Store; the last is listed as a hazard. `ProbeNodeConfig` is called by
  tests only.
* Key generation and certificates are cryptography; only whether two halves
  belong together matters here.
* Of the shell scripts only `generate-config.sh` and the restart policy of the
  units are modelled.

## Plan

Done, in order of importance: `StateFile` and `DocumentStore`, `TrafficStore`,
`TrafficReport`, `UserManager`, `RateLimiter`, `DurableRegister` with the
refinement, `UserStore` and `NodeSetup`, each with its proofs.

Left, in this order:

1. A composition of agent and panel (`TrafficReport` with `TrafficStore` as the
   panel), to follow a unit of traffic from a connection to `traffic.json`.
2. Whether one call of `SetRate` can really gain a whole allowance, which
   `RateHolds` grants it: a tighter bound would separate forgiven debts from
   uncharged bytes.
3. Pruned counters that return after a restart, because `NewStore` prunes
   without marking.
