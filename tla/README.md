# GhostInit: a TLA+ verification of its command line

GhostInit is a TypeScript command-line program that scaffolds monorepos and
keeps them up to date: `create` and `init` write a project, `sync` and `upgrade`
reconcile it with its configuration and with the version of the CLI, `add` adds
artifacts, `security` repairs its dependencies, and `status`, `doctor`, `check`
and `capabilities` report. Every command that changes a project runs beside an
editor, a formatter, a package manager and other invocations of itself, and may
be killed at any moment. The applications it generates come with a back end of
their own, of which two parts run concurrently and survive crashes: object storage
and background jobs. This directory models the parts that have to survive that.

Paths below are relative to the repository root; the program itself is under
`src/src/`.

## The parts of the system

| part | state | operations | interacts with |
|---|---|---|---|
| project lock, `lib/lock.ts` | `.ghostinit.lock`, the transition claim `.ghostinit.lock.takeover`, transition directories with a quarantined owner, two heartbeats | `acquireLock`, `release`, recovery of an abandoned claim | every mutating command; other invocations through the file system |
| admission barrier, `lib/lock-admission.ts` | none: it reads the security journal | `assertProjectMutationAdmitted` | called three times by `acquireLock` |
| file-system transaction, `lib/fs.ts` | pending writes and deletions, dependencies, operations, containers | stage, `commit`, `rollback` | all commands that write; editors through the file system |
| reconciliation, `lib/reconcile.ts` | none of its own | `buildReconcilePlan`, `stageReconcilePlan`, `applyReconcilePlan` | transaction, state, configuration, generation |
| state, `lib/state.ts` | `.ghostinit/state.json`: records, configuration hash, generation plan, pending operation | `loadState`, `saveStateV2` | reconciliation, `add`, validation |
| `sync`, `upgrade` | none | decide whether to reconcile | lock, reconciliation |
| dependency-security installation, `lib/dependency-security/` | installation journal, lease, phase of the creation controller | plan, publish, install, verify, audit, clear or retain the journal | lock and its barrier, transaction, supervisor |
| process supervisor, `lib/process-supervisor.ts` | one child process tree, timers | `runSupervisedCommand` | every command that starts another program |
| create, `commands/create/` | temporary directory, native installation phase | generate, install, publish by rename, roll back | lock, supervisor, installation |
| environment lease, `lib/environment-lifecycle.ts` | an exclusive lock file | acquire, release | reconciliation, security |
| object storage of a generated application, `templates/adapters/storage/`, `templates/adapters/messaging/` | rows of objects and attachments, tombstones, blobs, owner locks | reserve, upload, finalize, cancel, delete, clean up | jobs worker (cleanup runs beside it), PostgreSQL, blob store |
| jobs of a generated application, `templates/adapters/jobs/`, `templates/services/jobs/` | job runs with leases, schedules | enqueue, cancel, claim, heartbeat, settle, recover; tick | handlers of the application, PostgreSQL |
| `add`, `lib/addons.ts` | artifact entries of the state | add an artifact | lock, transaction, state |
| resolution, `domain/` | none | capabilities, configuration, versions | every command that renders |
| architecture check, `lib/architecture/` | none | collect, resolve, check rules | `check`, `doctor` |
| generation, `generation/`, `templates/` | none | configuration to files | create, reconciliation |
| front end, reports | none | arguments, prompts, output | |

What is hard, and where:

* *Lock.* No operating-system lock is used. Ownership is a file with a token and
  an age; it changes hands by `rename` and `link`, and the inode that was checked
  may be at another place when it is used. Correct means: two commands that both
  renew their lease never own a project; an owner's file is not taken from it; a
  release leaves nothing behind; an attempt ends even if others died half-way.
* *Transaction.* Between any two calls another program may replace, remove or
  write a file, and any call may fail. Correct means: bytes of others are never
  lost, and commit and rollback are all or nothing.
* *Reconciliation.* Files and state are saved by separate transactions with a
  kill possible between them. Correct means: the state tells the truth about the
  files, a command never replaces bytes the user wrote, and an interrupted
  operation is known to be one.
* *Installation, supervisor, create.* A child process tree that cannot be proved
  gone may go on writing; nothing may be rolled back, released or admitted until
  it is. Exit, signal, timeout and failing cleanup race to decide one call.
* *Object storage.* Rows change in transactions and blobs outside of any; the
  quota is a sum over three tables, not all of whose writers take its lock.
  Correct means: the quota is never exceeded, what users see has its blob, and
  what nobody refers to is deleted in the end.
* *Jobs.* A worker that was taken for dead may only be slow. Correct means: a
  cancellation that was accepted wins, one result is committed, no due instant is
  skipped, and the work ends.

PROJECT.json lists the hazards one by one, at their lines, with the properties
that cover them.

## The modules

    ProjectLease  <-- implemented by -- ProjectLock <-- MCProjectLock (TLC)
                                        ProjectLock <-- ProjectLockProofs <-- ProjectLockRefinement
    FsTransaction (TLC) <-- FsTransactionProofs
    ReconcileApply <-- MCReconcileApply (TLC)
    ReconcileApply <-- ReconcileProofs
    SecurityInstallation <-- MCSecurityInstallation (TLC)
    SecurityInstallation <-- SecurityInstallationProofs
    ProcessSupervisor <-- CreateProject <-- MCCreateProject (TLC)
                          CreateProject <-- CreateProjectProofs
    ObjectStorage <-- MCObjectStorage (TLC)
    ObjectStorage <-- ObjectStorageProofs
    JobQueue <-- JobScheduler <-- MCJobScheduler (TLC)
                 JobScheduler <-- JobQueueProofs

An arrow is an EXTENDS, but for the refinement. ProcessSupervisor and JobQueue have
no specification of their own: CreateProject composes the supervisor with the
command that calls it, JobScheduler the queue and its workers with the schedulers.

### ProjectLock

`Proc` are invocations of the CLI. `pc[p]` is where `acquireLock` or `release`
is; a step is one call on the file system (`link`, `rename`, `unlink`, an open
with its `utimes`), so any two calls of two invocations interleave. The three
variables `lockFile`, `claimFile` and `quarantine` are the three kinds of files;
a file is named by the token in it, because `link` and `rename` keep the inode.

| code | definitions |
|---|---|
| `acquireClaim`, `recoverAbandonedClaim`, `publishExclusive` | `Observe`, `Seize`, `Inspect`, `Putback`, `Salvage`, `SalvageFile`, `Relink`, `DropSalvaged`, `PublishClaim`, `ClaimTimeout` |
| `acquireLock` under the claim | `Admit`, `Read`, `AssertClaim`, `Capture`, `Judge`, `Publish`, `Undo`, `RestoreLink`, `DropQuarantine` |
| `guard.release`, `removeOwnedClaim` | `DropClaim`, `DropRestore` |
| `releaseOwned` | `BeginRelease`, `RelRead`, `RelAssert`, `RelRecheck`, `RelMove`, `RelVerify`, `RelRevive`, `Quit` |
| `startHeartbeat` | `BeatOpen`, `BeatTouch` (owner), `BeatClaim` (claim) |
| ages compared with the time to live | `LapseLock`, `LapseClaim` |
| `retainUnverifiedCleanup` | `MarkUnverified` |
| the operating system | `Crash`, `Suspend`, `Resume` |

Time is only what the code makes of it, stale or not. `LapseLock` lets a file go
stale when nobody beats it: `validateDurations` makes a heartbeat at most a third
of the time to live, so a running process keeps its file fresh. Two assumptions
follow from this reading and are stated at the actions: a process that is not
suspended executes the few calls after the drain of its heartbeat, in a release,
within the time to live; and a claim of a running process does not lapse.

`FailPoints` are the labels at which a call may fail, of those whose failure the code
survives: the unlinks of a quarantine, which are only logged (`RelVerify`) or ignored
(`DropQuarantine`, `DropSalvaged`), the links that put a lock or a claim back, and the
renames of a claim. A failed unlink leaves the file of an invocation that is over in its
quarantine, where a recovery would find it.

`forfeited` and `stolen` are history variables. An owner forfeits its lease when
its file lapses or when `--force` takes it. `stolen` records that a recovery
renamed away the claim of a process that was in a transition: the only way, as
the proofs show, in which the lock loses its guarantees, and one that `PL_theft`
shows to be possible.

### ProjectLease

The abstract lease: a set of owners of which at most one has not forfeited, until it
is `broken`. `Break` is the one way to that: a recovery takes the claim of a transition
that goes on. The mapping is at the end of ProjectLock: an owner is an invocation
whose status is owning or drained and whose process lives, and the lease is broken once
`stolen` is.

### FsTransaction

One `FsTransaction` object with the paths `1 .. NPaths` in the order of its plan.
A file is its bytes. `target[p]` is the file at the path, `away["apply"][p]` and
`away["undo"][p]` the displaced file in the private container of a commit or of
a rollback. A commit takes each path through `Ready` (`assertStagedWriteReady`,
`assertDeleteUnchanged`), `Capture` and `Compare` (`quarantineExpectedFile`),
`Putback`, `Install` and `Tidy`, then `Verify`; a failure goes to `Undo` and the
actions after it (`rollbackOperations`) and ends in `Cleanup`. `Io(e)` lets any
of these calls fail. Other programs replace or remove a file (`Replace`), or open
it and write later, into the inode wherever it has been moved (`OpenInPlace`,
`WriteInPlace`); `saved` remembers what they wrote and did not remove themselves.

### ReconcileApply

`sync` and `upgrade` at the level of files: `Begin` classifies every path
(`Wanted`, `Obsolete`), `Stage` compares again, `SavePending`, the publication of
one path after the other, `SaveFinal`, and on failure the undo in the opposite order
and `SaveFailed`. The three saves of the state are separate steps. A path is
published, and undone, by the calls that FsTransaction makes: `Publish` or `Undo`
compares the file, `Take` renames whatever is there by then into a container (`held`),
`Judge` compares what was taken, `Link` puts the successor where there is no file, and
`PutBack` returns the taken file, or leaves it in the container that the error names
(`kept`, and the path counts as `touched`). Each of these may fail. The user edits any
file between any two of them (`Edit`), changes the configuration (`Configure`) or
installs another CLI (`InstallCli`); `Crash` kills the command anywhere, and what is
displaced at that moment stays in its container (`present` says whether state.json is
at its path). One command runs at a time, which is what ProjectLock establishes.

The constant `Target` is the generator: what a goal, a configuration and a CLI
version, renders at each path; `Life` is the lifecycle of each file.

### SecurityInstallation

One mutating `runDependencySecurity` per element of `Run`. `pc[r]` follows
`runDependencySecurityWithDependencies` and `execute`: `Acquire`, `Snapshot`
(with `parseSecurityInstallationJournal`), `Resolve` (all commands in the private
candidate), the publication, `Verify` (`verifyFinalSources`, three times),
`LockAudit`, `StartInstall`, `EndInstall`, `Audit`, and the removal of the
journal. A command in the project fails (`CommandFails`) with its children proven
gone, and a FAILED journal is written and the lease released, or without a
receipt, and the marker is written and the lease kept.

The four functions that change the journal are four transactions with the same
steps: what they expect and intend (`Expected`, `Intended`), `TxBegin`, per path
`Ready`, `Take`, `Link`, then `TxCheck`, or `TxUndo`. `known` is what a run
compares the project with: the snapshot, later `published.guards` with the
journal it recovers from. All sources that are published and guarded together are
one file, bun.lock; a lockfile is a model value, and a journal is the identity of
its operation, its status and `afterLockSha256`. Any step may fail (`Io`), the
process may be killed (`Kill`) and leave children that go on writing (`stray`),
the user edits bun.lock or reconciles the journal. The lease is that of
ProjectLock as its callers see it: free, stale once its owner's process ended, or
taken by force. `events` records what a command does not answer for; each property
names the events it excepts.

### ProcessSupervisor

One `runSupervisedCommand` at a time for each command line of `Cli`. `call[p]`
is where it is: waiting for the guard, assigning a Windows Job Object, running,
cleaning up, settled. A step is one callback of the event loop: `GuardReady`,
`JobResolves`, `Complete` (the guard's message), `Timeout`, `Signal`, `Close`;
the first that calls `failAfterVerifiedCleanup` or its counterpart fixes the
`verdict` (`Finalize`), and `Cleanup` is the awaited verification of the process
tree. Below it live the guard, the command and a process the command may leave
behind (`writers`); the guard may die, and then nobody says how the command
ended. How a tree is enumerated is not modelled; `Observable` says when the code
has something to enumerate it from, and an observation may still fail.

### CreateProject

`runProjectInstall` and `installTempProject` of two command lines with one
target. `pc[p]` follows the code: `Look` (`privateCandidateRoot`), `Lock`,
`Generate`, the external commands in `Commands` (each a call of the supervisor,
with `PublishSources` and the native installation between them; two batches of files to
format stand for any number, and `Following` says what comes next), `Merge`,
`Materialize`, `SaveState`, `CompleteNative`, `CheckTarget` and `Rename`, and the
catch block `Fail`, `Rollback`, `GiveUp`, `Clear`. `kind[p]` is the way it builds:
`publish` (a private candidate renamed onto an absent target), `inplace` (an
empty root, whose installation is announced by the security journal) or `merge` (a
private candidate whose files are committed to a root that has some). `Retain` is
the exit with an unverified cleanup: everything stays. `author` is the command line
that wrote the journal. A transaction is one step
here, since FsTransaction has its steps, and the lock is the one ProjectLock
establishes.

### ObjectStorage

An element of `Upload` stands for the request, its row and its storage key.
`ReserveLock`, `ReserveReadOther` and `Reserve` are the statements of
`reserveOwnedObject` (`reserveMessageAttachment`), `Put` is `putFile`, then
`Bind`, `Finalize`, and on failure `CancelObject` and `Drop`, or `CancelLock` and
`CancelAttachment`. Workers run `Stage`, `StageOwner`, `Release`, `Claim`,
`Delete`, `Ack`, `Nack`. The transactions that take two locks or read several
tables are one step per statement; a transaction that the database sees as one
atomic change is one step. `BreakDeadlock` is PostgreSQL aborting one of two
transactions that wait for each other. Any call may fail before or after its
effect, and processes die.

### JobQueue and JobScheduler

A run is a row of `job_runs`; the pair of run and attempt stands for the lease
token. `wpc[h]` is where the worker of a host is: `List` and `Recover` (expired
leases), `Claim`, `Beat` (the heartbeat timer), `HandlerEnds`, `FinalBeat`,
`Complete`, `Acknowledge`, `FailRead` and `FailSettle` (the two statements of
`service.fail`), `WorkerEnds`. `ripe` are the leases that some host may see as
expired; the code compares with the clock of the host that asks, so the worker of
a ripe lease may find it valid or lost. JobScheduler adds `Tick`, `ReadSchedule`,
`ReadDefinition`, `EnqueueDue` and `Advance` of each scheduler, edits of a schedule by
its owner, and the supervisor, which ends a host when one of its processes ends.
`role[h]` is what a host is set up to run: both (`jobs:start`), one of them, or nothing.
`condition[s]` is what the checks of `materializeSchedule` make of a schedule: sound,
off or gone, its definition paused (until the next start, whose `ensureDefinitions`
enables it) or retired, its attempts unfit, or stuck without a later instant. Every
check that fails throws out of the tick and ends the host (`Throws`).

## The runs

| run | question | bounds |
|---|---|---|
| PL_faults | with kills and suspensions between any two calls, does everything hold that does not depend on a stolen claim, and is the abstract lease implemented? | 3 invocations, one with `--force`; 2 claims each (an acquisition and a release), 1 suspension; states after a theft are not explored further (`NoTheft`) |
| PL_live | is a release that returned final although calls failed, and does every attempt end? | 2 invocations, 1 suspension; kills at the points that leave files behind, suspensions where a call acts on what an earlier one read, failing unlinks, restoring links and claim renames |
| PL_theft | is ownership exclusive without reserve? No | 4 invocations, of which 3 live at the same time: the dead owner, two recoverers, and the third that slips in |
| FT_race | are bytes kept, failures reported, commit and rollback all or nothing? | 2 writes, 1 deletion, a dependency on a written path, 2 edits, 2 I/O errors |
| FT_rollback | does a rollback that returns mean that all is restored? No | 1 path, 2 I/O errors |
| RA_edits | does the state tell the truth, are user bytes kept? | 5 files (one every goal renders, one added and one dropped by the second configuration, a seed, an added artifact), 2 configurations, 2 CLI versions, 2 edits, 2 failing calls or kills, any number of commands |
| RA_pending | can a pending operation be resumed? Not after a created file was published | the same with 1 failure or kill and no edit |
| SI_retry | do markers stand, are incomplete installations recorded and retriable, and does success mean installed? | 2 installations, both may use `--force`; 2 lockfiles, 2 edits, 1 I/O error, any number of kills |
| OS | does the quota hold, has every visible row its blob, is no blob lost, do tombstones drain and rooms return? | an object and an attachment that together exceed the bytes of the quota, 2 workers, 2 faults |
| JQ | do cancellations win, is one result committed, is no instant skipped, does the work end? | a requested run with 2 attempts and two scheduled ones with 1, in four deployments (below), 1 fault (a failed statement, a lost answer, a kill or a shutdown) |
| CP_races | are signals heeded, is nothing undone beside live writers, does a failure leave nothing or announce itself, does every run end? | 2 command lines with one target, POSIX and Windows; 2 faults of one (signals, failing commands and calls, survivors, deaths), none of the other |
| SI_open | does a retained lease keep others out? Not when the marker could not be written | 2 installations, 1 I/O error |

What the definitions checked by these runs say:

| run | property | meaning |
|---|---|---|
| PL_faults | `LockInv` | the inductive invariant of the proofs, checked first by TLC |
| | `MutualExclusion`, `OwnerInPlace` | two invocations that renew their lease never own together; the file of such an owner is at its path |
| | `BarrierHolds` | nobody acquires beside a journal that demands reconciliation |
| | `LeaseSpec` | the protocol implements ProjectLease |
| PL_live | `ReleasedIsGone` | a release that returned and removed its claim is final: its file is not the lock, and if its unlink failed no recovery can put it back from its quarantine |
| | `AttemptEnds` | every `acquireLock` succeeds or gives up |
| PL_theft | `ExclusiveOwnership` | as `MutualExclusion`, without reserve: violated |
| FT_race | `BytesSurvive` | what other programs wrote, and what the project had, is at its path or in a container until its writer removes it or the plan replaces it |
| | `RecoveryReported`, `AllOrNothing`, `RollbackComplete` | what stays displaced is named in the error; where nobody interfered a commit does all or nothing; a rollback that returns restored all, unless the commit before it named a container |
| FT_rollback | `RollbackHonest` | the last, for every rollback: violated |
| RA_edits | `ApplyInv` | the inductive invariant of the proofs |
| | `StateMatchesDisk`, `PlanAttested` | state.json and its generation plan agree with the files |
| | `InterruptionRecorded`, `UserBytesKept` | unrecorded work is announced by `pendingOperation`; bytes only a user can have written are at their path or in a container, also when they arrive between the last comparison and the rename |
| RA_pending | `PendingRecoverable` | a pending operation can be resumed: violated |
| SI_retry | `BarrierStands`, `MarkerKept` | while children of a command may still write, its lease is held, but for faults, edits, `--force` and kills; no run destroys a marker |
| | `IncompleteRecorded`, `Retryable`, `ClearedMeansInstalled` | modules that are not those of the lockfile are announced by a journal; a journal that is left can be retried or is a marker; a run that reports success has installed the lockfile of its plan |
| SI_open | `NeverOpened` | no command enters beside children that survived: violated |
| OS | `QuotaKept`, `ReadyHasBlob`, `Accounted` | rows and tombstones together stay in the quota; a visible row has its blob; when a request is over its blob has a row or a tombstone (with the exceptions under the findings) |
| | `Drained`, `RoomReturned` | tombstones are worked off; abandoned reservations give their bytes back |
| JQ | `CancellationWins`, `OneResult`, `AttemptLeft` | an accepted cancellation is how the run ends; one execution commits; a queued run may still be executed |
| | `NoneSkipped`, `FinalStays`, `AllWorkEnds` | a schedule advances past enqueued instants only; an ended run stays as it is; every queued run ends, unless every host that works also schedules and a schedule ends it at each tick, and every due, enabled schedule is materialized and advanced, but for those at or behind the first that throws (`Blocked`, `Overrun`) |
| CP_races | `SignalHeeded`, `NothingUndone` | a create that was signalled while a command ran does not succeed; nothing is discarded, published or rolled back while a process below may write to it |
| | `FailureLeavesNothing`, `Announced`, `EveryRunEnds` | a failed create that reports nothing leaves no candidate, files or journal of its own, and no state but that of a merge whose candidate could not be discarded; a project that was published, or whose installation in place was prepared and that has no journal, is finished (one in place before its installation is excepted); every run ends |

Why the bounds are enough: a theft needs a dead owner, two observers and a third
invocation, and three invocations with two claims each reach every label with
every kind of other party; PL_theft needs the fourth because its dead owner ends
early. A failing call leaves the files as a kill at that point does, except
that the invocation goes on: two invocations, of which one fails and releases and the
other recovers, show it (PL_live), and `ReleaseIsFinal` proves it for any number.
In FsTransaction one path interacts with another only through the order of
the loops, the dependency check and the undo: three paths have a first, a middle
and a last one, and two edits and two errors let one strike in the commit and one
in the undo, or both on the same path. In RA_edits every class of
`buildReconcilePlan` occurs; two edits are one that lands in the gap before a rename
and one that takes the path before the put-back, and two faults the failure that
starts an undo and the one that strikes in it. `Symmetric` permutes invocations that differ in
nothing: never the one with `--force`, and none in a run about liveness (PL_live).

In SI_retry the second run meets whatever the first left, which is how a retry,
a stale lease, a takeover and a racing marker come about; one error strikes any
transaction of either; two edits are a change and its reversal. More than two
runs at a time need a second takeover and add no new kind of state.

In OS the two uploads compete for the quota from its two tables, and the
attachment is what worker and request lock in opposite orders; two faults are a
lost answer and the failure of what should compensate for it, or the deaths of
both workers. In JQ the fault makes a worker slow or dead, and the second host
takes over; leases ripen at any time and without a fault, so three executions of
one run would only repeat the second. The whole of queue and scheduler is more than
TLC can take at once, so `MCInit` starts JQ in one of four deployments: two workers of
which one shares its host with the scheduler, with a request; two schedulers and a
worker, with a schedule that is edited, broken or mended twice; a scheduler and a worker,
with two schedules that are each edited once; and a single host that does both, with a
request and a schedule that is edited once, the only one in which `Overrun` can be true.
What a deployment does not use is settled before its hosts start: its request was
cancelled, or its schedule switched off. In CP_races the faults of one command line
are enough for a failing command whose cleanup then fails, or for a signal after
a process was left behind; the other one is the competitor for the target.

`TypeOK` is proved in every component with a specification, and checked by TLC
besides in SI_retry, OS and CP_races.

Deadlock is checked in every run. `Finished` is the only step that stutters.

**Fairness** in PL_live. A process that runs goes on running: strong fairness of
its next step, because suspension disables and re-enables it, and weak fairness
of `Resume`, since a suspension past any bound is a death and `Crash` covers
that. A deadline passes (`ClaimTimeout`): the code compares a clock in its loop.
Abandoned claims age (`LapseClaim`). A command ends sometime
(`BeginRelease` or `Quit`). Nothing is assumed of kills, `--force`, marks or the
heartbeat's timer: `AttemptEnds` does not rest on another invocation being kind,
only on its claim ageing.

In OS requests and workers run, deadlines pass and the database breaks deadlocks
(weak fairness); a cancellation that waits for a row lock gets it sometime (strong
fairness: PostgreSQL queues its waiters). Nobody has to upload, delete or send. In
JQ workers, schedulers and supervisors run, handlers return and leases expire;
nobody has to enqueue, cancel or edit, and heartbeats may fail to come; a host that
ended is assumed to be started again by the platform it is deployed to. In CP_races
the code's own steps and the callbacks that are bound to come are fair: timers,
the resolution of promises, the end of streams. A guard need not become ready and
a command need not end: `EveryRunEnds` rests on the timers and on the cleanup.
Faults are bounded and never fair.

## The findings

* PL_theft: `recoverAbandonedClaim` renames away what is at the claim's path, not
  what it observed there. It notices and puts the claim back, but in between a
  third invocation may publish its own claim.
* FT_rollback: `rollback()` reports success after a `commit()` that said a file
  could not be put back.
* RA_pending: a project whose `sync` was killed after it created a file refuses
  the `sync` and the `upgrade` it tells the user to run.
* SI_open: when the CLEANUP_UNVERIFIED marker cannot be written only the lease
  keeps others out, and it does so for its time to live.

Some things the models contain are no contradiction to a document, and the
properties except them by name:

* The bytes that a program writes through an open handle into a displaced file go
  with it (`late` in FsTransaction).
* A merge whose candidate cannot be discarded after the state was saved fails and
  leaves state.json (`FailureLeavesNothing`).
* Every check of `materializeSchedule` that fails throws out of the tick and ends
  the scheduler and with it its host; `listDueSchedules` lists the same schedule again
  at the next start. A schedule whose definition was retired, whose attempts are out of
  range, that has no later instant, or whose payload was edited after its run was
  enqueued (a conflict) stays due, keeps those behind it from being reached
  (`Blocked` in JobScheduler), and where every worker shares its host with a scheduler
  may starve the queue (`Overrun`), until its owner mends it.
* The file of a released lock stays in its quarantine when its unlink fails. No
  recovery can bring it back (`ReleasedIsGone`), unless the release could not remove
  its claim either (`keptClaim`).
* A blob of an attachment that lands after its reservation was cleaned up stays in
  the blob store, with no row or tombstone (`late` in ObjectStorage).
* When the answer of finalize is lost and the cancellation fails too, a ready
  object loses its blob (`unsettled` in ObjectStorage).

## The proofs

All of them are checked by TLAPS for every value of the constants that satisfies
the named assumptions of the modules.

The theorems, with the definitions they establish:

| module | theorems |
|---|---|
| ProjectLockProofs | `TypeCorrect` (`TypeOK`), `LockInvariant` (`LockInv`), `MutuallyExclusive` (`MutualExclusion`), `OwnerStaysInPlace` (`OwnerInPlace`), `ReleaseIsFinal` (`ReleasedIsGone`) |
| ProjectLockRefinement | `BarrierIsRespected` (`BarrierHolds`), `ImplementsLease` (`LeaseSpec`) |
| FsTransactionProofs | `TypeCorrect`, `BytesAreKept` (`BytesSurvive`), `EverythingReported` (`RecoveryReported`), `CommitIsAtomic` (`AllOrNothing`), `RollbackRestores` (`RollbackComplete`) |
| ReconcileProofs | `TypeCorrect`, `ApplyInvariant` (`ApplyInv`), `StateTellsTheTruth` (`StateMatchesDisk`), `PlanIsAttained` (`PlanAttested`), `InterruptionIsRecorded` (`InterruptionRecorded`), `UserBytesAreKept` (`UserBytesKept`) |
| SecurityInstallationProofs | `TypeCorrect`, `BarrierHolds` (`BarrierStands`), `MarkersAreKept` (`MarkerKept`), `IncompleteIsRecorded` (`IncompleteRecorded`), `RetryIsPossible` (`Retryable`), `SuccessIsInstalled` (`ClearedMeansInstalled`) |
| CreateProjectProofs | `TypeCorrect`, `SignalIsHeeded` (`SignalHeeded`), `FailureIsClean` (`FailureLeavesNothing`), `UnfinishedIsAnnounced` (`Announced`), `NothingIsUndone` (`NothingUndone`) |
| ObjectStorageProofs | `TypeCorrect`, `QuotaIsKept` (`QuotaKept`), `VisibleHasBlob` (`ReadyHasBlob`), `BlobsAreAccounted` (`Accounted`) |
| JobQueueProofs | `TypeCorrect`, `CancellationIsFinal` (`CancellationWins`), `QueuedHasAttempt` (`AttemptLeft`), `AtMostOneResult` (`OneResult`), `NoInstantSkipped` (`NoneSkipped`), `EndedStaysEnded` (`FinalStays`) |

*Lock* (`ProjectLockProofs`, `ProjectLockRefinement`). `MutualExclusion` is not
inductive: nothing in it says why a process at `publish` may link its file. The
strengthening is `LockInv`. Its parts: `StatusAt` ties the status to the label;
`ClaimHeld` says a process in a transition still owns the claim;
`ClaimsApart` that a claim renamed away is nobody's current claim, so that
putting it back cannot bring a second one; `ChecksHold` what a check made under the
claim is still worth when its result is used; `LockPlaced` and `QuarantinePlaced`
where the file of an owner that forfeited nothing is. All but the first hold while
no claim was stolen, and one step per action shows that each is preserved.
`MutualExclusion` and `OwnerInPlace` follow from it, and `BarrierHolds` from its
conjunct about `publish`. `ReleasedIsGone` follows from `ClaimGone`: a transition that
is over and removed its claim is not found through it again, so that what a failed
unlink left in the quarantine is out of reach of every recovery. `ImplementsLease`
has no assumption about faults: every action maps to `Acquire`, `Leave`, `Forfeit` or a
stutter, and the theft to `Break`.

*Reconciliation* (`ReconcileProofs`). `StateMatchesDisk` speaks of the moments
between commands; `ApplyInv` says what an operation in progress has done to it:
the plan fits its goal (`PlanFits`), and but for the publication in progress
(`Stable`) the disk is what the records and the attested plan say (`Settled`, which
also says what is displaced at each label). `UserBytesKept` is an action property that
follows from the types: they say that the displaced file may be a user's only where it
is still to be judged or put back (`judge`, `putback`). A step that discards a file or a
container has compared it with bytes a generator renders, and one that displaces, puts
back or gives up only moves bytes between the path, the container at hand and the
containers left behind (`BytesAtPath`).

*Transaction* (`FsTransactionProofs`). Type correctness needs to know where the
loops are: `AtPath` says that the path at hand is a pending one during a commit and
a recorded one during a rollback, and `HadFile` that only a file that existed is to
be deleted. `First` and `Last` are choices, and `Least` proves from the library's
well-foundedness of the naturals that they exist. The four safety properties come
from `Safe`. `BytesSurvive` is a conjunct of it, but not inductive: that a rename
into a container overwrites nothing, and that `Tidy` discards the file that was
compared, needs `Containers` (which containers are empty and what is in the one at
hand, by label), and that a discarded file may be forgotten, or can be put back,
needs `Forgotten`. `Progress` says which paths the loops have behind them, with
`UndoGoesOn` for the order of the undo; `Staged` that a path not staged had its
goal already; and `Effects` that, on the paths nobody else touched, the new file
is there exactly when its operation is recorded, which at the end is all or nothing.
`HandlesLive` accounts for the writes through open handles, and `Reachable` for what
an error has named.

*Installation* (`SecurityInstallationProofs`). `MarkerKept` is the hard one: a run
may be anywhere in a transaction when it loses its lease, and then puts back,
discards or renames over whatever the others have written. No marker is lost all
the same, because a journal only ever gives way to one that is further: `Rank`
orders INSTALLING, FAILED and CLEANUP_UNVERIFIED. A journal has one `Place`, its
path or a run that has displaced it (`OneJournal`); what replaced a journal is only
replaced by what is further (`Forwards`, `InTurn`); a run of which nothing was
written has no journal anywhere (`Unknown`); and a committed marker is the only
journal of its operation (`Marked`), so that no comparison can mistake it for the
journal a run expects, and no run that displaced a journal has displaced it. The
steps that touch journals are of five kinds (`Fades`, `Moves`, `Writes`,
`Restores`, `Commits`), and each kind preserves all of these. The other properties rest
on `Alone`: where there was no edit, takeover or torn file, the run that has the
lease is the only one, and the files are as it knows them or as far as its
transaction is; `Guarded`, `Recorded` and `Readable` extend the properties to the
states with a run under way. `ClearedMeansInstalled` allows edits at any time, so
`Alone` is of no use to it. `Sole` says that without a takeover the run that has the
lease is the only one, whatever the files are, and `Edited` counts: at each label,
the edits it takes for modules of another lockfile to have passed the comparisons
and the audit so far, which depends on whether bun.lock is what the run knows at
the moment. The count is four at the transaction that removes the journal, the bound in
the property; `ClearsKnown` says that this transaction compares with what the run knows.

*Create* (`CreateProjectProofs`). `CInv` follows a command line to its end.
`SignalHeeded` becomes `Heeded`: a signal fixes the verdict of the call, and the
verdict that of everything after it. `FailureLeavesNothing` and `Announced` need to
know whose files and whose journal are in the target: `LockHeld`, `Owned`, `Authored`
and `Replaced` say that only the holder of the lock changes them and what it has replaced, `Committed` at
which labels its files are there, `Reached` and `Natively` in which order a success
and its installation come about, and `Failing` what a command line has saved by the
time it fails. `NothingUndone` is an action property: `Below` says that live
processes are those of a call whose cleanup was not verified, and `Preserves` that
no step then discards, publishes or rolls back.

*Object storage* (`ObjectStorageProofs`). The quota is a sum, and it is proved for
any sizes: `Units` turns a set of rows into a set with as many elements as they have
bytes, a fold over the rows is its cardinality, shown by a smallest counterexample,
since no induction theorem can be cited here. The heart is `SeenCovers`: a
reservation has read every row there is now, but for those that left the table, so
that its sum is no less than what is held (`InQuota`). `ReadyHasBlob` and
`Accounted` need `JobsHold`, `Deleted` and `DropsOwn`, which say that a worker or a
catch block only deletes blobs that have no row, and `LateSettles` for the blobs
that land after their reservation was cleaned up.

*Jobs* (`JobQueueProofs`). `OneResult` is not inductive, since it does not say
whose results they are: `Committed` says that a result is that of the run's last
claim and that its run has ended with it. It rests on the comparison of the lease
token in every statement, on `AttemptLeft` (which needs that recovery and retry
compare the attempts) and on the type of a worker's task (`Executes`).
`NoneSkipped` needs `Reads`: a tick that is about to advance a schedule has seen
its run. `IInv` is their conjunction; `FinalStays` is an action property that
follows from the types and the lease comparison.

Assumptions of the proofs are those the modules state of their constants. They say
that sets are finite where the code has a finite number of things, that bounds are
naturals, and that values with different meanings differ: `SecurityAssumption`
tells a missing file from a run, a lockfile and a journal.

Only model-checked: liveness (`AttemptEnds`, `Drained`, `RoomReturned`,
`AllWorkEnds`, `EveryRunEnds`), which TLAPS cannot prove under fairness.

## Not modelled

* ProjectLock: errors of calls that make the attempt or the release throw at once, such
  as a directory that cannot be created: they leave the files as a kill there does.
* FsTransaction: path safety and symbolic links, parent directories and their
  removal, staging files and their cleanup, a second `commit` after a failed one.
* ReconcileApply: merging of dotenv files, secrets, the formatting of the
  configuration file, migration of old states, the pairing of moves (a move is
  the creation and the deletion it consists of), the guard for unsafe upgrades,
  the Cloudflare audit. Writes through an open file into a displaced one are
  FsTransaction's.
* SecurityInstallation: audits and previews that change nothing, the advisories
  and the computation of the plan, manifests, configuration and state that are
  published with bun.lock, a lease that belongs to the caller, the creation
  controller. The undo of a path is one step; FsTransaction has its steps. What `bun install` and the canonical verifier do is
  external: the modules are of the lockfile that was there when the installation
  ended, and the verifier accepts them when they are of the one that is there now.
* ProcessSupervisor: the enumeration of processes by scope, session or Job Object,
  output and its encoding, the Windows host script. An abort by the caller and
  output past its limit are the signal they look like to the code.
* CreateProject: prompts, rendering, git, the shape of the journal (SecurityInstallation
  has its transactions), the release of the lease of a killed run before its time.
* ObjectStorage: content types, names, signed URLs, listing; quotas of more than one
  owner, which share no lock and no row. The Convex variant is a different program
  on a different database.
* JobScheduler: cron expressions, time zones, back-off and priorities; a schedule is
  due once, since each instant has its own idempotency key. Metrics and the other
  maintenance of the worker are left out; so is the Convex variant.
* Whole parts: those with status `not_modelled` in PROJECT.json, with the reason.

## The plan

1. ProjectLock, its refinement and its proofs: done.
2. FsTransaction and its proofs: done.
3. ReconcileApply and its proofs: done.
4. SecurityInstallation and its proofs: done.
5. ProcessSupervisor, CreateProject and their proofs: done.
6. ObjectStorage and its proofs: done.
7. JobQueue, JobScheduler and their proofs: done.
8. The environment lease and `add`, composed with ReconcileApply.
9. Algorithms as functions: version resolution, capability resolution, cycles of
   the architecture graph, each against a reference definition.
