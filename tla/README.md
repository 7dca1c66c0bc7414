# A verification project for NeoEngram

NeoEngram is a content-addressed version control system for large AI assets,
written in Rust. It runs standalone (one repository on a disk, several
workspaces, the `neoengram` CLI) or managed (a Central service, an Agent on the
host of each storage volume, Gateways between them). This directory holds TLA+
models of its core, TLC configurations that check them, and TLAPS proofs.

Paths below are relative to `src/`; `runtime` is
`crates/neoengram-runtime/src`, `central` is `services/neoengram-central/src`,
`agent` is `services/neoengram-agent/src`.

## 1. Inventory

### Standalone repository

| component | state | operations | what makes it correct |
|---|---|---|---|
| Worktree transactions: `runtime/local/worktree/{restore,checkout,remove}.rs` | worktree files; `transactions/<id>/` with journal, staged files, backups | apply, rollback, recover, recover --abort | all or nothing over worktree, Index and HEAD at every crash point; recovery repeatable; no user content lost |
| Metadata: `runtime/local/repository/history.rs`, `runtime/local/metadata/sqlite.rs` | one Index with a version per workspace, Commits, refs, HEAD per workspace | Index CAS, store Commit, advance branch, transition HEAD | history grows; no Index update lost; references resolve |
| Objects and gc: `runtime/app/gc.rs`, `runtime/local/objects/loose.rs` | loose objects | publish, mark, sweep | no object that an Index or a Commit refers to is removed |
| Locks: `runtime/local/repository/{lock,layout}.rs` | `objects.lock`, `worktree.lock` per workspace, `write.lock` | try-lock, shared or exclusive; refusal while a transaction is unfinished | mutual exclusion of the commands above |
| Commands: `runtime/app/{add,commit,restore,checkout,rm,recover}.rs` | none of their own | read, scan, publish objects, CAS | correct between each other's steps |
| Engine journal: `runtime/engine/mutation.rs`, `runtime/local/engine_mutation.rs` | journal phases Prepared … Finalized, RecoveryRequired | execute, finalize, recover | phases only move forward; a finished mutation is not repeated |
| Workspaces: `runtime/app/workspace.rs` | registry rows, directories, links | create, remove | no registration without a directory, no branch in two workspaces |
| Read-only commands, FUSE mount, scan, ignore, import, chunking | – | – | reads and pure computation |

The commands of different processes meet on the locks, on SQLite transactions
and on the file system; a process can die between any two durable steps, and a
user's editor obeys no lock.

### Managed deployment

| component | state | operations | what makes it correct |
|---|---|---|---|
| Job control: `central/control_plane.rs`, `central/service/coordinator.rs` | JobRecord with a resource version, assignment outbox, staged metadata pages | create, schedule, assign, receive report, stage, finalize, expire, reconcile | the recorded outcome is what happened to the Index; every job ends |
| Index publication: `central/mapper/sqlite/index.rs` | Index revision, recorded outcome per job | compare-and-swap | exactly-once effect under replay |
| Agent execution: `agent/agent_core/{agent,outbound,state}.rs` | durable ledger, durable report queue | claim, accept, execute, prepare, finalize, recover | each decision is followed, each report reaches Central |
| Control channel and dispatcher: `agent/{approved_runtime,session_channel,session_runtime}.rs` | pending acknowledgements, commands already seen, work queues | reconnect, send, acknowledge, deliver | redelivery never starves or duplicates an effect |
| Materialization and placement: `central/service/{materialization,placement}.rs` | plans with a revision, batches, leases, checkpoints, placement evidence | plan, issue, report, retry, cancel | only evidenced objects count as placed |
| Precommit and commit: `central/precommit.rs`, `central/service/workspace_commit.rs` | PreCommit record, its Add job, Commits in one database, the Workspace's Head in another | start, restart, cancel, synchronise, commit, publish Head, recover | a Commit freezes its own scan; a published Commit stays in the history |
| Resource lifecycle: `central/service/resource_lifecycle.rs`, `agent/resource_lifecycle.rs`, `agent/agent_core/lifecycle.rs` | deletion operation with a version, outbox; on the Agent claims, filesystem journal, fence, job gate | quarantine, restore, purge, hold, retry | nothing restorable is destroyed; no job works on a quarantined tree; the operation comes to rest |
| Operation tasks, snapshot delivery | records with a version each | transitions by CAS | parents and children agree |
| Enrollment, sessions, Gateways | generations, route leases | open, fence, activate | a stale session changes nothing |
| Replication and QUIC transfer, S3, Gateway tunnels, TLS, catalog, web console | – | – | I/O, forwarding, CRUD and presentation |

Central and Agent exchange assignments, reports, acknowledgements and decisions
over a channel that breaks and reconnects. Both persist in SQLite, both restart,
and each has its own clock.

### What is hard

Every line that bites is listed under `hazards` in `PROJECT.json`. In short:
crashes between two durable steps, and crashes of the recovery itself; user
edits between a check and the rename it licenses; `gc` in one workspace against
unfinished work in another; the Index read before a long scan and written after
it; reports repeated, late or obsolete; a deadline that passes on one side only;
decisions that meet a record in an unexpected state; plans replaced while
batches of the old plan are under way; a record read, checked and written in
separate transactions, or in two databases.

## 2. Modules

| module | models |
|---|---|
| `AtomicChange` | the abstract promise of a worktree transaction |
| `RestoreTransaction`, `RestoreTransaction_proofs` | `worktree/restore.rs`, and its theorems |
| `CheckoutTransaction`, `CheckoutTransaction_proofs` | `worktree/checkout.rs`, and its theorems |
| `RemoveTransaction`, `RemoveTransaction_proofs` | `worktree/remove.rs`, and its theorems |
| `Repository`, `Repository_proofs` | add, commit, gc, restore --staged, checkout, recover across workspaces, and the theorems |
| `ManagedAdd`, `ManagedAdd_proofs` | one managed Add job between Central and Agent |
| `WorkspaceCommit`, `WorkspaceCommit_proofs` | precommit, commit and Head publication of one Workspace at Central |
| `Materialization`, `Materialization_proofs` | one Commit materialization between Central and the target's Agent |
| `ResourceLifecycle`, `ResourceLifecycle_proofs` | one deletion operation between Central and the Agents of its volumes |
| `MC*` | the values of the constants for TLC |

`map` in `PROJECT.json` gives for every definition the source lines it stands
for. Definitions named `X_Y` next to a definition `X` are mutants: the form of
`X` a plausible bug would have. No specification uses them.

### The three worktree transactions

`pc` is the point the running command has reached; each action is one durable
operation (a rename, an unlink, a journal or Index write), so `Crash` can fall
between any two. `Crash` loses `pc` and keeps the rest. `UserEdit` changes a
path at any moment. History variables remember what the properties compare
with: `before` (the state the transaction began with), `touched` and `raced`
(what the user changed since, and in the window between a check and the
operation it licenses) and, for rm, `stuck` (a recovery refused).

* `RestoreTransaction`: `file`, `dirs` are the worktree; `phase`, `entries`,
  `orig`, `made`, `staged`, `backup` the transaction directory. Creating the
  draft is one action: nothing sees it until it is renamed.
* `CheckoutTransaction`: `node` is a tree in which a path is absent, a directory
  or a file, so that files and directories can replace each other; `changes` is
  the journal in order; `ops` and `todo` what apply and rollback have left.
  `case` is the pair of trees the checkout moves between, with its own bounds.
  `Index` and `HEAD` have two values each because `write.lock` is held.
* `RemoveTransaction`: the Index write decides; before it everything is brought
  back, after it only the cleanup is completed.

Each is shown to implement `AtomicChange`: while a transaction is open the
mapped world is the one it started from, and it becomes the goal or stays.
Once the user interferes the promise no longer applies, so `AllOrNothing`
allows any step from the first edit on.

### `Repository`

A process runs one command in one workspace, holding the locks the command
takes. Locks are tried and never awaited, so a command whose lock is taken is
not enabled. Index and Commit are sets of objects. `add` publishes objects one
by one, then writes the Index if the version it read is still current;
`commit` verifies, stores, advances; `gc` marks, sweeps object by object;
`checkout` keeps only its journal, Index and HEAD steps here. What a crash
leaves is `txn[w]`. An add that staged nothing new returns without touching the Index
(`AddUnpublished`). `CheckoutBegin` asks for the target's payload, which
`CommitsBacked` shows to be always there; an unborn HEAD is left out.

### `ManagedAdd`

Central's state is `job`, `outbox`, `staged`, `version`, `publication` and the
tasks that run its methods concurrently; the Agent's is `ledger`, `reports`,
`daemon`, `work` and `pc`; the channel's `connected`, `applied` and `seen`.
Every durable write is an action. `JobRepository::replace` compares a version;
here it compares the record, which never returns to an earlier value.
A worker error stops the dispatcher and the daemon (`Exit`); the supervisor
starts it again. Left out: session generations, signatures, placement evidence,
leases (never set for Add, `coordinator.rs:224`), cancellation (`CancelRequested`
is never set for Add) and a failing `finalize` of the transfer
(`execution.rs:1058` cannot fail). The other jobs of the workspace appear as
`OtherPublication`.

### `WorkspaceCommit`

One Workspace. `pre`, `jobs` and `commits` are the authority's records, `head`
the control catalog's, `index` the revision every Add moves. `begin[r]` is what a
start or restart request has read and not yet stored; `work[w]` the Commit that a
request or the coordinator is publishing. A commit request stores the Commit,
places its objects, and then observes, swaps, re-observes and acknowledges the
Head; the coordinator does the last four without the request's
`publication_lock`. Each database transaction is an action, and a crash may fall
between any two. The Add job is reduced to the compare-and-swap `ManagedAdd`
shows in full. `is_commit_ancestor` walks the parents; `History(c)` is what that
walk visits, defined without recursion as the least set of Commits that contains
`c` and is closed under parents, so that it can be proved about.

### `Materialization`

`job`, `task`, `batch`, `leases` are one plan of one job; `present`, `receipts`
the placement evidence; `planner`, `delivery`, `handler` and `cancel` the four
requests that run at Central, each with its program counter; `assigned`,
`completed`, `reports` the Agent's dispatcher. A plan is made from a view: `PlanRead`
takes revision, state and Placements, `PlanRoutes` the routes, both in `planner`, and
`MaterializeCommit` or `RetryMaterialization` installs what follows from that view,
fenced by the plan revision and by the leases, which need Placements that are
readable by then. What `materialization_receipt_gate` serialises is one action;
`replace_materialization_batch`, which checks a row and then updates it, is two. A
delivery refreshes the routes, claims the batch and, after the claim, looks at
nothing but the deadline before it sends; the receipt handler takes a batch to
Succeeded by one such update per state. Any request may be abandoned between two
calls (`Abandon`, `PlanDropped`). Left out: goals other than complete coverage,
checkpoints and byte offsets, tickets, volume ownership changes, the repair of bad
objects and the capacity check (`service/materialization.rs:1882-1926`), whose
refusal changes nothing.

### `ResourceLifecycle`

`op` is the DeletionOperation, `outbox` the assignments, `rec` the reconciler
with its copy of the operation, `receiving[v]` the handler of a failed report.
`current` is the set of readers whose copy is still the stored one: the
resource-version compare-and-swap. Per volume, the Agent has durable `claims`,
`reports`, `journal` and `fence`, and `gate`, `run`, `job` in memory; `place` is
where each tree is. Every rename and every durable write is an action, so
`AgentCrashes` may fall between the rename of a root and the journal entry about
it. What makes `commands` refuse (no enrolled Agent, no session, a unique replica, an
empty inventory) is the environment's choice in `CommandsRefused`. Two pairs of
steps are one action: gate and fence at the start of a command (`FenceJobs`; the gate
is set first and is in memory, so a crash between them leaves what a crash before
them leaves) and the removal of the fence and the Restored journal entry
(`RestoreEnds`; no restore that has a fence gets that far, finding 2). Left out:
signatures and evidence, the impact preview, mount generations, the delivery records
a purge removes (`agent/resource_lifecycle.rs:289`), the rows the authority erases.

## 3. Runs

| run | question | result |
|---|---|---|
| `restore` | is restore all or nothing, does rollback restore, is user content safe, does it settle | holds, 98 thousand states |
| `restore_interrupted` | does recover settle a restore whose rollback was interrupted | violated, finding 4 |
| `checkout` | the same for checkout, with user edits while the tree keeps its shape and without them while files and directories replace each other; HEAD never ahead of the Index | holds, 643 thousand states |
| `checkout_recover` | does recover settle a checkout that makes nested directories of a file, or whose rollback was interrupted | violated, findings 3 and 5 |
| `remove` | all of this for rm, and that a committed rm stands | holds, 222 thousand states |
| `repository_single` | two processes and two crashes in one workspace | holds, 330 thousand states |
| `repository_gc_abort` | is an aborted checkout's Index still backed | violated, finding 1 |
| `managed_add` | outcome, decisions, acknowledgement and termination of a managed Add | holds, 277 thousand states |
| `workspace_commit` | does a Commit freeze its own scan, does a published one stay, does a stored one get its Head | holds, 219 thousand states |
| `materialization` | is a job complete exactly when everything is placed, is cancellation final, does a stall spare a newer plan, does every batch end | holds, 298 thousand states |
| `resource_lifecycle` | is metadata erased only after the trees, is nothing restorable destroyed, do jobs keep off quarantined trees, does the operation settle | holds, 272 thousand states |
| `resource_lifecycle_restore` | does the Agent execute a Restore | violated, finding 2 |

`AllOrNothing` is the refinement of `AtomicChange` by each worktree transaction.
`OutcomeMatchesIndex` of `ManagedAdd` covers both directions: what Central
records about the job happened to the Index, and what was published is what the
Agent prepared. `DecisionsFollowed` also says that an acknowledged decision is
the one in the Agent's ledger.

### Bounds, and why they are enough

* Worktree transactions: two files (restore, rm) or the three paths `a`, `a/b`,
  `c` (checkout). Entries are handled one after another and independently, so two
  show every combination of "done", "in progress" and "to do"; `a` and `a/b` let a
  file become a directory and back while `c` is created or deleted. `a`, `a/b`,
  `a/b/c` of `checkout_recover` are the smallest tree with a directory in a new one.
* `Cases` of checkout: changes in place, from every well-formed worktree, with a
  crash, an edit and a failing Index write together; and changes in place, a file
  that becomes a directory and a directory that becomes a file, each with two
  crashes, the last two also with a crash and a failing write. Edits in the
  swapping cases multiply the states without a new kind of check.
* Two crashes show every interrupted apply, the recovery after it and the recovery
  of an interrupted recovery. In restore and checkout there is one place in which
  the last does not work (findings 4 and 5): `Stranded` names it, `TransactionSettles`
  excepts it and `RecoverSettles`, which does not, has a run that is violated. One
  edit before and one after a crash, contents "target", "original" and "user's own".
* `MaxFaults`: one failing Index write reaches every error path after it.
* Repository: two processes are enough for a race on one lock or one CAS; two
  objects distinguish "still referenced" from "garbage"; two or three Commits
  and four Index versions let a branch move and an add be overtaken. Process
  symmetry is sound: no definition distinguishes processes.
* Managed Add: one page of metadata is enough for "incomplete" and "complete"; two
  Central callers race for each CAS; one other publication makes a conflict; one
  crash or broken channel at any point. Errors of the worker restart the daemon
  without counting as faults, so there are executions with several restarts.
* Workspace commit: two sessions, so that one can begin while the other's Commit
  waits for its Head; two attempts of the first, so that a job of an earlier
  attempt finishes late; two Index revisions, one crash. With two start requests in
  flight and a third attempt the model shows the last observation about commits
  below, so one request is checked.
* Materialization: two objects and two sources make one or two batches; each of the
  nine cases of `MCMaterialization` spends its bounds on two kinds of trouble (a
  replan with a cancellation, a mishap or a new session, a cancellation with a
  mishap, two batches with each of them, a fallback source, an object already
  there). The plan's revisions, sessions and events are bounded, the interleaving
  of planner, delivery, report handler and cancellation is not.
* Resource lifecycle: two roots (between two renames), one volume with a retry, a
  restore, a hold, an Agent crash, a job, a refused command or an interrupted pass in the
  combinations of `MCResourceLifecycle`; two volumes for reports that race; no
  volume for the path without Agents, the only one on which a restore completes.

Deadlock checking is off in every run: a repository in which nobody runs a
command, a job that has ended and exhausted bounds are legitimate ends.

### Fairness

* Worktree transactions: a running command keeps running (`WF` of its steps,
  there is nothing it waits for), and someone runs `recover` on an unfinished
  transaction – the code refuses every other command until then
  (`layout.rs:185`). `TransactionSettles` needs both.
* Managed Add: the coordinator polls (`reconcile`), the Agent reconnects with
  backoff and Central redelivers on every channel, the worker thread runs, the
  supervisor restarts a daemon that exited, and both clocks pass the deadline.
  Faults are bounded, not fair.
* Workspace commit: the coordinator's loop finishes what it has picked up, and its
  cursor returns to every unpublished Commit (`SF` of `RecoverCommit`, because it
  is busy with others in between). Nothing forces a user to send or repeat a
  request, so `StoredCommitsSettle` rests on the coordinator alone.
* Materialization: the delivery loop and the report handler run while the Agent is
  connected, the Agent reconnects and works off assignments and reports, and the
  deadline passes. Cancellation, retries and mishaps are not fair. Only a session of
  the target's Agent runs the delivery loop that fails an expired batch, so
  `BatchEnds` rests on `WF(Reconnect)`: a batch of an Agent that never comes back
  stays active.
* Resource lifecycle: the lifecycle worker polls, handlers finish, a running Agent
  executes what it has claimed, the supervisor restarts a stopped one, assignments
  expire. No user action, hold or job is fair, and neither is delivery to an Agent:
  `OperationSettles` holds because expiry blocks the operation. `reconcile_once`
  starts at the first tenant in every pass and stops at a limit
  (`resource_lifecycle.rs:557-605`), so the fairness of the reconciler's steps for
  this one operation needs that fewer operations than the limit are open before it.
* `Repository` has no liveness property and no fairness: its commands fail fast.

## 4. Proofs

TLAPS proves the theorems below for every value of the constants that satisfies
the named assumptions of the modules. `ConstantsAssumption` gives the constants
their kinds (finite sets of numbered objects and sources, natural bounds);
`NoneAssumption` says that the value for "absent" is none of the records it
stands beside, which TLC evaluates on every run. The bounds on crashes, edits,
sessions, attempts and other events are constants, so the theorems hold for all
of them, where a run picks small ones.

Every proof module has the same plan: an inductive invariant `IInv`, a
conjunction of named parts; lemmas about the operators the model is built from;
one lemma or step per action, with one sub-step per part the action can disturb;
and theorems that follow by temporal logic. Every `IInv` was checked by TLC on
the instance of the module's run before it was proved.

| theorem | module | property |
|---|---|---|
| `RollbackSafe`, `Refinement` | Restore, Remove, Checkout | `RollbackRestoresOriginal`, `AllOrNothing` (the transaction implements `AtomicChange`; checkout under `StartsApart`) |
| `NothingElseDestroyed` | Restore | `OnlyOwnOutputDestroyed` |
| `AuthorityFollows`, `UnforcedIsSafe` | Checkout | `AuthorityFollowsWorktree`, `UnforcedKeepsEdits` |
| `RecoveryNeverRefuses`, `UnforcedIsSafe`, `CommitIsFinal` | Remove | `RecoverySettles`, `UnforcedKeepsEdits`, `CommittedStaysRemoved` |
| `CommitsStayBacked`, `HistoryGrows`, `AddsKeepOthersWork` | Repository | `CommitsBacked`, `BranchesGrow`, `AddKeepsOthersWork` |
| `IndexesStayBacked`, `RecoveryIsNotRefused` | Repository | `IndexBacked`, `RecoveryNotRefused`, under `Confined`: one workspace, or no crash |
| `BranchesAttachedOnce` | Repository | no branch in two workspaces, no run's |
| `OutcomesMatchIndex`, `AgentFollowsDecisions` | ManagedAdd | `OutcomeMatchesIndex`, `DecisionsFollowed` |
| `CandidatesAreOwnScans`, `PublishedCommitsStay` | WorkspaceCommit | `CandidateIsOwnScan`, `PublishedStays` |
| `CompletionIsPlaced`, `CancellationIsFinal`, `StallsKeepNewerPlan` | Materialization | `CompleteIsPlaced`, `CancelledIsFinal`, `StallKeepsNewerPlan` |
| `ErasedMeansPurged`, `DestroyedIsPastRecovery`, `JobsAvoidQuarantine` | ResourceLifecycle | `ErasedIsPurged`, `DestroyedPastRecovery`, `NoJobOnQuarantined` |
| `TypeCorrect` | all eight | `TypeOK`, which the runs of Restore, Checkout, Remove and ManagedAdd leave to the proof |

### Why the invariants are what they are

`RemoveTransaction_proofs`: that rollback restores a file needs to know that
every backup is announced in the manifest and known to the process that rolls
back (`BackupInv`, `MovedInv`), that an untouched file is in exactly one of two
places (`FileInv`), that the Index is written only after the last move
(`PhaseInv`), that unforced backups hold recorded content (`ContentInv`), and
that the entries passed are gone (`GoneInv`, for the refinement).

`RestoreTransaction_proofs`: `EntryInv` and `SameInv` say what journal, backup
and staged file tell of each entry at each control point; `UndoneInv` that a
rollback, also one that was interrupted and started again, leaves the entries it
has passed undone; `PointInv` and `PhaseInv` which points go with which phase;
`ParentInv` and `DirInv` that the journaled directories are exactly the ones the
transaction made. The refinement also needs that apply has published what it has
passed (`PassedInv`).

`CheckoutTransaction_proofs` is about any tree of paths and any pair of Commits
(`TreesAssumption`: no tracked file below a tracked file). `Pending` is the number
of journal changes a rollback has still to undo, all of them while none is under
way. Every file in the backup lies at or below the path of a pending change
(`BackupInv`), so none is left when the rollback ends; while the user changes
nothing, every original file is in the worktree or in the backup, any other file is
the output of a pending change (`FileInv`, which needs from `WriteInv` that what is
written differs from the original), and every directory is an original or a
journaled one (`DirInv`). `UnforcedInv` carries the check of a path to the rename
or unlink it licenses, `AuthorityInv` and `PlanInv` say what goes with which control
point, `TreeInv` that worktree and backup stay trees. The lemmas about ancestors
are proved from their definition as the least closed set, without induction.
The refinement needs a second layer, `XInv`, about the time before the first edit:
a rollback must bring back every directory, which `IInv` does not say, and apply must
reach the goal. `KeepInv` says that an original directory is in place or in the backup
under a pending change and that no directory checkout makes is an original; `MoveInv`
that what is moved away takes no target file along that will not be written;
`PassedInv` what apply has passed; `StartInv` and `GoalInv` are the two ends. It is
not true of every worktree: with a directory where the current Commit has a file, the
target has none and needs a directory, checkout is not atomic (`checkout.rs:700` and
`checkout.rs:1127` under the observations). `StartsApart` excludes these trees;
TLC evaluates it on the cases of the runs (`CasesApart`). An unforced checkout never
starts from one, its preflight refuses.

`Repository_proofs`: `CommitsBacked` needs that gc's marks cover every Commit
while it sweeps (`MarkInv`) and that what commit verified is still there when it
stores (`VerifiedInv`); both hold because gc and commit hold `write.lock`
throughout (`LockInv`, `MutexInv`). `IdInv` says branches, HEADs and journals
name stored Commits, `BackedInv` is the property. That an add keeps what others
staged needs what it read and which version that was (`ReadInv`); that no branch
is attached twice, what checkout saw under `write.lock` (`AttachInv`).
The Indexes need a second layer, `SInv`. `AddedInv` says that what an add has
published is in the store until its Index names it, because it holds
`objects.lock` (`ObjectLockInv`); `MarkedInv` that the marks of a running gc cover
every Index; `HolderInv` and `JournalInv` that an unfinished checkout still has, in
its process or in its journal, an original Index whose objects are there and a HEAD
its rollback can move back. A crash releases the locks and leaves the journal, and
gc and checkout of *another* workspace do not look at it: the layer is inductive
only when there is no other workspace or no crash. That is the hypothesis
`Confined`, and without it TLC refutes the conclusion (finding 1).

`ManagedAdd_proofs`: that Central's record matches the Index needs what each
caller knows when it compares and swaps (`TaskInv`); that the Agent can follow a
decision needs the ledger's state at each point of the worker (`ControlInv`,
`LedgerInv`), what the queued reports promise (`QueueInv`), and that work waits
only for records that exist (`WorkInv`).

`WorkspaceCommit_proofs`: the candidate needs that the Job of a ready session
has ended (`ScanInv`); the history needs that whoever publishes a Commit holds the
stored one, and that a Commit found in the history of the Head stays in it when
the Head moves to a child (`WorkInv`, and the lemmas about `History`).

`Materialization_proofs`: a receipt, a failure or a batch update may come from
any earlier plan, session or request, so `LinkInv`, `DeliveryInv`, `HandlerInv`
and `CancelInv` say of each that it names a batch some plan made and carries a
row. The state machine lets a Cancelled job stay Cancelled, so a late receipt
is kept out by the revision alone: the cancellation moves it past every task
(`RevisionInv`). A plan may be installed long after it was computed, so `PlannerInv`
keeps what the view promises until then: evidence it saw on the target is still on
the target, and its revision is not ahead of the next one. What the greedy source cover returns is proved by induction over
its rounds, with a least counterexample in place of an induction rule.

`ResourceLifecycle_proofs`: `ErasedIsPurged` needs the chain of evidence from a
tree to the decision to erase: what the journal says of each tree (`TreeInv`),
what a purge has passed (`MoveInv`), that results, claims and retired assignments
stand for a purged journal (`DoneInv`, `RetiredInv`), and that the reconciler
decides on a copy that is still current (`CopyInv`, `WriteInv`, `FinalInv`).
`TrackInv` keeps purging and restoring apart. `NoJobOnQuarantined` needs both
fences: `GateInv` while a command runs, `FenceInv` after a crash.

### What stays with TLC

All liveness (out of the prover's reach) and so every use of fairness: that
transactions settle (but for `Stranded`), jobs end and stored Commits get their Head
(but for `Overtaken`). Every other property
of a passing run is also a theorem. Outside `Confined`, `IndexBacked` and `RecoveryNotRefused`
are false, outside `StartsApart` `AllOrNothing` of checkout is.

## 5. Findings and observations

Findings, each with a run that checks what the repository says of it:

1. **gc can take the payload of an Index that recover --abort restores**
   (`layout.rs:225`, run `repository_gc_abort`): only the workspace of the
   unfinished checkout is blocked, and the original Index lives only in its
   transaction.
2. **an Agent refuses every Restore of what it quarantined**
   (`snapshot_mount.rs:814`, run `resource_lifecycle_restore`): the command carries
   the generation that the restore has just incremented, the fence on disk the one
   of the quarantine.
3. **a checkout that makes nested directories of a file cannot be rolled back**
   (`checkout.rs:1231`, first case of run `checkout_recover`, the one in the trace): the
   rollback removes `a/b/c` and wants `a` empty for the file `a` to come back, but takes
   `a/b` away only afterwards (`checkout.rs:1127`). It refuses, and so does every later `recover`. One level deep,
   as in `recovery.rs:388` and in the run `checkout`, the directory is empty.
4. **an interrupted rollback of restore cannot be repeated** (`restore.rs:391`, run
   `restore_interrupted`): after a rollback has renamed a backup into place, a crash
   leaves "original present, backup gone, staged file published", which the next
   rollback takes for a lost original; every later `recover` refuses
   (`docs/reference/cli.md:390` promises the start state).
5. **nor can the rollback of a checkout that made a directory of a file**
   (`checkout.rs:1090`, second case of run `checkout_recover`, which is violated by it
   alone as well): the repeated rollback looks at `a/b` again and finds the restored file `a` in the place of its parent, although the
   comment at `checkout.rs:1348` calls the rollback idempotent.

Observations made while modelling. The models contain the behaviour; no run is
kept for it, and the properties are stated so that they hold beside it.

Worktree transactions and workspaces:

* `checkout.rs:700`: `checkout --force` that removes a tracked file which is now a
  directory moves the whole directory away, target files included that were
  planned as unchanged (`docs/reference/cli.md:289`). A target file below it that is
  written is restored alone by a rollback, and the directory, no longer empty, then
  refuses its own restoration (`checkout.rs:1231`).
* `checkout.rs:1127`: an empty directory that stands where a tracked file was, and
  where the target needs a directory, is moved away, made again and journaled; the
  rollback restores it and then removes it as a directory of its own. This is why
  `RollbackRestoresOriginal` lets empty directories be missing; in the run
  `AllOrNothing` asks for the exact tree.
* `checkout.rs:1081`: another workspace can take the branch that a crashed checkout
  must return to; `recover` then refuses until it is free again.

Managed Add:

* `agent_core/agent.rs:576`: a job that was assigned but never claimed expires with
  a reject decision, which the Agent answers with AssignmentNotFound; the error ends
  the daemon and Central redelivers the decision after every restart
  (`approved_runtime.rs:1127`, `control_plane.rs:1921`). `AgentFinalizes` is
  therefore stated for jobs the Agent knows.

Workspace commit:

* A Commit that is stored while its Head is not published yet can be overtaken for
  good by another Commit with the same parent; replaying its request, which the
  comment at `workspace_commit.rs:118` relies on, then fails. `Overtaken` in
  `StoredCommitsSettle` is this case; without it the property is violated.
* The deadline in `precommit_add_job_spec` comes from `updated_at`, so after the
  first synchronisation a replayed `ensure_precommit_job` builds a different spec and
  is refused (`coordinator.rs:587`).
* The coordinator publishes a Head without `publish_initial_placement`, so a Commit
  whose request died early gets a Head and no placement (`placed` lacks it).
* When another Add publishes after the precommit's job succeeded and before it is
  synchronised, synchronisation fails until the precommit is cancelled; so does a
  Running precommit whose source Index moved before its job was created.
* Two restart requests in flight around a cancel can give the third attempt the job
  identity of the second (`job_identity_exists` skips the precommit's own). With
  `Requests = {1, 2}` and three attempts the model reaches it.

Materialization:

* A materialization that misses exactly one object cannot complete
  (`mapper/sqlite/placement.rs:5847`): its only receipt asks for Materializing to
  Complete, which `can_transition_to` refuses, so the receipt is dropped and the batch
  ends at its deadline (`docs/architecture/commit-materialization-v2.md:221-225`).
  `CompleteIsPlaced` holds, the task stays undone.
* A failure report stalls whatever revision is stored, also a newer plan than the
  batch's (`FailJob`); `StallKeepsNewerPlan` is about the delivery loop.
* A cancellation that was overtaken by a retry releases the leases of the newer plan
  (`service/materialization.rs:2794`; the comment at line 750 excludes it).
* A receipt that is replayed after its batch advance was abandoned never advances the
  batch, which then ends at its deadline; the dispatcher likewise ignores the
  redelivery of a batch it completed when the receipts were refused for a replaced
  session.
* Complete is decided from the tasks and ignores health. A job in Stalled or
  Verifying whose completed object turned unhealthy, or whose goal is already
  satisfied, cannot be retried.
* `reconcile_materialization_leases` has no caller outside tests.

Resource lifecycle:

* A purge that stopped at a deadline, was put under a hold and is retried resumes
  Purging and issues new purge commands (`mapper/sqlite/catalog.rs:4401`;
  `docs/openapi/neoengram-api.yaml:3598` says a retry cannot bypass a hold). The first
  step into Purging does look at holds, twice: by the resource version and inside the
  transaction.
* An Agent with an unfinished claim of an older session fails every start
  (`approved_runtime.rs:452`, `snapshot_mount.rs:551`); `AgentStarts` needs the claim
  to be finished or of the current session.
* An operation that was blocked before every volume had its inventory cannot be
  restored; a late failed report of an older attempt blocks the new attempt.

## 6. Not modelled

`components` in `PROJECT.json` lists every part with its status. By lines, most of
the repository is HTTP controllers and DTOs, SQL statements and their in-memory
twins, byte transport (QUIC, tunnels, S3, FUSE), cryptography, tests and the web
console: code whose behaviour is data conversion or I/O, where a state machine has
nothing to say beyond the per-record compare-and-swap the models contain. The map
names the lines that hold the control the models do have.

Left out for good: read-only commands, FUSE, scanning, hashing and encodings, CLI,
web console, DTOs, catalog CRUD, QUIC and tunnel forwarding, TLS. Simplified inside
the models: symbolic links and special files, permission bits, SQLite's own
atomicity, which is assumed, and the engine journal around the worktree
transactions.

Hazards without a property: creation and removal of workspaces
(`runtime/app/workspace.rs`, two) and the engine journal
(`engine/mutation.rs:454`), which no module models yet; the unclaimed assignment
(`agent.rs:576`) and the retry past a hold (`mapper/sqlite/catalog.rs:4440`), where the
code does not keep the promise a property would state; and the dispatcher's attempts
(`session_channel.rs:385`), which `Materialization` reduces to one assignment per batch.

## 7. Plan

In this order; each item names the modules it adds.

1. `Workspaces`: create and remove (`runtime/app/workspace.rs`), composed with the
   branch and HEAD rules of `Repository`.
2. `MutationJournal`: `engine/mutation.rs` and the recovery wrapper.
3. `SessionFencing`: session generations and route leases; then operation tasks,
   snapshot delivery and Gateway activation.
