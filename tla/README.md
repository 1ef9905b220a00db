# Verification of locron

locron is a local job scheduler. This directory holds TLA+ models of its core,
the TLC instances that check them, and TLAPS proofs about the store.
`PROJECT.json` is the machine-readable index: components, runs, bug variants
(mutants), the map from definitions to source lines, findings, hazards, theorems.

## The system

| Part | Source (under `src/crates/`) | Role |
|---|---|---|
| Store | `locron-store/src/store.rs`, `store/cancellation.rs`, `migrations/` | SQLite tables of jobs, revisions, cursors, runs, attempts, outputs, retry intents. Every write is one `BEGIN IMMEDIATE` transaction. |
| Writer admission | `locron-store/src/store/contention.rs` | File locks that let foreground writers go before background work. |
| Daemon | `locron-engine/src/daemon.rs`, `StoreAdapter` in `locron-cli/src/main.rs` | A loop of ticks (reconcile, maintain, admit) and one task per admitted attempt. |
| Runner | `locron-engine/src/runner.rs` | Runs a process tree or an HTTP request for one attempt. |
| Policies | `locron-engine/src/admission.rs`, `locron-core/src/schedule.rs`, `policy.rs` | Round robin, retries, schedules, missed runs. |
| Maintenance | `locron-cli/src/maintenance.rs`, `locron-store/src/output.rs` | Recovers outputs after a crash, prunes outputs and runs. |
| Clients | `locron-cli/src/main.rs`, `mcp.rs`, `locron-server/src/` | Command line, MCP server and dashboard: write the same store at any time. |
| Installation | `locron-cli/src/service*`, `self_update.rs`, `windows_*` | Service registration, updates, Windows transactions. |

The store is the only shared state. Clients insert and cancel runs; the daemon
turns schedules into runs, admits runs as attempts, and reports what became of
them. The daemon may crash between any two steps. The process trees survive it.

The life of a run:

```
             +----------------------- retry_wait <----------------------+
             v                                                          |
 queued -> starting -> running -> succeeded | failed | timed_out | cancelled
   |           |           |
   |           |           +-> running + termination_unconfirmed  (quarantine)
   |           |                    +-> interrupted_unknown  (user acknowledges)
   +-> skipped_overlap, skipped_concurrency, cancelled, failed
               +-> failed, cancelled, interrupted_unknown  (restart)
```

## Modules

| Module | Models | State | Actions |
|---|---|---|---|
| `RunStore` | the transactions of the store on jobs and runs | `jobs`, `runs` (with attempts, output artifact, retry intent, candidate flag, cancellation), `nextSequence`, `globalConcurrency` | one per operation and outcome: `EnqueueManual`, `Materialize`, `Admit`, `CompleteAttempt`, `BeginLifetime`, ... |
| `RunStore_proofs` | theorems about `RunStore` | | |
| `Daemon` | lifetimes, ticks and attempt tasks over `RunStore` | + `lifetime`, `tasks`, `prepared`, `processes`, `survivors` | `Reconcile`, `PrepareAdmission`, `AdmitTick`, `Mark`, `Spawn`, `Exit`, `Terminate`, `Drain`, `Finalize`, `Complete`, `Crash`, ... |
| `ProcessRunner` | `run_process` on Unix for one attempt | status, group, credentials and pipes of leader and child; the locals of the select loop | `Wait`, `NoticeCancellation`, `NoticeTimeout`, `Deadline`, `Drain`, `Finalize`, cleanup |
| `Claims` | statements of the documentation that the code does not keep | (of `Daemon`) | |
| `SmallDefinitions`, `MC*` | values of constants for TLC | | |

`Daemon` extends `RunStore`: each of its steps that writes the tables is the
operation of `RunStore` that the code calls, conjoined with the change of the task.

### How state corresponds to the code

- A row of `runs`, its `attempts`, `output_artifacts` and `retry_intents` are one
  record. The queue sequence is the identity of a run.
- `quarantined` stands for `state='running' AND reason='termination_unconfirmed'`.
- `cancel` joins `cancellation_requested_at_us` and `cancellation_reason`, which
  are always written together.
- `resolved` is `one_time_resolved`. A definition with `delete_after_run` has an
  `at` schedule, as the command line requires, and so one occurrence.
- A transaction that returns `NotFound` or `Conflict` rolls back: no step.
- `INSERT OR IGNORE` against the unique index on replacement candidates is
  modelled as it works: the insert is dropped, the rest of the transaction stays.
- The round robin of `admit` is left open: `Admit` takes any set of eligible runs
  within the limits, so what is shown holds for the order the code uses too.
- A task's `phase` is the line of `Daemon::tick` where it waits. `complete` is two
  transactions, `Finalize` and `Complete`, with a possible crash between them.
- `Store::admit` reads its candidates before it owns the writer, and selects among
  them in its transaction. `PrepareAdmission` and `AdmitTick` are these two halves;
  clients and tasks act between them. A signal cannot: the call does not await.
  (In `RunStore` alone, `Admit` is the transaction.)
- The runner in `Daemon` is what a task sees of it; its inside is `ProcessRunner`.
- When the leader exits by itself the runner stops looking at its group and reads
  the pipes to their end. The attempt's tree leaves `processes`, and descendants
  that live on are in `survivors`. A task whose drain waits for a descendant with an
  open pipe is in phase "held", where it listens to nothing else.

### Abstractions

Time is absent: due times, timeouts and deadlines come at any moment. Names,
texts, events, timestamps and the enabled flag are left out. A batch of
occurrences of one `materialize_with_summaries` call is a sequence of
`Materialize` steps, between which others may happen. A failing call of the
store is a stuttering step where the code retries, and an action of its own where
it gives up (`PreparationAborts`, `GiveUp`).

A definition whose comment begins with "Wrong:" is a plausible bug, kept beside
the definition that it replaces in a mutant. Each property of a passing run has
one mutant that breaks it.

## Runs

Passing:

| Run | Shows | Bounds |
|---|---|---|
| `store_retries` | `TypeOK`, `AttemptsAgreeWithRuns`, `RetryIntentsNameKnownFailure`, `CatchUpInOrder`, `GlobalConcurrencyHeld`, `TerminalIsFinal`, `QuarantineHeld`, `RemovedWithLastAttempt` | one job, any policy, two runs of any trigger with two attempts, global limit changing between 1 and 2 |
| `store_edits` | `QueuedOverlapOnlyIfAllowed`, `PerJobConcurrency`, `SnapshotIsCurrent` | one job edited once between `replace` and `allow`, three manual or catch-up runs |
| `daemon` | `DaemonTypeOK`, `TasksOwnTheirAttempts`, `OrphansWereNeverSpawned`, `LiveTreeIsNotReportedDone`, `TreesOverlapOnlyIfAllowed`, `TerminalIsFinal` | one job, two manual runs with two attempts, any number of crashes and lifetimes; drains end |
| `daemon_live` | `CancellationTakesEffect`, `ShutdownEnds` | one job, two runs with one attempt; a descendant may hold a pipe, for ever too |
| `runner` | `RunnerTypeOK`, `ReportedTreeIsDead`, `OutputIsComplete`, `DeadTreeIsNotQuarantined`, `TerminationEnds` | a leader and one child; both may leave the group and take other credentials |

Why the bounds are enough: overlap, replacement, quarantine and catch-up order
are relations between two runs of a job, and a third run is needed only for a
predecessor of both. A retry needs two attempts. Limits of 1 and 2 distinguish
"exclusive" from "shared". Crashes, restarts, edits of the limit, and steps of the
target are unbounded. The theorems below remove the bounds for most of the
store's properties.

Deadlock is checked except in the runner runs, whose end is a state with no
further step.

`TerminalIsFinal` is checked with the daemon as well as with the store alone: a run
that is cancelled or superseded between `PrepareAdmission` and `AdmitTick` must not
be started from the earlier reading.

Two properties name an exception that the code has:

- `ReportedTreeIsDead` excepts a group with a member that the runner may not signal
  (`TakeCredentials`: the member executed a set-user-ID program). `killpg` succeeds
  when it reaches one member, and `kill_delivered` (`runner.rs:404`) stands for all
  of them, so the attempt is reported as cancelled or timed out while that member
  lives. `docs/SPEC.md:311` says "Completion is not reported until tree termination is
  confirmed."
- `CancellationTakesEffect`, `ShutdownEnds` and `TerminationEnds` except a drain that
  waits for ever for a process that holds a pipe and that no signal reaches any more.
  `claim_cancellable` and `claim_shutdown` show what this means for a cancellation
  and for a shutdown.

Survivors of a leader that exited by itself are outside `TreesOverlapOnlyIfAllowed`:
nothing in the store knows of them. `LiveTreeIsNotReportedDone` shows that they belong
to attempts that ended by themselves, never to one reported as cancelled or timed out.

In `store_retries` the durable limit is what bounds admission. It is at most 64, the
number of permits of the daemon's semaphore, so the hard guard is the smaller of the
two only between a task's last transaction and the release of its permit, which the
model takes as one step.

`RunState::transition` (`lifecycle.rs`) is called only by its tests. The store
writes states directly, and takes steps that `transition` refuses, such as
`retry_wait` to `skipped_overlap` when a waiting run is superseded.

Violations (each is a finding in `PROJECT.json`, with the line it contradicts):

| Run | What the code does |
|---|---|
| `claim_supersession` | A candidate flag left on a finished run makes the next replacement vanish after its predecessor was told to stop. |
| `claim_no_retry` | A cancelled or replaced run whose process fails by itself waits for a retry. |
| `claim_quarantine` | A quarantine after a user's cancellation leaves the candidate queued. |
| `claim_delete_after_run` | A scheduled run that ends as skipped does not remove its job. |
| `claim_no_orphan` | A store error during a failed preparation leaves a batch of attempts without tasks. |
| `claim_cancellable` | A descendant that holds a pipe after its leader exits makes the attempt deaf to cancellation and timeout. |
| `claim_shutdown` | A descendant in the group that holds a pipe after its leader exits is not terminated by a shutdown, which waits for it. |

## Fairness

`FairDaemonSpec` gives weak fairness to the steps of each task (tokio polls every
task that is ready, and every wait of a task other than those for its target and for
the holders of its pipes has a timer): `Drain`, which reads closed pipes, is fair,
`PipesClose` is not. It also gives weak fairness to the main loop's spawning, drain timeout and end. There is no
fairness for clients, crashes, exits of targets, or giving up. `GiveUp` is not
needed for `ShutdownEnds`, because the model's store eventually answers.
`FairRunnerSpec` gives weak fairness to the select loop and its timers, and to the
kernel taking down a killed process; none to a target's own exit.
The biased select tries output and flushing before the timers; these branches are
left out, which assumes that a target does not keep them ready for ever. Past the
output limit a write only counts, so the reader is faster than the pipes, but no line
of the code guarantees it.

## Proofs

`RunStore_proofs` proves, for all values of the constants that satisfy
`ConstantsAssumption` (which only types them):

| Theorem | States |
|---|---|
| `StoreInvariant` | `Spec => []StoreInv` |
| `TypeCorrectness`, `AttemptsAgreement`, `RetryIntents` | `TypeOK`, `AttemptsAgreeWithRuns`, `RetryIntentsNameKnownFailure` |
| `QueuedOverlap`, `CatchUpOrder` | `QueuedOverlapOnlyIfAllowed`, `CatchUpInOrder` |
| `TerminalFinality`, `QuarantineBlocks` | the action properties `TerminalIsFinal`, `QuarantineHeld` |
| `PerJobLimitsHold` | `PerJobConcurrency` |

The argument. None of the state properties is inductive alone. `complete_attempt`
and `begin_lifetime` write a run's row without looking at its state, so that a
finished run stays finished needs `AttemptsAgreeWithRuns`: only the newest
attempt of an executing run is in flight. That in turn needs the retry intents:
a run waits for a retry only after a known failure of its newest attempt, so the
attempts before a new one are known failures. `RunOK` joins these facts and the
type for one row, and `StoreInv` adds the types of the tables and that every run
in the table has a queue sequence below `nextSequence`.

To keep the proof small, each action is first shown to be of one of three shapes:
*quiet* (`QuietStep`: rows only settle), an *enqueue* (`Enqueues`: one new row over
settled ones), or an *admission*. `Settles` says that a row keeps its identity,
never starts, is never queued again, and changes nothing that matters once it is
terminal. There is one lemma per action for its shape; `StoreInvStep` and the
theorems about steps then argue over the three shapes only. The properties that
relate rows (`QueuedOverlap`, `CatchUpOrder`, `PerJobLimitsHold`) are inductive
relative to `StoreInv`. `PerJobLimitsHold` takes the member with the largest limit
of a set of executing runs and shows that the admission left room for the set.

Only model-checked: `GlobalConcurrencyHeld`, `SnapshotIsCurrent`,
`RemovedWithLastAttempt`, everything about `Daemon` and `ProcessRunner`, and all
liveness (fairness and `ENABLED` are outside the prover's reach).

## Plan

Next modules, in this order:

1. `Reconcile`: cursor comparison, enable and disable, startup and clock jumps,
   missed-run policies, start deadlines, catch-up limits (`schedule.rs`,
   `StoreAdapter::reconcile`), with the omitted and selected occurrences checked
   against a reference definition.
2. `AdmissionOrder`: the exact round robin with its scan window, shown to refine
   `Admit`, and fairness between jobs; `retry_delay` and `decide_retry` with
   saturation as functions.
3. Lost answers of the store in `Daemon`: commits whose error is seen by the
   caller, and the recognition of repeated completions.
4. `AttemptRunner`: the abstract promise of a runner, implemented by
   `ProcessRunner`, by the HTTP runner and by the Windows runner.
5. `WriterAdmission`: the two locks of `contention.rs`, with deadlines, crashes,
   deferral of background work and its progress.
6. `OutputRetention`: output files and rows, recovery, pruning, orphan removal and
   run retention with a crash between any two steps.
7. The daemon lock, wake-ups, and import with its recheck.
8. Server tokens, migrations, self-update, and the Windows journal and launch gate.

Next theorems: `GlobalConcurrencyHeld`, `SnapshotIsCurrent` and
`RemovedWithLastAttempt`;
`TasksOwnTheirAttempts` for `Daemon`;
the safety properties of `ProcessRunner`.

## Not modelled

Parsing, rendering, redaction, routing, static assets, and the bindings of the
operating system are input and output with no protocol of their own. The other
parts that are missing so far are in the plan; `PROJECT.json` lists every part
with its status.
