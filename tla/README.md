# Optimus Agent: a TLA+ verification project

Optimus Agent is a coding agent written in Rust. A supervisor process owns a
public socket, starts worker daemons and forwards the commands of terminal,
editor and chat clients to them; a worker hosts agent sessions, each with its
agent loop, its Python kernel, its scheduled jobs and its files. This directory
models the parts in which several processes, tasks or files must agree, checks
them with TLC on small instances, and proves some of the results with TLAPS for
every instance.

Paths below are relative to `src/crates/pi-coding-agent/src/` unless they start
with `src/`; `daemon/` stands for `modes/daemon/`.

## 1. Inventory

| Component | State it keeps | Operations | Interacts with | What is hard |
|---|---|---|---|---|
| Command journal (`daemon/command_recovery_journal.rs`) | append-only file, map of commands, record count | begin, record a result, acknowledge, load, compact | the supervisor's request handler | crashes between dispatch and record, torn writes, compaction under load |
| Request handler (`daemon/native_supervisor.rs`, `handle_line`) | one task per received line | ownership check, journal, dispatch, record, answer | journal, ownership, workers | two copies of one command, an acknowledgement that overtakes a handler |
| Daemon client (`daemon/daemon_client.rs`) | pending requests, connection, queue of replays | request, reconnect, replay, settle, give up, acknowledge | supervisor socket | a hello handled too early, deadlines, a late answer |
| Supervisor ownership (`daemon/daemon_supervisor_ownership.rs`) | registry records, guard directory, shutdown admission | acquire, renew, assert, release | other supervisors, updaters, the request handler | a guard lost while its holder works, an admission that expires under its renewal |
| Workers (`native_supervisor.rs`, `daemon/worker_recovery_journal.rs`) | worker table, recovery journal | launch, adopt, recover, evict, stop | sessions, clients | recovery racing a close, eviction racing a command |
| Kernel boot gate (`core/kernel/boot_gate.rs`) | free permits, queue of waiters | acquire, release, abort | every session that starts a kernel | aborts racing grants |
| Lock files (`utils/dir_lock.rs`) | a file published by `link(2)` | try to acquire, judge, reclaim, restore, release | `core/kernel/bootstrap.rs`, `daemon/daemon_mode.rs` | every system call interleaves with other processes, crashes |
| Scheduled jobs (`core/cron_jobs.rs`) | jobs and claims, a file per session; timer, lanes | create, cancel, pause, resume, claim, dispatch, record, recover | sessions, users, the clock | overlapping batches, crash after a claim, edits racing the timer, a file that fails |
| Scheduled prompts (`daemon/daemon_mode.rs`, `run_cron_job`) | the dispatch under way | checks, admission, prompt | scheduler, session | a job cancelled while its prompt is admitted |
| Mutation drain latch, update restart (`daemon/mutation_drain_latch.rs`, `daemon_mode.rs`) | count of running mutations | begin, end, wait | every mutating command, the scheduler | a lost wake-up, a restart that never drains |
| Message delivery journal (`daemon/agent_message_delivery_journal.rs`) | journal of messages between agents | record, deliver, settle | sessions | duplicates after a crash |
| Session lease (`core/session_lease.rs`) | lease directory of a session, guard directory | acquire, release, sweep | other processes that open the session | a crash with lease or guard, two processes that reclaim at once |
| Agent session queue (`core/agent_session/task_queue.rs`, `commit_fence.rs`, `core/prompt_admission.rs`) | queue of inputs, fence, epochs | admit, commit, clear, stop | agent loop, scheduler | clear against admission |
| Agent loop (`src/crates/pi-agent-core/src/agent.rs`, `agent_loop.rs`) | active run, transcript, context, steering and follow-up queues, tool batch | prompt, continue, steer, follow up, abort, wait for idle | providers, tools, hosts | an abort at any await, queues drained before a check, two copies of the history |
| Providers, tools, terminal UI, pi-jev, kernel manager | streams, screens, processes | I/O | everything | not a protocol: left out |

What makes the modelled components correct:

* *Commands.* Until its client has acknowledged the answer a mutating command is
  dispatched at most once, an answer is a genuine result or an honest excuse, and
  a request is resent after a reconnect and never left without somebody to answer it.
* *Boot gate.* Never more kernels boot than allowed, every permit comes back, a
  waiter gets its turn or its abort.
* *Lock files.* One holder at a time, a live holder's lock is not destroyed, a
  dead one's lock goes away.
* *Scheduled jobs.* A due tick is prompted at most once, also across a crash; every
  claim is recorded or recovered; no wake-up is lost; a cancellation lasts.
* *Session lease.* One process has a session open; a crash does not lock it.
* *Supervisor ownership.* One supervisor per socket; none starts while an updater
  relies on its admission, and that admission is not taken from it.
* *Agent.* The history that goes to a provider is the one the host keeps and answers
  every tool call once; queued messages arrive once, in order, and what waits in a
  queue survives an abort; an aborted run ends.

## 2. Modules

| Module | Models | Checked by |
|---|---|---|
| `CommandOnce` | the abstract promise about one command: run, return, settle, acknowledge | refined by `CommandJournal` |
| `CommandJournal` | journal, request handler, resending clients, crashes | `MCCommandJournal` and three configurations |
| `CommandJournalProofs` | type correctness, the inductive invariant, safety, final results, nobody stranded, refinement | TLAPS |
| `KernelBootGate` | the semaphore and the startups that use it | two configurations |
| `KernelBootGateProofs` | type correctness, the limit, single grants | TLAPS |
| `DirLock` | the lock file, one system call per step, and its two users | `DirLock.cfg` |
| `DirLockProofs` | type correctness, exclusion, held locks, releases | TLAPS |
| `CronScheduler` | job files, claims, timer, batches, lanes, edits, recovery | `MCCronScheduler` and two configurations |
| `CronSchedulerProofs` | type correctness, wake-ups, ticks, one run per job, claims | TLAPS |
| `GuardDir` | the guard directory that session leases and the supervisor registry share | through the two modules that extend it |
| `GuardDirProofs` | what each step of the guard preserves | TLAPS |
| `SessionLease` | the lease of one session behind its guard | `SessionLease.cfg` |
| `SessionLeaseProofs` | type correctness, exclusion, attempts | TLAPS |
| `SupervisorOwnership` | registry and shutdown admission behind their guard | `MCSupervisorOwnership` |
| `SupervisorOwnershipProofs` | type correctness, one owner, the admission | TLAPS |
| `Agent` | run lifecycle, queues, turn loop, tool batches, abort, waiters | `Agent`, `MCAgent` and two configurations |
| `AgentProofs` | type correctness, paired and equal histories, diagnostics, wake-ups, losses, surviving queues, turns, order of delivery | TLAPS |

### CommandJournal

A key stands for a client id and a command id. `file.log[k]` is the sequence of
records of `k` in the journal; keys can be kept apart because `load()` treats
their lines independently. What joins them is a write that stopped before its
newline: `file.torn` says that the file does not end in one, and `file.atRisk`
holds the key whose record is complete but for it. `entries`, `recordCount` are
the journal's fields, `handler[k][n]` is the task for the n-th transmission, and
`client`, `connected`, `sent`, `ack` are the client's side. `dispatched` and
`results` are history.

`BeginRefused`, `BeginComplete`, `BeginPending`, `BeginNew` and `BeginFails` are
the verdicts of `begin()` under the journal's mutex; `Return` is the end of the
dispatch, and `RecordResult`, `RecordRefused`, `RecordFails` are what follows it,
the compaction included. `FailedAppends` lists what a failed append may have left
behind. `Crash` may happen inside any of the appends that are due.
`AppendAndCompact` has the compaction that fails after its rename, when the sync of
the directory does. `ReconnectSilent` is a reconnect whose hello is handled before
`connect()` has marked the client connected (`connected[k] = "silent"`).

### KernelBootGate

Each startup has a program counter. Every critical section of the semaphore's
mutex is a step, and so is every look at a waiter's outcome, because the outcome
has a mutex of its own and `settle()` happens outside the queue's mutex.

### DirLock

A file is represented by the pid in it: `lock` is the file at the lock path,
`aside[p]` the one a contender has moved to its own path, and `captured[p]` says where
the file is that it has opened. Inode numbers are not modelled: a contender keeps its
file open while it compares, and the number of an open file is not reused, so the
comparison tells whether the two are the same file. A dead process's pid becomes
`Ghost`. `user` says which of the two locks a behaviour is about: the bootstrap lock is
removed unseen and takes an absent owner for alive unless an old file is at the path
after all; the launch lock is removed after a look at its pid and takes an absent owner
for dead. Deleting a file set aside and giving up on one that cannot be restored are
both the end of `aside[p]`: nobody looks there again.

A contender may move a live lock aside by mistake and put it back (`Mislaid`). Until it
is back the path is free, and the code has no remedy for three uses of that gap: a
third process links a lock of its own, so that the restore fails; one that has opened
the file before reads an absent owner, which the launch lock takes for dead; and the
mover dies before the restore. The history variable `exposed` records them, and the
safety properties hold until then. A fourth case only leaks: a holder that releases
while its file is mislaid finds nothing to remove, and the restore brings back a lock
that names a living process.

### CronScheduler

`jobs` and `claims` are the session files. A batch is one call of `run_due()`:
`Fire`, `Enter`, `Claim`, `Leave`, `Rearm` follow its locked sections, then each
claimed tick goes through `Pick`, `LockLane`, `Start`, `SessionOpened`, `Admit`
and `Record`, the awaits of `queue_dispatch`, `run_dispatch` and `run_cron_job`.
A claim is identified by its batch; a batch may only start when no file holds its
name, which stands for fresh uuids. `op` is an edit (`EditRead`, then `EditWrite`, `EditFails` or `EditPanics`,
then `Wake`) or the recovery of a reopened session (`Register`, `RecoverRead`, then
`RecoverWrite` or `RecoverFails`, then `Wake`), one at a time: several edits at once are
not modelled. No lock covers an edit or a recovery from its reading to its writing, and
the scheduler's steps fall in between. With `StoreFails` every locking, reading and
writing of a file may fail: a file that cannot be read counts as empty (`Readable`),
so that `Rearm` arms no timer for its jobs, `write_jobs()` replaces it (`Replaced`) and
`run_cron_job` goes on without looking into the files (`RunUnlisted`); a write may fail
after some files have been replaced. Three history variables say when that has done
harm: `crossed` are the jobs the scheduler wrote since the operation under way read
them, `undone` the jobs whose newer version or live claim a write of an operation has
overwritten, and `missed` says that a failure has hidden a job from the timer. `Exit` is a crash or the end of a
`stop()`. `timer` is a deadline; 0 is a timer that fires at once. Interval
schedules stand for all recurring ones, and every recurring job is taken for a
heartbeat, which may be paused, resumed and deferred.

### GuardDir, SessionLease, SupervisorOwnership

Both files that need a critical section between processes build it from a
directory: `mkdir` enters, `rmdir` leaves, and a directory older than five seconds
is removed by whoever waits. `GuardDir` has this once, one system call per step:
`Make`, `Identify` (the stat that reads the mtime or the inode), `JudgeStale`,
`RemoveStale`, `GiveUp`, and `Age` for the five seconds. `guard` is the identity
of the directory, which may recur; `mine[p]` is what `p` has read for its own. A
stalled process loses its guard, and two waiters that judge the same dead guard
remove it twice. `keeper` and `evicted` are history.

`SessionLease` adds the lease directory, told by the process that wrote it:
`RenameCandidate` publishes, `ContenderActive`, `ContenderDead` and
`ContenderUnreadable` are the three verdicts about an existing one, `Reclaim...`
renames whatever is at the path. `CandidateVanished`, `ContenderUnreadable` and
`ReclaimFails` cost an attempt (`hitches` counts them), `AcquireError` ends the
acquisition, and `CheckGuard`, `RemoveGuard` are
`with_acquired_lease_guard` after its action. `Crash` may come at every step; the
lease of a dead process becomes `Ghost`'s.

`SupervisorOwnership` adds the registry (one socket: every record conflicts) and
the shutdown admission. A process calls the guard with a `task` and works through
its `step`s; `AssertHeld` and `Verdict` are the two assertions around the action.
`status` is what a process believes of itself: that is what the properties are
about, since a process whose guard was stolen has done its work and is told that
it failed. `fresh` is the unexpired term of an admission, `confused` records that
an inode was read from, or is shared with, somebody else's guard.

### Agent

One step is the code between two awaits of the loop, or between two locks where
another thread can come in. `pc` follows `run_agent_loop` and `run_loop`:
`prompts`, `poll`, `top`, `inject`, `request`, `stream`, then `tools` and `turnEnd`
or `answer` and `end`, the three polls, `end` or `failed`, `finish`. `transcript` is
`state.messages` as the listeners build it, `context` the loop's own copy. An
assistant message is the number of its tool calls, so that a history is a sequence
of inputs, responses and results. `batch` is the tool batch: which calls have
started, ended and been answered. The provider, the tools and the hooks of the
host answer, fail or stop the run at will.

`held` is what a `continue_()` has drained before it enters `run_with_lifecycle`,
which may refuse it (`ContinueBusy`). `FinishTake` and `FinishSettle` are the two
halves of `finish_run`, and `WaitClone`, `WaitEnable`, `WaitCheck`, `WaitReturn`
the steps of `wait_for_idle()`. `ReadGeneration` and `SteerActive` are a parent that
addresses a diagnostic to a run. `log`, `order`, `lane`, `overtaken`, `sent` and
`spent` are history; `spent.drained` is what an abort found in the loop's hands or a
refused `continue_()` had in its own.

## 3. Runs

| Run | Instance | Shows |
|---|---|---|
| `CommandJournal` | 2 commands, 2 transmissions, 1 crash, compaction from the third record | at most one dispatch, genuine answers, durable memory, final results, nobody stranded, refinement of `CommandOnce` |
| `CommandJournalSilent` (violation) | 1 command, 2 transmissions, 1 crash | a request is not resent after a reconnect |
| `CommandJournalTorn` (violation) | torn writes allowed, 2 crashes | a command is dispatched twice |
| `KernelBootGate` | 4 startups, 2 permits, all may abort | limit, single grants, aborted waiters end |
| `KernelBootGateLeak` (violation) | 2 startups, 1 permit | a permit is lost |
| `DirLock` | 3 processes, either lock, deaths while holding, removing, verifying or restoring | until a gap is used: exclusion, no held lock destroyed, a release removes its own lock; stale locks go |
| `CronScheduler` | heartbeat and one-shot job in a session each, 2 batches, 2 instants, 1 exit, files may fail | ticks at most once unless undone, no lost wake-up unless missed |
| `CronSchedulerLive` | 1 heartbeat, create, pause and resume, 2 batches, 3 instants, 1 exit | no orphaned claim, one run per job, due jobs are claimed, claims end |
| `SessionLease` | 2 processes, 2 guard identities, 3 attempts, one sweeper, 2 mishaps (crashes and failing file operations) | exclusion, attempts run out only when hindered, dead leases go |
| `SupervisorOwnership` | 2 supervisors, 1 updater, 2 guard identities, 1 crash | one owner, admissions honoured and kept |
| `AgentQueues` | 3 messages in any lane, steering one at a time, follow-ups all at once, 2 runs, 2 responses | order, one steering message per turn, queues survive |
| `AgentRuns` | 1 message, 1 diagnostic, 1 waiter, 2 tool calls, 2 runs, 2 responses | answered calls, equal histories, no lost wake-up, aborted runs end |

The violation runs each quote the sentence of the repository they contradict; see
`findings` in `PROJECT.json`. `TornAppends`, `StoreFails`,
`Kinds` and `CrashPoints` turn behaviours of the code on or off:

| Left out of | Behaviour | Why |
|---|---|---|
| `CommandJournal` | `TornAppends` | it breaks `NeverReplayed`: run `CommandJournalTorn` |
| `DirLock` | deaths before the rename | endless ones break `StaleLockGoes`: nobody gets to reclaim the lock. The safety theorems have deaths at every step |
| `CronScheduler` | pausing, resuming, cancelling; a third instant | size; the theorems have all edits and any clock |
| `CronSchedulerLive` | `StoreFails` | it breaks `NoOrphanClaim` (below), and a file that never works serves nobody |
| `CronSchedulerLive` | cancelling | size; in the model a cancelled job is a paused one that nothing resumes |

Where the code breaks a safety property in a corner, the property names that corner
with a history variable and holds everywhere else, and the run has both: `exposed`
(`DirLock`), `undone` and `missed` (`CronScheduler`), `evicted` (`SessionLease`,
`SupervisorOwnership`), `confused` (`SupervisorOwnership`), `overtaken` and
`spent.drained` (`Agent`). Without the exception the properties fail in these runs:
`MutualExclusion` when a third process links its lock into the gap
(`utils/dir_lock.rs:317`), `ReleaseRemovesOwn` when the launch lock's release removes
that one after comparing pids (`daemon/daemon_mode.rs:3169`), `TickOnce` when an edit or
a recovery writes back what it read before a claim (`core/cron_jobs.rs:668`, `1308`,
`2787`), `TimerCoversJobs` when the file of a job cannot be read while the timer is
armed (`core/cron_jobs.rs:441-449`, `1548-1579`).

### Properties known to fail

These follow sentences of the repository and are refuted by what the code does.
The modules state them; no configuration checks them, the instance shows how.

| Property | Instance | What happens | The sentence |
|---|---|---|---|
| `KernelBootGate.WaitersAcquire` | 2 startups, 1 permit, no abort, `FairSpec` | `acquire()` looks for a permit and queues its waiter in two critical sections; a release in between sees an empty queue | "FIFO: waiters acquire in the order they queued" (`core/kernel/boot_gate.rs:46`) |
| `CronScheduler.SkippedNotPrompted` | 1 heartbeat with edits | a job cancelled while the session admits its prompt is prompted and recorded as skipped | "reproduces the same outcome", where "the prompt aborts" (`daemon/daemon_mode.rs:11225-11230`) |
| `CronScheduler.CancelPersists` | 1 heartbeat with `"cancel"` among the edits | a claim written between reading and writing a cancellation is fresher and wins the merge | "the store write reports failure instead of pretending the jobs were persisted" (`core/cron_jobs.rs:1617`) |
| `CronScheduler.NoOrphanClaim` | one job in each of 2 sessions, `StoreFails = TRUE` | one unreadable file makes `claim_due` fail after other claims were written | "The parse error is returned to the caller, which records a diagnostic and treats the state as empty" (`core/cron_jobs.rs:408`) |
| `Agent.AbortKeepsQueue` | that of `AgentQueues` | a message is queued and drained by a poll; an abort before the head of its turn (`agent_loop.rs:931`) ends the run, and the message is neither in a queue nor delivered (nine states) | "THE contract: the abort must not discard what the user queued." (`src/crates/pi-coding-agent/tests/long_session_soak.rs:2855`); "interrupts now preserve the queue" (`src/resources/agent/CHANGELOG.md:215`) |

### Bounds

* Two keys suffice for the journal, since an append touches one key and a torn
  write harms one other. Two transmissions are the first copy and a resend. Compaction from the
  third record on makes it happen in every order with the other steps.
* Four startups with two permits let two waiters queue behind two holders. The
  violations need two startups and one permit.
* Three processes for the lock file: one whose lock is moved by mistake, the one that
  moves it and one that comes into the gap.
* Three instants and a period of one let a heartbeat fall due again while its
  previous tick is still dispatched (`CronSchedulerLive`); two batches let the calls
  overlap. With failing files two instants: a tick, and what is left of it. Two sessions
  let one file fail and the other not. Batches
  are interchangeable, so their symmetry is used in the safety runs.
* Two processes meet at a lease: its code compares with one owner, and the
  proofs cover any number. Three attempts are the code's, and `MaxMishaps = 2` is what
  it takes to use them up. The registry has three, so that two supervisors and an
  updater meet. Guard identities may recur in both runs.
* Three messages let one be delivered, one drained and one queued; two runs let a
  message outlive the run it was queued in. Two calls in a batch make an order of
  ends and a partial answer possible. Messages are interchangeable in
  `AgentQueues`, supervisors in `SupervisorOwnership`. The caps on diagnostics are
  the code's 32 and 256 made small. An idle agent may stop, so deadlock checking
  is off for `Agent`.
* A bounded clock and bounded exits end every behaviour of the scheduler, and a
  gate whose startups have all returned is idle: deadlock checking is off there.

### Fairness

* *Journal*: none. Every request has a deadline, so that a request always ends; what
  matters is whether somebody still has it, and `NeverStranded` and
  `ResentAfterReconnect` say that without fairness.
* *Boot gate*: every startup that can go on does, and one that holds a permit
  ends: `start()` has timeouts of its own.
* *Lock files*: a contender keeps trying (`BOOTSTRAP_LOCK_RETRY_MS`). Reading the
  owner is strongly fair: an unreadable file is a transient error. Nothing makes a
  holder finish.
* *Scheduler*: timers fire, batches and store operations are polled, sessions
  open and admit or refuse. The clock need not advance and nobody need edit.

* *Session lease*: whoever wants the session asks again, a waiter keeps trying for
  the guard (strongly fair: others may take it in between), and file operations fail
  at most `MaxMishaps` times. Nobody need release and nothing keeps a process alive.
* *Agent*: weak fairness of the loop, one task. Every await in it is raced with the
  abort (`race_with_abort`) or ends by the stream watchdog; listeners are awaited
  without such a race and are taken to return. Hosts need do nothing.

## 4. Proofs

`CommandJournalProofs` works for any finite set of keys, any responses and any
bounds. `TypeCorrect` needs no assumption on writes. The safety theorems assume
`~TornAppends`. Their inductive invariant `Safe` says, besides the properties:
the file never ends in a torn line; an unacknowledged key that was dispatched has
an open entry in the file (this is what makes `NeverReplayed` inductive: memory
is lost in a crash, so the fact that forbids a second dispatch must be in the
file); a handler that dispatches or holds a result belongs to a dispatch; recorded
and answered responses are among the results. `AtMostOnce`, `AnswersGenuine` and
`MemoryIsDurable` follow; `Refinement` shows that every step is a step of
`CommandOnce` or leaves its variables alone. `ResultsAreFinal`, the action property
`RecordedStaysRecorded`, needs one fact more, `Alone`: an unacknowledged command has
at most one handler between `begin()` and the end of `record_result()`, and while
there is one its entry is pending. Where a result is recorded, no handler is left
that could append a second one, not even in a crash; appends for other commands and
compactions leave the lines of this one readable (`OthersKeepResult`). `NobodyStranded`
has no hypothesis on writes; `NeverStranded` is inductive over the types.

`KernelBootGateProofs` works for any finite set of startups and any positive
number of permits. The inductive invariant counts permits: the free ones, those of
running and granting startups and those granted and not yet noticed are at most
`Permits`, a queued startup is queued once and not granted, and a startup that is
being granted is in no other hands. `Concurrency`, `SingleGrant` and `TypeCorrect`
follow.

`DirLockProofs` works for any number of contenders of either lock and deaths at every
step, without hypotheses; `Exclusion`, `HeldLocksExist` and `ReleasesOwn` hold until a
gap is used. The invariant `IInv` says of every behaviour that a file is aside only
between the rename and the end of the restore, and that an open file is where it is
said to be; and, until a gap is used (`Sheltered`), that the path is free while a file is
mislaid and no second one is, that a holder's file is at the path or mislaid, that
a pid which a contender has read is that of the file it has open if that is at the
path or mislaid (`ReadTrue`), that a contender which has judged an owner dead has not
opened the file of a holder (`JudgedIsDead`), and that there is one holder.

`CronSchedulerProofs` works for any jobs, sessions, batches, period and bounds, all
edits, every failure of a file operation and every interleaving of edits and recoveries
with the scheduler. `TypeCorrect`, `TimerCovers`, `PromptedOnce` and `JobRunsAlone` have
no hypotheses. The invariant of `TimerCovers` adds that a running scheduler has a batch
that claims or has claimed, and that no due time in the files, or in the snapshot of an
edit, is further away than the clock and a period allow (`Wound`). That of `PromptedOnce`
(`Once`) has every handled tick before the next due time of its job, in the files but for
the jobs in `undone`, in the snapshot of an operation but for those in `crossed` as
well; a claimed tick has not been prompted yet, and no two batches have the same. That
of `JobRunsAlone` (`Owned`) has every tick in a batch's hands claimed by this batch in the
file, unless its job is `undone`. `ClaimsAccounted` assumes that file operations succeed: a
visible claim belongs to a batch that will record it, or to a session that is being
recovered, and a batch that has not claimed yet owns none (`Accounted`).

`GuardDirProofs` shows once what every step of the guard preserves: `GuardTypeOK`
and `GuardKept`, that whoever is inside made the guard that is there unless somebody
was evicted. `SessionLeaseProofs` and `SupervisorOwnershipProofs` cite these lemmas.

`SessionLeaseProofs` works for any set of processes, any number of attempts above
one and any number of crashes and failing file operations. `LeaseExclusive` alone is not inductive: a process that
is about to reclaim must still see the lease it has judged. The invariant adds that
only a process behind the guard reclaims and a release has given up its handle
(`CallsMakeSense`), and that, without an eviction, a lease judged dead is still dead and
one being released is still the releaser's (`ReclaimsOnlyDead`). `FailsOnlyHindered` needs
the count (`AttemptsAccounted`): every attempt that is gone was spent on a failing file
operation, but for one that has reclaimed the lease, and behind that one the path is
free.

`SupervisorOwnershipProofs` works for any supervisors and updaters. Without confusion
two processes have the same identity in `mine` only if they are the same, so the
process whose `mine` is the present guard is unique, and a verdict "holder" implies
that everything since `AssertHeld` happened under one guard (`Known`, `Consistent`); the
invariant ties each `step` to what the registry (`Registered`, `Vacant`)
and the admission (`NoAdmission`, `ReadStands`) contain while that guard stands.

`AgentProofs` works for any messages, diagnostics, waiters, queue modes, caps and
bounds. `HistoryPaired` and `RequestIsTranscript` share one invariant, `History`.
Neither holds in the middle of a turn, so the invariant says what holds instead:
`Sync` has the context ahead of the transcript by the prompts still to be emitted,
behind it by the results of the open batch, and equal to it elsewhere; `Pairing` has
the transcript paired except behind the response that is being answered, where the
context is a paired history and that response. `PairedAppend` and `PairedBatch` are
the two facts about sequences that close the turn: a message or a response without
calls, and a response with all its results, keep a history paired.
`DiagnosticsStayInRun` follows from `Addressed`, which says the same of the
diagnostics the run holds and of those its loop has drained, and needs that messages
and diagnostics are disjoint. `NoLostWakeup` is inductive over the types.

The way of a queued message is followed by three more invariants. `OnTheWay`, for
`LossBounded`: what the loop has drained it holds only until the head of the turn,
unless the run is aborted (`Loaded`); a message that was not queued is nowhere in the
agent, and one at a time at most one steering message is out of its queue at once
(`Fed`). With it `Losses` counts: the messages nobody will see any more, those in the
hands of an aborted loop included, are at most the aborts and the refused
continuations together; without these included an abort would be paid for a step
later than it is counted. `QueuesSurvive` needs no count and no queue mode: a queued
message that is not kept is in `spent.drained` (`Survives`). `Turns`, for `OneSteeringPerTurn`: the steering messages of
the transcript are apart, and wherever the loop may deliver one, a response follows
the last (`Answered`), except that a `continue_()` which starts with one skips the first
poll. `InLine`, for `DeliveredInOrder`: for any two messages of one queue, the
earlier one is ahead on the way queue, loop's hands, log (`Leads`), or the later one
was overtaken; `Fresh` says that a diagnostic waits in one run only.

Every safety invariant, every action property and the refinement that a passing run
checks is stated by a theorem. Only model-checked: liveness (`AbortedSettles`, `StaleLockGoes`, `DueIsServed`, `ClaimsEnd`, `DeadLeaseGoes`,
`AbortedRunEnds`), which needs fairness and ENABLED, out of the prover's reach; and what
the violation runs show, since each is a counterexample.

## 5. Not modelled

The phase updates, the startup fence and the legacy registry of the supervisors;
`reset()`, changes of queue mode at run time, custom tails, message updates, metrics,
inference state and source capture of the agent; two threads that start a run at
the same instant (`agent.rs:908` checks and sets under two locks, one step in `Begin`).
Two cron edits or recoveries under way at once. A change of ownership between
`assert_current()` and `begin()`, or before the record, of the request handler
(`native_supervisor.rs:3537`, `3551`): each pair is one step. I/O errors while a
supervisor scans the registry, which take an unreadable directory for no owners and
rename an unreadable record away (`daemon_supervisor_ownership.rs:1290`, `1330-1337`,
`1481`), and overlapping renewals of one record (`355-363`). Contents of commands and responses, formatting, logging, access rights; framing
and authentication of the socket; legacy lock directories and the sweep of old
candidate files; parsing of schedules, rebinding of sessions and the one-file mode
of the job store; everything listed as `not_modelled` in `PROJECT.json`.

## 6. Plan

1. `MutationDrain`: the latch with its users, the command handlers and the
   scheduler's dispatches; the drain before an update restart; no lost wake-up,
   no mutation after the drain.
2. `WorkerRecovery`: worker table, close, recovery ladder and eviction of the
   native supervisor with the worker recovery journal.
3. `SessionAdmission`: task queue, commit fence and prompt admission with clear
   and stop; compose with `CronScheduler`'s `Admit` and with `Agent`'s queues.
4. The startup fence; the composition of `SupervisorOwnership` with the loss of
   ownership in `CommandJournal`; the message delivery journal.
5. Proofs: the theorems of the modules above; the safety part of each new
   composition as a refinement of what its parts promise.
