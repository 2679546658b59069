# A formal model of the Kimi Code agent engine

This directory holds TLA+ models of the control core of `packages/agent-core-v2`,
the engine behind the Kimi Code CLI, and of `packages/minidb`, the database beside it:
the configurations that model-check them with TLC, and theorems about them that TLAPS
checks. Paths below are relative to `packages/agent-core-v2/src` unless they start with
`packages/`; those about minidb are relative to `packages/minidb/src`.

## 1. The system

The repository is a TypeScript monorepo. The engine (`agent-core-v2`) runs sessions;
a session runs agents; an agent owns a conversation, and a *turn loop* that feeds the
conversation to a model, runs the tools the model calls, and repeats until the model
has nothing more to do. Everything runs on one JavaScript thread: code is never
interrupted until it awaits, and at every await anything else may call in. State that
must survive the process is written as records to a per-agent journal (`wire`), from
which models are rebuilt on resume. Around the engine stand a database (`minidb`), an
HTTP/WebSocket server (`kap-server`), terminal, desktop and web clients, an older
engine (`agent-core`) and adapters for providers.

### 1.1 Inventory

| Component | State | Operations | Talks to | Hard behaviour | What makes it correct |
|---|---|---|---|---|---|
| Turn loop `agent/loop` | queued turns, the active turn, step queues per turn, the standalone queue, held admissions, lease depth, waiters of `settled()` | `enqueue`, receipt `abort`, `cancel` of a turn or a step, `tryAcquireQuiescence`, `settled`, `dispose`, `run` | everyone that sends work: prompt, task, goal, hooks, swarm | cancellation at every await, subscribers that call back, leases against sends, retries | one turn at a time in order; every turn ends once and leaves nothing; no sender forgotten; a lease means quiet |
| Turn clock `agent/loop/turnOps` | next id, cancelled reservations (persisted) | replay of `turn.prompt`, `turn.cancel` | loop, transcript | ids are counted twice, live and on replay | the two counts agree |
| Step retry `agent/stepRetry` | last failed driver, attempts | error handler, resets | loop | a wait that cancellation races with | bounded attempts, no message twice |
| Prompt queue `agent/prompt` | active prompt, pending prompts, launching flag, steered prompts | `enqueue`, `steer`, `abort`, `inject`, `retry`, `clear`, `startNext`, `settle` | loop, compaction, hooks | state read before an await and used after it; waiting for compaction | every prompt handle completes; order; one active |
| Full compaction `agent/fullCompaction` | the running compaction, counters per turn, persisted phase | `begin`, `cancel`, worker, block of a step, overflow recovery | loop, context, prompt | completion against cancellation; overlap with a turn or undo | the context is edited by one owner at a time; one final record |
| Undo `agent/undo` | a chain of undo calls | `undo` | loop lease, compaction, context | awaits under the lease | nothing else edits the context |
| Goal driver `agent/goal` | goal status, budget, continuation | create, pause, resume, drive | loop | continuation turns against user turns and deadlines | a paused or finished goal starts nothing |
| Tool executor `agent/toolExecutor`, dedupe `agent/toolDedupe` | running and queued calls of a batch; per step, the original of each equal call and its deferred result | `execute`, preparation and vetoes, scheduler, abort with a grace period, finalization | loop, approval, plan, prompt | conflicting resources, tools that outlive an abort, calls that wait for each other's result | no two conflicting calls overlap, nor swap; equal calls run once and are answered alike; the batch ends |
| Background tasks `agent/task` | tasks and their output, waiters, persisted facts | register, detach, stop, wait, notify | loop, persistence | process exit against stop and timeout; notification once | terminal once; one notification |
| Context memory `agent/contextMemory` | messages, open steps, checkpoints | append, loop events, undo, compaction | wire | half-written steps on replay | replay equals live |
| Wire journal `wire` | models, append log, flush state | dispatch, flush, restore, migrate | persistence | crash between records | replay equals live |
| Interactions, questions, approvals `session/interaction` ... | pending requests | request, answer, cancel | clients | answer against abort | each answered once |
| Swarm `session/swarm` | batch window, retries | run, cancel, suspend | subagents | rate limits, timeouts | window respected, every item reported |
| Cron `session/cron` | jobs, next due time | add, tick, fire | loop | missed ticks | no lost or double fire |
| Agent lifecycle, session activity `session/agentLifecycle` | registry of agents | create, remove | loop (`cancel`, `settled`, `dispose`) | removal of a busy agent | removal settles first |
| External hooks `agent/externalHooks`, interruption reminder | one-shot flags | hooks around prompt, tools, stop | loop, prompt | enqueue after an await | at most one continuation |
| LLM requester, tool approval, MCP, context projector, profile, plan, skills, config, auth, plugins, workspace | assorted | I/O and conversion | loop | reconnection, token refresh | see `PROJECT.json` |
| `packages/transcript` | folded facts of a session, among them a turn counter | cold fold of the journal | journal | mirrors the engine's count | same id for the same turn |
| `packages/minidb` | store in memory, WAL object and its batches, log and snapshot files, rotate lock, lock file | set, del, batch, compact, backup, recover, lock | sessions index | writers against rotation, I/O errors and power losses between two steps | answered writes survive; no write is refused by a rotation; a backup is consistent |
| `packages/kap-server` | event sequence, subscribers | broadcast, replay | clients | reconnect, gaps | no gap or duplicate |
| `packages/agent-core`, `pi-tui`, `klient`, `node-sdk`, `acp-adapter`, `kosong`, `oauth`, `kaos`, `telemetry`, `tree-sitter-bash`, `migration-legacy`, `apps/*` | | | | | older engine, clients, formats and I/O: not modelled |

### 1.2 How the modelled parts interact

A sender calls `loop.enqueue(request)`. The request's *admission* says what it may do:
`newTurn` (prompts, retries, goal continuations) always opens a turn;
`activeOrNewTurn` (task notifications, injected steers) joins the active turn or opens
one; `activeOrNextTurn` (continuations, the stop hook) joins the active turn or waits in
the standalone queue for the next; `activeTurnOnly` (steers) needs an active turn.
While somebody (undo) holds a quiescence lease, requests are held and admitted later.
A turn gets its id when it is created; when it is started a `turn.prompt` record goes
to the journal without the id, and a `turn.cancel` record with the id when it is
cancelled in the queue. Each step of the running turn takes one batch of the turn's
queue, appends its messages to the context, asks the model, runs tools and hooks. The
loop-continuation hook enqueues the next step after tool calls; the step-retry handler
puts a failed driver back at the head.

## 2. The modules

| Module | Models | Kind |
|---|---|---|
| `TurnOps` | `agent/loop/turnOps.ts`: the clock and its two reducers | pure operators |
| `Subsequences` | what a filter keeps of a list, by position (the standard `SelectSeq` is a recursion, which hides it from the prover) | pure operators |
| `OperatorLemmas` | what advancing the clock skips and keeps; what appending, removing and filtering do to a list | proofs |
| `TurnClock` | turn identity: reservation, start, cancellation, restart, and the counter of `packages/transcript/src/history/foldFacts.ts` over the same records | abstract specification |
| `TurnClockProofs` | the inductive invariant of `TurnClock` and what follows | proofs |
| `AgentLoop` | `loopService.ts`, `stepRequestQueue.ts`, `stepRequest.ts`, `loopContinuationService.ts`, `stepRetryService.ts` | detailed specification |
| `TurnQueue` | what `loopService.ts` promises to those who ask for turns: order, cancellation, leases, dispose | abstract specification |
| `AgentLoopTurns` | `TurnQueue` instantiated over `AgentLoop` | refinement |
| `AgentLoopProofs` | the inductive invariant of the loop, every safety and action property checked of it, and that it implements `TurnQueue` | proofs |
| `AgentLoopClock` | `AgentLoop` with history variables; `TurnClock` instantiated over it | refinement |
| `AgentLoopClockProofs` | that the refinement holds, and what it carries over | proofs |
| `PromptQueue` | `agent/prompt/promptService.ts`, composed with `TurnQueue` and what it sees of `fullCompactionService.ts` | composition |
| `PromptQueueProofs` | the inductive invariant of handles, launch and loop, and what follows | proofs |
| `ToolBatch` | `toolExecutorService.ts`, `toolScheduler.ts`, `toolDedupeService.ts`: the tool calls of one step | specification |
| `ToolBatchProofs` | the invariants of the scheduler, of the originals and of the answers | proofs |
| `FullCompaction` | `fullCompactionService.ts`, `compactionOps.ts`, the context of `contextMemory` with undo and clear | composition of worker, turn and editors |
| `FullCompactionProofs` | the agreement of journal, service, workers and the waiting turn; what the context carries | proofs |
| `MiniDb` | minidb's `index.ts`, `wal.ts`, `compaction.ts`, `recovery.ts`: write path, log, rotation, backup, power loss | specification |
| `MiniDbInvariant` | what holds of store, log and files between two steps, before an I/O error and always | inductive invariants |
| `MiniDbProofs` | that a rotation refuses no write, that power losses and backups leave prefixes, and that answers survive I/O errors too | proofs |
| `MCAgentLoop`, `MCAgentLoopClock`, `MCToolBatch`, `MCMiniDb` | sets of requests, calls and frames with the options their senders use | instances for TLC |

### 2.1 `TurnOps` and `TurnClock`

`clock` is the persisted `TurnModel`; `AdvanceTurnClock` is the loop of
`advanceTurnClock` in closed form (the first id from `next` that is not cancelled).
`queued` is the list of ids in `loopService.pendingTurns`, `nextReserved` the
`loop.nextReservedTurnId` state (0 stands for undefined: the code takes the maximum
with the clock, which is at least 0). `fold` is the counter in `foldFacts`, which skips
cancelled ids when a cancellation arrives *and* when a prompt arrives, where the engine
skips after a prompt; `started` records, for each start, the id the engine uses and the
ids both readers give. `phase` keeps the synchronous stretch between a call of
`pumpTurns` and its effect in one piece. `Restart` loses everything that is not
persisted. `Spec` lets a restart happen when no cancellation lies ahead of the clock,
as after a graceful shutdown, which cancels the queue in order; `SpecCrash` at any
time.

### 2.2 `AgentLoop`

A turn is named by the request that created it. Variables follow the service's fields:

| Variable | Code |
|---|---|
| `reqState`, `appended` | `StepRequest.state`; how often its messages were appended |
| `asg` | the entry of `pendingAssignments` and how its promise ended |
| `work[t]`, `notes[t]` | the queue of turn `t` (`NoTurn`: the standalone queue), split by `mergeable`: only the order within each half can be observed, because a batch takes the first of `work` and all of `notes` |
| `held`, `admitting`, `releasing`, `quiescence` | `heldAdmissions`, the copy `releaseQuiescence` iterates over, where it is, `quiescenceDepth` |
| `pendingTurns`, `active`, `turnState`, `turnId`, `nextReserved`, `clock` | the turns and their ids |
| `home`, `stepState` | the turn whose `steps` map holds the request's step, and `step.state` |
| `turnAborted`, `stepAborted` | the abort signals of the active turn and of the running step |
| `pc`, `driver`, `steps`, `finish`, `hookStop`, `result` | where `runTurn`/`run` stands, `runtime.current`, and what the step or the run returned |
| `failedDriver`, `failedAttempts` | the state of step-retry |
| `waiter`, `disposing` | callers of `settled()`, the dispose flag |

**Atomicity.** A stretch of JavaScript between two awaits cannot be interrupted, and
most actions are one such stretch. Where a stretch is long it is cut into actions by a
value of `pc` in `SyncPhases` ("pump", "starting", "begin", "release", "ending") or by
`releasing`: while one of these is under way no other actor may act, except in
"ending", where the synchronous `turn.ended` subscribers run and may enqueue, cancel and
abort. The awaits are "exec" (before-hooks, model, tools), "after" (after-step hooks),
"complete" (they returned), "recover" (the retry handler's wait), "requeued" and
"return" (the microtask between a settled outcome and the code that acts on it).

| Action | Code |
|---|---|
| `Enqueue`, `Admit`, `CreateTurn`, `AssignStep` | `enqueue`, `admit`, `createAndQueueTurn`/`createPendingTurn`, `assignStep`/`enqueueStep` |
| `AcquireQuiescence`, `ReleaseQuiescence`, `TakeHeld`, `AdmitHeld`, `Released` | `tryAcquireQuiescence`, `releaseQuiescence` |
| `CancelActiveTurn`, `CancelQueuedTurn`, `CancelStep`, `AbortHeld`, `AbortStandalone`, `Dispose` | `cancel`, `step.cancel`, the receipt's `abort`, `dispose` |
| `Settled`, `SettleIf` | `settled`, `maybeSettle` |
| `PumpTurns`, `StartTurn`, `PrepareTurn`, `EndTurn`, `Ending` | `pumpTurns`, `startTurn`, `runTurn` |
| `BeginNothing`, `BeginStep` | `beginLoopStep` |
| `StepFinished`, `StepFailed`, `StepFailedRetryable`, `StepInterrupted` | `executeLoopStep` and `handleLoopStepError` by outcome |
| `AfterStep`, `CompleteStep`, `Recover`, `Continue` | after-step hooks with the loop continuation, `completeLoopStep`, step-retry |

**Abstractions.** What the model answers and tools do is the choice among
`StepFinished`, `StepFailed`, `StepFailedRetryable`; a finish reason is one of three that
control flow tells apart; messages, telemetry, traces, timings and error payloads are
left out. Error handlers other than step-retry (full compaction, goal) are not part of
this module: an error they would take is, here, one nobody takes.

### 2.3 `AgentLoopClock`

Adds `fold` and `started` to `AgentLoop` as history variables, computed from what a step
of the loop starts and drops, and instantiates `TurnClock` with `queued` mapped to the
ids of `pendingTurns` and `phase` to the loop's `pc`. `TurnClockSpec` is `TurnClock!Spec`:
every step of the loop is a step of the clock or a stutter. TLC checks it on four requests
and TLAPS proves it for any finite number (section 4), so that what is proved of `TurnClock`
for all parameters holds of the turns the loop starts.

### 2.4 `PromptQueue`

`state[p]` is the state of the handle of prompt `p`; `pending`, `active`, `steered` are the
fields of the service, `launching` is the flag together with the prompt it is up for, and
`launchAt` the await `startNext` is suspended at: the submit hooks ("hook") or the
assignment of the turn ("assign"), which is late while a lease holds the request back. The
name of a prompt also names its turn. The loop is the one of `TurnQueue`, whose variables
`PromptQueue` extends and whose steps it takes in its own: `HookPasses` enqueues,
`AbortActive` and `Clear` cancel, and `OtherSends`, `OtherWithdraws`, `CancelTurn`,
`TakeLease`, `ReleaseLease` and `Dispose` are calls of others. `ending` counts the stretches
of synchronous `turn.ended` subscribers under way: a turn that fails at once inside one, or
while a lease is being released, has its own. For the same reason `AdmitHeld` admits what
was held one by one: between two admissions such subscribers may call in. Of a compaction
there is whether it is the current one ("running"), was cancelled while its worker has yet
to unwind, or is over; the end of the worker calls `startNext` through
`onDidFinishCompaction`.

| Action | Code |
|---|---|
| `Enqueue`, `Steer`, `AbortPending`, `AbortActive`, `Clear` | `enqueue`, `steer`, `abort`, `clear` |
| `StartNext` (an operator: its callers run it in their own step) | `startNext` up to the first await |
| `HookStops`, `HookPasses`, `Assigned`, `Refused` | `startNext` after its awaits, the `catch` and `finally` blocks |
| `Settle` | `settle` |
| `CompactionBegins`, `CompactionCancelled`, `WorkerEnds` | `begin`, `cancelActive`, the end of `compactionWorker` |

`recursing` records that `startNext` entered the recursion of section 3.1; nothing happens
after it, because the stack overflows before any other code runs. `startNext`'s
`turn === undefined` branch is left out: a request that opens a turn always gets one. A
request from outside does not come between the end of a turn and `settle`, which are two
microtasks apart; subscribers of `turn.ended` come before `settle` and may call in.

### 2.5 `TurnQueue` and `AgentLoopTurns`

`TurnQueue` is the loop as its senders see it. `turn[t]` is what became of the request `t`: it
is held back, waits, runs, ended in one of three ways, or was declined, which means that no turn
was opened for it (it joined another, was withdrawn, refused, or dropped by `dispose`).
`waiting` and `held` are the lists in the order of service, `running` is the turn that runs,
`lease` says whether anybody holds one. Steps, merging, retries, ids and the journal are gone,
and so is the choice by admission: a request of `MayJoin` may be declined, one that is not in
`MayJoin` always opens a turn.

| Step of `TurnQueue` | Step of `AgentLoop` |
|---|---|
| `LoopSend` | `Enqueue`, and the continuation that `AfterStep` sends |
| `LoopCancelQueued`, `LoopWithdraw` | `CancelQueuedTurn`, `AbortHeld` |
| `LoopEnds`, `LoopStarts` | `EndTurn`; the pump in `Ending` and in `ReleaseQuiescence`, `Released` |
| `LoopLends`, `LoopReleased` | the first lease taken, the last given back |
| `LoopAdmits`, `LoopDisposes` | `AdmitHeld`, `Dispose` |
| none | nested leases, `PumpTurns`, `StartTurn`, `TakeHeld`, every other step of the run |

`AgentLoopTurns` gives the mapping. `pumpTurns` returns with the next turn started, in the
stretch of code that called it; `AgentLoop` cuts that stretch, so while `pc` is "pump" the turn
about to start already counts as running (`AboutToStart`). Held requests are those of the copy
that `releaseQuiescence` iterates over and of the list, in that order.
`TurnQueueSpec` is `TurnQueue!LoopSpec` under that mapping.

### 2.6 `ToolBatch`

A call is its position in the provider's message; equal `key`s are calls of the same tool
with the same arguments. `stage` is where a call stands (prepared, queued, running,
settled, finalizing, waiting for an equal call, done), `active` the scheduler's
`activeTasks`, and `body` the promise of the tool itself, which goes on after an abort has
made its task give up: the two are apart because what must not overlap is the tools.
`deferred`, `registered` and `synthetic` are the maps of toolDedupe for the step.

| Action | Code |
|---|---|
| `PrepareSkipped`, `PrepareRejected`, `PrepareDenied`, `PrepareDuplicate`, `PrepareDeniedLate`, `PrepareRunnable`, `PrepareAllowed`, `PrepareThrows` | `prepareToolCall` and the listeners of `onBeforeExecuteTool`, by where the call leaves them: ahead of toolDedupe, at it, behind it |
| `Schedule`, `Startable`, `StartTasks`, `Finish` | `executeBatch`, `ToolScheduler.add`, `start`, `finish`, `startQueuedTasks` |
| `BodyEnds`, `GraceOver` | the tool's promise, `raceWithAbortGrace` |
| `TakeResult`, `DeliveryFails`, `FinalizeOriginal`, `FinalizeDuplicate`, `TakeSharedResult` | `finalizeToolResult` with its hooks, of several calls at once |
| `End`, `Abort`, `Dispose` | the end of `execute`, the turn's signal, the loop's `dispose` |

What conflicts with what is a symmetric relation on abstract accesses (`Conflicts`); the
content of results is left out, so that the answer of a call is the outcome and the call it
came from. `Finish` precedes `TakeResult` because the scheduler's `finally` is a microtask
ahead of whoever awaits the task.

### 2.7 `FullCompaction`

The context is a sequence of messages (an id and a kind; its size is its length); a summary
*covers* the ids it was made of, the note that stands for elided user messages those it
stands for. `worker[w]` is a run of `compactionWorker` with the await it is suspended at
("hooks", "request", "refresh", "inject"), the copy of the history it took (`snap`), and how
much of it its request still holds (`from`); `compacting` is `_compacting`, which holds at
most one worker, while cancelled ones live on until their await returns. `phase` is the
persisted phase. `turn` is a turn that appends messages, waits ("blocked") and recovers from
an overflow; `owed` is a history variable, the ids the context still has to carry.

| Action | Code |
|---|---|
| `BeginManual`, `CancelCompaction` | `begin` of a command, `cancel` |
| `HooksEnd`, `RequestIsAborted`, `Applies`, `FindsStale`, `RequestShrinks`, `RequestIsTooLong`, `WorkerThrows`, `RefreshEnds`, `InjectEnds` | `compactionWorker`, await by await, with `markCompleted`, `cancelActive` and the `catch` |
| `BeforeStep`, `StepAnswers`, `Recover`, `WakesTo...` | `checkAutoCompaction` before and after a step, `block`, the error handler of an overflow |
| `StartTurn`, `NextStep`, `TurnEndsItself`, `StepFails`, `StepIsAborted`, `CancelTurn` | the turn as far as it touches the context or waits |
| `Clear`, `UndoCuts`, `UndoEnds`, `Crash` | `clear` with its abort of the active prompt, `undo` under its lease, the end of the process with the replay that cancels a stranded phase |

### 2.8 `MiniDb`

A value is the number of the call that wrote it, a log a sequence of calls. `op[n]` is where
the promise of call `n` stands: parked at the gate of a rotation, past it, in the log,
refused by a sealed log and to be rolled back (`undo`), waiting to retry, answered. `queue`,
`inflight`, `flushing` and `walState` are the WAL object, `wal`/`synced` the file and how much
of it an fsync has confirmed, `oldSnapshot`/`oldWal` what a rename replaced and no fsync of
the directory has confirmed. `Survivors` are the pairs of files a power loss may leave,
`Replay` is `recover`. `log` is a history variable, the calls in the order in which they were
applied; `Without` stands for the filters over it. Until an I/O error, a power loss takes
what it loses out of `log`. After one it may not: a rollback may have put the value of a call
that was rolled back itself into the store again, where a snapshot finds it.

| Action | Code |
|---|---|
| `Call`, `PassGate`, `Commit`, `RollBack` | `set`/`del`/`batch`, the gate on `_rotateLock`, `commit`, `restoreKey` with `retryOnWalSeal` |
| `FlushBatch`, `BatchWritten`, `BatchSynced`, `BatchFails` | the flush loop of `wal.ts` under the policy `always` |
| `Compact`, `Fence`, `WriteRecord`, `SnapshotWritten`, `PreCopy`, `Rotate`, `Drain`, `DrainedTail`, `Drained`, `Close`, `RenameSnapshot`, `SyncDir`, `RenameWal`, `Reopen` | `compact`, await by await |
| `CompactFails`, `RotationFails`, `RecoverRotation` | its two error paths |
| `Backup`, `BackupFlushed`, `CopySnapshot`, `CopyWal`, `BackupDone` | `backup` without a compaction of its own |
| `Crash` | a power loss, and `recover` |

Callbacks that are due (`Due`) run before an I/O operation reports, as microtasks run before
the event loop goes on. The model assumes that what a power loss keeps of an unsynced log is
a prefix of it, that a directory is listed in any order, and that its fsync succeeds; the
order among writes that retry together is left open.

## 3. What TLC checks

| Run | Question | Bounds | Result |
|---|---|---|---|
| `clock` | do live ids, the replay and the fold of the transcript agree | 5 ids | holds |
| `clock_crash` | do they after a crash with a cancellation ahead | 6 ids | **violated** |
| `loop_turns` | order and settlement of turns under cancellation, failure, leases and dispose; are the steps of the loop those of `TurnClock` and those its senders expect of `TurnQueue` | 2 prompts, a notification, a steer, one lease | holds |
| `loop_admission` | leases, held requests, standalone queue, `settled()`, retries and merges: is any message appended twice, any sender forgotten | one request of each admission, 2 attempts, one lease, one waiter | holds |
| `loop_live` | turns end, held requests are admitted, `settled()` resolves, cancellation stands | prompt, notification, continuation, 2 attempts, 2 steps, one lease, one waiter | holds |
| `loop_carry_over` | does a steer carry into the next turn | prompt and steer | **violated** |
| `prompts` | one prompt at a time, in order; no handle lost or settled twice; no missed wake-up; every prompt settles | 3 prompts, a turn of another sender, a compaction | holds |
| `prompts_deferral` | does `startNext` leave a deferred prompt alone | 2 prompts, 1 compaction | **violated** |
| `tool_batch` | do conflicting tools overlap or swap; do equal calls run once and share their answer; does the batch end, after an abort too | 3 calls, every pattern of equal calls, 3 accesses | holds |
| `compaction` | do journal and service agree; is a message lost; does a stale worker do harm; do turn and compaction end | 2 workers, 3 messages, a block, an overflow, a shrink | holds |
| `minidb` | does every power loss leave a prefix with all answered writes; does a rotation refuse a write; is an undisturbed backup consistent; is every call answered | 3 calls over 2 keys (set, del, batch), one compaction, one incident | holds |
| `minidb_backup` | is every backup consistent | 3 sets, one compaction, one incident | **violated** |

*Bounds.* Requests are enqueued once each, so the number of turns and the length of
every queue is bounded by the number of requests; no other counter grows without one.
Three turns are needed for a queued turn to be cancelled between two others, five ids
for two cancelled reservations ahead of a queued one, one request of each admission for
every branch of `admit`. In `loop_turns` the notification opens the first of three turns, or joins
one, when it is sent and when it is released; with the steer and a lease the loop takes every
step of `TurnQueue`. A second nested lease (`MaxQuiescence` > 1) only delays the release; the
theorem about leases covers every depth. Three prompts let one be steered or
aborted between another and the active one; a prompt, a turn and a compaction is used once
each, so the state space of `PromptQueue` is finite without further bounds.
Three calls let one be queued behind another that is itself queued, and give equal calls one
that is denied, one that runs and one that repeats. Two workers let one unwind while the
next runs; three messages let one arrive during the request while an older one is elided
(`KeepMax` = 2, `HeadMax` = 1), and a fourth would be one more of the same kind. In
`MiniDb` an incident is an I/O error, a power loss or a backup: the run allows one, at every
step of a compaction and of three writes, of which two may meet the same key and one the
sealed log. Beyond the run, the safety properties and the invariants behind their proofs were checked
once each with two compactions and three incidents for two calls, with two incidents for three
calls of one key, and at random with five calls, three compactions and four incidents; all hold.
`SmallDelta` = 0 makes every tail worth copying ahead, so that the loop is exercised.

*Deadlock.* Loop, prompt queue and database are services: once every request or call of an
instance was sent and nothing runs, nothing is left to do, so their configurations switch
the deadlock check off, and so does that of the tool batch, which is over at its end. Getting
stuck is what `IdleIsDone` and the liveness properties exclude. The configurations of the
clock and of compaction (where a restart is always possible) check for deadlock.

*Fairness.* `AgentLoop!FairSpec` assumes weak fairness of `Loop` (the service's own code runs
on; model calls, tools, hooks and back-offs end in an answer, an error or an abort) and of
`ReleaseQuiescence` (undo gives its lease back in a `finally`). Nothing is assumed of
senders and cancellers. `PromptQueue!FairSpec` assumes the same of its own code, hooks, turns
and compactions together (`Own`) and of leases; `PromptsSettle` leaves out the behaviours
that enter the recursion of section 3.1. `ToolBatch!FairSpec` assumes that listeners, hooks
and the grace timer come to an end, never that a tool returns: `AbortEnds` needs no more, and
`BatchEnds` states the return of the tools as its premise. `FullCompaction!FairSpec` assumes that
requests, hooks and the awaits of turn and undo end, not that users act, nor that the process
ends. `MiniDb!FairSpec` assumes that callbacks run and I/O comes to an end, with success
or with an error. In the last three no step of `Progress` can be repeated for ever, so one
condition on the disjunction says as much as one on each.

Every property of a passing run has a mutant in `PROJECT.json`: the mapped definition is
replaced by a plausible wrong version, written next to it, and TLC finds the property
violated.

### 3.1 Disagreements between the code and its text

1. **Replay after a crash** (`clock_crash`). With turns 1, 2 and 3 queued behind a
   running turn 0, cancel 3, then lose the process. The clock stands at 1 and knows 3 is
   cancelled; 1 and 2 were never recorded. The resumed engine hands out 1 and, while it
   runs, 2 and 3 again; the clock skips 3, so the turn that runs as 3 is replayed as 4.
   `turnOps.ts` says the clock owns "cancelled queued reservations".
2. **Steers do not carry over** (`loop_carry_over`). `stepRequestQueue.ts` says
   agent-scoped requests carry into the next turn; `releaseActiveTurn` cancels the step
   of every queued request, which aborts it. This hits steers that arrive when a hook
   has stopped the turn, after the last batch was taken, or when the turn fails.
3. **A deferral that does not return** (`prompts_deferral`). While a compaction owns the
   idle agent, `startNext` puts the next prompt back, and its `finally` calls `startNext`
   again: nothing has changed and nothing on the way awaits, so it recurses until the
   stack overflows, which fails the prompt or ends the process through the handler of
   unhandled rejections. `enqueue` tests for the compaction before it calls `startNext`;
   `settle`, the `finally` block and the end of an older compaction do not. A prompt that
   waits behind one in its submit hook, a compaction begun meanwhile, and a hook that
   blocks are enough. A test of full compaction says such a prompt is deferred and
   replayed after completion.
4. **A backup that is not consistent** (`minidb_backup`). `backup` waits for a compaction
   that runs and takes `_rotateLock`, but `compact` looks only at `compacting`: one that
   begins during the backup (of a write that was past the gate, or of another caller)
   renames snapshot and log between the two copies. The old snapshot and the new log
   together lack answered writes. The comment of `backup` says "a consistent online backup".
   `UndisturbedBackup` shows that this is the only way.

### 3.2 Observations

What the models make visible and no text of the repository contradicts, or what no run
needs to repeat:

* A step cancelled while step-retry waits makes the handler decline, and the turn fails with
  the error that was about to be retried; the test of the loop on step cancellation
  (`packages/agent-core-v2/test/agent/loop/loop.test.ts:610`) covers a step that executes.
* A prompt that is being launched is found by neither `abort` nor `clear`: it runs.
* `completeLoopStep` overwrites a cancellation that arrives while the after-step hooks
  return; `CancelDuringStepStands` covers the windows before.
* In plan mode two equal writes of the plan file in one step both run, because the plan guard
  ends the adjudication before toolDedupe is asked, and the second is answered with the
  result of the first (`allowed` in `ToolBatch`).
* User messages that arrive while a compaction's request is under way may be elided by
  `applyCompaction`, whose note says that the summary covers them, which was made before. A
  newest message that exceeds the token budget leaves the request of the summary empty.
* A compaction cancelled after its summary was applied is journaled as cancelled although
  the context is compacted; its worker still writes `lastCompactedTokenCount` and injects
  messages, which may make the next compaction find its copy stale.
* minidb: when two writes of one key fail in one batch, the value of the first stays in the
  store (each rollback restores what its call found). The rollback of a failed delete looks
  only whether the key is absent, and undoes another delete that was answered; `AckedSurvive`
  therefore speaks of keys deleted at most once (`DeletedOnce`). The end of a backup clears the
  lock a compaction has taken meanwhile, whose writers then fail at the sealed log;
  `NeverRefused` speaks of undisturbed databases (`Faultless`). A snapshot may hold a write
  that is rejected later. `close()` rejects without closing when the compaction it waits for
  fails.

## 4. What TLAPS proves

All proofs hold for every value of the constants, under the assumptions named in the
modules: `MaxTurns` is a natural number (`MaxTurnsAssumption`); the four admission sets are
disjoint (`AdmissionAssumption`); scopes and continuations are requests of the kinds the
code gives them (`ScopeAssumption`); `NoTurn` is no request (`NoTurnAssumption`); of
`TurnQueue` and `PromptQueue`, requests that may join are requests, `None` is none
(`TurnsAssumption`), and prompts are requests that may not join (`PromptsAssumption`); the
bounds are numbers and frames write keys (`BoundsAssumption`, `ConstantsAssumption`);
conflicts are symmetric (`ConflictsAssumption`). Sets of requests, prompts, calls, keys and
workers need not be finite, except that the refinement of the clock bounds the ids by the
number of requests (`FiniteAssumption`).

Every invariant and action property that the passing runs check is a theorem; `PROJECT.json`
lists them. What each proof rests on:

* `TurnClockProofs`. The inductive invariant `ClockInv` says more than the properties:
  the ids from the clock to the next reservation are exactly the queued ones, ascending,
  and the cancelled ones (`ReservationsInv`); the fold may lag behind the clock only over
  ids it knows cancelled, and remembers the same cancellations ahead (`FoldInv`); what
  started is behind the clock (`StartedInv`). Without the split of the ids nothing says
  that the clock stands on the head of the queue when it starts, which is what
  `ReplayedIdentity` needs. From it follow `ClockInvariant`, `ReplayedIdentityHolds`,
  `TurnClockTypeOK`, `StartsAscendHolds`. `FoldMirrorsTurnModelHolds` needs only
  `MirrorInv` (types, `FoldInv`, the cancelled ids lie ahead of the clock), which
  survives any restart, and is therefore proved of `SpecCrash`: the two readers of a
  journal agree even where the engine disagrees with both (section 3.1, 1).
* `OperatorLemmas`. That `FirstNotCancelled` exists, is not cancelled, and that every id it
  passes is; what `Append`, `Tail`, `RemoveAt` and `Without` do to the members of a list, to
  their order and to a list without repetitions.
* `AgentLoopProofs`. `LoopInv` is one invariant in seven parts, because each property of the
  loop needs what another keeps.
  - `TypeInv`: the types, finitely many cancelled ids (or the clock might find no next one)
    and a driver for every step under way.
  - `LeaseInv`: held requests are admitted, and turns started, only after the last lease was
    given back. `LeaseIsQuietHolds` needs no more.
  - `TurnsInv`: a turn runs if and only if it is active, waits if and only if it is listed, ids
    ascend along the list and stay below the next reservation. `TurnOrderHolds` follows.
  - `PlacesInv`: a request is in one place, behind a lease, in the standalone queue or in the
    queue of its turn. This is what says that a turn that ends takes all its requests with it.
  - `OpenInv`: an open promise belongs to a request behind a lease or in the standalone
    queue, hence `OpenIsTrackedHolds`.
  - `StepsInv`: a request in a turn has a step, and the step under way belongs to the active
    turn; with it `EndedTurnIsSettledHolds`.
  - `SettleInv`: an idle loop has nothing listed, and whoever waits for a quiet loop waits for
    a turn, for held requests or for a pump that is due. `IdleIsDoneHolds` is a consequence,
    and `SettledIsQuietHolds` of the step that resolves a waiter.

  `MaterializedOnceHolds` goes action by action over everything that writes a request's
  state or the context, `EndedTurnIsFinalHolds` over everything that writes the state of a
  turn (no run checks it by itself: no step of `TurnQueue` touches the outcome of a turn).
  `CancelDuringStepStandsHolds` is a nested `[]`: once a cancellation reaches a turn while its
  step executes or waits to be retried, `Stands` holds (the abort signal is up and the step has
  yet to return, or it returned as cancelled, or the turn ended so), every step keeps `Stands`,
  and `Stands` excludes every other outcome.

  `LoopImplementsTurnQueue` is the refinement of section 2.5, which `loop_turns` checks too. The
  mapping looks at `pc`, so its definitions are expanded once, in `ViewProps`: in any state of
  `LoopInv` the queue as its senders see it (`View`) is given by the lists, `active` and one
  function of the requests (`Seen`), with the head of the list taken as running when `pc` is
  "pump". `View` needs `SettleInv` (the list and the copy are never both in use, none waits in a
  disposed loop) and `TurnsInv` (what is active runs, and nothing else). The steps need more:
  that a new request has neither turn nor place, and one behind a lease no turn, is `PlacesInv`;
  that a turn listed is queued, `TurnsInv`; that nothing is released while a lease is held,
  `LeaseInv`. Then one lemma per action shows which step of `TurnQueue` it takes
  (`EnqueueSends`, `DisposeDisposes`, ...), and `QueueStutters` that the others take none. So
  the safety proved of `PromptQueue` is proved over steps the loop takes.
* `AgentLoopClockProofs`. `LoopImplementsClock` is the refinement, step by step: each of the
  loop's actions takes one of the clock's or none. It needs `IdsInv` beside `LoopInv`: the ids
  of waiting turns lie between the clock and the next reservation, none of them is cancelled,
  and no more ids were handed out than requests opened a turn, which is the clock's
  bound. `LoopReplaysIdentity` and `LoopStartsAscend` then carry two theorems of
  `TurnClockProofs` over to the loop.
* `PromptQueueProofs`, over `TurnQueue`. `Inv` says where the loop has each turn (`Places`: waiting, held or
  running, and in the state its list says), what is known of handles (`Handles`: the queue
  has those nobody took; the prompt in its hooks has no turn yet; the active one has its
  turn and the steered ones with it; one prompt at a time is active or on its way), that
  pending handles are kept, and `WaitingIsServed`. `startNext` is proved once as an
  operator, and cited for every caller. All seven properties follow, two of them
  about steps (`HandlesSettleOnce`, `PromptsInOrder`).
* `ToolBatchProofs`. `SchedulerInv` ties stage, scheduler and tool together: a tool at work
  has an active task unless the turn was aborted, and active tasks do not conflict. After an
  abort no tool starts any more (`RunsItsTool`), which is why the orphans of the grace period
  do not break `ConflictsExcludedHolds`. `ProviderOrderHolds` follows because `Startable`
  holds a call back behind every conflicting one ahead of it, running or queued.
  `RunsOncePerKeyHolds` needs `OriginalsInv`: a call that may run has put the deferred of its
  key in place, and that is never taken back within a step. `DuplicateSharesAnswerHolds` needs
  `AnswersInv`: until a call is finalized its result is its own, and a placeholder only if the
  call stands for another; what a deferred resolves to is final. `TypeOKHolds` comes with it.
* `FullCompactionProofs`. `ControlInv` joins `OneCompaction`, `WaitsForLive` and the shape of
  turns and workers; nothing is assumed about the context, so those proofs hold whatever
  summaries, shrinks and undo do to it. `OneCompactionHolds` and `WaitsForLiveHolds` follow;
  `StaleIsHarmlessHolds` and `DoneIsJournaledHolds` are the action properties: every step that
  ends a worker either owns `_compacting` or leaves it alone. `NothingLostHolds` is about the
  data: with `HistoryInv` (a user's message covers itself) it is shown that what a summary is
  applied to is what its worker copied, followed by user messages at most, so that summary,
  kept messages and note cover what the context did.
* `MiniDbProofs`. `NeverRefusedHolds` rests on `RefusalInv`: before an I/O error, and unless a
  compaction begins during a backup, the log is not open only while a rotation holds the lock;
  calls are rolled back only during a rotation; and a call that retries exists only from its
  end to the end of the next snapshot, so that it never meets a sealed log a second time. The
  last part rests on the order of the event loop (`Due`): callbacks run before I/O reports.

  `RecoveredIsPrefixHolds` and `UndisturbedBackupHolds` add `DataInv` (`MiniDbInvariant`),
  which holds as long as `RefusalInv`'s premise does. Recovery computes values, but the
  argument never follows a computation: it says which calls have had their effect.
  `Holds(c, l, S, k, v)` reads: *v is what the calls of S, in the order of l, make of key k*. One
  lemma (`ReplayHolds`) says that replaying frames over a snapshot yields the effect of both,
  when the snapshot is right on the keys the frames do not write (`Completes`) and what it
  stands for came first; another (`HoldsUnique`) that the effect is unique. It is then enough
  that the calls a power loss leaves are a prefix. The parts:
  - `FlowInv`, `WalInv`: where each call is, and that platter, written tail, batch and queue
    follow each other in the order of the log. The calls are split into `Framed` (in a log, a
    batch or the queue), `Rejected` (refused by the seal, to be applied again) and `Base` (only
    the snapshot has them), and `Base` comes before `Framed`.
  - `StoreInv`: the store has the effect of the log on every key no rejected call wrote. While
    a call waits for its rollback nothing is claimed of its keys, and nothing is needed, since
    snapshots are written only when none is rejected.
  - `CopyInv`: the snapshot of a compaction reads the store over many steps, so some of its
    values are newer than others. Each is the effect of the calls before the fence (`Early`), or
    its key is written again by a frame after the fence (`Late`), all of which the new log gets.
  - `SnapInv`, `OldWalInv`: either name of a rename recovers alike. The platter completes old
    and new snapshot; the old log has all the new one has, and between them only what the
    snapshot, whose directory entry was confirmed before, holds. Without the fsync between
    the renames this part fails, as the mutant of `RecoveredIsPrefix` shows.
  - `BackupInv`: what the copy of the log covers with the snapshot has, with a call, all that
    came before it, and every call that was answered when the backup began.

  `AckedSurviveHolds` goes on after I/O errors, where almost all of that is false: the log on
  disk keeps frames of a batch that failed, the log object may stay closed, the store
  may hold what a rollback found long before. Its invariant `AnswerInv` therefore does not
  say which value a file holds, only that it is not too old. `Fresh(c, l, S, k, v)` reads: *v is
  what some call made of k, and no call of S wrote k after it*. The parts:
  - `AnswerFlow`, `AnswerWal`, `SeqInv`: a call with a frame never comes back for another
    (`Fixed`); platter, tail, batch and queue still follow each other in the order of `log`,
    and an answered call that the log on disk lacks came before everything in it; a record that can
    be rolled back is the last write of its key, which makes the rollback of a `set` harmless.
  - `AnswerStore`: the store is fresh with respect to the answered calls and those on their way to
    an answer (`Answerable`); what a call would put back (`prev`) is fresh with respect to
    those before it. Answers never come out of order, so the second turns into the first.
  - `AnswerSnap`, `AnswerTmp`, `AnswerOld`: a snapshot is fresh with respect to the answers that the
    log read with it lacks, unless the platter writes the key again: `ReplayFresh` then says
    that recovery is fresh with respect to all answers. A rename keeps this under either name.

  A key that several calls delete is exempt (`DeletedOnce`), because the rollback of a delete
  only looks whether the key is absent; section 3.2 says what happens to it. The step of a power
  loss before an I/O error is the one place where `AnswerInv` needs `DataInv`: there the lost
  calls leave `log`, and recovery must have no trace of them.

Left to TLC: the liveness properties, which are beyond the prover's reach, as is `ENABLED`.

## 5. Limits

* The senders of the loop are abstract: which service enqueues what, and when, is open. That is
  stronger than the code for safety. `PromptQueue` states what holds for one sender, over
  `TurnQueue`, which `AgentLoop` implements; the two are not composed in one module. The
  fairness of `PromptQueue` is stated of its own steps: that `AgentLoop` implements `TurnQueue`
  is a statement of safety, and the liveness of the loop is that of `loop_live`.
* `dispose` is called by the agent's lifecycle, never from inside a call of the loop
  (`Dispose` requires `Free`).
* During the synchronous release of a lease, `settled()` may resolve while the local copy
  of held requests is not yet admitted; `SettledIsQuiet` speaks of the lists the code
  looks at.
* Records observed from older versions (`context.append_loop_event` in `TurnModel`) are not
  modelled.
* `ToolBatch` is one step: the tools that outlive an abort into the next step, the streak of
  equal calls over several steps, its reminders and its forced stop are left out. A delivery
  hook that fails because the loop is disposed of skips the hooks behind it (`lost`); the
  liveness properties exempt it.
* `FullCompaction` leaves out undo of several turns at once, undo checkpoints, injections by
  the turn and the steps of its retries; a request's back-off is inside its await; too long,
  empty and truncated answers share one counter; a late answer to a cancelled request counts
  as refused by its signal. Prompts are deferred while a compaction runs, other turns are not.
  `NothingLost` exempts what a compaction had to drop from its own request.
* `MiniDb` is the database with values in memory and the policy `always`. Values on disk and
  their pointers, expiry, eviction, the indexes, the policies `everysec` and `no`, `close`, the
  lock file and replicas are not modelled.
* Not modelled: see the plan, and `components` in `PROJECT.json`. The clients, adapters,
  formats and parsers, most of the repository's lines, hold little state that a model checker
  reaches; the older engine repeats the newer one.

## 6. Plan

1. *Done*: `TurnOps`, `TurnClock`, `AgentLoop`, the refinement, first proofs.
2. *Done*: `PromptQueue` over `TurnQueue`, which `AgentLoop` is shown to implement. *Left*:
   `inject` and the stop hook's continuation as senders over `TurnQueue`.
3. *Done*: `FullCompaction` with the turn, undo and clear beside it. *Left*: undo of several
   turns with its checkpoints.
4. *Done*: `ToolBatch` (scheduler and dedupe). *Left*: `BackgroundTask` (terminal once, one
   notification) and the streak of equal calls over several steps.
5. *Done*: the write path, rotation and backup of minidb. *Left*: its values on disk, whose
   pointers a rotation moves, and the lock file; `Wire` (dispatch, append log, flush and
   crash; replay equals live); the `Goal` and `Swarm` drivers; `kap-server` (broadcast, replay
   and reconnect).
6. *Done*: the proofs of every safety and action property of the runs, and of both
   refinements, of `TurnClock` and of `TurnQueue`.
