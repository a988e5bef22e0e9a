# familyclaw: TLA+ models, model checking and proofs

familyclaw is an agent runtime: agents ("beings") hold conversations, remember,
consolidate memories, delegate work to each other and perform *actions* with
external effects. Its central promise is that an action with an effect goes
out at most once, and a risky one only after a human approved it, whatever
crashes. These modules model that promise and the machinery around it: the
runtime that executes actions, the files it lives on, the agents whose turns ask
for them, the scheduler, and the orchestrator with its chain of models. TLC
checks them on small instances, and TLAPS proves the central ones for every
instance.

## How to run

    tlc -workers 2 -config ActionRuntimeFaults.cfg MCActionRuntime.tla
    tlapm ActionRuntime_proofs.tla

The commands for the other modules are alike: `X.cfg` belongs to the `MC` module
its name begins with. The configurations are listed under "Runs"; seven of them are
expected to end in a counterexample.

## The system

The repository is a Cargo workspace, one crate per part (`src/crates/*`).

| Part | State it keeps | Operations | What is hard |
|---|---|---|---|
| `actions`: ActionRuntime facade, dispatch outbox, pending store, approval ledger, rate limiter, task queue, skill pipeline | three append-only JSONL files (outbox, pending approvals, task snapshots) and their in-memory counterparts | `submit_task`, `submit_task_idempotent`, `approve`, `deny_pending`, `abort_pending_after_continuation_failure`, `evict_expired_approvals`, `with_durable_stores` | a call writes several files; a crash or a failed append between any two; two copies of every approval; retries by callers and by a restarted agent |
| `durable`: `FileJournal`, `DurableContext`, `TimeMachine`, Postgres journal | journal file, write handle, replay cursor | append, read_all, compact_with, heal on open; `step`, `fast_forward` | torn rows, rename and reopen, append during compaction, effect before row |
| `agent`: turns, durable tool loop, suspended turns, LLM client and failover chain | conversation, turn counter, `resumable` records, provider cooldowns | `handle_turn`, `resume_approved`, `resume_live`, abort; `complete` with fallback | suspend and resume over a crash, replay of a turn, approval arriving for a turn that is gone |
| `scheduler`: runner, dispatch, decisions, persistence | task list with `last_fired` | `collect_due`, dispatch, `record_fired`, `tick`, `run_shared` | lock released between collecting and recording; errors; windows |
| `gateway`: HTTP endpoints, readiness, OIDC | sessions, approval endpoints | approve, deny, list, chat, health | approve and deny racing with resume |
| `bridge`: agent registry, task board, contracts, orchestrator, event bus | agents with heartbeats, tasks, contracts | create, hand off, update status, propose/accept/fulfil/fail, run a DAG | several agents on one board; node failure blocks dependents |
| `bus`: resonance bus actor | registered beings and their inboxes | register, deregister, publish, supervision events | re-registration, death of a being, order of registration and publication |
| `memory`, `dream`, `emotion`, `embeddings` | memories with decay, anchors and provenance; affect | store, recall, merge, decay, dream cycle | gated writes, what consolidation may forget |
| `security`, `growth` | anchors, corrections; growth proposals and approval records | anchor, approve, deny | a decided proposal stays decided |
| `runtime`, `channels` | wiring of bus, agents and external channels | pump replies | ordering between channels |
| `hearth`, `latent`, `mcp`, `acp`, `stt`, `tts`, `sandbox`, `observability`, `harness`, `core`, `bench` | adapters, databases, metrics, tools | | see `PROJECT.json` |

How they meet: the gateway, a channel or the scheduler hands input to an agent;
the agent's durable tool loop submits actions to the ActionRuntime under keys
derived from the turn (`turn-{n}-dispatch-{i}`), so a replayed turn repeats the
same key; the scheduler submits under a key derived from the task and its
window. A risky action leaves a pending approval and suspends the turn; the
gateway's approve is a signal on the bus, on which the being that owns the
suspended turn runs the action under the key `approval-{id}` and goes on with
the turn. The orchestrator gives the nodes of a plan to an executor, whose turns
are calls of a failover chain of models. The ActionRuntime sits behind a mutex
and depends on nothing above it, so it is where "at most once" is either kept or
lost.

The models follow those lines. `JournalStore` shows what a store promises
(`DurableMap`), `ActionRuntime` assumes that and shows what a dispatch promises
(`AtMostOnce`), and `AgentTurns` and `Scheduler`, which use the dispatch through
its keys, are shown to keep the same promise for the keys they make up.
`Workflow` composes `Orchestration` with `LlmChain`.

## Modules

| Module | What it is |
|---|---|
| `AtMostOnce` | the promise of the outbox: a key fires at most once, and its answer is final |
| `ActionRuntime` | the facade with its three durable stores and their in-memory copies |
| `MCActionRuntime` | task sets and symmetry for TLC |
| `ActionRuntime_proofs` | the inductive invariant and the theorems |
| `DurableMap` | what a store on the journal promises: a map that survives crashes |
| `JournalStore` | `FileJournal` and a key-value store on it, used by several threads |
| `MCJournalStore` | threads, keys and records for TLC |
| `JournalStore_proofs` | replay and compaction lemmas, the inductive invariant and the theorems |
| `AgentTurns` | the turns of several beings over one runtime, journal and bus, with the operator and the watchdog |
| `MCAgentTurns` | beings and calls for TLC |
| `Scheduler` | the tick loop, the kill switch and `agency.json` |
| `MCScheduler` | tasks and intervals for TLC |
| `LlmChain` | the failover chain: health ladders, key pools, two passes |
| `Orchestration` | a plan, its order, the shared board and the run of a plan |
| `Workflow` | the two together: the turn of a node is a call of the chain |
| `MCWorkflow` | plans, workers and a chain for TLC |
| `LlmChain_proofs` | the chain's invariants |
| `Orchestration_proofs`, `Workflow_proofs` | the orchestrator's invariants; the refinement of both components by their composition |
| `AgentTurns_proofs` | the lock, the refinement, and what asks, answers and denials promise |
| `Scheduler_proofs` | the firing keys and `agency.json` |

### ActionRuntime

One call runs at a time (the facade is behind a mutex), so what interleaves is
the *call with the crash, the caller that gives it up, and the failing disk*. A
call is split at every durable write and at the executor call; `op` is the call
in progress and says where it is (`op.pc`), the outbox key it holds (`op.slot`),
the task (`op.task`) and the outcome it is about to commit. `Crash` is enabled in
every state of every call; it forgets the volatile state and keeps the files.
`Drop` is the end of a call whose future is dropped at an await while the process
lives on: the watchdog's hard cap on a turn (`actor.rs:93-111`), a connection that
is closed under a request. It has one action per kind of await, because what has
been done by then in memory and on disk differs.

| Variable | Code |
|---|---|
| `outbox` | `dispatch_outbox.jsonl`: per key, the replayed state of its intent and commit rows |
| `pending` | `pending_approvals.jsonl`: expiry of the live record of an approval |
| `taskDisk`, `queueTorn` | `action_tasks.jsonl`: last snapshot of a task; whether a row does not parse |
| `taskMem` | `TaskQueue` inside the pipeline |
| `ledger` | `ApprovalLedger` |
| `hits` | `DangerousToolRateLimiter` |
| `now` | the clock the callers pass in |
| `used`, `grants`, `fired`, `revoked` | history, read by no guard except for the freshness of identifiers |

| Operation | Actions |
|---|---|
| `submit_task_idempotent`, `submit_task` | `SubmitIntent`/`SubmitDirect`, `SubmitUnknownSkill`, `SubmitRateLimited`, `SubmitGrant`, `SubmitInsert`, `SubmitExecute`, `SubmitFinalize`, `SubmitSnapshot`, `SubmitCommit` |
| `approve` | `ApproveIntent`, `ApproveExecute`/`ApproveRefused`, `ApproveFinalize`, `ApproveCommit`, `ApproveRemove`, `ApproveSnapshot` |
| `deny_pending` | `DenyRemove`, `CancelTask` |
| `abort_pending_after_continuation_failure` | `AbortBegin`, `AbortQuarantine`, `AbortDrop`, `CancelTask` |
| `evict_expired_approvals` | `EvictBegin`, `EvictNext` (one row per step) |
| a call that is dropped at an await | `DropWaiting`, `DropQueued`, `DropConsumed`, `DropWritten`, `DropCancelled` |
| process death, `with_durable_stores` | `Crash`, `Restart` |

Every durable write ends in one of three ways: it succeeds; it fails and leaves
nothing (`"lost"`); it fails, at the fsync for instance, with the row in the
file (`"unsynced"`). The caller sees an error in both failures. The constant
`Faults` says which failures are possible. The task queue's file is written
without sync and without healing: there, and only there, a crash or a failed
write may also leave part of a row (`TearsQueue`). The outbox and the pending
store write through `FileJournal`, which removes a torn last row when it opens;
for them a torn row is a lost one. (What a failed append does to the file of a
process that goes on is the subject of `JournalStore`: `ImplementsMap` is what
entitles `ActionRuntime` to see its stores as maps with atomic updates, and the
two conditions of that theorem are conditions of this module too.)

Abstractions: a task, its action and its approval are created together and are
one identifier; payloads, hashes, proofs and taint decide between a success
and an error, which the model leaves open; an error outcome is stored and
replayed as in the code; whether a call needs an approval is a free choice; a row
that a dropped call had already handed to the blocking pool has landed, or will
not, by the time the call is gone; calls that return without touching anything
are no steps; compaction of the pending store keeps
its live records and is modelled in `JournalStore`; a failed removal's later
retry is an ordinary call.

### JournalStore and DurableMap

Here the disk is looked at from below, and threads interleave. `FileJournal`'s
mutex makes one append, one read, or one compaction exclusive; a store's `insert`
or `evict_expired` is several of them with gaps in between.

| Variable | Code |
|---|---|
| `lines`, `tail` | the file: terminated lines, and what follows the last line break: nothing, part of a row, or a whole row |
| `handle` | `FileJournal::file`: open on the file, open on a file that a rename has unlinked, closed |
| `holder` | who holds the `Mutex<File>` |
| `call` | per thread: where it is, the rows it has still to append, the row count and the kept rows of a compaction |
| `owed` | history: a call was cut off before it looked whether to compact |

| Operation | Actions |
|---|---|
| `insert`, `remove`, `evict_expired` | `Put`, `Delete` (reads the live records), then per row `AppendLock`, `AppendOk`/`AppendError` |
| `maybe_auto_compact` | `CountRows`, `Decide` (two reads with gaps around them) |
| `compact`, `compact_with`, `atomic_swap_locked` | `Compact`, `CompactRead`, `CompactRename`/`CompactError`, `CompactReopen` |
| process death, `open` with `heal_torn_trailing_fragment` | `Crash`, `Open` |

A crash in an append leaves any prefix of the row. `Faults` adds what a running
process can meet: `"lost"` and `"unsynced"` as above; `"short"`, a `write_all` that
stops half-way; `"reopen"`, the compacted file that cannot be opened for writing.
The lines are rows or `Junk`, a line that does not parse; a row written after a
fragment turns both into `Junk`, and from then on every read is an error.

Abstractions: records are compared and nothing more; step ids are left out, since
no store reads them; a read that fails ends its call without an effect and is no
step; `JournalResumableStore` is this code without a capacity; `MaxLines` bounds
the file. A crash is the death of the process: power loss, which may undo a row
that was not synced or a rename, and a second process on the same file are not
modelled.

`DurableMap` gives a call the set of updates it has *due*; each is made at one
instant, a call that returns has made all of them, a failing or dying one perhaps
some. The mapping reads the map off the replay of the file and the due updates
off the rows still to append.

### AgentTurns

A being is an actor: one bus message at a time. Between two awaits of its turn
anything may happen: another being works, the operator decides, the watchdog
drops the turn's future, the process dies. `act[a]` says where being `a` is, and
every await of the code is a boundary between two actions.

| Variable | Code |
|---|---|
| `outbox`, `pending`, `expired` | the stores of the shared ActionRuntime, one write each (their failures are `ActionRuntime`'s subject; only those that matter to a turn are in `Faults`) |
| `resum` | per being, the `ResumableTurn`s of its store; a journal for `Durable` beings, memory for the others |
| `rows` | the `turn-{n}` rows of the shared journal, from which `resume_live` takes every being's counter |
| `memory` | what `MemoryStore` holds under each `turn_key` |
| `lock` | `Arc<Mutex<ActionRuntime>>` held over an executor's await |
| `inbox`, `turn`, `act` | the actor's mailbox, `turn_counter` and the turn in progress |
| `said`, `fired`, `issued`, `told`, `continued`, `accepted`, `denied`, `cut` | history, except that `issued` keeps call identifiers fresh and `said` messages distinct |

| Operation | Actions |
|---|---|
| a user's message, the gateway's `approve` and `deny`, `APPROVE` in a chat, time | `Say`, `ApprovePending`, `DenyPending`, `Order`, `Expire` |
| `handle_turn_with_origin` | `BeginTurn`, `BeginTurnFails`, `Remember`, `RememberFails`, `Answer` |
| the durable tool loop | `ThinkCall`, `ThinkAnswer`, `SubmitFresh`, `SubmitKnown`, `Run`, `Commit` |
| suspend | `Persist`, `PersistRefused` (with its `Rollback`), `Suspend`, `SuspendFails` |
| `handle_resume_signal`, `resume_approved` | `ReceiveSignal`, `Resume`, `ApproveIntent`, `ApproveRun`, `ApproveRunRefused`, `ApproveCommit`, `ApproveRemove`, `ApproveAgain`, `ApproveRefused`, `Inject` |
| the watchdog's hard cap; death and `build_family` | `Drop`, `Crash` |

An *episode* is one run of the loop: a turn, or the continuation of a suspended
call. Its k-th dispatch has the key `<<episode, k>>`, as `turn-{n}-dispatch-{k}`
and the continuation's step names do, and, as there, no being in it. A call that needs an
approval may also be refused, by the limiter or for want of room, and that error is
committed under its key like any other outcome. A suspended turn that cannot be
stored gives its approval up again, and each write of that may fail in turn.

Abstractions: a tool call and the approval it may need are one value; what the
model says is a free choice; emotion, history, progress notices and the
single-shot path without a journal are left out.

### Scheduler

| Variable | Code |
|---|---|
| `shared` | which loop runs: `run_shared`, or `run`, which owns its scheduler |
| `now`, `epoch` | the wall clock, which may step back; which process this is |
| `list`, `enabled`, `lastFired` | the scheduler's tasks |
| `outbox` | what the loop's own runtime remembers of its dispatch keys (memory only) |
| `loop` | the tick in progress and its batch: the positions in `list` that are still to be tried |
| `file`, `req` | `agency.json`; per writer, the load-change-save in progress |
| `writes`, `fired`, `ranAt`, `since`, `clash` | a bound, and history |

| Operation | Actions |
|---|---|
| `collect_due`, dispatch, `record_fired`, shutdown | `Tick`, `Submit`, `Succeeds`, `Fails`, `Record`, `Stop` |
| `set_task_enabled_route`, `schedule_task` | `Toggle`, `Schedule`, `Load`, `Save`, `SaveFails` |
| the clock; a restart with `apply_agency_config` | `Clock`, `Restart` |

A restart may find `agency.json` unreadable and then goes on with the defaults
(`runtime/src/lib.rs:870-872`): the dream task alone, and on. Idle expiry is left
out, because nothing in the runtime sets `expire_after_idle`. Writing the temporary
file and renaming it are one step, so the torn or mixed file that two writers at
once could rename into place is not reachable (see below).

### LlmChain, Orchestration and Workflow

| Variable | Code |
|---|---|
| `clock`, `cursor`, `health` | time, each entry's `key_cursor` and `EntryHealth` |
| `call` | `complete()` in progress: the snapshot of the pass, the clients' keys, `tried_keys` |
| `board`, `presence` | the bridge's tasks and its registry with heartbeats |
| `run` | `run_nested_with` in progress: the order, the node in hand, what is done and failed |
| `edits` | a bound on the edits of the board's other holders |

| Operation | Actions |
|---|---|
| `complete` | `BeginCall`, `SecondPass`, `GiveUp`, `Answers`, `FailsForGood`, `FailsForNow`, `ModelGone`, `SwitchKey`, `RetryEntry`, `PoolExhausted` |
| `validate`, `topo_order` | `Start`, `Place`, `OrderEnds` |
| the walk over the nodes | `Inherit`, `CheckDeps`, `Look`, `Count`, `Choose`, `NoWorker`, `Create`, `Untitled`, `Activate`, `Execute`, `Accept`, `Refuse`, `ExecutorFails`, `Finish` |
| other holders of the bridge | `UpdateTask`, `HandOff`, `Assign`, `CreateTask`, `Register`, `Deregister`, `Heartbeat` |
| `LiveTurnExecutor::execute` | `ExecuteTurn`, `TurnAnswered`, `TurnFailed` of `Workflow` |

The choice of a worker is several critical sections of the code and as many steps
here: the registry is read (`Look`), then the board once per candidate (`Count`),
and the other holders may edit both in between. The checks of a node's dependencies
are one step although the code awaits each, because a task that is Done stays Done
(that is part of the proof below). A node with an empty title is refused by the
board and ends the run (`Untitled`; `task.rs:163`). A plan is a function of its
nodes, so a plan that lists an identifier twice, which `validate` refuses
(`orchestrator.rs:287-295`), cannot be written down.

Every provider answer, and every verdict of a contract, is a free choice. A
deliverable that must have an input is always refused: the orchestrator
proposes its one-off contract with an empty one. The HTTP client, streaming and
the event bus are left out.

What a reader of that code may not expect, and the models show: a call that
fails in both passes adds two strikes to an entry, and entries of a provider
that was cooled after the pass took its snapshot are still asked; a short
cooldown overwrites a longer one; a failed node's task stays Active on the board
and counts as work in flight of its worker; `Handed` to `Done` is a transition the
code allows and its list of transitions does not name; `assign` looks at no
status; a run with failed nodes ends well, and in the code it then publishes
`WORKFLOW_DONE` (`orchestrator.rs:70-72`), an event the model has none of.

## Runs

Deadlock is not checked: with the clock at `MaxTime`, all identifiers used, or the
file at `MaxLines`, the bounded model may stop where the program would not; a
journal with a damaged line really cannot be opened; and a workflow that is over,
or a scheduler that was told to stop, has nothing left to do.

| Run | Instance | What it shows |
|---|---|---|
| `ActionRuntimeFaults` (1 607 000 states) | one keyed call, two tasks, capacity 1, one grant per window, both failures, torn rows, dropped calls, clock 0..1, lifetime 0 | an effect fires once; the outbox tells what happened; what is revoked never fires; what fires is on disk and unexpired; a finished task stays finished; the capacity bounds the disk; no window holds more grants than allowed; the refinement of `AtMostOnce` |
| `ActionRuntimeOrphan` (violated) | one approval, no write failure | a crash between the approval and its task leaves an approval that can never be approved |
| `ActionRuntimeRestart` (violated) | one approval, torn row | after a crash in a snapshot the runtime cannot be started |
| `JournalStoreFaults` (280 000 states) | two threads, two keys, compaction at 3 rows and factor 2, at most 5 lines, lost and unsynced writes, crashes | the file stays readable, a reported row is the last one, the log stays bounded, and the store implements `DurableMap` |
| `JournalStoreShort` (violated) | the same with short writes | a fragment left in a running process makes the journal unreadable |
| `JournalStoreReopen` (violated) | the same with a failing reopen | rows that are reported as written go to an unlinked file |
| `AgentTurns` (183 000 states) | one durable being, a risky and an auto-run call, two messages, two turn numbers, watchdog, crashes, failing writes | what the operator is asked for can be resumed, goes on once and only after its action; answers belong to their calls; numbers are not reused over restarts; what is denied never runs; turns end; what the gateway accepted is served; the refinement of `AtMostOnce` |
| `AgentTurnsFamily` (violated) | two beings, one message, no failure | the second being's dispatch is answered with the first one's outcome |
| `Scheduler` (669 000 states) | two tasks, the dream and a cron task (interval 2), one operator and the skill, two writes, clock 0..2 in both directions, one restart, both loops | a task switched off runs once more at most; file and flags agree; runs are an interval (unless it is zero) or an occurrence apart; what is due is served although others fail |
| `SchedulerRetry` (violated) | the same tasks, no writer, no restart | a run that failed is not tried again on the next tick |
| `SchedulerKillSwitch` (violated) | the same, one write | the dream task that was switched off is on again after a restart |
| `Workflow` (436 000 states) | one run, every graph on three nodes as far as its order, five plans to their end (a chain, a dangling dependency, a node that depends on itself, a contract with an input, an empty title), two workers, a chain of two models with a pool of two keys, one edit of the board | orders are right and smallest; nothing is built on an unfinished dependency; reports are right; every entry is asked before a call gives up, those that were healthy when it began before those that were not, every key before the provider is cooled; workflows end |

Bounds. No action relates two tasks of the runtime except through the capacity and
the limiter, so two tasks with room and a grant for one are enough, and one keyed
call beside direct ones. With a lifetime and a window of zero in two instants, the
first is the expiry instant itself and the edge of the window, and the second is
past both; what is stored at the second meets nothing later, like everything at the
last instant of a bounded clock. For the journal, two threads are one that compacts
and one that appends; five lines are one more than factor 2 allows for two
records, and two more than the threshold, so that a log that should have been
compacted is in reach for none, one and two live records.

For the agent, two messages and two turn numbers give a turn that is cut off, its
successor with the same number, and a turn after a restart; a risky and an
auto-run call suffice for a suspension, a retried dispatch and a continuation
that dispatches. (Two beings satisfy the safety properties as well, in three
million states, too many for a regular run. That two of them are never inside the
runtime at once would say nothing of a run with one being; it is a theorem,
`OneAtATime`.) Its `Faults` leave out a failing
`resumable.remove`: together with a crash between the approve's commit and its
`pending.remove`, it lets each further approve continue the same turn once more,
so `ContinuedOnce` needs that one of the two does not happen; `GoesOnOnce` below
is proved from that hypothesis. For the scheduler,
an interval of two in three instants has one firing in the window of another and
one past it, and the clock that goes back gives the rest. For the workflow, three
nodes are the first number with a chain, a fork and a join; plans that only
differ in their order are abandoned once it is checked, at a node nobody can
take. The proofs below have no bounds.

Fairness. The runs of `ActionRuntime` and `JournalStore` and the counterexamples
are about safety and assume none, `ActionRuntimeRestart` excepted (see below).
`AgentTurns`: weak fairness of a being's own steps, since tokio schedules its
task and the model, the executors and the watchdog have timeouts; strong fairness
of the steps that wait for the runtime's lock, since tokio's `Mutex` is FIFO.
Nobody has to say anything, approve anything or restart anything.
`Scheduler`: weak fairness of the loop. `Workflow`: weak fairness of every run,
whose future is polled and whose requests have timeouts.

### Seven places where the code and its documentation differ

* `PendingHasTask`: `submit_task_as` makes the approval durable
  (`facade.rs:936`) before the task it is about (`facade.rs:939`). A crash in
  between, or a submission the watchdog gives up there and a crash at any later
  time, leaves an approval that every restart lists, and whose `approve`
  answers "not found". The comment between the two lines says the snapshot is
  there so that "`approve` finds the task even across a restart".
* `RestartSucceeds`: `DurableTaskQueue::append` (`task.rs:584`) writes without
  sync and `reload` refuses the whole file over one line that does not parse.
  A torn row therefore stops `with_durable_stores` at every later start, though
  the facade calls its state "fully crash-resistant" and the demo document says
  that torn fragments are healed on open. The run assumes `WF_vars(Restart)`:
  whoever supervises the process starts it again; the property is that a
  runtime that is down comes back.
* `ReadsSucceed`: when `write_all` stops half-way (a full disk), `append`
  (`file.rs:523`) returns the error and leaves the fragment. Only `open` heals, so
  the next append of the same process fuses with it and the journal is
  unreadable from then on. The comment at `file.rs:515-516` says that append is
  atomic "with no partial state".
* `AppendIsDurable`: `atomic_swap_locked` renames first and opens the new handle
  afterwards (`file.rs:378`). When that open fails, the journal keeps the handle
  of the unlinked file, auto-compaction drops the error, and later appends
  report rows as written that no read will find; the comment at `file.rs:525`
  says that the sync guarantees them, and `file.rs:292` that an error leaves the
  live file unchanged.
* `CallsGetTheirOwnAnswer`: the dispatch step is named `turn-{n}-dispatch-{k}`
  (`turn.rs:700`), and the name is the outbox key. Every being counts its own
  turns and all share one runtime, so two beings that take the same message use
  the same keys, and the second one's call is not run but answered with the
  first one's outcome; if that was a request for approval, it suspends on the
  other being's approval. The comment at `turn.rs:568-570` says that every step
  gets a unique name. (`AnswersOwnCalls` says what does hold: a being confuses
  two calls of its own only if it was cut off in the episode before.)
* `KillSwitchSurvivesRestart`: the dream task is registered with a random id
  (`runtime/src/lib.rs:849`), `agency.json` lists disabled tasks by id, and a
  restart enables the task again. `persistence.rs:3-6` says that a stopped task
  must remain stopped after a restart.
* `RetriesNextTick`: an error is committed under the key of the task's window
  (`facade.rs:1043`), and every later tick of the window is answered with it
  (`facade.rs:1003-1006`) without a run. The loop ticks at least once a minute and
  a window may be hours long. `dispatch.rs:291-295` says that a transient error
  does not consume the interval and the task retries on the next tick. The
  property is stated of the loop that owns its scheduler, as the comment is; the
  shared loop does the same.

Three more disagreements have no run of their own, because what they turn on is
outside the model or is plain from the code:

* `dispatch.rs:6-9` and `109-112` count on the dispatch outbox for at most one
  dispatch "even across a process crash". The runtime gives its scheduler an
  outbox in memory (`ActionRuntime::new()`, `runtime/src/lib.rs:833`), so after a
  restart a window is served anew. In the model `Restart` empties `outbox` and
  `fired`, and `ServedOnce` and `Spaced` are about one process.
* The promise of `persistence.rs:3-6` has no condition, but the operator's route and
  the skill load, change and save the file with no lock between them, so one
  writer can undo the other's switch. `FileAgrees` says what holds when they take
  turns; `clash` notes that they did not.
* `persistence.rs:126-127` says that an interrupted write never leaves a corrupt
  file behind. All writers use one temporary name, so a writer can rename what
  another one is still writing.

## Proofs

### ActionRuntime

`ActionRuntime_proofs` proves, for every set of keys and tasks, every capacity,
limit, window and lifetime, and every set of write failures (`ConstAssumption`):

| Theorem | Statement |
|---|---|
| `TypeCorrect` | `Spec => []TypeOK` |
| `DispatchedOnce` | `Spec => []AtMostOnceDispatch` |
| `OutboxTruthful` | `Spec => []OutboxTellsTheTruth` |
| `Implements` | `Spec => ImplementsAtMostOnce` (refinement) |
| `NothingRevokedFires` | `Spec => RevokedNeverFires` |
| `FiresOnlyWhilePending` | `Spec => FiresWhilePendingOnDisk` |
| `QueueAgrees` | `Spec => []QueueAgreesWithOutbox` |
| `FinishedStaysFinished` | `Spec => TerminalIsFinal` |
| `CapacityHolds` | `Spec => []WithinCapacity` |
| `RateLimitHolds` | `Spec => []WithinRateLimit` |
| `NoOrphanInOneProcess` | `Spec /\ [][~Crash]_vars => []PendingHasTask` |
| `OrphanNeedsTheGap` | with no failing write, `Spec /\ [][(Crash \/ Drop) => ~At("snapshot")]_vars => []PendingHasTask` |

The invariant is built in layers, each preserved under the ones before it.

1. `TypeOK`.
2. `FiredInv /\ CallInv`: per key, what the row says about `fired`; and what
   the call in progress knows about its key. `OutboxTellsTheTruth` alone is not
   inductive: an intent row says nothing about `fired`, so the call must
   remember whether its effect went out. A call that dies takes that
   knowledge with it, and nobody ever writes under that key again.
3. `FreshInv`: an identifier that was not handed out is unknown everywhere.
4. `ApprovalInv`: the granted ledger entry and the pending record carry the
   same expiry, and a revoked approval has lost its record or its key is
   taken. This is what makes it safe that `run_after_approval` asks only
   the ledger.
5. `TaskInv`: when a queue snapshot may say Done or Failed, and that the calls
   that write snapshots write about unfinished tasks.
6. `CapacityInv` and `RateInv` stand on `TypeOK` alone. The limiter forgets
   records; `RateInv` says that a forgotten one is too old for any window that
   a new grant can be in.
7. `Queued` and `Snapshotted` draw the line around the orphaned approvals of
   `ActionRuntimeOrphan`: a process that lives never lists an approval without
   its task, whatever fails and wherever its calls are dropped, and without failing
   writes the one fatal place for a call to be cut, by a crash or by a drop, is the
   gap between the record and the task's snapshot. A dropped submission shows only
   at the next restart, which may come long after. A record enters the
   store for the task in hand and nothing else (`InsertsOwnTask`), only a crash
   and a restart take tasks out of the queue, and nothing takes a snapshot back.

### JournalStore

`JournalStore_proofs` proves, for every set of threads, keys and records, every
capacity, threshold, factor and length of the file (`StoreAssumption`):

| Theorem | Statement |
|---|---|
| `TypeCorrect` | `Spec => []TypeOK` |
| `AlwaysReadable` | without short writes, `Spec => []ReadsSucceed` |
| `AppendsLast` | without short writes and failing reopens, `Spec => AppendIsDurable` |
| `ImplementsMap` | under the same conditions, `Spec => ImplementsDurableMap` (refinement) |
| `LogStaysBounded` | `Spec => []LogBounded` |

The two hypotheses are the two counterexamples above; everything else that may
fail is covered. The argument has two halves. Lemmas about replay need no state:
a row appended changes the value of its key and no other (`ValueOfAppend`), and
the rows a compaction keeps replay to the same map (`KeptOfProperties`, which
needs that the live keys are finitely many, because each has a last row). The
invariant says who may be in a critical section (`TypeInv`), that a file that is
open ends with a line break and has no damaged line (`FileInv`, stronger than
`ReadsSucceed`, which a fragment does not violate yet), and that between the read
and the rename of a compaction the kept rows are still those of the file
(`SwapInv`: what holding the mutex is for).

`LogBounded` says something only of moments when nobody is at work, so its
invariant is about the moments between: while the log is too long, somebody
*watches* it, that is, is going to count it, or has counted at least as many
rows as it has now (`BoundInv`). A thread that stops watching has found the log
short enough or has compacted it to a row per live record (`KeptOfShort`), which
is within any factor but zero; a row appended by another makes that one a
watcher. Calls that were cut off by an error or a crash owe the bound, and the
property excludes them.

### LlmChain

`LlmChain_proofs` proves, for every set of callers, chain, pools, ladders and
hints (`ChainAssumption`):

| Theorem | Statement |
|---|---|
| `ChainTypeCorrect` | `ChainSpec => []ChainTypeOK` |
| `EverybodyIsAsked` | `ChainSpec => []AllAskedBeforeGivingUp` |
| `HealthyComeFirst` | `ChainSpec => []CooledIsLastResort` |
| `PoolIsTriedFirst` | with one caller, `ChainSpec => PoolTriedBeforeCooling` |

`PassInv` says what the snapshot of a pass still owes: in the first pass the
healthy entries, and in the second every entry, are asked or yet to be asked.
`LapInv` says that the keys noted as tried in a lap are the keys that were
refused, which is true only while nobody else moves the cursor: with two callers
of one chain TLC finds the property violated, since `record_failure` notes the
cursor it finds and not the key the request was made with. The agents and the
executor own their chains, so there is one caller.

### Orchestration and Workflow

`Orchestration_proofs` proves, for every set of runs, workers and plans and any
edits by the other holders of the bridge (`FlowAssumption`), and `Workflow_proofs`
carries the results over to the composition:

| Theorem | Statement |
|---|---|
| `FlowTypeCorrect` | `FlowSpec => []FlowTypeOK` |
| `NothingOnUnfinished` | `FlowSpec => []DepsAreDone` |
| `ReportsAreRight` | `FlowSpec => []ReportIsRight` |
| `WalksTheSmallestOrder` | `FlowSpec => []OrderIsRight` |
| `ImplementsChain`, `ImplementsFlow` | `Spec => ChainSpec`, `Spec => FlowSpec` |
| `WorkflowTypeCorrect`, `WorkflowIsRight` | `Spec => []TypeOK`, and the properties of both components |

The invariant is a conjunction over the runs of one predicate of a run and the
board: which node it works on, what the walk has prepared for it, how the nodes
placed so far are divided into the completed, the failed and the rest, and that
the task of a completed node is on the board and Done. A step of one run must not
disturb this for another. It does not, because the board only *grows*: tasks
are added, and nothing the bridge offers moves a task out of Done. That is one
lemma about two boards, so none of the other holders' operations needs an
argument of its own. The composition is a refinement in which each side's
steps are the other's stutters, except that the executor's outcome is taken from
the chain.

`OrderIsRight` compares the order a run walks with every other order of the
plan's nodes, of which there are as many as the factorial of their number. The
proof never enumerates them. What the ready queue builds is *greedy*: at each
position stands the least node whose dependencies are placed before it
(`GreedyAppend`). Take another order that respects the dependencies and the
first position at which the two differ: before it they have placed the same
nodes, so the other one's node was ready too, and the greedy one's is smaller
(`GreedyIsFirst`). When nothing is ready and nodes are left there is no order at
all: the first node that any order places among the left ones would have been
ready (`StuckHasNone`), and a dependency that is not a node can be placed
nowhere (`DanglingHasNone`). That an order is as long as the plan and leaves no
node out is counting: its positions are mapped one-to-one into the nodes
(`LinearFacts`). `Ordered` carries this along the walk, where the rest of the
order is what was left when it was complete, and has as many nodes as the plan
only at the first step.

### AgentTurns

`AgentTurns_proofs` proves, for every set of beings, calls and durable beings,
every budget of calls per turn and every set of write failures
(`TurnAssumption`, `SlotAssumption`):

| Theorem | Statement |
|---|---|
| `TypeCorrect` | `Spec => []TypeOK` |
| `OneAtATime` | `Spec => []MutualExclusion` |
| `ImplementsOutbox` | `Spec => ImplementsAtMostOnce` (refinement) |
| `DeniedIsFinal` | `Spec => DeniedNeverRuns` |
| `AskedStaysRecoverable` | `Spec => []AskedIsRecoverable` |
| `RememberedWhenAnswered` | `Spec => []AnsweredIsRemembered` |
| `AnswersAreOwn` | `Spec => []AnswersOwnCalls` |
| `ContinuedAfterRun` | the first half of `ContinuedOnce`, whatever fails |
| `GoesOnOnce` | if removing a suspended turn's record does not fail, `Spec => []ContinuedOnce` |
| `OnlyOthersAnswer` | under that condition, while no turn was cut short: a call with another one's answer has it from another being |
| `OwnAnswerAlone` | under that condition and with one being: `Spec => [](cut = {} => CallsGetTheirOwnAnswer)` |

The argument, in layers:

1. `TypeInv`: besides the types, what each place of a turn knows, for instance that
   a being about to commit holds a call.
2. A table of the moves a being can make (`MovesOf`). Every action is a move of
   one being with the others in place, so the invariants that follow are
   shown per move; for the lock, a move enters the runtime, stays inside, leaves
   it, or keeps apart.
3. `FiredInv`: per key, what its row says about `fired` (`SlotOK`); per being,
   what its place says of the key it works on (`PlaceOK`), for an intent row alone
   does not tell whether the effect went out. Every step does one of four things
   to a key: nothing, open it, fire it, settle it. `ImplementsOutbox` and
   `ContinuedAfterRun` are read off this.
4. `DeniedInv`: a call on its way into the runtime is not an approval yet, and
   one that is being performed is still pending, which is what the lock buys
   (`DeniedIsFinal`).
5. `AskedInv` and `RecoverInv`: only an answer of the call's own dispatch is
   stored or shown, it is shown only when its suspended turn is in the store, and
   a turn leaves the store only when it goes on or its approval is given up
   (`AskedStaysRecoverable`).
6. `MemoryOK` and `PastInv`: the turn numbers under which a being has remembered
   messages or made calls lie below the journal's next one, and below its own
   unless that turn was cut off; within an episode its earlier calls have smaller
   indices. So a memory under the number of the turn is the turn's own
   (`RememberedWhenAnswered`), and two calls of a being with one key need a
   turn that was cut off (`AnswersAreOwn`).
7. `GoneOn`: whoever consumes an approval has the suspended turn's record in its
   store until it goes on; what a being holds or has gone on with is the answer
   of one of its own calls; and holding it again, or having gone on twice, means
   that a turn of its was cut off, because the request can come back only as the
   stored answer to a repeated key (`GoesOnOnce`). The hypothesis is needed: with
   a failing `resumable.remove`, TLC finds two continuations of a turn that was
   never cut off (the process dies between the approve's commit and
   `pending.remove`, and the operator approves twice). The last two theorems say
   how far `AgentTurnsFamily` reaches: the comment it contradicts is right for a
   being alone whose turns all come to their end.

### Scheduler

`Scheduler_proofs` proves, for every set of tasks, intervals, occurrences and
operators and every movement of the clock (`SchedulerAssumption`):

| Theorem | Statement |
|---|---|
| `WindowOnce` | `Spec => ServedOnce`: a step within a process is a step of `AtMostOnce` or leaves it alone, so a window is not served twice, nor again after an error |
| `FileKeepsUp` | `Spec => []FileAgrees` |
| `TypeCorrect` | `Spec => []TypeOK` |
| `SwitchedOffRunsOnce` | `Spec => []OffRunsOnceMore` |
| `RunsAreSpaced` | `Spec => Spaced` |
| `OffStaysOff` | a task other than the dream that is off, with no writer at work and none that failed or overlapped, is off after a restart, with the file or without it |

`RunInv` says that a key has run exactly if it has an outcome or its run is going
on; it needs nothing of the batch, so the theorem covers any list of due
tasks. `FileInv` says what taking turns gives the writers: the one at work holds
a copy equal to the file and the flag it set is live, and every other task
agrees; it is required only until two writers overlap or one fails. `OffStaysOff` is the
rest of the kill switch: what `SchedulerKillSwitch` refutes for the dream task,
whose id is new in every process, holds for all others.

The other theorems are about the batch (`TickInv`). What is left of a tick is due
when its turn comes, or its key is known by then, although flags, clock and
`last_fired` may have changed since it was collected (`BatchInv`). `last_fired`
is never behind the last successful run, except for the one that is about to be
recorded (`RanInv`), which gives the interval between two runs. And if a task ran
after it was switched off, the key of its window is known, so the entries of
it that are left in the batch do not run (`OffInv`).

### Only model-checked

Liveness: `TurnsEnd`, `ApprovalIsServed`, `DueIsServed` and `RunsEnd` rest on
fairness and `ENABLED`, which are out of the prover's reach. The counterexamples
are TLC's as well. Every other property of a passing run is a theorem, `ContinuedOnce`
and the two journal refinements under the hypotheses named above,
`PoolTriedBeforeCooling` for one caller of a chain.

## Not modelled, and the plan

Not modelled because nothing there is a protocol or TLC cannot evaluate it:
floating-point models (emotion, latent, similarity and decay), adapters
(channels, speech, embeddings, MCP, ACP), external engines (SurrealDB,
Postgres, wasmtime), command lines and benchmarks. `PROJECT.json` lists each
component with its reason.

The models follow the protocols at the core of eight crates; most of the code
around them is of the kinds just listed, and they stand for a small share of its
lines.

Left out of what is modelled: replay of a `DurableContext` (the runtime's
`resume_live` skips it), registration on the bus, idle expiry of tasks, the event
bus of the bridge, a second process on the same files, and power loss.

Still worth doing: the dream cycle (what consolidation may forget), the proposal
store of `growth` (decisions are final), and the bus's registration and
supervision.
