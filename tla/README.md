# TLA+ models of Insight Forge

Insight Forge is a deep-research service: a client posts a question, a *query
engine* leads the research through a pipeline of stages, delegates topics to
teammates, and streams public events back.  What makes it more than a sequence of
model calls is that a run is durable.  Its state lives in files under
`runs_dir/<run_id>`, several processes may hold those files at once, and a run can
be cancelled, interrupted, taken over and resumed.  These modules model that core.

Paths below are relative to `src/open_deep_research/` unless they start with
`README.md`, `tests/` or `docs/`.

## 1. Inventory

| Component | State | Operations | Talks to | Hard part |
|---|---|---|---|---|
| Leader lease (`tasks/lease.py`) | `leader_lease.json`: owner, fence token, expiry | acquire, renew, is_owner, run_fenced, release | engine, teammate pool, sweep | threads outlive their callers; expiry races renew; shared owner ids |
| Run context store (`run_context.py`) | manifest, journal | initialize, bind fence, append, checkpoint, update, replay | engine, server, event store | crash between two files; torn tail; stale writers |
| Public events (`events/public.py`) | `public_events.jsonl` | append with dedupe key, read, project | engine, server, SSE clients | one terminal event; a failure must reach the manifest |
| Query engine (`agents/query_engine.py`) | stage, scope, lease token | stream_message, stream_resume, interrupt, finish, release | all of the above | two engines on one run; every handler writes three files |
| Cancellation scope (`runtime_control.py`) | cancelled or completed, reason | request, claim_completion, run | engine, heartbeat, handlers | cancellation races completion |
| Run control (`run_control.py`) | pending and processed commands | enqueue, pending, ack | server, background tasks | at-least-once delivery, fixed command ids |
| Server (`server.py`) | table of live runs | create, stream, resume, cancel, sweep, drain, purge | all of the above | checks made before awaiting the lease; shutdown |
| Teammate pool (`tasks/teammate_pool.py`) | teammates, assignments | submit, dispatch, worker loop, heartbeat, shutdown | mailbox, task store, lease | takeover while tasks execute |
| Task store, registry, executor (`tasks/`) | snapshots, records, artifacts | upsert, update_status, execute, recover | pool | two sources of truth |
| Mailbox (`tasks/mailbox.py`) | one file per agent, dead letters | send, claim, ack, nack | pool | redelivery, compaction, two files |
| Query loop (`agents/query.py`) | messages, tool outbox | step, commit, replay | context store, tools | exactly-once tool effects |
| Circuit breaker (`models/circuit.py`) | state, generation, window | before_call, record_*, force_half_open | model calls | stale permits, a probe that never answers |
| Budgets (`budgets.py`) | reservations | reserve, settle, release, mark_uncertain | every paid call | reuse of keys, uncertain attempts |
| Sandbox gateway (`sandbox/gateway.py`, `internal_api.py`, `operations.py`) | registrations, operation locks; journal of operations, ledger of the API | register, invoke, stream, evict; reserve, transition, settle, fail | providers, API, workers | a lost answer of a post, two callers of one operation, restarts of either side |
| Sandbox workers (`sandbox/manager.py`, `controller.py`, `worker.py`) | containers, networks and volumes by name; the call of a task | create, start, status, collect, archive, stop, reconcile, watchdog | executor, Docker, starting API processes | every request is a thread and no lock orders them; crashes on both sides; stale epochs |
| Approvals (`sandbox/approvals.py`) | approvals, vault | approve, consume | tools | single use, expiry, fences |
| Sessions (`security/rbac/services`) | sessions, refresh tokens | login, rotate, revoke | HTTP | concurrent refresh, reuse window |
| Tools, web, report, quality, memory, observability, configuration, evaluation, frontend | mostly per call | | | sequential, model-judged, or fail-open |

What makes each correct:

* **Lease** - a fence token names one owner; an epoch that lapsed stays lapsed;
  writes under the fence come in the order of the epochs; only its owner or time
  ends an epoch; an epoch nobody looks after ends.
* **Context store** - whatever crashes and takeovers happen, the journal replays, a
  finished stage is not repeated, and the manifest agrees with whoever owns the run.
* **Events** - nothing of an old owner follows a line of its successor; one ending.
* **Engine and server** - manifest and events tell the same ending; an ended run is
  not worked on again; an engine that lost the lease stops.
* **Circuit breaker** - a circuit that is not closed is probed by one call, whose
  outcome counts; outcomes of earlier calls do not; the cooldown follows the failed
  probes; a probe slot is released when its call is over (it is not, see section 4).
* **Query loop** - an event of the loop is applied to the supervisor state once and in
  order; a task update is shown to the model once; a tool that must not be repeated
  runs once in its batch; the budget and the recoveries of a step are bounded.
* **Tasks, pool, mailbox** - a task given to a teammate reaches it; the store has no
  open task the process does not know; a result, a checkpoint and a terminal snapshot
  replace one another without a gap; tasks end.
* **Gateway** - an attempt reaches the provider once and paid for; an operation whose
  outcome is open is not sent again; it has one answer; every caller gets one.
* **Sandbox workers** - a result that is accepted is of the epoch that asked; nothing of
  an older epoch ends the Worker of the newest; a network has a user; calls end, and a
  Worker without a result goes even if nobody asks for it.
* **Approvals, sessions** - see the plan.

## 2. Modules

| Module | Models |
|---|---|
| `LeaseFile` | the lease file of one run as a value, and the body of each locked operation as an operator on it |
| `EpochLock` | the abstract promise: one epoch at a time, granted in increasing order, work only under the current one |
| `LeaderLease` | managers, their threads, heartbeats, abandoned calls, crashes and time around `LeaseFile` |
| `MCLeaderLease` | two engines and a pool that shares the owner id of the first |
| `LeaderLease_proofs` | the theorems of section 5 |
| `RunFiles` | manifest, journal and event stream as values, and what one locked write does to each |
| `RunLifecycle` | engines, HTTP handlers, control command, sweep and drain around `LeaseFile` and `RunFiles` |
| `MCRunLifecycle` | two interchangeable engines |
| `RunLifecycle_proofs` | owners, journal, manifest and stages of a run: theorems of section 5 |
| `RunEndings_proofs` | how a run ends: theorems of section 5 |
| `ModelCircuit` | the breakers of the models and the callers that select, call and fall back |
| `MCModelCircuit` | a chain of two models, two interchangeable callers |
| `ModelCircuit_proofs` | the probe and window theorems of section 5 |
| `Mailbox` | one agent's mailbox file as a value, and the body of each locked operation; used by the next two |
| `Outbox` | the abstract promise of the loop's write-ahead events: each applied once, in order |
| `QueryLoop` | the supervisor's query loop, its saved state, the journal's deltas, the lead's mailbox and the budget |
| `MCQueryLoop` | one unrepeatable tool, two interchangeable research topics, one update |
| `QueryLoop_proofs` | the loop's theorems of section 5 |
| `TaskPool` | supervisor tools, dispatch, teammates, executors and the files of asynchronous tasks |
| `MCTaskPool` | the instance of `TaskPool` that is checked |
| `TaskPool_proofs` | the pool's theorems of section 5 |
| `OperationAnswer` | the abstract promise of a logical model operation: one answer, which stays |
| `ModelGateway` | invocations at the sandbox gateway, the API's journal and ledger, registrations and takeovers |
| `MCModelGateway` | one operation, two invocations |
| `ModelGateway_proofs` | the gateway's theorems of section 5 |
| `SandboxWorkers` | the call of a sandboxed task, the Controller's threads, containers, networks and volumes, the watchdog |
| `MCSandboxWorkers` | the instances of `SandboxWorkers` that are checked |
| `SandboxWorkers_proofs` | the Workers' theorems of section 5 |

`LeaderLease` and `RunLifecycle` share `LeaseFile`; `QueryLoop` and `TaskPool` share
`Mailbox`.  `EpochLock`, `Outbox` and `OperationAnswer` are implemented by
`LeaderLease`, `QueryLoop` and `ModelGateway`.

### LeaderLease

One manager per `LeaderLeaseManager` object.  A locked section is one step, since
`_locked_update` holds the file lock from the read to the atomic replace.
`asyncio.to_thread` splits every call in three: the coroutine starts a thread
(`BeatSend`, or the phase `idle`/`closing`), the thread runs the locked section
(`AcquireLocked`, `BeatLocked`, `ReleaseLocked`), the coroutine takes the result
(`AcquireReturn`, or a later step).  A cancelled coroutine leaves its thread behind:
`AcquireAbandoned` and `ReleaseAbandoned` are the coroutine going away,
`StrayRenew` and `StrayRelease` the thread finishing at any later time.  A pool
created inside an engine takes the engine's owner id and token (`Inherit`), writes
under them, and neither renews nor releases; `GuestClose` is its shutdown.  The lease's expiry is a countdown
that `Elapse` lowers, so a renew may land before, at or after the expiry.  `Commit`
is any write under `_fence_guard` or `run_fenced`; it records its token in
`committed`, which exists for the properties only.

### RunFiles and RunLifecycle

Every locked file write is a step.  An engine's `pc` is its place in
`stream_message`, `stream_resume`, `_stream_execution` and `_finish_success`:

```
posted -> acquired -> bound -> init -> append -> update -> start -> work
checked -> acquired -> bound -> replayed -> start -> work
work -> append -> update -> announce -> work           a stage and its checkpoint
work -> append -> update -> confirm -> finale -> closing   completed or terminated
work -> append -> update -> finale -> closing              cancelled
work -> failing -> append -> update -> closing             any other exception
```

The pipeline is cut down to the checkpoints recovery tells apart: `received`, the
research, the report, `completed`.  The stages in between write the same kind of
checkpoint and are the same step.  `Due` gives what an engine is about to record,
`AppendRecord` is `RunContextStore.append` (line and `last_journal_seq` under one
lock), `UpdateManifest` the second write of `checkpoint`.  Each write may be refused
by the fence or, up to `MaxFaults` times, fail; the code's reaction differs by
place and is modelled by place: checkpoints are fail-open (`Onward`), events of the
execution raise (`Excepted`), the ones of the handlers are swallowed (`Fail`,
`PublishFailed`).  `Crash` takes an engine away anywhere, `CrashInAppend` in the
middle of a line or between the line and the manifest.  `Elapse` runs the lease out
while its owner stalls.

`Create` is `create_run` or `stream_run`, which write the manifest before any lease
is held; `CreateEmbedded` is `submit_message` outside the server.  `ResumeCheck` is
`resume_run` up to the lease, `Replay` the second validation under it.
`CancelLocal` and `CancelRemote`/`ConsumeCancel` are the two ways of `cancel_run`.
`Drain*` is `_interrupt_inflight_record`, `Sweep*` is `_run_recovery_sweep` for one
run.

### ModelCircuit

All callers share one event loop, and no breaker method awaits inside its lock, so
each method is a step: `Selects` is `select_candidate_index` with the
`force_half_open` it may end in, `AdmitPlain`, `AdmitAfterCooldown`,
`AdmitForcedProbe` and `Reject` are the four ways out of `before_call`, and the
outcomes are `record_success`, `record_failure` and `record_inconclusive`, each for
the probe, for a plain call of a closed circuit and for a stale permit.  A caller is
`idle`, `chosen` (a candidate is selected), `running` (a provider call, with its
transport retries, under a permit) or `failed` (an availability error); between
these any other caller may run.  `StartQuery` and `FallBack` of a query are
`query()` in `agents/query.py`, `StartFallback` and `FallBack` of a fallback are
`invoke_with_model_fallback`, which does not select again between candidates.

`Abandon` is the cancellation of a running call: by the run, by its deadline, or by
the timeout that `query()` and the compression of `agents/deep_researcher.py` put
around it.  `CancelledError` passes the `except Exception` that reports outcomes, so
the permit is lost.  `ReopenRaises` is `_open` with an exponent a float cannot take.

Time is kept as ages, saturated at the values the code compares them with; windows
are pruned when time passes, which no reader can tell from pruning before each
read.  The generation kept with a window entry exists for the properties only.

### Mailbox and QueryLoop

`query()` saves each `QueryLoopState` before it does anything else, so `query` is both
the file and the copy in memory; a save that fails is a `Stop` just before or after it.
The supervisor state has two copies that differ: `memory` and `delta`, the journal's
deltas, whose writes are fail-open.  `pc` is the place in the loop:

```
top -> applied -> acked -> top          an event: Deliver, Ack or AckRefused, Clear
top -> hooked -> top                    a turn is prepared (drain of commands, limits)
top -> reserved -> call -> top          AskModel, SendCall, then an answer or an error
top -> tools -> closing -> top          StartBatch, StartCall, CommitCall, CloseBatch
```

`Deliver` applies an event to memory and writes the delta, or fails to (`MaxFaults`);
`Ack` acknowledges the mailbox messages the event carries; `Clear` removes it from the
saved state.  `RetryCall`, `CallRecovers` and `CallFails` are the transport retries,
the recoveries of context, output and candidate, and the end of them.  A tool batch
starts its calls one after the other, or the `Parallel` ones together, and each result
is saved when it comes (`CommitCall`); `RefuseReplay` is the refusal to repeat an
unsafe call of a replayed batch.  `Boot` starts the loop in a process of its own, which
is what the consumer id `PROCESS_INSTANCE_ID-lead` of the mailbox assumes, and restores
`delta`; `Stop` is a crash, `Drain` a plain `CancelledError`, `Cancel` a request.
`PostUpdate` is a teammate's update, `ClaimLapses` the end of a claim's lease.

### TaskPool

Everything runs in one event loop: an action is what happens between two awaits, with
the file operation awaited.  `reg`, `desc`, `loops`, `exec`, `disp` and `lead` are the
process (task records, teammate descriptors, worker loops, executors, the holder of
`_dispatch_lock`, the supervisor's tool call or the start or end of the pool); `snap`,
`ckpt`, `stored`, `inbox` and `posted` are the files.  `StartResearchTask` and `Submit`,
`CancelResearchTask`, `RecordCancel` and `SaveCancel` are the tools by their awaits.
`Reserve` and `SendAssignment` are `_dispatch_pending`, entered from a tool call, from
the end of an executor (`Reap`) and from the restore of a run.  `Take`, `Open`, `Ack`,
`Leave`, `Reap` are a worker loop; `Begin`, `FirstCheckpoint`, `Checkpoint`, `Finish`,
`GiveUp`, `Fail`, `ReportEnd` are `run_task_with_control`.  `BeginShutdown`,
`RequestShutdown` and `FinalizeSnapshots` end a run, `Crash` ends the process,
`Resume` and `RestorePending` build registry and pool from the files.

`Mailbox` gives a message its status, owner and number of deliveries.  The order of the
file, which `claim` follows among messages of one priority, is kept beside it: `posted`
is, for each teammate, the set of pairs of open messages of which the first comes before
the second.  Acknowledged messages are not in it, since nothing asks for their place.

### ModelGateway

An invocation (`inv`) is a coroutine of `invoke_model_operation`:

```
lookup -> begin -> call -> settle -> complete -> idle
          begin | settle | fail -> begin       a retry, or the next model
          begin | fail | complete -> end -> idle   the failure is journaled
```

In `begin`, `settle` and `fail` it flushes `_pending_posts`, one post a step
(`PostAnswered`), and a post may be lost on its way (`PostLost`), on its way back
(`PostAnswerLost`, the nonce is then burnt), be too old, or be refused.  A post that
raises stays at the head of the queue, as in `flush_pending`.  `Raised` and `Decided`
are what the code around the flush does with the exception: at `begin` the failure is
queued only; after an answer of the provider the answer is thrown away; in
`settle_failure` the new exception replaces the old one.  `ReserveHalfDone` is
`reserve_budget` between its two stores, `OtherLimitRefuses` a refusal by the limit of
tokens or cost, which releases what was reserved.  `ahead` and `listed` are the locks:
whom an invocation waits for, and which of them hold a lock that `operation_locks`
still knows.  `Register` with a higher token, `Evict` and `GatewayRestart` forget them.
`TakeOver` and `EngineLeaves` change the authority of the API.

### SandboxWorkers

A call (`pc`) is a coroutine of `run_researcher_task`, and its create (`thread`) a thread
of the Controller, which goes on when the call does not wait for it any more:

```
creating -> persist -> start -> poll -> collect -> archive -> stop -> ended
creating -> undo -> undoStop -> ended          cancelled while it is creating
list -> admit -> clean -> make -> seed -> fill -> attach -> answered
```

A create is cut at the Docker calls another thread can see.  It works on names: the
network and the input volume bear the name of the task, so `net` and `vol` have one entry
for each task, and say whose network and whose payload is there.  A container is named
by the call whose create made it.  `CreateList` is `_existing_container_disposition` for
one container of the task (stale, reused or replaced), `CreateClean` the removal of
leftovers by name, `CleanUp` the except clause.  `Start` reads the volume as it is then.
`CancelCall` is an update, a cancelled task or a lost lease; `late` holds the start
requests whose caller is gone (`LateStart`), `StopRecord` the stop by the container id on
the task record.  `Finish` is the Worker's sentinel, `Tick` its age, `Sweep` the watchdog
for one container, `ProbeFails` a status request that cannot read the sentinel.
`ControllerCrash` kills the threads and cleans nothing; `ApiCrash` ends the calls;
`ApiStart` is a starting process with its `reconcile_tasks([])`; `Takeover` a newer lease
beside calls that go on.  `Faults` says which of these may happen.

## 3. Runs

| Run | Configuration | Question | States |
|---|---|---|---|
| `leader_lease` | `MCLeaderLease.cfg` | Is the lease an epoch lock, whatever threads outlive their callers? | 417 thousand |
| `run_takeover` | `RunTakeover.cfg` | Do crashes and takeovers leave files that replay and are in owners' order? | 1.6 million |
| `run_endings` | `RunEndings.cfg` | Do cancellation, completion, faults and the sweep agree on one ending? | 1.3 million |
| `run_heartbeat` | `RunHeartbeat.cfg` | Does an engine that lost the lease stop? | 471 thousand |
| `model_circuit` | `ModelCircuit.cfg` | Is a circuit probed by one call at a time, and do only outcomes that count move it? | 1.5 million |
| `query_loop` | `QueryLoop.cfg` | Are events, updates, unsafe tools and paid calls counted once across crashes and failed writes? | 1.4 million |
| `task_pool` | `TaskPool.cfg` | Do tasks reach their teammates, and do store, registry, checkpoints and results agree? | 152 thousand |
| `model_gateway` | `ModelGateway.cfg` | Is each physical attempt sent once and paid, and each operation answered once? | 178 thousand |
| `sandbox_calls` | `SandboxCalls.cfg` | Are accepted results of the epoch that asked, whatever fails, is cancelled or restarted? | 631 thousand |
| `sandbox_overlap` | `SandboxOverlap.cfg` | When creates of one task overlap, who keeps network and Worker, and does everything end? | 80 thousand |
| `probe_lost` | `ProbeLost.cfg` | Is the slot of a probe released when its call is over? (No.) | violation |
| `run_interrupted` | `RunInterrupted.cfg` | Can an interrupted run be resumed? (No.) | violation |

`CHECK_DEADLOCK FALSE` in the runs of the lease, of the lifecycle, of the loop, of the
pool and of the Workers: a run ends, epochs and calls are bounded, and then nothing is
left to do.  In
`ModelCircuit` time always passes, and a gateway can always be asked again.

What the properties say:

* `EpochHasOneOwner`, `EpochNeverRevived`, `CommitsInEpochOrder`,
  `OnlyOwnerEndsLiveEpoch` - the safety of the lease.
* `DesertedEpochLapses` - liveness: an epoch whose managers are all gone runs out.
* `ImplementsEpochLock` - the lease refines `EpochLock` under the mapping: epoch is
  the token in the file, the holder is its owner while the lease is live.
* `JournalReadable` - `replay()` accepts the journal in every reachable state.
* `StageOnce` - at most one checkpoint of each stage in the journal.
* `OwnersInOrder` - the fence tokens of the writers never decrease along the journal
  or the event stream.
* `ManifestFollowsOwner` - the manifest carries the token of the live owner.
* `OneEnding` - the manifest never says completed when the stream says cancelled, or
  the reverse.
* `EndedRunNotRestarted` - no engine starts to work on a completed or cancelled run.
* `LostOwnerStops` - liveness: an engine that works without the lease stops working.
* `SingleFlight` - a running probe is current, alone, and occupies the slot of a
  half-open circuit; a plain permit that is current belongs to a closed circuit.
* `WindowsAreFresh` - a closed circuit counts only calls let through since it closed.
* `ImplementsOutbox` - the journal holds each event of the loop once and in order
  (`AppliedInOrder`, which is proved), and while no journal write has failed none is
  missed.
* `UpdateShownOnce` - a task update enters the transcript at most once, and was shown
  if it is acknowledged.
* `UnsafeToolOnce` - a call that is neither read-only nor idempotent is started at most
  once in its batch.
* `SpendWithinLimit` - the calls that reached a provider are covered by reservations
  within the limit.
* `CompletedHasResult` - a completed snapshot has its result, wherever the process dies.
* `AssignmentReachesTeammate` - a pending task with a teammate is being sent, in its
  inbox, claimed or executed (until the run is resumed: section 4 says why).
* `StoreFollowsRegistry` - an open snapshot has an active record, or one whose end is
  about to be written.
* `CheckpointGivesWayToResult` - a checkpoint is deleted only where there is a result.
* `TasksEnd` - liveness: undisturbed, every task ends.
* `AttemptCalledOnce` - the provider is called once for each physical attempt id.
* `CalledIsPaid` - what was called is in the journal and held against the budget.
* `CallsWithinLimit` - reservations that count stay within `max_run_model_calls`.
* `NoBlindRepeat` - no call while another one of the operation has no outcome yet, or
  was abandoned without one.
* `EveryInvocationEnds` - liveness: every caller of the gateway gets an outcome or error.
* `ImplementsAnswer` - journal and callers implement `OperationAnswer`.
* `AcceptedOfOwnEpoch` - a result a call accepts was computed from a payload of its own
  epoch, never from what an earlier leader asked for.
* `NetworksHaveUsers` - a task's network has a create at work, one cut short by a crash of
  the Controller, or a container.
* `NewestKeepsWorker` - before its deadline, the Worker that a call of the newest epoch
  uses is ended by nobody else: no older create, stop or late start, no sweep, no
  reconcile; only by a probe that fails.
* `CallsEnd`, `UnfinishedGo` - liveness: a call that is creating ends; a container without
  a result goes, though no API process may be left.
* `ProbeHasAHolder` - an occupied probe slot belongs to a running call (violated).
* `InterruptedRunResumable` - `resume_run` accepts an interrupted run (violated).

Five more are defined, and checked by hand on the instances of the runs, or proved:
`AppliedInOrder`; `TransitionsLegal` (`advance()` never raises, and no state is replaced
by an older one); `RecoveryBounded` (a measure falls with every recovery of a model step,
although a fallback renews the output recovery); `OneWorker` (a task has one container; in
`SandboxWorkers_proofs`);
`CooldownMatchesReopens` (the cooldown is `min(max, base * 2^n)` after `n` failed probes).
The type invariants of `ModelCircuit` and `QueryLoop` are checked in the same way.

### Bounds, and why they are enough

* `MaxToken` (2 or 3 epochs).  A stale owner needs one epoch, its successor a
  second; the third lets a takeover follow a takeover, and the first owner wake up
  after both.
* `LeaseSeconds = 2` in `LeaderLease` tells a fresh lease, an ageing one and a
  lapsed one apart; `RunLifecycle` only needs live and lapsed.
* `MaxStrays = 1` - one thread left behind at a time for each run; two of them act
  on the file one after the other, and the first leaves a state the second could
  also have met.
* Three managers with two owner ids: two that share an id and one that does not.
  Two engines: the stale one and the current one.  An engine id is used again after
  its engine is gone, so a run may see more than two engines in a behaviour.
* `MaxFaults` (0 or 1) - each I/O error sends one write down its error path.
* `Disturbances` splits the environment, so that each run has the actors its
  question is about.  Together the passing runs take every action.
* `SYMMETRY` over the engines in the two runs without liveness, and over the callers
  of `ModelCircuit`.
* `ModelCircuit`: two callers, one of which is overtaken by the other, and two
  models, the least with a fallback.  Cooldowns of 1 and 2 ticks, so that the cap is
  reached; a window of one tick, so that failures outlive a cooldown; two failures
  open a circuit.  `OverflowAt = 2` stands for 1024: the second failed probe in a row
  raises.  `MaxGeneration` lets the primary be probed twice and the secondary once;
  first-token samples are kept for the secondary only (`MaxSamples`), where one slow
  sample opens it.  Ratios over several samples are not exercised.
* `QueryLoop`: three tools (one `Unsafe`, two `Parallel`) so that a batch can be cut
  between two of them; one update with two deliveries; two candidates, one recovery of
  each kind, two transport attempts and three paid calls, so that each limit is met
  and a fallback meets another one; two turns, the second with the events of the first
  behind it; two starts and one failed journal write.
* `TaskPool`: three tasks for two teammates, so that one must wait for a teammate to
  become idle; one cancellation, crash or end (`MaxFaults`), and `MaxLoad` of tasks and
  faults together.  Also checked once by hand: one teammate with two tasks and two
  faults (1.0 million states); two teammates, two tasks, one fault (283,705); two faults
  (276,268); and resumes with any teammates carried over (4.3 million, `TypeOK` and
  `CompletedHasResult` only).
* `ModelGateway`: two invocations of one operation, two epochs, a limit of two calls,
  two transport attempts on each of two models, two faults of any kind.  Invocations of
  different operations share nothing but the ledger.  Also checked once by hand, without
  `EveryInvocationEnds`: two operations (1.7 million states), a limit of three (0.7
  million), three invocations (3.5 million), a limit of three with three faults (5.5
  million).

* `SandboxWorkers`: one task, because tasks share nothing but admission; two epochs.
  `sandbox_calls` has three calls (one is updated and run again, one belongs to the next
  epoch) and every fault except overlapping creates; `sandbox_overlap` has two calls whose
  creates overlap.  A Worker's age counts to 2: its deadline and a minute later.  Also
  checked once by hand: three overlapping calls, safety only (5.9 million states), and the
  instances with `Retention = "retain_stopped"` (507 and 67 thousand), where nothing
  promises `UnfinishedGo`.
* `"overlap" \notin Faults` says that a task is not run again while an older create of it
  is at work in the Controller.  A create takes seconds; a restart, or a lease that runs
  out, takes longer, but nothing in the code enforces it.  `AcceptedOfOwnEpoch` and
  `OneWorker` depend on it, and section 4 says what happens without it; the other
  properties are checked and proved with overlaps.

Three properties of `ModelGateway` do not speak of operations in `exposed` (two
invocations of one epoch on two locks), and `CallsWithinLimit` not of reservations in
`reused`; without these exceptions TLC violates each of them, see section 4.

### Fairness

`LeaderLease` assumes that time passes and that a thread left behind runs to its
end; it assumes nothing of the engines, which may work for ever.  `RunLifecycle`
assumes that the event loop runs a ready engine (`WF(Engine(e))`) and that the
heartbeat of an engine that does not own the run any more wakes up
(`WF(HeartbeatLost(e) /\ ~Owns(e))`): `_lease_heartbeat` is a task of its own with
a sleep in it.  The length of a stage is up to model calls, so the end of a stage
(`Work`) has no fairness.  Nothing is assumed of cancellations, crashes, the sweep
or the drain.  `TaskPool` assumes that some coroutine that can go on does
(`WF(Progress)`): every wait in it is bounded by polling, by the timeouts of the file
locks or by `task_timeout_seconds`.  It assumes nothing of checkpoints, which an
executor may write for as long as it likes, nor of cancellations, crashes, ends,
resumes and lapses.  `ModelGateway` assumes that each invocation goes on
(`WF(Step(h))`): a post ends within the 60 seconds of the client's timeout, a provider
call within `model_call_timeout_seconds`.  The ways a post may end badly are limited by
`MaxFaults` except for the refusals, which `EveryInvocationEnds` must survive.
`SandboxWorkers` assumes that a call and a create go on (`WF(CallStep(c))`,
`WF(CreateThread(c))`: every request has a timeout), that time passes and that the
watchdog, a task of the Controller's own process, sweeps (`WF(Tick(c))`, `WF(Sweep(c))`).
Nothing is assumed of the Worker, which may never finish, nor of a process that starts.

## 4. What the code does otherwise than documented

* **An interrupted HTTP run cannot be resumed** (`run_interrupted`).  `create_run`
  and `stream_run` initialize the manifest with the request's config, which is not
  frozen; `initialize` later leaves an existing manifest alone; `QueryEngine.load`
  insists on a frozen config and `resume_run` answers 409.  README.md:308 promises
  the resume.
* **A probe that times out is never released** (`probe_lost`).  The timeout that
  `query()` puts around a model call has the value of the inner one and starts
  first, so a call that hangs is cancelled from outside; nothing is recorded.  A
  hanging probe leaves its circuit half-open with the slot occupied: every later
  call of the model in this process is rejected, and `force_half_open` only takes
  OPEN circuits.  The docstring of `record_inconclusive` (`models/circuit.py:414`)
  says a probe is released after an error that must not be counted.  For the same
  reason a provider that hangs does not open a closed circuit, unless the first
  packet is enforced (`model_first_packet_probe`), whose shorter timeout is inside.  The 1024th failed
  probe in a row ends in the same state: `60.0 * 2**1024` raises `OverflowError`
  inside `_open`.

Seen while modelling, without a run of their own:

* **A terminated run completes when it is resumed.**  The terminate branch checkpoints
  the next stage `terminated`; a failed run may be resumed; no stage has that name, so the
  engine falls through to `_finish_success`.  README.md:451 says such a run fails.  With
  `TerminatedRunNotCompleted` as the invariant of `RunInterrupted.cfg`, two epochs and no
  fault, TLC finds the run.
* **A failed public event does not fail the run.**  `_mark_event_persistence_failed` uses
  a store without a fence, which is refused once the manifest carries a token; the
  docstring of `mark_event_persistence_failed` says the opposite.  `EventFaultFailsRun` as
  the property, with one fault, shows it.
* **Query loop.**  A drain, or the heartbeat that stops a run whose lease is lost,
  cancels the loop in a model call or a tool batch; `query()` then saves a terminal
  state `cancelled` (`agents/query.py:1134-1142`, `1829-1837`, `1983-1995`), and the
  resumed run ends cancelled (`874-892`, `agents/query_engine.py:3580`) although nobody
  asked for it and `query_engine.py:2065` says it can be resumed.  In `QueryLoop` this is
  `outcome = "cancelled" /\ ~cancel`, which is reachable.  The same cancellation
  discards results of the batch that were committed.
* `StartResearchTask` is classified read-only by default
  (`tools/start_research_task/definition.py:110-122`, `tools/base.py:227`), so a replayed
  batch may start a second task.  `commit_supervisor_update` acknowledges mail even when
  the journal's delta failed open.  With observability disabled the budget key is
  constant (`observability/core.py:511`, `budgets.py:151`), and `max_run_model_calls`
  counts one call.
* **Teammate pool.**  A task that is cancelled after it was assigned and before it
  starts leaves its teammate's descriptor reserved.  A cancel that races the executor's
  first step is overwritten by RUNNING (`tasks/executor.py:579`); one that races its end
  leaves registry and snapshot with different ends.  After a resume a task gets attempt
  1 again, its assignment has the dedupe key of the old one, which `send()` returns
  acknowledged, and the task stays pending: `AssignmentReachesTeammate` is about the
  first process for this reason.  Two teammates may execute one task after a crash and
  a resume.  A shutdown request that was not claimed makes a restored worker loop exit.
* **Gateway.**  An eviction forgets locks that are held (`sandbox/gateway.py:349`), and a
  registration of the same epoch then lets two invocations of one operation call the
  provider under one physical id.  A reservation that another limit released is returned
  as it is when it is reserved again (`budgets.py:151`) and counts no more.  When the
  answer of a `settle` post is lost, the provider's answer is thrown away, and the post
  is repeated with a burnt nonce: 401, which is classified as an authentication error
  and is final.  A post that waited 30 seconds behind another is always refused
  (`sandbox/crypto.py:84`), while a post may take 60.  An invocation repeats a call of
  unknown outcome when the flush of its failure raises something retryable.  A cancelled
  stream leaves its operation `dispatched`, hence uncertain for ever.
* **Sandbox Workers.**  Each of these is a definition of `SandboxWorkers` that TLC
  violates on one of its two instances, the last on an instance with two tasks.  `AcceptedOfOwnPayload`: an update that cancels
  the call between its create and its start (`sandbox/manager.py:430`) leaves the created
  container, and the call that follows in the same epoch reuses it with the old payload
  (`sandbox/controller.py:472`), so the instruction is lost although
  `tasks/async_tools.py:550` promised it.  `AbandonedStop`: a Worker with a result waits
  for ever (`sandbox/worker.py:140`) and the watchdog passes it over
  (`sandbox/controller.py:694-700`), although it should stop expired Workers "even when
  the API is unavailable" (`1039`).  `CleansOrphansOnly`: a create takes the network of
  another create in flight for a leftover (`489-507`).  `LeftoversNoObstacle`: the seed
  of a create that a crash cut keeps the volume busy, and the next create raises (`519`).
  `WithinMemory`: admission counts and the create follows in another step (`483`), so two
  tasks may pass a limit of one.
* With `"overlap"` in `Faults` an older create that fills the volume of a newer one makes
  an earlier epoch's result acceptable, and three overlapping creates leave two Workers of
  a task, though `create` is said to be idempotent (`445`).  The reconcile of a starting
  process takes every container of the deployment for an orphan (`server.py:198-202`),
  which is right with one API process only.

## 5. What is proved

`LeaderLease_proofs` (checked by `tlapm`, no assumption but
`LeaderLeaseAssumption` on the constants) proves for every set of managers and
owners, any map between them, any lease length and any bounds:

| Theorem | States |
|---|---|
| `TypeCorrect` | `Spec => []TypeOK` |
| `OneOwnerPerEpoch` | `Spec => []EpochHasOneOwner` |
| `LapsedForGood` | `Spec => EpochNeverRevived` |
| `FencedWritesInOrder` | `Spec => CommitsInEpochOrder` |
| `OwnersEndTheirEpochs` | `Spec => OnlyOwnerEndsLiveEpoch` |
| `LeaseImplementsLock` | `Spec => ImplementsEpochLock` |

None of the safety properties is inductive.  The invariant that carries them is

```
IInv == TypeOK /\ LiveIsGranted /\ TokensBehind /\ TokenNamesOwner /\ CommitBehind
```

`LiveIsGranted`: a live lease has an owner and a positive token.  `TokensBehind`:
no token known to a manager, a pending call, a heartbeat or a stray thread is ahead
of the file, and whoever knows the token in the file has the owner in the file.
`TokenNamesOwner`: any two managers that know one token share an owner.
`CommitBehind`: the last fenced write is not ahead of the file.
The proof that a step preserves it has one step per action and below it one per
conjunct; the three action properties and the refinement follow from `IInv` and a
case analysis of the step.

`RunLifecycle_proofs` and `RunEndings_proofs` prove every safety property of the life of
a run, for any engines and any bounds on epochs and I/O errors, with the sweep, the drain
and cancellations enabled or not, from `RunLifecycleAssumption` alone:

| Theorem | States | Carried by |
|---|---|---|
| `TypeCorrect` | `Spec => []TypeOK` | `TypeInv` |
| `OwnersInOrderAlways` | `Spec => []OwnersInOrder` | `OwnersInv` |
| `JournalReadableAlways` | `Spec => []JournalReadable` | `JournalInv` |
| `ManifestFollowsOwnerAlways` | `Spec => []ManifestFollowsOwner` | `FollowInv` |
| `StageOnceAlways` | `Spec => []StageOnce` | `StageInv` |
| `OneEndingAlways` | `Spec => []OneEnding` | `LifeInv` |
| `EndedNotRestarted` | `Spec => EndedRunNotRestarted` | `LifeInv` |

`TypeInv` adds to `TypeOK` what the place of an engine says of its stage and outcome
(`Coherent`).  `OwnersInv`: nobody has written with an epoch that is still to come;
`FilesNext` reduces every step to the fact that what it appends bears the epoch of the
lease.  `JournalInv`: the manifest's sequence number is never ahead of the repaired
journal, so `NextSeq` follows the last line.  `FollowInv`: the manifest's epoch is not
ahead of the lease, an owner that has bound itself finds its own epoch there, and a run
without manifest has only engines outside the server, whose owner has not written.

`StageInv` puts the stages on a scale (`Place`).  The stages in the journal climb it
(`JournalClimbs`), and every stage in it comes before what its owner does next
(`OwnerClimbs`); a new run is alone until it has bound itself (`NewRunAlone`); an engine
that resumes found a frozen manifest (`ResumedFrozen`); before the first epoch there is
no line (`NothingYet`).  A second checkpoint of a stage would have to be below itself.

`LifeInv` joins these with what is told under which key (`KeysSay`), what the drain may
have told before the first epoch (`DrainedHosted`, `NothingTold`) and `EndInv`: whoever
owns the run is at a place that agrees with the status in the manifest (`OwnerAgrees`),
and from its start event to its own ending the stream is open (`OwnerUnended`).  The last
part is why the start event is accepted only once: it bears a key of its own for each
resume, so a stream that has ended refuses it, and `run.started` is told by the only
new engine there is (`OneNewRun`, `NotYetStarted`).  An engine that lost the lease needs
no place in the invariant, since the fence refuses whatever it writes.

`ModelCircuit_proofs` proves `SingleFlightAlways`, `Spec => []SingleFlight`, and
`WindowsAlwaysFresh`, `Spec => []WindowsAreFresh`, for any models, callers, chain and
policy, from `ChainAssumption` alone.  The invariant of the first is

```
IInv == ControlOK /\ PermitsArePast /\ SingleFlight
```

where `ControlOK` is the part of `TypeOK` about states, generations, slots and
callers, and `PermitsArePast` says that no permit is of a generation its circuit has
not reached: so each transition makes every plain permit of the model stale, and
nobody but the one probe can be current in a circuit that is not closed.  The steps
fall into four kinds, a lemma each: nothing moves (`QuietStep`, `LeavingStep`), a
transition with nobody let in (`TransitionStep`, `OutcomeStep`, `SelectionStep`),
and the three admissions.

`WindowsInv` adds the types of the windows and `WindowsAreFresh` itself to `IInv`.  A
transition away from CLOSED (`MovesAway`) owes nothing; the one into CLOSED is the
successful probe, which clears the windows (`RecoveryWindows`); what is recorded meanwhile
comes with a current permit (`FailureEnters`, `SampleEnters`), and pruning only takes
entries away (`AgedEntries`).

`QueryLoop_proofs` proves, for any tools, updates, candidates, limits and bounds, from
`QueryLoopAssumption` and `MaxDeliveryAssumption`:

| Theorem | States |
|---|---|
| `TypeCorrect` | `Spec => []TypeOK` |
| `TransitionsAlwaysLegal` | `Spec => TransitionsLegal` |
| `SpendAlwaysWithinLimit` | `Spec => []SpendWithinLimit` |
| `UnsafeToolsRunOnce` | `Spec => []UnsafeToolOnce` |
| `RecoveriesEnd` | `Spec => RecoveryBounded` |
| `EventsAppliedInOrder` | `Spec => []AppliedInOrder` |
| `LoopImplementsOutbox` | `Spec => ImplementsOutbox` |
| `UpdatesShownOnce` | `Spec => []UpdateShownOnce` |

They rest on a tower of invariants, each proved with the ones below it.  `TypeInv` adds to
`TypeOK` the two facts its bounds need.  `ControlInv` ties the place in the loop to the
saved phase, and lets an event wait only at the start of a turn or at the end: without
it an advance from the wrong phase could not be excluded.  `SpendInv` says that a caller
about to call has a reservation that no call has used.  `OnceInv` says that outside a
running batch no uncommitted unsafe call was started unless the batch is a replay, which
is what `RefuseReplay` looks at.  `OutboxInv` (`LogOrdered`, `EventPlaced`, `IdsKnown`,
`DeliveredKnown`) places the waiting event after everything applied and says which of
memory and journal knows it.  `StepKinds` sorts the steps into those that produce an
event, apply it, degrade, and leave the outbox alone, and the refinement is one lemma
for each kind.

`ShownInv` is about task updates, whose claim may lapse and be handed out again at any
time.  An update that was shown is acknowledged, or the journal or the waiting event names
it (`ShownKept`), and neither these nor memory name one that was not (`KnownShown`).  The
next claim asks memory only, so memory is never behind the journal (`MemoryAhead`), and an
event carries over what the journal knows (`EventCarries`, `EventLeft`).  What is claimed
is open until it is shown and about to be (`ClaimedOpen`), so nothing is acknowledged
unseen.

`ModelGateway_proofs` proves every safety property of the gateway's run, for any
operations and invocations and any number of epochs, calls, attempts, models and
faults, from `ModelGatewayAssumption` alone:

| Theorem | States |
|---|---|
| `TypeCorrect` | `Spec => []TypeOK` |
| `CallsAlwaysWithinLimit` | `Spec => []CallsWithinLimit` |
| `GatewayImplementsAnswer` | `Spec => ImplementsAnswer` |
| `NoBlindRepeatEver` | `Spec => NoBlindRepeat` |
| `AttemptAlwaysCalledOnce` | `Spec => []AttemptCalledOnce` |
| `CalledIsAlwaysPaid` | `Spec => []CalledIsPaid` |

The lemmas come in three layers.  About queues: `Follows` is the order in which posts
are queued, and `Beginning`, `Left` and `Charged` say what the queue looks like in each
phase; taking the first post, marking it as seen, and adding a failure or an attempt
keep that.  About steps: whatever a step does to its invocation, it leaves (`Leave`) or
goes on with a known shape (`Moved`), and `StepWrites`, `AttemptsMove`, `PaidMoves`,
`CallsMove` and `Closes` say what it may write.  About reachable states:

```
TypeInv /\ LockInv /\ OpenInv                  for NoBlindRepeat
TypeInv /\ LockInv /\ CountInv /\ JournalInv   for AttemptCalledOnce and CalledIsPaid
```

`LockInv`: who works waits for nobody, and of two invocations of one operation and
epoch one waits for the other, so one is in charge.  `OpenInv`: an attempt that is open,
or was abandoned, shows as a dispatched record, and nobody is in charge of an operation
with an open attempt of another.  `CountInv`: the attempts that are listed are the ones
that the invocation in charge has counted, exactly up to the post at the head of its
queue unless that post is marked as seen; `JournalInv`: they are `1 .. k`, each paid,
and the provider was called for some of them, once each.  `CountInv` is what makes the
number of listed attempts, which a later invocation starts from, a fresh number.  The
limit and the answer need `TypeInv` only.

`SandboxWorkers_proofs` proves, for any calls, tasks, epochs, retention and faults, from
`SandboxAssumption`; the last two theorems assume `"overlap" \notin Faults` besides (see
the bounds in section 3):

| Theorem | States | Carried by |
|---|---|---|
| `TypeCorrect` | `Spec => []TypeOK` | `TypeInv` |
| `NetworksAlwaysUsed` | `Spec => []NetworksHaveUsers` | `NetInv` |
| `NewestKeepsItsWorker` | `Spec => NewestKeepsWorker` | `LinkInv` |
| `AcceptedIsOfOwnEpoch` | no overlap: `Spec => []AcceptedOfOwnEpoch` | `VolumeInv` |
| `TaskHasOneWorker` | no overlap: `Spec => []OneWorker` | `VolumeInv` |

Each invariant contains the one before it.  `TypeInv` says what a call must know where it
is (`Coherent`).  `NetInv` puts the owner of a network at a place after the one where it
made it, or in a container (`NetworkPlaced`).  `LinkInv` ties labels to calls: whatever
container a call was answered with is of its task and epoch (`OwnContainers`), of two
calls of one task and epoch an update has ended one (`OneOfEpoch`), and no fence is ahead
of the epoch (`EpochsPast`).  So nobody but the newest call has a reason to touch the
newest container: an older create is refused by it, an older stop names another one.
`VolumeInv` follows the payload.  Without overlap a task has one create at work
(`OneCreate`), which past its list is alone (`CreatesAlone`); the volume it attaches is
the one it filled (`Filled`), stays so while the container is there (`Held`), and so a
Worker runs what its own call built (`OwnPayload`).

`TaskPool_proofs` proves every safety property of the pool's run, for any number of
tasks, teammates, faults, restarts and deliveries, from `TaskPoolAssumption` alone:

| Theorem | States | Carried by |
|---|---|---|
| `TypeCorrect` | `Spec => []TypeOK` | `TypeInv` |
| `CompletedAlwaysHasResult` | `Spec => []CompletedHasResult` | `TypeInv`, `ResultStored` |
| `CheckpointGivesWay` | `Spec => CheckpointGivesWayToResult` | the step alone |
| `StoreFollowsRegistryAlways` | `Spec => []StoreFollowsRegistry` | `FollowInv` |
| `AssignmentAlwaysReaches` | `Spec => []AssignmentReachesTeammate` | `AssignInv` |

`TypeInv` has the bound on attempts as its hard part.  An attempt number has no bound in
the code; it has one because a process makes at most one attempt of a task (`Attempts`)
and a new process needs a fault (`Restarts`).  `Refs` says that what coroutines refer to
is a task the process knows.  `LockHeld`: who holds the dispatch lock waits in a dispatch.

`FollowInv` is about ends and restarts.  A run that is over has no loop, no dispatch and
no open snapshot (`Over`, `Closed`), so what is open when a run is served again was there
before, and `RestorePending` gives it a record.  The hard case is a `shutdown_request`
left unread by the process that crashed: `ShutdownMail` says that it is either read or was
never claimed, hence still claimable, and `ShutdownFirst` that a teammate with one in its
mailbox has started nothing; its loop leaves before an executor exists, and no task is
reported closed behind the registry's back.

`AssignInv` speaks of the first process.  There each task has one assignment, sent after
the reservation to the teammate of the record (`OwnMail`, `OneAttempt`), whose descriptor
names the task until it ends (`Reserved`, `Busy`); what is claimed is claimed by this
process (`FreshMail`) and acknowledged before the next claim, and only once the executor
of a pending task is there (`HeldMail`).  After a resume the corresponding statement is false, as section 4
says.

Only model-checked: `DesertedEpochLapses`, `LostOwnerStops`, `TasksEnd`,
`EveryInvocationEnds`, `CallsEnd` and `UnfinishedGo` (liveness under fairness is out of
the prover's reach); `CooldownMatchesReopens` and `TypeOK` of `ModelCircuit`, both about
`min(max, base * 2^n)` (exponentiation is not in the provers' arithmetic, and what it
yields would take an induction).

## 6. Not modelled

* In `RunLifecycle`: waits for human action, quality recovery into a partial
  report, the rebuild of a damaged manifest from the journal (the manifest is
  replaced atomically), the index and the torn tail of the event file,
  `last_public_event_seq`, a fault inside `initialize`, a short `os.write`, events
  that a handler publishes to the stream `default` for want of a run id, purge and
  retention.  Renewals are not steps there: an engine's lease stays live until
  `Elapse`; `LeaderLease` has them.
* One clock.  Skew between processes is not modelled.
* In `ModelCircuit`: a caller whose policy differs from the breaker's (it gets no
  breaker and calls without a permit), snapshots for metrics, and publication of
  transitions.
* In `QueryLoop`: the text of messages and its compaction, argument validation, waits
  for confirmation, the loops of researchers, tokens and cost; `nack`, renewal,
  compaction and the dead-letter file of the mailbox.
* In `TaskPool`: `UpdateResearchTask` and instructions, tasks that wait for
  confirmation, I/O errors of the store, a second pool with an old fence token, the
  timeout of the shutdown.
* In `ModelGateway`: the API checks authority and writes in one step, though the code
  awaits a thread in between; a post arrives before its timeout or never; the first
  packet is not probed (`model_first_packet_probe = off`) and the circuit of the gateway
  is left to `ModelCircuit`; deadlines; the amounts of tokens and cost; tools,
  approvals and containers; the lookup endpoint, which only reads.
* In `SandboxWorkers`: signatures, quotas, logs, the contents of results and archives, the
  gateway's part in the egress network, `retain` rules beyond stopped containers; a stop
  is one step from the signal to the removal.  What Docker does with names, networks in
  use and mounted volumes is taken from how the Controller relies on it.
* The components that `PROJECT.json` lists as `not_modelled`, each with its reason.

## 7. Plan

In this order; each module comes with its MC module, its run and mutants.

1. **`RefreshRotation`** (`security/rbac/services/sessions.py`): one live refresh token
   for each session family, with the grace window.
2. **`Approvals`** (`sandbox/approvals.py`): single use across fences and restarts.
3. An abstract run (created, owned, ended once) that `RunLifecycle` implements.

## 8. Running

```
tlc -workers 2 -config MCLeaderLease.cfg MCLeaderLease.tla
tlc -workers 2 -config RunTakeover.cfg MCRunLifecycle.tla
tlc -workers 2 -config ModelCircuit.cfg MCModelCircuit.tla
tlc -workers 2 -config QueryLoop.cfg MCQueryLoop.tla
tlc -workers 2 -config TaskPool.cfg MCTaskPool.tla
tlc -workers 2 -config ModelGateway.cfg MCModelGateway.tla
tlc -workers 2 -config SandboxCalls.cfg MCSandboxWorkers.tla
tlc -workers 2 -config SandboxOverlap.cfg MCSandboxWorkers.tla
tlapm LeaderLease_proofs.tla
tlapm RunLifecycle_proofs.tla
tlapm RunEndings_proofs.tla
tlapm QueryLoop_proofs.tla
tlapm ModelCircuit_proofs.tla
tlapm ModelGateway_proofs.tla
tlapm SandboxWorkers_proofs.tla
tlapm TaskPool_proofs.tla
```
