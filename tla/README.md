# A TLA+ verification of nadir-mlx's control plane

nadir-mlx runs local MLX inference servers behind one OpenAI-compatible gateway. A
Django UI process and a gateway process (and an MCP server) share one SQLite database
and a directory of lock files; each inference server is a *launcher* process of its own
on a TCP port. What is hard about it is not the arithmetic of any one function but that
several threads of two processes start, stop, evict, repair and observe the same rows and
launchers, that any of them can die half-way, and that one conversation is translated
between five dialects piece by piece while it is being said.

Contents: [Inventory](#inventory), [Modules](#modules),
[Runs](#runs-bounds-and-what-they-show), [Fairness](#fairness),
[Proofs](#proofs), [Findings](#findings), [Observations](#observations),
[Abstractions](#abstractions-and-limits), [Not modelled](#not-modelled), [Plan](#plan).
`PROJECT.json` maps each definition to its source lines.

## Inventory

`src/orchestrator/` is the program; `tests/`, `docs/`, `vendor/`, templates and static
files are left aside. Paths below are relative to `src/orchestrator/`.

| Component (files) | State it keeps | Operations | Hard behaviour | What makes it correct | Here |
|---|---|---|---|---|---|
| **Instance slot** (`server_manager.py`, `instance_background.py`, `instance_locks.py`) | `InferenceInstance` row, the port's flock, launcher processes | start, restart, stop, launch, abort, edit, delete | threads of two processes; crash between spawn and save; stop during a load; launchers that survive signals | one launcher per port, the row names it, a recorded stop happens, the lock is given back | `InstanceSlot`, `Routing` |
| **Monitors** (`instance_health.py`, `instance_watchdog.py`, `startup_reconcile.py`, `instance_idle_watcher.py`) | copies of rows, `ops.restart_attempts` | health pass, converge, auto restart, restore, idle offload | rows read long before they are written; locks tested and not taken | automatic actors respect the intent and the retry budget; LOADING rows settle | `InstanceSlot`, `Fleet`, `Operations` |
| **Wake on demand** (`lifecycle_services.py`) | wake lock per alias, activity stamps | `ensure_instance_ready`, touch | gives the slot back between reservation and launch | as above | `InstanceSlot`, `Fleet` |
| **Eviction** (`instance_eviction.py`, `memory_pressure.py`, `prompt_cache.py`) | the set of reserved victims | plan, reserve, stop, inside a launch | two slots at once, reservations on every path, stale stamps | no circle of loads, no reservation left behind, no busy victim, a plan that covers what is served | `Fleet`, `Footprint` |
| **Proxy and heartbeat** (`gateway/services/*_proxy.py`) | calls in flight, activity stamps | forward, stream, touch, beat | a slot taken by hand, a long answer against the grace | slots are held by calls and by nobody else | `Fleet` |
| **Upstream scheduler** (`gateway/gpu_scheduler.py`, `gateway/upstream_concurrency.py`) | three counters, two queues of waiters | acquire, release, grant loop, timeouts | cancelled futures still queued; grants racing timeouts | limits hold, no slot leaks or idles, interactive first, nobody starves | `UpstreamScheduler`, `CapacityPool` |
| **Protocol translation** (`gateway/protocol/*`, `anthropic_/responses_/ollama_proxy.py`, `thinking_control.py`) | per-stream block state, a conversation | a line in, events out; a request in, a request out | interleaved pieces, errors anywhere, several tool calls, histories written by clients | nothing lost, reordered or left open; the same from JSON as from a stream | `GatewayStream` and its parts |
| **Timing** (`gateway/request_timing.py`) | a collector per request | mark, observe, finalize | hidden usage, breaks, ends twice | the row says what was said | `RequestTiming` |
| **Route cache** (`gateway/route_cache.py`, `selectors.py`, `gateway_aliases.py`) | snapshot, generation file, expiry | list, announce, expire | writes of other processes between two reads | a current snapshot agrees with the rows | `Routing` |
| **Files and batches** (`batch_services.py`, `batch_file_store.py`, `gateway_batch_worker.py`) | job rows, file rows, blobs, the worker flock | upload, create, cancel, delete, claim, run, purge, reconcile | two workers, cancel races, crash between append and count, shared files | one runner per job, final statuses, counted lines downloadable, queue drains | `BatchJobs` |
| **Serve supervisor** (`serve_supervisor.py`, `serve`) | child processes | reclaim, start, wait, stop, watch the parent | signals to one process only, overlapping runs | a stack stops as a whole | `ServeStack` |
| **Downloads, benchmarks, model deletion** (`downloader.py`, `benchmark_service.py`, `quality_benchmark_service.py`, `model_lifecycle.py`) | their rows, one thread each, the folder | start, progress, end, fail orphans, delete | a row whose thread is gone, a deletion that checked long ago | each run ends; a live one keeps its row | `ModelStore` |
| **MCP server** (`mcp/`) | none of its own | start and stop of an instance | as a user | as a user | as a user |
| **UI, launchers, registry** | forms, static data | rendering, inference | none that other parts read | | not modelled |

Interactions. The UI, the MCP server, wakes, the watchdog, startup reconcile and the
idle watcher all go through `server_manager` and the port's flock; the row is the only
thing they share besides. A load may evict other instances before it spawns. A gateway
request first wakes its instance, then waits in the upstream scheduler, then is forwarded
and translated, and keeps its instance alive by its stamps. The batch worker sends each
line through the gateway itself, as a batch-class request of the scheduler. Every write
of a row is announced to the gateway's snapshot. Downloads, benchmarks and deletions of a
model meet on the same rows and the same folder.

## Modules

| Composition | Of | Abstract specification |
|---|---|---|
| `GatewayStream` | `ChatSse`, `AnthropicStream`, `ResponsesStream`, `OllamaStream`, `RequestTranslation`, `RequestParameters`, `GatewayErrors`, `RequestTiming`, `ChatClient` | the conversation itself (`said`, `conv`) |
| `Fleet` | loads, wakes, proxy and idle watcher over `Footprint`, and `CapacityPool` as `Pool` | |
| `Operations` | `ServeStack`, `ModelStore` (which extends `Routing`) | |
| `UpstreamScheduler` | | `CapacityPool`, by `ImplementsPool` |

### `InstanceSlot`

One instance: its row, its port's slot lock, the launchers on the port and all threads
that act on them. A thread runs one handler at a time; `pc` is its place in it, `op` the
purpose for which it holds the slot, `inst` its in-memory copy of the row. An action is
the code between two points where another thread, the launcher or a crash can
intervene, so the stale copy of a health pass and the gap in a wake are in the model.

| Code | Model |
|---|---|
| `InferenceInstance` | `row` (status, desired_state, pid, stopping_since as none/fresh/stale) |
| `instance_slot_lock` (flock), `SlotLockHandoff` | `slot`, `Take`, `Release`, and the `Resume` of the caller |
| `start_/restart_instance_in_background` | `Start`, `Restart` |
| `request_instance_stop` | `RequestStop`, then `StopNow` or `StopQueued` |
| `prepare_instance_launch`, `launch_prepared_instance`, `_launch_locked` | `Prepare` … `MarkRunning`, `AbortPersist` |
| `_stop_instance_locked` | `StopBegin`, `Kill`, `PersistStopped`, `PersistStopFailed` |
| `ensure_instance_ready`, also from `maybe_speculative_wake` | `Wake` … `WakeEnd` |
| `refresh_instance_health`, `check_instance_status` | `HealthFetch` … `WriteDown` |
| `run_watchdog_cycle` | the health pass, then `Converge`, `ConvergeStop`, `Candidates`, `AutoAcquire`, `AutoDone` |
| `reconcile_instances_on_startup` | the health pass, then `Restore`, `AutoAcquire` |
| `run_idle_offload_cycle` | `IdleCheck`, `IdleStop` |
| launchers, kernel, clock | `LauncherServes`, `LauncherExits`, `ProcessCrash`, `StopExpires` |

### `UpstreamScheduler`

The event loop's scheduler. Code between two awaits is one step, except that each turn
of `_grant_waiters` is a step (`granting` keeps other tasks out meanwhile). A waiter
whose task was cancelled has a cancelled future at once and leaves its queue only when
the task runs again: this is the window in which a grant may reach it. `lost` records
such grants, so that the other properties can say *there is no other leak*.

`Acquire`, `Resume`, `Leave`, `LeaveGranted`, `Release` are the pieces of
`GatewayUpstreamScheduler.acquire/release`; `Cancel` is the queue timeout or the client
that disconnects; `GrantInteractive`, `GrantBatch`, `GrantDone` are the loop.

### `BatchJobs`

Jobs, file rows and blobs, request handlers and two kinds of workers: the gateway's
thread and the `process_gateway_batches` command. One step is one database statement or
one file operation. `CreateBegin/End`, `DeleteBegin/Blob/Record` and
`CancelBegin/Queued/Running` are the handlers; `Take` … `Release` a worker's cycle under
`gateway-batch-worker.lock`; `Reconcile`, `PurgeJob` … `PurgeBlob` the housekeeping;
`Pick`, `Claim`, `Load`, `Read`, then per line `Line`, `OpenSide`, `AppendLine`,
`CountLine`, `CheckCancel`, and one of `Complete`, `Cancel`, `Fail`. `Raise` is an error
while a line is stored, `Crash` the death of a process. Foreign keys are modelled with
their `on_delete`: PROTECT on inputs, SET_NULL on outputs and errors.

### `CapacityPool`, the scheduler's promise

A pool without counters, queues and futures: who holds a slot, who waits, and who took a
slot with it (`wasted`, the scheduler's `lost`). `UpstreamScheduler` maps its states to
these three sets. The mapping is a PROPERTY of the `scheduler` run and the theorem
`Refinement`; `Fleet` then composes the promise instead of the scheduler.

### `Fleet` and `Footprint`

Several instances that do not fit in memory together. The slot lock is held from the
start of a load to its end, so a load is known by its instance; `Plan` is
`_plan_evictions` under the process's eviction lock, `EvictBegin`, `EvictSkip` and
`EvictEnd` are `_stop_planned_victim` with its `finally`, `Spawn` to `LoadEnds` the launch.
The loads of the UI and of the gateway have reservations and wake locks of their own.
A request resolves its alias, perhaps loads the instance or watches another's load, then
enters the pool, opens, answers. The four kinds of calls differ as in the code: a JSON
call has a heartbeat from its wait on, a stream only in its body, forwarded multipart and
binary bodies have none; only a stream takes its slot by hand and can lose it to a
cancellation (`Disconnect`). `last_used_at` is the rank of an instance's last use (`stamp`) and
the number of ranks beyond the grace (`old`): `Age` cannot pass a stamp whose request
has a heartbeat, since the settings keep the grace at two heartbeats at least.

`Footprint` is the arithmetic of `memory_pressure.py` and `prompt_cache.py` on small
numbers: layers that share a cache, sliding windows, linear states, quantized caches,
prompt caches and parallel sequences, and the concurrency limits that
`upstream_concurrency.py` takes from the same settings. `PlanCoversRequests` relates the
two: the eviction plans memory for a number of parallel sequences, the scheduler admits
requests by limits of its own, and what is served must not exceed what was planned. The
plan makes two assumptions the property repeats: it counts `PlanningParallel` sequences at
most, and it reads the smaller of the limits it knows, so an instance whose own
`max_concurrent_upstream` is lifted or above the gateway's default is planned for less than
it is served.

Why loads cannot evict each other. A victim is RUNNING when it is chosen and a load's
own row is LOADING from its start: if load a chose b's instance and b chose a's, a
planned before b started and b planned before a started, though each planned after its
own start. `EvictionsAreAcyclic` checks it for any circle, whatever the processes.

### `GatewayStream` and its parts

A client of one dialect talks with the model over several turns. The upstream's lines
arrive one at a time (`Content`, `Control`); each is restored, observed by the timing
collector and translated at once; `End` closes the stream and `Breaks` is the connection
that fails in it. In `NextTurn` the client answers the tool calls it has assembled, in
either order, perhaps with a remark and an image, and writes the keys of its JSON in either
order; the request goes through the dialect's translation again. What `json.loads` makes of
the arguments of a call (an object, another value, or nothing it can parse, as when
`finish_reason` is `length`) is the constant `JsonKind`, since the dialects differ in it:
the JSON answer of Anthropic wraps what is no object under `value` or `raw`, Ollama gives
`{}` for what does not parse, and Responses sorts keys only of what parses. Where JSON and
stream, or model and client, then differ by design, `StreamMatchesJson` and
`ClientSeesWhatWasSaid` say which form each side has. Token counts are compared in every
dialect that sends them.
 `Fails` and the refusals of
`Send` are the requests that never get a stream. A piece of text is a distinct value, so
that every loss, repetition or reordering shows.

| Code | Model |
|---|---|
| `parse_chat_sse_line`, `ToolCallAccumulator` | `ChatSse` |
| `_AnthropicStreamState`, `_events_for_chat_line`, `_close_anthropic_stream` | `AnthropicStream` |
| `_map_chat_sse_line`, `_stream_close_events` and the item events | `ResponsesStream` |
| `_OllamaStreamState`, `_final_ollama_chunk` | `OllamaStream` |
| `anthropic_request_to_chat`, `_input_to_messages`, `_normalize_ollama_messages`, `stable_json_dumps` | `RequestTranslation` |
| tools, choices, limits, formats, thinking of each dialect, `prepare_chat_upstream_body` | `RequestParameters` |
| route errors, `gateway_error`, `read_upstream_error`, `_as_anthropic_error` | `GatewayErrors` |
| `RequestTimingCollector` | `RequestTiming` |
| the clients (external) | `ChatClient` |

### `Operations`, with `ServeStack`, `Routing` and `ModelStore`

`ServeStack` has one supervisor per `serve` and its children; `mute` stands for the
questions that `ps` left unanswered when ports were reclaimed. `Routing` has the rows (an
instance's row with its aliases, status and age, or none), the
writers under their slot locks, the announcement that follows a write, and the gateway's
snapshot. `ModelStore` adds the folder, the download's threads, one benchmark with its child runs,
the watchdog's pass over orphans, and the deletion of the model step by step, which is
aborted when an instance cannot be stopped (`FailInstance`). A second download may begin while the thread of a deleted one is still
there, so `fetching` is a set of threads.
`Operations` lets processes end with their threads, locks and unsaid announcements, and
bounds what happens by scenarios. `BenchmarkRun.instance` is SET_NULL (`Unlink`), so a
run is found by its instance or by its `model_id` (`target`).

### The rest

`MC<Module>` instantiates a module for TLC; `<Module>Proofs` holds its theorems.
Operators whose comment starts with `Mutation:` are variants that no specification uses:
each stands for a plausible bug, and the property it is paired with in `PROJECT.json`
fails when it takes the place of the definition it follows.

## Runs, bounds and what they show

| Run | Instance | Distinct states | Shows |
|---|---|---|---|
| `slot_actors` | 3 users, 2 wakes, idle watcher, 3 pids, 5 operations, 2 launcher exits; on_demand | 64,658 (with symmetry) | a RUNNING row names the live launcher, a load always has its starter |
| `slot_monitors` | 1 user, watchdog, reconcile, 3 pids, 1 operation, 1 launcher exit, 1 crash; always_on, auto restart | 908,295 | one launcher per port; automatic restarts under the lock keep the intent and the budget |
| `slot_liveness` | 1 user, watchdog, 2 pids, 2 operations, 1 exit, 1 crash; fair | 145,894 | recorded stops happen, the slot is given back, LOADING settles |
| `scheduler` | 5 requests on 2 instances (limits 1 and 2), global limit 2, share 1/2; fair | 19,442 | limits, exact counters, queues, no idle capacity, interactive first, no starvation of interactive requests, the refinement of `CapacityPool` |
| `batch_jobs` | 2 jobs of 2 lines, the gateway's worker and the command, 1 client with 2 requests, 1 crash or error; fair | 289,743 | one runner per job, counts are downloadable, completed jobs are whole, final statuses and shared inputs stay, the queue drains, claimed jobs end |
| `fleet` | 3 instances of which no two fit together, a JSON call, a stream and an audio call, 2 of them at a time, 1 user's load; fair | 377,652 | reservations and slots come back on every path, no circle of loads, no busy victim, the plan covers what is served at once |
| `gateway_streams` | 5 dialects; 3 content lines and later turns together, 3 requests, 2 tools, arguments that are objects, other values, cut or empty, every parameter on its own | 542,757 | event grammars, nothing lost in either direction, stream and JSON agree, stable prefixes, metric rows |
| `operations` | 2 serves, 2 instances, 2 alias sets, 10 scenarios of up to 3 requests of a kind and 2 faults; fair | 306,587 | a current snapshot routes to what runs, live benchmarks keep their rows, stacks stop as a whole, benchmarks end |
| `slot_intent_lost`, `slot_mid_transition`, `scheduler_lost_slot`, `batch_stuck_cancel` | small | | the four [findings](#findings) |

Why the bounds are enough.
- *Threads*: each handler occurs at least once with each that can interfere with it; user
  operations up to five times, so that a stop can meet a start that met a restart. In
  `slot_monitors` one is enough: rows start FAILED or STOPPED with either intent, and
  the watchdog and reconcile launch by themselves.
- *Pids*: three, one more than launchers can be remembered at once in those runs.
- *Operations, crashes and exits* (`MaxOps`, `MaxCrashes`, `MaxExits`): one crash puts a
  process in the middle of any step and lets everything recover; the races found need
  two or three operations.
- *Scheduler*: two interactive requests on a one-slot instance, one on the other, and a
  batch request on each exercise a full instance with a free gateway, a full gateway
  with a free instance, and the batch share, which is smaller than the gateway's limit.
  A request starts again, so runs are unbounded.
- *Batches*: two jobs may share an input (the case retention must get right); two lines
  distinguish a first line, which creates side files, from a later one; four side files
  are all that two jobs can need in the code as it is; the command runs once, beside or
  between the gateway's cycles.
- *Fleet*: two of the instances are on_demand and may evict each other, the third is
  always_on and never may go; loads come from a user and from requests, hence from both
  processes. Two requests at a time (`MaxAsks`) are enough for one to be the load's own
  and one to meet the victim; they come again without bound, loads with them.
- *Streams*: three lines let a tool call be begun, go on, and be followed by text or
  another call; a conversation gives up a line for each later turn. The unusual parameters
  are crossed with one reply without content, since no translator of replies reads
  them; thinking and usage, which they do read, are explored in full. Only the first
  request of a conversation fails before its stream: the failure does not look at it.
- *Operations*: each scenario lets one group of operations meet each other, with and
  without a failure and a restart; a listing may read the generation, wait, and be
  overtaken by two writes.

The unlocked health pass of UI pages (`Viewers`) does in the passing runs what the
watchdog's and reconcile's do; it has a run of its own, `slot_mid_transition`.
`slot_actors` has neither crashes nor health passes: with the races of the findings
`RunningRowOwnsLauncher` would not hold, and the run shows that there is no other way.
Deadlock is not checked where the bounded operations may be used up and the system
rests: `slot_actors`, `slot_mid_transition`, `fleet`, `gateway_streams`, `operations`.

## Fairness

- `InstanceSlot`: weak fairness of each thread inside a handler (threads are scheduled;
  every wait in the code has a deadline, and the deadline is one of the thread's own
  steps), of the watchdog's and reconcile's next pass (their loops sleep and start
  again), and of the clock. None on users, requests or launchers: a launcher may
  load for ever, exit, or never answer. Where a property needs a launcher not to hang
  it says so (`LoadingSettles`).
- `UpstreamScheduler`: weak fairness of the grant loop, strong fairness of each task
  (asyncio runs ready tasks in turn; a running loop disables the others for a while;
  an upstream call ends by its HTTP timeout). None on arrivals or cancellations.
- `BatchJobs`: weak fairness of each worker's steps (lines end by their timeout). None on
  clients, crashes, or a restart: nothing restarts a gateway but its user, so the three
  liveness properties ask for nothing while none runs.
- `Fleet`: weak fairness of the loads and idle stops together: as long as one can go on,
  one does. None on requests, users, or the clock.
- `Operations`: weak fairness of the stacks' own steps, of the benchmarks' threads, and of
  the watchdog. None on users, faults, or a new serve: `RunsEnd` asks for nothing where
  no gateway runs.
- `GatewayStream` has none: what it promises holds at each moment of a stream.

## Proofs

TLAPS proves these for every value of the constants that the modules' assumptions allow:
`SlotAssumption`, `SchedulerAssumption`, `BatchAssumption`, `FleetAssumption`,
`SizesAssumption`, `FootprintAssumption`, `JsonAssumption` (an empty text is no JSON),
`RoutingAssumption` with `OperationsAssumption`, and `StreamAssumption`. What a theorem
assumes beyond those is in its row.

| Theorem | States |
|---|---|
| `InstanceSlotProofs!TypeCorrect` | `TypeOK`, with it the automatic restarts' budget |
| `InstanceSlotProofs!OneLauncher` | `AtMostOneLauncher` |
| `InstanceSlotProofs!IntentKept` | `AutoRestartKeepsIntent` |
| `InstanceSlotProofs!LoadsHaveStarters` | `LoadHasStarter`, assuming `MaxCrashes = 0` |
| `InstanceSlotProofs!RowOwnsLauncher` | `RunningRowOwnsLauncher`, assuming `MaxCrashes = 0` and no health pass (`Viewers`, `Watchdogs`, `Reconcilers` empty): users, wakes and the idle watcher, as in `slot_actors` |
| `UpstreamSchedulerProofs!Refinement` | `ImplementsPool`: the scheduler implements `CapacityPool` |
| `UpstreamSchedulerProofs!QueuesCorrect`, `CountersExact`, `NoOversubscription`, `NoIdleCapacity`, `InteractiveBeforeBatch` | `QueuesHoldWaiters`, `ChargedExactly`, `NeverOversubscribed`, `NoWaiterFits`, `InteractiveFirst` |
| `UpstreamSchedulerProofs!TypeCorrect` | the scheduler's `TypeOK`: counters within their limits, queues of requests. The run does not repeat it: its limits are `NeverOversubscribed` with `ChargedExactly` |
| `BatchJobsProofs!TypeCorrect`, `RunnersAreAlone`, `TerminalStays`, `InputsStay` | `TypeOK`, `RunnersOwnTheirJob`, `TerminalIsFinal`, `SharedInputsStay` |
| `BatchJobsProofs!CountsDownloadable`, `CompletedWhole` | `CountsAreDownloadable`, `CompletedIsWhole` |
| `FleetProofs!TypeCorrect`, `SlotsAreHeld` | the shapes of the state; a load holds the slots it uses (`LoadsHold`) |
| `FleetProofs!ReservationsHeld`, `EvictionsAcyclic`, `HoldersCalls`, `BusyNotChosen` | `ReservationsAreHeld`, `EvictionsAreAcyclic`, `HoldersAreCalls`, `BusyIsNotChosen` |
| `FleetProofs!PlanCovers` | `PlanCoversRequests`, for models of any number of layers and any sizes, any limits and number of requests |
| `OperationsProofs!RoutesCurrent`, `LocksKeepRows` | `SnapshotIsCurrent`; a row is not active while its slot is held (`LockedIsInactive`) |
| `OperationsProofs!LiveRunsKept` | `LiveRunKeepsItsRow` |
| `GatewayStreamProofs!AnthropicFormed` | `AnthropicWellFormed`, for conversations and streams of any length |
| `GatewayStreamProofs!ResponsesFormed` | `ResponsesWellFormed`, for conversations and streams of any length |
| `ClientProofs!ClientSeesAll` | `ClientSeesWhatWasSaid` in each dialect, for conversations and streams of any length |
| `ClientProofs!StreamMatches` | `StreamMatchesJson` in each dialect, for conversations and streams of any length |
| `HistoryProofs!HistoryStable` | `HistoryIsStable`, for conversations and replies of any length |
| `HistoryProofs!HistoryFaithful` | `HistoryIsFaithful` in each dialect, for conversations and replies of any length |

**InstanceSlot.** The invariant is `TypeOK` with
`Roles` (a label belongs to threads of one kind, hence the right caller is resumed),
`Purposeful` (which purposes each critical label may have),
`RetryRoom` (a watchdog past its check still has an attempt left: there is one watchdog),
`SlotHeld` (a thread at a critical label *is* the slot's holder, which makes critical
sections exclusive), `PortClear` (at `spawn` no launcher is left) and
`AtMostOneLauncher`. Only `Terminate` makes a thread reach `spawn`, and it has just
seen the port clear; `SlotHeld` keeps it clear until `Spawn`. Without crashes a loading
launcher keeps its starter, because every way out of the wait kills first.
For `RowOwnsLauncher`, `Owned` adds what the code relies on without saying so: the launcher
that a launch has started is the only one, and is named by the thread's copy of the row
until its pid is saved and by the row afterwards (`LaunchOwnsIt`); unless such a save is
pending, a RUNNING row names it (`RunningOwnsIt`). A starter's crash or an unlocked write of the health pass
ends that, as the findings show; hence the hypotheses.

**UpstreamScheduler.** Queues and request states determine each other; the counters
equal cardinalities of sets of owners and lost grants, so every step is one addition or
removal of an element, and the limits follow from the guard of a grant. `NoIdleCapacity`
needs that outside the loop nobody in a queue fits: joining requires not to fit, leaving
and granting only shrink capacity or queue, and every release starts the loop.
`Refinement` maps a state to who holds, who waits and who is lost. The counters being exact
(`CountersExact`), room for the pool is room for the scheduler, and each action is a step
of the pool or a stutter; only the grant loop's two turns and `Acquire` need the counting.

**BatchJobs.** The invariant is `TypeOK` with `Points` (a worker past `claim` or a
handler past its first step points at a real job or file), `LockHeld` (a worker inside a
cycle holds the lock), `Owned` (the running job is in_progress or cancelling and claimed
by its worker), `Links` (the files a job names have their rows, and a row has its blob
unless a client's delete unlinked it) and `PurgesApart` (the id of a file being purged is
not given out again, and its row goes before its blob). `Owned` needs the lock: the reconciliation that would fail a running job
runs only under it. `RunnersOwnTheirJob` makes the unconditional last saves safe, which
is `TerminalIsFinal`. `SharedInputsStay` needs that a purge deletes the row, which a
new job's foreign key would refuse, before the blob.
For the counters it adds `CountInv`: a result file belongs to one job and one kind of
result (`SidesApart`), its id is unused until then (`FreshIds`), and neither a client's
delete nor retention unlinks it unless the job counts as spoiled or is gone (`DeletesKnown`,
`PurgesUnused`). Then the lines in a file are what its worker has counted, plus at most
the one being stored (`Tallies`, with the lines left making up the total), and a job
that was never begun has none (`QueuedUnbegun`). A crash leaves the file ahead of the
saved count by at most that line, never behind.

**Fleet.** A load holds the slot of its LOADING instance until it ends, and the slot of the
victim it is stopping (`LoadsHold`); a victim list has no repetition and not the load
itself (`VictimsAreChosen`); with the reservations being those of the loads' pending
victims, each `finally` gives back just its own. For `EvictionsAreAcyclic` two
kinds of step matter: a load that starts may be somebody's victim, but has no victims
yet; a load that plans chooses only RUNNING rows, and those of loads are LOADING. Either
is itself the load without a victim among the others; the remaining steps only drop victims.
`BusyIsNotChosen` needs `BusyIsYoung`: the clock does not
pass the stamp of an instance that a heartbeat keeps touching.
For `PlanCovers`, `Limited` adds to the invariant that the slots taken never exceed the
limits that the gateway reads from the settings: only a grant takes one, and its guard is
the limit (`ChargedStep`, `LimitedStep`). Requests that are served hold slots, so their
number is at most each of the limits (`RunningIsCounted`), and the plan's parallel sequences
are the least of the limits it knows (`ParallelIs`). On the other side a layer weighs what its kind
weighs (`LayerIs`); the fold over the layers picks them in an order nobody knows, so
`SumOfKinds` shows by induction on the number of layers that any such fold is the sum by
kinds. Then the plan is the weights and so many times one sequence (`PlanIs`), and what else it
counts is not negative. `FootprintAssumption` and `SizesAssumption` are what `_first_int`,
`_parse_layer_types` and the settings' minima return.

**Operations.** Rows change under a held slot, and whoever holds one for an edit, a launch
or a deletion has found the row inactive (`LockedIsInactive`): what is
not announced at once concerns rows that no snapshot routes to. Labels never run ahead of the
generation (`LabelsAreOld`), so one announcement outdates every older reading. That a
snapshot has a newest row per alias uses that rows are finitely many. The
thread of a benchmark lives in the process its row names (`RunnerIsUp`), so the
watchdog, however long ago it read the row, finds that process alive.

**GatewayStream.** The theorem is about what a client of the Anthropic dialect has received at any
moment. `AnthropicInv` ties the translator's state to the events it has sent: `EventsOK`
(each event fits those before it: a block starts with the number of blocks so far, a
delta or a stop belongs to the block that is open), `OpenAt` (the state's open index is the
last block begun, with nothing but deltas since, and of the type the state will write to),
and `IdsOK` (a tool call has one block at most, with its own id). `Calling` and `Sent` say what the
upstream can send next, so a piece of a tool call always finds the block of its call.
Each event appended is one lemma, each kind of line a composition of those; the
folds over the at most two calls of one line are unfolded, not proved by induction.
For the Responses events the translator writes from its own state, never from what it
has sent, so `ResponsesInv` compares the two: `OpenItems` computes from the events alone
which items were added and not ended, each with the concatenation of its deltas; `Books`
reads the same off the state (the message, the reasoning that goes on, the calls in the
accumulator). `Tracked` says they are equal, that the ids given out are known to the state,
and `LogOK`: each event fits those before it, indexes count from 0, and the list `done`
names every ended item once. Each event is then one lemma (`LogAdd`, `LogPut`, `LogEnd`)
on the two sets, and each line a composition. At the end the reasoning, the message and
the calls are closed until nothing is open; every index is then in `done` once, so sorting
it puts each item at its index (`OrderedPlaces`). Closing any number of calls and
concatenating any number of deltas are inductions, done on sets of numbers
(`SetInduction`, from the well-foundedness of `<` on `Nat`).
`ClientSeesAll` adds the reader. `ReplyInv` says what has been heard of the reply: what
`said` gathers is what the lines on the wire carry. Each client is a fold over what
it was sent (`Blocks`, `Items`, the lines of `HearTwin`, chunks joined), so each gets a lemma that says what
one more event does to that fold, from its value before (`ClientProofs` proves
these by induction on the prefixes of the stream). The invariant of a dialect then relates
three things: the client's parts joined, what was said, and what the translator still keeps
back. OpenAI passes lines on, so client and `said` are the same fold; in Ollama
the calls follow at the end from the translator's accumulator, which agrees with what was said
(`Gathered`); in Anthropic an open block holds the pieces of its call so far
(`AnthropicSees`); in Responses the client's items are those that `Books` computes from
the state, and a call's arguments are there in full only when it is done (`ResponsesSees`).
`StreamMatches` reads the JSON answer the same way, each call's arguments in the form the
dialect's JSON gives them. It holds at most one thinking part, one
text part and the calls in order, so joining its parts is joining what each piece has said
(`PartsTogether`), and the client of the stream read the same (`ClientInv`). What is left is
what the client reads beside the pieces: the ids of the calls agree with the accumulator
the JSON is built from (`AgreeSays`), and the stop reason is the last one the upstream gave
(the environment's `FinishReasons`, none of which is `None`).
`HistoryStable` is about requests. `TakesAll` is what each translator makes of a list of
items, one after the other (`TakesOne`); by induction on the list it only adds messages
(`AllAreTaken`), two lists can be taken one after the other (`TakesJoined`), and items that
differ in the order of their keys leave the same (`TakesAlike`, from `Stable`).
`HistoryInv` says that the last request holds what is made of the conversation in
every order of keys, and that in Responses no call waits to be written: a waiting
call would join the next turn's calls in one message and change the message before. A turn
never leaves one waiting, since it ends with an answer or with words of the user
(`TurnFlushes`), which holds because the client answers the calls it has or says
more (`TurnOK`, from `ClientInv`).

`HistoryFaithful` decodes those messages. `JoinedUp` reads them as the property does: the
messages of one reply joined, the answers resolved to the calls with their id. `FaithfulInv`
says that so read they are what is expected of the conversation, and that they do not end
with a reply (`Settled`): only then is the next turn's reply not joined to an older
one. `Turned` is what a dialect has to show of one turn: the new messages are a reply in any
number of parts, joined the turn's own, then an answer with the id of each call, the ids
distinct, then the remark. `TurnJoined` gets the invariant's step from it, once for all
dialects. An Anthropic turn is two messages, whose blocks are sorted by type
(`AnthropicReply`, `AnthropicAnswered`). In Responses text and calls come as separate items
and calls wait for the next item that is none; `HeardOf` says what was written and what
waits, item by item (`HearsKeptReply`). In Ollama the calls have no ids: the gateway numbers
them, and `Waiting` says that the ids kept under a tool's name are those of its calls not
yet answered, oldest first, so that each answer, in the order of the calls, takes its own
(`NextWaits`). That the client's calls have ids of their own (`OwnIds`), that no call is
nameless and that what it keeps is what it received is `ClientInv`, proved for the streams.

Only model-checked:
- All liveness (`QueuedStopConverges`, `SlotIsReleased`, `LoadingSettles`,
  `InteractiveServed`, `QueueDrains`, `InProgressEnds`, `SlotsComeBack`, `StacksStopWhole`,
  `RunsEnd`): fairness and ENABLED are beyond TLAPS.
- `ParametersArrive`: the wishes a client may have (`WishesOf`) are a fixed set whatever
  the constants are, and a conversation keeps its wish, so the initial states of
  `gateway_streams` are already all its cases.

No module uses RECURSIVE operators.

## Findings

Each is a run that TLC ends with a counterexample.

1. `slot_intent_lost`: the health pass saves `desired_state` from a row read earlier and
   can undo a stop recorded meanwhile, although automatic actors "never override" it.
2. `slot_mid_transition`: the health pass tests the slot lock but does not take it, and
   can save FAILED over a row that a starter has just taken.
3. `scheduler_lost_slot`: a grant to a waiter whose timeout has just cancelled it charges
   the counters and raises; the capacity is gone for the life of the gateway.
4. `batch_stuck_cancel`: a cancellation between the claim of a job and the first read of
   its run leaves the job in `cancelling` for good.

## Observations

Behaviour met while modelling that no document contradicts outright, or that a property
names as its exception. Each is listed under `hazards` with its line.

- A stream that is cancelled while it opens, or whose body is never read, keeps its slot of
  the scheduler: `HoldersAreCalls` excepts it.
- A request that begins between the choice of a victim and its stop is cut off; a stream
  has no heartbeat while it waits for its slot or for the upstream's headers.
- Deleting an instance during a complete benchmark kills the benchmark's thread and leaves
  its row RUNNING for the life of the UI process (`Stranded`, excepted by `RunsEnd`).
- Deleting a model deletes its instances first; benchmark runs whose `model_id` is an alias
  are then no longer found and stay, although the docstring says they are purged.
- A download whose process died stays DOWNLOADING: it can be neither repeated nor deleted.
- A `ps` that does not answer in time is taken for a dead parent: a second `serve` may
  then kill the children of a healthy first one.
- The failure that a health pass writes after the process died, the deletion of an inactive
  row, and a writer that dies before it announces wait for the snapshot's expiry.
- A reservation that nobody announces leaves `GET /v1/models` and the statuses of aliases as
  they were until the snapshot expires.
- A call cut by the length limit reaches an Anthropic client of the stream as broken JSON, an
  Anthropic client of the JSON answer as `{"raw": ...}`, and an Ollama client as `{}`: what the
  model had said of it is then lost to the last.
- An instance whose own `max_concurrent_upstream` exceeds the gateway's default is served more
  requests at once than its eviction plan counts (excepted by `PlanCoversRequests`).
- A streamed request of the OpenAI dialect that fails before its stream has no metric row;
  Anthropic errors from the proxy keep OpenAI's type names.

## Abstractions and limits

- One instance and one port; a port is not reused by another row. Threads have one role
  each. A gateway runs one watchdog (`SlotAssumption`).
- Deadlines, grace periods, backoff and idle timeouts are choices: the step they delay may
  happen at any time. A stop's staleness is the exception: it is longer than any live stop.
- `is_slot_lock_held_elsewhere` (acquire and release at once) is an atomic test. The
  kernel does not reuse a pid that the row or a thread still remembers.
- A launcher survives the signals only when it holds the port; one still loading dies.
- Not in `InstanceSlot`: eviction inside a launch (`Fleet`), deletion and editing of rows
  (`Routing`), the optional generation probe.
- Scheduler limits are constants of a run; the scheduler is not replaced.
  `PrioritySlotScheduler` is not used by the program.
- `BatchJobs`: one gateway process, and in its run one client: a client that deletes what
  another creates meets it in the proof only; time is abstract, so any ended job may be purged;
  database errors happen only while a line is stored; a side file is created and linked
  in one step; an upload is one step because nobody can name the blob before its row.
  What a client's own delete destroys while a job writes it is exempt (`spoiled`,
  `erased`).
- `Fleet`: memory is what the estimates say; a load knows its need and the room left. The
  heartbeat's period and the grace are in the guard of `Age`. Wakes and stops are those of
  `InstanceSlot` in fewer steps: the races of one slot are checked there.
- `GatewayStream`: the upstream names a tool call in its first piece, finishes one call before
  the next and numbers them from 0, as mlx-lm does. A tool choice is a bare word or a named
  tool (an Anthropic `{"type": "any"}`, which is passed on untranslated, is left out).
  The gateway's own wish for usage (`telemetry`) varies in the OpenAI dialect, the only
  one that reads it. The clock of `RequestTiming` is the number of pieces said. One image per
  turn, without its format.
- `Routing`: an announcement is one step (the own snapshot, then the file); the generation is
  a counter, where the code compares the file's time of change. `Snapshot` is the part
  `running_targets`; `SnapshotIsCurrent` says nothing of `alias_status` and `models_payload`,
  which go stale as observed above. Requests find their instance by a query of the rows, not
  by the snapshot; that lookup is not modelled. A health write needs a free slot here; the
  pass's window between test and write is finding 2.
- `ModelStore`: one benchmark and one deletion at a time; benchmarks of an endpoint have
  no instance and are left out.

## Not modelled

`PrioritySlotScheduler` (used by tests only), replacing the scheduler when the environment
changes (it does not in a running gateway), the UI's forms, views and selectors, the
inference servers around their MLX libraries, the static model registry, parsing of
command lines and settings, the badge that says in the catalog whether a model fits
(`mac_model_fit.py`: an estimate from a generic shape that only colours and sorts), the
contents of benchmark results and of metric rows beyond
`RequestTiming`, MCP transport and authentication. These are I/O, formatting or data
that no decision of the modelled parts reads. Multipart bodies, headers and URL tables are
passed through unchanged.

## Plan

1. Done: the modules above, their runs, and the proofs listed.
2. Stays with TLC: liveness, and `ParametersArrive`.
