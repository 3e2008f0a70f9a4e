# A TLA+ verification project for XER

XER is a V8-based script engine in C++ with native modules, an asynchronous I/O
layer, a plugin host, a script cache and a watch mode. This directory holds TLA+
models of the parts in which threads, processes or crashes interact, the TLC
runs that check them on small instances, and theorems checked by TLAPS. Paths
below are relative to the repository root.

## 1. The system

| Part | State it keeps | Operations | What is hard |
|---|---|---|---|
| I/O thread pool, `src/async_io/io_thread_pool.cc` | `tasks_`, `workers_`, `started_`, `stopping_`, a mutex and a condition variable | `Start`, `Stop`, `Enqueue`, `WorkerLoop` | notifications sent outside the mutex; a task enqueued while `Stop` runs; `Stop` joins |
| Plugin host, `src/native/plugin/pxer/pxer_host.cc` | `plugins`, `call_overrides`, subscriptions, four extension tables, `completed_async`, one mutex | `Load`, `Unload`, `UnloadAll`, `Invoke`, `Call`, `EmitEvent`, `DrainCompletedAsync`, and the host API for plugins | callbacks run outside the mutex with a raw record pointer and re-enter the host; tasks run on the pool |
| Script runtime, `src/flowscript/flow_script_require_runtime.cc`, `..._support.cc` | call stack, `module_cache_`, `loading_modules_`; on disk the cache, metadata and lock of each script | `RunEntry`, `Require`, `ExecuteScriptFile` | several processes on one cache; crashes and failed writes between its files; nine early returns |
| Script lock, `src/cache/cache_scan_and_lock.cc` | a directory beside the script | `AcquireDirectoryLock`, `CleanupDirectoryLock` | left behind by dead processes; removed without asking who made it |
| Cache storage, `src/cache/` | files below a cache root, `.ttl` sidecars | read, write by rename, remove | sidecars that outlive their entry |
| Watch mode, `src/watch/` | the snapshot, the child's pid, `last_ok`, `stop_requested_` | the timer, filesystem events, `Recompile`, `Stop` | a change during a restart; a child that does not end; the lock it leaves |
| Async files, `src/async_io/async_file_*.cc` | a stream pointer, a position, a flag, a counter | `OpenFile`, `ReadAsync`, `WriteAsync`, `Seek`, `CloseFile` | operations queued on the pool against close and reopen; an address that is used again |
| Prefetch, `src/async_io/io_prefetch_manager.cc`, `io_file_map.cc`, `io_cache_manager.cc` | keys in progress, generations, mapped regions, an LRU list and its size | `PrefetchAsync`, `TryGet`, `InvalidatePath` | three mutexes, and work between them |
| Task queue, `src/async_io/async_task_queue.cc` | a bounded priority queue, cancelled identifiers | `EnqueueTask`, `DequeueTask`, `CancelTask`, `Clear`, `Shutdown` | producers that wait |
| Buffer pools, `src/async_io/async_buffer_pool.cc`, `io_buffer_pool.cc` | free lists, flags | `Acquire`, `Release`, `Resize`, `Reset`, `Clear` | what is held across them; sizes at the limits |
| Barriers, `src/async_io/sync_primitives/` | a count, a generation or a phase | `Wait`, `Arrive`, `Reset` | reuse, and late threads |
| XER scripts, `src/xer/` | the `.xer` source, its `.bin` container and `.bak` manifest | `Compile`, `WriteArtifacts`, `Decode`, `InspectFile`, `Run`; the codec; the parser | processes on one container; damaged data; overlapping copies; ambiguity |
| Resource guard, `src/resource_guard.cc` | a monitor thread and its limits | `Start`, `Stop`, `KillIsolate` | the monitor against the end of the isolate |
| Event bus and JS bridge, `src/flowscript/flow_script_event_bus*.cc`, `src/javascript/` | listeners, queued payloads, a uv channel | subscribe, emit, post | worker threads against the uv loop |
| Model builder's pool, `src/content/ai/models_builder/utility/mb_thread_pool.cc` | a counter of pending tasks | `ParallelFor`, `WaitForIdle` | callers that share the count; iterations that use the caller's frame |
| Checkpoints and weights, `src/content/ai/models_builder/` | files, a task queue | save, list, prune; push, pull | order of names; nobody dequeues |
| Casting, `src/content/device/cast/` | a descriptor, an atomic state | `Attach`, `Detach` | a receive loop that outlives its descriptor |
| Audio, video, image, AI, terminal, wrappers, V8 embedding, crash and error reports, command line | data | computations, conversions, library calls | numeric or pure I/O: not modelled |

How they interact: the plugin host, the file readers and writers, prefetch and
casting all hand work to the *shared* thread pool. The watcher starts the
engine again as a child process, which runs the script through the script
runtime; both touch the script's lock directory. The runtime reads and writes
the cache through the cache storage. Every run of an `.xer` script first writes
its container beside it, which other processes run and inspect.

## 2. Modules

| Module | Models | Checked by | Proved in |
|---|---|---|---|
| `TaskService` | what users of the pool rely on (abstract) | as a property of `IOThreadPool` | `IOThreadPoolProofs` |
| `IOThreadPool` | the pool | `pool` | `IOThreadPoolProofs` |
| `AsyncFile` | file reader and writer over `TaskService` | `io` | `AsyncIoProofs` |
| `FreshCache` | what users of the prefetch manager rely on (abstract) | as a property of `Prefetch` | `AsyncIoProofs` |
| `Prefetch` | prefetch manager, file map, I/O cache | `io` | `AsyncIoProofs` |
| `TaskQueue` | the bounded task queue | `units` | `UnitsProofs` |
| `AsyncBufferPool`, `IOBufferPool` | the two buffer pools | `units` | `UnitsProofs` |
| `ModelThreadPool` | `ParallelFor` over `TaskService` | `units` | `UnitsProofs` |
| `SyncBarriers` | `Barrier` and `SyncBarrier` | `units` | `UnitsProofs` |
| `Sxer84321` | the codec of XER containers | `xer` | `Sxer84321Proofs` |
| `XerArtifacts` | processes on a script's container and manifest | `xer` | `XerScriptProofs` |
| `XerParser` | the parser, against a grammar | `xer` | `XerScriptProofs` |
| `PluginHost` | the plugin host and its tasks | `plugin_safety`, `plugin_liveness`, `plugin_events`, `plugin_register_extension` | `PluginHostProofs` |
| `ScriptRuntime` | processes that run scripts over the shared cache, and the lock | `script_cache` | `ScriptRuntimeProofs` |
| `LiveReload` | the watcher; extends `ScriptRuntime`, which its child runs | `watch_safety`, `watch_liveness`, `watch_typescript` | `ScriptRuntimeProofs` |
| `InductionLemmas` | induction and recursive functions, for the proofs | - | itself |

`TaskService` is where the pool and its users meet: `IOThreadPool` is shown to
implement it, and `AsyncFile` and `ModelThreadPool` instantiate it for the tasks
they hand over, its right to lose a task while it closes included.

`MC*` modules only add symmetry sets, constant values and, in `MCIo`, `MCXer`
and `MCUnits`, a variable `unit`: these three check several independent
components in one run, and the initial state says which of them a behaviour
exercises while the others stay as they are. Operators whose
comment starts with "Fault:" are plausible bugs; nothing uses them. Each
property fails when the operator that follows such a fault is replaced by it.

### IOThreadPool

Each critical section of `mutex_` is one action; `notify_one` and `notify_all`
come after the unlock and are actions of their own (`NotifyOne`, `StopNotify`). A worker is at `waiting` (inside
`cv_.wait`), `ready` (about to test the predicate), `running`, `exited` or
`none`. Spurious wakeups are included. Tasks may enqueue tasks. `Start` and
`Stop` belong to one owner: only the constructor and destructor call them in the
program, and the model also lets the owner start the pool again. `late`, `done`,
`dropped` are history variables.

### PluginHost

A thread is a stack of calls in progress; each critical section of `state.mutex`
is one action, and callbacks run between them. Any callback may call the host
API functions in `HostOps`, and `emit_event` nests a whole `EmitEvent` above it.
The pool is seen as a `TaskService` that is never closed; a task is handed to it
in the step that counts it, although the code unlocks in between, since nobody
can tell a task not yet handed over from one not yet started. A callback that goes on
after its record was erased is undefined behaviour in the code: the action
`Fault` records it and the model stops there. The event log, settings, config,
list accessors and the `Remove...` functions of the extension tables are left
out; a `Load` that fails before it stores the record changes nothing.
`HostRegisterExtension` stands for the four register functions.

### ScriptRuntime

A process is a stack of `ExecuteScriptFile` calls. Every file access is one
action, so a crash (`Die`) or another process can come between any two. Files
are replaced by rename, hence atomically; a failing replacement may leave the
old file or none (`CommitFails`). Hashes are collision-free, so metadata holds
texts. Two texts are equal or not: the diff that the runtime falls back to
compares lines, and line ends are not modelled. `nocacherequire` also stands for
`cache_readonly`, which the code treats alike. A read that fails looks like a missing file. TypeScript is
compiled before the lock is taken and is left out, as are the diff file and the
validation statistics. `AcquireFails` is enabled whenever the lock is taken, which
covers every relation between the retry limit and how long the other holds it,
and, with failing files, when the directory cannot be made.

The lock directory lies beside the script. Its cache and metadata files lie in a
directory keyed by its path or, with `--cache_dir`, in the given directory under
its file name only (`CachePath`, `FileName`): scripts of one name in different
folders then share the files and have two locks. All processes with the flag are given
the same directory. The history variable `raced` holds the files that
two processes have worked on at once, between `Acquire` and the script's code, for
two scripts: two calls for one script are no excuse, since they have one lock.
`~ScriptCacheLock` ignores a removal that fails: `Release` then leaves the
directory behind, `Stale`, as a death does.

### LiveReload

The watcher is single-threaded; `wpc` is where it is in `TriggerRestart`,
`Recompile` or `StopChild`. Edits, events (which may be lost), signals, the
child, another process that runs the script and deaths interleave with every
step. `Watched` is the path the watcher was given: the entry script itself, or
the `.ts` file it is compiled from. `max_cycles`, off by default, is left out.
No code in the repository handles SIGTERM in the child, and exec resets the
watcher's handler, so `Terminated` is its default action.

### AsyncFile

Each critical section of `state_mutex_` is one action; handing the task to the
pool comes after it (`Enqueue`), and the task has two: the operation, and the
clearing of the flag after the callback. A stream is known by its address, which
`new` may give out again after `CloseFile`: the comparison in the task sees
addresses only. Data is its length; a read past the end sets the stream's fail
bit and later reads and seeks fail, as in the standard library.

### Prefetch

`IOPrefetchManager`, `IOFileMap` and `IOCacheManager` each have a mutex; a
critical section of one of them is one action, and reading the file (`MapRead`)
another. The bytes of a region are the version of the file they came from. `floor`
records the newest version an undisturbed `InvalidatePath` vouches for. The map serves the first region that
covers a request, so an old region may hide a newer one until it is unmapped.

`FreshCache` is the abstract specification: files that change, the versions of
each that are `held` and may be served, and `floor`. A version comes to be held
only if the file had it and it is not older than `floor`; `floor` rises only
while nothing of the path is held, to a version the file had, and never falls.
`Prefetch` maps `held` to what is cached or mapped (`Held`).

### TaskQueue, AsyncBufferPool, IOBufferPool, ModelThreadPool, SyncBarriers

Critical sections are actions, with the notifications sent in them.
`AsyncTaskQueue::Shutdown` notifies after its unlock and is one action as well:
nobody starts to wait on a queue that is shut down, so the notification only
comes later. Producers that wait are `asleep` until notified
and `woken` until they hold the mutex again, with spurious wakeups. Clients of a
buffer pool hold what they were given and give it back in any order. In
`ModelThreadPool` the count, the hand-over, the run, the decrement and the
notification of an iteration are separate steps, since `pending_tasks_` is
atomic and not guarded by `idle_mutex_`. Barriers are used by more threads than
their count.

### Sxer84321

The encoder and the decoder, a token per step and a byte of a back reference per
step, with the limits of the format as constants. `BitXor` and `Mask` are
constants too: the mask is a fixed stream of bytes, whatever generates it. A
stored payload may have one byte changed (`Tamper`). `tokens` and `decoded` are
history variables that say which token the decoder is at.

### XerArtifacts

A process compiles the script and writes the container part by part, in place,
then the manifest; another reads the container's size and then its bytes, and
decodes or inspects them. Writers may fail or die anywhere, and the script may
be edited between the two times `Run` reads it. A part carries the build it
belongs to, which stands for its bytes: checksums and AES-GCM tell builds apart.
A section whose checksum is 0 is not checked by `ReadSectionBytes` and is left
out, as is `--output_dir`, which only moves the files. The sources in the container are in normal form, and so is what is run.

### XerParser

Tokens are their kinds; the lexer and the interpreter are left out. `Parser`
calls itself; the model is the machine of these calls: `open` is the stack of
the parse functions that have not returned, `at` is `index_`, and a step reads
the tokens of one node of the tree, so that expressions may nest to any depth.
The tree is the sequence of its nodes in the order of the text, with an "end"
after the parts of a function, a call or a map. `Fits` and `Tokens` are the
grammar, written from the syntax tree and not from the parser: where a node may
be, and how it is written. `ProgramTexts` is all the ways to write a program.
TLC parses what it generates and what edits of a token make of it.

## 3. Runs

Passing runs:

| Run | Instance | Shows |
|---|---|---|
| `pool` | 3 tasks, 2 workers, 2 clients | `NoLostWakeup`, `StopWakesAll`, `ExactlyOnePlace`, `DropsOnlyLate`, refinement of `TaskService`, `ServesEveryTask` (its liveness), `StopReturns` |
| `plugin_safety` | 2 clients, 1 pool worker, 2 plugins, 2 tasks | `CallTableConsistent`, `PendingAccurate`, `TaskRecordedOnce`, `TasksKeepPlugin` |
| `plugin_liveness` | 1 client, 1 worker, 1 plugin, 2 tasks, nesting 2 | `HostCallsReturn`, `TasksComplete` |
| `plugin_events` | 1 client, 1 worker, 2 plugins, 1 task, nesting 2 | `SoleClientSafe` |
| `script_cache` | 2 processes, 2 scripts of one file name that require each other, either as the entry, 2 texts, 3 sets of flags, 1 edit each, I/O failures and crashes | `LockExclusive`, `NoLeakedLock`, `RunsWhatItRead` |
| `watch_safety` | watcher, child and another process, all failures | `NoOrphan` |
| `watch_liveness` | watcher and child, 2 edits, fork failures | `SpawnUnblocked`, `EveryChangeRun`, `WatchStops` |
| `io` | 2 reads, 1 write, 2 addresses, a file of one byte; 2 prefetches, 1 caller of `TryGet`, 1 of `InvalidatePath`, 2 regions | `OpsAccounted`, `PositionTracksStream`, `CountsAccepted`, `OpsComplete`; `CacheAccounted`, `ImplementsFreshCache`, `KeysReleased` |
| `xer` | scripts over 2 bytes up to 10 long, 4 damages; 2 writers, 1 reader, 2 texts, 1 key, 1 edit; 5,274 programs, edits of one token in texts of up to 8 | `RoundTrip`, `DecodeInBounds`, `DamageDetected`; `DecodeSound`, `BuildStands`; `ParsesGrammar` |
| `units` | 3 producers on a queue of 2; 3 blocks, 2 clients; 3 vectors, buckets 1, 2, 4; 2 callers, 3 iterations; 3 threads on barriers of 2 | `ProducersWoken`, `CancelledNotTaken`; `BlocksExclusive`; `VectorsFit`; `ParallelForWaits`; `BarriersTogether` |

Runs that find a disagreement between the code and what the repository says:

| Run | What TLC finds |
|---|---|
| `plugin_register_extension` | `HostRegisterJsModule` and its siblings hold `state.mutex` and call `HostLog`, which locks it again. A plugin that registers in `on_load`, as `plugins/pxer_example_plugin.c` does, never returns from `Load`; `tests/pxer_plugin_test.cc:16` asserts that it loads. |
| `watch_typescript` | The watcher recovers the lock of the `.ts` path; the child locks the compiled `.js` path. Once a child was stopped with its script running, no later child gets past the lock, although `watch_recompile_service.h:10` promises to re-run the script. |

Met while reading and listed as findings without a run: `watch_lock_recovery.h:8`
speaks of *stale* locks and the lock of another live process is removed as well
(`Cleanup` in `LiveReload` does so); `cache_entry.h:14` says a TTL of 0 never
expires, but the sidecar of an earlier write stays; `engine_params.h:36` calls
`--cache_dir` another location, but it also merges the files of scripts of one
name (see section 4); `weight_sync_cuda.h` promises
callbacks for tasks in a queue from which nothing dequeues.

Why the bounds are enough to be interesting. In `pool` one worker can run while
the other sleeps or is on its way, a task can arrive in each of those phases and
inside `Stop`; the theorems cover every other size. Two plugins
are the fewest between which a call name can move; two tasks let one complete
while another is pending. In `script_cache` two texts suffice because every
comparison is of two texts; two processes and two mutually dependent scripts
of one name reach the shared file under two locks (the default place is a file with
one user, an easier case which `OwnFileTransparent` covers), the circular requirement of the entry script, the crash of a process
between any two files, and the recovery of what it left by the other. In
`watch_liveness` the second edit can arrive at every step of the restart caused
by the first. In `io` a second read of a file of one byte is short, two addresses
let one be used again, and the two regions together exceed the cache. In `units`
there are more producers than places, more threads than a barrier admits and a
size above the largest bucket. In `xer` the window and the runs are cut to 3 so
that scripts of ten bytes meet both limits, and the checksum to eight bits, so
that a checksum of 0, which decode does not check, occurs; two writers are
enough to mix a container. Bounds are named: `MaxInstances`, `MaxTasks`,
`MaxDepth`, `MaxEdits`, `MaxBytes`, `MaxVersion`, `MaxAllocations`, `MaxRound`,
`MaxInput`, `MaxEdited`.

Deadlock is checked in `pool`. The other systems may stop: a plugin host
with no calls left under the bounds, a watcher that has ended.

Fairness. Pool: weak fairness of each worker, of each pending notification and of
`Stop` once begun (the operating system runs threads that can run, and tasks
return); none of `Enqueue`, `Start`, the beginning of `Stop` or spurious
wakeups. File objects: weak fairness of a thread that has set the flag, of the
pool's starting a task it accepted, which `IOThreadPool` is shown to do, and of
the task. Plugin host: weak fairness of the host's own steps and of the pool's,
and strong fairness of the return of a callback at each depth: a callback does
not call the host for ever. Watch mode: weak fairness of the watcher's steps and
of the child's runtime; nothing is assumed of the script's own code, edits,
events, signals or deaths.

What the properties do not promise, because the code does not:

- `RunsWhatItRead`: a file below `--cache_dir` on which two processes have worked
  at the same time, for two scripts of one name, may give either the other's text.
- `NoLeakedLock`: a lock whose removal failed stays, as that of a dead process does.
- `EveryChangeRun`: a restart that fails (fork, or a lock that cannot be removed)
  is reported and the change is not tried again until the next one.
- `TasksKeepPlugin`: a plugin may schedule a task between `Unload`'s test and the
  erasure of its record. `SoleClientSafe` needs a single client: with two,
  `Unload` may erase a record under another thread's callback (`Fault`).
- `OpsComplete`, `KeysReleased`, `ParallelForWaits`: what a closing pool drops
  holds its flag, its key or its caller for ever.
- `PositionTracksStream`: on a failed stream `Seek` moves the reported position
  only. A read queued before `CloseFile` may be served from the next file when
  it has the same address; position and counters stay consistent.
- `ImplementsFreshCache`: a `TryGet` or a prefetch between its generation test and
  its `Put` may bring old data back, and a region cut short by the end of the
  file, whose prefetch was overtaken, is never unmapped.
- `BlocksExclusive`: `Reset` hands out blocks that are held.
- `VectorsFit`: above the largest bucket a smaller vector may be handed out.
- `BarriersTogether`: after `SyncBarrier::Reset` a released thread may wait on.
- `BuildStands`: the `.bin` and the `.bak` may be of two builds, `Run` may run a
  later text than it compiled, and a reader may meet a torn container, which it
  refuses (`DecodeSound`).
- `ParsesGrammar`: an argument that is a call with a receiver is misread, as in
  `console:log(Timer:now())`.

## 4. Proofs

Every invariant that a passing run checks is also a theorem, and so are the two
refinements. A theorem is for every value of the constants that satisfies
the named assumptions; the bounds of the runs, such as `MaxTasks` or `MaxEdits`,
are arbitrary numbers in it. Few of the invariants are inductive. Each proof
adds what makes them so, shows one lemma per action or per conjunct, and ends
with a temporal step. The strengthened invariants hold on the instances of the
runs as well.

| Module | Theorems | Inductive invariant |
|---|---|---|
| `IOThreadPoolProofs` | `PoolInvariant`, `PoolTypeOK`, `PoolNoLostWakeup`, `PoolStopWakesAll`, `PoolExactlyOnePlace`, `PoolDropsOnlyLate`, `PoolImplementsService` | `IndInv` |
| `PluginHostProofs` | `PluginCallTable`; `HostInvariance`, `PluginPending`, `PluginTasksOnce`, `PluginTasksKept`; `PluginSoleClient`; `ExtensionLocksHost` | `CallInv`; `TaskInv` and `HostTypes`, which with `CallInv` give `IndInv`; `SoleInv`; `SelfLocked` |
| `ScriptRuntimeProofs` | `RuntimeInvariance`, `ScriptLockExclusive`, `ScriptLockReleased`, `CacheTransparent`, `OwnFileTransparent`, `LocksOwned`, `LocksLive`; `WatcherOwnsChild`, `RestartUnblocked`; `RecoveryHarmless`, `WatchedCacheTransparent`, `OnlyWatchedRecovered`; `KilledTypeScriptStaysLocked` | `RuntimeInv`; `WatchInv`; both; `EntryFirst` |
| `AsyncIoProofs` | `FileInvariance`, `FileOpsAccounted`, `ReaderPosition`, `WriterCount`, `LostOperationRefusesAll`; `PrefetchKeys`; `CacheSize`, `InvalidationHolds`; `PrefetchImplementsFreshCache` | `FileInv`; `HoldInv`; `PrefetchInv`; `KnownInv` |
| `UnitsProofs` | `CancelledStayQueuedOut`, `NoProducerForgotten`; `ParallelForSound`, `LostIterationKeepsCaller`; `BarriersRelease`; `BlocksLentOnce`; `VectorsLent` | `CancelInv`, `WakeInv`; `ModelInv`; `BarrierInv`; `BlocksInv`; `VectorInv` |
| `Sxer84321Proofs` | `DecodeNeverOverruns`; `EncodeThenDecode`; `DamageRefused` | `BoundsInv`; `TripInv`; `DamageInv` |
| `XerScriptProofs` | `ContainersSound`, `ContainersStand`; `ParserParsesGrammar`; `ParserIsBounded`, `ParserOnlyAdvances` | `XerInv`; `Sound` and `Complete`; `Spent` |

### The pool

For any sets of tasks, workers (finite, not empty) and clients (finite, disjoint
from the workers). `IndInv` adds `Lifecycle` (flags, the owner's position and
worker states move together), `Holding` (a worker has a task exactly while
running), `Known` (no task appears from nowhere) and `LateTasks` (what is queued
when no worker is left is late, and late tasks are never run). `NoLostWakeup`
rests on lemmas about the cardinality of the sets of workers that a step
changes. The refinement maps a task to its `Status` and the flags to the state of
the service; each action is a step of the service or a stutter, and `IndInv`
gives that `Stop` ends with nothing queued or running except late tasks.

### The plugin host

For any finite set of clients disjoint from the workers (`ThreadsAssumption`),
and any plugins, tasks, names, topics and nesting.

- `CallTableConsistent` needs that identifiers are given out once and that an
  erased plugin has no names.
- The three properties of tasks need each other. `AsyncFrames` ties the task a
  worker executes to the frame at the bottom of its stack, so that the return
  of that frame is the one step that records the task and counts it down;
  `UnloadTested` says that a call of `Unload` past its test is of a plugin with
  nothing pending, unless a task was scheduled since, which `unload_raced`
  records; `Fresh` and `NothingPending` keep identifiers and counters of erased
  plugins out of the way. The lemmas on stacks say what pushing, popping and
  replacing the innermost frame leave alone.
- `SoleClientSafe` is about the shape of the one client's stack: a `Load` or
  `Unload` is at its bottom or above an `UnloadAll` only (`Ordered`), and
  workers never run one, so whenever a record is erased no other frame uses it.
- `ExtensionLocksHost` says of every instance what `plugin_register_extension`
  shows of one: once a thread locks `state.mutex` twice (`SelfLocked`), the mutex
  and that thread stay as they are, and no step of the host follows on any other
  thread; only callbacks that are under way without the mutex may still return.

### Scripts and watch mode

For any processes, scripts, texts, dependencies between scripts (circular ones
too), file names, flags, failures and crashes. `RuntimeInv` needs `MetaHonest`
(metadata vouches for no text but its own script's) and `HasOwnText` (a call past
the rebuild has the text it read; before the second read of the cache, the cache
holds that text), both for files not in `raced`. Nobody else works on such a file:
that is `RacesSeen`, which rests on `LockExclusive` for one script and on `raced`
for two of one name, and on `OuterCallsRun`, since a process works on one file at
a time. `LockExclusive` in turn rests on the lock being removed only by the call
that made it. `RacedShared` says that only the file of two scripts is ever
excepted, so `OwnFileTransparent` follows: without `--cache_dir`, or with a file
name of its own, a script runs the text it read, without exception.

The exception is needed. Without it TLC violates `RunsWhatItRead` on the instance
of `script_cache` in 14 states and with no failure: two processes find no cache for
two scripts of one name, both rebuild the file, the first reads back the text of
the second and runs it. The metadata it writes vouches for that text, so a later
process alone may run it as well, and the file stays in `raced`.
A step replaces the innermost call, leaves it, or enters a new one: there is one
lemma for each of the three. `LocksOwned` is the action property that
follows: only its maker gives a lock up, and one that is left behind stays.
`LocksLive` says that none is when nothing fails and nobody dies.

In watch mode `LockExclusive` does not hold: `Cleanup` removes a lock that
another process may hold. What is proved:

- `NoOrphan` without further assumptions, from the fact that the watcher has no
  child between `StopChild` and `SpawnChild`.
- `SpawnUnblocked` if `Watched = Entry`, and if no other process may leave a lock
  between `Cleanup` and the fork. Both are needed: the run `watch_typescript`
  shows the first, and the second says only that crashes and failing files are
  out, or that there is no process but the child.
- `RuntimeInv`, hence `LockExclusive` and `RunsWhatItRead`, as long as `Cleanup`
  finds no lock in the hands of a living process (`RecoversAlone`); other
  processes may do anything else (`RecoveryHarmless`). The condition is needed:
  on the instance of `watch_safety` with two texts and two edits TLC finds a
  stale text that is run after a live lock was removed. It is met
  when the child is the only process, or when the watched path is no script of
  the cache (`WatchedCacheTransparent`, with `OwnFileRuns`).
- Under the same condition, that `Cleanup` removes the lock of the watched path
  and no other (`OnlyWatchedRecovered`).
- For a watched `.ts` file, without further assumptions, that a lock which is left
  behind on the compiled script, by a killed child say, is there for ever, and that no
  child enters the script while it is (`KilledTypeScriptStaysLocked`): what the
  run `watch_typescript` shows of one instance is so of every instance. It needs
  that the outermost call of the child is that of the entry script (`EntryFirst`).

### Files, prefetch and cache

`FileInv`: for any finite sets of reads and writes, any addresses, files and
lengths. The counts are the cardinalities of the operations in flight; a task
carries the address it captured, which may have been used again (`Captured`). An
operation that the pool drops stays in flight, so by `OpsAccounted` its object
refuses all that follow (`LostOperationRefusesAll`).

`HoldInv` gives `KeysReleased`. `PrefetchInv` gives `CacheAccounted` and
`InvalidateClears` for any paths, regions, prefetches, callers and concurrent
invalidations. An invalidation that nothing disturbed so far `Vouches` for its
path: no `TryGet` of it is under way, every prefetch of it is one that was
overtaken and will find that out (`Caught`: its generation is old, or it was
found stale, or it has nothing more to do), then also that nothing of the path
is cached, and that whatever is mapped has a prefetch that will unmap it
(`Unmapping`). When the last of those has ended, `floor` is raised and nothing
older is left; `TaskOk` and `GetterOk` say that what is under way afterwards is
not older either. The refinement of `FreshCache` adds `KnownInv`: nothing held or
under way is newer than its file. Every step then leaves nothing new held
(`Kept`), or one version between `floor` and the current one (`Added`), or is the
end of an invalidation or a change of a file. `CacheAccounted` needs that the sizes of a list of entries
with distinct keys add up after entries are left out or evicted from its end.

### Queue, callers, barriers, buffer pools

- `CancelInv`: identifiers are given out in order and no two queued tasks share
  one. `WakeInv` adds `ProducersWoken` itself, with lemmas on how a notification
  moves one producer from the sleeping to the woken.
- `ModelInv`: `pending_tasks_` is the number of iterations that are counted and
  not yet counted down, and a caller that waits has issued all of its own. An
  iteration that the pool drops is counted for ever, so its caller does not
  return (`LostIterationKeepsCaller`).
- `BarrierInv`: earlier rounds had `Count` threads and the current one has those
  the barrier counts; a thread of the current round saw the current generation
  or phase, one of an earlier round an earlier generation.
- `BlocksInv`: the pool's blocks are distinct, the available ones are among them
  and not in use; a held block is in use and held by one client, unless a
  `Reset` took it. `BlockAssumption` says that the initial blocks are within the
  bound on allocations.
- `VectorInv`: a vector is in one place of one free list or is lent.
  `SizeAssumption` says that 64 doublings of the smallest bucket pass the
  largest, which is so of every `size_t`. What `RoundUpToBucket` and
  `BucketIndexForSize` return is in lemmas. Sizes are numbers: with a largest
  bucket above half of `SIZE_MAX`, which no caller asks for, the shift in
  `RoundUpToBucket` would wrap.

### XER

`Sxer84321Proofs`, for every set of scripts, mask and choice of limits that the
format's bytes can hold (`CodecAssumption`), and any operator that undoes itself
with the mask (`XorAssumption`):

- `DecodeInBounds`, from `BoundsInv`, for any changed byte of any payload that the
  encoder makes.
- `RoundTrip`, from `TripInv`. `TokenInv` says that the payload is the
  concatenation of the recorded tokens, that each token describes its stretch of
  the script (a masked copy, or an earlier place with the same bytes), and that
  the decoder, after k tokens, is at the end of the k-th in the payload, in the
  script and in the mask, with a prefix of the script written. A back
  reference that overlaps itself is covered since the prefix grows a byte at a
  time. `Fits` bounds the payload: a literal run that is not the longest is
  followed by a back reference, which is at least two bytes shorter than what it
  stands for, or by the end; so tags cost at most one byte per `MaxLiteral`
  bytes and one more, which `max_encoded_size` allows for.
- `DamageDetected`, for payloads of any length: a byte of FNV-1a is one to one
  in the hash and in the byte (`HashAssumption`: exclusive or undoes itself, and
  multiplication by the prime, an odd number, is one to one modulo a power of
  two), so checksums that differ after the damaged byte differ to the end.
  TLC evaluates the assumption for the eight-bit hash of the run.

`XerScriptProofs`, for any numbers of writers and readers, texts and keys.
`XerInv` says that every part of the `.bin` is a hole or is where the build that
wrote it puts it, that a build keeps the text and key it was compiled with, and
that a writer which has had the file to itself has written exactly what it
counted. A container that decodes has a header and a payload that agree, hence
all of it is of one build. `XerAssumption` keeps the special values apart from
the ordinary ones.

The parser, for every set of well-formed programs, of any length and depth
(`ProgramsAssumption`), and any edit:

- `Sound` gives the first half of `ParsesGrammar`: the text before `at` is what
  the tree so far is written as (with the semicolons that were read), the open
  calls are those the tree leaves open, and each node is where the grammar
  allows it. Each parse function is shown to put one node, to read its tokens
  and to put it where it fits, or to fail.
- `Complete` gives the second half. While the text is that of a program, the
  parser is `InSync`: the tree is the start of the program and `at` is the length
  of what that start is written as. The tokens of the next node then decide
  which branch is taken; that no other branch accepts them is a case analysis
  over the node, the innermost call and the token that may follow. When
  the next node is an argument that hides its receiver, the parser reads another
  node; the tree has then `Strayed` from the program and cannot be it, whatever
  is read after. `Follows` says that the parser fails in no other way.
- `Spent` gives `ParserIsBounded`: a node takes a token, except the start of a
  statement, whose value follows. `ParserOnlyAdvances` says that a step adds a
  node or ends the parse. So the parser ends after at most `2 * Len(text) + 2`
  steps, and never looks behind the end-of-file token.

What a tree is written as (`Written`) is a recursive function over its nodes;
lemmas say how it grows with a node (`Txt`, `Opn`) and that two trees which agree
up to a node are written alike up to there.

### Induction

The provers cannot instantiate a theorem whose parameter is a predicate. In
`InductionLemmas` a set takes its place: `NatInd` says that a set with 0 that is
closed under successor has every number, proved from the cardinality of
intervals; `SeqInd` does the same for sequences. `FiniteRecursion` says that a
function defined by recursion over `0 .. n` exists and is what its definition
says, and `SameRecursion` that two with equal steps agree. The lists of the
cache, the free blocks of `Resize`, the sizes of buckets, the checksum and the text of a tree are
recursive functions in the models for that reason, and their lemmas rest on these.

### Only model-checked

The liveness properties (`ServesEveryTask`, `StopReturns`, `HostCallsReturn`,
`TasksComplete`, `EveryChangeRun`, `WatchStops`, `OpsComplete`), which need
fairness and `ENABLED`. That the parser ends is liveness too; its safety part,
that every step is an error, the end, or one more of a bounded number of nodes,
is a theorem. The proofs of the users of
the pool take `TaskService` as given; that the pool implements its safety part is
a theorem, and its liveness is checked by `pool`.

## 5. Not modelled

- Numeric code, rendering, codecs, signal processing, machine learning and the
  bindings to FFmpeg, Skia, V8 and others, which are most of the source: their
  behaviour is in floating-point data or in a library. The models cover a small
  share of the repository's lines for that reason; they cover the parts in which
  threads, processes, failures or a format interact.
- The XER lexer, interpreter, values and manifest text: conversions of text.
- The resource guard, the event bus and the uv channel: an atomic flag, a
  single thread, and an order of delivery that is the library's.
- Casting: the receive loop of an earlier `Attach` may read the descriptor of a
  later one and set the state to idle (`aura_cast_session.cc:427`), and
  `SyncWithAudio` starts a sink that `SyncToSource` stops again; both depend on
  Bluetooth sockets.
- Checkpoints: names sort as text, so epoch 10 comes before epoch 9
  (`ckpt_manager.cc:145`), and a file torn by a crash may be taken for the
  latest. Weight synchronisation: nothing dequeues its tasks.
- Cache entries with a TTL, and temporary storage: nothing passes a TTL.
- In the plugin host: the event log (`HostEmitEvent` attributes the last record
  after taking the mutex again, `pxer_host.cc:951`), settings, config, lists and
  the `Remove...` functions. `on_load` that schedules a task and fails leaves the
  plugin stored though `Load` returned false (`pxer_host.cc:431`).
- In watch mode: `max_cycles`, and an edit within the clock's resolution that
  keeps the size (`watch_file_snapshot.cc:24`).
- A pool task that throws ends the process (`io_thread_pool.cc:174`).
- `ParallelFor` called from one of its own iterations, which waits for itself.

## 6. Plan

The invariants of the runs and both refinements are proved; liveness and what
needs `ENABLED` stay with TLC. Next proof: what the cache still promises after
the watcher has removed the lock of a living process. Next models: the locks of
required modules in `LiveReload`, the event log of the plugin host, the order in
which the XER interpreter resolves names.
