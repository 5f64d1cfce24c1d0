# TLA+ models of zlim

zlim is a game-engine framework in Rust: an entity-component system, a
scheduler that runs systems in parallel, a task pool beneath it, assets,
reflection and the usual mathematics. This directory models the parts of it
where correctness depends on the order in which things happen: the
work-stealing task pool and its main thread (`zlim-task`), the executors of schedules
and the entity allocator (`zlim-core`), the registry of the asset server and
the asset importer with its transaction log (`zlim-asset`). The modules are
translated from the Rust source; `PROJECT.json` maps each definition to the
lines it stands for.

Contents: [inventory](#inventory) · [modules](#the-modules) ·
[runs](#the-runs) · [fairness](#fairness) · [proofs](#the-proofs) ·
[findings](#where-the-code-and-its-promises-disagree) ·
[observations](#observations) · [limits](#what-is-not-modelled) · [plan](#plan)

## Inventory

Paths are relative to `src/crates/`.

| Component | State | Operations | What makes it correct |
|---|---|---|---|
| Local deque, `zlim-task/src/platform/multi/local_deque.rs` | `head`, `tail`, a ring of 64 slots | `push`, `push_many`, `pop` (owner), `steal`, `len` (anyone), `Drop` | no runnable is handed out twice, lost, or read while it is written; the ring is never overrun although pushes do not check |
| Pool executor, `.../multi/executors.rs` | global queue, deques, lounge (`sleeping_num`, `waking_count`, `cached_index`, wakers), `is_waking`, per worker `working` | `spawn`, reschedule, `wake_one`, `fetch_runnable`, `sleep`, `wake`, `worker_run`, `assist_run` | no runnable waits behind sleeping workers; the lounge's counters are right; every runnable is run |
| Task pool, `.../multi/task_pool.rs` | threads, stop event, one `Scope` per call of `scope` | thread loop, `scope`, `Scope::spawn*`, `Scope::drop`, `Drop` | when `scope` is left no scoped task is alive (its `unsafe` lifetime extension rests on that); dropping the pool ends every thread |
| Local executor, `.../platform/common.rs` | a thread-local queue and one waker | `spawn_local`, `try_tick`, `run` | a scheduled local task is run, by the thread that may run it |
| Main executor, `.../multi/main_executor.rs` | queue, `AtomicWaker`, thread id | `spawn`, `run`, `invoke_on_main` | no lost wake-up of the main thread; what it is handed is run |
| Schedule, `zlim-core/src/schedule/schedule.rs` | jobs, ordering edges (strong, weak, relaxed), stages and groups, sync points, compiled `JobSchedule`, conflict table | insert and remove jobs, orders, conditions; `update` | the compiled graph means what the orders promise |
| Multi-threaded executor, `.../schedule/executor/multi.rs` | `incoming`, `strong_incoming`, ready/running/deferred sets, event queue, spin lock | `exec`, `tick`, `handle_completed_job`, `spawn_ready_tasks`, the tasks | every job is run once or rightly left out; conflicting jobs never overlap; deferred commands are visible where promised; `exec` returns |
| Single-threaded executor, `.../executor/single.rs` | `strong_incoming` | `exec` | the same |
| Queues and locks, `zlim-utils/src/sync/` | `SegQueue`, `ArrayQueue`, spin lock | push, pop, lock | linearizable; mutual exclusion |
| Entity allocator, `zlim-core/src/entity/allocator.rs` | next index; free list in chunks, whose length, disable flag and generation are one word; two buffers of the owner | `alloc`, `alloc_many`, `alloc_mut`, `free`, `free_many`, `remote_alloc`, `Drop` | no entity is handed out twice or lost; the word never overflows into its flag; a remote is not kept waiting |
| Entities, tables, archetypes, queries, commands, messages, `zlim-core/src/` | ECS storage | many | sequential consistency of maps and tables |
| Asset server, `zlim-asset/src/server/` | `AssetInfos`: entries by path, load states, dependencies in both directions, drops to skip, waiting tasks; event and drop queues; `pending_tasks` | `load`, the load tasks, the two jobs that drain the queues, `wait_for_asset` | a handle keeps its entry, an unused entry goes; the recursive states are right; who waits returns |
| Asset processor, `zlim-asset/src/processor/` | transaction log, processed files and `.meta`, `ProcessorAssetInfos` with statuses, records and file locks, the tasks of a pass | `run`: validate the log, scan, process, requeue dependents; the gate for readers | nobody reads a half-written asset; after a run everything is what processing from scratch gives, whatever crashed before; the run ends |
| Application, reflection, scenes, transforms, diagnostics, mathematics, logging, platform glue, macros | | | sequential or no protocol of their own |

How they interact. `Schedule::run` calls the executor, whose `exec` opens a
`TaskPool::scope` and spawns one task per system on the pool; a system that
must stay on a thread goes to the local or main executor. `scope` spawns
through `PoolExecutor`, keeps the handles in a `SegQueue`, and while it waits
makes the calling thread run the pool's runnables, its local executor and, on
the main thread, the main executor; so scopes nest inside tasks, and a worker
can be in several `block_on` calls at once. `PoolExecutor` keeps runnables in
one `SegQueue` and one `LocalDeque` per worker, and parks workers with wakers
kept in the lounge. Jobs leave deferred commands in their systems; sync points
(exclusive tasks) apply them. Systems draw entity ids through the shared
allocator while other threads draw them remotely. The asset server's load tasks
and handles push events, which two systems of the main schedule apply; where
assets are processed, load tasks read through the gate of the importer, whose
own tasks read each other's results through the same gate.

What is hard: the owner and the thieves of a deque meeting at its last
element; a spawn racing a worker that is going to sleep; the waking flag,
tested outside the lock it belongs to; handles queued after their tasks have
begun to run; panics that unwind through somebody else's wait; completion
events pushed while the scheduler's lock is changing hands, and the processor's
freedom to delay the release of that lock; a remote allocator that reads a slot
it may no longer own; events about an asset that was dropped and requested
again meanwhile; a crash between any two writes of the importer, and
dependencies rewritten under those who read them. The list, with lines, is
`hazards` in `PROJECT.json`.

## The modules

| Module | Models | Role |
|---|---|---|
| `LocalDeque` | `local_deque.rs` and its callers in `executors.rs` | detailed, one action per atomic access |
| `LocalDequeProofs` | | theorems about `LocalDeque` |
| `PoolExecutor` | `executors.rs`, thread loop and `Drop` of `task_pool.rs` | detailed, deque operations atomic |
| `PoolExecutorProofs` | | theorems about `PoolExecutor` |
| `TaskScope` | `scope` and `Scope` of `task_pool.rs`, local tasks of `common.rs` | detailed |
| `TaskScopeProofs` | | theorems about `TaskScope` |
| `MainThread` | `fake_main.rs`, `main_executor.rs`, `common.rs`, nested `block_on` | detailed, one action per access to a shared queue or waker |
| `MainThreadProofs` | | theorems about `MainThread` |
| `ScheduleGraph` | what `schedule.rs` compiles | operators |
| `ScheduleRun` | what running a schedule promises, whoever runs it | abstract specification |
| `ScheduleExecutor` | `executor/multi.rs`, `executor/single.rs` | detailed, implements `ScheduleRun` |
| `ScheduleExecutorProofs` | | theorems about `ScheduleExecutor` |
| `EntityAllocator` | `entity/allocator.rs` | detailed, one action per atomic access |
| `EntityAllocatorProofs` | | theorems about `EntityAllocator` |
| `AssetServer` | `server/info.rs`, the load path of `server/internal.rs`, the two jobs | detailed, one action per critical section or event |
| `AssetServerProofs` | | theorems about `AssetServer` |
| `AssetImporter` | `processor/` from the transaction log to the end of a pass, reads through the gate | detailed, one action per write to the disk or critical section |
| `AssetImporterProofs` | | theorems about `AssetImporter` |
| `MCLocalDeque`, `MCPoolExecutor`, `MCTaskScope`, `MCSchedule`, `MCEntityAllocator`, `MCAssetServer`, `MCAssetImporter`, `MCMainThread` | | instances for TLC |

Definitions with the comment "Mutant of X" are X with a plausible
mistake; replacing X by one of them makes TLC find the corresponding property
violated, which shows that the property depends on that piece of code.

### LocalDeque

`head`, `tail` and `slots` are the struct; `opc`, `ot`, `oh`, `oleft`, `orest`
are the owner's program counter and locals, `tpc`, `th`, `tval`, `trest` each
thief's. Every load, store and compare-exchange is an action. A slot is not an
atomic: a thief that reads the very slot the owner is writing may get torn
bits, `Torn` (0), and the code is right if its compare-exchange then fails. The owner is driven as `PoolExecutor` drives it
(`pop`, and only after `None` a refill with `push` or `push_many`), because the
pushes have no capacity check of their own: `NeverFull` is a property of both
together. `usize` indices are naturals; the only use the code makes of wrapping
subtraction, a negative difference being huge, is in `Empty`.

### PoolExecutor

Runnables are counted, not named. A deque operation is one step, which
`LocalDeque` justifies; a critical section of the lounge is one step, or two
where it stores `is_waking` after changing the lounge, since `wake_one` tests
that flag outside the lock. `pc` follows a worker through `run_with`: "poll"
(stop signal, then the loop), the fetch hierarchy ("fetch", "grab", "steal",
"len", "inner"), `wake` ("self", "self2"), `sleep` ("sleep", "sleep2"), "park",
and "run" while a task runs. A task may schedule more and may call `scope`,
which makes the worker run again one level down (`depth` 2); between two looks
for work a worker may run tasks of its `LocalExecutor` ("local"). Wakers belong
to a level of `block_on`, and unpark only that one (`token`).

### TaskScope

One call of `scope`. `cpc` is the caller: inside `f`, popping, awaiting,
unwinding, cancelling, and how it left. A task is spawned in two steps, as in
the code: it is scheduled (and may run) before its handle is queued; `held`
records the handle in between. Tasks spawn tasks, suspend, complete, panic, are
cancelled. `where` says whether the caller has to tick a task; whoever wakes a
local task decides that, as in the code. Tasks of `spawn_local` that have
nothing to do with the scope share the caller's executor and may panic while it
ticks them; `orphans` is a history variable, the tasks whose handle such a
panic has dropped.

### MainThread

`calls` is the stack of `block_on` calls on the fake main thread; only the top
one acts. `at` follows its poll as the nested `or`s order it: the future, local
tasks until there are none, main tasks until there are none (registering and
popping are two steps, others push in between), then the parker. A task it runs
may spawn, call `block_on` or `scope` (`BlockOn`, one level more), suspend,
return or panic; a panic unwinds to the first main task on the stack, which
catches it, or to the loop of the thread. `local_waker` and `main_waker` are the
two slots, overwritten by whichever call polled last. Other threads push, take
the waker and wake it in three steps, and may run main tasks themselves
(`run_local`).

A task that suspends (`TaskSuspends`: its poll returns `Pending`) waits, or is
scheduled again at once because it was woken while it ran. Its waker calls the
schedule function it was spawned with. On the main thread that is `WakeTask`,
called by the task that runs or by the future of a call. Another thread that
wakes a main task pushes it (`Push`, like a new one), and one that wakes a local
task pushes it to *its own* `LocalExecutor` and may run it there
(`StrayTaskEnds`). A suspended task can be the very one a call awaits, which is
what makes the slots delicate: `displaced` is a history variable, a nested call
has ended since this call registered for local tasks, and `Stranded` is the call
that sleeps beside a local task for that reason.

### ScheduleGraph, ScheduleRun, ScheduleExecutor

A *plan* is what the user inserts. `JobSchedule(p)` is what `update` compiles:
nodes for jobs and sync points, in-degrees, successors, conflicts.
`ScheduleExecutor` executes it as `multi.rs` or, if `kind` is "single", as
`single.rs` does. The two meet in
`ScheduleRun`, which knows only jobs, the orders the user gave and which
commands have been applied: a job starts only when what is before it is
resolved, strongly-before jobs succeeded, nothing in conflict is running, and
the commands it is promised are applied. `RunRefines` states that the executor
implements it; the refinement mapping is the identity on `plan`, `kind`, `status`
and `applied`, everything else is hidden.

`ScheduleRun` is instantiated twice. `Docs` (`Excused = {}`) is the orders as the
docs state them: what a job before a weak order has queued is visible behind it
even if that job failed. `OrdersHold` says so, and is a
[finding](#where-the-code-and-its-promises-disagree). `Promise` excuses the
multi-threaded executor from this one promise and is what `RunRefines` is about;
the single-threaded executor is excused from nothing.

A case of `Cases` says which plan is run, by which executor, how often, and
whether the release of the spin lock may be `delayed`: whether the one store
where it matters is sequentially consistent or sits in a store buffer
(x86-TSO), since its `Release` ordering does not keep the following load of the
event queue behind it.

The single-threaded executor visits the nodes in topological order (any of
them: the code has one), passes placeholders and applies a job's commands as
soon as it has returned, also if it failed. A panic unwinds at once
(`Unwind`), where the multi-threaded executor treats it as an error of that
job and goes on; `RunComplete` is about an `exec` that returns.

### EntityAllocator

`word` is the packed atomic: `len` (its value minus the bias `LENGTH_0`),
`disabled`, `gen`. `slots` are addressed by chunk and offset as
`chunk_with_index` does, and `AddressAssumption` states that no two indices
share a slot. Threads that share the world (`Locals`) pop with one blind
subtraction, then mint what is missing (`LocalAlloc`, `Mint`), then take ids
from the iterator one by one or drop it. The owner has the world exclusively:
`alloc_mut` and `free` work on its two buffers and reach the list in batches;
`FreeList::free` is three actions (set the flag, write the slots, store the old
word with the new length). A remote loads the word, waits while it is disabled,
reads a slot and claims it with a compare-exchange. Reading a slot that is being
written gives any value. `held` counts how often an id is handed out;
`leaked` are ids that go with a dropped iterator or a panic, as the code
documents. `borrowed` is set when the length runs through its bias into the
flag, and the model stops there; `UnderflowHarmless` says when that can be.

### AssetServer

`info` are the entries of `AssetInfos`, `index` the entry of a path. An entry
number is never reused, as generations make sure in the code. Who holds a
strong handle is derived (`Alive`): the application, a load task before it has
found its loader, the handles a loader has asked for, queued values, stored
values, waiters, and the requester of a task being inserted. `DropHandles`
turns every step after which an entry has no handle left into a drop event.
Requests are `GetOrAlloc` and `Spawn`; the task can run, and finish, before
`Insert` puts it into `pending_tasks`, which happens under a second acquisition
of the lock. The jobs hold the lock of the registry for a whole drain (`lock`);
propagation up the dependency tree is one action per edge (`work`), in any
order. Events may find their entry gone, or requested again.

### AssetImporter

The disk is `source`, `bytes`, `meta` and `log`; the rest is lost in a crash
(`Stop`), and the next process makes the next run. A revision is a content and
the revisions it was made from, so "the output is right" is "equal to
`Built(source)`"; hashes are taken to be injective. A task (`Examine` to
`FinishProcessing`) checks whether its asset is up to date, takes the write
half of its lock, logs, opens and so tears the output, reads its dependencies
through the gate, writes bytes and `.meta`, logs again, and records the result,
which queues its dependents once more. Reads are two passes through gate and
lock, as `rdbytes_impl` and `get_meta_loader_and_reader` make them, the first
lock kept; a load that finds no `.meta` goes through them once more for the bytes
(`WithoutMeta`). The scan removes a pair in two writes, bytes first
(`RemoveBytes`, `RemoveMeta`). A status channel holds one message.

What is simpler than the code: the log can always be written (the code only
reports that it could not, `transaction.rs:80`, `155`, `163`, and goes on), and
files can always be removed. What a task reads before it decides (`.meta`,
source, index) is one moment, `Examine`; that any of it cannot be read is
`Unreadable`.

The last five variables are history: `dirty` (edited since listed, or could not be
read), `broken` (given up on in this run, or made from what was), `late` (of this
run) and `mingled` (see the observations), `lost` (a run that distrusted everything left a file it did not
redo). The properties exclude what these name, and what `Overtaken` describes;
each exclusion is one of the observations. `InLine` leaves out of its promise
about the bytes, not of that about the `.meta`, what `mingled` names.

## The runs

Run with `tlc -workers 2 -config X.cfg M`; the longest take about three minutes.

| Run | Instance | Shows |
|---|---|---|
| `deque` | 2 thieves, ring of 3, 4 tasks, owner-fair | `ExactlyOnce`, `NoTaskLost`, `NeverFull`, `EveryTaskTaken` |
| `pool` | 2 workers, 1 spawner, deques of 2; up to 3 of: runnables, a nested scope, a spurious unpark, a local task, a drop; threads fair | `NoLostWakeup` and its temporal counterpart `WorkConserving`: a runnable and a parked worker find each other although no running task returns; `LoungeCounts`, also with workers that leave or unwind; if tasks return, `EveryTaskRuns` and `PoolStops` |
| `schedule` | 13 plans by the multi-threaded executor, 5 of them with a delayed release and 2 of them twice; 18 plans twice by the single-threaded one; fair | `RunComplete`, the refinement `RunRefines` (the orders, weak ones behind a failed job excepted as above), and `ExecReturns`; with a delayed release a plan may stay unfinished (see below), but what is run respects every order and `exec` returns |
| `scope` | 3 tasks, 3 suspensions, foreign panics, tasks end | `ScopeWaits`, `ResultsComplete`, `ScopeEnds` |
| `alloc` | 2 threads that share the world, the owner, 2 remotes; 2 chunks, 2 ids, 4 calls | `UniqueHandOut`, `NoIdLost`, `UnderflowHarmless`, `RemoteReturns` |
| `importer` | scene made from mesh made from image (copied); outputs of none or of older sources; 1 reader; 2 runs and one edit, load, failure or crash | `ReadsWhole`, `InLine`, `PassEnds` |
| `assets` | x needs y and z, y needs z; x requested twice, 1 waiter | `HandleKeepsEntry`, `DropIsComing`, `WaitsForLoading`, `LoadedIsLoaded`, `WaiterReturns` |
| `main_thread` | 1 other thread, 4 tasks, the first 2 from anywhere, 2 nested calls, 1 suspension, panics | `NoMainTaskStranded`, `NoLocalTaskStranded`, `MainTasksRun`, `NestedCallsEnd` |
| `schedule_lost`, `schedule_weak`, `scope_panic`, `importer_stuck` | smallest instance that shows it | violations: [see below](#where-the-code-and-its-promises-disagree) |

Bounds. A ring of three slots with four tasks wraps, holds two elements, lets
the owner fight each thief for the last one, and lets `push_many` publish two
at once; the length need not be a power of two in the model. Two workers
and a spawner are enough for every pair of roles in the wake-up protocol (one
waking, one going to sleep, one pushing), and deques of two let a thief take
one of several. What the bounds allow is spent together (`Budget`): a behaviour has
three runnables, or a scope and a runnable in it with a poke, a local task or a
drop. `NoLostWakeup` also holds with three workers and two
runnables (4.2 million states). The plans of `schedule` combine strong, weak
and relaxed orders, conflicts, exclusive jobs, commands, a stage and a condition
on two to four jobs: enough for a job to be reached over two kinds of edges at
once, and for a sync point to apply commands of several jobs. Three tasks in a
scope allow a task spawned by a task while the caller awaits a third; the safety
part is proved for any number. With two ids and two chunks the free list and the
counter both run out; two remotes and two threads can read, claim and mint
around one another and around a `free`; four calls are fewer than the five
generations, the bound the code has too (2^30). In `assets` the tree has a
shared dependency, so two loaders race for its entry, and two requests reach
every entry dropped and wanted again. Its safety properties were also
checked, outside the runs, with two entries of one path and requests for a
dependency itself (4.7 million states) and on a fan and a chain; those of the
importer, and the parts of its invariants, with one asset over four runs and five
events, with two in a chain over three runs and three events, on another chain of
three, and along one history of a chain of four (up to 0.5 million states, all
complete). The chain of three in
`importer` is the shortest in which a rewrite has to travel over an asset that
is both read and made. In `main_thread` two nested calls put three
wakers in play (live, displaced, dead), and another thread pushes, wakes and
steals around them; four tasks are a main task that calls `scope`, a task in it
that calls `block_on`, what that waits for and one more. One suspension is enough
for a call to wait for a suspended task while a nested call comes and goes; what
must never happen is proved for any number of threads and suspensions. Deadlock checking is off everywhere: all these
systems may rightly come to rest, and what must happen is stated as a liveness
property.

## Fairness

* `LocalDeque!FairSpec`: the owner's loop goes on, and a `Drop` that has begun
  is carried through. Thieves get none, they may be preempted for ever: the
  deque is lock-free.
* `PoolExecutor!FairSpec`: each thread is scheduled by the operating system
  (weak fairness of each thread's own steps), and local tasks return. That a
  task of the pool returns is *not* assumed, so `WorkConserving` is about the
  wake-up protocol alone. `TasksReturn` is a premise of `EveryTaskRuns` and
  `PoolStops`: neither could hold if a task ran for ever. `MCSpec` has the same
  fairness; only what comes from outside the threads is bounded.
* `ScheduleExecutor!FairSpec`: `WF` of `Work`: some step of the scheduler or of
  a task is taken while one is possible, jobs return, store buffers drain. That the pool runs what is
  spawned is what `EveryTaskRuns` says.
* `TaskScope!FairSpec`: the caller runs, executors run what is scheduled, and
  tasks end. Suspending is bounded by `MaxYields` and is never forced.
* `MainThread!FairSpec`: the main thread goes on, tasks end, a push that has
  begun is carried through. Pushing, waking and `run_local` are never forced.
  That every task that suspends is woken by somebody is the business of what it
  waits for; it is the premise `Woken` of `NestedCallsEnd`.
* `EntityAllocator!FairSpec`: a `free` under way and each remote allocation go
  on. Threads that share the world may stop in the middle of a call.
* `AssetServer!FairSpec`, `AssetImporter!FairSpec`: `WF` of `Work` as a whole:
  the pool and the schedule run something while something can run. This is less
  than fairness of each task and suffices, since requests, edits, loads,
  failures and crashes are bounded; they are never forced.

No strong fairness is used.

## The proofs

Checked by TLAPS, for all values of the constants.

`LocalDequeProofs` (from `SLOT_LENGTH >= 2` and `MaxTasks \in Nat`, for any set
of thieves): `DequeTypes`, `DequeExactlyOnce`, `DequeNoTaskLost`,
`DequeNeverFull`, all from `DequeInvariant: Spec => []IInv`. None of the
properties is inductive. `IInv` adds
  * `Indices`: where `head`, `tail` and the owner's local indices stand at each
    program point, in particular that the live region never exceeds the
    capacity, and that after the tentative decrement exactly one element is in
    dispute;
  * `ThievesAgree`: a thief whose compare-exchange can still succeed wants a
    live element and has read what is in its slot — reads that overlap a write
    belong to thieves whose compare-exchange must fail;
  * `Contents`: slots of the stored region hold distinct tasks that nobody has
    been given; what is being written follows them in order;
  * `Untouched`: tasks that have not reached the deque are not taken.

The arithmetic of the ring is one lemma, `SlotInjective`: indices less than a
ring length apart have different slots. `NextIInv` has one step per action.

`TaskScopeProofs` (from `MaxTasks`, `MaxYields` in `Nat`): `ScopeTypes`,
`ScopeResultsComplete` and `ScopeWaitsForTasks`. The queue of handles alone does
not show that an empty queue means that nobody is left, since a running task may
hold a handle that it has not queued. `IInv` (`Unborn`, `Holders`, `InHand`,
`ResultsOk`, `Collected`, `ReturnedEmpty`) and `Owned` say where the handle of
every task that is not over is: queued, in the caller's hand, or held by an
actor that is itself alive and was spawned earlier. If the queue and the
caller's hand are empty, a task alive would need an older one alive, and so on:
`NoEldest` excludes that by well-foundedness of `<`. `Owned` is kept as long as
no panic of a foreign task has dropped a handle (`orphans = {}`), which is the
case `ScopeWaits` leaves out; the run `scope_panic` shows it has to.

`PoolExecutorProofs` (from a positive number of workers and capacity of a
deque, for any set of spawners): `PoolTypes` and `PoolCounts` from
`PoolInvariant: Spec => []Inv`. `TypeOK` is not inductive: that no deque
overflows needs to know what a worker has in hand where it refills
(`WorkerOk`), and that no counter does, that all runnables together are no more
than were scheduled, which `Runnables` says by counting them as a set of pairs
(place, number). `LockOk` ties the lock of the lounge to the two-step critical
sections. `PoolNoLostWakeup: Spec => []NoLostWakeup` rests on
`PoolWakeups`, whose invariant `Wakeups` says why the waking flag can be tested
outside the lock: it is up only while somebody is on the way (`FlagOk`), and
while it is down and a worker sleeps every runnable has a thread that answers
for it, one that will call `wake_one` or a worker that has yet to look where
the runnable is (`Answered`). The exception in the property, `scopes = 0`, is not
there for the proof: with a scope entered on a worker it would be false, see the
[observations](#observations).

`MainThreadProofs` (for any tasks, threads, nesting and suspensions): `MainTypes`,
`MainNotStranded`, `LocalNotStranded`, from `MainInvariant`. A queue has one
slot for a waker and calls of `block_on` come and go above the one registered,
so the invariant follows the waker of the innermost call: after it has
registered it is in the slot, in the hands of a thread that will wake it, or
already a token (`MainRegistered`, `MainSeen`, `LocalSeen`). `Nested` says that
every other call is in the middle of running the task above it.

`EntityAllocatorProofs` (for any widths, sizes of buffers and finite sets of
threads): `AllocatorTypes`, `AllocatorUnique`, `AllocatorKeepsIds`, from
`AllocatorInvariant`, and `AllocatorUnderflow`. Every id that was minted has one home (`Homes`,
`NoneLost`): a slot of the list, the region a call has popped, the fresh ids of
a call, a buffer of the owner, the hands of `free`, or the world; the regions
are disjoint and beyond the list (`CallsOk`, `SlotsOk`). `RemotesOk` is the
argument about the packed word: the generation counts pops, so a remote whose
compare-exchange succeeds has missed no pop, the list has only grown since, and
the slot it has read is the one it claims. All but `TypeOK` is said as long as
the length has not run into the flag (`~borrowed`), as in the properties.
`AllocatorUnderflow` proves `UnderflowHarmless`, when that can be: what the
length lacks below its bias was minted by the calls that lacked it or is still
wanted by them (`Debt`). `Outstanding` is a set of pairs (call, number) so that
what is wanted in all can be counted without induction.

`AssetServerProofs` (for any paths without a cycle of dependencies, entries,
requesters and waiters; `None` is neither an entry, an id nor a set of ids):
`ServerTypes`, `ServerKeepsHeld`, `ServerDropIsComing`, `ServerWaits`,
`ServerLoaded`, from `ServerInvariant`. `Accounts` is the book-keeping of
handles: the drops under way of an entry are those that requests have made up
for (`skip`), and one more if nobody holds a handle. `Links` ties a dependent
to its dependencies in both directions: what it waits for is still loading and
will tell it, or a job of the propagation is on its way (`ValueOk`, `WaitOk`,
`WorkOk`). `Base` says which load tasks and events an entry can have.

`ScheduleExecutorProofs` (for any plans whose flags, orders and stages are of
inserted jobs, `ExecutorAssumption`, and whose orders have no cycle,
`PlansSorted`: `update` panics otherwise): `ExecutorTypes` and
`ExecutorRunComplete`, from `ExecutorInvariant`. The counters of a node count
what is still to be handled before it (`Counts`, which is why no `u16` goes
below zero), a node is in one place at a time (`PlaceOk`, `EventsOk`,
`StatusOk`), and commands that are not applied are at a place from which they
will be (`CommandsOk`). `Progress` is the argument about the lock: whoever gives
it up leaves nothing ready that could run, unless there is an event or an actor
that will look again. So when nobody is left nothing runs, hence nothing is
ready, and every node that waits waits for another one, which the order of the
nodes excludes. `Progress` is said of a release that is not delayed; the rest
holds for a delayed one too, as long as no other execution follows it
(`NothingLeft`): it would meet the events left behind, and subtract them from
counters that have been reset.

`ExecutorRefines` proves `RunRefines`: every step of either executor is a step
of `ScheduleRun` or a stutter. Most of what a step of `ScheduleRun` asks for is
in `IInv`: a node is started when nothing is left to count before it, which by
then has been resolved. The rest is `RInv`. Nodes that run together are not in
conflict (`ApartOk`). The commands of a job are in one place from its event
until they are applied: the executor, or the exclusive task that has taken them
(`HeldOk`). A job that is promised commands comes after a sync point, and once
that has been taken up the commands of every job it stands for are applied or in
the hands of such a task (`SeenOk`), which nothing runs beside. `StackOk` is about the events
of no-op jobs and sync points, which are not spawned but handled on the spot: a
sync point that is skipped must not count as one that has applied something. The
single-threaded executor needs only that what is applied belongs to jobs that
are over (`SingleRunOk`). The promise is that of `ScheduleRun` with one exception,
the commands of a failed job across a weak order in the multi-threaded executor.
`OrdersHoldUnlessWeakFails` says that this is all: as long as it does not meet a
failed job whose commands a weak order promises (`WeakOrderFailed`), `OrdersHold`,
the orders as documented, holds of it, and of the single-threaded executor it
always does.

`AssetImporterProofs` (for any assets without a cycle, contents, readers, tasks
and runs; an agent is not both a task and a reader, and `None` is none of
these): `ImporterTypes` and `ImporterReadsWhole`, from `ImporterInvariant`, and
`ImporterInLine`.
`IInv` follows the trust in a pair of files through a run and over a crash.
Between runs every pair is of one revision or only a `.meta` is left of it, or the log does not validate
(`DiskOk`): `LogOk` says that the transaction of a task that was given up on
stays open, so a process that dies never leaves a log that validates beside a
pair that somebody tore. In a run that trusts the log what the scan records is
whole, and whatever is announced or skipped has been made (`Made`, `GateOk`);
in one that does not, nothing is skipped, and a status is announced only after
a task has been there. A reader is let past the gate only where `Made` holds
(`Past`), and keeps it by its lock (`LocksOk`). `WorkOk` says that what a task
reads are pairs that belong together, so that what it writes are too. That
there is an initial state at all needs the recursive function `Built` to exist:
`BuiltIs` shows it from `ReadsAcyclic`, by the least rank at which it fails.

`ImporterInLine` proves `InLine`: when a run is over, an asset that can be made is what
processing from scratch gives, *unless* something it is made from was edited,
failed or could not be read in this run, or was read before this run had recorded
the edge (`late`), or had its records come in the wrong order (`Overtaken`), or an
earlier run that distrusted everything left a file as it was (`lost`); in those
cases the code may leave stale outputs, see the [observations](#observations). It
rests on a second invariant, `LInv` (`ImporterLine`), about the assets whose ancestry no edit, failure or unrecorded edge of this run
concerns (`Good`). Statuses and results speak of the source as it is (`TellsOk`),
and every asset that is there gets one (`TurnsOk`). `FollowsOk` is about an asset
p that reads q where the index has the edge: p is queued, will read q as it is,
has read it, or was made from it, unless the record of q is still to come, and
then queues p (`Settling`). Where the index does not have the edge nothing would
queue p again; there q and all it is made from have been right since the pass
began (`RightOk`), because the scan found them without dependencies of their own
recorded (`late` is the other case), and what p has read of them is right too.
When the run is over nobody is queued or at work, so each settled asset was made
from its dependencies as they are, and the least rank at which one is not what
`Built` says gives the contradiction (`AllBuilt`). The proof attempts found two
cases that the runs are too short for, and which are now excluded in `InLine`:
the records that come in the wrong order (`Overtaken`), and what is made in later
runs from bytes that were copied during an edit (`mingled`).

Only model-checked: all liveness, which is outside the reach of TLAPS here, and
the violations.

## Where the code and its promises disagree

1. `schedule_lost`. `tick` drops the guard of the spin lock and then looks at
   the event queue, "or we could lose events". The drop is a `Release` store:
   a processor may perform the load first. A task that pushes its event in
   between fails `try_lock` and leaves, and the jobs behind it are never run.
   (`exec` still returns: `ExecReturns`.) A `SeqCst` fence between the two
   would exclude it: those are the cases of run `schedule` that are not
   `delayed`, for which `RunComplete` holds.
2. `schedule_weak`. The docs promise of a weak order that the later job runs when
   the earlier one is over, "whether successful or not (even skipped)", and that
   the deferred commands of the earlier one are "definitely visible"
   (`schedule.rs:1198`, 1201; `zlim-core/README.md:274`: "whether it succeeded or
   not; deferred commands are guaranteed visible"). But the sync point hangs on a
   strong order behind the earlier job (`schedule.rs:755`): if that job fails it
   is skipped, and the later job starts before the commands are applied
   (`OrdersHold`). They are applied later. The single-threaded executor applies
   them when the job has returned and keeps the promise; `RunRefines` is the
   promise without this case.
3. `scope_panic`. While `scope` waits it ticks every task of its thread's
   `LocalExecutor`. A panic in a task of `spawn_local`, which is not caught,
   drops the handle being awaited, and `scope` is left while that scoped task
   may still be running on a worker, with references into the caller's frame
   (`DrivenToCompletion`). The rest of the promise is kept: `ScopeWaits`.
4. `importer_stuck`. A task that reads a dependency keeps the lock of its bytes
   while it asks for its `.meta`, which takes the same lock again
   (`loader/context.rs:373`; `server/internal.rs:427` in the other order). If
   the dependency was queued again, its task has set the writer bit in between
   and waits for the first lock, and the second read waits for the writer. The
   run never ends, though `server.rs:460` says "the run is over when nothing is
   left" and `pass.rs:80` that such a task "parks instead of blocking the
   others". Nothing needs to fail for it: one chain of three assets and no
   event are enough. `PassEnds` is the promise without this case.

## Observations

Things met while modelling that no run of their own shows, each of them an
exclusion of a property or a limit of a model.

Tasks and schedules.
* With a scope entered on a worker there can be a lost wake-up, which is why
  `NoLostWakeup` and `WorkConserving` leave it out: a worker parked in
  a scope is woken for a new runnable, finds its scope over, and returns to its
  own task still counted as waking; until that task looks for work again
  `is_waking` keeps new runnables from waking anybody
  (`executors.rs:832`). They are run in the end (`EveryTaskRuns`).
* The one waker slot of `LocalExecutor` (`common.rs:130`) belongs to whichever
  call polled last, and a nested call that has ended leaves its own, dead waker
  there. A main task that makes such a call and then calls `spawn_local`, or wakes
  a local task that has suspended, wakes nobody (`common.rs:86`); the poll does
  not come back to local tasks, and the thread parks with the task in its queue
  until something else wakes it. Where that task is one the innermost call waits
  for, nothing else may: a scope awaits a suspended local task, a main task that
  the scope runs calls `block_on`, which returns, then wakes the local task, and
  the scope parks for ever. The same order of polls holds on a worker.
  `task_pool.rs:203` says that local tasks of such threads "are automatically
  polled as part of the execution loop", `task_pool.rs:625` that a scope "actively
  drives" them, and `multi/mod.rs:57` that `block_on` drives the executors "to
  avoid deadlock". `displaced` is what `NoLocalTaskStranded` leaves out, and
  `Stranded` the one exception in `NestedCallsEnd`: but for it, nested calls end.
* The schedule function of a local task pushes to the `LocalExecutor` of the
  thread that calls the waker; a task woken by another thread is polled there
  (`common.rs:87`), although the comment at line 72 says it cannot leave its
  thread. `TaskScope` lets it move.

Entity allocator.
* The generation has 30 bits: a remote that sleeps through exactly 2^30 pops
  accepts a stale slot. `AllocAssumption` keeps below that.

Asset server.
* `pending_tasks` gets a task after the lock was given up
  (`internal.rs:974`). If that task has failed and the asset was requested again
  meanwhile, the insert replaces, and so cancels, the newer load: the asset stays
  Loading and who waits for it waits for ever. `WaiterReturns` excludes it
  (`lost`); the shortest such history has 13 steps.
* An entry is removed with its waiting tasks, which are not woken
  (`info.rs:696`): harmless for `wait_for_asset`, which holds a handle, not for
  a wait by id.
* A dependency that failed and is later loaded by a retry leaves its dependents
  failed. A dependency the registry does not know, and a cycle of dependencies,
  is waited for without end (`DepsAcyclic`).

Asset importer.
* A run that distrusts everything opens an empty log; if it is killed while no
  transaction is open, the run after it finds a log that validates and trusts
  what neither redid. The same goes for a run that reaches its end, but not an
  asset whose source was away when its turn came: its old files stay, under a
  log that validates (`transaction.rs:55`; `lost`).
* A loader error names the asset itself as what is missing, so the asset waits
  for itself and is queued again by its own result (`infos.rs:261`;
  `SelfParked`).
* A task that fails after opening its output leaves torn bytes which the
  asset's earlier status still lets readers at (`step.rs:136`; `broken`).
* A dependency rewritten after it was read, but before the reader's first
  record of the edge, does not queue the reader again (`pass.rs:184`; `late`).
* An asset is found up to date from a record that another task for it is about
  to replace (`step.rs:77`; `late`). A copied asset is hashed before the lock
  and read after it: an edit in between leaves the wrong bytes under the hash. If
  the edit is taken back, the asset is up to date by its hash, and so are, in
  later runs, the assets made from the wrong bytes (`step.rs:75`, `150`;
  `mingled`).
* Results are recorded after the file lock is given up (`pass.rs:189`), so the
  records of two tasks for one asset may come in the other order. The index then
  holds the older one, and an asset made from that output which is queued
  afterwards is found up to date against it and stays as it is. It takes a chain
  of four assets, two edits and a crash to see it (`Overtaken`).
* Who waits at the gate while two statuses are sent gets an error and takes the
  asset for missing (`state.rs:215`), although `infos.rs:97` says a late waiter
  picks up the latest.
* The failure of a dependency does not revisit its dependents. The bytes and the
  `.meta` of an output are "removed as a pair" (`scan.rs:110`), but in two writes
  (`processed.rs:172`, `176`): a crash between them leaves a `.meta` without its
  bytes, which is not cleaned up. No property is affected.

## What is not modelled

* Weak memory other than the one store of `ScheduleExecutor`. The deque's, the
  lounge's and the allocator's orderings are taken as sequentially consistent.
* The crates `async_task`, `atomic_waker`, `event_listener`, `async_lock`,
  `async_broadcast` and the file system: modelled as the code uses them.
* A thread of the application as main thread (`designate_main_thread`), which
  drives its executors only while it is in a call; cancelled tasks in
  `MainThread` (they are in `TaskScope`); the `async-io` variant of `block_on`.
* Schedules that change after their first update; panics of `world.flush`
  outside `catch_unwind`.
* How a chunk of the allocator's buffer is first allocated.
* Asset server: reloads, labeled assets, folders, saves, waiting by id, sources
  and loaders. Asset importer: service mode and the watcher, renames and
  removals during a run, single calls of `process_asset`, a second run of one
  server.
* The ECS storage, reflection, scenes, transforms and the application: they are
  sequential, and the unit tests beside them reach what a small model would.
  Mathematics is floating point and out of reach; logging, platform glue and
  macros have no state worth modelling. These make up most of the repository's
  lines, so the share of it that is mapped is small; what is mapped is where its
  concurrency and its crash recovery are.

## Plan

Done: `LocalDeque`, `PoolExecutor`, `TaskScope`, `MainThread`, the schedule modules,
`EntityAllocator`, `AssetServer`, `AssetImporter`, and proofs about each. Next, in
this order:

1. A schedule that changes: late orders (no sync point between compiled jobs),
   `remove_job` with its cascade, reuse of slots; the invariant that the
   compiled graph equals `JobSchedule` of what is inserted.
2. `SegQueue` and `ArrayQueue` at the granularity of `LocalDeque`, implementing
   an abstract queue.
3. Reloads and labeled assets in `AssetServer`.
