---------------------------- MODULE PoolExecutor ----------------------------
(***************************************************************************)
(* The work-stealing pool of zlim-task (platform/multi/executors.rs, with  *)
(* the worker threads of platform/multi/task_pool.rs): the global queue,   *)
(* one deque per worker, the lounge of sleeping workers behind its mutex,  *)
(* and the is_waking flag that keeps a burst of spawns from waking         *)
(* everybody.  The question is whether a runnable can be left behind while *)
(* workers sleep.                                                          *)
(*                                                                         *)
(* Runnables are counted, not named: the pool never looks at one.  A deque *)
(* operation is one step (module LocalDeque shows what that rests on), a   *)
(* critical section of the lounge is one step, or two where it stores      *)
(* is_waking after changing the lounge, because wake_one tests is_waking   *)
(* outside the lock.  Atomics are interleaved sequentially consistently.   *)
(***************************************************************************)
EXTENDS Integers, FiniteSets

CONSTANTS
    NumWorkers,  \* seats of the pool
    Spawners,    \* threads outside the pool that spawn or reschedule tasks
    CAP,         \* usable capacity of a worker's deque (63 in the code)
    MaxTasks,    \* bound: runnables scheduled in one behaviour
    MaxScopes,   \* bound: scopes entered from within tasks
    MaxPokes,    \* bound: unparks of workers by anything but the pool
    MaxTicks,    \* bound: tasks of their LocalExecutor that workers run
    MaxDrops     \* bound: 1 if the pool may be dropped, else 0

ASSUME PoolAssumption ==
    /\ NumWorkers \in Nat \ {0} /\ CAP \in Nat \ {0}
    /\ MaxTasks \in Nat /\ MaxScopes \in Nat /\ MaxPokes \in Nat
    /\ MaxTicks \in Nat
    /\ MaxDrops \in 0 .. 1
    /\ Spawners \cap Int = {}

Workers == 0 .. NumWorkers - 1
Threads == Workers \cup Spawners

Nobody == -1

VARIABLES
    queue,         \* runnables in the global queue
    local,         \* runnables in each worker's deque
    sleeping_num, waking_count, cached_index, wakers,   \* the Lounge
    lock,          \* the worker inside a two-step critical section
    is_waking,
    pc,            \* where each thread is
    ret,           \* where a thread goes after wake_one
    target,        \* the worker whose waker a thread took from the lounge
    level,         \* and the block_on of that worker the waker belongs to
    buf,           \* runnables a worker has taken and not yet pushed
    left,          \* iterations left in steal_global or steal_worker_inner
    victims,       \* seats steal_worker has still to try
    src,           \* the seat steal_worker_inner is stealing from
    working,       \* Worker::working
    token,         \* the block_on calls of the worker with an unpark pending
    depth,         \* 1, or inside a scope entered by a task: 2, a local task: 3
    done,          \* the stop signal of that scope is ready
    stop,          \* TaskPool::drop has notified the stop event
    scheduled,     \* runnables scheduled so far
    finished,      \* runnables run to the end
    scopes,        \* scopes entered so far
    pokes,         \* unparks by others so far
    ticks          \* local tasks run so far

lounge == <<sleeping_num, waking_count, cached_index, wakers>>
taken == <<target, level>>
fetchv == <<buf, left, victims, src>>
limits == <<scopes, pokes, ticks>>
vars == <<queue, local, sleeping_num, waking_count, cached_index, wakers, lock,
          is_waking, pc, ret, target, level, buf, left, victims, src, working, token,
          depth, done, stop, scheduled, finished, scopes, pokes, ticks>>

Goto(t, l) == pc' = [pc EXCEPT ![t] = l]

\* PoolExecutor::new and bind_local_worker: a seat per worker, all working.
Init ==
    /\ queue = 0 /\ local = [w \in Workers |-> 0]
    /\ sleeping_num = 0 /\ waking_count = 0 /\ cached_index = 0
    /\ wakers = [w \in Workers |-> 0]
    /\ lock = Nobody /\ is_waking = FALSE
    /\ pc = [t \in Threads |-> IF t \in Workers THEN "poll" ELSE "idle"]
    /\ ret = [t \in Threads |-> IF t \in Workers THEN "run" ELSE "idle"]
    /\ target = [t \in Threads |-> Nobody] /\ level = [t \in Threads |-> 0]
    /\ buf = [w \in Workers |-> 0] /\ left = [w \in Workers |-> 0]
    /\ victims = [w \in Workers |-> {}] /\ src = [w \in Workers |-> Nobody]
    /\ working = [w \in Workers |-> TRUE]
    /\ token = [w \in Workers |-> {}]
    /\ depth = [w \in Workers |-> 1] /\ done = [w \in Workers |-> FALSE]
    /\ stop = FALSE /\ scheduled = 0 /\ finished = 0 /\ scopes = 0 /\ pokes = 0
    /\ ticks = 0

-----------------------------------------------------------------------------
(***************************************************************************)
(* Scheduling a runnable, and State::wake_one.                             *)
(***************************************************************************)

\* The worker threads keep the shared State alive until the last has left.
StateAlive == \E w \in Workers : pc[w] # "exit"

\* The schedule closure of spawn and spawn_unchecked: push, then wake_one.
\* It is called by other threads and by tasks running on a worker.  Once the
\* State is gone the Weak reference fails and the runnable is dropped.
Schedule(t) ==
    /\ pc[t] \in {"idle", "run", "local"}
    /\ scheduled < MaxTasks
    /\ scheduled' = scheduled + 1
    /\ \/ /\ StateAlive
          /\ queue' = queue + 1
          /\ ret' = [ret EXCEPT ![t] = pc[t]]
          /\ Goto(t, "cas")
       \/ /\ ~StateAlive
          /\ UNCHANGED <<queue, ret, pc>>
    /\ UNCHANGED <<local, lounge, lock, is_waking, taken, fetchv, working,
                   token, depth, done, stop, finished, limits>>

\* wake_one: compare_exchange(false, true) on is_waking.
WakeOneCas(t) ==
    /\ pc[t] = "cas"
    /\ \/ ~is_waking /\ is_waking' = TRUE /\ Goto(t, "take")
       \/ is_waking /\ UNCHANGED is_waking /\ Goto(t, ret[t])
    /\ UNCHANGED <<queue, local, lounge, lock, ret, taken, fetchv, working,
                   token, depth, done, stop, scheduled, finished, limits>>

\* Mutant of TakeOne: the worker taken is not counted as waking.
TakeOneUncounted(t) ==
    /\ pc[t] = "take"
    /\ lock = Nobody
    /\ \/ /\ \A w \in Workers : wakers[w] = 0
          /\ Goto(t, ret[t])
          /\ UNCHANGED <<lounge, taken>>
       \/ \E w \in Workers :
             /\ wakers[w] # 0
             /\ \A v \in Workers : wakers[v] # 0 => w <= v
             /\ wakers' = [wakers EXCEPT ![w] = 0]
             /\ sleeping_num' = sleeping_num - 1
             /\ cached_index' = w + 1
             /\ target' = [target EXCEPT ![t] = w]
             /\ level' = [level EXCEPT ![t] = wakers[w]]
             /\ Goto(t, "wake")
             /\ UNCHANGED waking_count
    /\ UNCHANGED <<queue, local, lock, is_waking, ret, fetchv, working, token,
                   depth, done, stop, scheduled, finished, limits>>

\* Lounge::take_one under the lock: the first waker at or after cached_index.
TakeOne(t) ==
    /\ pc[t] = "take"
    /\ lock = Nobody
    /\ LET found == {w \in Workers : w >= cached_index /\ wakers[w] # 0}
       IN  \/ /\ found = {}
              /\ Goto(t, ret[t])
              /\ UNCHANGED <<lounge, taken>>
           \/ \E w \in found :
                 /\ \A v \in found : w <= v
                 /\ wakers' = [wakers EXCEPT ![w] = 0]
                 /\ sleeping_num' = sleeping_num - 1
                 /\ waking_count' = waking_count + 1
                 /\ cached_index' = w + 1
                 /\ target' = [target EXCEPT ![t] = w]
                 /\ level' = [level EXCEPT ![t] = wakers[w]]
                 /\ Goto(t, "wake")
    /\ UNCHANGED <<queue, local, lock, is_waking, ret, fetchv, working, token,
                   depth, done, stop, scheduled, finished, limits>>

\* Waker::wake, after the lock is released.
Wake(t) ==
    /\ pc[t] = "wake"
    /\ token' = [token EXCEPT ![target[t]] = @ \cup {level[t]}]
    /\ target' = [target EXCEPT ![t] = Nobody]
    /\ level' = [level EXCEPT ![t] = 0]
    /\ Goto(t, ret[t])
    /\ UNCHANGED <<queue, local, lounge, lock, is_waking, ret, fetchv, working,
                   depth, done, stop, scheduled, finished, limits>>

-----------------------------------------------------------------------------
(***************************************************************************)
(* fetch_runnable: local deque, global queue, other workers.               *)
(***************************************************************************)

\* run_with polls its stop signal before the worker loop.
StopReady(w) == IF depth[w] = 1 THEN stop ELSE done[w]

\* The loop goes on, or a poll begins and its stop signal is not ready.
Looping(w) == pc[w] = "fetch" \/ (pc[w] = "poll" /\ ~StopReady(w))

\* The local pop; a hit is followed by wake() alone.
FetchLocal(w) ==
    /\ Looping(w)
    /\ local[w] > 0
    /\ local' = [local EXCEPT ![w] = @ - 1]
    /\ ret' = [ret EXCEPT ![w] = "run"]
    /\ Goto(w, "self")
    /\ UNCHANGED <<queue, lounge, lock, is_waking, taken, fetchv, working,
                   token, depth, done, stop, scheduled, finished, limits>>

\* The local pop found nothing, which no other thread can change.
\* steal_global: the pop of the runnable it will return.
StealGlobal(w) ==
    /\ Looping(w)
    /\ local[w] = 0
    /\ \/ /\ queue > 0
          /\ queue' = queue - 1
          /\ left' = [left EXCEPT ![w] = CAP]
          /\ Goto(w, "grab")
          /\ UNCHANGED victims
       \/ /\ queue = 0
          /\ victims' = [victims EXCEPT ![w] = Workers \ {w}]
          /\ Goto(w, IF NumWorkers = 1 THEN "sleep" ELSE "steal")
          /\ UNCHANGED <<queue, left>>
    /\ UNCHANGED <<local, lounge, lock, is_waking, ret, taken, buf, src,
                   working, token, depth, done, stop, scheduled, finished, limits>>

\* One of its CAP further pops; a None does not end the loop.
GrabMore(w) ==
    /\ pc[w] = "grab"
    /\ left[w] > 0
    /\ left' = [left EXCEPT ![w] = @ - 1]
    /\ \/ queue > 0 /\ queue' = queue - 1 /\ buf' = [buf EXCEPT ![w] = @ + 1]
       \/ queue = 0 /\ UNCHANGED <<queue, buf>>
    /\ UNCHANGED <<local, lounge, lock, is_waking, pc, ret, taken, victims, src,
                   working, token, depth, done, stop, scheduled, finished, limits>>

\* Mutant of GrabPublish: nobody is told about the runnables pushed.
GrabPublishSilently(w) ==
    /\ pc[w] = "grab"
    /\ left[w] = 0
    /\ local' = [local EXCEPT ![w] = @ + buf[w]]
    /\ buf' = [buf EXCEPT ![w] = 0]
    /\ ret' = [ret EXCEPT ![w] = "run"]
    /\ Goto(w, "self")
    /\ UNCHANGED <<queue, lounge, lock, is_waking, taken, left, victims, src,
                   working, token, depth, done, stop, scheduled, finished, limits>>

\* push_many, then wake() and wake_one().
GrabPublish(w) ==
    /\ pc[w] = "grab"
    /\ left[w] = 0
    /\ local' = [local EXCEPT ![w] = @ + buf[w]]
    /\ buf' = [buf EXCEPT ![w] = 0]
    /\ ret' = [ret EXCEPT ![w] = "cas"]
    /\ Goto(w, "self")
    /\ UNCHANGED <<queue, lounge, lock, is_waking, taken, left, victims, src,
                   working, token, depth, done, stop, scheduled, finished, limits>>

\* steal_worker: try the other seats in turn, from a random start; None
\* after the last one.
StealWorker(w) ==
    /\ pc[w] = "steal"
    /\ \E v \in victims[w] :
          /\ victims' = [victims EXCEPT ![w] = @ \ {v}]
          /\ \/ /\ local[v] = 0
                /\ Goto(w, IF victims[w] = {v} THEN "sleep" ELSE "steal")
                /\ UNCHANGED <<local, src>>
             \/ /\ local[v] > 0
                /\ local' = [local EXCEPT ![v] = @ - 1]
                /\ src' = [src EXCEPT ![w] = v]
                /\ Goto(w, "len")
    /\ UNCHANGED <<queue, lounge, lock, is_waking, ret, taken, buf, left,
                   working, token, depth, done, stop, scheduled, finished, limits>>

\* steal_worker_inner: len >> 1 further rounds.
StealLen(w) ==
    /\ pc[w] = "len"
    /\ left' = [left EXCEPT ![w] = local[src[w]] \div 2]
    /\ Goto(w, "inner")
    /\ UNCHANGED <<queue, local, lounge, lock, is_waking, ret, taken, buf,
                   victims, src, working, token, depth, done, stop, scheduled,
                   finished, limits>>

\* A round moves one runnable; the end is followed by wake() and wake_one().
StealInner(w) ==
    /\ pc[w] = "inner"
    /\ \/ /\ left[w] > 0 /\ local[src[w]] > 0
          /\ local' = [local EXCEPT ![src[w]] = @ - 1, ![w] = @ + 1]
          /\ left' = [left EXCEPT ![w] = @ - 1]
          /\ UNCHANGED <<pc, ret, src, victims>>
       \/ /\ left[w] = 0 \/ local[src[w]] = 0
          /\ left' = [left EXCEPT ![w] = 0]
          /\ src' = [src EXCEPT ![w] = Nobody]
          /\ victims' = [victims EXCEPT ![w] = {}]
          /\ ret' = [ret EXCEPT ![w] = "cas"]
          /\ Goto(w, "self")
          /\ UNCHANGED local
    /\ UNCHANGED <<queue, lounge, lock, is_waking, taken, buf, working, token,
                   depth, done, stop, scheduled, finished, limits>>

-----------------------------------------------------------------------------
(***************************************************************************)
(* Worker::wake and Worker::sleep: the lounge.                             *)
(***************************************************************************)

\* Where wake() leads: to wake_one, which returns to the run, or to the run.
AfterSelf(w) ==
    /\ Goto(w, ret[w])
    /\ ret' = [ret EXCEPT ![w] = "run"]

\* wake(): nothing for a working worker, else Lounge::remove under the lock.
WakeSelf(w) ==
    /\ pc[w] = "self"
    /\ \/ /\ working[w]
          /\ AfterSelf(w)
          /\ UNCHANGED <<lounge, lock>>
       \/ /\ ~working[w]
          /\ lock = Nobody
          /\ lock' = w
          /\ \/ /\ wakers[w] # 0
                /\ wakers' = [wakers EXCEPT ![w] = 0]
                /\ sleeping_num' = sleeping_num - 1
                /\ UNCHANGED waking_count
             \/ /\ wakers[w] = 0
                /\ waking_count' = waking_count - 1
                /\ UNCHANGED <<wakers, sleeping_num>>
          /\ UNCHANGED <<cached_index, ret>>
          /\ Goto(w, "self2")
    /\ UNCHANGED <<queue, local, is_waking, taken, fetchv, working, token,
                   depth, done, stop, scheduled, finished, limits>>

\* Lounge::is_waking.
LoungeIsWaking == waking_count > 0 \/ sleeping_num = 0

\* The store of is_waking that ends the critical section of wake().
WakeSelfStore(w) ==
    /\ pc[w] = "self2"
    /\ is_waking' = LoungeIsWaking
    /\ working' = [working EXCEPT ![w] = TRUE]
    /\ lock' = Nobody
    /\ AfterSelf(w)
    /\ UNCHANGED <<queue, local, lounge, taken, fetchv, token, depth, done,
                   stop, scheduled, finished, limits>>

\* Mutant of InsertWaker: the cached index is not lowered.
InsertWakerBehindIndex(w) ==
    /\ wakers' = [wakers EXCEPT ![w] = depth[w]]
    /\ sleeping_num' = sleeping_num + 1
    /\ UNCHANGED cached_index

\* Lounge::insert and the new-sleeper half of Lounge::try_insert.
InsertWaker(w) ==
    /\ wakers' = [wakers EXCEPT ![w] = depth[w]]
    /\ sleeping_num' = sleeping_num + 1
    /\ cached_index' = IF w < cached_index THEN w ELSE cached_index

\* sleep(): Working or Waking becomes Sleeping; already Sleeping is Pending,
\* with the waker brought up to date.
Sleep(w) ==
    /\ pc[w] = "sleep"
    /\ lock = Nobody
    /\ \/ /\ working[w]
          /\ InsertWaker(w)
          /\ working' = [working EXCEPT ![w] = FALSE]
          /\ lock' = w
          /\ Goto(w, "sleep2")
          /\ UNCHANGED waking_count
       \/ /\ ~working[w] /\ wakers[w] = 0
          /\ InsertWaker(w)
          /\ waking_count' = waking_count - 1
          /\ lock' = w
          /\ Goto(w, "sleep2")
          /\ UNCHANGED working
       \/ /\ ~working[w] /\ wakers[w] # 0
          /\ wakers' = [wakers EXCEPT ![w] = depth[w]]
          /\ Goto(w, "park")
          /\ UNCHANGED <<sleeping_num, waking_count, cached_index, lock, working>>
    /\ UNCHANGED <<queue, local, is_waking, ret, taken, fetchv, token, depth,
                   done, stop, scheduled, finished, limits>>

\* Mutant of SleepStore: park at once, without the second look.
SleepStoreParks(w) ==
    /\ pc[w] = "sleep2"
    /\ is_waking' = LoungeIsWaking
    /\ lock' = Nobody
    /\ Goto(w, "park")
    /\ UNCHANGED <<queue, local, lounge, ret, taken, fetchv, working, token,
                   depth, done, stop, scheduled, finished, limits>>

\* The store of is_waking that ends sleep(), and LocalExecutor::try_tick: a
\* task of the thread's own may run; then fetch once more.
SleepStore(w) ==
    /\ pc[w] = "sleep2"
    /\ is_waking' = LoungeIsWaking
    /\ lock' = Nobody
    /\ \/ Goto(w, "fetch") /\ UNCHANGED ticks
       \/ ticks < MaxTicks /\ ticks' = ticks + 1 /\ Goto(w, "local")
    /\ UNCHANGED <<queue, local, lounge, ret, taken, fetchv, working, token,
                   depth, done, stop, scheduled, finished, scopes, pokes>>

\* LocalExecutor::run, polled before the worker loop, runs the local tasks that
\* are queued: together one tick.
LocalTick(w) ==
    /\ pc[w] = "poll"
    /\ ~StopReady(w)
    /\ ticks < MaxTicks
    /\ ticks' = ticks + 1
    /\ Goto(w, "local")
    /\ UNCHANGED <<queue, local, lounge, lock, is_waking, ret, taken, fetchv,
                   working, token, depth, done, stop, scheduled, finished, scopes,
                   pokes>>

\* The local task returns; or it panics, which the loop of the thread catches
\* to begin a new block_on (with the same parker and waker).
LocalEnd(w) ==
    /\ pc[w] = "local"
    /\ \/ Goto(w, "fetch")
       \/ depth[w] = 1 /\ Goto(w, "poll")
    /\ UNCHANGED <<queue, local, lounge, lock, is_waking, ret, taken, fetchv,
                   working, token, depth, done, stop, scheduled, finished, limits>>

-----------------------------------------------------------------------------
(***************************************************************************)
(* The thread: block_on polls run_with, which polls its stop signal first; *)
(* Pending parks the thread until somebody unparks it.                     *)
(***************************************************************************)

\* One poll begins with the stop signal ready: the thread ends, or the task
\* that entered the scope goes on.
Leave(w) ==
    /\ pc[w] = "poll"
    /\ StopReady(w)
    /\ Goto(w, <<"exit", "run", "local">>[depth[w]])
    /\ depth' = [depth EXCEPT ![w] = 1]
    /\ done' = [done EXCEPT ![w] = FALSE]
    /\ UNCHANGED <<queue, local, lounge, lock, is_waking, ret, taken, fetchv,
                   working, token, stop, scheduled, finished, limits>>

\* The parked thread consumes the unpark token of its innermost block_on;
\* every nested block_on has a parker and a waker of its own (external).
Unpark(w) ==
    /\ pc[w] = "park"
    /\ depth[w] \in token[w]
    /\ token' = [token EXCEPT ![w] = @ \ {depth[w]}]
    /\ Goto(w, "poll")
    /\ UNCHANGED <<queue, local, lounge, lock, is_waking, ret, taken, fetchv,
                   working, depth, done, stop, scheduled, finished, limits>>

\* The runnable returns: next iteration of worker_run, or its batch is over
\* and yield_now lets the stop signal be polled.
RunEnd(w) ==
    /\ pc[w] = "run"
    /\ finished' = finished + 1
    /\ \E l \in {"fetch", "poll"} : Goto(w, l)
    /\ UNCHANGED <<queue, local, lounge, lock, is_waking, ret, taken, fetchv,
                   working, token, depth, done, stop, scheduled, limits>>

\* A task running on a worker calls TaskPool::scope, whose loop runs the same
\* Worker again from within the task.
EnterScope(w) ==
    /\ pc[w] \in {"run", "local"}
    /\ depth[w] = 1
    /\ scopes < MaxScopes
    /\ scopes' = scopes + 1
    /\ LET d == IF pc[w] = "run" THEN 2 ELSE 3
       IN  /\ depth' = [depth EXCEPT ![w] = d]
           /\ token' = [token EXCEPT ![w] = @ \ {d}]
    /\ Goto(w, "poll")
    /\ UNCHANGED <<queue, local, lounge, lock, is_waking, ret, taken, fetchv,
                   working, done, stop, scheduled, finished, pokes, ticks>>

\* The last task of that scope completes and wakes the waiting thread.
ScopeDone(w) ==
    /\ depth[w] # 1
    /\ ~done[w]
    /\ done' = [done EXCEPT ![w] = TRUE]
    /\ token' = [token EXCEPT ![w] = @ \cup {depth[w]}]
    /\ UNCHANGED <<queue, local, lounge, lock, is_waking, pc, ret, taken,
                   fetchv, working, depth, stop, scheduled, finished, limits>>

\* Something else unparks the thread: its LocalExecutor, an old waker.
Poke(w) ==
    /\ pc[w] = "park"
    /\ depth[w] \notin token[w]
    /\ pokes < MaxPokes
    /\ pokes' = pokes + 1
    /\ token' = [token EXCEPT ![w] = @ \cup {depth[w]}]
    /\ UNCHANGED <<queue, local, lounge, lock, is_waking, pc, ret, taken,
                   fetchv, working, depth, done, stop, scheduled, finished, scopes,
                   ticks>>

\* assist_run: a scope caller that is no worker takes a runnable itself.
Assist ==
    /\ ~stop
    /\ \/ queue > 0 /\ queue' = queue - 1 /\ UNCHANGED local
       \/ \E v \in Workers : /\ local[v] > 0
                             /\ local' = [local EXCEPT ![v] = @ - 1]
                             /\ UNCHANGED queue
    /\ finished' = finished + 1
    /\ UNCHANGED <<lounge, lock, is_waking, pc, ret, taken, fetchv, working,
                   token, depth, done, stop, scheduled, limits>>

\* Mutant of DropPool: one listener is notified, not all.
DropPoolNotifiesOne ==
    /\ ~stop
    /\ MaxDrops = 1
    /\ stop' = TRUE
    /\ \E w \in Workers : token' = [token EXCEPT ![w] = @ \cup {1}]
    /\ UNCHANGED <<queue, local, lounge, lock, is_waking, pc, ret, taken,
                   fetchv, working, depth, done, scheduled, finished, limits>>

\* TaskPool::drop: notify the stop event; every worker holds a listener.
DropPool ==
    /\ ~stop
    /\ MaxDrops = 1
    /\ stop' = TRUE
    /\ token' = [w \in Workers |-> token[w] \cup {1}]
    /\ UNCHANGED <<queue, local, lounge, lock, is_waking, pc, ret, taken,
                   fetchv, working, depth, done, scheduled, finished, limits>>

-----------------------------------------------------------------------------
WakeOne(t) == WakeOneCas(t) \/ TakeOne(t) \/ Wake(t)

Fetch(w) == \/ FetchLocal(w) \/ StealGlobal(w) \/ GrabMore(w) \/ GrabPublish(w)
            \/ StealWorker(w) \/ StealLen(w) \/ StealInner(w)

Lounging(w) == WakeSelf(w) \/ WakeSelfStore(w) \/ Sleep(w) \/ SleepStore(w)

\* What a thread does by itself, apart from the code of the tasks.
Step(t) ==
    \/ WakeOne(t)
    \/ t \in Workers /\ (Fetch(t) \/ Lounging(t) \/ Leave(t) \/ Unpark(t))

Next ==
    \/ \E t \in Threads : Step(t) \/ Schedule(t)
    \/ \E w \in Workers : \/ RunEnd(w) \/ LocalTick(w) \/ LocalEnd(w)
                         \/ EnterScope(w) \/ ScopeDone(w) \/ Poke(w)
    \/ Assist
    \/ DropPool

Spec == Init /\ [][Next]_vars

(***************************************************************************)
(* Threads are scheduled by the operating system: each takes its own steps *)
(* eventually.  Whether a task ever returns is the task's business.        *)
(***************************************************************************)
SchedulerFairness == \A t \in Threads : WF_vars(Step(t))

\* A worker is listed as sleeping while it runs a local task, so a wake-up may
\* be spent on it: the local tasks it runs in between have to return.
LocalFairness == \A w \in Workers : WF_vars(LocalEnd(w))

Fairness == SchedulerFairness /\ LocalFairness

FairSpec == Spec /\ Fairness

\* Every task returns and every scope's last task completes: what some properties
\* assume beyond that.
TasksReturn == \A w \in Workers : WF_vars(RunEnd(w)) /\ WF_vars(ScopeDone(w))

-----------------------------------------------------------------------------
PCs == {"poll", "fetch", "grab", "steal", "len", "inner", "self",
        "self2", "sleep", "sleep2", "park", "run", "exit", "cas", "take",
        "wake", "idle", "local"}

\* The type invariant; the lounge's counters are usize and must not go
\* below zero.
TypeOK ==
    /\ queue \in 0 .. MaxTasks
    /\ local \in [Workers -> 0 .. CAP]
    /\ sleeping_num \in 0 .. NumWorkers /\ waking_count \in 0 .. NumWorkers
    /\ cached_index \in 0 .. NumWorkers
    /\ wakers \in [Workers -> 0 .. 3]
    /\ lock \in Workers \cup {Nobody}
    /\ is_waking \in BOOLEAN /\ stop \in BOOLEAN
    /\ pc \in [Threads -> PCs] /\ ret \in [Threads -> {"idle", "run", "local", "cas"}]
    /\ target \in [Threads -> Workers \cup {Nobody}]
    /\ level \in [Threads -> 0 .. 3]
    /\ buf \in [Workers -> 0 .. CAP] /\ left \in [Workers -> 0 .. CAP]
    /\ victims \in [Workers -> SUBSET Workers]
    /\ src \in [Workers -> Workers \cup {Nobody}]
    /\ working \in [Workers -> BOOLEAN] /\ token \in [Workers -> SUBSET (1 .. 3)]
    /\ depth \in [Workers -> 1 .. 3] /\ done \in [Workers -> BOOLEAN]
    /\ scheduled \in 0 .. MaxTasks /\ finished \in 0 .. MaxTasks
    /\ scopes \in 0 .. MaxScopes /\ pokes \in 0 .. MaxPokes
    /\ ticks \in 0 .. MaxTicks

\* The three states of a worker as the Lounge's comments define them; a
\* worker inside wake() has left the lounge before it sets `working`.
Sleeping == {w \in Workers : wakers[w] # 0}
Waking == {w \in Workers : ~working[w] /\ wakers[w] = 0 /\ pc[w] # "self2"}

\* The lounge's counters count what they say, whatever the order in which
\* sleeps, wakes and takes interleave, and take_one's shortcut (skip
\* cached_index) never skips a sleeper.
LoungeCounts ==
    /\ sleeping_num = Cardinality(Sleeping)
    /\ waking_count = Cardinality(Waking)
    /\ \A w \in Sleeping : ~working[w] /\ cached_index <= w

\* A runnable is available to a worker that would look for one.
Available == queue > 0 \/ \E w \in Workers : local[w] > 0

\* Threads that will look for runnables, or wake a worker that will, before
\* they run a task of the pool or park.
Searching ==
    \/ \E t \in Threads : pc[t] \notin {"run", "park", "exit", "idle"}
    \/ \E w \in Workers : pc[w] = "park" /\ depth[w] \in token[w]

\* No lost wake-up: while a runnable is available and a worker is parked,
\* some thread is on its way to it, even if no running task ever returns.  With
\* the exception of a scope that a task has entered on its own worker: a worker
\* woken there for a runnable may find its scope over and go back to the task,
\* still counted as waking.
NoLostWakeup ==
    scopes = 0 /\ Available /\ (\E w \in Workers : pc[w] = "park") => Searching

\* A runnable in reach of a parked worker is picked up, or no worker is parked
\* any more: this needs no running task to return (with the same exception).
WorkConserving ==
    (scopes = 0 /\ Available /\ \E w \in Workers : pc[w] = "park")
        ~> (~Available \/ scopes # 0 \/ \A w \in Workers : pc[w] # "park")

\* Every runnable scheduled is run, in scopes too, when tasks return and the pool
\* lives.
EveryTaskRuns ==
    TasksReturn => ((finished < scheduled) ~> (finished = scheduled \/ stop))

\* TaskPool::drop joins its threads: when tasks return, all of them leave their
\* loops.
PoolStops == TasksReturn => (stop ~> \A w \in Workers : pc[w] = "exit")
=============================================================================
