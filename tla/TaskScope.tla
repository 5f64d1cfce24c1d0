----------------------------- MODULE TaskScope -----------------------------
(***************************************************************************)
(* One call of TaskPool::scope (zlim-task, platform/multi/task_pool.rs):   *)
(* tasks that borrow the caller's stack are spawned on the pool or on the  *)
(* caller's LocalExecutor (platform/common.rs), also from within running   *)
(* tasks; the caller drains the queue of their handles, driving its        *)
(* LocalExecutor while it waits, and cancels what is left when it unwinds. *)
(* Every safety comment of that code rests on one promise: when scope is   *)
(* left, no scoped task is alive.                                          *)
(*                                                                         *)
(* A runnable is run by the pool or by the caller; the main thread and the *)
(* LocalExecutors of other threads are, to the caller, like the pool.  The *)
(* order of the handles plays no part, so their queue is a set.  Handles   *)
(* and runnables are those of the crate async_task (external).             *)
(***************************************************************************)
EXTENDS Integers

CONSTANTS
    MaxTasks,   \* bound: tasks spawned in the scope
    MaxYields   \* bound: how often tasks suspend

ASSUME ScopeAssumption == MaxTasks \in Nat /\ MaxYields \in Nat

\* Task k is the k-th that is spawned.
Tasks == 1 .. MaxTasks
Caller == 0
Actors == 0 .. MaxTasks

None == -1

VARIABLES
    cpc,      \* where the caller of scope is
    cur,      \* the task whose handle it has popped
    tasks,    \* the queue of handles
    spawned,  \* tasks spawned so far
    held,     \* the task an actor has spawned and not yet queued
    st,       \* the state of each task
    closed,   \* tasks that are cancelled
    where,    \* who runs the actor
    results,  \* tasks whose results have been collected
    yields,   \* suspensions so far
    orphans   \* tasks whose handle a panic of a foreign task has dropped

vars == <<cpc, cur, tasks, spawned, held, st, closed, where, results, yields,
          orphans>>

Init ==
    /\ cpc = "f" /\ cur = None
    /\ tasks = {} /\ spawned = 0 /\ held = [a \in Actors |-> None]
    /\ st = [k \in Tasks |-> "unborn"] /\ closed = {}
    /\ where = [a \in Actors |-> IF a = Caller THEN "caller" ELSE "pool"]
    /\ results = {} /\ yields = 0 /\ orphans = {}

\* The future of the task is gone.
Over(k) == st[k] \in {"unborn", "ok", "panic", "dropped"}

\* The caller's thread is inside a task of its own.
CallerBusy == \E k \in Tasks : st[k] = "running" /\ where[k] = "caller"

\* Mutant of Ticking: Scope::drop waits without driving the executors.
TickingOnlyInLoop == cpc = "await" /\ ~CallerBusy

\* raw_block_on in scope, or block_on in Scope::drop, is waiting, and
\* LocalExecutor::run is ticking.
Ticking == cpc \in {"await", "cancel"} /\ ~CallerBusy

-----------------------------------------------------------------------------
(***************************************************************************)
(* Spawning.                                                               *)
(***************************************************************************)

Active(a) == IF a = Caller THEN cpc = "f" ELSE st[a] = "running"

\* Scope::spawn, spawn_local and spawn_to_main first schedule the runnable...
Spawn(a) ==
    /\ Active(a)
    /\ held[a] = None
    /\ spawned < MaxTasks
    /\ spawned' = spawned + 1
    /\ st' = [st EXCEPT ![spawned'] = "scheduled"]
    /\ held' = [held EXCEPT ![a] = spawned']
    /\ \/ where' = [where EXCEPT ![spawned'] = "pool"]
       \/ /\ where[a] = "caller"
          /\ where' = [where EXCEPT ![spawned'] = "caller"]
    /\ UNCHANGED <<cpc, cur, tasks, closed, results, yields, orphans>>

\* Mutant of PushHandle: a handle is queued before there is one.
PushHandleBlindly(a) ==
    /\ Active(a)
    /\ tasks' = tasks \cup {held[a]}
    /\ held' = [held EXCEPT ![a] = None]
    /\ UNCHANGED <<cpc, cur, st, closed, where, results, yields, spawned, orphans>>

\* ... and then queue the handle.
PushHandle(a) ==
    /\ held[a] # None
    /\ tasks' = tasks \cup {held[a]}
    /\ held' = [held EXCEPT ![a] = None]
    /\ UNCHANGED <<cpc, cur, spawned, st, closed, where, results, yields, orphans>>

\* f returns, or panics.
FReturn ==
    /\ cpc = "f"
    /\ held[Caller] = None
    /\ cpc' \in {IF tasks = {} THEN "returned" ELSE "pop", "unwind"}
    /\ UNCHANGED <<cur, tasks, spawned, held, st, closed, where, results, yields, orphans>>

-----------------------------------------------------------------------------
(***************************************************************************)
(* The drain loop of scope, and Scope::drop.                               *)
(***************************************************************************)

PopTask ==
    /\ cpc = "pop"
    /\ \/ /\ tasks = {}
          /\ cpc' = "returned"
          /\ UNCHANGED <<cur, tasks>>
       \/ \E k \in tasks :
             /\ cur' = k
             /\ tasks' = tasks \ {k}
             /\ cpc' = "await"
    /\ UNCHANGED <<spawned, held, st, closed, where, results, yields, orphans>>

\* Mutant of Await: if let instead of while let.
AwaitOnce ==
    /\ cpc = "await"
    /\ ~CallerBusy
    /\ \/ st[cur] = "ok" /\ results' = results \cup {cur} /\ cpc' = "returned"
       \/ st[cur] = "panic" /\ UNCHANGED results /\ cpc' = "unwind"
    /\ cur' = None
    /\ UNCHANGED <<tasks, spawned, held, st, closed, where, yields, orphans>>

\* f_task.await: a result is collected, a panic is resumed.  None, a task that
\* somebody else has cancelled, cannot be: nobody else has its handle.
Await ==
    /\ cpc = "await"
    /\ ~CallerBusy
    /\ \/ st[cur] = "ok" /\ results' = results \cup {cur} /\ cpc' = "pop"
       \/ st[cur] = "panic" /\ UNCHANGED results /\ cpc' = "unwind"
    /\ cur' = None
    /\ UNCHANGED <<tasks, spawned, held, st, closed, where, yields, orphans>>

\* Cancelling a suspended task schedules it once more, to be dropped.
Cancel(k) ==
    /\ closed' = closed \cup {k}
    /\ st' = [st EXCEPT ![k] = IF @ = "waiting" THEN "scheduled" ELSE @]

\* Mutant of CancelNext: the cancelled task is not awaited.
CancelNextAndGoOn ==
    /\ cpc = "unwind"
    /\ \/ tasks = {} /\ cpc' = "panicked" /\ UNCHANGED <<cur, tasks, closed, st>>
       \/ \E k \in tasks :
             tasks' = tasks \ {k} /\ Cancel(k) /\ UNCHANGED <<cur, cpc>>
    /\ UNCHANGED <<spawned, held, where, results, yields, orphans>>

\* Scope::drop: pop, cancel and wait, until the queue is empty.
CancelNext ==
    /\ cpc = "unwind"
    /\ \/ tasks = {} /\ cpc' = "panicked" /\ UNCHANGED <<cur, tasks, closed, st>>
       \/ \E k \in tasks :
             /\ cur' = k
             /\ tasks' = tasks \ {k}
             /\ Cancel(k)
             /\ cpc' = "cancel"
    /\ UNCHANGED <<spawned, held, where, results, yields, orphans>>

Cancelled ==
    /\ cpc = "cancel"
    /\ ~CallerBusy
    /\ Over(cur)
    /\ cur' = None
    /\ cpc' = "unwind"
    /\ UNCHANGED <<tasks, spawned, held, st, closed, where, results, yields, orphans>>

\* A task of TaskPool::spawn_local, ticked while the caller waits, panics: its
\* panic is not caught, the future that waits is dropped with the handle it
\* holds, which cancels that task.  In Scope::drop the process aborts.
LocalPanic ==
    /\ Ticking
    /\ \/ /\ cpc = "await"
          /\ Cancel(cur)
          /\ orphans' = orphans \cup {cur}
          /\ cur' = None
          /\ cpc' = "unwind"
       \/ /\ cpc = "cancel"
          /\ cpc' = "aborted"
          /\ UNCHANGED <<cur, closed, st, orphans>>
    /\ UNCHANGED <<tasks, spawned, held, where, results, yields>>

-----------------------------------------------------------------------------
(***************************************************************************)
(* The tasks, run by the executors (external: async_task).                 *)
(***************************************************************************)

\* The runnable is run: the future is polled, or dropped if it was cancelled.
Poll(k) ==
    /\ st[k] = "scheduled"
    /\ where[k] = "caller" => Ticking
    /\ st' = [st EXCEPT ![k] = IF k \in closed THEN "dropped" ELSE "running"]
    /\ UNCHANGED <<cpc, cur, tasks, spawned, held, closed, where, results, yields, orphans>>

\* The poll returns Pending.
Yield(k) ==
    /\ st[k] = "running" /\ held[k] = None
    /\ yields < MaxYields
    /\ yields' = yields + 1
    /\ st' = [st EXCEPT ![k] = IF k \in closed THEN "dropped" ELSE "waiting"]
    /\ UNCHANGED <<cpc, cur, tasks, spawned, held, closed, where, results, orphans>>

\* The future is ready; catch_unwind makes a panic a result.
Complete(k) ==
    /\ st[k] = "running" /\ held[k] = None
    /\ \E r \in {"ok", "panic"} :
          st' = [st EXCEPT ![k] = IF k \in closed THEN "dropped" ELSE r]
    /\ UNCHANGED <<cpc, cur, tasks, spawned, held, closed, where, results, yields, orphans>>

\* Its waker is called.  The schedule function of a local task pushes to the
\* LocalExecutor of the thread that calls the waker.
WakeTask(k) ==
    /\ st[k] = "waiting"
    /\ st' = [st EXCEPT ![k] = "scheduled"]
    /\ \/ UNCHANGED where
       \/ /\ where[k] # "pool"
          /\ where' = [where EXCEPT ![k] = "other"]
    /\ UNCHANGED <<cpc, cur, tasks, spawned, held, closed, results, yields, orphans>>

-----------------------------------------------------------------------------
ScopeStep == FReturn \/ PopTask \/ Await \/ CancelNext \/ Cancelled

TaskStep(k) == Poll(k) \/ Complete(k) \/ WakeTask(k)

Next ==
    /\ cpc # "aborted"
    /\ \/ ScopeStep \/ LocalPanic
       \/ \E a \in Actors : Spawn(a) \/ PushHandle(a)
       \/ \E k \in Tasks : TaskStep(k) \/ Yield(k)

Spec == Init /\ [][Next]_vars

(***************************************************************************)
(* The caller's thread runs, the executors run what is scheduled (module   *)
(* PoolExecutor), and a task that is waiting is woken and one that runs    *)
(* comes to an end: that much is up to the tasks.                          *)
(***************************************************************************)
FairSpec ==
    /\ Spec
    /\ WF_vars(ScopeStep)
    /\ \A a \in Actors : WF_vars(PushHandle(a))
    /\ \A k \in Tasks : WF_vars(TaskStep(k))

-----------------------------------------------------------------------------
\* The type invariant.
TypeOK ==
    /\ cpc \in {"f", "pop", "await", "unwind", "cancel", "returned",
                "panicked", "aborted"}
    /\ cur \in Tasks \cup {None}
    /\ tasks \subseteq Tasks /\ spawned \in 0 .. MaxTasks
    /\ closed \subseteq Tasks /\ results \subseteq Tasks
    /\ held \in [Actors -> Tasks \cup {None}]
    /\ st \in [Tasks -> {"unborn", "scheduled", "running", "waiting", "ok",
                         "panic", "dropped"}]
    /\ where \in [Actors -> {"pool", "caller", "other"}]
    /\ yields \in 0 .. MaxYields /\ orphans \subseteq Tasks

Left == cpc \in {"returned", "panicked"}

\* "All tasks spawned through a scope are driven to completion before the
\* enclosing TaskPool::scope call returns", also the ones spawned by tasks,
\* and also when scope is left by a panic: the futures borrow the caller's
\* stack.
DrivenToCompletion == Left => \A k \in Tasks : Over(k)

\* It is so unless a task that does not belong to the scope panics while the
\* caller ticks it: however f and the tasks of the scope themselves end.
ScopeWaits == orphans = {} => DrivenToCompletion

\* The vector scope returns has the result of every task it was given, once,
\* whoever panics.
ResultsComplete ==
    cpc = "returned" => \A k \in Tasks : st[k] # "unborn" => k \in results

\* scope is left, if its tasks come to an end and f does, or a second panic
\* during the unwinding ends the process.
ScopeEnds == <>(Left \/ cpc = "aborted")
=============================================================================
