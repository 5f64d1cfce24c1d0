-------------------------- MODULE ScheduleExecutor --------------------------
(***************************************************************************)
(* The executors of schedules (zlim-core, schedule/executor).  In the      *)
(* multi-threaded one (multi.rs) every task that ends a job pushes a       *)
(* completion event and then tries to take over the scheduler: whoever     *)
(* gets the spin lock drains the events and spawns what has become ready.  *)
(* The actors are the thread that called exec ("main") and one task per    *)
(* node of the compiled graph.  The single-threaded one (single.rs) visits *)
(* the nodes in topological order.                                         *)
(*                                                                         *)
(* The lock is released by a Release store, so the load of is_empty that   *)
(* follows may be performed first.  If delayed is TRUE the store sits in   *)
(* the releasing thread's buffer until it is flushed (x86-TSO); if it is   *)
(* FALSE it is visible at once (sequential consistency).                   *)
(*                                                                         *)
(* ready_systems is a set: one pass of spawn_ready_tasks tries every       *)
(* system that was ready when the pass began, in some order.  What it      *)
(* could meet twice or too late conflicts with the exclusive system just   *)
(* spawned, and goes back.  A panic of a job is the result "error".        *)
(***************************************************************************)
EXTENDS ScheduleGraph, FiniteSets

CONSTANTS
    Plans,   \* the schedules considered, a sequence of plans
    Cases    \* bound: which of them is run, by which kind of executor, whether a
             \* release store may be delayed, and how often it is run

ASSUME ExecutorAssumption ==
    /\ Cases \subseteq [plan : DOMAIN Plans, kind : {"multi", "single"},
                        delayed : BOOLEAN, runs : Nat \ {0}]
    /\ \A i \in DOMAIN Plans : IsPlan(Plans[i])

\* Schedule::update has found a topological order: it panics when there is none.
ASSUME PlansSorted ==
    \A i \in DOMAIN Plans :
        LET dag == Dag(Plans[i]) IN
        \E rank \in [dag.node -> 1 .. Cardinality(dag.node)] :
            \A e \in dag.edge : rank[e[1]] < rank[e[2]]

VARIABLES
    plan,              \* the schedule that is run, an index of Plans
    kind,              \* Schedule's ExecutorKind
    schedule,          \* the JobSchedule that Schedule::update has compiled from it
    delayed,           \* a release store may be delayed
    incoming, strong_incoming,          \* ExecutorState
    ready_systems, running_jobs, deferred_systems,
    completed,         \* the queue of completion events
    lock,              \* the actor that has the spin lock, or None
    unlocking,         \* its release is still in its store buffer
    pc,                \* where each actor is
    pending,           \* events on the stack of handle_completed_job
    todo,              \* systems the pass of spawn_ready_tasks has still to try,
                       \* or the single-threaded executor still to visit
    apply_deferred,    \* jobs whose commands an exclusive task applies first
    status, applied,   \* what has become of the jobs and of their commands
    runs               \* executions of the schedule left

state == <<incoming, strong_incoming, ready_systems, running_jobs, deferred_systems>>
outcome == <<status, applied>>
case == <<plan, kind, schedule, delayed>>
vars == <<case, incoming, strong_incoming, ready_systems, running_jobs,
          deferred_systems, completed, lock, unlocking, pc, pending,
          todo, apply_deferred, status, applied, runs>>

ThePlan == Plans[plan]
Jobs == schedule.nodes

None == <<>>
Main == <<0, 0, 0>>   \* no node has three components
Actors == Jobs \cup {Main}

Goto(t, l) == pc' = [pc EXCEPT ![t] = l]

Completed(n, d, s) == [index |-> n, deferred |-> d, successed |-> s]

\* ExecutorState::reset: the events and the lock are not touched.
Reset ==
    /\ incoming' = schedule.incoming
    /\ strong_incoming' = schedule.strong_incoming
    /\ ready_systems' = {n \in Jobs : schedule.incoming[n] = 0}
    /\ running_jobs' = {} /\ deferred_systems' = {}

\* exec is called.
Begin ==
    [t \in Actors |->
        IF t # Main THEN "none" ELSE IF kind = "single" THEN "visit" ELSE "try"]

Init ==
    /\ \E c \in Cases :
          plan = c.plan /\ kind = c.kind /\ delayed = c.delayed /\ runs = c.runs - 1
    /\ schedule = JobSchedule(ThePlan)
    /\ incoming = schedule.incoming
    /\ strong_incoming = schedule.strong_incoming
    /\ ready_systems = {n \in Jobs : schedule.incoming[n] = 0}
    /\ running_jobs = {} /\ deferred_systems = {}
    /\ completed = {} /\ lock = None /\ unlocking = FALSE
    /\ pc = Begin
    /\ pending = {} /\ todo = IF kind = "single" THEN Jobs ELSE {}
    /\ apply_deferred = [n \in Jobs |-> {}]
    /\ status = [j \in ThePlan.jobs |-> "waiting"] /\ applied = {}

-----------------------------------------------------------------------------
(***************************************************************************)
(* Context::tick: whoever has the lock.                                    *)
(***************************************************************************)

\* try_lock; a compare-exchange first empties the store buffer of its thread.
TryLock(t) ==
    /\ pc[t] = "try"
    /\ \/ /\ lock = None \/ (lock = t /\ unlocking)
          /\ lock' = t /\ unlocking' = FALSE
          /\ Goto(t, "drain")
       \/ /\ lock \notin {None, t}
          /\ Goto(t, "end")
          /\ UNCHANGED <<lock, unlocking>>
    /\ UNCHANGED <<case, state, completed, pending, todo,
                   apply_deferred, outcome, runs>>

\* What a job that never ran has become when its event is handled.
Settle(c) ==
    IF ~IsSync(c.index) /\ status[c.index[1]] = "waiting"
    THEN status' = [status EXCEPT ![c.index[1]] =
                       IF c.successed THEN "ok" ELSE "blocked"]
    ELSE UNCHANGED status

\* What is strongly ordered after n has one fewer to wait for.
Unblock(n) ==
    strong_incoming' = [m \in Jobs |->
        IF m \in schedule.strong_outgoing[n] THEN strong_incoming[m] - 1
        ELSE strong_incoming[m]]

\* Mutant of Handle: a system becomes ready although its strong order broke.
HandleIgnoresStrong(c, others, skipping) ==
    LET out == schedule.outgoing[c.index]
        free == {n \in out : incoming[n] = 1}
        passed == {n \in free : skipping /\ NO_OP(ThePlan, n)}
    IN  /\ running_jobs' = running_jobs \ {c.index}
        /\ deferred_systems' = deferred_systems \cup {n \in {c.index} : c.deferred}
        /\ incoming' = [n \in Jobs |->
                           IF n \in out THEN incoming[n] - 1 ELSE incoming[n]]
        /\ pending' = others \cup {Completed(n, FALSE, TRUE) : n \in passed}
        /\ ready_systems' = ready_systems \cup (free \ passed)
        /\ Settle(c)
        /\ UNCHANGED strong_incoming

\* handle_completed_job: item c of its stack, of which `others` are left.
Handle(c, others, skipping) ==
    LET out == schedule.outgoing[c.index]
        free == {n \in out : incoming[n] = 1}
        skipped == {n \in free : strong_incoming'[n] # 0}
        passed == {n \in free \ skipped : skipping /\ NO_OP(ThePlan, n)}
    IN  /\ running_jobs' = running_jobs \ {c.index}
        /\ deferred_systems' = deferred_systems \cup {n \in {c.index} : c.deferred}
        /\ IF c.successed THEN Unblock(c.index) ELSE UNCHANGED strong_incoming
        /\ incoming' = [n \in Jobs |->
                           IF n \in out THEN incoming[n] - 1 ELSE incoming[n]]
        /\ pending' = others \cup {Completed(n, FALSE, FALSE) : n \in skipped}
                             \cup {Completed(n, FALSE, TRUE) : n \in passed}
        /\ ready_systems' = ready_systems \cup (free \ (skipped \cup passed))
        /\ Settle(c)

\* tick_internal: pop an event and handle it, or go on to spawn_ready_tasks.
Drain(t) ==
    /\ pc[t] = "drain"
    /\ pending = {}
    /\ \/ \E c \in completed :
             /\ completed' = completed \ {c}
             /\ Handle(c, {}, FALSE)
             /\ UNCHANGED <<pc, todo>>
       \/ /\ completed = {}
          /\ todo' = ready_systems
          /\ Goto(t, "spawn")
          /\ UNCHANGED <<state, completed, pending, status>>
    /\ UNCHANGED <<case, lock, unlocking, apply_deferred, applied, runs>>

\* The rest of the stack: systems skipped, or passed after an exclusive spawn.
HandleRest(t) ==
    /\ pc[t] \in {"drain", "spawn"}
    /\ \E c \in pending : Handle(c, pending \ {c}, pc[t] = "spawn")
    /\ UNCHANGED <<case, completed, lock, unlocking, pc, todo, apply_deferred,
                   applied, runs>>

\* spawn_ready_tasks meets a conflict: the system stays ready, and fresh
\* events end the pass.
Postpone(t) ==
    /\ pc[t] = "spawn"
    /\ pending = {}
    /\ \E n \in todo :
          /\ \E m \in running_jobs : <<n, m>> \in schedule.conflict
          /\ todo' = IF completed # {} THEN {} ELSE todo \ {n}
    /\ UNCHANGED <<case, state, completed, lock, unlocking, pc, pending,
                   apply_deferred, outcome, runs>>

\* Mutant of SpawnOne: the placeholders passed are left in ready_systems.
SpawnOneKeepsNoOps(t) ==
    /\ pc[t] = "spawn"
    /\ pending = {}
    /\ \E n \in todo :
          LET rest == ready_systems \ {n}
              noops == {m \in rest : EXCLUSIVE(ThePlan, n) /\ NO_OP(ThePlan, m)}
          IN  /\ \A m \in running_jobs : <<n, m>> \notin schedule.conflict
              /\ running_jobs' = running_jobs \cup {n}
              /\ Goto(n, "queued")
              /\ ready_systems' = rest
              /\ todo' = todo \ {n}
              /\ pending' = {Completed(m, FALSE, TRUE) : m \in noops}
    /\ UNCHANGED <<case, incoming, strong_incoming, deferred_systems, completed,
                   lock, unlocking, apply_deferred, outcome, runs>>

\* spawn_one_task, with handle_deferred_jobs before and handle_no_op_jobs
\* after the spawn of an exclusive system.
SpawnOne(t) ==
    /\ pc[t] = "spawn"
    /\ pending = {}
    /\ \E n \in todo :
          LET rest == ready_systems \ {n}
              noops == {m \in rest : EXCLUSIVE(ThePlan, n) /\ NO_OP(ThePlan, m)}
          IN  /\ \A m \in running_jobs : <<n, m>> \notin schedule.conflict
              /\ running_jobs' = running_jobs \cup {n}
              /\ \/ /\ EXCLUSIVE(ThePlan, n)
                    /\ apply_deferred' = [apply_deferred EXCEPT ![n] = deferred_systems]
                    /\ deferred_systems' = {}
                 \/ /\ ~EXCLUSIVE(ThePlan, n)
                    /\ UNCHANGED <<apply_deferred, deferred_systems>>
              /\ Goto(n, "queued")
              /\ ready_systems' = rest \ noops
              /\ todo' = todo \ (noops \cup {n})
              /\ pending' = {Completed(m, FALSE, TRUE) : m \in noops}
    /\ UNCHANGED <<case, incoming, strong_incoming, completed, lock, unlocking,
                   outcome, runs>>

\* Mutant of Unlock: the guard is leaked.
UnlockLeaked(t) ==
    /\ pc[t] = "spawn"
    /\ pending = {} /\ todo = {}
    /\ Goto(t, "check")
    /\ UNCHANGED <<case, state, completed, lock, unlocking, pending, todo,
                   apply_deferred, outcome, runs>>

\* The guard is dropped when the pass is over.
Unlock(t) ==
    /\ pc[t] = "spawn"
    /\ pending = {} /\ todo = {}
    /\ \/ delayed /\ unlocking' = TRUE /\ UNCHANGED lock
       \/ ~delayed /\ lock' = None /\ UNCHANGED unlocking
    /\ Goto(t, "check")
    /\ UNCHANGED <<case, state, completed, pending, todo,
                   apply_deferred, outcome, runs>>

\* The release store becomes visible (external: the processor).
Flush ==
    /\ unlocking
    /\ lock' = None /\ unlocking' = FALSE
    /\ UNCHANGED <<case, state, completed, pc, pending, todo,
                   apply_deferred, outcome, runs>>

\* Mutant of Check: tick is not a loop.
CheckNever(t) ==
    /\ pc[t] = "check"
    /\ Goto(t, "end")
    /\ UNCHANGED <<case, state, completed, lock, unlocking, pending, todo,
                   apply_deferred, outcome, runs>>

\* completed.is_empty() after the release.
Check(t) ==
    /\ pc[t] = "check"
    /\ Goto(t, IF completed = {} THEN "end" ELSE "try")
    /\ UNCHANGED <<case, state, completed, lock, unlocking, pending,
                   todo, apply_deferred, outcome, runs>>

-----------------------------------------------------------------------------
(***************************************************************************)
(* The task of a node, and the end of exec of the multi-threaded executor. *)
(***************************************************************************)

\* The closure of handle_deferred_jobs.
ApplyDeferred(n) ==
    /\ pc[n] = "queued"
    /\ apply_deferred[n] # {}
    /\ applied' = applied \cup {m[1] : m \in apply_deferred[n]}
    /\ apply_deferred' = [apply_deferred EXCEPT ![n] = {}]
    /\ UNCHANGED <<case, state, completed, lock, unlocking, pc, pending,
                   todo, status, runs>>

StartJob(n) ==
    /\ pc[n] = "queued"
    /\ apply_deferred[n] = {}
    /\ status' = IF IsSync(n) THEN status ELSE [status EXCEPT ![n[1]] = "running"]
    /\ Goto(n, "run")
    /\ UNCHANGED <<case, state, completed, lock, unlocking, pending,
                   todo, apply_deferred, applied, runs>>

\* The job returns and its event is pushed; a placeholder always succeeds.
FinishJob(n) ==
    /\ pc[n] = "run"
    /\ \E r \in {"ok", "error", "skipped"} :
          /\ NO_OP(ThePlan, n) => r = "ok"
          /\ status' = IF IsSync(n) THEN status ELSE [status EXCEPT ![n[1]] = r]
          /\ completed' = completed \cup
                {Completed(n, DEFERRED(ThePlan, n) /\ ~NO_OP(ThePlan, n) /\ r # "skipped",
                           r = "ok")}
    /\ Goto(n, "try")
    /\ UNCHANGED <<case, state, lock, unlocking, pending, todo,
                   apply_deferred, applied, runs>>

\* TaskPool::scope returns when every task has ended.
ScopeOver == \A t \in Actors : pc[t] \in {"none", "end"}

\* exec after the scope: the deferred commands still waiting.
ApplyRest ==
    /\ ScopeOver
    /\ pc[Main] = "end"
    /\ applied' = applied \cup {m[1] : m \in deferred_systems}
    /\ Goto(Main, "none")
    /\ UNCHANGED <<case, state, completed, lock, unlocking, pending,
                   todo, apply_deferred, status, runs>>

-----------------------------------------------------------------------------
(***************************************************************************)
(* SingleThreadedExecutor::exec.                                           *)
(***************************************************************************)

\* The next node in topological order: its strong order is broken, it is a
\* placeholder, or it is run.
Visit(n) ==
    /\ pc[Main] = "visit" /\ \A m \in Jobs : pc[m] = "none"
    /\ n \in todo /\ \A m \in todo : n \notin schedule.outgoing[m]
    /\ todo' = todo \ {n}
    /\ \/ /\ strong_incoming[n] # 0
          /\ Settle(Completed(n, FALSE, FALSE))
          /\ UNCHANGED <<strong_incoming, pc>>
       \/ /\ strong_incoming[n] = 0 /\ NO_OP(ThePlan, n)
          /\ Settle(Completed(n, FALSE, TRUE)) /\ Unblock(n)
          /\ UNCHANGED pc
       \/ /\ strong_incoming[n] = 0 /\ ~NO_OP(ThePlan, n)
          /\ status' = [status EXCEPT ![n[1]] = "running"] /\ Goto(n, "call")
          /\ UNCHANGED strong_incoming
    /\ UNCHANGED <<case, incoming, ready_systems, running_jobs, deferred_systems,
                   completed, lock, unlocking, pending, apply_deferred, applied, runs>>

\* The job returns.
Return(n) ==
    /\ pc[n] = "call"
    /\ \E r \in {"ok", "error", "skipped"} : status' = [status EXCEPT ![n[1]] = r]
    /\ Goto(n, "commands")
    /\ UNCHANGED <<case, state, completed, lock, unlocking, pending, todo,
                   apply_deferred, applied, runs>>

\* Mutant of ApplyOwn: the commands of a job that failed are dropped.
ApplyOwnIfOk(n) ==
    /\ pc[n] = "commands"
    /\ applied' = applied \cup {j \in {n[1]} : DEFERRED(ThePlan, n) /\ status[j] = "ok"}
    /\ IF status[n[1]] = "ok" THEN Unblock(n) ELSE UNCHANGED strong_incoming
    /\ Goto(n, "none")
    /\ UNCHANGED <<case, incoming, ready_systems, running_jobs, deferred_systems,
                   completed, lock, unlocking, pending, todo, apply_deferred, status, runs>>

\* Its commands are applied at once, also if it failed.
ApplyOwn(n) ==
    /\ pc[n] = "commands"
    /\ applied' = applied \cup
          {j \in {n[1]} : DEFERRED(ThePlan, n) /\ status[j] # "skipped"}
    /\ IF status[n[1]] = "ok" THEN Unblock(n) ELSE UNCHANGED strong_incoming
    /\ Goto(n, "none")
    /\ UNCHANGED <<case, incoming, ready_systems, running_jobs, deferred_systems,
                   completed, lock, unlocking, pending, todo, apply_deferred, status, runs>>

\* A panic of a job is passed on at once: exec is left.
Unwind(n) ==
    /\ pc[n] = "call"
    /\ status' = [status EXCEPT ![n[1]] = "error"]
    /\ pc' = [pc EXCEPT ![n] = "none", ![Main] = "unwound"]
    /\ UNCHANGED <<case, state, completed, lock, unlocking, pending, todo,
                   apply_deferred, applied, runs>>

AllVisited ==
    /\ pc[Main] = "visit" /\ todo = {} /\ \A m \in Jobs : pc[m] = "none"
    /\ Goto(Main, "none")
    /\ UNCHANGED <<case, state, completed, lock, unlocking, pending, todo,
                   apply_deferred, outcome, runs>>

Single == AllVisited \/ \E n \in Jobs : Visit(n) \/ Return(n) \/ ApplyOwn(n) \/ Unwind(n)

-----------------------------------------------------------------------------
\* The schedule is run once more.
ExecAgain ==
    /\ pc[Main] = "none"
    /\ runs > 0
    /\ runs' = runs - 1
    /\ Reset
    /\ pc' = Begin
    /\ todo' = IF kind = "single" THEN Jobs ELSE {}
    /\ status' = [j \in ThePlan.jobs |-> "waiting"] /\ applied' = {}
    /\ UNCHANGED <<case, completed, lock, unlocking, pending, apply_deferred>>

-----------------------------------------------------------------------------
Tick(t) == \/ TryLock(t) \/ Drain(t) \/ HandleRest(t) \/ Postpone(t)
           \/ SpawnOne(t) \/ Unlock(t) \/ Check(t)

Task(n) == ApplyDeferred(n) \/ StartJob(n) \/ FinishJob(n)

Work ==
    \/ \E t \in Actors : Tick(t)
    \/ \E n \in Jobs : Task(n)
    \/ Flush \/ ApplyRest \/ Single

Next == Work \/ ExecAgain

Spec == Init /\ [][Next]_vars

\* Spawned tasks are run by the pool (module PoolExecutor), jobs return, and store
\* buffers drain: something is done as long as something can be done.
FairSpec == Spec /\ WF_vars(Work)

-----------------------------------------------------------------------------
\* The type invariant; incoming and strong_incoming are u16 counters and
\* must not go below zero.
TypeOK ==
    /\ plan \in DOMAIN Plans
    /\ incoming \in [Jobs -> Nat] /\ strong_incoming \in [Jobs -> Nat]
    /\ ready_systems \subseteq Jobs /\ running_jobs \subseteq Jobs
    /\ deferred_systems \subseteq Jobs /\ todo \subseteq Jobs
    /\ kind = "multi" => todo \subseteq ready_systems
    /\ completed \cup pending \subseteq
          [index : Jobs, deferred : BOOLEAN, successed : BOOLEAN]
    /\ lock \in Actors \cup {None} /\ unlocking \in BOOLEAN
    /\ pc \in [Actors -> {"none", "queued", "run", "try", "drain", "spawn",
                          "check", "end", "visit", "call", "commands", "unwound"}]
    /\ apply_deferred \in [Jobs -> SUBSET Jobs]
    /\ DOMAIN status = ThePlan.jobs /\ applied \subseteq ThePlan.jobs
    /\ runs \in Nat

\* Between two executions.
Idle == pc[Main] = "none"

Complete ==
    /\ \A j \in ThePlan.jobs : status[j] \in {"ok", "error", "skipped", "blocked"}
    /\ completed = {}
    /\ \A j \in ThePlan.deferred \ ThePlan.noop :
          status[j] \in {"ok", "error"} => j \in applied

\* When exec returns every job has been run or rightly left out, every event
\* has been consumed and every command of a job that ran has been applied,
\* whichever executor runs the schedule and however the tasks take over the
\* scheduler from one another, if the release of the lock is not delayed.
RunComplete == Idle /\ ~delayed => Complete

\* The same without that condition: tick drops its guard before it looks at
\* the queue so that no event is lost.
NoEventLost == Idle => Complete

Orders == [i \in DOMAIN Plans |-> JobOrders(Plans[i])]

Docs == INSTANCE ScheduleRun
            WITH Plans <- Plans, Orders <- Orders, Excused <- {},
                 plan <- plan, kind <- kind, status <- status, applied <- applied

Promise == INSTANCE ScheduleRun
              WITH Plans <- Plans, Orders <- Orders, Excused <- {"multi"},
                   plan <- plan, kind <- kind, status <- status, applied <- applied

\* Executing a schedule is a behaviour of ScheduleRun: jobs start in order, apart
\* from what they conflict with and with the commands applied that their orders
\* promise; only the multi-threaded executor is excused when a job fails whose
\* commands a weak order promises.
RunRefines == Promise!RunSpec

\* The orders as insert_weak_order documents them: the job that comes before may
\* fail, and what it queued is definitely visible, whichever executor runs it.
OrdersHold == Docs!RunSpec

\* exec returns, or unwinds with the panic of a job, even when the release of the
\* lock is delayed: nobody waits for an event that no task will handle.
ExecReturns == (pc[Main] \notin {"none", "unwound"}) ~> (pc[Main] \in {"none", "unwound"})
=============================================================================
