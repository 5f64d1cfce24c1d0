----------------------------- MODULE MainThread -----------------------------
(***************************************************************************)
(* The main thread of zlim-task: the fake one of multi/fake_main.rs, which *)
(* drives the MainExecutor (multi/main_executor.rs) and its LocalExecutor  *)
(* (common.rs) for ever, and the calls of block_on and of scope that its   *)
(* tasks make, each of which drives the same two executors again, on top   *)
(* of the task that called it.                                             *)
(*                                                                         *)
(* There is one waker for the local queue and one for the main queue, both *)
(* of whichever block_on registered last.  The waker of the first          *)
(* block_on is the cached one of its thread; a nested one has a parker of  *)
(* its own, and to wake it after the call has ended does nothing.          *)
(*                                                                         *)
(* A task that suspends is scheduled again by its waker, with the schedule *)
(* function that was called when it was spawned.  A local task stands for  *)
(* one of spawn_local, which does not catch panics; those spawned by a     *)
(* scope catch them, as main tasks do.                                     *)
(***************************************************************************)
EXTENDS Naturals, SequencesExt

CONSTANTS
    Others,      \* threads that hand tasks to the main thread
    MaxTasks,    \* bound: tasks ever spawned
    MaxPushed,   \* bound: the others spawn while no more than that are spawned
    MaxNested,   \* bound: nested calls of block_on
    MaxSuspended \* bound: polls of tasks that return Pending

ASSUME MainAssumption ==
    /\ MaxTasks \in Nat /\ MaxPushed \in 0 .. MaxTasks
    /\ MaxNested \in Nat /\ MaxSuspended \in Nat

VARIABLES
    tasks,         \* the tasks in the order they were spawned
    local_queue,   \* LocalExecutor::queue of the main thread
    main_queue,    \* MainExecutor::queue
    local_waker,   \* LocalExecutor::waker
    main_waker,    \* MainExecutor::waker
    calls,         \* the calls of block_on in progress, the outermost first
    tokens,        \* the wakers whose parker has a token
    nested,        \* nested calls made so far
    suspended,     \* polls of tasks that have returned Pending so far
    pc, held       \* where the other threads are, and the waker each has taken

queues == <<local_queue, main_queue>>
wakers == <<local_waker, main_waker>>
others == <<pc, held>>
vars == <<tasks, queues, wakers, calls, tokens, nested, suspended, others>>

None == 0        \* no waker
Cached == 1      \* the cached waker of the main thread
Kinds == {"local", "main", "pool"}
Over == {"done", "panicked"}

\* A call of block_on or scope: its waker, the tasks it waits for one after another
\* (Forever never ends), where its poll is, the task it runs (or NoTask), and
\* whether a nested call has ended since it registered for local tasks.
NoTask == 0
Forever == 0
Call(w, t) ==
    [waker |-> w, awaits |-> <<t>>, at |-> "future", task |-> NoTask, displaced |-> FALSE]

Depth == Len(calls)
Top == calls[Depth]

WakersOf(cs) == {cs[i].waker : i \in DOMAIN cs}

\* Waking a call that has ended has no effect.
Unpark(w) == tokens' = tokens \cup ({w} \cap WakersOf(calls))

Init ==
    /\ tasks = <<>> /\ local_queue = <<>> /\ main_queue = <<>>
    /\ local_waker = None /\ main_waker = None
    /\ calls = <<Call(Cached, Forever)>> /\ tokens = {}
    /\ nested = 0 /\ suspended = 0
    /\ pc = [o \in Others |-> "idle"] /\ held = [o \in Others |-> None]

-----------------------------------------------------------------------------
(***************************************************************************)
(* Tasks end.                                                              *)
(***************************************************************************)

\* The tasks in T end; who waits for one of them is woken, if its call is one of
\* cs, the calls that go on.
Conclude(T, result, cs) ==
    /\ tasks' = [t \in DOMAIN tasks |->
                    IF t \in T THEN [tasks[t] EXCEPT !.state = result] ELSE tasks[t]]
    /\ tokens' = (tokens \cap WakersOf(cs)) \cup
                    {cs[i].waker : i \in {j \in DOMAIN cs : Head(cs[j].awaits) \in T}}

\* A panic unwinds the calls down to the first one, at depth d or below, whose
\* task catches it, or to the loop of the fake main thread.
Catcher(d) ==
    LET catching == {i \in 1 .. d : tasks[calls[i].task].kind = "main"}
    IN  CHOOSE c \in catching \cup {0} : \A i \in catching : i <= c

\* Mutant of Restart: the thread ends.
NoRestart == <<>>

\* The loop of the fake main thread calls block_on again.
Restart == <<Call(Cached, Forever)>>

Unwind(d) ==
    LET c == Catcher(d)
        caught == [calls[c] EXCEPT !.task = NoTask, !.displaced = @ \/ c < Depth]
        cs == IF c = 0 THEN Restart ELSE Append(SubSeq(calls, 1, c - 1), caught)
    IN  /\ calls' = cs
        /\ Conclude({calls[i].task : i \in (IF c = 0 THEN 1 ELSE c) .. d}, "panicked", cs)

-----------------------------------------------------------------------------
(***************************************************************************)
(* One poll of the innermost call: its future, local tasks, main tasks;    *)
(* then it parks.                                                          *)
(***************************************************************************)

Polling(at) == Top.at = at /\ Top.task = NoTask
Go(at) == calls' = [calls EXCEPT ![Depth].at = at]

\* The tasks awaited that are left when those done are popped.
Left == SelectInSeq(Top.awaits, LAMBDA t : t = Forever \/ tasks[t].state # "done")

\* The future is pending, or the call returns to the task that made it, or the
\* panic of a task it waits for is passed on.
PollFuture ==
    /\ Polling("future")
    /\ \/ /\ Left # 0
          /\ Top.awaits[Left] # Forever => tasks[Top.awaits[Left]].state \notin Over
          /\ calls' = [calls EXCEPT ![Depth].awaits = SubSeq(@, Left, Len(@)),
                                    ![Depth].at = "local"]
          /\ UNCHANGED <<tasks, tokens>>
       \/ /\ Left = 0
          /\ calls' = [SubSeq(calls, 1, Depth - 1) EXCEPT ![Depth - 1].displaced = TRUE]
          /\ tokens' = tokens \ {Top.waker}
          /\ UNCHANGED tasks
       \/ /\ Left # 0
          /\ Top.awaits[Left] # Forever /\ tasks[Top.awaits[Left]].state = "panicked"
          /\ Unwind(Depth - 1)
    /\ UNCHANGED <<queues, wakers, nested, suspended, others>>

\* The call starts to run the first task of queue q.
RunFirst(q) ==
    /\ q # <<>>
    /\ tasks' = [tasks EXCEPT ![Head(q)].state = "running"]

\* Mutant of LocalRegistered: the waker is set only where there is none.
LocalRegisteredOnce == IF local_waker = None THEN Top.waker ELSE local_waker

\* LocalExecutor::waker once a call has registered.
LocalRegistered == Top.waker

\* Mutant of Beside: a nested call takes the thread for one of the pool.
BesideNotNested == IF Depth > 1 THEN "parked" ELSE "main"

\* What block_on and scope drive beside the local tasks on the main thread.
Beside == "main"

\* LocalExecutor::tick: register, then take a task or go on.
LocalTick ==
    /\ Polling("local")
    /\ local_waker' = LocalRegistered
    /\ \/ /\ RunFirst(local_queue)
          /\ local_queue' = Tail(local_queue)
          /\ calls' = [calls EXCEPT ![Depth].task = Head(local_queue),
                                    ![Depth].displaced = FALSE]
       \/ /\ local_queue = <<>>
          /\ calls' = [calls EXCEPT ![Depth].at = Beside, ![Depth].displaced = FALSE]
          /\ UNCHANGED <<tasks, local_queue>>
    /\ UNCHANGED <<main_queue, main_waker, tokens, nested, suspended, others>>

\* Mutant of MainRegister: a waker that is there is kept.
MainRegisterOnce ==
    /\ Polling("main")
    /\ main_waker' = IF main_waker = None THEN Top.waker ELSE main_waker
    /\ Go("pop")
    /\ UNCHANGED <<tasks, queues, local_waker, tokens, nested, suspended, others>>

\* MainExecutor::tick: register ...
MainRegister ==
    /\ Polling("main")
    /\ main_waker' = Top.waker
    /\ Go("pop")
    /\ UNCHANGED <<tasks, queues, local_waker, tokens, nested, suspended, others>>

\* ... then take a task, or park.
MainPop ==
    /\ Polling("pop")
    /\ \/ /\ RunFirst(main_queue)
          /\ main_queue' = Tail(main_queue)
          /\ calls' = [calls EXCEPT ![Depth].task = Head(main_queue),
                                    ![Depth].at = "main"]
       \/ /\ main_queue = <<>>
          /\ Go("parked")
          /\ UNCHANGED <<tasks, main_queue>>
    /\ UNCHANGED <<local_queue, wakers, tokens, nested, suspended, others>>

\* The parker has a token: the call polls again.
Resume ==
    /\ Polling("parked")
    /\ Top.waker \in tokens
    /\ tokens' = tokens \ {Top.waker}
    /\ Go("future")
    /\ UNCHANGED <<tasks, queues, wakers, nested, suspended, others>>

Loop == PollFuture \/ LocalTick \/ MainRegister \/ MainPop \/ Resume

-----------------------------------------------------------------------------
(***************************************************************************)
(* What a task does that runs on the main thread.                          *)
(***************************************************************************)

New == Len(tasks) + 1
Spawned(k) == tasks' = Append(tasks, [kind |-> k, state |-> "queued"])
Becomes(t, s) == tasks' = [tasks EXCEPT ![t].state = s]

\* The schedule function of task t, of kind k, called on the main thread.
Schedule(k, t) ==
    \/ /\ k = "local"
       /\ local_queue' = Append(local_queue, t)
       /\ local_waker' = None
       /\ Unpark(local_waker)
       /\ UNCHANGED <<main_queue, main_waker>>
    \/ /\ k = "main"
       /\ main_queue' = Append(main_queue, t)
       /\ main_waker' = None
       /\ Unpark(main_waker)
       /\ UNCHANGED <<local_queue, local_waker>>
    \/ /\ k = "pool"
       /\ UNCHANGED <<queues, wakers, tokens>>

\* spawn, spawn_local, spawn_to_main.
Spawn(k) ==
    /\ New <= MaxTasks
    /\ Spawned(k)
    /\ Schedule(k, New)

\* The task may belong to the scope that awaits the one that spawns it.
SpawnTask ==
    /\ Top.task # NoTask
    /\ \E k \in {"local", "main"} : Spawn(k)
    /\ \/ UNCHANGED calls
       \/ \E i \in 1 .. Depth :
             /\ Top.task \in Range(calls[i].awaits)
             /\ calls' = [calls EXCEPT ![i].awaits = Append(@, New)]
    /\ UNCHANGED <<nested, suspended, others>>

\* scope, or spawn and block_on: the task waits for a new one.
BlockOn ==
    /\ Top.task # NoTask
    /\ nested < MaxNested
    /\ nested' = nested + 1
    /\ \E k \in Kinds : Spawn(k)
    /\ calls' = Append(calls, Call(Cached + nested', New))
    /\ UNCHANGED <<suspended, others>>

\* The poll of the task returns Ready, or panics.
TaskEnds ==
    /\ Top.task # NoTask
    /\ \/ /\ calls' = [calls EXCEPT ![Depth].task = NoTask]
          /\ Conclude({Top.task}, "done", calls)
       \/ Unwind(Depth)
    /\ UNCHANGED <<queues, wakers, nested, suspended, others>>

\* The poll returns Pending: the task waits to be woken, or is scheduled at once
\* because it was woken while it ran.
TaskSuspends ==
    /\ Top.task # NoTask
    /\ suspended < MaxSuspended
    /\ suspended' = suspended + 1
    /\ calls' = [calls EXCEPT ![Depth].task = NoTask]
    /\ \/ /\ Becomes(Top.task, "waiting")
          /\ UNCHANGED <<queues, wakers, tokens>>
       \/ /\ Becomes(Top.task, "queued")
          /\ Schedule(tasks[Top.task].kind, Top.task)
    /\ UNCHANGED <<nested, others>>

\* What runs on the main thread, a task or the future of a call, wakes a task.
WakeTask ==
    /\ Top.task # NoTask \/ Top.at = "future"
    /\ \E t \in DOMAIN tasks :
          /\ tasks[t].state = "waiting"
          /\ Becomes(t, "queued")
          /\ Schedule(tasks[t].kind, t)
    /\ UNCHANGED <<calls, nested, suspended, others>>

-----------------------------------------------------------------------------
(***************************************************************************)
(* The other threads.                                                      *)
(***************************************************************************)

\* A task of the pool ends.
PoolTaskEnds ==
    /\ \E t \in DOMAIN tasks, r \in Over :
          /\ tasks[t] = [kind |-> "pool", state |-> "queued"]
          /\ Conclude({t}, r, calls)
    /\ UNCHANGED <<queues, wakers, calls, nested, suspended, others>>

\* A local task woken by another thread: its schedule function puts it into the
\* local queue of that thread, which may run it to its end.
StrayTaskEnds ==
    /\ \E t \in DOMAIN tasks, r \in Over :
          /\ tasks[t] = [kind |-> "local", state |-> "waiting"]
          /\ Conclude({t}, r, calls)
    /\ UNCHANGED <<queues, wakers, calls, nested, suspended, others>>

\* The schedule function of a main task, called by MainExecutor::spawn or by the
\* waker of a task that waits: the task is pushed, ...
Push(o) ==
    /\ pc[o] = "idle"
    /\ \/ /\ New <= MaxPushed
          /\ Spawned("main")
          /\ main_queue' = Append(main_queue, New)
       \/ \E t \in DOMAIN tasks :
             /\ tasks[t] = [kind |-> "main", state |-> "waiting"]
             /\ Becomes(t, "queued")
             /\ main_queue' = Append(main_queue, t)
    /\ pc' = [pc EXCEPT ![o] = "pushed"]
    /\ UNCHANGED <<local_queue, wakers, calls, tokens, nested, suspended, held>>

\* ... the waker is taken ...
TakeWaker(o) ==
    /\ pc[o] = "pushed"
    /\ held' = [held EXCEPT ![o] = main_waker]
    /\ main_waker' = None
    /\ pc' = [pc EXCEPT ![o] = "taken"]
    /\ UNCHANGED <<tasks, queues, local_waker, calls, tokens, nested, suspended>>

\* ... and woken.
Wake(o) ==
    /\ pc[o] = "taken"
    /\ Unpark(held[o])
    /\ held' = [held EXCEPT ![o] = None]
    /\ pc' = [pc EXCEPT ![o] = "idle"]
    /\ UNCHANGED <<tasks, queues, wakers, calls, nested, suspended>>

\* run_local on another thread: it runs a task meant for the main thread.
TryTick(o) ==
    /\ pc[o] = "idle"
    /\ main_queue # <<>>
    /\ main_queue' = Tail(main_queue)
    /\ \/ /\ \E r \in Over : Conclude({Head(main_queue)}, r, calls)
          /\ UNCHANGED suspended
       \/ /\ suspended < MaxSuspended
          /\ suspended' = suspended + 1
          /\ Becomes(Head(main_queue), "waiting")
          /\ UNCHANGED tokens
    /\ UNCHANGED <<local_queue, wakers, calls, nested, others>>

-----------------------------------------------------------------------------
Other(o) == TakeWaker(o) \/ Wake(o)

Next ==
    \/ Loop \/ SpawnTask \/ BlockOn \/ TaskEnds \/ TaskSuspends \/ WakeTask
    \/ PoolTaskEnds \/ StrayTaskEnds
    \/ \E o \in Others : Other(o) \/ Push(o) \/ TryTick(o)

Spec == Init /\ [][Next]_vars

\* The threads are scheduled and tasks end.
FairSpec ==
    /\ Spec
    /\ WF_vars(Loop) /\ WF_vars(TaskEnds) /\ WF_vars(PoolTaskEnds)
    /\ \A o \in Others : WF_vars(Other(o))

-----------------------------------------------------------------------------
\* The type invariant; the fake main thread never ends.
TypeOK ==
    /\ tasks \in Seq([kind : Kinds, state : {"queued", "running", "waiting"} \cup Over])
    /\ Len(tasks) <= MaxTasks
    /\ local_queue \in Seq(DOMAIN tasks) /\ main_queue \in Seq(DOMAIN tasks)
    /\ local_waker \in None .. Cached + nested /\ main_waker \in None .. Cached + nested
    /\ Depth > 0
    /\ calls \in Seq([waker : Cached .. Cached + nested, awaits : Seq(0 .. Len(tasks)),
                      at : {"future", "local", "main", "pop", "parked"},
                      task : 0 .. Len(tasks), displaced : BOOLEAN])
    /\ tokens \subseteq WakersOf(calls)
    /\ nested \in 0 .. MaxNested /\ suspended \in 0 .. MaxSuspended
    /\ pc \in [Others -> {"idle", "pushed", "taken"}]
    /\ held \in [Others -> None .. Cached + nested]

Asleep == Polling("parked") /\ Top.waker \notin tokens

\* The main thread does not sleep beside a main task, however block_on calls are
\* nested, end and unwind while others push: either the innermost call is still
\* registered and a push has not yet looked, or somebody is about to wake it.
NoMainTaskStranded ==
    Asleep /\ main_queue # <<>> =>
        \E o \in Others : \/ pc[o] = "pushed" /\ main_waker = Top.waker
                          \/ pc[o] = "taken" /\ held[o] = Top.waker

\* Nor beside a local task, unless a nested call has ended since the innermost
\* call registered: then the one slot for a waker held that of the nested call,
\* and the task, spawned or woken, woke nobody.
NoLocalTaskStranded == Asleep /\ local_queue # <<>> => Top.displaced

\* Whatever is handed to the main thread, it gets through with it.
MainTasksRun == (main_queue # <<>>) ~> (main_queue = <<>>)

\* The exception above: the call sleeps beside a local task that woke nobody.
Stranded == Asleep /\ local_queue # <<>> /\ Top.displaced

\* Somebody wakes every task that suspends.
Woken == []<>(\A t \in DOMAIN tasks : tasks[t].state # "waiting")

\* Nested calls of block_on and scope end if the tasks that suspend are woken,
\* whoever wakes them: the call is woken by what it awaits, or by what makes it
\* run that, with the exception above alone.
NestedCallsEnd == Woken => ((Depth > 1) ~> (Depth = 1 \/ Stranded))
=============================================================================
