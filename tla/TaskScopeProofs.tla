-------------------------- MODULE TaskScopeProofs --------------------------
(***************************************************************************)
(* What TaskPool::scope guarantees for every number of tasks and every     *)
(* interleaving.  The heart of both results is who answers for a task that *)
(* is alive: its handle is in the queue, in the caller's hands, or with    *)
(* the task that has just spawned it, which is alive itself and older.     *)
(* Ages cannot descend forever, so an empty queue means that nobody is     *)
(* left.                                                                   *)
(***************************************************************************)
EXTENDS TaskScope, TLAPS, WellFoundedInduction

\* A task that has not been spawned has done nothing.
Unborn == \A k \in Tasks : k > spawned => st[k] = "unborn"

\* Who has spawned a task and not queued its handle is at work, and is older.
Holders == \A a \in Actors : held[a] # None => Active(a) /\ a < held[a]

\* The caller has a handle in its hands exactly while it waits for it.
InHand ==
    /\ cpc \in {"await", "cancel"} => cur # None
    /\ cpc \notin {"await", "cancel", "aborted"} => cur = None

\* Someone has the handle of task k.
Handled(k) == k \in tasks \/ k = cur \/ \E a \in Actors : held[a] = k

\* Results are results of tasks that have succeeded.
ResultsOk == \A k \in results : st[k] = "ok"

\* Until the scope unwinds, a task's result is collected or its handle is
\* somewhere.
Collected ==
    cpc \in {"f", "pop", "await", "returned"} =>
        \A k \in Tasks : st[k] # "unborn" => k \in results \/ Handled(k)

\* Scope is returned from with an empty queue.
ReturnedEmpty == cpc = "returned" => tasks = {}

IInv == /\ TypeOK /\ Unborn /\ Holders /\ InHand /\ ResultsOk
        /\ Collected /\ ReturnedEmpty

\* What holds as long as no handle is lost to a panic of a foreign task.
Owned == \A k \in Tasks : ~Over(k) => Handled(k)
PanickedEmpty == cpc = "panicked" => tasks = {}
Undisturbed == orphans = {} => Owned /\ PanickedEmpty

-----------------------------------------------------------------------------
\* A set of tasks in which everyone has an elder is empty.
LEMMA NoEldest ==
    ASSUME NEW T \in SUBSET Tasks, \A k \in T : \E a \in T : a < k
    PROVE  T = {}
<1> SUFFICES ASSUME T # {} PROVE FALSE
  OBVIOUS
<1>1. T \subseteq Nat
  BY ScopeAssumption DEF Tasks
<1> DEFINE R == {ss \in Nat \X Nat : ss[1] < ss[2]}
<1>2. IsWellFoundedOn(R, Nat)
  BY NatLessThanWellFounded, Zenon DEF OpToRel
<1> HIDE DEF R
<1>3. \E x \in T : \A y \in T : ~(<<y, x>> \in R)
  BY <1>1, <1>2, WFMin, Zenon
<1> QED
  BY <1>1, <1>3 DEF R

\* Nobody has a handle: every task spawned has delivered its result.
LEMMA NothingOutstanding ==
    ASSUME IInv, cpc \in {"f", "pop", "returned"}, tasks = {}, held[Caller] = None
    PROVE  \A k \in Tasks : st[k] # "unborn" => k \in results
<1> DEFINE T == {k \in Tasks : st[k] # "unborn" /\ k \notin results}
<1>1. \A k \in T : \E a \in T : a < k
  <2> SUFFICES ASSUME NEW k \in T PROVE \E a \in T : a < k
    OBVIOUS
  <2>1. PICK a \in Actors : held[a] = k
    BY DEF IInv, Collected, Handled, InHand, TypeOK, Tasks, None
  <2>2. Active(a) /\ a < k
    BY <2>1 DEF IInv, Holders, Tasks, None
  <2>3. a \in Tasks /\ st[a] = "running"
    BY <2>1, <2>2, ScopeAssumption DEF Active, Actors, Tasks, Caller, None
  <2>4. a \in T
    BY <2>3 DEF IInv, ResultsOk
  <2> QED
    BY <2>2, <2>4
<1>2. T = {}
  BY <1>1, NoEldest
<1> QED
  BY <1>2

\* Nobody has a handle: no task is alive.
LEMMA NobodyAlive ==
    ASSUME IInv, Owned, tasks = {}, held[Caller] = None,
           cpc \notin {"await", "cancel", "aborted"}
    PROVE  \A k \in Tasks : Over(k)
<1> DEFINE T == {k \in Tasks : ~Over(k)}
<1>1. \A k \in T : \E a \in T : a < k
  <2> SUFFICES ASSUME NEW k \in T PROVE \E a \in T : a < k
    OBVIOUS
  <2>1. PICK a \in Actors : held[a] = k
    BY DEF IInv, Owned, Handled, InHand, TypeOK, Tasks, None
  <2>2. Active(a) /\ a < k
    BY <2>1 DEF IInv, Holders, Tasks, None
  <2>3. a \in Tasks /\ st[a] = "running"
    BY <2>1, <2>2, ScopeAssumption DEF Active, Actors, Tasks, Caller, None
  <2>4. a \in T
    BY <2>3 DEF Over
  <2> QED
    BY <2>2, <2>4
<1>2. T = {}
  BY <1>1, NoEldest
<1> QED
  BY <1>2

\* Once scope has returned, only its caller's next call could spawn.
LEMMA ReturnedQuiet ==
    ASSUME IInv, cpc = "returned"
    PROVE  /\ \A k \in Tasks : st[k] # "unborn" => k \in results
           /\ \A a \in Actors : ~Active(a) /\ held[a] = None
<1>1. held[Caller] = None
  BY ScopeAssumption DEF IInv, Holders, Active, Caller, Actors
<1>2. \A k \in Tasks : st[k] # "unborn" => k \in results
  BY <1>1, NothingOutstanding DEF IInv, ReturnedEmpty
<1>3. \A a \in Actors : ~Active(a)
  BY <1>2, ScopeAssumption DEF IInv, ResultsOk, Active, Caller, Actors, Tasks
<1> QED
  BY <1>2, <1>3 DEF IInv, Holders

-----------------------------------------------------------------------------
\* A scope starts with no task, and no result.
LEMMA InitIInv == Init => IInv
  BY ScopeAssumption DEF Init, IInv, TypeOK, Unborn, Holders, InHand, ResultsOk,
     Collected, ReturnedEmpty, Tasks, Actors, Caller, None

\* Every step preserves the invariant.
LEMMA NextIInv == IInv /\ [Next]_vars => IInv'
<1> SUFFICES ASSUME IInv, [Next]_vars PROVE IInv'
  OBVIOUS
<1> USE ScopeAssumption DEF Tasks, Actors, Caller, None
<1>1. ASSUME NEW a \in Actors, Spawn(a) PROVE IInv'
  <2>1. TypeOK'
    <3>1. TypeOK /\ spawned + 1 \in Tasks
      BY <1>1 DEF Spawn, IInv, TypeOK
    <3>2. /\ st' = [st EXCEPT ![spawned + 1] = "scheduled"]
          /\ held' = [held EXCEPT ![a] = spawned + 1]
          /\ spawned' = spawned + 1
          /\ UNCHANGED <<cpc, cur, tasks, closed, results, yields, orphans>>
      BY <1>1 DEF Spawn
    <3>3. \E x \in {"pool", "caller"} : where' = [where EXCEPT ![spawned + 1] = x]
      BY <1>1 DEF Spawn
    <3>4. where' \in [Actors -> {"pool", "caller", "other"}]
      BY <3>1, <3>3 DEF TypeOK
    <3>5. /\ st' \in [Tasks -> {"unborn", "scheduled", "running", "waiting",
                                "ok", "panic", "dropped"}]
          /\ held' \in [Actors -> Tasks \cup {None}]
      BY <3>1, <3>2 DEF TypeOK
    <3> QED
      BY <3>1, <3>2, <3>4, <3>5 DEF TypeOK
  <2>2. cpc # "returned"
    BY <1>1, ReturnedQuiet DEF Spawn
  <2>3. Unborn' /\ Holders'
    BY <1>1 DEF Spawn, IInv, TypeOK, Unborn, Holders, Active
  <2>4. InHand' /\ ResultsOk' /\ ReturnedEmpty'
    BY <1>1, <2>2 DEF Spawn, IInv, TypeOK, InHand, ResultsOk, ReturnedEmpty, Unborn
  <2>5. Collected'
    BY <1>1 DEF Spawn, IInv, TypeOK, Collected, Handled
  <2> QED
    BY <2>1, <2>3, <2>4, <2>5 DEF IInv
<1>2. ASSUME NEW a \in Actors, PushHandle(a) PROVE IInv'
  <2>1. TypeOK' /\ Unborn' /\ Holders' /\ InHand' /\ ResultsOk'
    BY <1>2 DEF PushHandle, IInv, TypeOK, Unborn, Holders, InHand, ResultsOk, Active
  <2>2. cpc # "returned"
    BY <1>2, ReturnedQuiet DEF PushHandle
  <2>3. Collected'
    BY <1>2 DEF PushHandle, IInv, TypeOK, Collected, Handled
  <2> QED
    BY <1>2, <2>1, <2>2, <2>3 DEF PushHandle, IInv, ReturnedEmpty
<1>3. CASE FReturn
  BY <1>3 DEF FReturn, IInv, TypeOK, Unborn, Holders, InHand, ResultsOk,
     Collected, Handled, ReturnedEmpty, Active
<1>4. CASE PopTask
  <2>1. TypeOK'
    BY <1>4 DEF PopTask, IInv, TypeOK
  <2>2. Unborn' /\ ResultsOk' /\ ReturnedEmpty'
    BY <1>4 DEF PopTask, IInv, TypeOK, Unborn, ResultsOk, ReturnedEmpty
  <2>3. Holders'
    BY <1>4 DEF PopTask, IInv, TypeOK, Holders, Active
  <2>4. InHand'
    <3>1. CASE tasks = {}
      BY <1>4, <3>1 DEF PopTask, IInv, InHand
    <3>2. CASE tasks # {}
      BY <1>4, <3>2 DEF PopTask, IInv, TypeOK, InHand
    <3> QED
      BY <3>1, <3>2
  <2>5. Collected'
    BY <1>4 DEF PopTask, IInv, TypeOK, InHand, Collected, Handled
  <2> QED
    BY <2>1, <2>2, <2>3, <2>4, <2>5 DEF IInv
<1>5. CASE Await
  <2>1. TypeOK'
    BY <1>5 DEF Await, IInv, TypeOK, InHand
  <2>2. Unborn' /\ Holders' /\ InHand' /\ ResultsOk' /\ ReturnedEmpty'
    BY <1>5 DEF Await, IInv, TypeOK, Unborn, Holders, InHand, ResultsOk,
       ReturnedEmpty, Active
  <2>3. Collected'
    BY <1>5 DEF Await, IInv, TypeOK, InHand, Collected, Handled
  <2> QED
    BY <2>1, <2>2, <2>3 DEF IInv
<1>6. CASE CancelNext
  <2>1. TypeOK'
    BY <1>6, ZenonT(40) DEF CancelNext, Cancel, IInv, TypeOK, InHand
  <2>2. Unborn' /\ ResultsOk'
    BY <1>6 DEF CancelNext, Cancel, IInv, TypeOK, Unborn, ResultsOk
  <2>3. Holders'
    BY <1>6 DEF CancelNext, Cancel, IInv, TypeOK, Holders, Active
  <2>4. InHand' /\ Collected' /\ ReturnedEmpty'
    BY <1>6 DEF CancelNext, Cancel, IInv, TypeOK, InHand, Collected, ReturnedEmpty
  <2> QED
    BY <2>1, <2>2, <2>3, <2>4 DEF IInv
<1>7. CASE Cancelled
  BY <1>7 DEF Cancelled, IInv, TypeOK, Unborn, Holders, InHand, ResultsOk,
     Collected, ReturnedEmpty, Active
<1>8. CASE LocalPanic
  <2>1. TypeOK'
    BY <1>8 DEF LocalPanic, Ticking, Cancel, IInv, TypeOK, InHand
  <2>2. Unborn' /\ ResultsOk'
    BY <1>8 DEF LocalPanic, Ticking, Cancel, IInv, TypeOK, Unborn, ResultsOk
  <2>3. Holders'
    BY <1>8 DEF LocalPanic, Ticking, Cancel, IInv, TypeOK, Holders, Active
  <2>4. InHand' /\ Collected' /\ ReturnedEmpty'
    BY <1>8 DEF LocalPanic, Ticking, Cancel, IInv, TypeOK, InHand, Collected, ReturnedEmpty
  <2> QED
    BY <2>1, <2>2, <2>3, <2>4 DEF IInv
<1>9. ASSUME NEW k \in Tasks, Poll(k) \/ Yield(k) \/ Complete(k) \/ WakeTask(k)
      PROVE  IInv'
  \* All four change the state of one task that is neither unborn nor over,
  \* and the last may move it to another thread.
  <2>1. /\ TypeOK' /\ cpc' = cpc /\ cur' = cur /\ tasks' = tasks
        /\ spawned' = spawned /\ held' = held /\ results' = results
        /\ st[k] \notin {"unborn", "ok"} /\ st'[k] # "unborn"
        /\ st[k] = "running" => st'[k] = "running" \/ held[k] = None
        /\ \A j \in Tasks \ {k} : st'[j] = st[j]
    <3>1. CASE Poll(k)
      BY <3>1 DEF Poll, IInv, TypeOK
    <3>2. CASE Yield(k)
      BY <3>2 DEF Yield, IInv, TypeOK
    <3>3. CASE Complete(k)
      BY <3>3 DEF Complete, IInv, TypeOK
    <3>4. CASE WakeTask(k)
      BY <3>4 DEF WakeTask, IInv, TypeOK
    <3> QED
      BY <1>9, <3>1, <3>2, <3>3, <3>4
  <2>2. Unborn' /\ InHand' /\ ResultsOk' /\ ReturnedEmpty'
    BY <2>1 DEF IInv, TypeOK, Unborn, InHand, ResultsOk, ReturnedEmpty
  <2>3. Holders'
    BY <2>1 DEF IInv, TypeOK, Holders, Active
  <2>4. Collected'
    BY <2>1 DEF IInv, TypeOK, Collected, Handled
  <2> QED
    BY <2>1, <2>2, <2>3, <2>4 DEF IInv
<1>10. CASE UNCHANGED vars
  BY <1>10 DEF vars, IInv, TypeOK, Unborn, Holders, InHand, ResultsOk, Collected,
     Handled, ReturnedEmpty, Active
<1> QED
  BY <1>1, <1>2, <1>3, <1>4, <1>5, <1>6, <1>7, <1>8, <1>9, <1>10
     DEF Next, ScopeStep, TaskStep

-----------------------------------------------------------------------------
\* Every step but a foreign panic keeps hold of the tasks that are alive.
LEMMA NextOwned ==
    ASSUME IInv, Owned, PanickedEmpty, [Next]_vars, ~LocalPanic
    PROVE  Owned' /\ PanickedEmpty'
<1> USE ScopeAssumption DEF Tasks, Actors, Caller, None
<1>1. cpc = "panicked" => \A a \in Actors : ~Active(a) /\ held[a] = None
  <2> SUFFICES ASSUME cpc = "panicked"
               PROVE  \A a \in Actors : ~Active(a) /\ held[a] = None
    OBVIOUS
  <2>1. held[Caller] = None
    BY DEF IInv, Holders, Active
  <2>2. \A k \in Tasks : Over(k)
    BY <2>1, NobodyAlive DEF PanickedEmpty
  <2>3. \A a \in Actors : ~Active(a)
    BY <2>2 DEF Active, Over
  <2> QED
    BY <2>3 DEF IInv, Holders
<1>2. ASSUME NEW a \in Actors, Spawn(a) PROVE Owned' /\ PanickedEmpty'
  BY <1>1, <1>2 DEF Spawn, IInv, TypeOK, Owned, Over, Handled, PanickedEmpty
<1>3. ASSUME NEW a \in Actors, PushHandle(a) PROVE Owned' /\ PanickedEmpty'
  BY <1>1, <1>3 DEF PushHandle, IInv, TypeOK, Owned, Over, Handled, PanickedEmpty
<1>4. CASE FReturn
  BY <1>4 DEF FReturn, Owned, Over, Handled, PanickedEmpty
<1>5. CASE PopTask
  BY <1>5 DEF PopTask, IInv, TypeOK, InHand, Owned, Over, Handled, PanickedEmpty
<1>6. CASE Await
  BY <1>6 DEF Await, IInv, TypeOK, Owned, Over, Handled, PanickedEmpty
<1>7. CASE CancelNext
  <2>1. \A k \in Tasks : Over(k) => Over(k)'
    BY <1>7 DEF CancelNext, Cancel, IInv, TypeOK, Over
  <2>2. \A k \in Tasks : Handled(k) => Handled(k)'
    BY <1>7 DEF CancelNext, IInv, InHand, Handled
  <2>3. PanickedEmpty'
    BY <1>7 DEF CancelNext, PanickedEmpty
  <2> QED
    BY <2>1, <2>2, <2>3 DEF Owned
<1>8. CASE Cancelled
  BY <1>8 DEF Cancelled, IInv, TypeOK, Owned, Over, Handled, PanickedEmpty
<1>9. ASSUME NEW k \in Tasks, Poll(k) \/ Yield(k) \/ Complete(k) \/ WakeTask(k)
       PROVE  Owned' /\ PanickedEmpty'
  <2>1. /\ cpc' = cpc /\ cur' = cur /\ tasks' = tasks /\ held' = held
        /\ ~Over(k) /\ \A j \in Tasks \ {k} : st'[j] = st[j]
    <3>1. CASE Poll(k)
      BY <3>1 DEF Poll, IInv, TypeOK, Over
    <3>2. CASE Yield(k)
      BY <3>2 DEF Yield, IInv, TypeOK, Over
    <3>3. CASE Complete(k)
      BY <3>3 DEF Complete, IInv, TypeOK, Over
    <3>4. CASE WakeTask(k)
      BY <3>4 DEF WakeTask, IInv, TypeOK, Over
    <3> QED
      BY <1>9, <3>1, <3>2, <3>3, <3>4
  <2> QED
    BY <2>1 DEF Owned, Over, Handled, PanickedEmpty
<1>10. CASE UNCHANGED vars
  BY <1>10 DEF vars, Owned, Over, Handled, PanickedEmpty
<1> QED
  BY <1>2, <1>3, <1>4, <1>5, <1>6, <1>7, <1>8, <1>9, <1>10
     DEF Next, ScopeStep, TaskStep

-----------------------------------------------------------------------------
\* The inductive invariant of scope, its drain loop and Scope::drop.
THEOREM ScopeInvariant == Spec => []IInv
  BY InitIInv, NextIInv, PTL DEF Spec

\* The variables keep their types: in particular the caller never waits for a
\* handle it does not have.
THEOREM ScopeTypes == Spec => []TypeOK
<1>1. IInv => TypeOK
  BY DEF IInv
<1> QED
  BY <1>1, ScopeInvariant, PTL

\* The vector scope returns is complete: whatever the tasks spawn while they
\* run, and whatever other tasks of the caller's thread do.
THEOREM ScopeResultsComplete == Spec => []ResultsComplete
<1>1. IInv => ResultsComplete
  BY ReturnedQuiet DEF ResultsComplete
<1> QED
  BY <1>1, ScopeInvariant, PTL

\* Scope is left, by return or by panic, only when none of its tasks is alive,
\* unless another task of the caller's thread has panicked into the wait.
THEOREM ScopeWaitsForTasks == Spec => []ScopeWaits
<1>1. Init => Undisturbed
  BY DEF Init, Undisturbed, Owned, Over, PanickedEmpty
<1>2. IInv /\ Undisturbed => ScopeWaits
  <2> SUFFICES ASSUME IInv, Owned, PanickedEmpty, Left
               PROVE  \A k \in Tasks : Over(k)
    BY DEF ScopeWaits, DrivenToCompletion, Undisturbed
  <2>1. held[Caller] = None
    BY ScopeAssumption DEF Left, IInv, Holders, Active, Caller, Actors
  <2> QED
    BY <2>1, NobodyAlive DEF Left, IInv, ReturnedEmpty, PanickedEmpty
<1>3. IInv /\ Undisturbed /\ [Next]_vars => Undisturbed'
  <2> SUFFICES ASSUME IInv, Undisturbed, [Next]_vars, orphans' = {}
               PROVE  Owned' /\ PanickedEmpty'
    BY DEF Undisturbed
  <2>1. CASE LocalPanic
    BY <2>1 DEF LocalPanic, Ticking, Undisturbed, Owned, Over, Handled, PanickedEmpty
  <2>2. CASE ~LocalPanic
    <3>1. orphans' = orphans
      BY <2>2 DEF Next, vars, ScopeStep, TaskStep, FReturn, PopTask, Await, CancelNext,
         Cancelled, Spawn, PushHandle, Poll, Yield, Complete, WakeTask
    <3> QED
      BY <2>2, <3>1, NextOwned DEF Undisturbed
  <2> QED
    BY <2>1, <2>2
<1> QED
  BY <1>1, <1>2, <1>3, ScopeInvariant, PTL DEF Spec
=============================================================================
