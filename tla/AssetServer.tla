---------------------------- MODULE AssetServer ----------------------------
(***************************************************************************)
(* The registry of the asset server (zlim-asset, src/server): assets are   *)
(* requested by path, loaded by tasks of the IO pool, and dropped when the *)
(* last strong handle goes.  Tasks and handles only push events; the jobs  *)
(* HandleAssetSeverEvents and HandleAssetDropEvents apply them, so every   *)
(* event may be late: the asset may have been requested again, or removed, *)
(* when it is applied.                                                     *)
(*                                                                         *)
(* Data.  An asset is a path and the number of its entry: an entry that is *)
(* removed is never used again.  There is one asset type, without labels.  *)
(* The value of an asset keeps the handles of its dependencies.  What is   *)
(* alive is derived from who holds a handle; the drop of the last handle   *)
(* of an entry is an event that waits in drops.  The lock of AssetInfos is *)
(* held by a job for a whole drain, by everyone else for one step.         *)
(* Reloads, folders and saves are left out.                                *)
(***************************************************************************)
EXTENDS Integers, Sequences, FiniteSets

CONSTANTS
    Paths,        \* the paths that can be requested
    Asked,        \* those the application requests itself
    Deps,         \* what the loader of a path requests
    Waiters,      \* tasks that wait for an asset
    MaxEntries,   \* bound: entries of a path
    MaxRequests,  \* bound: requests of the application
    App,          \* the application, as one that requests
    None          \* no entry, no value

Ids == UNION {{p} \X (1 .. MaxEntries[p]) : p \in Paths}

LoadStates == {"loading", "loaded", "failed"}
EntryType ==
    [load : LoadStates, dep : LoadStates, rec : LoadStates,
     loading : SUBSET Ids, failed : SUBSET Ids, rloading : SUBSET Ids, rfailed : SUBSET Ids,
     wl : SUBSET Ids, wr : SUBSET Ids, skip : Nat, wait : SUBSET Waiters]

ASSUME ServerAssumption ==
    /\ IsFiniteSet(Paths) /\ Asked \subseteq Paths /\ Deps \in [Paths -> SUBSET Paths]
    /\ MaxEntries \in [Paths -> Nat] /\ MaxRequests \in Nat

\* None is no asset, no entry and no value.
ASSUME NoneAssumption == None \notin Ids \cup EntryType /\ \A S \in SUBSET Ids : S # None

\* Assets that depend on one another never become fully loaded.
ASSUME DepsAcyclic ==
    \E rank \in [Paths -> 1 .. Cardinality(Paths)] :
        \A p \in Paths : \A q \in Deps[p] : rank[q] < rank[p]

VARIABLES
    info,     \* infos: the entries
    index,    \* path_to_index: the entry of a path
    lock,     \* the lock of infos: "free", or the job that has it
    work,     \* what the job has still to propagate
    queue,    \* events of the server
    drops,    \* drop events, by entry
    value,    \* Assets: the dependencies the stored value holds handles of
    app,      \* entries the application holds a handle of
    task,     \* the load tasks, at most one of an entry
    pending,  \* pending_tasks: the entries whose task is in it
    insert,   \* the inserts into pending_tasks under way, by requester
    lost,     \* history: entries whose load an insert cancelled
    waiter,   \* the tasks in wait_for_asset
    requests  \* how many requests the application made

loads == <<pending, insert, lost>>
vars == <<info, index, lock, work, queue, drops, value, app, task, loads, waiter, requests>>

-----------------------------------------------------------------------------
Entry == [load |-> "loading", dep |-> "loading", rec |-> "loading",
          loading |-> {}, failed |-> {},     \* direct dependencies
          rloading |-> {}, rfailed |-> {},   \* the same, for the recursive state
          wl |-> {},                         \* dependents_waiting_on_load
          wr |-> {},                         \* dependents_waiting_on_recursive_dep_load
          skip |-> 0,                        \* handle_drops_to_skip
          wait |-> {}]                       \* waiting_tasks
NoTask == [pc |-> "none", todo |-> {}, got |-> {}]
NoInsert == [id |-> None, old |-> FALSE]  \* old: of a task that is over
Requesters == Ids \cup {App}

Init ==
    /\ info = [i \in Ids |-> None] /\ index = [p \in Paths |-> 0]
    /\ lock = "free" /\ work = {} /\ queue = <<>>
    /\ drops = [i \in Ids |-> 0] /\ value = [i \in Ids |-> None]
    /\ app = {} /\ task = [i \in Ids |-> NoTask]
    /\ pending = {} /\ insert = [r \in Requesters |-> NoInsert] /\ lost = {}
    /\ waiter = [w \in Waiters |-> [st |-> "idle", id |-> None]] /\ requests = 0

\* A strong handle of i exists: weak_handle can be upgraded.
Alive(i) ==
    \/ i \in app
    \/ task[i].pc = "meta"
    \/ \E t \in Ids : i \in task[t].got
    \/ \E n \in DOMAIN queue : i \in queue[n].deps
    \/ \E v \in Ids : value[v] # None /\ i \in value[v]
    \/ \E w \in Waiters : waiter[w].id = i
    \/ \E r \in Requesters : insert[r].id = i

\* StrongHandle::drop, for every handle the step drops.
DropHandles ==
    drops' = [i \in Ids |-> drops[i] + IF Alive(i) /\ ~Alive(i)' THEN 1 ELSE 0]

Event(k, i, deps) == [k |-> k, id |-> i, deps |-> deps]
Wake(S) == [w \in Waiters |-> IF w \in S THEN [waiter[w] EXCEPT !.st = "poll"] ELSE waiter[w]]

-----------------------------------------------------------------------------
(***************************************************************************)
(* Requests.                                                               *)
(***************************************************************************)

\* The entry a request for p gets, a new one if there is none.
Target(p) ==
    IF index[p] # 0 /\ info[<<p, index[p]>>] # None THEN <<p, index[p]>>
    ELSE <<p, index[p] + 1>>

\* Bound: the entries of p are not used up.
Room(p) == Target(p) \in Ids

\* Mutant of GetOrAlloc: a handle is made again, and the drop under way not skipped.
GetOrAllocNoSkip(p) ==
    LET i == Target(p)
        new == info[i] = None
        load == new \/ info[i].load = "failed"
        again == [info[i] EXCEPT !.load = IF load THEN "loading" ELSE @,
                                 !.dep = IF load THEN "loading" ELSE @,
                                 !.rec = IF load THEN "loading" ELSE @]
    IN
    /\ lock = "free"
    /\ index' = [index EXCEPT ![p] = i[2]]
    /\ info' = [info EXCEPT ![i] = IF new THEN Entry ELSE again]

\* Mutant of GetOrAlloc: every request skips a drop.
GetOrAllocSkipsMore(p) ==
    LET i == Target(p)
        new == info[i] = None
        load == new \/ info[i].load = "failed"
        again == [info[i] EXCEPT !.skip = @ + 1,
                                 !.load = IF load THEN "loading" ELSE @,
                                 !.dep = IF load THEN "loading" ELSE @,
                                 !.rec = IF load THEN "loading" ELSE @]
    IN
    /\ lock = "free"
    /\ index' = [index EXCEPT ![p] = i[2]]
    /\ info' = [info EXCEPT ![i] = IF new THEN Entry ELSE again]

\* AssetInfos::get_or_alloc_internal, with HandleLoadingMode::Request.
GetOrAlloc(p) ==
    LET i == Target(p)
        new == info[i] = None
        load == new \/ info[i].load = "failed"
        again == [info[i] EXCEPT !.skip = IF Alive(i) THEN @ ELSE @ + 1,
                                 !.load = IF load THEN "loading" ELSE @,
                                 !.dep = IF load THEN "loading" ELSE @,
                                 !.rec = IF load THEN "loading" ELSE @]
    IN
    /\ lock = "free"
    /\ index' = [index EXCEPT ![p] = i[2]]
    /\ info' = [info EXCEPT ![i] = IF new THEN Entry ELSE again]

ShouldLoad(i) == info[i] = None \/ info[i].load = "failed"

\* spawn_load_task, if the entry is to be loaded: the task exists, and can run,
\* before it is inserted into pending_tasks.
Spawned(i) ==
    IF ShouldLoad(i) THEN [task EXCEPT ![i] = [NoTask EXCEPT !.pc = "meta"]] ELSE task
Spawn(r, i) ==
    /\ insert[r] = NoInsert
    /\ IF ShouldLoad(i)
       THEN /\ insert' = [s \in Requesters |->
                  IF s = r THEN [id |-> i, old |-> FALSE]
                  ELSE [insert[s] EXCEPT !.old = @ \/ insert[s].id = i]]
            /\ pending' = pending \ {i}
       ELSE UNCHANGED <<insert, pending>>

\* A task that is dropped is cancelled, unless it is inside a poll.
Dropped(i) ==
    {task} \cup IF insert[i] = NoInsert THEN {[task EXCEPT ![i] = NoTask]} ELSE {}

\* The rest of spawn_load_task.  What is replaced is dropped.
Insert(r) ==
    LET i == insert[r].id
        replaces == insert[r].old /\ i \in pending
    IN
    /\ insert[r] # NoInsert /\ lock = "free"
    /\ insert' = [insert EXCEPT ![r] = NoInsert]
    /\ pending' = IF insert[r].old THEN pending \ {i} ELSE pending \cup {i}
    /\ task' \in IF replaces THEN Dropped(i) ELSE {task}
    /\ lost' = IF task' # task THEN lost \cup {i} ELSE lost
    /\ UNCHANGED <<info, index, lock, work, queue, value, app, waiter, requests>>
    /\ DropHandles

\* load_erased_asset_impl, for the application.
Load(p) ==
    /\ requests < MaxRequests /\ requests' = requests + 1
    /\ Room(p) /\ GetOrAlloc(p) /\ Spawn(App, Target(p))
    /\ app' = app \cup {Target(p)}
    /\ task' = Spawned(Target(p))
    /\ UNCHANGED <<lock, work, queue, drops, value, lost, waiter>>

\* The application drops its handles of i.
Drop(i) ==
    /\ i \in app /\ app' = app \ {i}
    /\ UNCHANGED <<info, index, lock, work, queue, value, task, waiter, loads, requests>>
    /\ DropHandles

-----------------------------------------------------------------------------
(***************************************************************************)
(* A load task: load_internal.                                             *)
(***************************************************************************)

\* Meta, loader and reader are found, and the input handle is dropped.
FindLoader(i) ==
    /\ task[i].pc = "meta"
    /\ task' = [task EXCEPT ![i] = [@ EXCEPT !.pc = "load", !.todo = Deps[i[1]]]]
    /\ UNCHANGED <<info, index, lock, work, queue, value, app, waiter, loads, requests>>
    /\ DropHandles

\* The loader requests a dependency, and keeps its handle.
LoadDep(i, q) ==
    /\ task[i].pc = "load" /\ q \in task[i].todo
    /\ Room(q) /\ GetOrAlloc(q) /\ Spawn(i, Target(q))
    /\ task' = [Spawned(Target(q)) EXCEPT
                   ![i] = [task[i] EXCEPT !.todo = @ \ {q}, !.got = @ \cup {Target(q)}]]
    /\ UNCHANGED <<lock, work, queue, drops, value, app, lost, waiter, requests>>

\* The loader is done: the value goes into the event.
SendLoaded(i) ==
    /\ task[i].pc = "load" /\ task[i].todo = {} /\ insert[i] = NoInsert
    /\ queue' = Append(queue, Event("loaded", i, task[i].got))
    /\ task' = [task EXCEPT ![i] = NoTask]
    /\ UNCHANGED <<info, index, lock, work, drops, value, app, waiter, loads, requests>>

\* No loader, a loader that fails or panics.
SendFailed(i) ==
    /\ task[i].pc # "none" /\ insert[i] = NoInsert
    /\ queue' = Append(queue, Event("failed", i, {}))
    /\ task' = [task EXCEPT ![i] = NoTask]
    /\ UNCHANGED <<info, index, lock, work, value, app, waiter, loads, requests>>
    /\ DropHandles

-----------------------------------------------------------------------------
(***************************************************************************)
(* The job HandleAssetSeverEvents.                                         *)
(***************************************************************************)

State(loading, failed) ==
    IF failed # {} THEN "failed" ELSE IF loading # {} THEN "loading" ELSE "loaded"

\* Mutant of Waiting: nobody is told when the dependency is loaded.
WaitingNowhere(i, d, deps) == info[d].wr

\* process_asset_load: who waits for the recursive state of d, now that i is loaded.
Waiting(i, d, deps) ==
    IF d \in deps /\ info[d].rec = "loading" THEN info[d].wr \cup {i} ELSE info[d].wr

\* AssetInfos::process_asset_load.
ApplyLoaded(i, deps) ==
    LET known == {d \in deps : info[d] # None}
        lload == {d \in deps : d \in known => info[d].load = "loading"}
        fload == {d \in known : info[d].load = "failed"}
        lrec == {d \in deps : d \in known => info[d].rec = "loading"}
        frec == {d \in known : info[d].rec = "failed"}
        rec == State(lrec, frec)
        me == info[i]
    IN
    /\ info[i] # None
    /\ value' = [value EXCEPT ![i] = deps]
    /\ info' = [x \in Ids |->
          IF info[x] = None THEN None
          ELSE IF x = i
          THEN [me EXCEPT !.load = "loaded", !.dep = State(lload, fload), !.rec = rec,
                          !.loading = lload, !.failed = fload,
                          !.rloading = lrec, !.rfailed = frec,
                          !.wl = {}, !.wr = IF rec = "loading" THEN @ ELSE {},
                          !.wait = IF rec = "failed" THEN {} ELSE @]
          ELSE LET left == info[x].loading \ {i} IN
               [info[x] EXCEPT
                  !.wl = IF x \in lload THEN @ \cup {i} ELSE @,
                  !.wr = Waiting(i, x, deps),
                  !.loading = IF x \in me.wl THEN left ELSE @,
                  !.dep = IF x \in me.wl /\ left = {} /\ @ # "failed" THEN "loaded" ELSE @]]
    /\ waiter' = Wake(IF rec = "failed" THEN me.wait ELSE {})
    /\ work' = IF rec = "loading" THEN {} ELSE {<<rec, i, x>> : x \in me.wr}
    /\ queue' = IF rec = "loaded" THEN Append(Tail(queue), Event("fully", i, {})) ELSE Tail(queue)

\* AssetInfos::process_asset_fail.
ApplyFailed(i) ==
    LET me == info[i] IN
    /\ info[i] # None
    /\ info' = [x \in Ids |->
          IF info[x] = None THEN None
          ELSE IF x = i
          THEN [me EXCEPT !.load = "failed", !.dep = "failed", !.rec = "failed",
                          !.wl = {}, !.wr = {}, !.wait = {}]
          ELSE IF x \in me.wl
          THEN [info[x] EXCEPT !.loading = @ \ {i}, !.failed = @ \cup {i}, !.dep = "failed"]
          ELSE info[x]]
    /\ waiter' = Wake(me.wait)
    /\ work' = {<<"failed", i, x>> : x \in me.wr}
    /\ queue' = Tail(queue)
    /\ UNCHANGED value

\* The FullyLoaded event wakes who waits for the asset.
ApplyFullyLoaded(i) ==
    /\ info[i] # None
    /\ info' = [info EXCEPT ![i].wait = {}]
    /\ waiter' = Wake(info[i].wait)
    /\ queue' = Tail(queue)
    /\ UNCHANGED <<value, work>>

\* The entry has been removed since.
Ignore(i) ==
    /\ info[i] = None
    /\ queue' = Tail(queue)
    /\ UNCHANGED <<info, value, waiter, work>>

\* One event, under the lock.
ApplyEvent ==
    /\ lock \in {"free", "events"} /\ work = {} /\ queue # <<>>
    /\ lock' = "events"
    /\ LET e == Head(queue) IN
       \/ e.k = "loaded" /\ ApplyLoaded(e.id, e.deps)
       \/ e.k = "failed" /\ ApplyFailed(e.id)
       \/ e.k = "fully" /\ ApplyFullyLoaded(e.id)
       \/ Ignore(e.id)
    /\ UNCHANGED <<index, app, task, loads, requests>>
    /\ DropHandles

\* Mutant of PropagateFailed: the waiting tasks are not woken.
PropagateFailedQuietly(i, x) ==
    /\ info' = [info EXCEPT ![x] = [info[x] EXCEPT
                      !.rloading = @ \ {i}, !.rfailed = @ \cup {i}, !.rec = "failed", !.wr = {}]]
    /\ work' = (work \ {<<"failed", i, x>>}) \cup {<<"failed", x, y>> : y \in info[x].wr}
    /\ UNCHANGED <<waiter, queue>>

\* propagate_failed_state, one level.
PropagateFailed(i, x) ==
    /\ info' = [info EXCEPT ![x] = [info[x] EXCEPT
                      !.rloading = @ \ {i}, !.rfailed = @ \cup {i}, !.rec = "failed", !.wr = {}, !.wait = {}]]
    /\ work' = (work \ {<<"failed", i, x>>}) \cup {<<"failed", x, y>> : y \in info[x].wr}
    /\ waiter' = Wake(info[x].wait)
    /\ UNCHANGED queue

\* Mutant of PropagateLoaded: the dependencies that failed are forgotten.
PropagateLoadedBlind(i, x) ==
    LET left == info[x].rloading \ {i}
        all == left = {}
    IN
    /\ info' = [info EXCEPT ![x] = [info[x] EXCEPT
                      !.rloading = left, !.rec = IF all THEN "loaded" ELSE @,
                      !.wr = IF all THEN {} ELSE @]]
    /\ work' = (work \ {<<"loaded", i, x>>})
                  \cup IF all THEN {<<"loaded", x, y>> : y \in info[x].wr} ELSE {}
    /\ queue' = IF all /\ info[x].load = "loaded" THEN Append(queue, Event("fully", x, {}))
                ELSE queue
    /\ UNCHANGED waiter

\* propagate_loaded_state, one level.
PropagateLoaded(i, x) ==
    LET left == info[x].rloading \ {i}
        all == left = {} /\ info[x].rfailed = {}
    IN
    /\ info' = [info EXCEPT ![x] = [info[x] EXCEPT
                      !.rloading = left, !.rec = IF all THEN "loaded" ELSE @,
                      !.wr = IF all THEN {} ELSE @]]
    /\ work' = (work \ {<<"loaded", i, x>>})
                  \cup IF all THEN {<<"loaded", x, y>> : y \in info[x].wr} ELSE {}
    /\ queue' = IF all /\ info[x].load = "loaded" THEN Append(queue, Event("fully", x, {}))
                ELSE queue
    /\ UNCHANGED waiter

Propagate(k, i, x) ==
    /\ <<k, i, x>> \in work
    /\ \/ k = "loaded" /\ info[x] # None /\ PropagateLoaded(i, x)
       \/ k = "failed" /\ info[x] # None /\ PropagateFailed(i, x)
       \/ info[x] = None /\ work' = work \ {<<k, i, x>>} /\ UNCHANGED <<info, queue, waiter>>
    /\ UNCHANGED <<index, lock, drops, value, app, task, loads, requests>>

\* The queue is empty.
EndEvents ==
    /\ lock = "events" /\ work = {} /\ queue = <<>>
    /\ lock' = "free"
    /\ UNCHANGED <<info, index, work, queue, drops, value, app, task, loads, waiter, requests>>

-----------------------------------------------------------------------------
(***************************************************************************)
(* The job HandleAssetDropEvents: process_handle_drop for one event.       *)
(***************************************************************************)
\* Mutant of ApplyDrop: a drop is skipped although none is to be skipped.
ApplyDropSkips(i) ==
    /\ lock \in {"free", "drops"} /\ drops[i] > 0
    /\ lock' = "drops"
    /\ info' = IF info[i] = None THEN info ELSE [info EXCEPT ![i].skip = @ - 1]
    /\ drops' = [drops EXCEPT ![i] = @ - 1]
    /\ UNCHANGED <<index, work, queue, value, app, task, loads, waiter, requests>>

\* AssetInfos::process_handle_drop.  Events of different entries are taken in any order.
ApplyDrop(i) ==
    /\ lock \in {"free", "drops"} /\ drops[i] > 0
    /\ lock' = "drops"
    /\ IF info[i] # None /\ info[i].skip = 0
       THEN \* the entry goes, with its value; its task is cancelled, if it is not running
            /\ info' = [info EXCEPT ![i] = None]
            /\ value' = [value EXCEPT ![i] = None]
            /\ task' \in IF i \in pending THEN Dropped(i) ELSE {task}
            /\ pending' = pending \ {i}
       ELSE /\ info' = IF info[i] = None THEN info ELSE [info EXCEPT ![i].skip = @ - 1]
            /\ UNCHANGED <<value, task, pending>>
    /\ UNCHANGED <<index, work, queue, app, insert, lost, waiter, requests>>
    /\ drops' = [x \in Ids |-> drops[x] + (IF Alive(x) /\ ~Alive(x)' THEN 1 ELSE 0)
                                        - (IF x = i THEN 1 ELSE 0)]

EndDrops ==
    /\ lock = "drops" /\ \A i \in Ids : drops[i] = 0
    /\ lock' = "free"
    /\ UNCHANGED <<info, index, work, queue, drops, value, app, task, loads, waiter, requests>>

-----------------------------------------------------------------------------
(***************************************************************************)
(* Waiting: wait_for_asset, which borrows a handle.                        *)
(***************************************************************************)
Wait(w, i) ==
    /\ waiter[w].st = "idle" /\ i \in app
    /\ waiter' = [waiter EXCEPT ![w] = [st |-> "poll", id |-> i]]
    /\ UNCHANGED <<info, index, lock, work, queue, drops, value, app, task, loads, requests>>

IsLoading(i) == info[i].load = "loading" \/ info[i].rec = "loading"

\* wait_for_asset_id_poll_fn: the second look, under the write lock, is the one modelled.
Poll(w) ==
    LET i == waiter[w].id IN
    /\ waiter[w].st = "poll" /\ lock = "free"
    /\ \/ /\ info[i] # None /\ IsLoading(i)
          /\ info' = [info EXCEPT ![i].wait = @ \cup {w}]
          /\ waiter' = [waiter EXCEPT ![w].st = "parked"]
       \/ /\ info[i] = None \/ ~IsLoading(i)
          /\ waiter' = [waiter EXCEPT ![w] = [st |-> "done", id |-> None]]
          /\ UNCHANGED info
    /\ UNCHANGED <<index, lock, work, queue, value, app, task, loads, requests>>
    /\ DropHandles

-----------------------------------------------------------------------------
\* What the tasks and the jobs do by themselves.
Work ==
    \/ ApplyEvent \/ EndEvents \/ EndDrops
    \/ \E t \in work : Propagate(t[1], t[2], t[3])
    \/ \E w \in Waiters : Poll(w)
    \/ \E r \in Requesters : Insert(r)
    \/ \E i \in Ids :
          \/ ApplyDrop(i) \/ FindLoader(i) \/ SendLoaded(i) \/ SendFailed(i)
          \/ \E q \in Paths : LoadDep(i, q)

Next ==
    \/ Work
    \/ \E p \in Asked : Load(p)
    \/ \E i \in Ids : Drop(i) \/ \E w \in Waiters : Wait(w, i)

Spec == Init /\ [][Next]_vars

\* The pool and the schedule run something as long as something can run.
FairSpec == Spec /\ WF_vars(Work)

-----------------------------------------------------------------------------
(***************************************************************************)
(* Properties.                                                             *)
(***************************************************************************)
\* The types, and what locks and threads make sure of: only the job that has
\* the lock propagates, and no count of drops (handle_drops_to_skip is a usize)
\* goes below zero.
TypeOK ==
    /\ \A i \in Ids : info[i] = None \/ info[i] \in EntryType
    /\ \A p \in Paths : index[p] \in 0 .. MaxEntries[p]
    /\ lock \in {"free", "events", "drops"} /\ (work # {} => lock = "events")
    /\ work \subseteq {"loaded", "failed"} \X Ids \X Ids
    /\ \A n \in DOMAIN queue :
          queue[n] \in [k : {"loaded", "failed", "fully"}, id : Ids, deps : SUBSET Ids]
    /\ drops \in [Ids -> Nat]
    /\ \A i \in Ids : value[i] = None \/ value[i] \subseteq Ids
    /\ app \subseteq Ids
    /\ task \in [Ids -> [pc : {"none", "meta", "load"}, todo : SUBSET Paths, got : SUBSET Ids]]
    /\ \A w \in Waiters : /\ waiter[w].st \in {"idle", "poll", "parked", "done"}
                          /\ waiter[w].id \in Ids \cup {None}
    /\ pending \subseteq Ids /\ lost \subseteq Ids
    /\ insert \in [Requesters -> [id : Ids \cup {None}, old : BOOLEAN]]
    /\ requests \in 0 .. MaxRequests

\* An asset somebody holds a strong handle of is never removed from the
\* registry, whatever drop events of earlier handles of it are still queued:
\* get_or_alloc_internal makes process_handle_drop skip one for every handle
\* it makes again.
HandleKeepsEntry == \A i \in Ids : Alive(i) => info[i] # None

\* An asset nobody holds a handle of has a drop event under way that will not
\* be skipped: unless it is requested again, it is removed.
DropIsComing ==
    \A i \in Ids : info[i] # None /\ ~Alive(i) => drops[i] > info[i].skip

\* Between events the reverse index agrees with the forward one: whatever a
\* loaded asset waits for is still known, still loading, and will tell it.
WaitsForLoading ==
    work = {} =>
      \A i \in Ids : info[i] # None /\ info[i].load = "loaded" =>
        \A d \in info[i].rloading :
            info[d] # None /\ info[d].rec = "loading" /\ i \in info[d].wr

\* Between events an asset is reported loaded with its dependencies only when
\* it is loaded, its value is there and every dependency of that value is
\* loaded with its own.
LoadedIsLoaded ==
    work = {} =>
      \A i \in Ids : info[i] # None /\ info[i].rec = "loaded" =>
        /\ info[i].load = "loaded" /\ value[i] # None
        /\ \A d \in value[i] : info[d] # None /\ info[d].rec = "loaded"

\* Who waits in wait_for_asset returns, whether the asset and what it depends
\* on load, fail, or fail and are requested again: every way a state becomes
\* final wakes the tasks parked on it.
\* The one exception: spawn_load_task may be so late to insert its task that it
\* replaces, and so cancels, the task of a later request for the same asset.
WaiterReturns ==
    \A w \in Waiters : (waiter[w].st = "parked") ~> (waiter[w].st = "done" \/ lost # {})
=============================================================================
