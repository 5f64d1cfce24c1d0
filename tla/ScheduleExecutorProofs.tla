----------------------- MODULE ScheduleExecutorProofs -----------------------
(***************************************************************************)
(* Why executing a schedule leaves no job behind, for any schedule without *)
(* a cycle, any number of executions and either executor, and why it keeps *)
(* what ScheduleRun promises.                                              *)
(*                                                                         *)
(* The counters of a node count the nodes before it that are still to be   *)
(* handled (strong_incoming also those that did not succeed), and a node   *)
(* is in one place at a time.  Whoever releases the scheduler leaves       *)
(* nothing ready that could run, unless there is an event or somebody who  *)
(* will look again.  When nobody is left nothing runs, so nothing is ready *)
(* and every node that still waits waits for another one: there is none.   *)
(*                                                                         *)
(* For the promise it also matters what runs together, which task holds    *)
(* the commands of a job until they are applied, and that no sync point is *)
(* handled before the jobs whose commands it stands for.                   *)
(***************************************************************************)
EXTENDS ScheduleExecutor, TLAPS, FiniteSetTheorems, WellFoundedInduction

\* A delayed release may leave an event behind, which the next execution would meet.
NothingLeft == delayed => runs = 0

Statuses == {"waiting", "running", "ok", "error", "skipped", "blocked"}

Types ==
    /\ TypeOK /\ NothingLeft
    /\ schedule = JobSchedule(ThePlan)
    /\ kind \in {"multi", "single"} /\ delayed \in BOOLEAN
    /\ status \in [ThePlan.jobs -> Statuses]

\* The nodes ordered before n, and what has become of the job of n, or of the job
\* whose commands the sync point n is to apply.
Before(n) == {m \in Jobs : n \in schedule.outgoing[m]}
StronglyBefore(n) == {m \in Jobs : n \in schedule.strong_outgoing[m]}
Ok(n) == status[n[1]] = "ok"

-----------------------------------------------------------------------------
(***************************************************************************)
(* The multi-threaded executor.                                            *)
(***************************************************************************)

\* Node n is still to be handled: it waits, is ready or spawned, or has an event.
Event(n) == \E c \in completed \cup pending : c.index = n
Open(n) == incoming[n] # 0 \/ n \in ready_systems \/ n \in running_jobs \/ Event(n)

\* The counters count.
Unhandled(n) == {m \in Before(n) : Open(m)}
Missing(n) == {m \in StronglyBefore(n) : Open(m) \/ ~Ok(m)}
Counts ==
    \A n \in Jobs : /\ incoming[n] = Cardinality(Unhandled(n))
                    /\ strong_incoming[n] = Cardinality(Missing(n))

\* One actor has the scheduler, and the scheduler's locals are empty when nobody has.
Scheduling == {"drain", "spawn"}
LockOk ==
    /\ \A t \in Actors : pc[t] \in Scheduling <=> lock = t /\ ~unlocking
    /\ unlocking => delayed /\ lock # None
    /\ pending # {} => lock # None /\ ~unlocking
    /\ todo # {} => lock # None /\ pc[lock] = "spawn"

\* A node is in one place.
PlaceOk(n) ==
    /\ incoming[n] # 0 => n \notin ready_systems /\ n \notin running_jobs /\ ~Event(n)
    /\ n \in ready_systems => n \notin running_jobs /\ ~Event(n)
    /\ n \in ready_systems \/ n \in running_jobs => strong_incoming[n] = 0
    /\ incoming[n] # 0 \/ n \in ready_systems => pc[n] = "none"
    /\ pc[n] \in {"queued", "run"} <=> n \in running_jobs /\ ~Event(n)

EventsOk ==
    /\ \A c, d \in completed \cup pending : c.index = d.index => c = d
    /\ \A c \in completed : c.index \in running_jobs /\ (c.successed <=> Ok(c.index))
    /\ \A c \in pending :
          /\ c.index \notin running_jobs
          /\ c.successed => NO_OP(ThePlan, c.index)
          /\ IsSync(c.index) => (c.successed <=> Ok(c.index))

StatusOk(j) ==
    /\ status[j] = "waiting" <=>
          \/ incoming[<<j>>] # 0 \/ <<j>> \in ready_systems \/ pc[<<j>>] = "queued"
          \/ \E c \in pending : c.index = <<j>>
    /\ status[j] = "running" <=> pc[<<j>>] = "run"

\* Where the commands of j are.
Left(j) == status[j] \in {"ok", "error"} /\ j \notin applied
CommandsOk ==
    /\ \A j \in ThePlan.deferred \ ThePlan.noop : Left(j) =>
          \/ <<j>> \in deferred_systems
          \/ \E n \in Jobs : <<j>> \in apply_deferred[n]
          \/ \E c \in completed : c.index = <<j>> /\ c.deferred
    /\ \A n \in Jobs : apply_deferred[n] # {} => pc[n] = "queued"

\* exec has returned.
ReturnedOk ==
    /\ pc[Main] \in {"none", "end"} \cup Scheduling \cup {"try", "check"}
    /\ Idle => ScopeOver /\ \A n \in deferred_systems : n[1] \in applied

\* n conflicts with what runs.
Conflicted(n) == \E m \in running_jobs : <<n, m>> \in schedule.conflict

\* Nobody leaves a system ready that could run, unless somebody will look again.
Progress ==
    /\ completed # {} => \E t \in Actors : pc[t] \in Scheduling \cup {"try", "check"}
    /\ lock = None => \/ \E t \in Actors : pc[t] = "try"
                      \/ completed # {}
                      \/ \A n \in ready_systems : Conflicted(n)
    /\ lock # None /\ pc[lock] = "spawn" =>
          /\ completed # {} \/ \A n \in ready_systems \ todo : Conflicted(n)
          /\ pending # {} => \E m \in running_jobs : EXCLUSIVE(ThePlan, m)

NodesOk ==
    /\ Counts /\ EventsOk /\ CommandsOk
    /\ \A n \in Jobs : PlaceOk(n)
    /\ \A j \in ThePlan.jobs : StatusOk(j)

\* Nobody is in the middle of a step of the other executor.
NoCalls == \A n \in Jobs : pc[n] \notin {"call", "commands"}

MultiInv == NodesOk /\ LockOk /\ ReturnedOk /\ (~delayed => Progress)

-----------------------------------------------------------------------------
(***************************************************************************)
(* The single-threaded executor.                                           *)
(***************************************************************************)

Unvisited(n) == n \in todo \/ pc[n] # "none"

\* What strong_incoming counts.
Owed(n) == {m \in StronglyBefore(n) : Unvisited(m) \/ ~Ok(m)}
SingleCounts == \A n \in Jobs : strong_incoming[n] = Cardinality(Owed(n))

\* One job at a time, in the middle of the visit of its node.
CallOk(n) ==
    /\ pc[n] \in {"none", "call", "commands"}
    /\ pc[n] # "none" => /\ n \notin todo /\ ~NO_OP(ThePlan, n)
                         /\ \A m \in Jobs : pc[m] # "none" => m = n

MainOk ==
    /\ pc[Main] \in {"visit", "none", "unwound"}
    /\ pc[Main] = "none" => \A n \in Jobs : ~Unvisited(n)
    /\ pc[Main] = "unwound" => \A n \in Jobs : pc[n] = "none"

SingleStatusOk(j) ==
    /\ status[j] = "waiting" <=> <<j>> \in todo
    /\ status[j] = "running" <=> pc[<<j>>] = "call"
    /\ j \in ThePlan.deferred \ ThePlan.noop /\ status[j] \in {"ok", "error"} =>
          j \in applied \/ pc[<<j>>] = "commands" \/ pc[Main] = "unwound"

SingleInv ==
    /\ completed = {} /\ pending = {} /\ lock = None /\ ~unlocking
    /\ SingleCounts /\ MainOk
    /\ \A n \in Jobs : CallOk(n)
    /\ \A j \in ThePlan.jobs : SingleStatusOk(j)

IInv == Types /\ (kind = "multi" => MultiInv /\ NoCalls) /\ (kind = "single" => SingleInv)

-----------------------------------------------------------------------------
(***************************************************************************)
(* What the orders, the conflicts and the commands of ScheduleRun need.    *)
(***************************************************************************)

HasCommands(j) == j \in ThePlan.deferred \ ThePlan.noop /\ status[j] \in {"ok", "error"}
Ancestry(j) == Orders[plan][j].ancestry

\* What runs together may.
ApartOk == \A m, n \in running_jobs : m # n => <<m, n>> \notin schedule.conflict

\* An event of the stack is a success if no strong order is broken, and moves no commands.
StackOk ==
    /\ \A c \in pending : ~c.deferred /\ (c.successed <=> strong_incoming[c.index] = 0)
    /\ pending # {} /\ (\E t \in Actors : pc[t] = "spawn") => deferred_systems = {}

\* Commands are held in one place, from the event of their job until they are applied, ...
Holds(m) == ~IsSync(m) /\ ~Open(m) /\ HasCommands(m[1])
HeldOk ==
    /\ \A c \in completed : c.deferred => ~IsSync(c.index) /\ HasCommands(c.index[1])
    /\ \A m \in deferred_systems : Holds(m) /\ (~Idle => m[1] \notin applied)
    /\ \A n \in Jobs : \A m \in apply_deferred[n] :
          /\ Holds(m) /\ m[1] \notin applied /\ m \notin deferred_systems
          /\ EXCLUSIVE(ThePlan, n)
    /\ \A j \in applied : ~Open(<<j>>)

\* ... at the latest by the exclusive task that stands for the sync point.
Taken(n) == incoming[n] = 0 /\ n \notin ready_systems
Given(j) == j \in applied \/ \E n \in Jobs : <<j>> \in apply_deferred[n]
SeenOk ==
    \A s \in Jobs : IsSync(s) /\ Taken(s) /\ Ok(s) =>
        \A j \in Ancestry(s[1]) : HasCommands(j) => Given(j)

MultiRunOk == ApartOk /\ StackOk /\ HeldOk /\ SeenOk

\* The single-threaded executor applies commands with the job.
SingleRunOk ==
    /\ \A j \in applied : <<j>> \notin todo /\ pc[<<j>>] = "none"
    /\ \A n \in Jobs : pc[n] = "commands" => status[n[1]] \in {"ok", "error", "skipped"}

RInv == (kind = "multi" => MultiRunOk) /\ (kind = "single" => SingleRunOk)

-----------------------------------------------------------------------------
(***************************************************************************)
(* The compiled graph.                                                     *)
(***************************************************************************)

\* The nodes of a plan are its jobs, and its sync points.
LEMMA NodesOfPlan ==
    ASSUME NEW p, IsPlan(p)
    PROVE  /\ IsFiniteSet(Nodes(p))
           /\ SyncPoints(p) \subseteq p.jobs \X p.jobs
           /\ AnyOrder(p) \subseteq p.jobs \X p.jobs
           /\ \A s \in SyncPoints(p) : s = <<s[1], s[2]>> /\ s[1] \in p.jobs /\ Len(s) = 2
           /\ \A j : Len(<<j>>) = 1
           /\ \A n \in Nodes(p) : n \in SyncPoints(p) \/ \E j \in p.jobs : n = <<j>>
<1>1. StageBegins(p) \subseteq p.jobs \X p.jobs /\ StageEnds(p) \subseteq p.jobs \X p.jobs
  BY DEF IsPlan, StageBegins, StageEnds
<1>2. /\ StrongOrder(p) \subseteq p.jobs \X p.jobs /\ WeakOrder(p) \subseteq p.jobs \X p.jobs
      /\ RelaxedOrder(p) \subseteq p.jobs \X p.jobs
  BY <1>1 DEF IsPlan, StrongOrder, WeakOrder, RelaxedOrder, OnConditions
<1>3. SyncPoints(p) \subseteq p.jobs \X p.jobs /\ AnyOrder(p) \subseteq p.jobs \X p.jobs
  BY <1>1, <1>2 DEF SyncPoints, AnyOrder
<1>4. IsFiniteSet(p.jobs \X p.jobs) /\ IsFiniteSet(p.jobs)
  BY FS_Product DEF IsPlan
<1>5. IsFiniteSet(SyncPoints(p))
  BY <1>3, <1>4, FS_Subset
<1>6. IsFiniteSet({<<j>> : j \in p.jobs})
  <2> DEFINE f == [j \in p.jobs |-> <<j>>]
  <2>1. {<<j>> : j \in p.jobs} = {f[j] : j \in p.jobs}
    OBVIOUS
  <2>2. f \in Surjection(p.jobs, {<<j>> : j \in p.jobs})
    BY <2>1 DEF Surjection
  <2> QED
    BY <2>2, <1>4, FS_Surjection
<1>7. IsFiniteSet(Nodes(p))
  BY <1>5, <1>6, FS_Union DEF Nodes
<1> QED
  BY <1>3, <1>7 DEF Nodes

\* The compiled schedule as the executors use it.
Compiled ==
    /\ IsFiniteSet(Jobs)
    /\ \A j \in ThePlan.jobs : <<j>> \in Jobs /\ ~IsSync(<<j>>) /\ <<j>>[1] = j
    /\ \A n \in Jobs : n[1] \in ThePlan.jobs /\ (~IsSync(n) => n = <<n[1]>>)
    /\ \A n \in Jobs : schedule.outgoing[n] \subseteq Jobs
    /\ \A n \in Jobs : schedule.strong_outgoing[n] \subseteq schedule.outgoing[n]
    /\ \A n \in Jobs : IsSync(n) => /\ schedule.strong_outgoing[n] = {}
                                    /\ StronglyBefore(n) = {<<n[1]>>}
                                    /\ <<n[1]>> \in Before(n) /\ ~IsSync(<<n[1]>>)
    /\ schedule.incoming \in [Jobs -> Nat] /\ schedule.strong_incoming \in [Jobs -> Nat]
    /\ \A n \in Jobs : schedule.incoming[n] = Cardinality(Before(n))
    /\ \A n \in Jobs : schedule.strong_incoming[n] = Cardinality(StronglyBefore(n))
    /\ \A m, n \in Jobs : EXCLUSIVE(ThePlan, n) => <<m, n>> \in schedule.conflict
    /\ Main \notin Jobs /\ None \notin Actors /\ Main \in Actors
    /\ ThePlan.deferred \subseteq ThePlan.jobs

\* The nodes and their edges.
LEMMA CompiledGraph ==
    ASSUME plan \in DOMAIN Plans, schedule = JobSchedule(ThePlan)
    PROVE  Compiled
<1> DEFINE p == Plans[plan]
           dag == Dag(p)
           strong == StrongGraph(p)
<1>0. IsPlan(p) /\ ThePlan = p
  BY ExecutorAssumption DEF ThePlan
<1> HIDE DEF p
<1>1. /\ Jobs = Nodes(p) /\ dag.node = Nodes(p) /\ strong.node = Nodes(p)
      /\ \A n \in Jobs : /\ schedule.outgoing[n] = {m \in Nodes(p) : <<n, m>> \in dag.edge}
                         /\ schedule.strong_outgoing[n] =
                                {m \in Nodes(p) : <<n, m>> \in strong.edge}
                         /\ schedule.incoming[n] =
                                Cardinality({m \in Nodes(p) : <<m, n>> \in dag.edge})
                         /\ schedule.strong_incoming[n] =
                                Cardinality({m \in Nodes(p) : <<m, n>> \in strong.edge})
      /\ DOMAIN schedule.incoming = Jobs /\ DOMAIN schedule.strong_incoming = Jobs
      /\ schedule.incoming = [n \in Jobs |-> schedule.incoming[n]]
      /\ schedule.strong_incoming = [n \in Jobs |-> schedule.strong_incoming[n]]
      /\ schedule.conflict = {e \in Nodes(p) \X Nodes(p) : IsConflict(p, e[1], e[2])}
  BY <1>0 DEF JobSchedule, Jobs, InDegree, Successors, Predecessors, Dag, StrongGraph
<1>2. /\ IsFiniteSet(Nodes(p))
      /\ \A s \in SyncPoints(p) : s = <<s[1], s[2]>> /\ s[1] \in p.jobs /\ Len(s) = 2
      /\ SyncPoints(p) \subseteq Nodes(p)
      /\ \A j : Len(<<j>>) = 1 /\ <<j>>[1] = j
      /\ \A n \in Nodes(p) : n \in SyncPoints(p) \/ \E j \in p.jobs : n = <<j>>
      /\ \A j \in p.jobs : <<j>> \in Nodes(p)
  BY <1>0, NodesOfPlan DEF Nodes
<1>3. \A n \in Nodes(p) : /\ IsSync(n) <=> n \in SyncPoints(p)
                          /\ n[1] \in p.jobs /\ (~IsSync(n) => n = <<n[1]>>)
  BY <1>2 DEF IsSync
<1>4. /\ \A n \in Nodes(p) : Before(n) = {m \in Nodes(p) : <<m, n>> \in dag.edge}
      /\ \A n \in Nodes(p) : StronglyBefore(n) = {m \in Nodes(p) : <<m, n>> \in strong.edge}
  BY <1>1, ZenonT(40) DEF Before, StronglyBefore
<1>5. strong.edge \subseteq dag.edge
  BY DEF Dag, StrongGraph, AnyOrder, Edges
<1>6. /\ \A n \in Nodes(p) : /\ Cardinality(Before(n)) \in Nat
                             /\ Cardinality(StronglyBefore(n)) \in Nat
  <2>1. \A n \in Nodes(p) : Before(n) \in SUBSET Nodes(p) /\ StronglyBefore(n) \in SUBSET Nodes(p)
    BY <1>4
  <2> QED
    BY <2>1, <1>2, FS_Subset, FS_CardinalityType
<1>7. ASSUME NEW n \in Nodes(p), IsSync(n)
      PROVE  /\ {m \in Nodes(p) : <<n, m>> \in strong.edge} = {}
             /\ {m \in Nodes(p) : <<m, n>> \in strong.edge} = {<<n[1]>>}
  <2>1. \A e \in Edges(StrongOrder(p)) : Len(e[1]) = 1 /\ Len(e[2]) = 1
    BY <1>2 DEF Edges
  <2>2. \A e \in IntoSync(p) : e[1] = <<e[2][1]>> /\ Len(e[1]) = 1
    BY <1>2 DEF IntoSync
  <2>3. strong.edge = Edges(StrongOrder(p)) \cup IntoSync(p)
    BY DEF StrongGraph
  <2>4. <<<<n[1]>>, n>> \in strong.edge
    BY <1>3, <1>7, <2>3 DEF IntoSync
  <2>5. \A m : <<n, m>> \notin strong.edge
    BY <1>7, <2>1, <2>2, <2>3 DEF IsSync
  <2>6. \A m : <<m, n>> \in strong.edge => m = <<n[1]>>
    BY <1>7, <2>1, <2>2, <2>3 DEF IsSync
  <2>7. <<n[1]>> \in Nodes(p)
    BY <1>2, <1>3
  <2> QED
    BY <2>4, <2>5, <2>6, <2>7
<1>8. Main \notin Nodes(p) /\ None \notin Nodes(p) /\ Main # None
  <2>1. Len(Main) = 3 /\ Len(None) = 0
    BY DEF Main, None
  <2> QED
    BY <1>2, <2>1, SMTT(30)
<1>9. \A m, n \in Nodes(p) : EXCLUSIVE(p, n) => <<m, n>> \in schedule.conflict
  BY <1>1 DEF IsConflict
<1> HIDE DEF dag, strong
<1>10. \A n \in Nodes(p) : IsSync(n) => /\ schedule.strong_outgoing[n] = {}
                                        /\ StronglyBefore(n) = {<<n[1]>>}
                                        /\ <<n[1]>> \in Before(n) /\ ~IsSync(<<n[1]>>)
  <2> SUFFICES ASSUME NEW n \in Nodes(p), IsSync(n)
               PROVE  /\ schedule.strong_outgoing[n] = {}
                      /\ StronglyBefore(n) = {<<n[1]>>}
                      /\ <<n[1]>> \in Before(n) /\ ~IsSync(<<n[1]>>)
    OBVIOUS
  <2>1. schedule.strong_outgoing[n] = {} /\ StronglyBefore(n) = {<<n[1]>>}
    BY <1>1, <1>4, <1>7
  <2>2. <<n[1]>> \in Before(n)
    BY <2>1, <1>4, <1>5
  <2>3. ~IsSync(<<n[1]>>)
    BY <1>2 DEF IsSync
  <2> QED
    BY <2>1, <2>2, <2>3
<1>11. \A n \in Jobs : /\ schedule.outgoing[n] \subseteq Jobs
                       /\ schedule.strong_outgoing[n] \subseteq schedule.outgoing[n]
  BY <1>1, <1>5
<1>12. /\ schedule.incoming \in [Jobs -> Nat] /\ schedule.strong_incoming \in [Jobs -> Nat]
       /\ \A n \in Jobs : schedule.incoming[n] = Cardinality(Before(n))
       /\ \A n \in Jobs : schedule.strong_incoming[n] = Cardinality(StronglyBefore(n))
  <2>1. \A n \in Jobs : /\ schedule.incoming[n] = Cardinality(Before(n))
                        /\ schedule.strong_incoming[n] = Cardinality(StronglyBefore(n))
    BY <1>1, <1>4
  <2>2. \A n \in Jobs : schedule.incoming[n] \in Nat /\ schedule.strong_incoming[n] \in Nat
    BY <2>1, <1>1, <1>6
  <2>3. schedule.incoming \in [Jobs -> Nat]
    BY <2>2, <1>1
  <2>4. schedule.strong_incoming \in [Jobs -> Nat]
    BY <2>2, <1>1
  <2> QED
    BY <2>1, <2>3, <2>4
<1>13. \A j \in p.jobs : <<j>> \in Jobs /\ ~IsSync(<<j>>) /\ <<j>>[1] = j
  <2> SUFFICES ASSUME NEW j \in p.jobs
               PROVE  <<j>> \in Jobs /\ ~IsSync(<<j>>) /\ <<j>>[1] = j
    OBVIOUS
  <2>1. <<j>> \in Jobs
    BY <1>1, <1>2
  <2>2. Len(<<j>>) = 1
    OBVIOUS
  <2> QED
    BY <2>1, <2>2 DEF IsSync
<1>14. Main \notin Jobs /\ None \notin Actors /\ Main \in Actors
  BY <1>1, <1>8 DEF Actors
<1>15. ThePlan.deferred \subseteq ThePlan.jobs
  BY <1>0 DEF IsPlan
<1> QED
  BY <1>0, <1>1, <1>2, <1>3, <1>9, <1>10, <1>11, <1>12, <1>13, <1>14, <1>15 DEF Compiled

\* The graph has no cycle: among nodes that are not handled, one waits for none of them.
LEMMA SomeFirst ==
    ASSUME plan \in DOMAIN Plans, schedule = JobSchedule(ThePlan),
           NEW U \in SUBSET Jobs, U # {}
    PROVE  \E n \in U : Before(n) \cap U = {}
<1> DEFINE p == Plans[plan]
           dag == Dag(p)
<1>1. PICK rank \in [dag.node -> 1 .. Cardinality(dag.node)] :
          \A e \in dag.edge : rank[e[1]] < rank[e[2]]
  BY PlansSorted
<1>2. /\ Jobs = dag.node
      /\ \A m, n \in Jobs : m \in Before(n) => <<m, n>> \in dag.edge
  BY DEF JobSchedule, Jobs, Successors, Before, ThePlan, Dag
<1> HIDE DEF dag
<1>3. \A m, n \in Jobs : m \in Before(n) => rank[m] < rank[n]
  BY <1>1, <1>2
<1> DEFINE R == {ss \in Nat \X Nat : ss[1] < ss[2]}
           ranks == {rank[n] : n \in U}
<1>4. IsWellFoundedOn(R, Nat)
  BY NatLessThanWellFounded, Zenon DEF OpToRel
<1>5. ranks \in SUBSET Nat /\ ranks # {}
  BY <1>1, <1>2
<1> HIDE DEF R
<1>6. PICK r \in ranks : \A x \in ranks : ~(<<x, r>> \in R)
  BY <1>4, <1>5, WFMin, Zenon
<1>7. \A x \in ranks : ~(x < r)
  BY <1>5, <1>6 DEF R
<1>8. PICK n \in U : r = rank[n]
  OBVIOUS
<1> QED
  BY <1>3, <1>7, <1>8 DEF Before

-----------------------------------------------------------------------------
(***************************************************************************)
(* Counting.                                                               *)
(***************************************************************************)

\* What the types say, and what the graph is.
LEMMA Typed ==
    ASSUME Types
    PROVE  /\ Compiled
           /\ incoming \in [Jobs -> Nat] /\ strong_incoming \in [Jobs -> Nat]
           /\ ready_systems \subseteq Jobs /\ running_jobs \subseteq Jobs
           /\ deferred_systems \subseteq Jobs /\ todo \subseteq Jobs
           /\ \A c \in completed \cup pending :
                 c.index \in Jobs /\ c.deferred \in BOOLEAN /\ c.successed \in BOOLEAN
           /\ \A t \in Actors : t \in DOMAIN pc
           /\ \A n \in Jobs : n \in Actors
           /\ apply_deferred \in [Jobs -> SUBSET Jobs]
           /\ status \in [ThePlan.jobs -> Statuses]
<1>1. Compiled
  BY CompiledGraph DEF Types, TypeOK
<1> QED
  BY <1>1 DEF Types, TypeOK, Actors

\* Strong orders come from jobs.
LEMMA StrongJobs ==
    ASSUME Compiled, NEW n \in Jobs, NEW m \in StronglyBefore(n)
    PROVE  m \in Jobs /\ m \in Before(n) /\ ~IsSync(m) /\ m = <<m[1]>> /\ m[1] \in ThePlan.jobs
<1>1. m \in Jobs /\ n \in schedule.strong_outgoing[m]
  BY DEF StronglyBefore
<1>2. ~IsSync(m) /\ n \in schedule.outgoing[m]
  BY <1>1 DEF Compiled
<1> QED
  BY <1>1, <1>2 DEF Compiled, Before

\* A counter is zero when nothing is left to count.
LEMMA Counting ==
    ASSUME Types, Counts
    PROVE  \A n \in Jobs :
              /\ IsFiniteSet(Unhandled(n)) /\ incoming[n] = Cardinality(Unhandled(n))
              /\ IsFiniteSet(Missing(n)) /\ strong_incoming[n] = Cardinality(Missing(n))
              /\ incoming[n] = 0 <=> Unhandled(n) = {}
              /\ strong_incoming[n] = 0 <=> Missing(n) = {}
<1> SUFFICES ASSUME NEW n \in Jobs
             PROVE  /\ IsFiniteSet(Unhandled(n)) /\ incoming[n] = Cardinality(Unhandled(n))
                    /\ IsFiniteSet(Missing(n)) /\ strong_incoming[n] = Cardinality(Missing(n))
                    /\ incoming[n] = 0 <=> Unhandled(n) = {}
                    /\ strong_incoming[n] = 0 <=> Missing(n) = {}
  OBVIOUS
<1>1. IsFiniteSet(Jobs)
  BY Typed DEF Compiled
<1>2. Unhandled(n) \in SUBSET Jobs /\ Missing(n) \in SUBSET Jobs
  BY DEF Unhandled, Missing, Before, StronglyBefore
<1>3. IsFiniteSet(Unhandled(n)) /\ IsFiniteSet(Missing(n))
  BY <1>1, <1>2, FS_Subset
<1>4. incoming[n] = Cardinality(Unhandled(n)) /\ strong_incoming[n] = Cardinality(Missing(n))
  BY DEF Counts
<1> QED
  BY <1>3, <1>4, FS_EmptySet

\* The counters of a step that changes what is left to count for no node, ...
LEMMA SameCounts ==
    ASSUME Types, Counts, UNCHANGED <<plan, schedule, incoming, strong_incoming>>,
           \A n \in Jobs : Open(n)' <=> Open(n),
           \A j \in ThePlan.jobs : ~Open(<<j>>) => status'[j] = status[j]
    PROVE  Counts'
<1>1. Jobs' = Jobs /\ Compiled
  BY Typed DEF Jobs
<1> SUFFICES ASSUME NEW n \in Jobs
             PROVE  Unhandled(n)' = Unhandled(n) /\ Missing(n)' = Missing(n)
  BY <1>1 DEF Counts
<1>2. Before(n)' = Before(n) /\ StronglyBefore(n)' = StronglyBefore(n)
  BY <1>1 DEF Before, StronglyBefore
<1>3. \A m \in StronglyBefore(n) : m \in Jobs /\ ~Open(m) => (Ok(m)' <=> Ok(m))
  BY <1>1, StrongJobs DEF Ok
<1> QED
  BY <1>2, <1>3 DEF Unhandled, Missing, Before, StronglyBefore

-----------------------------------------------------------------------------
(***************************************************************************)
(* handle_completed_job.                                                   *)
(***************************************************************************)

\* An event is handled: it was popped, or is one of the stack.
Handles(c, skipping) ==
    \E others \in SUBSET pending :
        /\ c \in completed \cup pending
        /\ completed' \subseteq completed
        /\ completed' \cup others = (completed \cup pending) \ {c}
        /\ Handle(c, others, skipping)
        /\ UNCHANGED <<case, pc, apply_deferred, applied>>

\* What the handling of c does to the other nodes: those of freed have their last order
\* fulfilled, and those of New are skipped or passed.
Freed(c) == {n \in schedule.outgoing[c.index] : incoming[n] = 1}
New(c, skips, passes) ==
    {Completed(n, FALSE, FALSE) : n \in skips} \cup {Completed(n, FALSE, TRUE) : n \in passes}

HandledAs(c, skips, passes) ==
    /\ skips = {n \in Freed(c) : strong_incoming'[n] # 0}
    /\ passes \subseteq {n \in Freed(c) \ skips : NO_OP(ThePlan, n)}
    /\ running_jobs' = running_jobs \ {c.index}
    /\ deferred_systems' = deferred_systems \cup {n \in {c.index} : c.deferred}
    /\ IF c.successed THEN Unblock(c.index) ELSE UNCHANGED strong_incoming
    /\ incoming' = [n \in Jobs |-> IF n \in schedule.outgoing[c.index]
                                   THEN incoming[n] - 1 ELSE incoming[n]]
    /\ ready_systems' = ready_systems \cup (Freed(c) \ (skips \cup passes))
    /\ Settle(c)
    /\ UNCHANGED <<case, pc, apply_deferred, applied>>

\* The events after it.
EventsAfter(c, skips, passes) ==
    /\ c \in completed \cup pending
    /\ completed' \subseteq completed
    /\ completed' \cup pending' = ((completed \cup pending) \ {c}) \cup New(c, skips, passes)
    /\ \A d \in completed \ {c} : d \in completed'
    /\ pending' = (pending \ {c}) \cup New(c, skips, passes)

\* The fields of an event, and what the new ones are.
LEMMA NewEvents ==
    ASSUME NEW c, NEW skips, NEW passes
    PROVE  /\ \A n : /\ Completed(n, FALSE, FALSE).index = n
                      /\ Completed(n, FALSE, TRUE).index = n
           /\ \A n \in skips : Completed(n, FALSE, FALSE) \in New(c, skips, passes)
           /\ \A n \in passes : Completed(n, FALSE, TRUE) \in New(c, skips, passes)
           /\ \A d \in New(c, skips, passes) :
                 \/ d.index \in skips /\ d = Completed(d.index, FALSE, FALSE) /\ d.successed = FALSE
                 \/ d.index \in passes /\ d = Completed(d.index, FALSE, TRUE) /\ d.successed = TRUE
<1>1. \A n : /\ Completed(n, FALSE, FALSE).index = n /\ Completed(n, FALSE, FALSE).successed = FALSE
             /\ Completed(n, FALSE, TRUE).index = n /\ Completed(n, FALSE, TRUE).successed = TRUE
  BY DEF Completed
<1>2. /\ \A n \in skips : Completed(n, FALSE, FALSE) \in New(c, skips, passes)
      /\ \A n \in passes : Completed(n, FALSE, TRUE) \in New(c, skips, passes)
  BY DEF New
<1>3. \A d \in New(c, skips, passes) :
         \/ \E n \in skips : d = Completed(n, FALSE, FALSE)
         \/ \E n \in passes : d = Completed(n, FALSE, TRUE)
  BY DEF New
<1>4. ASSUME NEW d \in New(c, skips, passes)
      PROVE  \/ d.index \in skips /\ d = Completed(d.index, FALSE, FALSE) /\ d.successed = FALSE
             \/ d.index \in passes /\ d = Completed(d.index, FALSE, TRUE) /\ d.successed = TRUE
  <2>1. CASE \E n \in skips : d = Completed(n, FALSE, FALSE)
    BY <2>1, <1>1
  <2>2. CASE \E n \in passes : d = Completed(n, FALSE, TRUE)
    BY <2>2, <1>1
  <2> QED
    BY <2>1, <2>2, <1>3
<1> QED
  BY <1>1, <1>2, <1>4

\* The parts of the handling, named.
LEMMA HandleParts ==
    ASSUME Types, NodesOk, NEW c, NEW skipping \in BOOLEAN, Handles(c, skipping)
    PROVE  \E skips, passes \in SUBSET Jobs :
              /\ HandledAs(c, skips, passes) /\ EventsAfter(c, skips, passes)
              /\ passes # {} => skipping
<1>1. PICK others \in SUBSET pending :
        /\ c \in completed \cup pending
        /\ completed' \subseteq completed
        /\ completed' \cup others = (completed \cup pending) \ {c}
        /\ Handle(c, others, skipping)
        /\ UNCHANGED <<case, pc, apply_deferred, applied>>
  BY DEF Handles
<1> DEFINE skips == {n \in Freed(c) : strong_incoming'[n] # 0}
           passes == {n \in Freed(c) \ skips : skipping /\ NO_OP(ThePlan, n)}
<1>2. c.index \in Jobs /\ Compiled
  BY <1>1, Typed
<1>3. Freed(c) \subseteq Jobs
  BY <1>2 DEF Freed, Compiled
<1>4. /\ HandledAs(c, skips, passes)
      /\ pending' = others \cup New(c, skips, passes)
  BY <1>1 DEF Handle, HandledAs, Freed, New
<1>5. completed \cap pending = {}
  BY DEF NodesOk, EventsOk
<1>6. others = pending \ {c} /\ \A d \in completed \ {c} : d \in completed'
  BY <1>1, <1>5
<1>7. EventsAfter(c, skips, passes)
  BY <1>1, <1>4, <1>6 DEF EventsAfter
<1> QED
  BY <1>3, <1>4, <1>7

\* Once its event is handled a node is closed, and nothing else is.
LEMMA HandleOpen ==
    ASSUME Types, NodesOk, NEW c, NEW skips \in SUBSET Jobs, NEW passes \in SUBSET Jobs,
           HandledAs(c, skips, passes), EventsAfter(c, skips, passes)
    PROVE  /\ c.index \in Jobs /\ incoming[c.index] = 0 /\ c.index \notin ready_systems
           /\ c.index \notin schedule.outgoing[c.index] /\ Open(c.index)
           /\ \A k \in schedule.outgoing[c.index] : incoming[k] # 0
           /\ Freed(c) \subseteq Jobs /\ skips \subseteq Freed(c) /\ passes \subseteq Freed(c)
           /\ \A k \in Freed(c) : /\ k \notin ready_systems /\ k \notin running_jobs
                                  /\ ~Event(k) /\ pc[k] = "none"
           /\ \A k \in Jobs : /\ Event(k)' <=> (Event(k) /\ k # c.index) \/ k \in skips \cup passes
                              /\ Open(k)' <=> Open(k) /\ k # c.index
           /\ Jobs' = Jobs /\ incoming' \in [Jobs -> Nat]
<1> DEFINE m == c.index
           out == schedule.outgoing[m]
<1>0. /\ Compiled /\ incoming \in [Jobs -> Nat] /\ Counts /\ EventsOk /\ m \in Jobs
      /\ \A n \in Jobs : PlaceOk(n)
      /\ c \in completed \cup pending
  BY Typed DEF NodesOk, EventsAfter
<1>1. Event(m) /\ Open(m)
  BY <1>0 DEF Event, Open
<1>2. incoming[m] = 0 /\ m \notin ready_systems
  BY <1>0, <1>1 DEF PlaceOk
<1>3. \A k \in out : k \in Jobs /\ m \in Unhandled(k)
  BY <1>0, <1>1 DEF Unhandled, Before, Compiled
<1>4. \A k \in out : incoming[k] # 0
  BY <1>0, <1>3, Counting
<1>5. m \notin out
  BY <1>2, <1>4
<1>6. Freed(c) \subseteq Jobs /\ skips \subseteq Freed(c) /\ passes \subseteq Freed(c)
  BY <1>3 DEF Freed, HandledAs
<1>7. \A k \in Freed(c) : /\ incoming[k] # 0
                          /\ k \notin ready_systems /\ k \notin running_jobs
                          /\ ~Event(k) /\ pc[k] = "none"
  <2> SUFFICES ASSUME NEW k \in Freed(c)
               PROVE  /\ incoming[k] # 0
                      /\ k \notin ready_systems /\ k \notin running_jobs
                      /\ ~Event(k) /\ pc[k] = "none"
    OBVIOUS
  <2>1. incoming[k] = 1 /\ k \in Jobs
    BY <1>6 DEF Freed
  <2> QED
    BY <1>0, <2>1 DEF PlaceOk
<1>8. \A k \in Jobs : Event(k)' <=> (Event(k) /\ k # m) \/ k \in skips \cup passes
  <2> SUFFICES ASSUME NEW k \in Jobs
               PROVE  Event(k)' <=> (Event(k) /\ k # m) \/ k \in skips \cup passes
    OBVIOUS
  <2>1. Event(k)' <=> \/ \E d \in (completed \cup pending) \ {c} : d.index = k
                      \/ \E d \in New(c, skips, passes) : d.index = k
    BY DEF Event, EventsAfter
  <2>2. (\E d \in New(c, skips, passes) : d.index = k) <=> k \in skips \cup passes
    <3>1. ASSUME k \in skips \cup passes PROVE \E d \in New(c, skips, passes) : d.index = k
      BY <3>1, NewEvents
    <3>2. ASSUME NEW d \in New(c, skips, passes), d.index = k PROVE k \in skips \cup passes
      BY <3>2, NewEvents
    <3> QED
      BY <3>1, <3>2
  <2>3. (\E d \in (completed \cup pending) \ {c} : d.index = k) <=> Event(k) /\ k # m
    BY <1>0 DEF EventsOk, Event
  <2> QED
    BY <2>1, <2>2, <2>3
<1>9. /\ Jobs' = Jobs
      /\ \A k \in Jobs : incoming'[k] = IF k \in out THEN incoming[k] - 1 ELSE incoming[k]
      /\ incoming' = [k \in Jobs |-> IF k \in out THEN incoming[k] - 1 ELSE incoming[k]]
      /\ ready_systems' = ready_systems \cup (Freed(c) \ (skips \cup passes))
      /\ running_jobs' = running_jobs \ {m}
  BY DEF HandledAs, Jobs, case
<1>10. incoming' \in [Jobs -> Nat]
  <2>1. \A k \in Jobs : incoming[k] \in Nat /\ (k \in out => incoming[k] - 1 \in Nat)
    BY <1>0, <1>4
  <2> QED
    BY <2>1, <1>9
<1>11. \A k \in Jobs : Open(k)' <=> Open(k) /\ k # m
  <2> SUFFICES ASSUME NEW k \in Jobs
               PROVE  Open(k)' <=> Open(k) /\ k # m
    OBVIOUS
  <2>0. Open(k)' <=> \/ incoming'[k] # 0 \/ k \in ready_systems' \/ k \in running_jobs'
                     \/ Event(k)'
    BY DEF Open
  <2>1. CASE k = m
    <3>1. k \notin Freed(c)
      BY <2>1, <1>5 DEF Freed
    <3> QED
      BY <2>0, <2>1, <3>1, <1>2, <1>5, <1>6, <1>8, <1>9
  <2>2. CASE k \in Freed(c)
    <3>1. k # m /\ incoming[k] # 0
      BY <2>2, <1>2, <1>7
    <3>2. k \in ready_systems' \/ Event(k)'
      BY <2>2, <1>8, <1>9
    <3> QED
      BY <2>0, <3>1, <3>2 DEF Open
  <2>3. CASE k # m /\ k \notin Freed(c)
    <3>1. incoming'[k] # 0 <=> incoming[k] # 0
      <4>1. k \in out => incoming[k] \in Nat /\ incoming[k] # 0 /\ incoming[k] # 1
        BY <2>3, <1>0, <1>4 DEF Freed
      <4> QED
        BY <4>1, <1>9
    <3>2. k \in ready_systems' <=> k \in ready_systems
      BY <2>3, <1>9
    <3>3. k \in running_jobs' <=> k \in running_jobs
      BY <2>3, <1>9
    <3>4. Event(k)' <=> Event(k)
      BY <2>3, <1>6, <1>8
    <3> QED
      BY <2>0, <2>3, <3>1, <3>2, <3>3, <3>4 DEF Open
  <2> QED
    BY <2>1, <2>2, <2>3
<1> QED
  BY <1>0, <1>1, <1>2, <1>4, <1>5, <1>6, <1>7, <1>8, <1>9, <1>10, <1>11

\* The status of its job is settled, and that of no other.
LEMMA HandleStatus ==
    ASSUME Types, NodesOk, NEW c, NEW skips \in SUBSET Jobs, NEW passes \in SUBSET Jobs,
           HandledAs(c, skips, passes), EventsAfter(c, skips, passes)
    PROVE  /\ \A j \in ThePlan.jobs : <<j>> # c.index => status'[j] = status[j]
           /\ ~IsSync(c.index) =>
                 /\ status'[c.index[1]] \in {"ok", "error", "skipped", "blocked"}
                 /\ c.index[1] \in ThePlan.jobs
                 /\ c \in pending => /\ status[c.index[1]] = "waiting"
                                    /\ status'[c.index[1]] \in {"ok", "blocked"}
                 /\ c \in completed => status'[c.index[1]] = status[c.index[1]]
           /\ IsSync(c.index) => status' = status
           /\ Ok(c.index)' <=> c.successed
           /\ status' \in [ThePlan.jobs -> Statuses]
<1> DEFINE m == c.index
           j0 == m[1]
<1>0. /\ Compiled /\ EventsOk /\ m \in Jobs /\ c.successed \in BOOLEAN
      /\ \A n \in Jobs : PlaceOk(n)
      /\ \A j \in ThePlan.jobs : StatusOk(j)
      /\ c \in completed \cup pending /\ status \in [ThePlan.jobs -> Statuses]
      /\ j0 \in ThePlan.jobs
  <2>1. c \in completed \cup pending
    BY DEF EventsAfter
  <2>2. Compiled /\ m \in Jobs /\ c.successed \in BOOLEAN /\ status \in [ThePlan.jobs -> Statuses]
    BY <2>1, Typed
  <2> QED
    BY <2>1, <2>2 DEF NodesOk, Compiled
<1>1. Settle(c)
  BY DEF HandledAs
<1>2. CASE IsSync(m)
  <2>1. status' = status
    BY <1>1, <1>2 DEF Settle
  <2>2. Ok(m) <=> c.successed
    BY <1>0, <1>2 DEF EventsOk
  <2> QED
    BY <1>0, <1>2, <2>1, <2>2 DEF Ok
<1>3. CASE ~IsSync(m)
  <2>1. m = <<j0>> /\ \A j \in ThePlan.jobs : <<j>> = m <=> j = j0
    <3>1. m = <<j0>>
      BY <1>0, <1>3 DEF Compiled
    <3>2. \A j \in ThePlan.jobs : <<j>>[1] = j
      OBVIOUS
    <3> QED
      BY <3>1, <3>2
  <2>2. Event(m) /\ incoming[m] = 0 /\ m \notin ready_systems /\ pc[m] \notin {"queued", "run"}
    <3>1. Event(m)
      BY <1>0 DEF Event
    <3> QED
      BY <1>0, <3>1 DEF PlaceOk
  <2>3. c \in pending => status[j0] = "waiting"
    BY <1>0, <2>1 DEF StatusOk
  <2>4. c \in completed => status[j0] \in {"ok", "error", "skipped", "blocked"}
    <3> SUFFICES ASSUME c \in completed
                 PROVE  status[j0] \in {"ok", "error", "skipped", "blocked"}
      OBVIOUS
    <3>1. ~\E d \in pending : d.index = m
      BY <1>0 DEF EventsOk
    <3>2. status[j0] # "waiting" /\ status[j0] # "running"
      BY <1>0, <2>1, <2>2, <3>1 DEF StatusOk
    <3> QED
      BY <1>0, <3>2 DEF Statuses
  <2>5. CASE c \in pending
    <3>1. status' = [status EXCEPT ![j0] = IF c.successed THEN "ok" ELSE "blocked"]
      BY <1>1, <1>3, <2>3, <2>5 DEF Settle
    <3>2. c \notin completed
      BY <1>0, <2>5 DEF EventsOk
    <3>3. /\ status'[j0] = IF c.successed THEN "ok" ELSE "blocked"
          /\ \A j \in ThePlan.jobs : j # j0 => status'[j] = status[j]
      BY <1>0, <3>1
    <3>4. status' \in [ThePlan.jobs -> Statuses]
      BY <1>0, <3>1 DEF Statuses
    <3> QED
      BY <1>0, <1>3, <2>1, <2>3, <2>5, <3>2, <3>3, <3>4 DEF Ok
  <2>6. CASE c \in completed
    <3>1. status' = status
      BY <1>1, <1>3, <2>4, <2>6 DEF Settle
    <3>2. Ok(m) <=> c.successed
      BY <1>0, <2>6 DEF EventsOk
    <3>3. c \notin pending
      BY <1>0, <2>6 DEF EventsOk
    <3> QED
      BY <1>0, <1>3, <2>1, <2>4, <2>6, <3>1, <3>2, <3>3 DEF Ok
  <2> QED
    BY <1>0, <2>5, <2>6
<1> QED
  BY <1>2, <1>3

\* The counters still count.
LEMMA HandleCounts ==
    ASSUME Types, NodesOk, NEW c, NEW skips \in SUBSET Jobs, NEW passes \in SUBSET Jobs,
           HandledAs(c, skips, passes), EventsAfter(c, skips, passes)
    PROVE  /\ Counts' /\ strong_incoming' \in [Jobs -> Nat]
           /\ \A k \in Jobs : strong_incoming[k] = 0 => strong_incoming'[k] = 0
           /\ \A k \in Jobs : /\ incoming'[k] = 0 <=> Unhandled(k)' = {}
                              /\ strong_incoming'[k] = 0 <=> Missing(k)' = {}
<1> DEFINE m == c.index
           out == schedule.outgoing[m]
           strong == schedule.strong_outgoing[m]
<1>0. /\ Compiled /\ Counts /\ m \in Jobs /\ c.successed \in BOOLEAN
      /\ incoming \in [Jobs -> Nat] /\ strong_incoming \in [Jobs -> Nat]
      /\ c \in completed \cup pending
  BY Typed DEF NodesOk, EventsAfter
<1>1. /\ Open(m) /\ Jobs' = Jobs /\ incoming' \in [Jobs -> Nat]
      /\ \A k \in Jobs : Open(k)' <=> Open(k) /\ k # m
  BY HandleOpen
<1>2. /\ UNCHANGED schedule
      /\ \A k \in Jobs : incoming'[k] = IF k \in out THEN incoming[k] - 1 ELSE incoming[k]
      /\ IF c.successed THEN Unblock(m) ELSE UNCHANGED strong_incoming
  BY DEF HandledAs, case
<1>3. \A k \in Jobs : Before(k)' = Before(k) /\ StronglyBefore(k)' = StronglyBefore(k)
  BY <1>1, <1>2 DEF Before, StronglyBefore
<1>4. \A k \in Jobs : /\ k \in out <=> m \in Before(k)
                      /\ k \in strong <=> m \in StronglyBefore(k)
  BY <1>0 DEF Before, StronglyBefore
<1>5. \A k \in Jobs : /\ m \in Unhandled(k) <=> k \in out
                      /\ m \in Missing(k) <=> k \in strong
                      /\ Unhandled(k)' = Unhandled(k) \ {m}
                      /\ Missing(k)' = IF c.successed THEN Missing(k) \ {m} ELSE Missing(k)
  <2> SUFFICES ASSUME NEW k \in Jobs
               PROVE  /\ m \in Unhandled(k) <=> k \in out
                      /\ m \in Missing(k) <=> k \in strong
                      /\ Unhandled(k)' = Unhandled(k) \ {m}
                      /\ Missing(k)' = IF c.successed THEN Missing(k) \ {m} ELSE Missing(k)
    OBVIOUS
  <2>1. m \in Unhandled(k) <=> k \in out
    BY <1>1, <1>4 DEF Unhandled
  <2>2. m \in Missing(k) <=> k \in strong
    BY <1>1, <1>4 DEF Missing
  <2>3. Unhandled(k)' = Unhandled(k) \ {m}
    <3>1. Before(k) \subseteq Jobs
      BY DEF Before
    <3> QED
      BY <1>1, <1>3, <3>1 DEF Unhandled
  <2>4. \A x \in StronglyBefore(k) : x # m => (Ok(x)' <=> Ok(x))
    BY <1>0, StrongJobs, HandleStatus DEF Ok
  <2>5. Ok(m)' <=> c.successed
    BY HandleStatus
  <2>6. \A x \in StronglyBefore(k) : x \in Jobs
    BY DEF StronglyBefore
  <2>7. \A x : x \in Missing(k)' <=> x \in StronglyBefore(k) /\ (Open(x)' \/ ~Ok(x)')
    BY <1>3 DEF Missing
  <2>8. \A x : x \in Missing(k) <=> x \in StronglyBefore(k) /\ (Open(x) \/ ~Ok(x))
    BY DEF Missing
  <2>9. \A x : x \in Missing(k)' <=> x \in Missing(k) /\ (x = m => ~c.successed)
    <3> TAKE x
    <3>1. CASE x \in StronglyBefore(k) /\ x # m
      BY <1>1, <2>4, <2>6, <2>7, <2>8, <3>1
    <3>2. CASE x = m
      <4>1. m \in Missing(k)' <=> m \in StronglyBefore(k) /\ ~Ok(m)'
        BY <1>0, <1>1, <2>7
      <4>2. m \in Missing(k) <=> m \in StronglyBefore(k)
        BY <1>1, <2>8
      <4> QED
        BY <2>5, <3>2, <4>1, <4>2
    <3>3. CASE x \notin StronglyBefore(k)
      BY <2>7, <2>8, <3>3
    <3> QED
      BY <3>1, <3>2, <3>3
  <2>10. Missing(k)' = IF c.successed THEN Missing(k) \ {m} ELSE Missing(k)
    BY <1>0, <2>9
  <2> QED
    BY <2>1, <2>2, <2>3, <2>10
<1>6. \A k \in Jobs : /\ incoming'[k] = Cardinality(Unhandled(k)')
                      /\ IsFiniteSet(Unhandled(k)')
  <2> SUFFICES ASSUME NEW k \in Jobs
               PROVE  incoming'[k] = Cardinality(Unhandled(k)') /\ IsFiniteSet(Unhandled(k)')
    OBVIOUS
  <2>1. IsFiniteSet(Unhandled(k)) /\ incoming[k] = Cardinality(Unhandled(k))
    BY <1>0, Counting
  <2>2. /\ IsFiniteSet(Unhandled(k) \ {m})
        /\ Cardinality(Unhandled(k) \ {m}) =
               IF m \in Unhandled(k) THEN Cardinality(Unhandled(k)) - 1 ELSE Cardinality(Unhandled(k))
    BY <2>1, FS_RemoveElement
  <2> QED
    BY <1>2, <1>5, <2>1, <2>2
<1>7. \A k \in Jobs : strong_incoming'[k] = IF c.successed /\ k \in strong
                                            THEN strong_incoming[k] - 1 ELSE strong_incoming[k]
  BY <1>0, <1>2 DEF Unblock
<1>8. \A k \in Jobs : /\ strong_incoming'[k] = Cardinality(Missing(k)')
                      /\ IsFiniteSet(Missing(k)')
  <2> SUFFICES ASSUME NEW k \in Jobs
               PROVE  strong_incoming'[k] = Cardinality(Missing(k)') /\ IsFiniteSet(Missing(k)')
    OBVIOUS
  <2>1. IsFiniteSet(Missing(k)) /\ strong_incoming[k] = Cardinality(Missing(k))
    BY <1>0, Counting
  <2>2. /\ IsFiniteSet(Missing(k) \ {m})
        /\ Cardinality(Missing(k) \ {m}) =
               IF m \in Missing(k) THEN Cardinality(Missing(k)) - 1 ELSE Cardinality(Missing(k))
    BY <2>1, FS_RemoveElement
  <2> QED
    BY <1>0, <1>5, <1>7, <2>1, <2>2
<1>9. strong_incoming' \in [Jobs -> Nat]
  <2>1. \A k \in Jobs : strong_incoming'[k] \in Nat
    BY <1>8, FS_CardinalityType
  <2>2. strong_incoming' = [k \in Jobs |-> strong_incoming'[k]]
    BY <1>0, <1>2 DEF Unblock
  <2> QED
    BY <2>1, <2>2
<1>10. \A k \in Jobs : strong_incoming[k] = 0 => strong_incoming'[k] = 0
  <2> SUFFICES ASSUME NEW k \in Jobs, strong_incoming[k] = 0
               PROVE  strong_incoming'[k] = 0
    OBVIOUS
  <2>1. Missing(k) = {}
    BY <1>0, Counting
  <2>2. k \notin strong
    BY <2>1, <1>5
  <2> QED
    BY <2>2, <1>7
<1>11. Counts'
  BY <1>1, <1>6, <1>8 DEF Counts
<1>12. \A k \in Jobs : /\ incoming'[k] = 0 <=> Unhandled(k)' = {}
                       /\ strong_incoming'[k] = 0 <=> Missing(k)' = {}
  BY <1>6, <1>8, FS_EmptySet
<1> QED
  BY <1>9, <1>10, <1>11, <1>12


\* A node is still in one place.
LEMMA HandlePlaces ==
    ASSUME Types, NodesOk, NEW c, NEW skips \in SUBSET Jobs, NEW passes \in SUBSET Jobs,
           HandledAs(c, skips, passes), EventsAfter(c, skips, passes)
    PROVE  \A n \in Jobs : PlaceOk(n)'
<1> DEFINE m == c.index
<1>1. /\ incoming \in [Jobs -> Nat] /\ m \in Jobs /\ \A n \in Jobs : PlaceOk(n)
      /\ Event(m) /\ c \in completed \cup pending
  <2>1. c \in completed \cup pending
    BY DEF EventsAfter
  <2> QED
    BY <2>1, Typed DEF NodesOk, Event
<1>2. /\ incoming[m] = 0 /\ m \notin ready_systems /\ m \notin schedule.outgoing[m]
      /\ \A k \in schedule.outgoing[m] : incoming[k] # 0
      /\ skips \subseteq Freed(c) /\ passes \subseteq Freed(c)
      /\ \A k \in Freed(c) : /\ k \notin ready_systems /\ k \notin running_jobs
                             /\ ~Event(k) /\ pc[k] = "none"
      /\ \A k \in Jobs : Event(k)' <=> (Event(k) /\ k # m) \/ k \in skips \cup passes
  BY HandleOpen
<1>3. \A k \in Jobs : strong_incoming[k] = 0 => strong_incoming'[k] = 0
  BY HandleCounts
<1>4. /\ skips = {n \in Freed(c) : strong_incoming'[n] # 0}
      /\ \A k \in Jobs : incoming'[k] = IF k \in schedule.outgoing[m]
                                        THEN incoming[k] - 1 ELSE incoming[k]
      /\ ready_systems' = ready_systems \cup (Freed(c) \ (skips \cup passes))
      /\ running_jobs' = running_jobs \ {m}
      /\ pc' = pc
  BY DEF HandledAs
<1> SUFFICES ASSUME NEW n \in Jobs
             PROVE  PlaceOk(n)'
  OBVIOUS
<1>5. n \in Freed(c) => incoming'[n] = 0
  BY <1>4 DEF Freed
<1>6. n \notin Freed(c) => (incoming'[n] # 0 <=> incoming[n] # 0)
  <2>1. n \in schedule.outgoing[m] /\ n \notin Freed(c) =>
          incoming[n] # 0 /\ incoming[n] # 1 /\ incoming[n] \in Nat
    BY <1>1, <1>2 DEF Freed
  <2> QED
    BY <1>4, <2>1
<1>7. PlaceOk(n)
  BY <1>1
<1>8. CASE n \in Freed(c)
  <2>1. n # m
    BY <1>1, <1>2, <1>8
  <2>2. n \notin running_jobs' /\ n \notin ready_systems /\ pc'[n] = "none"
    BY <1>2, <1>4, <1>8
  <2>3. Event(n)' <=> n \in skips \cup passes
    BY <1>2, <1>8
  <2>4. n \in ready_systems' <=> n \notin skips \cup passes
    BY <1>4, <1>8, <2>2
  <2>5. n \in ready_systems' => strong_incoming'[n] = 0
    BY <1>4, <1>8, <2>4
  <2> QED
    BY <1>5, <1>8, <2>2, <2>3, <2>4, <2>5 DEF PlaceOk
<1>9. CASE n \notin Freed(c)
  <2>1. n \in ready_systems' <=> n \in ready_systems
    BY <1>4, <1>9
  <2>2. Event(n)' <=> Event(n) /\ n # m
    BY <1>2, <1>9
  <2>3. n \in running_jobs' <=> n \in running_jobs /\ n # m
    BY <1>4
  <2>4. (n \in ready_systems \/ n \in running_jobs) => strong_incoming'[n] = 0
    BY <1>3, <1>7 DEF PlaceOk
  <2>5. n = m => pc[n] \notin {"queued", "run"}
    BY <1>1, <1>7 DEF PlaceOk
  <2> QED
    BY <1>4, <1>6, <1>7, <1>9, <2>1, <2>2, <2>3, <2>4, <2>5 DEF PlaceOk
<1> QED
  BY <1>8, <1>9

\* Of what stands before a node that waits for nothing, nothing is changed.
LEMMA HandleKeepsOk ==
    ASSUME Types, NodesOk, NEW c, NEW skips \in SUBSET Jobs, NEW passes \in SUBSET Jobs,
           HandledAs(c, skips, passes), EventsAfter(c, skips, passes),
           NEW n \in Jobs, incoming[n] = 0, n # c.index
    PROVE  Ok(n)' <=> Ok(n)
<1>1. /\ Compiled /\ Counts /\ Open(c.index)
      /\ \A j \in ThePlan.jobs : <<j>> # c.index => status'[j] = status[j]
  BY Typed, HandleOpen, HandleStatus DEF NodesOk
<1>2. <<n[1]>> # c.index
  <2>1. CASE IsSync(n)
    <3>1. <<n[1]>> \in Before(n)
      BY <1>1, <2>1 DEF Compiled
    <3>2. Unhandled(n) = {}
      BY <1>1, Counting
    <3> QED
      BY <1>1, <3>1, <3>2 DEF Unhandled
  <2>2. CASE ~IsSync(n)
    BY <1>1, <2>2 DEF Compiled
  <2> QED
    BY <2>1, <2>2
<1>3. n[1] \in ThePlan.jobs
  BY <1>1 DEF Compiled
<1> QED
  BY <1>1, <1>2, <1>3 DEF Ok

\* A sync point whose turn has come succeeds if its job did.
LEMMA HandleSync ==
    ASSUME Types, NodesOk, NEW c, NEW skips \in SUBSET Jobs, NEW passes \in SUBSET Jobs,
           HandledAs(c, skips, passes), EventsAfter(c, skips, passes),
           NEW n \in Freed(c), IsSync(n)
    PROVE  strong_incoming'[n] = 0 <=> Ok(n)'
<1>1. n \in Jobs /\ Compiled /\ Jobs' = Jobs
  BY Typed, HandleOpen
<1>2. incoming'[n] = 0
  <2>1. /\ n \in schedule.outgoing[c.index] /\ incoming[n] = 1
    BY DEF Freed
  <2>2. incoming' = [k \in Jobs |-> IF k \in schedule.outgoing[c.index]
                                   THEN incoming[k] - 1 ELSE incoming[k]]
    BY DEF HandledAs
  <2> QED
    BY <1>1, <2>1, <2>2
<1>3. Unhandled(n)' = {} /\ (strong_incoming'[n] = 0 <=> Missing(n)' = {})
  BY <1>1, <1>2, HandleCounts
<1>4. Before(n)' = Before(n) /\ StronglyBefore(n)' = StronglyBefore(n)
  BY <1>1 DEF HandledAs, case, Before, StronglyBefore
<1>5. /\ StronglyBefore(n) = {<<n[1]>>} /\ <<n[1]>> \in Before(n)
  BY <1>1 DEF Compiled
<1>6. ~Open(<<n[1]>>)'
  BY <1>3, <1>4, <1>5 DEF Unhandled
<1>7. Ok(<<n[1]>>)' <=> Ok(n)'
  BY DEF Ok
<1> QED
  BY <1>3, <1>4, <1>5, <1>6, <1>7 DEF Missing

\* A node has one event, which says what has become of its job.
LEMMA HandleEvents ==
    ASSUME Types, NodesOk, NEW c, NEW skips \in SUBSET Jobs, NEW passes \in SUBSET Jobs,
           HandledAs(c, skips, passes), EventsAfter(c, skips, passes)
    PROVE  EventsOk'
<1> DEFINE m == c.index
           new == New(c, skips, passes)
<1>1. /\ EventsOk /\ m \in Jobs /\ c \in completed \cup pending
      /\ \A n \in Jobs : PlaceOk(n)
      /\ \A d \in completed \cup pending : d.index \in Jobs
  <2>1. c \in completed \cup pending
    BY DEF EventsAfter
  <2> QED
    BY <2>1, Typed DEF NodesOk
<1>2. /\ completed' \subseteq completed
      /\ completed' \cup pending' = ((completed \cup pending) \ {c}) \cup new
      /\ pending' = (pending \ {c}) \cup new
  BY DEF EventsAfter
<1>3. /\ skips \subseteq Freed(c) /\ passes \subseteq Freed(c) /\ skips \cap passes = {}
      /\ \A k \in Freed(c) : k \in Jobs /\ k \notin running_jobs /\ ~Event(k)
      /\ skips = {n \in Freed(c) : strong_incoming'[n] # 0}
      /\ \A n \in passes : NO_OP(ThePlan, n)
      /\ running_jobs' = running_jobs \ {m}
      /\ UNCHANGED plan
  BY HandleOpen DEF HandledAs, case
<1>4. \A d \in new : \/ d.index \in skips /\ d = Completed(d.index, FALSE, FALSE) /\ d.successed = FALSE
                     \/ d.index \in passes /\ d = Completed(d.index, FALSE, TRUE) /\ d.successed = TRUE
  BY NewEvents
<1> HIDE DEF new
<1>5. \A d \in completed \cup pending : Event(d.index) /\ (d # c => d.index # m)
  BY <1>1 DEF EventsOk, Event
<1>6. \A d \in (completed \cup pending) \ {c} : Ok(d.index)' <=> Ok(d.index)
  <2> SUFFICES ASSUME NEW d \in (completed \cup pending) \ {c}
               PROVE  Ok(d.index)' <=> Ok(d.index)
    OBVIOUS
  <2>1. d.index \in Jobs /\ Event(d.index) /\ d.index # m
    BY <1>1, <1>5
  <2>2. incoming[d.index] = 0
    BY <1>1, <2>1 DEF PlaceOk
  <2> QED
    BY <2>1, <2>2, HandleKeepsOk
<1>7. c \notin completed'
  <2>1. c \notin new
    BY <1>1, <1>3, <1>4, <1>5
  <2> QED
    BY <1>2, <2>1
<1>8. ASSUME NEW d \in completed' \cup pending', NEW e \in completed' \cup pending',
             d.index = e.index
      PROVE  d = e
  <2>1. CASE d \in completed \cup pending /\ e \in completed \cup pending
    BY <1>1, <1>8, <2>1 DEF EventsOk
  <2>2. CASE d \in new /\ e \in new
    BY <1>3, <1>4, <1>8, <2>2
  <2>3. ~(d \in new /\ e \in completed \cup pending)
    BY <1>3, <1>4, <1>5, <1>8
  <2>4. ~(e \in new /\ d \in completed \cup pending)
    BY <1>3, <1>4, <1>5, <1>8
  <2> QED
    BY <1>2, <2>1, <2>2, <2>3, <2>4
<1>9. ASSUME NEW d \in completed'
      PROVE  d.index \in running_jobs' /\ (d.successed <=> Ok(d.index)')
  <2>1. d \in completed /\ d # c
    BY <1>2, <1>7, <1>9
  <2>2. d.index \in running_jobs /\ (d.successed <=> Ok(d.index)) /\ d.index # m
    BY <1>1, <1>5, <2>1 DEF EventsOk
  <2> QED
    BY <1>3, <1>6, <2>1, <2>2
<1>10. ASSUME NEW d \in pending'
       PROVE  /\ d.index \notin running_jobs'
              /\ d.successed => NO_OP(ThePlan, d.index)'
              /\ IsSync(d.index) => (d.successed <=> Ok(d.index)')
  <2>0. NO_OP(ThePlan, d.index)' <=> NO_OP(ThePlan, d.index)
    BY <1>3 DEF NO_OP, ThePlan
  <2>1. CASE d \in pending \ {c}
    <3>1. /\ d.index \notin running_jobs
          /\ d.successed => NO_OP(ThePlan, d.index)
          /\ IsSync(d.index) => (d.successed <=> Ok(d.index))
      BY <1>1, <2>1 DEF EventsOk
    <3> QED
      BY <1>3, <1>6, <2>0, <2>1, <3>1
  <2>2. CASE d \in new
    <3>1. d.index \in Freed(c)
      BY <1>3, <1>4, <2>2
    <3>2. IsSync(d.index) => (strong_incoming'[d.index] = 0 <=> Ok(d.index)')
      BY <3>1, HandleSync
    <3> QED
      BY <1>3, <1>4, <2>0, <2>2, <3>1, <3>2
  <2> QED
    BY <1>2, <2>1, <2>2
<1> QED
  BY <1>8, <1>9, <1>10 DEF EventsOk

\* A job waits as long as its node does.
LEMMA HandleStatuses ==
    ASSUME Types, NodesOk, NEW c, NEW skips \in SUBSET Jobs, NEW passes \in SUBSET Jobs,
           HandledAs(c, skips, passes), EventsAfter(c, skips, passes)
    PROVE  \A j \in ThePlan.jobs : StatusOk(j)'
<1> DEFINE m == c.index
           waiting(j) == \E d \in pending : d.index = <<j>>
<1>1. /\ Compiled /\ EventsOk /\ m \in Jobs /\ incoming \in [Jobs -> Nat]
      /\ \A n \in Jobs : PlaceOk(n)
      /\ \A j \in ThePlan.jobs : StatusOk(j)
      /\ c \in completed \cup pending
  <2>1. c \in completed \cup pending
    BY DEF EventsAfter
  <2> QED
    BY <2>1, Typed DEF NodesOk
<1>2. pending' = (pending \ {c}) \cup New(c, skips, passes)
  BY DEF EventsAfter
<1>3. /\ incoming[m] = 0 /\ m \notin ready_systems /\ m \notin schedule.outgoing[m]
      /\ \A k \in schedule.outgoing[m] : incoming[k] # 0
      /\ skips \subseteq Freed(c) /\ passes \subseteq Freed(c)
      /\ \A k \in Freed(c) : k \notin ready_systems /\ ~Event(k) /\ pc[k] = "none"
      /\ \A k \in Jobs : Event(k)' <=> (Event(k) /\ k # m) \/ k \in skips \cup passes
  BY HandleOpen
<1>4. /\ \A k \in Jobs : incoming'[k] = IF k \in schedule.outgoing[m]
                                        THEN incoming[k] - 1 ELSE incoming[k]
      /\ ready_systems' = ready_systems \cup (Freed(c) \ (skips \cup passes))
      /\ pc' = pc
  BY DEF HandledAs
<1>5. /\ \A j \in ThePlan.jobs : <<j>> # m => status'[j] = status[j]
      /\ ~IsSync(m) => status'[m[1]] \in {"ok", "error", "skipped", "blocked"}
  BY HandleStatus
<1> SUFFICES ASSUME NEW j \in ThePlan.jobs
             PROVE  StatusOk(j)'
  BY DEF HandledAs, case, ThePlan
<1>6. <<j>> \in Jobs /\ StatusOk(j) /\ ~IsSync(<<j>>) /\ <<j>>[1] = j
  BY <1>1 DEF Compiled
<1>7. CASE <<j>> = m
  <2>1. Event(m)
    BY <1>1 DEF Event
  <2>2. m \notin Freed(c)
    BY <1>3 DEF Freed
  <2>3. incoming'[m] = 0 /\ m \notin ready_systems' /\ pc'[m] \notin {"queued", "run"}
    <3>1. pc[m] \notin {"queued", "run"}
      BY <1>1, <2>1 DEF PlaceOk
    <3> QED
      BY <1>1, <1>3, <1>4, <2>2, <3>1
  <2>4. ~Event(m)'
    BY <1>1, <1>3, <2>2
  <2>5. ~\E d \in pending' : d.index = m
    BY <2>4 DEF Event
  <2>6. status'[j] \notin {"waiting", "running"}
    BY <1>5, <1>6, <1>7
  <2> QED
    BY <1>7, <2>3, <2>5, <2>6 DEF StatusOk
<1>8. CASE <<j>> \in Freed(c)
  <2>1. <<j>> # m
    BY <1>3, <1>8 DEF Freed
  <2>2. incoming[<<j>>] = 1 /\ pc[<<j>>] = "none"
    BY <1>3, <1>8 DEF Freed
  <2>3. status[j] = "waiting"
    BY <1>6, <2>2 DEF StatusOk
  <2>4. <<j>> \in ready_systems' \/ \E d \in pending' : d.index = <<j>>
    <3>1. ASSUME <<j>> \in skips \cup passes
          PROVE  \E d \in New(c, skips, passes) : d.index = <<j>>
      BY <3>1, NewEvents
    <3> QED
      BY <1>2, <1>4, <1>8, <3>1
  <2>5. status'[j] = "waiting" /\ pc'[<<j>>] # "run"
    BY <1>4, <1>5, <2>1, <2>2, <2>3
  <2> QED
    BY <2>4, <2>5 DEF StatusOk
<1>9. CASE <<j>> \notin Freed(c) /\ <<j>> # m
  <2>1. incoming'[<<j>>] # 0 <=> incoming[<<j>>] # 0
    <3>1. <<j>> \in schedule.outgoing[m] =>
             incoming[<<j>>] # 0 /\ incoming[<<j>>] # 1 /\ incoming[<<j>>] \in Nat
      BY <1>1, <1>3, <1>6, <1>9 DEF Freed
    <3> QED
      BY <1>4, <1>6, <3>1
  <2>2. <<j>> \in ready_systems' <=> <<j>> \in ready_systems
    BY <1>4, <1>9
  <2>3. (\E d \in pending' : d.index = <<j>>) <=> \E d \in pending : d.index = <<j>>
    <3>1. \A d \in New(c, skips, passes) : d.index \in Freed(c)
      BY <1>3, NewEvents
    <3> QED
      BY <1>2, <1>9, <3>1
  <2>4. status'[j] = status[j]
    BY <1>5, <1>9
  <2> QED
    BY <1>4, <1>6, <2>1, <2>2, <2>3, <2>4 DEF StatusOk
<1> QED
  BY <1>7, <1>8, <1>9

\* No commands are lost.
LEMMA HandleCommands ==
    ASSUME Types, NodesOk, NEW c, NEW skips \in SUBSET Jobs, NEW passes \in SUBSET Jobs,
           HandledAs(c, skips, passes), EventsAfter(c, skips, passes)
    PROVE  CommandsOk'
<1>1. /\ Compiled /\ EventsOk /\ CommandsOk /\ c.index \in Jobs /\ c \in completed \cup pending
      /\ c.successed \in BOOLEAN
  <2>1. c \in completed \cup pending
    BY DEF EventsAfter
  <2> QED
    BY <2>1, Typed DEF NodesOk
<1>2. /\ \A d \in completed \ {c} : d \in completed'
      /\ deferred_systems' = deferred_systems \cup {n \in {c.index} : c.deferred}
      /\ UNCHANGED <<plan, schedule, pc, apply_deferred, applied>>
  BY DEF EventsAfter, HandledAs, case
<1>3. Jobs' = Jobs /\ ThePlan' = ThePlan
  BY <1>2 DEF Jobs, ThePlan
<1>4. ASSUME NEW j \in ThePlan.deferred \ ThePlan.noop, Left(j)'
      PROVE  \/ <<j>> \in deferred_systems'
             \/ \E n \in Jobs : <<j>> \in apply_deferred'[n]
             \/ \E d \in completed' : d.index = <<j>> /\ d.deferred
  <2>1. j \in ThePlan.jobs /\ <<j>> \in Jobs /\ ~IsSync(<<j>>) /\ <<j>>[1] = j
    BY <1>1 DEF Compiled
  <2>2. Left(j)
    <3>1. CASE <<j>> # c.index
      BY <1>2, <1>4, <2>1, <3>1, HandleStatus DEF Left
    <3>2. CASE <<j>> = c.index /\ c \in completed
      <4>1. status'[j] = status[j]
        BY <2>1, <3>2, HandleStatus
      <4> QED
        BY <1>2, <1>4, <4>1 DEF Left
    <3>3. CASE <<j>> = c.index /\ c \in pending
      <4>1. status'[j] = "ok"
        BY <1>4, <2>1, <3>3, HandleStatus DEF Left
      <4>2. c.successed
        BY <2>1, <3>3, <4>1, HandleStatus DEF Ok
      <4>3. NO_OP(ThePlan, <<j>>)
        BY <1>1, <3>3, <4>2 DEF EventsOk
      <4> QED
        BY <1>4, <2>1, <4>3 DEF NO_OP
    <3> QED
      BY <1>1, <3>1, <3>2, <3>3
  <2>3. \/ <<j>> \in deferred_systems
        \/ \E n \in Jobs : <<j>> \in apply_deferred[n]
        \/ \E d \in completed : d.index = <<j>> /\ d.deferred
    BY <1>1, <1>4, <2>2 DEF CommandsOk
  <2>4. ASSUME NEW d \in completed, d.index = <<j>>, d.deferred
        PROVE  <<j>> \in deferred_systems' \/ \E e \in completed' : e.index = <<j>> /\ e.deferred
    <3>1. CASE d = c
      BY <1>2, <2>4, <3>1
    <3>2. CASE d # c
      BY <1>2, <2>4, <3>2
    <3> QED
      BY <3>1, <3>2
  <2> QED
    BY <1>2, <2>3, <2>4
<1>5. \A n \in Jobs : apply_deferred'[n] # {} => pc'[n] = "queued"
  BY <1>1, <1>2 DEF CommandsOk
<1> QED
  BY <1>3, <1>4, <1>5 DEF CommandsOk

\* Handling an event keeps the order of the nodes.
LEMMA HandleStays ==
    ASSUME Types, NodesOk, NEW c, NEW skipping \in BOOLEAN, Handles(c, skipping),
           UNCHANGED <<lock, unlocking, todo, runs>>
    PROVE  Types' /\ NodesOk'
<1>1. PICK skips, passes \in SUBSET Jobs :
          HandledAs(c, skips, passes) /\ EventsAfter(c, skips, passes)
  BY HandleParts
<1>2. UNCHANGED case /\ Jobs' = Jobs /\ ThePlan' = ThePlan /\ Actors' = Actors
  BY <1>1 DEF HandledAs, case, Jobs, ThePlan, Actors
<1>3. NodesOk'
  <2>1. Counts' /\ EventsOk' /\ CommandsOk'
    BY <1>1, HandleCounts, HandleEvents, HandleCommands
  <2>2. \A n \in Jobs : PlaceOk(n)'
    BY <1>1, HandlePlaces
  <2>3. \A j \in ThePlan.jobs : StatusOk(j)'
    BY <1>1, HandleStatuses
  <2> QED
    BY <1>2, <2>1, <2>2, <2>3 DEF NodesOk
<1>4. completed' \cup pending' \subseteq
          [index : Jobs, deferred : BOOLEAN, successed : BOOLEAN]
  <2>1. New(c, skips, passes) \subseteq [index : Jobs, deferred : BOOLEAN, successed : BOOLEAN]
    <3>1. \A n \in Jobs : /\ Completed(n, FALSE, FALSE) \in [index : Jobs, deferred : BOOLEAN, successed : BOOLEAN]
                         /\ Completed(n, FALSE, TRUE) \in [index : Jobs, deferred : BOOLEAN, successed : BOOLEAN]
      BY DEF Completed
    <3> QED
      BY <3>1 DEF New
  <2>2. completed \cup pending \subseteq [index : Jobs, deferred : BOOLEAN, successed : BOOLEAN]
    BY DEF Types, TypeOK
  <2> QED
    BY <1>1, <2>1, <2>2 DEF EventsAfter
<1>5. /\ incoming' \in [Jobs -> Nat] /\ strong_incoming' \in [Jobs -> Nat]
      /\ status' \in [ThePlan.jobs -> Statuses] /\ c.index \in Jobs
      /\ Freed(c) \subseteq Jobs
  <2>1. incoming' \in [Jobs -> Nat] /\ c.index \in Jobs /\ Freed(c) \subseteq Jobs
    BY <1>1, HandleOpen
  <2>2. strong_incoming' \in [Jobs -> Nat]
    BY <1>1, HandleCounts
  <2>3. status' \in [ThePlan.jobs -> Statuses]
    BY <1>1, HandleStatus
  <2> QED
    BY <2>1, <2>2, <2>3
<1>6. /\ ready_systems \subseteq ready_systems' /\ ready_systems' \subseteq Jobs
      /\ running_jobs' \subseteq Jobs /\ deferred_systems' \subseteq Jobs
      /\ UNCHANGED <<pc, apply_deferred, applied>>
  BY <1>1, <1>5 DEF HandledAs, Types, TypeOK
<1>7. TypeOK'
  BY <1>2, <1>4, <1>5, <1>6 DEF Types, TypeOK, case
<1> QED
  BY <1>2, <1>3, <1>5, <1>7 DEF Types, NothingLeft, case

-----------------------------------------------------------------------------
(***************************************************************************)
(* tick, and the tasks.                                                    *)
(***************************************************************************)

MultiOk == Types /\ kind = "multi" /\ MultiInv

\* What a step means for the actors, whatever it does to the nodes.
LEMMA MultiTyped ==
    ASSUME MultiOk
    PROVE  /\ Types /\ NodesOk /\ LockOk /\ ReturnedOk /\ Compiled
           /\ Counts /\ EventsOk /\ CommandsOk
           /\ \A n \in Jobs : PlaceOk(n)
           /\ \A j \in ThePlan.jobs : StatusOk(j)
           /\ ~delayed => Progress /\ ~unlocking
           /\ \A t \in Actors : pc[t] \notin {"none", "end"} => ~Idle
           /\ lock # None => lock \in Actors
           /\ unlocking => pending = {} /\ todo = {}
           /\ lock = None => pending = {} /\ todo = {}
<1>1. /\ Types /\ NodesOk /\ LockOk /\ ReturnedOk /\ Compiled
      /\ Counts /\ EventsOk /\ CommandsOk
      /\ \A n \in Jobs : PlaceOk(n)
      /\ \A j \in ThePlan.jobs : StatusOk(j)
      /\ ~delayed => Progress
  BY Typed DEF MultiOk, MultiInv, NodesOk
<1>2. ~delayed => ~unlocking
  BY <1>1 DEF LockOk
<1>3. \A t \in Actors : pc[t] \notin {"none", "end"} => ~Idle
  BY <1>1 DEF ReturnedOk, ScopeOver
<1>4. lock # None => lock \in Actors
  BY <1>1 DEF Types, TypeOK
<1>5. unlocking => pending = {} /\ todo = {}
  BY <1>1, <1>4 DEF LockOk, Scheduling
<1>6. lock = None => pending = {} /\ todo = {}
  BY <1>1 DEF LockOk
<1> QED
  BY <1>1, <1>2, <1>3, <1>4, <1>5, <1>6

\* A step that no node notices.
LEMMA QuietNodes ==
    ASSUME Types, NodesOk,
           UNCHANGED <<plan, schedule, incoming, strong_incoming, ready_systems, running_jobs,
                       completed, pending, status>>,
           \A n \in Jobs : \/ pc'[n] = pc[n]
                           \/ {pc[n], pc'[n]} \cap {"none", "queued", "run"} = {},
           CommandsOk'
    PROVE  NodesOk'
<1>1. /\ Compiled /\ Counts /\ EventsOk /\ \A n \in Jobs : PlaceOk(n)
      /\ \A j \in ThePlan.jobs : StatusOk(j)
  BY Typed DEF NodesOk
<1>2. Jobs' = Jobs /\ ThePlan' = ThePlan /\ \A n : Event(n)' <=> Event(n)
  BY DEF Jobs, ThePlan, Event
<1>3. Counts'
  BY <1>1, <1>2, SameCounts DEF Open
<1>4. EventsOk'
  BY <1>1, <1>2 DEF EventsOk, Ok, NO_OP
<1>5. ASSUME NEW n \in Jobs PROVE PlaceOk(n)'
  <2>1. PlaceOk(n)
    BY <1>1
  <2>2. /\ pc'[n] = "none" <=> pc[n] = "none"
        /\ pc'[n] \in {"queued", "run"} <=> pc[n] \in {"queued", "run"}
    OBVIOUS
  <2> QED
    BY <1>2, <2>1, <2>2 DEF PlaceOk
<1>6. ASSUME NEW j \in ThePlan.jobs PROVE StatusOk(j)'
  <2>1. <<j>> \in Jobs /\ StatusOk(j)
    BY <1>1 DEF Compiled
  <2>2. /\ pc'[<<j>>] = "queued" <=> pc[<<j>>] = "queued"
        /\ pc'[<<j>>] = "run" <=> pc[<<j>>] = "run"
    BY <2>1
  <2> QED
    BY <2>1, <2>2 DEF StatusOk
<1> QED
  BY <1>2, <1>3, <1>4, <1>5, <1>6 DEF NodesOk

\* ... and that moves no commands.
LEMMA QuietStep ==
    ASSUME Types, NodesOk,
           UNCHANGED <<plan, schedule, incoming, strong_incoming, ready_systems, running_jobs,
                       completed, pending, status, deferred_systems, apply_deferred, applied>>,
           \A n \in Jobs : \/ pc'[n] = pc[n]
                           \/ {pc[n], pc'[n]} \cap {"none", "queued", "run"} = {}
    PROVE  NodesOk'
<1>1. Jobs' = Jobs /\ ThePlan' = ThePlan /\ CommandsOk
  BY DEF Jobs, ThePlan, NodesOk
<1>2. ASSUME NEW n \in Jobs, apply_deferred[n] # {} PROVE pc'[n] = "queued"
  BY <1>1, <1>2 DEF CommandsOk
<1>3. CommandsOk'
  BY <1>1, <1>2 DEF CommandsOk, Left
<1> QED
  BY <1>3, QuietNodes

\* The types after a step that leaves the counters, the events and the statuses alone.
Labels == {"none", "queued", "run", "try", "drain", "spawn", "check", "end", "visit",
           "call", "commands", "unwound"}

LEMMA QuietTypes ==
    ASSUME Types, UNCHANGED <<case, incoming, strong_incoming, ready_systems, running_jobs,
                              completed, pending, status>>,
           lock' \in Actors \cup {None}, unlocking' \in BOOLEAN,
           pc' \in [Actors -> Labels], todo' \subseteq todo,
           deferred_systems' \subseteq deferred_systems,
           apply_deferred' \in [Jobs -> SUBSET Jobs], applied' \subseteq ThePlan.jobs,
           runs' = runs
    PROVE  Types'
<1>1. Actors' = Actors /\ Jobs' = Jobs /\ ThePlan' = ThePlan
  BY DEF Actors, Jobs, ThePlan, case
<1>2. TypeOK'
  BY <1>1 DEF Types, TypeOK, case, Labels
<1> QED
  BY <1>1, <1>2 DEF Types, NothingLeft, case

LEMMA TryLockStep ==
    ASSUME MultiOk, NEW t \in Actors, TryLock(t)
    PROVE  MultiOk'
<1> USE MultiTyped
<1>1. /\ UNCHANGED <<case, state, completed, pending, todo, apply_deferred, outcome, runs>>
      /\ pc[t] = "try" /\ pc' \in {[pc EXCEPT ![t] = "drain"], [pc EXCEPT ![t] = "end"]}
  BY DEF TryLock, Goto
<1>2. Actors' = Actors /\ Jobs' = Jobs /\ ThePlan' = ThePlan
  BY <1>1 DEF Actors, Jobs, ThePlan, case
<1>3. /\ \A s \in Actors : s # t => pc'[s] = pc[s]
      /\ pc'[t] \in {"drain", "end"}
  BY <1>1 DEF Types, TypeOK
<1>4. NodesOk'
  BY <1>1, <1>3, QuietStep DEF case, state, outcome, Actors
<1>5. Types'
  <2>1. lock' \in Actors \cup {None} /\ unlocking' \in BOOLEAN
    BY DEF TryLock, Types, TypeOK
  <2>2. pc' \in [Actors -> Labels]
    BY <1>1 DEF Types, TypeOK, Labels
  <2>3. apply_deferred \in [Jobs -> SUBSET Jobs] /\ applied \subseteq ThePlan.jobs
    BY DEF Types, TypeOK
  <2> QED
    BY <1>1, <2>1, <2>2, <2>3, QuietTypes DEF state, outcome
<1>6. CASE lock' = t /\ unlocking' = FALSE /\ Goto(t, "drain") /\ (lock = None \/ (lock = t /\ unlocking))
  <2>1. pc'[t] = "drain" /\ pending = {} /\ todo = {}
    BY <1>6 DEF Goto, Types, TypeOK
  <2>2. \A s \in Actors : pc'[s] \in Scheduling <=> s = t
    BY <1>3, <1>6, <2>1 DEF LockOk, Compiled, Scheduling
  <2>3. LockOk'
    BY <1>1, <1>2, <1>6, <2>1, <2>2 DEF LockOk, Compiled, Scheduling
  <2>4. Progress'
    BY <1>1, <1>2, <1>6, <2>1 DEF Progress, Compiled, Scheduling
  <2>5. ReturnedOk'
    BY <1>1, <1>2, <1>3, <2>1 DEF ReturnedOk, Idle, Scheduling, Compiled, ScopeOver
  <2> QED
    BY <1>1, <1>4, <1>5, <2>3, <2>4, <2>5 DEF MultiOk, MultiInv, case
<1>7. CASE lock \notin {None, t} /\ Goto(t, "end") /\ UNCHANGED <<lock, unlocking>>
  <2>1. pc'[t] = "end" /\ lock \in Actors /\ pc'[lock] = pc[lock]
    BY <1>3, <1>7 DEF Goto, Types, TypeOK
  <2>2. LockOk'
    <3>1. \A s \in Actors : pc'[s] \in Scheduling <=> lock = s /\ ~unlocking
      BY <1>1, <1>3, <1>7, <2>1 DEF LockOk, Scheduling
    <3> QED
      BY <1>1, <1>2, <1>7, <2>1, <3>1 DEF LockOk, case
  <2>3. ASSUME ~delayed PROVE Progress'
    <3>1. pc[lock] \in Scheduling /\ Progress
      BY <1>7, <2>1, <2>3 DEF LockOk
    <3> QED
      BY <1>1, <1>2, <1>7, <2>1, <3>1 DEF Progress, Conflicted, state, case, ThePlan
  <2>4. ReturnedOk'
    BY <1>1, <1>2, <1>3, <2>1 DEF ReturnedOk, Idle, Scheduling, Compiled, ScopeOver
  <2> QED
    BY <1>1, <1>4, <1>5, <2>2, <2>3, <2>4 DEF MultiOk, MultiInv, case
<1> QED
  BY <1>6, <1>7 DEF TryLock

LEMMA UnlockStep ==
    ASSUME MultiOk, NEW t \in Actors, Unlock(t)
    PROVE  MultiOk'
<1> USE MultiTyped
<1>1. /\ UNCHANGED <<case, state, completed, pending, todo, apply_deferred, outcome, runs>>
      /\ pc[t] = "spawn" /\ pc' = [pc EXCEPT ![t] = "check"] /\ pending = {} /\ todo = {}
  BY DEF Unlock, Goto
<1>2. Actors' = Actors /\ Jobs' = Jobs /\ ThePlan' = ThePlan
  BY <1>1 DEF Actors, Jobs, ThePlan, case
<1>3. /\ \A s \in Actors : s # t => pc'[s] = pc[s]
      /\ pc'[t] = "check"
  BY <1>1 DEF Types, TypeOK
<1>4. NodesOk'
  BY <1>1, <1>3, QuietStep DEF case, state, outcome, Actors
<1>5. Types'
  <2>1. lock' \in Actors \cup {None} /\ unlocking' \in BOOLEAN
    BY DEF Unlock, Types, TypeOK
  <2>2. pc' \in [Actors -> Labels]
    BY <1>1 DEF Types, TypeOK, Labels
  <2>3. apply_deferred \in [Jobs -> SUBSET Jobs] /\ applied \subseteq ThePlan.jobs
    BY DEF Types, TypeOK
  <2> QED
    BY <1>1, <2>1, <2>2, <2>3, QuietTypes DEF state, outcome
<1>6. lock = t /\ ~unlocking
  BY <1>1 DEF LockOk, Scheduling
<1>7. \A s \in Actors : pc'[s] \notin Scheduling
  BY <1>3, <1>6 DEF LockOk, Scheduling
<1>8. LockOk'
  <2>1. CASE delayed /\ unlocking' = TRUE /\ lock' = lock
    BY <1>1, <1>2, <1>6, <1>7, <2>1 DEF LockOk, Compiled, case
  <2>2. CASE lock' = None /\ unlocking' = unlocking
    BY <1>1, <1>2, <1>6, <1>7, <2>2 DEF LockOk, Compiled, case
  <2> QED
    BY <2>1, <2>2 DEF Unlock
<1>9. ASSUME ~delayed PROVE Progress'
  <2>1. Progress /\ lock # None
    BY <1>6, <1>9 DEF Compiled
  <2>2. completed # {} \/ \A n \in ready_systems : Conflicted(n)
    BY <1>1, <1>6, <2>1 DEF Progress
  <2>3. lock' = None
    BY <1>9 DEF Unlock
  <2> QED
    BY <1>1, <1>2, <1>3, <2>2, <2>3 DEF Progress, Conflicted, state, case
<1>10. ReturnedOk'
  BY <1>1, <1>2, <1>3 DEF ReturnedOk, Idle, Scheduling, Compiled, ScopeOver
<1> QED
  BY <1>1, <1>4, <1>5, <1>8, <1>9, <1>10 DEF MultiOk, MultiInv, case

LEMMA FlushStep ==
    ASSUME MultiOk, Flush
    PROVE  MultiOk'
<1> USE MultiTyped
<1>1. /\ UNCHANGED <<case, state, completed, pc, pending, todo, apply_deferred, outcome, runs>>
      /\ unlocking /\ lock' = None /\ unlocking' = FALSE /\ pending = {} /\ todo = {}
  BY DEF Flush
<1>2. Actors' = Actors /\ Jobs' = Jobs /\ ThePlan' = ThePlan
  BY <1>1 DEF Actors, Jobs, ThePlan, case
<1>3. NodesOk'
  BY <1>1, QuietStep DEF case, state, outcome
<1>4. Types'
  <2>1. lock' \in Actors \cup {None} /\ unlocking' \in BOOLEAN
    BY <1>1
  <2>2. pc' \in [Actors -> Labels]
    BY <1>1 DEF Types, TypeOK, Labels
  <2>3. apply_deferred \in [Jobs -> SUBSET Jobs] /\ applied \subseteq ThePlan.jobs
    BY DEF Types, TypeOK
  <2> QED
    BY <1>1, <2>1, <2>2, <2>3, QuietTypes DEF state, outcome
<1>5. LockOk'
  BY <1>1, <1>2 DEF LockOk, Compiled
<1>6. delayed
  BY <1>1 DEF LockOk
<1>7. ReturnedOk'
  BY <1>1, <1>2 DEF ReturnedOk, Idle, ScopeOver, state, outcome
<1> QED
  BY <1>1, <1>3, <1>4, <1>5, <1>6, <1>7 DEF MultiOk, MultiInv, case

LEMMA CheckStep ==
    ASSUME MultiOk, NEW t \in Actors, Check(t)
    PROVE  MultiOk'
<1> USE MultiTyped
<1>1. /\ UNCHANGED <<case, state, completed, lock, unlocking, pending, todo, apply_deferred,
                      outcome, runs>>
      /\ pc[t] = "check" /\ pc' = [pc EXCEPT ![t] = IF completed = {} THEN "end" ELSE "try"]
  BY DEF Check, Goto
<1>2. Actors' = Actors /\ Jobs' = Jobs /\ ThePlan' = ThePlan
  BY <1>1 DEF Actors, Jobs, ThePlan, case
<1>3. /\ \A s \in Actors : s # t => pc'[s] = pc[s]
      /\ pc'[t] = IF completed = {} THEN "end" ELSE "try"
  BY <1>1 DEF Types, TypeOK
<1>4. NodesOk'
  BY <1>1, <1>3, QuietStep DEF case, state, outcome, Actors
<1>5. Types'
  <2>1. lock \in Actors \cup {None} /\ unlocking \in BOOLEAN
    BY DEF Types, TypeOK
  <2>2. pc' \in [Actors -> Labels]
    BY <1>1 DEF Types, TypeOK, Labels
  <2>3. apply_deferred \in [Jobs -> SUBSET Jobs] /\ applied \subseteq ThePlan.jobs
    BY DEF Types, TypeOK
  <2> QED
    BY <1>1, <2>1, <2>2, <2>3, QuietTypes DEF state, outcome
<1>6. LockOk'
  <2>1. \A s \in Actors : pc'[s] \in Scheduling <=> lock = s /\ ~unlocking
    BY <1>1, <1>3 DEF LockOk, Scheduling
  <2>2. todo # {} => lock # t /\ lock \in Actors /\ pc'[lock] = "spawn"
    BY <1>1, <1>3 DEF LockOk
  <2> QED
    BY <1>1, <1>2, <2>1, <2>2 DEF LockOk, case
<1>7. ASSUME ~delayed PROVE Progress'
  <2>1. Progress /\ lock # t
    BY <1>1, <1>7 DEF LockOk, Scheduling
  <2>2. lock # None => pc'[lock] = pc[lock]
    BY <1>3, <2>1
  <2>3. completed # {} => \E s \in Actors : pc'[s] \in Scheduling \cup {"try", "check"}
    BY <1>3
  <2>4. (\E s \in Actors : pc[s] = "try") => \E s \in Actors : pc'[s] = "try"
    BY <1>1, <1>3
  <2> QED
    BY <1>1, <1>2, <2>1, <2>2, <2>3, <2>4 DEF Progress, Conflicted, state, case, ThePlan
<1>8. ReturnedOk'
  BY <1>1, <1>2, <1>3 DEF ReturnedOk, Idle, Scheduling, Compiled, ScopeOver
<1> QED
  BY <1>1, <1>4, <1>5, <1>6, <1>7, <1>8 DEF MultiOk, MultiInv, case

LEMMA PostponeStep ==
    ASSUME MultiOk, NEW t \in Actors, Postpone(t)
    PROVE  MultiOk'
<1> USE MultiTyped
<1>1. /\ UNCHANGED <<case, state, completed, lock, unlocking, pc, pending, apply_deferred,
                      outcome, runs>>
      /\ pc[t] = "spawn" /\ pending = {}
  BY DEF Postpone
<1>2. Actors' = Actors /\ Jobs' = Jobs /\ ThePlan' = ThePlan
  BY <1>1 DEF Actors, Jobs, ThePlan, case
<1>3. PICK n \in todo : /\ Conflicted(n)
                        /\ todo' = IF completed # {} THEN {} ELSE todo \ {n}
  BY DEF Postpone, Conflicted
<1>4. NodesOk'
  BY <1>1, QuietStep DEF case, state, outcome
<1>5. Types'
  <2>1. lock \in Actors \cup {None} /\ unlocking \in BOOLEAN
    BY DEF Types, TypeOK
  <2>2. pc \in [Actors -> Labels]
    BY DEF Types, TypeOK, Labels
  <2>3. apply_deferred \in [Jobs -> SUBSET Jobs] /\ applied \subseteq ThePlan.jobs
    BY DEF Types, TypeOK
  <2> QED
    BY <1>1, <1>3, <2>1, <2>2, <2>3, QuietTypes DEF state, outcome
<1>6. LockOk'
  BY <1>1, <1>2, <1>3 DEF LockOk, case
<1>7. ASSUME ~delayed PROVE Progress'
  <2>1. Progress
    BY <1>7
  <2>2. \A k \in ready_systems \ todo' : completed # {} \/ k \in ready_systems \ todo \/ k = n
    BY <1>3
  <2>3. \A k \in Jobs : Conflicted(k)' <=> Conflicted(k)
    BY <1>1 DEF Conflicted, state, case
  <2>4. lock = t
    BY <1>1 DEF LockOk, Scheduling
  <2>5. completed # {} \/ \A k \in ready_systems \ todo' : Conflicted(k)
    BY <1>1, <1>3, <2>1, <2>2, <2>4 DEF Progress, Compiled
  <2>6. ready_systems \subseteq Jobs
    BY DEF Types, TypeOK
  <2> QED
    BY <1>1, <1>2, <2>1, <2>3, <2>4, <2>5, <2>6 DEF Progress, state, case, Compiled
<1>8. ReturnedOk'
  BY <1>1, <1>2 DEF ReturnedOk, Idle, ScopeOver, state, outcome
<1> QED
  BY <1>1, <1>4, <1>5, <1>6, <1>7, <1>8 DEF MultiOk, MultiInv, case

\* A step of a node's own task, which has nothing to do with the scheduler.
LEMMA TaskFrame ==
    ASSUME MultiOk, NEW t \in Actors,
           UNCHANGED <<case, incoming, strong_incoming, ready_systems, running_jobs,
                       deferred_systems, lock, unlocking, pending, todo>>,
           pc[t] \in {"queued", "run", "end"}, pc' \in [Actors -> Labels],
           \A s \in Actors : s # t => pc'[s] = pc[s],
           pc'[t] \in {"queued", "run", "try", "none"},
           completed \subseteq completed',
           completed' # completed => pc'[t] = "try",
           pc'[t] = "none" => t = Main
    PROVE  LockOk' /\ (~delayed => Progress')
<1> USE MultiTyped
<1>1. Actors' = Actors /\ Jobs' = Jobs /\ ThePlan' = ThePlan
  BY DEF Actors, Jobs, ThePlan, case
<1>2. LockOk'
  <2>1. \A s \in Actors : pc'[s] \in Scheduling <=> lock = s /\ ~unlocking
    BY DEF LockOk, Scheduling
  <2>2. todo # {} => lock # t /\ lock \in Actors /\ pc'[lock] = "spawn"
    BY DEF LockOk
  <2> QED
    BY <1>1, <2>1, <2>2 DEF LockOk, case
<1>3. ASSUME ~delayed PROVE Progress'
  <2>1. Progress /\ (lock # None => lock # t /\ pc'[lock] = pc[lock])
    BY <1>3 DEF LockOk, Scheduling
  <2>2. completed' # {} => \E s \in Actors : pc'[s] \in Scheduling \cup {"try", "check"}
    <3>1. CASE completed' # completed
      BY <3>1
    <3>2. CASE completed' = completed
      BY <2>1, <3>2 DEF Progress, Scheduling
    <3> QED
      BY <3>1, <3>2
  <2>3. (\E s \in Actors : pc[s] = "try") => \E s \in Actors : pc'[s] = "try"
    BY <2>1
  <2>4. completed # {} => completed' # {}
    OBVIOUS
  <2> QED
    BY <1>1, <2>1, <2>2, <2>3, <2>4 DEF Progress, Conflicted, case
<1> QED
  BY <1>2, <1>3

LEMMA ApplyDeferredStep ==
    ASSUME MultiOk, NEW n \in Jobs, ApplyDeferred(n)
    PROVE  MultiOk'
<1> USE MultiTyped
<1>1. /\ UNCHANGED <<case, state, completed, lock, unlocking, pc, pending, todo, status, runs>>
      /\ pc[n] = "queued" /\ apply_deferred' = [apply_deferred EXCEPT ![n] = {}]
      /\ applied' = applied \cup {m[1] : m \in apply_deferred[n]}
  BY DEF ApplyDeferred
<1>2. Actors' = Actors /\ Jobs' = Jobs /\ ThePlan' = ThePlan /\ n \in Actors
  BY <1>1 DEF Actors, Jobs, ThePlan, case
<1>3. apply_deferred \in [Jobs -> SUBSET Jobs] /\ applied \subseteq ThePlan.jobs
  BY DEF Types, TypeOK
<1>4. CommandsOk'
  <2>1. ASSUME NEW j \in ThePlan.deferred \ ThePlan.noop, Left(j)'
        PROVE  \/ <<j>> \in deferred_systems'
               \/ \E k \in Jobs : <<j>> \in apply_deferred'[k]
               \/ \E c \in completed' : c.index = <<j>> /\ c.deferred
    <3>1. Left(j) /\ j \notin applied'
      BY <1>1, <2>1 DEF Left
    <3>2. <<j>> \notin apply_deferred[n]
      <4>1. <<j>>[1] = j
        OBVIOUS
      <4> QED
        BY <1>1, <3>1, <4>1
    <3>3. \A k \in Jobs : <<j>> \in apply_deferred[k] => <<j>> \in apply_deferred'[k]
      BY <1>1, <1>3, <3>2
    <3> QED
      BY <1>1, <2>1, <3>1, <3>3 DEF CommandsOk, state
  <2>2. \A k \in Jobs : apply_deferred'[k] # {} => pc'[k] = "queued"
    BY <1>1, <1>3 DEF CommandsOk
  <2> QED
    BY <1>2, <2>1, <2>2 DEF CommandsOk
<1>5. NodesOk'
  BY <1>1, <1>4, QuietNodes DEF case, state
<1>6. Types'
  <2>1. lock \in Actors \cup {None} /\ unlocking \in BOOLEAN
    BY DEF Types, TypeOK
  <2>2. pc \in [Actors -> Labels]
    BY DEF Types, TypeOK, Labels
  <2>3. apply_deferred' \in [Jobs -> SUBSET Jobs]
    BY <1>1, <1>3
  <2>4. applied' \subseteq ThePlan.jobs
    BY <1>1, <1>3 DEF Compiled
  <2> QED
    BY <1>1, <2>1, <2>2, <2>3, <2>4, QuietTypes DEF state
<1>7. LockOk' /\ (~delayed => Progress')
  <2>1. pc' \in [Actors -> Labels]
    BY <1>1 DEF Types, TypeOK, Labels
  <2> QED
    BY <1>1, <1>2, <2>1, TaskFrame DEF state
<1>8. ReturnedOk'
  BY <1>1, <1>2 DEF ReturnedOk, Idle, ScopeOver, state
<1> QED
  BY <1>1, <1>5, <1>6, <1>7, <1>8 DEF MultiOk, MultiInv, case

LEMMA ApplyRestStep ==
    ASSUME MultiOk, ApplyRest
    PROVE  MultiOk'
<1> USE MultiTyped
<1>1. /\ UNCHANGED <<case, state, completed, lock, unlocking, pending, todo, apply_deferred,
                      status, runs>>
      /\ pc[Main] = "end" /\ pc' = [pc EXCEPT ![Main] = "none"] /\ ScopeOver
      /\ applied' = applied \cup {m[1] : m \in deferred_systems}
  BY DEF ApplyRest, Goto
<1>2. Actors' = Actors /\ Jobs' = Jobs /\ ThePlan' = ThePlan /\ Main \in Actors
  BY <1>1 DEF Actors, Jobs, ThePlan, case
<1>3. /\ \A s \in Actors : s # Main => pc'[s] = pc[s]
      /\ pc'[Main] = "none" /\ pc' \in [Actors -> Labels]
      /\ \A n \in Jobs : n # Main /\ n \in Actors
  BY <1>1, <1>2 DEF Types, TypeOK, Labels, Compiled, Actors
<1>4. apply_deferred \in [Jobs -> SUBSET Jobs] /\ applied \subseteq ThePlan.jobs
      /\ deferred_systems \subseteq Jobs
  BY DEF Types, TypeOK
<1>5. CommandsOk'
  <2>1. \A j : Left(j)' => Left(j)
    BY <1>1 DEF Left
  <2> QED
    BY <1>1, <1>2, <1>3, <2>1 DEF CommandsOk, state
<1>6. NodesOk'
  BY <1>1, <1>3, <1>5, QuietNodes DEF case, state
<1>7. Types'
  <2>1. lock \in Actors \cup {None} /\ unlocking \in BOOLEAN
    BY DEF Types, TypeOK
  <2>2. applied' \subseteq ThePlan.jobs
    BY <1>1, <1>4 DEF Compiled
  <2> QED
    BY <1>1, <1>3, <1>4, <2>1, <2>2, QuietTypes DEF state
<1>8. LockOk' /\ (~delayed => Progress')
  BY <1>1, <1>2, <1>3, TaskFrame DEF state
<1>9. ReturnedOk'
  <2>1. \A t \in Actors : pc'[t] \in {"none", "end"}
    BY <1>1, <1>3 DEF ScopeOver
  <2>2. \A n \in deferred_systems' : n[1] \in applied'
    BY <1>1 DEF state
  <2> QED
    BY <1>2, <1>3, <2>1, <2>2 DEF ReturnedOk, Idle, ScopeOver
<1> QED
  BY <1>1, <1>6, <1>7, <1>8, <1>9 DEF MultiOk, MultiInv, case

\* The status of a job that is still to be handled is told by its own node only.
LEMMA OwnStatus ==
    ASSUME Types, NodesOk, NEW n \in Jobs, Open(n), ~IsSync(n)
    PROVE  \A k \in Jobs : incoming[k] = 0 /\ k # n => k[1] # n[1]
<1> SUFFICES ASSUME NEW k \in Jobs, incoming[k] = 0, k # n, k[1] = n[1]
             PROVE  FALSE
  OBVIOUS
<1>1. Compiled /\ Counts /\ n = <<n[1]>>
  BY Typed DEF NodesOk, Compiled
<1>2. CASE IsSync(k)
  <2>1. n \in Before(k)
    BY <1>1, <1>2 DEF Compiled
  <2>2. Unhandled(k) = {}
    BY <1>1, Counting
  <2> QED
    BY <2>1, <2>2 DEF Unhandled
<1>3. CASE ~IsSync(k)
  BY <1>1, <1>3 DEF Compiled
<1> QED
  BY <1>2, <1>3

\* What is known of a node that runs.
LEMMA RunningNode ==
    ASSUME Types, NodesOk, NEW n \in Jobs, pc[n] \in {"queued", "run"}
    PROVE  /\ n \in running_jobs /\ ~Event(n) /\ incoming[n] = 0 /\ n \notin ready_systems
           /\ strong_incoming[n] = 0 /\ Open(n)
           /\ \A c \in completed \cup pending : c.index # n
           /\ IsSync(n) => Ok(n)
           /\ ~IsSync(n) => \A k \in Jobs : incoming[k] = 0 /\ k # n => k[1] # n[1]
<1>1. /\ Compiled /\ Counts /\ PlaceOk(n)
  BY Typed DEF NodesOk
<1>2. /\ n \in running_jobs /\ ~Event(n) /\ incoming[n] = 0 /\ n \notin ready_systems
      /\ strong_incoming[n] = 0 /\ Open(n)
  BY <1>1 DEF PlaceOk, Open
<1>3. \A c \in completed \cup pending : c.index # n
  BY <1>2 DEF Event
<1>4. ASSUME IsSync(n) PROVE Ok(n)
  <2>1. Missing(n) = {}
    BY <1>1, <1>2, Counting
  <2>2. <<n[1]>> \in StronglyBefore(n)
    <3>1. StronglyBefore(n) = {<<n[1]>>}
      BY <1>1, <1>4 DEF Compiled
    <3> QED
      BY <3>1
  <2>3. Ok(<<n[1]>>)
    BY <2>1, <2>2 DEF Missing
  <2> QED
    BY <2>3 DEF Ok
<1> QED
  BY <1>2, <1>3, <1>4, OwnStatus

\* The task of a node sets the status of its job.
LEMMA TaskStatus ==
    ASSUME Types, NodesOk, NEW n \in Jobs, pc[n] \in {"queued", "run"}, NEW r \in Statuses,
           status' = IF IsSync(n) THEN status ELSE [status EXCEPT ![n[1]] = r]
    PROVE  /\ \A k \in Jobs : incoming[k] = 0 /\ k # n => status'[k[1]] = status[k[1]]
           /\ \A j \in ThePlan.jobs : <<j>> # n => status'[j] = status[j]
           /\ \A j \in ThePlan.jobs : <<j>> = n => status'[j] = r
           /\ status' \in [ThePlan.jobs -> Statuses]
<1>1. Compiled /\ status \in [ThePlan.jobs -> Statuses] /\ n[1] \in ThePlan.jobs
  BY Typed DEF Compiled
<1>2. CASE IsSync(n)
  <2>1. status' = status
    BY <1>2
  <2>2. \A j \in ThePlan.jobs : <<j>> # n
    BY <1>1, <1>2 DEF Compiled
  <2> QED
    BY <1>1, <2>1, <2>2
<1>3. CASE ~IsSync(n)
  <2>1. /\ n = <<n[1]>>
        /\ \A k \in Jobs : incoming[k] = 0 /\ k # n => k[1] # n[1] /\ k[1] \in ThePlan.jobs
    BY <1>1, <1>3, RunningNode DEF Compiled
  <2>2. /\ status'[n[1]] = r
        /\ \A j \in ThePlan.jobs : j # n[1] => status'[j] = status[j]
    BY <1>1, <1>3
  <2>3. \A j \in ThePlan.jobs : <<j>> = n <=> j = n[1]
    BY <2>1
  <2>4. status' \in [ThePlan.jobs -> Statuses]
    BY <1>1, <1>3
  <2> QED
    BY <2>1, <2>2, <2>3, <2>4
<1> QED
  BY <1>2, <1>3

LEMMA StartJobStep ==
    ASSUME MultiOk, NEW n \in Jobs, StartJob(n)
    PROVE  MultiOk'
<1> USE MultiTyped
<1>1. /\ UNCHANGED <<case, state, completed, lock, unlocking, pending, todo, apply_deferred,
                      applied, runs>>
      /\ pc[n] = "queued" /\ pc' = [pc EXCEPT ![n] = "run"] /\ apply_deferred[n] = {}
      /\ status' = IF IsSync(n) THEN status ELSE [status EXCEPT ![n[1]] = "running"]
  BY DEF StartJob, Goto
<1>2. Actors' = Actors /\ Jobs' = Jobs /\ ThePlan' = ThePlan /\ n \in Actors /\ n # Main
  BY <1>1 DEF Actors, Jobs, ThePlan, case, Compiled
<1>3. /\ \A s \in Actors : s # n => pc'[s] = pc[s]
      /\ pc'[n] = "run" /\ pc' \in [Actors -> Labels]
      /\ Jobs \subseteq Actors
  BY <1>1, <1>2 DEF Types, TypeOK, Labels, Actors
<1>4. /\ \A k \in Jobs : incoming[k] = 0 /\ k # n => status'[k[1]] = status[k[1]]
      /\ \A j \in ThePlan.jobs : <<j>> # n => status'[j] = status[j]
      /\ \A j \in ThePlan.jobs : <<j>> = n => status'[j] = "running"
      /\ status' \in [ThePlan.jobs -> Statuses]
  BY <1>1, TaskStatus DEF Statuses
<1>5. /\ n \in running_jobs /\ ~Event(n) /\ incoming[n] = 0 /\ n \notin ready_systems
      /\ Open(n) /\ \A c \in completed \cup pending : c.index # n
  BY <1>1, RunningNode
<1>6. /\ \A k \in Jobs : (Event(k)' <=> Event(k)) /\ (Open(k)' <=> Open(k))
      /\ \A c \in completed \cup pending : c.index \in Jobs /\ incoming[c.index] = 0
  <2>1. \A c \in completed \cup pending : c.index \in Jobs /\ incoming[c.index] = 0
    <3> TAKE c \in completed \cup pending
    <3>1. c.index \in Jobs /\ Event(c.index)
      BY Typed DEF Event
    <3> QED
      BY <3>1 DEF PlaceOk
  <2> QED
    BY <1>1, <2>1 DEF Event, Open, state
<1>7. Counts'
  <2>1. \A j \in ThePlan.jobs : ~Open(<<j>>) => status'[j] = status[j]
    BY <1>4, <1>5
  <2> QED
    BY <1>1, <1>6, <2>1, SameCounts DEF state, case
<1>8. EventsOk'
  <2>1. \A c \in completed \cup pending : Ok(c.index)' <=> Ok(c.index)
    BY <1>4, <1>5, <1>6 DEF Ok
  <2> QED
    BY <1>1, <1>2, <2>1 DEF EventsOk, NO_OP, state
<1>9. ASSUME NEW k \in Jobs PROVE PlaceOk(k)'
  <2>1. PlaceOk(k) /\ (pc'[k] = "none" <=> pc[k] = "none")
    BY <1>1, <1>3
  <2>2. pc'[k] \in {"queued", "run"} <=> pc[k] \in {"queued", "run"}
    BY <1>1, <1>3
  <2> QED
    BY <1>1, <1>6, <2>1, <2>2 DEF PlaceOk, state
<1>10. ASSUME NEW j \in ThePlan.jobs PROVE StatusOk(j)'
  <2>1. StatusOk(j) /\ <<j>> \in Jobs
    BY DEF Compiled
  <2>2. CASE <<j>> = n
    BY <1>1, <1>3, <1>4, <1>5, <2>1, <2>2 DEF StatusOk, state
  <2>3. CASE <<j>> # n
    BY <1>1, <1>3, <1>4, <2>1, <2>3 DEF StatusOk, state
  <2> QED
    BY <2>2, <2>3
<1>11. CommandsOk'
  <2>1. ASSUME NEW j \in ThePlan.deferred \ ThePlan.noop, Left(j)'
        PROVE  Left(j)
    <3>1. j \in ThePlan.jobs
      BY DEF Compiled
    <3>2. <<j>> # n
      BY <1>4, <2>1, <3>1 DEF Left
    <3> QED
      BY <1>1, <1>4, <2>1, <3>1, <3>2 DEF Left
  <2>2. \A k \in Jobs : apply_deferred'[k] # {} => pc'[k] = "queued"
    BY <1>1, <1>3 DEF CommandsOk
  <2> QED
    BY <1>1, <1>2, <2>1, <2>2 DEF CommandsOk, state
<1>12. NodesOk'
  BY <1>2, <1>7, <1>8, <1>9, <1>10, <1>11 DEF NodesOk
<1>13. Types'
  <2>1. TypeOK'
    BY <1>1, <1>2, <1>3, <1>4 DEF Types, TypeOK, state, case, Labels
  <2> QED
    BY <1>1, <1>2, <1>4, <2>1 DEF Types, NothingLeft, case
<1>14. LockOk' /\ (~delayed => Progress')
  BY <1>1, <1>2, <1>3, TaskFrame DEF state
<1>15. ReturnedOk'
  BY <1>1, <1>2, <1>3 DEF ReturnedOk, Idle, Compiled
<1> QED
  BY <1>1, <1>12, <1>13, <1>14, <1>15 DEF MultiOk, MultiInv, case

LEMMA FinishJobStep ==
    ASSUME MultiOk, NEW n \in Jobs, FinishJob(n)
    PROVE  MultiOk'
<1> USE MultiTyped
<1>0. PICK r \in {"ok", "error", "skipped"} :
          /\ NO_OP(ThePlan, n) => r = "ok"
          /\ status' = IF IsSync(n) THEN status ELSE [status EXCEPT ![n[1]] = r]
          /\ completed' = completed \cup
                {Completed(n, DEFERRED(ThePlan, n) /\ ~NO_OP(ThePlan, n) /\ r # "skipped",
                           r = "ok")}
  BY DEF FinishJob
<1> DEFINE e == Completed(n, DEFERRED(ThePlan, n) /\ ~NO_OP(ThePlan, n) /\ r # "skipped", r = "ok")
<1>1. /\ UNCHANGED <<case, state, lock, unlocking, pending, todo, apply_deferred, applied, runs>>
      /\ pc[n] = "run" /\ pc' = [pc EXCEPT ![n] = "try"]
  BY DEF FinishJob, Goto
<1>2. Actors' = Actors /\ Jobs' = Jobs /\ ThePlan' = ThePlan /\ n \in Actors /\ n # Main
  BY <1>1 DEF Actors, Jobs, ThePlan, case, Compiled
<1>3. /\ \A s \in Actors : s # n => pc'[s] = pc[s]
      /\ pc'[n] = "try" /\ pc' \in [Actors -> Labels]
      /\ Jobs \subseteq Actors
  BY <1>1, <1>2 DEF Types, TypeOK, Labels, Actors
<1>4. /\ \A k \in Jobs : incoming[k] = 0 /\ k # n => status'[k[1]] = status[k[1]]
      /\ \A j \in ThePlan.jobs : <<j>> # n => status'[j] = status[j]
      /\ \A j \in ThePlan.jobs : <<j>> = n => status'[j] = r
      /\ status' \in [ThePlan.jobs -> Statuses]
  <2>1. r \in Statuses
    BY DEF Statuses
  <2> QED
    BY <1>0, <1>1, <2>1, TaskStatus
<1>5. /\ n \in running_jobs /\ ~Event(n) /\ incoming[n] = 0 /\ n \notin ready_systems
      /\ Open(n) /\ \A c \in completed \cup pending : c.index # n
      /\ IsSync(n) => Ok(n)
  BY <1>1, RunningNode
<1>6. /\ e.index = n /\ e.successed = (r = "ok") /\ e \in completed'
      /\ e.deferred = (DEFERRED(ThePlan, n) /\ ~NO_OP(ThePlan, n) /\ r # "skipped")
      /\ completed' = completed \cup {e}
      /\ e \in [index : Jobs, deferred : BOOLEAN, successed : BOOLEAN]
  BY <1>0 DEF Completed, DEFERRED
<1> HIDE DEF e
<1>7. /\ \A k \in Jobs : (Event(k)' <=> Event(k) \/ k = n) /\ (Open(k)' <=> Open(k))
      /\ \A c \in completed \cup pending : c.index \in Jobs /\ incoming[c.index] = 0
  <2>1. \A c \in completed \cup pending : c.index \in Jobs /\ incoming[c.index] = 0
    <3> TAKE c \in completed \cup pending
    <3>1. c.index \in Jobs /\ Event(c.index)
      BY Typed DEF Event
    <3> QED
      BY <3>1 DEF PlaceOk
  <2>2. \A k \in Jobs : Event(k)' <=> Event(k) \/ k = n
    BY <1>1, <1>6 DEF Event
  <2> QED
    BY <1>1, <1>5, <2>1, <2>2 DEF Open, state
<1>8. Counts'
  <2>1. \A j \in ThePlan.jobs : ~Open(<<j>>) => status'[j] = status[j]
    BY <1>4, <1>5
  <2> QED
    BY <1>1, <1>7, <2>1, SameCounts DEF state, case
<1>9. EventsOk'
  <2>1. \A c \in completed \cup pending : Ok(c.index)' <=> Ok(c.index)
    BY <1>4, <1>5, <1>7 DEF Ok
  <2>2. e.successed <=> Ok(n)'
    <3>1. CASE IsSync(n)
      BY <1>0, <1>5, <1>6, <3>1 DEF Ok, NO_OP
    <3>2. CASE ~IsSync(n)
      <4>1. n = <<n[1]>> /\ n[1] \in ThePlan.jobs
        BY <3>2 DEF Compiled
      <4> QED
        BY <1>4, <1>6, <4>1 DEF Ok
    <3> QED
      BY <3>1, <3>2
  <2>3. \A c, d \in completed' \cup pending' : c.index = d.index => c = d
    BY <1>1, <1>5, <1>6 DEF EventsOk
  <2>4. \A c \in completed' : c.index \in running_jobs' /\ (c.successed <=> Ok(c.index)')
    BY <1>1, <1>5, <1>6, <2>1, <2>2 DEF EventsOk, state
  <2>5. ASSUME NEW c \in pending'
        PROVE  /\ c.index \notin running_jobs'
               /\ c.successed => NO_OP(ThePlan, c.index)'
               /\ IsSync(c.index) => (c.successed <=> Ok(c.index)')
    <3>1. NO_OP(ThePlan, c.index)' <=> NO_OP(ThePlan, c.index)
      BY <1>2 DEF NO_OP
    <3> QED
      BY <1>1, <2>1, <2>5, <3>1 DEF EventsOk, state
  <2> QED
    BY <2>3, <2>4, <2>5 DEF EventsOk
<1>10. ASSUME NEW k \in Jobs PROVE PlaceOk(k)'
  <2>1. PlaceOk(k)
    OBVIOUS
  <2>2. CASE k = n
    BY <1>1, <1>3, <1>5, <1>7, <2>1, <2>2 DEF PlaceOk, state
  <2>3. CASE k # n
    <3>1. pc'[k] = pc[k]
      BY <1>3, <2>3
    <3> QED
      BY <1>1, <1>7, <2>1, <2>3, <3>1 DEF PlaceOk, state
  <2> QED
    BY <2>2, <2>3
<1>11. ASSUME NEW j \in ThePlan.jobs PROVE StatusOk(j)'
  <2>1. StatusOk(j) /\ <<j>> \in Jobs
    BY DEF Compiled
  <2>2. CASE <<j>> = n
    BY <1>1, <1>3, <1>4, <1>5, <2>1, <2>2 DEF StatusOk, state
  <2>3. CASE <<j>> # n
    BY <1>1, <1>3, <1>4, <2>1, <2>3 DEF StatusOk, state
  <2> QED
    BY <2>2, <2>3
<1>12. CommandsOk'
  <2>1. ASSUME NEW j \in ThePlan.deferred \ ThePlan.noop, Left(j)'
        PROVE  \/ <<j>> \in deferred_systems'
               \/ \E k \in Jobs : <<j>> \in apply_deferred'[k]
               \/ \E c \in completed' : c.index = <<j>> /\ c.deferred
    <3>1. j \in ThePlan.jobs /\ ~IsSync(<<j>>) /\ <<j>>[1] = j
      BY DEF Compiled
    <3>2. CASE <<j>> = n
      <4>1. r \in {"ok", "error"}
        BY <1>4, <2>1, <3>1, <3>2 DEF Left
      <4>2. DEFERRED(ThePlan, n) /\ ~NO_OP(ThePlan, n)
        BY <2>1, <3>1, <3>2 DEF DEFERRED, NO_OP
      <4> QED
        BY <1>6, <3>2, <4>1, <4>2
    <3>3. CASE <<j>> # n
      <4>1. Left(j)
        BY <1>1, <1>4, <2>1, <3>1, <3>3 DEF Left
      <4> QED
        BY <1>1, <1>6, <2>1, <4>1 DEF CommandsOk, state
    <3> QED
      BY <3>2, <3>3
  <2>2. \A k \in Jobs : apply_deferred'[k] # {} => pc'[k] = "queued"
    <3>1. apply_deferred[n] = {}
      BY <1>1 DEF CommandsOk
    <3> QED
      BY <1>1, <1>3, <3>1 DEF CommandsOk
  <2> QED
    BY <1>2, <2>1, <2>2 DEF CommandsOk
<1>13. NodesOk'
  BY <1>2, <1>8, <1>9, <1>10, <1>11, <1>12 DEF NodesOk
<1>14. Types'
  <2>1. TypeOK'
    BY <1>1, <1>2, <1>3, <1>4, <1>6 DEF Types, TypeOK, state, case, Labels
  <2> QED
    BY <1>1, <1>2, <1>4, <2>1 DEF Types, NothingLeft, case
<1>15. LockOk' /\ (~delayed => Progress')
  BY <1>1, <1>2, <1>3, <1>6, TaskFrame DEF state
<1>16. ReturnedOk'
  BY <1>1, <1>2, <1>3 DEF ReturnedOk, Idle, Compiled
<1> QED
  BY <1>1, <1>13, <1>14, <1>15, <1>16 DEF MultiOk, MultiInv, case

\* n is spawned, and the placeholders among what is ready are passed if it is exclusive.
SpawnedAs(t, n, noops) ==
    /\ n \in todo /\ noops \subseteq ready_systems \ {n}
    /\ \A m \in running_jobs : <<n, m>> \notin schedule.conflict
    /\ noops # {} => EXCLUSIVE(ThePlan, n)
    /\ \A m \in noops : NO_OP(ThePlan, m)
    /\ running_jobs' = running_jobs \cup {n}
    /\ ready_systems' = (ready_systems \ {n}) \ noops
    /\ todo' = todo \ (noops \cup {n})
    /\ pending' = {Completed(m, FALSE, TRUE) : m \in noops}
    /\ pc' = [pc EXCEPT ![n] = "queued"]
    /\ \/ /\ EXCLUSIVE(ThePlan, n)
          /\ apply_deferred' = [apply_deferred EXCEPT ![n] = deferred_systems]
          /\ deferred_systems' = {}
       \/ /\ ~EXCLUSIVE(ThePlan, n)
          /\ UNCHANGED <<apply_deferred, deferred_systems>>

LEMMA SpawnParts ==
    ASSUME NEW t, SpawnOne(t)
    PROVE  /\ \E n \in todo : \E noops \in SUBSET ready_systems : SpawnedAs(t, n, noops)
           /\ UNCHANGED <<case, incoming, strong_incoming, completed, lock, unlocking, outcome, runs>>
           /\ pc[t] = "spawn" /\ pending = {}
<1>1. PICK n \in todo :
        LET rest == ready_systems \ {n}
            noops == {m \in rest : EXCLUSIVE(ThePlan, n) /\ NO_OP(ThePlan, m)}
        IN  /\ \A m \in running_jobs : <<n, m>> \notin schedule.conflict
            /\ running_jobs' = running_jobs \cup {n}
            /\ \/ /\ EXCLUSIVE(ThePlan, n)
                  /\ apply_deferred' = [apply_deferred EXCEPT ![n] = deferred_systems]
                  /\ deferred_systems' = {}
               \/ /\ ~EXCLUSIVE(ThePlan, n)
                  /\ UNCHANGED <<apply_deferred, deferred_systems>>
            /\ Goto(n, "queued")
            /\ ready_systems' = rest \ noops
            /\ todo' = todo \ (noops \cup {n})
            /\ pending' = {Completed(m, FALSE, TRUE) : m \in noops}
  BY DEF SpawnOne
<1> DEFINE noops == {m \in ready_systems \ {n} : EXCLUSIVE(ThePlan, n) /\ NO_OP(ThePlan, m)}
<1>2. SpawnedAs(t, n, noops)
  BY <1>1 DEF SpawnedAs, Goto
<1>3. /\ UNCHANGED <<case, incoming, strong_incoming, completed, lock, unlocking, outcome, runs>>
      /\ pc[t] = "spawn" /\ pending = {}
  BY DEF SpawnOne
<1> QED
  BY <1>2, <1>3

\* What it does to the nodes: n and the placeholders were ready, and are still open.
LEMMA SpawnNodes ==
    ASSUME MultiOk, NEW t \in Actors, SpawnOne(t),
           NEW n \in todo, NEW noops \in SUBSET ready_systems, SpawnedAs(t, n, noops)
    PROVE  /\ n \in ready_systems /\ n \in Jobs /\ n \in Actors /\ n # Main
           /\ ready_systems \subseteq Jobs /\ running_jobs \subseteq Jobs
           /\ deferred_systems \subseteq Jobs /\ todo \subseteq ready_systems
           /\ apply_deferred \in [Jobs -> SUBSET Jobs]
           /\ \A k \in ready_systems : /\ incoming[k] = 0 /\ k \notin running_jobs /\ ~Event(k)
                                       /\ strong_incoming[k] = 0 /\ pc[k] = "none" /\ Open(k)
           /\ running_jobs' = running_jobs \cup {n}
           /\ ready_systems' = (ready_systems \ {n}) \ noops
           /\ todo' = todo \ (noops \cup {n}) /\ noops \subseteq ready_systems \ {n}
           /\ \A m \in noops : NO_OP(ThePlan, m)
           /\ noops # {} => EXCLUSIVE(ThePlan, n)
           /\ \A s \in Actors : s # n => pc'[s] = pc[s]
           /\ pc'[n] = "queued" /\ pc' \in [Actors -> Labels] /\ t # n /\ pc'[t] = "spawn"
           /\ Jobs \subseteq Actors
           /\ \A c \in pending' : /\ c.index \in noops /\ c = Completed(c.index, FALSE, TRUE)
                                  /\ c.successed = TRUE
           /\ \A m \in noops : \E c \in pending' : c.index = m
           /\ pending' \subseteq [index : Jobs, deferred : BOOLEAN, successed : BOOLEAN]
           /\ \A k \in Jobs : /\ Event(k)' <=> Event(k) \/ k \in noops
                              /\ Open(k)' <=> Open(k)
<1> USE MultiTyped
<1>1. SpawnedAs(t, n, noops)
  OBVIOUS
<1>2. /\ UNCHANGED <<case, incoming, strong_incoming, completed, lock, unlocking, outcome, runs>>
      /\ pc[t] = "spawn" /\ pending = {}
  BY SpawnParts
<1>3. Actors' = Actors /\ Jobs' = Jobs /\ ThePlan' = ThePlan
  BY <1>2 DEF Actors, Jobs, ThePlan, case
<1>4. /\ n \in ready_systems /\ n \in Jobs /\ n \in Actors /\ n # Main
      /\ ready_systems \subseteq Jobs /\ running_jobs \subseteq Jobs
      /\ deferred_systems \subseteq Jobs /\ todo \subseteq ready_systems
      /\ apply_deferred \in [Jobs -> SUBSET Jobs]
  BY DEF MultiOk, Types, TypeOK, Compiled, Actors
<1>5. /\ \A k \in ready_systems : /\ incoming[k] = 0 /\ k \notin running_jobs /\ ~Event(k)
                                  /\ strong_incoming[k] = 0 /\ pc[k] = "none" /\ Open(k)
  BY <1>4 DEF PlaceOk, Open
<1>6. /\ running_jobs' = running_jobs \cup {n}
      /\ ready_systems' = (ready_systems \ {n}) \ noops
      /\ todo' = todo \ (noops \cup {n}) /\ noops \subseteq ready_systems \ {n}
      /\ \A m \in noops : NO_OP(ThePlan, m)
      /\ noops # {} => EXCLUSIVE(ThePlan, n)
  BY <1>1 DEF SpawnedAs
<1>7. /\ \A s \in Actors : s # n => pc'[s] = pc[s]
      /\ pc'[n] = "queued" /\ pc' \in [Actors -> Labels] /\ t # n /\ pc'[t] = "spawn"
      /\ Jobs \subseteq Actors
  BY <1>1, <1>2, <1>4, <1>5 DEF SpawnedAs, Types, TypeOK, Labels, Actors
<1>8. /\ \A c \in pending' : /\ c.index \in noops /\ c = Completed(c.index, FALSE, TRUE)
                             /\ c.successed = TRUE
      /\ \A m \in noops : \E c \in pending' : c.index = m
      /\ pending' \subseteq [index : Jobs, deferred : BOOLEAN, successed : BOOLEAN]
  <2>1. \A m : /\ Completed(m, FALSE, TRUE).index = m /\ Completed(m, FALSE, TRUE).successed = TRUE
               /\ m \in Jobs => Completed(m, FALSE, TRUE) \in
                     [index : Jobs, deferred : BOOLEAN, successed : BOOLEAN]
    BY DEF Completed
  <2>2. pending' = {Completed(m, FALSE, TRUE) : m \in noops}
    BY <1>1 DEF SpawnedAs
  <2>3. \A c \in pending' : \E m \in noops : c = Completed(m, FALSE, TRUE)
    BY <2>2
  <2>4. \A m \in noops : Completed(m, FALSE, TRUE) \in pending'
    BY <2>2
  <2>5. noops \subseteq Jobs
    BY <1>4, <1>6
  <2> QED
    BY <2>1, <2>3, <2>4, <2>5
<1>9. \A k \in Jobs : /\ Event(k)' <=> Event(k) \/ k \in noops
                      /\ Open(k)' <=> Open(k)
  <2> TAKE k \in Jobs
  <2>1. Event(k)' <=> Event(k) \/ k \in noops
    BY <1>2, <1>8 DEF Event
  <2>2. k \in ready_systems' <=> k \in ready_systems /\ k # n /\ k \notin noops
    BY <1>6
  <2>3. k \in running_jobs' <=> k \in running_jobs \/ k = n
    BY <1>6
  <2>4. k \in noops \/ k = n => k \in ready_systems
    BY <1>4, <1>6
  <2> QED
    BY <1>2, <2>1, <2>2, <2>3, <2>4 DEF Open
<1> QED
  BY <1>4, <1>5, <1>6, <1>7, <1>8, <1>9

LEMMA SpawnOneStep ==
    ASSUME MultiOk, NEW t \in Actors, SpawnOne(t)
    PROVE  MultiOk'
<1> USE MultiTyped
<1>1. PICK n \in todo, noops \in SUBSET ready_systems : SpawnedAs(t, n, noops)
  BY SpawnParts
<1>2. /\ UNCHANGED <<case, incoming, strong_incoming, completed, lock, unlocking, outcome, runs>>
      /\ pc[t] = "spawn" /\ pending = {}
  BY SpawnParts
<1>3. Actors' = Actors /\ Jobs' = Jobs /\ ThePlan' = ThePlan
  BY <1>2 DEF Actors, Jobs, ThePlan, case
<1>4. /\ n \in ready_systems /\ n \in Jobs /\ n \in Actors /\ n # Main
      /\ ready_systems \subseteq Jobs /\ running_jobs \subseteq Jobs
      /\ deferred_systems \subseteq Jobs /\ todo \subseteq ready_systems
      /\ apply_deferred \in [Jobs -> SUBSET Jobs]
  BY DEF MultiOk, Types, TypeOK, Compiled, Actors
<1>5. /\ \A k \in ready_systems : /\ incoming[k] = 0 /\ k \notin running_jobs /\ ~Event(k)
                                  /\ strong_incoming[k] = 0 /\ pc[k] = "none" /\ Open(k)
  BY <1>4 DEF PlaceOk, Open
<1>6. /\ running_jobs' = running_jobs \cup {n}
      /\ ready_systems' = (ready_systems \ {n}) \ noops
      /\ todo' = todo \ (noops \cup {n}) /\ noops \subseteq ready_systems \ {n}
      /\ \A m \in noops : NO_OP(ThePlan, m)
      /\ noops # {} => EXCLUSIVE(ThePlan, n)
  BY <1>1 DEF SpawnedAs
<1>7. /\ \A s \in Actors : s # n => pc'[s] = pc[s]
      /\ pc'[n] = "queued" /\ pc' \in [Actors -> Labels] /\ t # n /\ pc'[t] = "spawn"
      /\ Jobs \subseteq Actors
  BY <1>1, <1>2, <1>4, <1>5 DEF SpawnedAs, Types, TypeOK, Labels, Actors
<1>8. /\ \A c \in pending' : /\ c.index \in noops /\ c = Completed(c.index, FALSE, TRUE)
                             /\ c.successed = TRUE
      /\ \A m \in noops : \E c \in pending' : c.index = m
      /\ pending' \subseteq [index : Jobs, deferred : BOOLEAN, successed : BOOLEAN]
  BY <1>1, SpawnNodes
<1>9. \A k \in Jobs : /\ Event(k)' <=> Event(k) \/ k \in noops
                      /\ Open(k)' <=> Open(k)
  BY <1>1, SpawnNodes
<1>10. Counts'
  BY <1>2, <1>9, SameCounts DEF case, outcome
<1>11. EventsOk'
  <2>1. \A k : Ok(k)' <=> Ok(k)
    BY <1>2 DEF Ok, outcome
  <2>2. \A c \in completed : c.index \in running_jobs
    BY DEF EventsOk
  <2>3. \A c, d \in completed' \cup pending' : c.index = d.index => c = d
    <3>1. \A c \in completed : c.index \notin noops
      BY <1>5, <1>6, <2>2
    <3>2. \A c, d \in completed : c.index = d.index => c = d
      BY DEF EventsOk
    <3>3. \A c, d \in pending' : c.index = d.index => c = d
      BY <1>8
    <3>4. \A c \in pending' : c.index \in noops
      BY <1>8
    <3> QED
      BY <1>2, <3>1, <3>2, <3>3, <3>4
  <2>4. \A c \in completed' : c.index \in running_jobs' /\ (c.successed <=> Ok(c.index)')
    BY <1>2, <1>6, <2>1 DEF EventsOk
  <2>5. ASSUME NEW c \in pending'
        PROVE  /\ c.index \notin running_jobs'
               /\ c.successed => NO_OP(ThePlan, c.index)'
               /\ IsSync(c.index) => (c.successed <=> Ok(c.index)')
    <3> DEFINE k == c.index
    <3>1. /\ k \in noops /\ c.successed = TRUE /\ k \in ready_systems /\ k \in Jobs /\ k # n
          /\ k \notin running_jobs'
      BY <1>4, <1>5, <1>6, <1>8
    <3>2. NO_OP(ThePlan, k)'
      BY <1>3, <1>6, <3>1 DEF NO_OP
    <3>3. ASSUME IsSync(k) PROVE Ok(k)
      <4>1. Missing(k) = {}
        BY <1>5, <3>1, Counting
      <4>2. StronglyBefore(k) = {<<k[1]>>}
        BY <3>1, <3>3 DEF Compiled
      <4>3. Ok(<<k[1]>>)
        BY <4>1, <4>2 DEF Missing
      <4> QED
        BY <4>3 DEF Ok
    <3> QED
      BY <2>1, <3>1, <3>2, <3>3
  <2> QED
    BY <2>3, <2>4, <2>5 DEF EventsOk
<1>12. ASSUME NEW k \in Jobs PROVE PlaceOk(k)'
  <2>1. PlaceOk(k)
    OBVIOUS
  <2>2. CASE k = n
    <3>1. ~Event(n)' /\ n \in running_jobs' /\ n \notin ready_systems'
      BY <1>4, <1>5, <1>6, <1>9
    <3> QED
      BY <1>2, <1>4, <1>5, <1>7, <2>2, <3>1 DEF PlaceOk
  <2>3. CASE k \in noops
    <3>1. /\ k \in ready_systems /\ k # n /\ k \notin ready_systems' /\ k \notin running_jobs'
          /\ Event(k)'
      BY <1>5, <1>6, <1>9, <2>3
    <3> QED
      BY <1>2, <1>5, <1>7, <2>3, <3>1 DEF PlaceOk
  <2>4. CASE k # n /\ k \notin noops
    <3>1. /\ k \in ready_systems' <=> k \in ready_systems
          /\ k \in running_jobs' <=> k \in running_jobs
          /\ Event(k)' <=> Event(k)
          /\ pc'[k] = pc[k]
      BY <1>6, <1>7, <1>9, <2>4
    <3> QED
      BY <1>2, <2>1, <3>1 DEF PlaceOk
  <2> QED
    BY <2>2, <2>3, <2>4
<1>13. ASSUME NEW j \in ThePlan.jobs PROVE StatusOk(j)'
  <2>1. StatusOk(j) /\ <<j>> \in Jobs
    BY DEF Compiled
  <2>2. status'[j] = status[j]
    BY <1>2 DEF outcome
  <2>3. CASE <<j>> = n
    BY <1>4, <1>5, <1>7, <2>1, <2>2, <2>3 DEF StatusOk
  <2>4. CASE <<j>> \in noops
    <3>1. \E c \in pending' : c.index = <<j>>
      BY <1>8, <2>4
    <3>2. <<j>> # n /\ <<j>> \in ready_systems
      BY <1>6, <2>4
    <3>3. status[j] = "waiting" /\ pc'[<<j>>] = "none"
      BY <1>5, <1>7, <2>1, <3>2 DEF StatusOk
    <3> QED
      BY <2>2, <3>1, <3>3 DEF StatusOk
  <2>5. CASE <<j>> # n /\ <<j>> \notin noops
    <3>1. /\ <<j>> \in ready_systems' <=> <<j>> \in ready_systems
          /\ ~\E c \in pending' : c.index = <<j>>
          /\ pc'[<<j>>] = pc[<<j>>]
      BY <1>6, <1>7, <1>8, <2>1, <2>5
    <3> QED
      BY <1>2, <2>1, <2>2, <3>1 DEF StatusOk
  <2> QED
    BY <2>3, <2>4, <2>5
<1>14. CommandsOk' /\ apply_deferred' \in [Jobs -> SUBSET Jobs] /\ deferred_systems' \subseteq Jobs
  <2>1. apply_deferred[n] = {}
    BY <1>4, <1>5 DEF CommandsOk
  <2>2. \A j : Left(j)' <=> Left(j)
    BY <1>2 DEF Left, outcome
  <2>3. CASE UNCHANGED <<apply_deferred, deferred_systems>>
    <3>1. \A k \in Jobs : apply_deferred'[k] # {} => pc'[k] = "queued"
      BY <1>7, <2>3 DEF CommandsOk
    <3> QED
      BY <1>2, <1>3, <1>4, <2>2, <2>3, <3>1 DEF CommandsOk
  <2>4. CASE /\ apply_deferred' = [apply_deferred EXCEPT ![n] = deferred_systems]
             /\ deferred_systems' = {}
    <3>1. /\ apply_deferred'[n] = deferred_systems
          /\ \A k \in Jobs : k # n => apply_deferred'[k] = apply_deferred[k]
          /\ apply_deferred' \in [Jobs -> SUBSET Jobs]
      BY <1>4, <2>4
    <3>2. \A k \in Jobs : apply_deferred'[k] # {} => pc'[k] = "queued"
      BY <1>7, <3>1 DEF CommandsOk
    <3>3. ASSUME NEW j \in ThePlan.deferred \ ThePlan.noop, Left(j)'
          PROVE  \/ <<j>> \in deferred_systems'
                 \/ \E k \in Jobs : <<j>> \in apply_deferred'[k]
                 \/ \E c \in completed' : c.index = <<j>> /\ c.deferred
      <4>1. \/ <<j>> \in deferred_systems
            \/ \E k \in Jobs : <<j>> \in apply_deferred[k]
            \/ \E c \in completed : c.index = <<j>> /\ c.deferred
        BY <2>2, <3>3 DEF CommandsOk
      <4> QED
        BY <1>2, <1>4, <2>1, <3>1, <4>1
    <3> QED
      BY <1>3, <2>4, <3>1, <3>2, <3>3 DEF CommandsOk
  <2> QED
    BY <1>1, <2>3, <2>4 DEF SpawnedAs
<1>15. NodesOk'
  BY <1>3, <1>10, <1>11, <1>12, <1>13, <1>14 DEF NodesOk
<1>16. Types'
  <2>1. completed' \cup pending' \subseteq [index : Jobs, deferred : BOOLEAN, successed : BOOLEAN]
    BY <1>2, <1>8 DEF Types, TypeOK
  <2>2. /\ ready_systems' \subseteq Jobs /\ running_jobs' \subseteq Jobs
        /\ todo' \subseteq ready_systems' /\ todo' \subseteq Jobs
    BY <1>4, <1>6
  <2>3. TypeOK'
    BY <1>2, <1>3, <1>7, <1>14, <2>1, <2>2 DEF Types, TypeOK, outcome, case, Labels
  <2> QED
    BY <1>2, <1>3, <2>3 DEF Types, NothingLeft, case, outcome
<1>17. lock = t /\ ~unlocking
  BY <1>2 DEF LockOk, Scheduling
<1>18. LockOk'
  <2>1. \A s \in Actors : pc'[s] \in Scheduling <=> lock = s /\ ~unlocking
    BY <1>4, <1>5, <1>7 DEF LockOk, Scheduling
  <2> QED
    BY <1>2, <1>3, <1>7, <1>17, <2>1 DEF LockOk, Compiled, case
<1>19. ASSUME ~delayed PROVE Progress'
  <2>1. Progress /\ lock # None
    BY <1>17, <1>19 DEF Compiled
  <2>2. completed # {} \/ \A k \in ready_systems \ todo : Conflicted(k)
    BY <1>2, <1>17, <2>1 DEF Progress
  <2>3. \A k : Conflicted(k) => Conflicted(k)'
    BY <1>2, <1>6 DEF Conflicted, case
  <2>4. completed # {} \/ \A k \in ready_systems' \ todo' : Conflicted(k)'
    BY <1>6, <2>2, <2>3
  <2>5. pending' # {} => \E m \in running_jobs' : EXCLUSIVE(ThePlan, m)'
    <3>1. pending' # {} => EXCLUSIVE(ThePlan, n)
      BY <1>6, <1>8
    <3>2. EXCLUSIVE(ThePlan, n)' <=> EXCLUSIVE(ThePlan, n)
      BY <1>3 DEF EXCLUSIVE
    <3> QED
      BY <1>6, <3>1, <3>2
  <2> QED
    BY <1>2, <1>3, <1>7, <1>17, <2>1, <2>4, <2>5 DEF Progress, Scheduling
<1>20. ReturnedOk'
  <2>1. ~Idle /\ pc'[Main] = pc[Main]
    BY <1>2, <1>4, <1>7 DEF Compiled
  <2> QED
    BY <2>1 DEF ReturnedOk, Idle
<1> QED
  BY <1>2, <1>15, <1>16, <1>18, <1>19, <1>20 DEF MultiOk, MultiInv, case

LEMMA DrainStep ==
    ASSUME MultiOk, NEW t \in Actors, Drain(t)
    PROVE  MultiOk'
<1> USE MultiTyped
<1>1. /\ UNCHANGED <<case, lock, unlocking, apply_deferred, applied, runs>>
      /\ pc[t] = "drain" /\ pending = {}
  BY DEF Drain
<1>2. Actors' = Actors /\ Jobs' = Jobs /\ ThePlan' = ThePlan
  BY <1>1 DEF Actors, Jobs, ThePlan, case
<1>3. lock = t /\ ~unlocking /\ lock # None /\ todo = {}
  BY <1>1 DEF LockOk, Scheduling, Compiled
<1>4. ASSUME NEW c \in completed, completed' = completed \ {c}, Handle(c, {}, FALSE),
             UNCHANGED <<pc, todo>>
      PROVE  MultiOk'
  <2>1. Handles(c, FALSE)
    BY <1>1, <1>4 DEF Handles
  <2>2. Types' /\ NodesOk'
    BY <1>1, <1>4, <2>1, HandleStays
  <2>3. LockOk'
    BY <1>1, <1>2, <1>3, <1>4 DEF LockOk, case
  <2>4. Progress'
    BY <1>1, <1>2, <1>3, <1>4 DEF Progress, Scheduling
  <2>5. ReturnedOk'
    BY <1>1, <1>4 DEF ReturnedOk, Idle
  <2> QED
    BY <1>1, <2>2, <2>3, <2>4, <2>5 DEF MultiOk, MultiInv, case
<1>5. ASSUME completed = {}, todo' = ready_systems, Goto(t, "spawn"),
             UNCHANGED <<state, completed, pending, status>>
      PROVE  MultiOk'
  <2>1. /\ \A s \in Actors : s # t => pc'[s] = pc[s]
        /\ pc'[t] = "spawn" /\ pc' \in [Actors -> Labels]
    BY <1>1, <1>5 DEF Goto, Types, TypeOK, Labels
  <2>2. NodesOk'
    BY <1>1, <1>5, <2>1, QuietStep DEF case, state, Actors
  <2>3. Types'
    <3>1. TypeOK'
      BY <1>1, <1>2, <1>5, <2>1 DEF Types, TypeOK, state, case, Labels
    <3> QED
      BY <1>1, <1>2, <1>5, <3>1 DEF Types, NothingLeft, case
  <2>4. LockOk'
    <3>1. \A s \in Actors : pc'[s] \in Scheduling <=> lock = s /\ ~unlocking
      BY <1>1, <2>1 DEF LockOk, Scheduling
    <3> QED
      BY <1>1, <1>2, <1>3, <1>5, <2>1, <3>1 DEF LockOk, case
  <2>5. Progress'
    BY <1>1, <1>2, <1>3, <1>5, <2>1 DEF Progress, state
  <2>6. ReturnedOk'
    BY <1>1, <1>2, <2>1 DEF ReturnedOk, Idle, Compiled, Scheduling
  <2> QED
    BY <1>1, <2>2, <2>3, <2>4, <2>5, <2>6 DEF MultiOk, MultiInv, case
<1> QED
  BY <1>4, <1>5 DEF Drain

LEMMA HandleRestStep ==
    ASSUME MultiOk, NEW t \in Actors, HandleRest(t)
    PROVE  MultiOk'
<1> USE MultiTyped
<1>1. /\ UNCHANGED <<case, completed, lock, unlocking, pc, todo, apply_deferred, applied, runs>>
      /\ pc[t] \in {"drain", "spawn"}
  BY DEF HandleRest
<1>2. PICK c \in pending : Handle(c, pending \ {c}, pc[t] = "spawn")
  BY DEF HandleRest
<1>3. Actors' = Actors /\ Jobs' = Jobs /\ ThePlan' = ThePlan
  BY <1>1 DEF Actors, Jobs, ThePlan, case
<1>4. lock = t /\ ~unlocking /\ lock # None
  BY <1>1 DEF LockOk, Scheduling, Compiled
<1>5. /\ c.index \notin running_jobs /\ running_jobs' = running_jobs
      /\ c \notin completed
  <2>1. c.index \notin running_jobs
    BY DEF EventsOk
  <2> QED
    BY <1>2, <2>1 DEF Handle, EventsOk
<1>6. Types' /\ NodesOk'
  <2>1. Handles(c, pc[t] = "spawn") /\ (pc[t] = "spawn") \in BOOLEAN
    <3>1. /\ completed' \cup (pending \ {c}) = (completed \cup pending) \ {c}
          /\ pending \ {c} \in SUBSET pending /\ (pc[t] = "spawn") \in BOOLEAN
      BY <1>1, <1>5
    <3> QED
      BY <1>1, <1>2, <3>1 DEF Handles
  <2> QED
    BY <1>1, <2>1, HandleStays
<1>7. LockOk'
  BY <1>1, <1>3, <1>4 DEF LockOk, case
<1>8. ASSUME ~delayed PROVE Progress'
  <2>1. Progress
    BY <1>8
  <2>2. completed' # {} => \E s \in Actors : pc'[s] \in Scheduling \cup {"try", "check"}
    BY <1>1, <2>1 DEF Progress
  <2>3. ASSUME pc[t] = "spawn"
        PROVE  /\ \E m \in running_jobs' : EXCLUSIVE(ThePlan, m)'
               /\ \A k \in ready_systems' : Conflicted(k)'
    <3>1. PICK m \in running_jobs : EXCLUSIVE(ThePlan, m)
      BY <1>2, <1>4, <2>1, <2>3 DEF Progress
    <3>2. \A k \in Jobs : <<k, m>> \in schedule.conflict
      BY <3>1 DEF Compiled, Types, TypeOK
    <3>3. ready_systems' \subseteq Jobs
      BY <1>3, <1>6 DEF Types, TypeOK
    <3>4. EXCLUSIVE(ThePlan, m)'
      BY <1>3, <3>1 DEF EXCLUSIVE
    <3> QED
      BY <1>1, <1>5, <3>1, <3>2, <3>3, <3>4 DEF Conflicted, case
  <2> QED
    BY <1>1, <1>3, <1>4, <2>2, <2>3 DEF Progress
<1>9. ReturnedOk'
  BY <1>1 DEF ReturnedOk, Idle, ScopeOver, Scheduling, Compiled
<1> QED
  BY <1>1, <1>6, <1>7, <1>8, <1>9 DEF MultiOk, MultiInv, case

-----------------------------------------------------------------------------
(***************************************************************************)
(* SingleThreadedExecutor::exec.                                           *)
(***************************************************************************)

SingleOk == Types /\ kind = "single" /\ SingleInv

LEMMA SingleTyped ==
    ASSUME SingleOk
    PROVE  /\ Types /\ Compiled /\ SingleCounts /\ MainOk
           /\ \A n \in Jobs : CallOk(n) /\ n \in Actors /\ n # Main
           /\ \A j \in ThePlan.jobs : SingleStatusOk(j)
           /\ completed = {} /\ pending = {} /\ lock = None /\ ~unlocking
           /\ status \in [ThePlan.jobs -> Statuses] /\ pc \in [Actors -> Labels]
           /\ todo \subseteq Jobs /\ strong_incoming \in [Jobs -> Nat]
           /\ Main \in Actors /\ applied \subseteq ThePlan.jobs
<1>1. /\ Types /\ SingleCounts /\ MainOk
      /\ \A n \in Jobs : CallOk(n)
      /\ \A j \in ThePlan.jobs : SingleStatusOk(j)
      /\ completed = {} /\ pending = {} /\ lock = None /\ ~unlocking
  BY DEF SingleOk, SingleInv
<1>2. Compiled /\ status \in [ThePlan.jobs -> Statuses]
  BY <1>1, Typed
<1>3. \A n \in Jobs : n \in Actors /\ n # Main
  BY <1>2 DEF Compiled, Actors
<1>4. /\ pc \in [Actors -> Labels]
      /\ todo \subseteq Jobs /\ strong_incoming \in [Jobs -> Nat]
      /\ Main \in Actors /\ applied \subseteq ThePlan.jobs
  BY <1>1, <1>2 DEF Types, TypeOK, Labels, Compiled
<1> QED
  BY <1>1, <1>2, <1>3, <1>4

\* A counter goes down when the visit of a job that it counts ends well.
LEMMA SingleCounting ==
    ASSUME SingleOk, UNCHANGED <<plan, schedule>>, NEW n \in Jobs, Unvisited(n),
           \A m \in Jobs : m # n => (Unvisited(m)' <=> Unvisited(m)),
           \A j \in ThePlan.jobs : <<j>> # n => status'[j] = status[j],
           IF ~Unvisited(n)' /\ Ok(n)' THEN Unblock(n)
           ELSE strong_incoming' = strong_incoming
    PROVE  SingleCounts' /\ strong_incoming' \in [Jobs -> Nat]
<1> USE SingleTyped
<1> DEFINE gone == ~Unvisited(n)' /\ Ok(n)'
           out == schedule.strong_outgoing[n]
<1>1. Jobs' = Jobs /\ \A k \in Jobs : StronglyBefore(k)' = StronglyBefore(k)
  BY DEF Jobs, StronglyBefore
<1>2. \A k \in Jobs : strong_incoming'[k] = IF gone /\ k \in out
                                            THEN strong_incoming[k] - 1 ELSE strong_incoming[k]
  BY DEF Unblock
<1>3. DOMAIN strong_incoming' = Jobs /\ strong_incoming' = [k \in Jobs |-> strong_incoming'[k]]
  BY DEF Unblock
<1> HIDE DEF gone
<1>4. ASSUME NEW k \in Jobs
      PROVE  /\ strong_incoming'[k] = Cardinality(Owed(k)') /\ strong_incoming'[k] \in Nat
  <2>1. n \in Owed(k) <=> k \in out
    BY DEF Owed, StronglyBefore
  <2>2. \A m \in StronglyBefore(k) : m # n => (Ok(m)' <=> Ok(m)) /\ (Unvisited(m)' <=> Unvisited(m))
    BY StrongJobs DEF Ok
  <2>3. \A m : m \in Owed(k)' <=> m \in StronglyBefore(k) /\ (Unvisited(m)' \/ ~Ok(m)')
    BY <1>1 DEF Owed
  <2>4. \A m : m \in Owed(k) <=> m \in StronglyBefore(k) /\ (Unvisited(m) \/ ~Ok(m))
    BY DEF Owed
  <2>5. \A m : m \in Owed(k)' <=> m \in Owed(k) /\ (m = n => ~gone)
    <3> TAKE m
    <3>1. CASE m # n
      BY <2>2, <2>3, <2>4, <3>1
    <3>2. CASE m = n
      <4>1. n \in Owed(k)' <=> n \in StronglyBefore(k) /\ ~gone
        BY <2>3 DEF gone
      <4>2. n \in Owed(k) <=> n \in StronglyBefore(k)
        BY <2>4
      <4> QED
        BY <3>2, <4>1, <4>2
    <3> QED
      BY <3>1, <3>2
  <2>6. Owed(k)' = IF gone THEN Owed(k) \ {n} ELSE Owed(k)
    <3>1. CASE gone
      BY <2>5, <3>1
    <3>2. CASE ~gone
      BY <2>5, <3>2
    <3> QED
      BY <3>1, <3>2
  <2>7. IsFiniteSet(Owed(k)) /\ strong_incoming[k] = Cardinality(Owed(k))
    <3>1. Owed(k) \in SUBSET Jobs /\ IsFiniteSet(Jobs)
      BY DEF Owed, StronglyBefore, Compiled
    <3>2. IsFiniteSet(Owed(k))
      BY <3>1, FS_Subset
    <3> QED
      BY <3>2 DEF SingleCounts
  <2>8. /\ Cardinality(Owed(k) \ {n}) =
               IF n \in Owed(k) THEN Cardinality(Owed(k)) - 1 ELSE Cardinality(Owed(k))
        /\ IsFiniteSet(Owed(k) \ {n})
    BY <2>7, FS_RemoveElement
  <2>9. Cardinality(Owed(k)) \in Nat /\ Cardinality(Owed(k) \ {n}) \in Nat
    BY <2>7, <2>8, FS_CardinalityType
  <2> QED
    BY <1>2, <2>1, <2>6, <2>7, <2>8, <2>9
<1>5. strong_incoming' \in [Jobs -> Nat]
  BY <1>3, <1>4
<1> QED
  BY <1>1, <1>4, <1>5 DEF SingleCounts

\* The types after a step of this executor.
LEMMA SingleTypes ==
    ASSUME SingleOk, UNCHANGED <<case, incoming, ready_systems, running_jobs, deferred_systems,
                                 completed, lock, unlocking, pending, apply_deferred, runs>>,
           strong_incoming' \in [Jobs -> Nat], todo' \subseteq todo,
           pc' \in [Actors -> Labels], status' \in [ThePlan.jobs -> Statuses],
           applied' \subseteq ThePlan.jobs
    PROVE  Types'
<1>1. Actors' = Actors /\ Jobs' = Jobs /\ ThePlan' = ThePlan
  BY DEF Actors, Jobs, ThePlan, case
<1>2. TypeOK'
  BY <1>1 DEF SingleOk, Types, TypeOK, case, Labels
<1> QED
  BY <1>1, <1>2 DEF SingleOk, Types, NothingLeft, case

LEMMA AllVisitedStep ==
    ASSUME SingleOk, AllVisited
    PROVE  SingleOk'
<1> USE SingleTyped
<1>1. /\ UNCHANGED <<case, state, completed, lock, unlocking, pending, todo, apply_deferred,
                      outcome, runs>>
      /\ pc[Main] = "visit" /\ todo = {} /\ \A m \in Jobs : pc[m] = "none"
      /\ pc' = [pc EXCEPT ![Main] = "none"]
  BY DEF AllVisited, Goto
<1>2. Actors' = Actors /\ Jobs' = Jobs /\ ThePlan' = ThePlan
  BY <1>1 DEF Actors, Jobs, ThePlan, case
<1>3. /\ \A m \in Jobs : pc'[m] = "none" /\ pc'[m] = pc[m]
      /\ pc'[Main] = "none" /\ pc' \in [Actors -> Labels]
  BY <1>1 DEF Labels
<1>4. Types'
  BY <1>1, <1>3, SingleTypes DEF state, outcome
<1>5. SingleCounts'
  <2>1. \A k \in Jobs : Owed(k)' = Owed(k)
    <3> TAKE k \in Jobs
    <3>1. StronglyBefore(k)' = StronglyBefore(k) /\ StronglyBefore(k) \subseteq Jobs
      BY <1>1, <1>2 DEF StronglyBefore, case
    <3> QED
      BY <1>1, <1>3, <3>1 DEF Owed, Unvisited, Ok, outcome
  <2> QED
    BY <1>1, <1>2, <2>1 DEF SingleCounts, state
<1>6. MainOk' /\ \A n \in Jobs : CallOk(n)'
  BY <1>1, <1>2, <1>3 DEF MainOk, CallOk, Unvisited
<1>7. ASSUME NEW j \in ThePlan.jobs PROVE SingleStatusOk(j)'
  <2>1. SingleStatusOk(j) /\ <<j>> \in Jobs
    BY DEF Compiled
  <2> QED
    BY <1>1, <1>2, <1>3, <2>1 DEF SingleStatusOk, outcome
<1> QED
  BY <1>1, <1>2, <1>4, <1>5, <1>6, <1>7 DEF SingleOk, SingleInv, case

\* The node whose job is called.
LEMMA CalledNode ==
    ASSUME SingleOk, NEW n \in Jobs, pc[n] # "none"
    PROVE  /\ pc[Main] = "visit" /\ n \notin todo /\ ~NO_OP(ThePlan, n)
           /\ \A m \in Jobs : pc[m] # "none" => m = n
           /\ n = <<n[1]>> /\ n[1] \in ThePlan.jobs /\ ~IsSync(n) /\ Unvisited(n)
           /\ \A j \in ThePlan.jobs : <<j>> = n <=> j = n[1]
<1> USE SingleTyped
<1>1. n \notin todo /\ ~NO_OP(ThePlan, n) /\ \A m \in Jobs : pc[m] # "none" => m = n
  BY DEF CallOk
<1>2. ~IsSync(n) /\ Unvisited(n)
  BY <1>1 DEF NO_OP, Unvisited
<1>3. n = <<n[1]>> /\ n[1] \in ThePlan.jobs
  BY <1>2 DEF Compiled
<1>4. pc[Main] = "visit"
  BY <1>2 DEF MainOk
<1>5. \A j \in ThePlan.jobs : <<j>> = n <=> j = n[1]
  BY <1>3
<1> QED
  BY <1>1, <1>2, <1>3, <1>4, <1>5

LEMMA ReturnStep ==
    ASSUME SingleOk, NEW n \in Jobs, Return(n)
    PROVE  SingleOk'
<1> USE SingleTyped
<1>0. PICK r \in {"ok", "error", "skipped"} : status' = [status EXCEPT ![n[1]] = r]
  BY DEF Return
<1>1. /\ UNCHANGED <<case, state, completed, lock, unlocking, pending, todo, apply_deferred,
                      applied, runs>>
      /\ pc[n] = "call" /\ pc' = [pc EXCEPT ![n] = "commands"]
  BY DEF Return, Goto
<1>2. Actors' = Actors /\ Jobs' = Jobs /\ ThePlan' = ThePlan
  BY <1>1 DEF Actors, Jobs, ThePlan, case
<1>3. /\ \A s \in Actors : s # n => pc'[s] = pc[s]
      /\ pc'[n] = "commands" /\ pc' \in [Actors -> Labels] /\ pc'[Main] = pc[Main]
  BY <1>1 DEF Labels
<1>4. /\ pc[Main] = "visit" /\ n \notin todo
      /\ \A m \in Jobs : pc[m] # "none" => m = n
      /\ n[1] \in ThePlan.jobs /\ Unvisited(n)
      /\ \A j \in ThePlan.jobs : <<j>> = n <=> j = n[1]
  BY <1>1, CalledNode
<1>5. /\ status' \in [ThePlan.jobs -> Statuses] /\ status'[n[1]] = r
      /\ \A j \in ThePlan.jobs : <<j>> # n => status'[j] = status[j]
  BY <1>0, <1>4 DEF Statuses
<1>6. /\ Unvisited(n)'
      /\ \A m \in Jobs : m # n => (Unvisited(m)' <=> Unvisited(m))
  BY <1>1, <1>3 DEF Unvisited
<1>7. SingleCounts' /\ strong_incoming' \in [Jobs -> Nat]
  BY <1>1, <1>4, <1>5, <1>6, SingleCounting DEF case, state
<1>8. Types'
  BY <1>1, <1>3, <1>5, <1>7, SingleTypes DEF state
<1>9. MainOk' /\ \A m \in Jobs : CallOk(m)'
  <2>1. MainOk'
    BY <1>3, <1>4 DEF MainOk
  <2>2. ASSUME NEW m \in Jobs PROVE CallOk(m)'
    <3>1. NO_OP(ThePlan, m)' <=> NO_OP(ThePlan, m)
      BY <1>2 DEF NO_OP
    <3>2. \A k \in Jobs : (pc'[k] = "none" <=> pc[k] = "none")
      BY <1>1, <1>3
    <3>3. pc'[m] \in {"none", "call", "commands"}
      BY <1>3 DEF CallOk
    <3> QED
      BY <1>1, <1>2, <3>1, <3>2, <3>3 DEF CallOk
  <2> QED
    BY <2>1, <2>2
<1>10. ASSUME NEW j \in ThePlan.jobs PROVE SingleStatusOk(j)'
  <2>1. SingleStatusOk(j) /\ <<j>> \in Jobs
    BY DEF Compiled
  <2>2. CASE <<j>> = n
    BY <1>1, <1>2, <1>3, <1>4, <1>5, <2>2 DEF SingleStatusOk
  <2>3. CASE <<j>> # n
    BY <1>1, <1>2, <1>3, <1>5, <2>1, <2>3 DEF SingleStatusOk
  <2> QED
    BY <2>2, <2>3
<1> QED
  BY <1>1, <1>2, <1>7, <1>8, <1>9, <1>10 DEF SingleOk, SingleInv, case

LEMMA UnwindStep ==
    ASSUME SingleOk, NEW n \in Jobs, Unwind(n)
    PROVE  SingleOk'
<1> USE SingleTyped
<1>1. /\ UNCHANGED <<case, state, completed, lock, unlocking, pending, todo, apply_deferred,
                      applied, runs>>
      /\ pc[n] = "call" /\ status' = [status EXCEPT ![n[1]] = "error"]
      /\ pc' = [pc EXCEPT ![n] = "none", ![Main] = "unwound"]
  BY DEF Unwind
<1>2. Actors' = Actors /\ Jobs' = Jobs /\ ThePlan' = ThePlan
  BY <1>1 DEF Actors, Jobs, ThePlan, case
<1>3. /\ pc[Main] = "visit" /\ n \notin todo
      /\ \A m \in Jobs : pc[m] # "none" => m = n
      /\ n[1] \in ThePlan.jobs /\ Unvisited(n) /\ n = <<n[1]>>
      /\ \A j \in ThePlan.jobs : <<j>> = n <=> j = n[1]
  BY <1>1, CalledNode
<1>4. /\ pc'[Main] = "unwound" /\ pc' \in [Actors -> Labels]
      /\ \A m \in Jobs : pc'[m] = "none"
  BY <1>1, <1>3 DEF Labels
<1>5. /\ status' \in [ThePlan.jobs -> Statuses] /\ status'[n[1]] = "error"
      /\ \A j \in ThePlan.jobs : <<j>> # n => status'[j] = status[j]
  BY <1>1, <1>3 DEF Statuses
<1>6. /\ ~Ok(n)'
      /\ \A m \in Jobs : m # n => (Unvisited(m)' <=> Unvisited(m))
  BY <1>1, <1>3, <1>4, <1>5 DEF Unvisited, Ok
<1>7. SingleCounts' /\ strong_incoming' \in [Jobs -> Nat]
  BY <1>1, <1>3, <1>5, <1>6, SingleCounting DEF case, state
<1>8. Types'
  BY <1>1, <1>4, <1>5, <1>7, SingleTypes DEF state
<1>9. MainOk' /\ \A m \in Jobs : CallOk(m)'
  BY <1>2, <1>4 DEF MainOk, CallOk
<1>10. ASSUME NEW j \in ThePlan.jobs PROVE SingleStatusOk(j)'
  <2>1. SingleStatusOk(j) /\ <<j>> \in Jobs
    BY DEF Compiled
  <2>2. CASE <<j>> = n
    BY <1>1, <1>2, <1>3, <1>4, <1>5, <2>1, <2>2 DEF SingleStatusOk
  <2>3. CASE <<j>> # n
    <3>1. pc[<<j>>] = "none"
      BY <1>3, <2>1, <2>3
    <3> QED
      BY <1>1, <1>2, <1>4, <1>5, <2>1, <2>3, <3>1 DEF SingleStatusOk
  <2> QED
    BY <2>2, <2>3
<1> QED
  BY <1>1, <1>2, <1>7, <1>8, <1>9, <1>10 DEF SingleOk, SingleInv, case

LEMMA ApplyOwnStep ==
    ASSUME SingleOk, NEW n \in Jobs, ApplyOwn(n)
    PROVE  SingleOk'
<1> USE SingleTyped
<1>1. /\ UNCHANGED <<case, incoming, ready_systems, running_jobs, deferred_systems, completed,
                      lock, unlocking, pending, todo, apply_deferred, status, runs>>
      /\ pc[n] = "commands" /\ pc' = [pc EXCEPT ![n] = "none"]
      /\ applied' = applied \cup {j \in {n[1]} : DEFERRED(ThePlan, n) /\ status[j] # "skipped"}
      /\ IF status[n[1]] = "ok" THEN Unblock(n) ELSE UNCHANGED strong_incoming
  BY DEF ApplyOwn, Goto
<1>2. Actors' = Actors /\ Jobs' = Jobs /\ ThePlan' = ThePlan
  BY <1>1 DEF Actors, Jobs, ThePlan, case
<1>3. /\ pc[Main] = "visit" /\ n \notin todo
      /\ \A m \in Jobs : pc[m] # "none" => m = n
      /\ n[1] \in ThePlan.jobs /\ Unvisited(n) /\ n = <<n[1]>> /\ ~IsSync(n)
      /\ \A j \in ThePlan.jobs : <<j>> = n <=> j = n[1]
  BY <1>1, CalledNode
<1>4. /\ pc'[Main] = "visit" /\ pc' \in [Actors -> Labels]
      /\ \A m \in Jobs : pc'[m] = "none"
  BY <1>1, <1>3 DEF Labels
<1>5. /\ ~Unvisited(n)' /\ (Ok(n)' <=> status[n[1]] = "ok")
      /\ \A m \in Jobs : m # n => (Unvisited(m)' <=> Unvisited(m))
  BY <1>1, <1>3, <1>4 DEF Unvisited, Ok
<1>6. SingleCounts' /\ strong_incoming' \in [Jobs -> Nat]
  <2>1. \A j \in ThePlan.jobs : <<j>> # n => status'[j] = status[j]
    BY <1>1
  <2> QED
    BY <1>1, <1>3, <1>5, <2>1, SingleCounting DEF case
<1>7. Types'
  <2>1. applied' \subseteq ThePlan.jobs
    BY <1>1, <1>3
  <2> QED
    BY <1>1, <1>4, <1>6, <2>1, SingleTypes
<1>8. MainOk' /\ \A m \in Jobs : CallOk(m)'
  BY <1>2, <1>4 DEF MainOk, CallOk
<1>9. ASSUME NEW j \in ThePlan.jobs PROVE SingleStatusOk(j)'
  <2>1. SingleStatusOk(j) /\ <<j>> \in Jobs
    BY DEF Compiled
  <2>2. CASE <<j>> = n
    <3>1. status[j] \notin {"waiting", "running"}
      BY <1>1, <1>3, <2>1, <2>2 DEF SingleStatusOk
    <3>2. j \in ThePlan.deferred /\ status[j] \in {"ok", "error"} => j \in applied'
      BY <1>1, <1>3, <2>2 DEF DEFERRED
    <3> QED
      BY <1>1, <1>2, <1>3, <1>4, <2>1, <2>2, <3>1, <3>2 DEF SingleStatusOk
  <2>3. CASE <<j>> # n
    <3>1. pc[<<j>>] = "none"
      BY <1>3, <2>1, <2>3
    <3> QED
      BY <1>1, <1>2, <1>3, <1>4, <2>1, <2>3, <3>1 DEF SingleStatusOk
  <2> QED
    BY <2>2, <2>3
<1> QED
  BY <1>1, <1>2, <1>6, <1>7, <1>8, <1>9 DEF SingleOk, SingleInv, case

LEMMA VisitStep ==
    ASSUME SingleOk, NEW n \in Jobs, Visit(n)
    PROVE  SingleOk'
<1> USE SingleTyped
<1>1. /\ UNCHANGED <<case, incoming, ready_systems, running_jobs, deferred_systems,
                      completed, lock, unlocking, pending, apply_deferred, applied, runs>>
      /\ pc[Main] = "visit" /\ \A m \in Jobs : pc[m] = "none"
      /\ n \in todo /\ todo' = todo \ {n}
      /\ \A m \in todo : n \notin schedule.outgoing[m]
  BY DEF Visit
<1>2. Actors' = Actors /\ Jobs' = Jobs /\ ThePlan' = ThePlan
  BY <1>1 DEF Actors, Jobs, ThePlan, case
<1>3. /\ Unvisited(n) /\ n[1] \in ThePlan.jobs
      /\ ~IsSync(n) => /\ n = <<n[1]>> /\ status[n[1]] = "waiting"
                       /\ \A j \in ThePlan.jobs : <<j>> = n <=> j = n[1]
      /\ IsSync(n) => \A j \in ThePlan.jobs : <<j>> # n
  <2>1. ASSUME ~IsSync(n) PROVE n = <<n[1]>>
    BY <2>1 DEF Compiled
  <2>2. ASSUME ~IsSync(n) PROVE status[n[1]] = "waiting"
    BY <1>1, <2>1, <2>2 DEF SingleStatusOk, Compiled
  <2>3. ASSUME ~IsSync(n) PROVE \A j \in ThePlan.jobs : <<j>> = n <=> j = n[1]
    BY <2>1, <2>3
  <2>4. IsSync(n) => \A j \in ThePlan.jobs : <<j>> # n
    BY DEF Compiled
  <2> QED
    BY <1>1, <2>1, <2>2, <2>3, <2>4 DEF Unvisited, Compiled
\* The next node is called, or is settled at once.
<1>4. ASSUME NEW l \in {"none", "call"}, NEW r \in {"running", "ok", "blocked"},
             status' = IF IsSync(n) THEN status ELSE [status EXCEPT ![n[1]] = r],
             pc' = [pc EXCEPT ![n] = l],
             l = "call" <=> r = "running",
             l = "call" => ~NO_OP(ThePlan, n),
             l = "call" \/ r = "blocked" => strong_incoming' = strong_incoming,
             r = "ok" => Unblock(n) /\ NO_OP(ThePlan, n)
      PROVE  SingleOk'
  <2>1. /\ \A s \in Actors : s # n => pc'[s] = pc[s]
        /\ pc'[n] = l /\ pc' \in [Actors -> Labels] /\ pc'[Main] = "visit"
    BY <1>1, <1>4 DEF Labels
  <2>2. /\ status' \in [ThePlan.jobs -> Statuses]
        /\ \A j \in ThePlan.jobs : <<j>> # n => status'[j] = status[j]
        /\ \A j \in ThePlan.jobs : <<j>> = n => status'[j] = r /\ ~IsSync(n)
        /\ ~IsSync(n) => status'[n[1]] = r
    <3>1. CASE IsSync(n)
      BY <1>3, <1>4, <3>1
    <3>2. CASE ~IsSync(n)
      <4>1. status' = [status EXCEPT ![n[1]] = r] /\ r \in Statuses
        BY <1>4, <3>2 DEF Statuses
      <4> QED
        BY <1>3, <3>2, <4>1
    <3> QED
      BY <3>1, <3>2
  <2>3. /\ Unvisited(n)' <=> l = "call"
        /\ \A m \in Jobs : m # n => (Unvisited(m)' <=> Unvisited(m))
    BY <1>1, <2>1 DEF Unvisited
  <2>4. IF ~Unvisited(n)' /\ Ok(n)' THEN Unblock(n) ELSE strong_incoming' = strong_incoming
    <3>1. CASE IsSync(n)
      <4>1. schedule.strong_outgoing[n] = {}
        BY <3>1 DEF Compiled
      <4>2. Unblock(n) <=> strong_incoming' = strong_incoming
        BY <4>1 DEF Unblock
      <4> QED
        BY <1>4, <4>2
    <3>2. CASE ~IsSync(n)
      BY <1>4, <2>2, <2>3, <3>2 DEF Ok
    <3> QED
      BY <3>1, <3>2
  <2>5. SingleCounts' /\ strong_incoming' \in [Jobs -> Nat]
    BY <1>1, <1>3, <2>2, <2>3, <2>4, SingleCounting DEF case
  <2>6. Types'
    BY <1>1, <2>1, <2>2, <2>5, SingleTypes
  <2>7. MainOk' /\ \A m \in Jobs : CallOk(m)'
    <3>1. MainOk'
      BY <2>1 DEF MainOk
    <3>2. ASSUME NEW m \in Jobs PROVE CallOk(m)'
      <4>1. NO_OP(ThePlan, m)' <=> NO_OP(ThePlan, m)
        BY <1>2 DEF NO_OP
      <4>2. CASE m = n
        BY <1>1, <1>2, <1>4, <2>1, <4>1, <4>2 DEF CallOk
      <4>3. CASE m # n
        BY <1>1, <1>2, <2>1, <4>3 DEF CallOk
      <4> QED
        BY <4>2, <4>3
    <3> QED
      BY <3>1, <3>2
  <2>8. ASSUME NEW j \in ThePlan.jobs PROVE SingleStatusOk(j)'
    <3>1. SingleStatusOk(j) /\ <<j>> \in Jobs
      BY DEF Compiled
    <3>2. CASE <<j>> = n
      <4>1. r = "ok" => j \in ThePlan.noop
        <5>1. <<j>>[1] = j
          OBVIOUS
        <5> QED
          BY <1>4, <2>2, <3>2, <5>1 DEF NO_OP
      <4> QED
        BY <1>1, <1>2, <1>4, <2>1, <2>2, <3>1, <3>2, <4>1 DEF SingleStatusOk
    <3>3. CASE <<j>> # n
      BY <1>1, <1>2, <2>1, <2>2, <3>1, <3>3 DEF SingleStatusOk
    <3> QED
      BY <3>2, <3>3
  <2> QED
    BY <1>1, <1>2, <2>5, <2>6, <2>7, <2>8 DEF SingleOk, SingleInv, case
<1>5. pc = [pc EXCEPT ![n] = "none"]
  BY <1>1
<1>6. CASE strong_incoming[n] # 0 /\ Settle(Completed(n, FALSE, FALSE)) /\ UNCHANGED <<strong_incoming, pc>>
  <2>1. status' = IF IsSync(n) THEN status ELSE [status EXCEPT ![n[1]] = "blocked"]
    BY <1>3, <1>6 DEF Settle, Completed
  <2> QED
    BY <1>4, <1>5, <1>6, <2>1
<1>7. CASE Settle(Completed(n, FALSE, TRUE)) /\ Unblock(n) /\ NO_OP(ThePlan, n) /\ pc' = pc
  <2>1. status' = IF IsSync(n) THEN status ELSE [status EXCEPT ![n[1]] = "ok"]
    BY <1>3, <1>7 DEF Settle, Completed
  <2> QED
    BY <1>4, <1>5, <1>7, <2>1
<1>8. CASE ~NO_OP(ThePlan, n) /\ status' = [status EXCEPT ![n[1]] = "running"] /\ Goto(n, "call")
           /\ UNCHANGED strong_incoming
  <2>1. ~IsSync(n) /\ pc' = [pc EXCEPT ![n] = "call"]
    BY <1>8 DEF NO_OP, Goto
  <2>2. status' = IF IsSync(n) THEN status ELSE [status EXCEPT ![n[1]] = "running"]
    BY <1>8, <2>1
  <2> QED
    BY <1>4, <1>8, <2>1, <2>2
<1> QED
  BY <1>6, <1>7, <1>8 DEF Visit

-----------------------------------------------------------------------------
(***************************************************************************)
(* An execution begins, and ends.                                          *)
(***************************************************************************)

\* exec is called.
Fresh ==
    /\ plan \in DOMAIN Plans /\ kind \in {"multi", "single"} /\ delayed \in BOOLEAN
    /\ runs \in Nat /\ NothingLeft
    /\ schedule = JobSchedule(ThePlan)
    /\ incoming = schedule.incoming /\ strong_incoming = schedule.strong_incoming
    /\ ready_systems = {n \in Jobs : schedule.incoming[n] = 0}
    /\ running_jobs = {} /\ deferred_systems = {}
    /\ completed = {} /\ pending = {} /\ lock = None /\ unlocking = FALSE
    /\ pc = Begin
    /\ todo = IF kind = "single" THEN Jobs ELSE {}
    /\ apply_deferred \in [Jobs -> SUBSET Jobs]
    /\ kind = "multi" => \A n \in Jobs : apply_deferred[n] = {}
    /\ status = [j \in ThePlan.jobs |-> "waiting"] /\ applied = {}

\* Everything is open, and every edge is counted.
LEMMA FreshInv == Fresh => IInv
<1> SUFFICES ASSUME Fresh PROVE IInv
  OBVIOUS
<1>1. Compiled
  BY CompiledGraph DEF Fresh
<1>2. /\ \A n \in Jobs : n \in Actors /\ n # Main
      /\ Main \in Actors /\ None \notin Actors
  BY <1>1 DEF Compiled, Actors
<1>3. /\ \A n \in Jobs : pc[n] = "none"
      /\ pc[Main] = IF kind = "single" THEN "visit" ELSE "try"
      /\ pc \in [Actors -> Labels]
      /\ \A t \in Actors : t # Main => pc[t] = "none"
  BY <1>2 DEF Fresh, Begin, Labels
<1>4. \A j \in ThePlan.jobs : status[j] = "waiting" /\ <<j>> \in Jobs
  BY <1>1 DEF Fresh, Compiled
<1>5. Types
  <2>1. incoming \in [Jobs -> Nat] /\ strong_incoming \in [Jobs -> Nat]
    BY <1>1 DEF Fresh, Compiled
  <2>2. status \in [ThePlan.jobs -> Statuses]
    BY DEF Fresh, Statuses
  <2>3. TypeOK
    BY <1>3, <2>1 DEF Fresh, TypeOK, Labels
  <2> QED
    BY <2>2, <2>3 DEF Fresh, Types
<1>6. \A n \in Jobs : /\ incoming[n] = Cardinality(Before(n)) /\ IsFiniteSet(Before(n))
                      /\ strong_incoming[n] = Cardinality(StronglyBefore(n))
                      /\ IsFiniteSet(StronglyBefore(n))
                      /\ StronglyBefore(n) \subseteq Before(n) /\ Before(n) \subseteq Jobs
  <2> TAKE n \in Jobs
  <2>1. Before(n) \in SUBSET Jobs /\ StronglyBefore(n) \in SUBSET Before(n)
    BY <1>1 DEF Before, StronglyBefore, Compiled
  <2>2. IsFiniteSet(Before(n)) /\ IsFiniteSet(StronglyBefore(n))
    BY <1>1, <2>1, FS_Subset DEF Compiled
  <2> QED
    BY <1>1, <2>1, <2>2 DEF Fresh, Compiled
<1>7. CASE kind = "multi"
  <2>1. \A n \in Jobs : ~Event(n) /\ Open(n)
    BY DEF Event, Open, Fresh
  <2>2. Counts
    <3>1. \A n \in Jobs : Unhandled(n) = Before(n) /\ Missing(n) = StronglyBefore(n)
      BY <1>6, <2>1 DEF Unhandled, Missing
    <3> QED
      BY <1>6, <3>1 DEF Counts
  <2>3. EventsOk /\ CommandsOk
    <3>1. CommandsOk
      BY <1>1, <1>4, <1>7 DEF CommandsOk, Left, Fresh, Compiled
    <3> QED
      BY <3>1 DEF EventsOk, Fresh
  <2>4. \A n \in Jobs : PlaceOk(n)
    <3> TAKE n \in Jobs
    <3>1. n \in ready_systems => incoming[n] = 0
      BY DEF Fresh
    <3>2. incoming[n] = 0 => strong_incoming[n] = 0
      <4>1. incoming[n] = 0 => Before(n) = {}
        BY <1>6, FS_EmptySet
      <4>2. Before(n) = {} => StronglyBefore(n) = {}
        BY <1>6
      <4>3. Cardinality({}) = 0
        BY FS_EmptySet
      <4> QED
        BY <1>6, <4>1, <4>2, <4>3
    <3> QED
      BY <1>3, <2>1, <3>1, <3>2 DEF PlaceOk, Fresh
  <2>5. \A j \in ThePlan.jobs : StatusOk(j)
    <3> TAKE j \in ThePlan.jobs
    <3>1. incoming[<<j>>] # 0 \/ <<j>> \in ready_systems
      BY <1>4 DEF Fresh
    <3> QED
      BY <1>3, <1>4, <3>1 DEF StatusOk
  <2>6. LockOk
    BY <1>2, <1>3, <1>7 DEF LockOk, Scheduling, Fresh
  <2>7. ReturnedOk /\ NoCalls
    BY <1>3, <1>7 DEF ReturnedOk, Idle, NoCalls
  <2>8. Progress
    BY <1>2, <1>3, <1>7 DEF Progress, Fresh
  <2> QED
    BY <1>5, <1>7, <2>2, <2>3, <2>4, <2>5, <2>6, <2>7, <2>8 DEF IInv, MultiInv, NodesOk
<1>8. CASE kind = "single"
  <2>1. todo = Jobs /\ \A n \in Jobs : Unvisited(n)
    BY <1>8 DEF Fresh, Unvisited
  <2>2. SingleCounts
    <3>1. \A n \in Jobs : Owed(n) = StronglyBefore(n)
      BY <1>6, <2>1 DEF Owed
    <3> QED
      BY <1>6, <3>1 DEF SingleCounts
  <2>3. MainOk /\ \A n \in Jobs : CallOk(n)
    BY <1>3, <1>8 DEF MainOk, CallOk
  <2>4. \A j \in ThePlan.jobs : SingleStatusOk(j)
    BY <1>3, <1>4, <2>1 DEF SingleStatusOk
  <2> QED
    BY <1>5, <1>8, <2>2, <2>3, <2>4 DEF IInv, SingleInv, Fresh
<1> QED
  BY <1>7, <1>8 DEF Fresh

\* When exec of the multi-threaded executor has returned nothing is left over.
LEMMA NothingLeftOver ==
    ASSUME MultiOk, Idle, ~delayed
    PROVE  /\ completed = {} /\ pending = {} /\ todo = {} /\ lock = None /\ ~unlocking
           /\ running_jobs = {} /\ ready_systems = {}
           /\ \A n \in Jobs : incoming[n] = 0 /\ apply_deferred[n] = {}
           /\ \A t \in Actors : pc[t] \in {"none", "end"}
<1> USE MultiTyped
<1>1. \A t \in Actors : pc[t] \in {"none", "end"}
  BY DEF ReturnedOk, ScopeOver
<1>2. lock = None /\ ~unlocking
  BY <1>1 DEF LockOk, Scheduling
<1>3. completed = {} /\ pending = {} /\ todo = {}
  BY <1>1, <1>2 DEF Progress, Scheduling
<1>4. \A n \in Jobs : n \in Actors /\ ~Event(n)
  BY <1>3 DEF Event, Actors
<1>5. running_jobs = {}
  <2>1. running_jobs \subseteq Jobs
    BY DEF Types, TypeOK
  <2>2. \A n \in Jobs : n \notin running_jobs
    BY <1>1, <1>4 DEF PlaceOk
  <2> QED
    BY <2>1, <2>2
<1>6. ready_systems = {}
  BY <1>1, <1>2, <1>3, <1>5 DEF Progress, Conflicted
<1>7. \A n \in Jobs : incoming[n] = 0
  <2> DEFINE U == {n \in Jobs : incoming[n] # 0}
  <2> SUFFICES ASSUME U # {} PROVE FALSE
    OBVIOUS
  <2>1. PICK n \in U : Before(n) \cap U = {}
    BY SomeFirst DEF Types, TypeOK
  <2>2. \A m \in Jobs : Open(m) => m \in U
    BY <1>4, <1>5, <1>6 DEF Open
  <2>3. Unhandled(n) = {}
    BY <2>1, <2>2 DEF Unhandled, Before
  <2> QED
    BY <2>3, Counting
<1>8. \A n \in Jobs : apply_deferred[n] = {}
  BY <1>1, <1>4 DEF CommandsOk
<1> QED
  BY <1>1, <1>2, <1>3, <1>5, <1>6, <1>7, <1>8

LEMMA ExecAgainStep ==
    ASSUME IInv, ExecAgain
    PROVE  Fresh'
<1>1. /\ UNCHANGED <<case, completed, lock, unlocking, pending, apply_deferred>>
      /\ pc[Main] = "none" /\ runs > 0 /\ runs' = runs - 1
      /\ incoming' = schedule.incoming /\ strong_incoming' = schedule.strong_incoming
      /\ ready_systems' = {n \in Jobs : schedule.incoming[n] = 0}
      /\ running_jobs' = {} /\ deferred_systems' = {}
      /\ pc' = Begin
      /\ todo' = IF kind = "single" THEN Jobs ELSE {}
      /\ status' = [j \in ThePlan.jobs |-> "waiting"] /\ applied' = {}
  BY DEF ExecAgain, Reset
<1>2. Actors' = Actors /\ Jobs' = Jobs /\ ThePlan' = ThePlan /\ Begin' = Begin
  BY <1>1 DEF Actors, Jobs, ThePlan, case, Begin
<1>3. /\ plan \in DOMAIN Plans /\ kind \in {"multi", "single"} /\ delayed \in BOOLEAN
      /\ schedule = JobSchedule(ThePlan) /\ NothingLeft /\ runs \in Nat
      /\ apply_deferred \in [Jobs -> SUBSET Jobs]
  BY DEF IInv, Types, TypeOK
<1>4. ~delayed /\ runs' \in Nat /\ NothingLeft'
  BY <1>1, <1>3 DEF NothingLeft, case
<1>5. CASE kind = "multi"
  <2>1. MultiOk /\ Idle
    BY <1>1, <1>5 DEF IInv, MultiOk, Idle
  <2> QED
    BY <1>1, <1>2, <1>3, <1>4, <1>5, <2>1, NothingLeftOver DEF Fresh, case
<1>6. CASE kind = "single"
  <2>1. completed = {} /\ pending = {} /\ lock = None /\ unlocking = FALSE
    BY <1>6 DEF IInv, SingleInv, Types, TypeOK
  <2> QED
    BY <1>1, <1>2, <1>3, <1>4, <1>6, <2>1 DEF Fresh, case
<1> QED
  BY <1>3, <1>5, <1>6

\* The steps of the multi-threaded executor.
LEMMA MultiStep ==
    ASSUME MultiOk, NoCalls,
           \/ \E t \in Actors : Tick(t)
           \/ \E n \in Jobs : Task(n)
           \/ Flush \/ ApplyRest
    PROVE  MultiOk' /\ NoCalls'
<1>1. MultiOk'
  BY TryLockStep, DrainStep, HandleRestStep, PostponeStep, SpawnOneStep, UnlockStep, CheckStep,
     ApplyDeferredStep, StartJobStep, FinishJobStep, FlushStep, ApplyRestStep, Zenon
     DEF Tick, Task
<1>2. Jobs' = Jobs /\ \A n \in Jobs : n \in DOMAIN pc
  <2>1. UNCHANGED schedule
    BY DEF Tick, TryLock, Drain, HandleRest, Postpone, SpawnOne, Unlock, Check, Task, case,
           ApplyDeferred, StartJob, FinishJob, Flush, ApplyRest
  <2> QED
    BY <2>1, MultiTyped, Typed DEF Jobs
<1>3. \/ pc' = pc
      \/ \E t \in Actors : \E l \in Labels \ {"call", "commands"} : pc' = [pc EXCEPT ![t] = l]
  <2>1. ASSUME NEW t \in Actors, Tick(t)
        PROVE  \/ pc' = pc
               \/ \E s \in Actors : \E l \in Labels \ {"call", "commands"} : pc' = [pc EXCEPT ![s] = l]
    <3>1. \A n \in todo : n \in Actors
      BY MultiTyped DEF Types, TypeOK, Actors
    <3> QED
      BY <2>1, <3>1 DEF Tick, TryLock, Drain, HandleRest, Postpone, SpawnOne, Unlock, Check, Goto, Labels
  <2>2. ASSUME NEW n \in Jobs, Task(n)
        PROVE  \/ pc' = pc
               \/ \E s \in Actors : \E l \in Labels \ {"call", "commands"} : pc' = [pc EXCEPT ![s] = l]
    BY <2>2 DEF Task, ApplyDeferred, StartJob, FinishJob, Goto, Labels, Actors
  <2>3. ASSUME Flush \/ ApplyRest
        PROVE  \/ pc' = pc
               \/ \E s \in Actors : \E l \in Labels \ {"call", "commands"} : pc' = [pc EXCEPT ![s] = l]
    BY <2>3 DEF Flush, ApplyRest, Goto, Labels, Actors
  <2> QED
    BY <2>1, <2>2, <2>3
<1>4. NoCalls'
  BY <1>2, <1>3 DEF NoCalls
<1> QED
  BY <1>1, <1>4

\* Nothing happens.
LEMMA SameInv ==
    ASSUME IInv, UNCHANGED vars
    PROVE  IInv'
<1>1. UNCHANGED <<plan, kind, schedule, delayed, incoming, strong_incoming, ready_systems,
                  running_jobs, deferred_systems, completed, lock, unlocking, pc, pending,
                  todo, apply_deferred, status, applied, runs>>
  BY DEF vars, case
<1>2. Actors' = Actors /\ Jobs' = Jobs /\ ThePlan' = ThePlan
  BY <1>1 DEF Actors, Jobs, ThePlan
<1>3. Types'
  BY <1>1, <1>2 DEF IInv, Types, TypeOK, NothingLeft
<1>4. ASSUME kind = "multi" PROVE MultiInv' /\ NoCalls'
  <2>1. MultiInv /\ NoCalls /\ Types
    BY <1>4 DEF IInv
  <2>2. NodesOk'
    BY <1>1, <2>1, QuietStep DEF MultiInv
  <2>3. LockOk' /\ ReturnedOk' /\ NoCalls'
    BY <1>1, <1>2, <2>1 DEF MultiInv, LockOk, ReturnedOk, Idle, ScopeOver, NoCalls
  <2>4. ~delayed => Progress'
    BY <1>1, <1>2, <2>1 DEF MultiInv, Progress, Conflicted
  <2> QED
    BY <1>1, <2>2, <2>3, <2>4 DEF MultiInv
<1>5. ASSUME kind = "single" PROVE SingleInv'
  <2>1. SingleInv
    BY <1>5 DEF IInv
  <2>2. SingleCounts'
    BY <1>1, <1>2, <2>1 DEF SingleInv, SingleCounts, Owed, StronglyBefore, Unvisited, Ok
  <2>3. MainOk' /\ \A n \in Jobs : CallOk(n)'
    BY <1>1, <1>2, <2>1 DEF SingleInv, MainOk, CallOk, Unvisited, NO_OP
  <2>4. \A j \in ThePlan.jobs : SingleStatusOk(j)'
    BY <1>1, <1>2, <2>1 DEF SingleInv, SingleStatusOk
  <2> QED
    BY <1>1, <1>2, <2>1, <2>2, <2>3, <2>4 DEF SingleInv
<1> QED
  BY <1>1, <1>3, <1>4, <1>5 DEF IInv

\* The schedule that is run, and how, stay the same.
LEMMA SameCase ==
    ASSUME [Next]_vars
    PROVE  UNCHANGED case
<1>1. CASE UNCHANGED vars
  BY <1>1 DEF vars, case
<1>2. CASE Work
  BY <1>2 DEF Work, Tick, TryLock, Drain, HandleRest, Postpone, SpawnOne, Unlock, Check, Task,
              ApplyDeferred, StartJob, FinishJob, Flush, ApplyRest, Single, Visit, Return,
              ApplyOwn, Unwind, AllVisited, case
<1>3. CASE ExecAgain
  BY <1>3 DEF ExecAgain, case
<1> QED
  BY <1>1, <1>2, <1>3 DEF Next

\* Each executor takes its own steps only.
LEMMA OwnSteps ==
    ASSUME IInv, Work
    PROVE  \/ /\ kind = "multi" /\ MultiOk /\ NoCalls
              /\ \/ \E t \in Actors : Tick(t)
                 \/ \E n \in Jobs : Task(n)
                 \/ Flush \/ ApplyRest
           \/ kind = "single" /\ SingleOk /\ Single
<1>1. CASE kind = "multi"
  <2>1. MultiOk /\ NoCalls
    BY <1>1 DEF IInv, MultiOk
  <2>2. ~Single
    BY <2>1, MultiTyped DEF Single, AllVisited, Visit, Return, ApplyOwn, Unwind, NoCalls,
                            ReturnedOk, Scheduling
  <2> QED
    BY <1>1, <2>1, <2>2 DEF Work
<1>2. CASE kind = "single"
  <2>1. SingleOk
    BY <1>2 DEF IInv, SingleOk
  <2>2. \A t \in Actors : pc[t] \in {"none", "visit", "call", "commands", "unwound"}
    BY <2>1, SingleTyped DEF CallOk, MainOk, Actors
  <2>3. ~\E t \in Actors : Tick(t)
    BY <2>2 DEF Tick, TryLock, Drain, HandleRest, Postpone, SpawnOne, Unlock, Check
  <2>4. ~\E n \in Jobs : Task(n)
    BY <2>2 DEF Task, ApplyDeferred, StartJob, FinishJob, Actors
  <2>5. ~Flush /\ ~ApplyRest
    BY <2>1, <2>2, SingleTyped DEF Flush, ApplyRest
  <2> QED
    BY <1>2, <2>1, <2>3, <2>4, <2>5 DEF Work
<1> QED
  BY <1>1, <1>2 DEF IInv, Types

LEMMA InvStep ==
    ASSUME IInv, [Next]_vars
    PROVE  IInv'
<1>1. CASE ExecAgain
  <2>1. Fresh'
    BY <1>1, ExecAgainStep
  <2>2. Fresh' => IInv'
    BY FreshInv, PTL
  <2> QED
    BY <2>1, <2>2
<1>2. CASE UNCHANGED vars
  BY <1>2, SameInv
<1>3. CASE Work
  <2>1. \/ kind = "multi" /\ MultiOk' /\ NoCalls'
        \/ kind = "single" /\ SingleOk'
    BY <1>3, OwnSteps, MultiStep, AllVisitedStep, VisitStep, ReturnStep, ApplyOwnStep, UnwindStep,
       Zenon DEF Single
  <2>2. kind' = kind
    BY SameCase DEF case
  <2> QED
    BY <2>1, <2>2 DEF IInv, MultiOk, SingleOk
<1> QED
  BY <1>1, <1>2, <1>3 DEF Next

-----------------------------------------------------------------------------
(***************************************************************************)
(* The theorems.                                                           *)
(***************************************************************************)

\* An execution begins fresh.
LEMMA InitFresh == Init /\ NothingLeft => Fresh
<1> SUFFICES ASSUME Init, NothingLeft PROVE Fresh
  OBVIOUS
<1>1. PICK c \in Cases : plan = c.plan /\ kind = c.kind /\ delayed = c.delayed /\ runs = c.runs - 1
  BY DEF Init
<1>2. /\ plan \in DOMAIN Plans /\ kind \in {"multi", "single"} /\ delayed \in BOOLEAN
      /\ runs \in Nat
  BY <1>1, ExecutorAssumption
<1> QED
  BY <1>2 DEF Init, Fresh

\* The state of both executors, for any schedule that Schedule::update accepts and any
\* number of executions: the counters are exact, a node is in one place, and nobody
\* leaves a system ready that could run.  Only a delayed release that is followed by
\* another execution is left out.
THEOREM ExecutorInvariant == Spec /\ NothingLeft => []IInv
<1>1. Init /\ NothingLeft => IInv
  BY InitFresh, FreshInv
<1>2. IInv /\ [Next]_vars => IInv'
  BY InvStep
<1> QED
  BY <1>1, <1>2, PTL DEF Spec

\* The executors keep their types: above all, no counter of the graph goes below zero
\* (multi.rs subtracts from u16 counters).
THEOREM ExecutorTypes == Spec /\ NothingLeft => []TypeOK
<1>1. IInv => TypeOK
  BY DEF IInv, Types
<1> QED
  BY <1>1, ExecutorInvariant, PTL

\* What the invariant says of an execution that is over.
LEMMA InvComplete == IInv => RunComplete
<1> SUFFICES ASSUME IInv, Idle, ~delayed PROVE Complete
  BY DEF RunComplete
<1>1. CASE kind = "multi"
  <2>1. MultiOk
    BY <1>1 DEF IInv, MultiOk
  <2> USE MultiTyped
  <2>2. /\ completed = {} /\ pending = {} /\ running_jobs = {} /\ ready_systems = {}
        /\ \A n \in Jobs : incoming[n] = 0 /\ apply_deferred[n] = {} /\ n \in Actors
        /\ \A t \in Actors : pc[t] \in {"none", "end"}
    BY <2>1, NothingLeftOver DEF Actors
  <2>3. ASSUME NEW j \in ThePlan.jobs
        PROVE  status[j] \in {"ok", "error", "skipped", "blocked"}
    <3>1. <<j>> \in Jobs /\ StatusOk(j)
      BY <2>1 DEF Compiled
    <3>2. status[j] \notin {"waiting", "running"}
      BY <2>2, <3>1 DEF StatusOk
    <3>3. status[j] \in Statuses
      BY <2>1 DEF Types
    <3> QED
      BY <3>2, <3>3 DEF Statuses
  <2>4. ASSUME NEW j \in ThePlan.deferred \ ThePlan.noop, status[j] \in {"ok", "error"},
               j \notin applied
        PROVE  FALSE
    <3>1. <<j>> \in deferred_systems
      BY <2>1, <2>2, <2>4 DEF CommandsOk, Left
    <3>2. <<j>>[1] \in applied
      BY <2>1, <3>1 DEF ReturnedOk
    <3> QED
      BY <2>4, <3>2
  <2> QED
    BY <2>2, <2>3, <2>4 DEF Complete
<1>2. CASE kind = "single"
  <2>1. SingleOk
    BY <1>2 DEF IInv, SingleOk
  <2> USE SingleTyped
  <2>2. pc[Main] = "none" /\ \A n \in Jobs : n \notin todo /\ pc[n] = "none"
    BY <2>1 DEF MainOk, Idle, Unvisited
  <2>3. ASSUME NEW j \in ThePlan.jobs
        PROVE  /\ status[j] \in {"ok", "error", "skipped", "blocked"}
               /\ j \in ThePlan.deferred \ ThePlan.noop /\ status[j] \in {"ok", "error"} =>
                     j \in applied
    <3>1. <<j>> \in Jobs /\ SingleStatusOk(j) /\ status[j] \in Statuses
      BY <2>1 DEF Compiled
    <3> QED
      BY <2>2, <3>1 DEF SingleStatusOk, Statuses
  <2>4. ThePlan.deferred \subseteq ThePlan.jobs /\ completed = {}
    BY <2>1 DEF Compiled
  <2> QED
    BY <2>3, <2>4 DEF Complete
<1> QED
  BY <1>1, <1>2 DEF IInv, Types

\* When exec returns every job has been run or rightly left out, no event is left and
\* the commands of every job that ran are applied, whichever executor runs the schedule
\* and however its tasks take over the scheduler from one another.
THEOREM ExecutorRunComplete == Spec => []RunComplete
<1>1. Init => delayed \/ IInv
  <2>1. Init /\ ~delayed => NothingLeft
    BY DEF NothingLeft
  <2> QED
    BY <2>1, InitFresh, FreshInv
<1>2. (delayed \/ IInv) /\ [Next]_vars => (delayed \/ IInv)'
  BY InvStep, SameCase DEF case
<1>3. delayed \/ IInv => RunComplete
  BY InvComplete DEF RunComplete
<1> QED
  BY <1>1, <1>2, <1>3, PTL DEF Spec

-----------------------------------------------------------------------------
(***************************************************************************)
(* The orders behind the graph.                                            *)
(***************************************************************************)

LEMMA OrdersOfGraph ==
    ASSUME plan \in DOMAIN Plans, schedule = JobSchedule(ThePlan)
    PROVE  /\ \A a, b \in ThePlan.jobs :
                 /\ <<b, a>> \in AnyOrder(ThePlan) <=> <<b>> \in Before(<<a>>)
                 /\ <<b, a>> \in StrongOrder(ThePlan) <=> <<b>> \in StronglyBefore(<<a>>)
           /\ \A s \in SyncPoints(ThePlan) : s \in Jobs /\ IsSync(s) /\ s \in Before(<<s[2]>>)
           /\ \A m, n \in Jobs : /\ <<m, n>> \in schedule.conflict <=> IsConflict(ThePlan, m, n)
                                 /\ <<m, n>> \in schedule.conflict => <<n, m>> \in schedule.conflict
           /\ AnyOrder(ThePlan) \subseteq ThePlan.jobs \X ThePlan.jobs
           /\ SyncPoints(ThePlan) \subseteq ThePlan.jobs \X ThePlan.jobs
           /\ StrongOrder(ThePlan) \subseteq AnyOrder(ThePlan)
<1> DEFINE p == ThePlan
           dag == Dag(p)
           strong == StrongGraph(p)
<1>0. IsPlan(p)
  BY ExecutorAssumption DEF ThePlan
<1>1. /\ AnyOrder(p) \subseteq p.jobs \X p.jobs /\ SyncPoints(p) \subseteq p.jobs \X p.jobs
      /\ \A s \in SyncPoints(p) : s = <<s[1], s[2]>> /\ s[1] \in p.jobs /\ Len(s) = 2
      /\ \A j : Len(<<j>>) = 1 /\ <<j>>[1] = j
      /\ SyncPoints(p) \subseteq Nodes(p) /\ \A j \in p.jobs : <<j>> \in Nodes(p)
      /\ StrongOrder(p) \subseteq AnyOrder(p)
  BY <1>0, NodesOfPlan DEF Nodes, AnyOrder
<1>2. /\ Jobs = Nodes(p)
      /\ \A n \in Jobs : /\ schedule.outgoing[n] = {m \in Nodes(p) : <<n, m>> \in dag.edge}
                         /\ schedule.strong_outgoing[n] =
                                {m \in Nodes(p) : <<n, m>> \in strong.edge}
      /\ schedule.conflict = {e \in Nodes(p) \X Nodes(p) : IsConflict(p, e[1], e[2])}
  BY DEF JobSchedule, Jobs, Successors, Dag, StrongGraph
<1>3. /\ \A n \in Jobs : Before(n) = {m \in Jobs : <<m, n>> \in dag.edge}
      /\ \A n \in Jobs : StronglyBefore(n) = {m \in Jobs : <<m, n>> \in strong.edge}
  BY <1>2 DEF Before, StronglyBefore
<1>4. /\ dag.edge = Edges(AnyOrder(p)) \cup IntoSync(p) \cup OutOfSync(p)
      /\ strong.edge = Edges(StrongOrder(p)) \cup IntoSync(p)
  BY DEF Dag, StrongGraph
<1> HIDE DEF dag, strong, p
<1>5. ASSUME NEW a \in p.jobs, NEW b \in p.jobs
      PROVE  /\ <<<<b>>, <<a>>>> \notin IntoSync(p) /\ <<<<b>>, <<a>>>> \notin OutOfSync(p)
             /\ <<<<b>>, <<a>>>> \in Edges(AnyOrder(p)) <=> <<b, a>> \in AnyOrder(p)
             /\ <<<<b>>, <<a>>>> \in Edges(StrongOrder(p)) <=> <<b, a>> \in StrongOrder(p)
  <2>1. <<<<b>>, <<a>>>> \notin IntoSync(p)
    <3> SUFFICES ASSUME NEW s \in SyncPoints(p), <<<<b>>, <<a>>>> = << <<s[1]>>, s >> PROVE FALSE
      BY DEF IntoSync
    <3>1. <<a>> = s
      OBVIOUS
    <3>2. Len(<<a>>) = 1 /\ Len(s) = 2
      BY <1>1
    <3> QED
      BY <3>1, <3>2
  <2>2. <<<<b>>, <<a>>>> \notin OutOfSync(p)
    <3> SUFFICES ASSUME NEW s \in SyncPoints(p), <<<<b>>, <<a>>>> = << s, <<s[2]>> >> PROVE FALSE
      BY DEF OutOfSync
    <3>1. <<b>> = s
      OBVIOUS
    <3>2. Len(<<b>>) = 1 /\ Len(s) = 2
      BY <1>1
    <3> QED
      BY <3>1, <3>2
  <2>3. ASSUME NEW R \in SUBSET AnyOrder(p)
        PROVE  <<<<b>>, <<a>>>> \in Edges(R) <=> <<b, a>> \in R
    <3>1. ASSUME <<b, a>> \in R PROVE <<<<b>>, <<a>>>> \in Edges(R)
      BY <3>1 DEF Edges
    <3>2. ASSUME NEW e \in R, <<<<b>>, <<a>>>> = << <<e[1]>>, <<e[2]>> >> PROVE <<b, a>> \in R
      <4>1. e = <<e[1], e[2]>>
        BY <1>1
      <4>2. e[1] = b /\ e[2] = a
        BY <3>2
      <4> QED
        BY <4>1, <4>2
    <3> QED
      BY <3>1, <3>2 DEF Edges
  <2> QED
    BY <1>1, <2>1, <2>2, <2>3
<1>6. ASSUME NEW a \in p.jobs, NEW b \in p.jobs
      PROVE  /\ <<b, a>> \in AnyOrder(p) <=> <<b>> \in Before(<<a>>)
             /\ <<b, a>> \in StrongOrder(p) <=> <<b>> \in StronglyBefore(<<a>>)
  <2>1. <<a>> \in Jobs /\ <<b>> \in Jobs
    BY <1>1, <1>2
  <2> QED
    BY <1>3, <1>4, <1>5, <2>1
<1>7. ASSUME NEW s \in SyncPoints(p)
      PROVE  s \in Jobs /\ IsSync(s) /\ s \in Before(<<s[2]>>)
  <2>1. s \in Jobs /\ IsSync(s) /\ <<s[2]>> \in Jobs
    BY <1>1, <1>2 DEF IsSync
  <2>2. <<s, <<s[2]>>>> \in dag.edge
    BY <1>4 DEF OutOfSync
  <2> QED
    BY <1>3, <2>1, <2>2
<1>8. ASSUME NEW m \in Jobs, NEW n \in Jobs
      PROVE  /\ <<m, n>> \in schedule.conflict <=> IsConflict(p, m, n)
             /\ <<m, n>> \in schedule.conflict => <<n, m>> \in schedule.conflict
  <2>1. \A x, y \in Jobs : <<x, y>> \in schedule.conflict <=> IsConflict(p, x, y)
    BY <1>2
  <2>2. IsConflict(p, m, n) => IsConflict(p, n, m)
    <3>1. {m[1], n[1]} = {n[1], m[1]}
      OBVIOUS
    <3> QED
      BY <3>1 DEF IsConflict
  <2> QED
    BY <2>1, <2>2
<1> QED
  BY <1>1, <1>6, <1>7, <1>8 DEF p

\* A set of jobs that holds the jobs before its jobs holds their ancestry.
LEMMA AncestryIn ==
    ASSUME plan \in DOMAIN Plans, NEW S \in SUBSET ThePlan.jobs, NEW j \in S,
           AnyOrder(ThePlan) \subseteq ThePlan.jobs \X ThePlan.jobs,
           \A a \in S : \A b \in ThePlan.jobs : <<b, a>> \in AnyOrder(ThePlan) => b \in S
    PROVE  Ancestry(j) \subseteq S
<1>1. S \in Upward(ThePlan)
  <2>1. ASSUME NEW e \in AnyOrder(ThePlan), e[2] \in S PROVE e[1] \in S
    <3>1. e = <<e[1], e[2]>> /\ e[1] \in ThePlan.jobs
      OBVIOUS
    <3> QED
      BY <2>1, <3>1
  <2> QED
    BY <2>1 DEF Upward
<1>2. Ancestry(j) = {b \in ThePlan.jobs : \A U \in Upward(ThePlan) : j \in U => b \in U}
  BY DEF Ancestry, Orders, JobOrders, ThePlan
<1> QED
  BY <1>1, <1>2

\* What precedes a node whose orders are fulfilled is closed.
LEMMA ClosedAncestry ==
    ASSUME Types, Counts, NEW j \in ThePlan.jobs, incoming[<<j>>] = 0
    PROVE  \A a \in Ancestry(j) : a \in ThePlan.jobs /\ (a = j \/ ~Open(<<a>>))
<1>1. Compiled /\ plan \in DOMAIN Plans /\ schedule = JobSchedule(ThePlan)
  BY Typed DEF Types, TypeOK
<1> DEFINE S == {a \in ThePlan.jobs : a = j \/ ~Open(<<a>>)}
<1>2. ASSUME NEW a \in S, NEW b \in ThePlan.jobs, <<b, a>> \in AnyOrder(ThePlan) PROVE b \in S
  <2>1. <<b>> \in Before(<<a>>) /\ <<a>> \in Jobs /\ <<b>> \in Jobs
    BY <1>1, <1>2, OrdersOfGraph DEF Compiled
  <2>2. incoming[<<a>>] = 0
    BY DEF Open
  <2>3. Unhandled(<<a>>) = {}
    BY <2>1, <2>2, Counting
  <2> QED
    BY <2>1, <2>3 DEF Unhandled
<1>3. Ancestry(j) \subseteq S
  BY <1>1, <1>2, AncestryIn, OrdersOfGraph
<1> QED
  BY <1>3

\* The commands that a sync point is there for are complete when its turn has come.
LEMMA ClosedBehindSync ==
    ASSUME Types, Counts, NEW s \in Jobs, IsSync(s), incoming[s] = 0
    PROVE  /\ s[1] \in ThePlan.jobs /\ ~Open(<<s[1]>>)
           /\ \A a \in Ancestry(s[1]) : a \in ThePlan.jobs /\ ~Open(<<a>>)
<1>1. s[1] \in ThePlan.jobs /\ <<s[1]>> \in Before(s) /\ <<s[1]>> \in Jobs
  BY Typed DEF Compiled
<1>2. ~Open(<<s[1]>>)
  <2>1. Unhandled(s) = {}
    BY Counting
  <2> QED
    BY <1>1, <2>1 DEF Unhandled
<1> QED
  BY <1>1, <1>2, ClosedAncestry DEF Open

-----------------------------------------------------------------------------
(***************************************************************************)
(* Where commands are, and what runs together.                             *)
(***************************************************************************)

\* What the plan says does not change.
LEMMA SamePlan ==
    ASSUME UNCHANGED <<plan, schedule>>
    PROVE  /\ Jobs' = Jobs /\ Actors' = Actors /\ ThePlan' = ThePlan
           /\ \A j : Ancestry(j)' = Ancestry(j)
           /\ \A n : EXCLUSIVE(ThePlan, n)' <=> EXCLUSIVE(ThePlan, n)
           /\ \A n : NO_OP(ThePlan, n)' <=> NO_OP(ThePlan, n)
<1>1. Jobs' = Jobs /\ Actors' = Actors /\ ThePlan' = ThePlan
  BY DEF Jobs, Actors, ThePlan
<1>2. \A j : Ancestry(j)' = Ancestry(j)
  BY DEF Ancestry, Orders
<1> QED
  BY <1>1, <1>2 DEF EXCLUSIVE, NO_OP

\* What is known of the commands that are held.
LEMMA RunTyped ==
    ASSUME MultiOk, MultiRunOk
    PROVE  /\ ApartOk /\ StackOk /\ HeldOk /\ SeenOk
           /\ \A m \in deferred_systems : m \in Jobs /\ m = <<m[1]>> /\ m[1] \in ThePlan.jobs
           /\ \A n \in Jobs : \A m \in apply_deferred[n] :
                 /\ m \in Jobs /\ m = <<m[1]>> /\ m[1] \in ThePlan.jobs
                 /\ pc[n] = "queued" /\ n \in running_jobs
           /\ \A j \in applied : j \in ThePlan.jobs /\ <<j>> \in Jobs
<1> USE MultiTyped
<1>1. ApartOk /\ StackOk /\ HeldOk /\ SeenOk
  BY DEF MultiRunOk
<1>2. /\ deferred_systems \subseteq Jobs /\ apply_deferred \in [Jobs -> SUBSET Jobs]
      /\ applied \subseteq ThePlan.jobs
  BY DEF Types, TypeOK
<1>3. \A m \in Jobs : Holds(m) => m = <<m[1]>> /\ m[1] \in ThePlan.jobs
  BY DEF Holds, Compiled
<1>4. ASSUME NEW m \in deferred_systems
      PROVE  m \in Jobs /\ m = <<m[1]>> /\ m[1] \in ThePlan.jobs
  BY <1>1, <1>2, <1>3 DEF HeldOk
<1>5. ASSUME NEW n \in Jobs, NEW m \in apply_deferred[n]
      PROVE  /\ m \in Jobs /\ m = <<m[1]>> /\ m[1] \in ThePlan.jobs
             /\ pc[n] = "queued" /\ n \in running_jobs
  <2>1. m \in Jobs /\ Holds(m)
    BY <1>1, <1>2 DEF HeldOk
  <2>2. pc[n] = "queued"
    BY DEF CommandsOk
  <2>3. PlaceOk(n)
    OBVIOUS
  <2>4. n \in running_jobs
    BY <2>2, <2>3 DEF PlaceOk
  <2> QED
    BY <1>3, <2>1, <2>2, <2>4
<1>6. \A j \in applied : j \in ThePlan.jobs /\ <<j>> \in Jobs
  BY <1>2 DEF Compiled
<1> QED
  BY <1>1, <1>4, <1>5, <1>6

\* A step that moves neither nodes nor commands; a job may start, or end.
LEMMA QuietRun ==
    ASSUME MultiOk, MultiRunOk,
           UNCHANGED <<plan, schedule, incoming, strong_incoming, ready_systems, running_jobs,
                       deferred_systems, pending, apply_deferred, applied>>,
           \A n \in Jobs : Open(n)' <=> Open(n),
           \A j \in ThePlan.jobs : ~Open(<<j>>) => status'[j] = status[j],
           \A j \in ThePlan.jobs : HasCommands(j) => HasCommands(j)',
           \A d \in completed' :
              d \in completed \/ (d.deferred => ~IsSync(d.index) /\ HasCommands(d.index[1])'),
           pending = {} \/ \A t \in Actors : pc'[t] = "spawn" => pc[t] = "spawn",
           Idle => Idle'
    PROVE  MultiRunOk'
<1> USE MultiTyped, RunTyped
<1>1. /\ Jobs' = Jobs /\ Actors' = Actors /\ ThePlan' = ThePlan
      /\ \A j : Ancestry(j)' = Ancestry(j)
      /\ \A n : EXCLUSIVE(ThePlan, n)' <=> EXCLUSIVE(ThePlan, n)
  BY SamePlan
<1>2. ApartOk'
  BY DEF ApartOk
<1>3. StackOk'
  BY <1>1 DEF StackOk
<1>4. \A m \in Jobs : Holds(m) => Holds(m)'
  BY DEF Holds, Compiled
<1>5. HeldOk'
  <2>1. ASSUME NEW d \in completed', d.deferred
        PROVE  ~IsSync(d.index) /\ HasCommands(d.index[1])'
    <3>1. CASE d \in completed
      <4>1. d.index \in Jobs /\ ~IsSync(d.index) /\ HasCommands(d.index[1])
        BY <2>1, <3>1, Typed DEF HeldOk
      <4> QED
        BY <4>1 DEF Compiled
    <3> QED
      BY <2>1, <3>1
  <2>2. \A m \in deferred_systems' : Holds(m)' /\ (~Idle' => m[1] \notin applied')
    BY <1>4 DEF HeldOk
  <2>3. ASSUME NEW n \in Jobs, NEW m \in apply_deferred'[n]
        PROVE  /\ Holds(m)' /\ m[1] \notin applied' /\ m \notin deferred_systems'
               /\ EXCLUSIVE(ThePlan, n)'
    BY <1>1, <1>4 DEF HeldOk
  <2>4. \A j \in applied' : ~Open(<<j>>)'
    BY DEF HeldOk
  <2> QED
    BY <1>1, <2>1, <2>2, <2>3, <2>4 DEF HeldOk
<1>6. SeenOk'
  <2> SUFFICES ASSUME NEW s \in Jobs, IsSync(s), Taken(s)', Ok(s)',
                      NEW j \in Ancestry(s[1]), HasCommands(j)'
               PROVE  Given(j)'
    BY <1>1 DEF SeenOk
  <2>1. Taken(s) /\ incoming[s] = 0
    BY DEF Taken
  <2>2. /\ s[1] \in ThePlan.jobs /\ ~Open(<<s[1]>>)
        /\ j \in ThePlan.jobs /\ ~Open(<<j>>)
    BY <2>1, ClosedBehindSync
  <2>3. Ok(s) /\ HasCommands(j)
    BY <1>1, <2>2 DEF Ok, HasCommands
  <2>4. Given(j)
    BY <2>1, <2>3 DEF SeenOk
  <2> QED
    BY <1>1, <2>4 DEF Given
<1> QED
  BY <1>2, <1>3, <1>5, <1>6 DEF MultiRunOk

\* The steps of tick that move nothing.
LEMMA TickRun ==
    ASSUME MultiOk, MultiRunOk, NEW t \in Actors,
           \/ TryLock(t) \/ Postpone(t) \/ Unlock(t) \/ Check(t) \/ Flush
           \/ Drain(t) /\ completed = {}
    PROVE  MultiRunOk' /\ UNCHANGED <<plan, status, applied>>
<1> USE MultiTyped
<1>1. /\ UNCHANGED <<plan, schedule, incoming, strong_incoming, ready_systems, running_jobs,
                     deferred_systems, completed, pending, apply_deferred, status, applied>>
      /\ \/ pc' = pc
         \/ /\ pc[t] # "none"
            /\ \E l \in Labels \ {"none"} : /\ pc' = [pc EXCEPT ![t] = l]
                                            /\ l = "spawn" => pending = {}
  <2>1. CASE TryLock(t) \/ Unlock(t) \/ Check(t) \/ Postpone(t) \/ Flush
    BY <2>1 DEF TryLock, Unlock, Check, Postpone, Flush, Goto, Labels, state, outcome, case
  <2>2. CASE Drain(t) /\ completed = {}
    BY <2>2 DEF Drain, Goto, Labels, state, case
  <2> QED
    BY <2>1, <2>2
<1>2. pc \in [Actors -> Labels]
  BY DEF Types, TypeOK, Labels
<1>3. /\ \A n \in Jobs : Open(n)' <=> Open(n)
      /\ \A j \in ThePlan.jobs : HasCommands(j) => HasCommands(j)'
  BY <1>1, SamePlan DEF Open, Event, HasCommands
<1>4. pending = {} \/ \A s \in Actors : pc'[s] = "spawn" => pc[s] = "spawn"
  BY <1>1, <1>2
<1>5. Idle => Idle'
  BY <1>1, <1>2 DEF Idle, Compiled
<1> QED
  BY <1>1, <1>3, <1>4, <1>5, QuietRun

\* A job starts: it was waiting, so it has no commands yet.
LEMMA StartJobRun ==
    ASSUME MultiOk, MultiRunOk, NEW n \in Jobs, StartJob(n)
    PROVE  MultiRunOk'
<1> USE MultiTyped
<1>1. /\ UNCHANGED <<case, state, completed, lock, unlocking, pending, todo, apply_deferred,
                      applied, runs>>
      /\ pc[n] = "queued" /\ pc' = [pc EXCEPT ![n] = "run"] /\ apply_deferred[n] = {}
      /\ status' = IF IsSync(n) THEN status ELSE [status EXCEPT ![n[1]] = "running"]
  BY DEF StartJob, Goto
<1>2. /\ \A j \in ThePlan.jobs : <<j>> # n => status'[j] = status[j]
      /\ n \in running_jobs /\ Open(n)
  BY <1>1, TaskStatus, RunningNode DEF Statuses
<1>3. \A k \in Jobs : Open(k)' <=> Open(k)
  BY <1>1 DEF Open, Event, state
<1>4. ASSUME NEW j \in ThePlan.jobs, HasCommands(j) PROVE HasCommands(j)'
  <2>1. StatusOk(j) /\ status[j] # "waiting"
    BY <1>4 DEF HasCommands
  <2>2. <<j>> # n
    BY <1>1, <2>1 DEF StatusOk
  <2> QED
    BY <1>1, <1>2, <1>4, <2>2 DEF HasCommands, ThePlan, case
<1>5. /\ \A t \in Actors : pc'[t] = "spawn" => pc[t] = "spawn"
      /\ Idle => Idle'
  BY <1>1 DEF Types, TypeOK, Idle, Compiled
<1> QED
  BY <1>1, <1>2, <1>3, <1>4, <1>5, QuietRun DEF state, case

\* A job ends: its event holds its commands.
LEMMA FinishJobRun ==
    ASSUME MultiOk, MultiRunOk, NEW n \in Jobs, FinishJob(n)
    PROVE  MultiRunOk'
<1> USE MultiTyped
<1>0. PICK r \in {"ok", "error", "skipped"} :
          /\ NO_OP(ThePlan, n) => r = "ok"
          /\ status' = IF IsSync(n) THEN status ELSE [status EXCEPT ![n[1]] = r]
          /\ completed' = completed \cup
                {Completed(n, DEFERRED(ThePlan, n) /\ ~NO_OP(ThePlan, n) /\ r # "skipped",
                           r = "ok")}
  BY DEF FinishJob
<1> DEFINE e == Completed(n, DEFERRED(ThePlan, n) /\ ~NO_OP(ThePlan, n) /\ r # "skipped", r = "ok")
<1>1. /\ UNCHANGED <<case, state, lock, unlocking, pending, todo, apply_deferred, applied, runs>>
      /\ pc[n] = "run" /\ pc' = [pc EXCEPT ![n] = "try"]
  BY DEF FinishJob, Goto
<1>2. /\ \A j \in ThePlan.jobs : <<j>> # n => status'[j] = status[j]
      /\ \A j \in ThePlan.jobs : <<j>> = n => status'[j] = r
      /\ n \in running_jobs /\ Open(n)
  <2>1. r \in Statuses
    BY DEF Statuses
  <2> QED
    BY <1>0, <1>1, <2>1, TaskStatus, RunningNode
<1>3. /\ completed' = completed \cup {e} /\ e.index = n
      /\ e.deferred = (DEFERRED(ThePlan, n) /\ ~NO_OP(ThePlan, n) /\ r # "skipped")
  BY <1>0 DEF Completed
<1> HIDE DEF e
<1>4. \A k \in Jobs : Open(k)' <=> Open(k)
  BY <1>1, <1>2, <1>3 DEF Open, Event, state
<1>5. ASSUME NEW j \in ThePlan.jobs, HasCommands(j) PROVE HasCommands(j)'
  <2>1. StatusOk(j) /\ status[j] # "running"
    BY <1>5 DEF HasCommands
  <2>2. <<j>> # n
    BY <1>1, <2>1 DEF StatusOk
  <2> QED
    BY <1>1, <1>2, <1>5, <2>2 DEF HasCommands, ThePlan, case
<1>6. e.deferred => ~IsSync(n) /\ HasCommands(n[1])'
  <2> SUFFICES ASSUME DEFERRED(ThePlan, n), ~NO_OP(ThePlan, n), r # "skipped"
               PROVE  ~IsSync(n) /\ HasCommands(n[1])'
    BY <1>3
  <2>1. ~IsSync(n) /\ n[1] \in ThePlan.deferred \ ThePlan.noop
    BY DEF DEFERRED, NO_OP
  <2>2. n = <<n[1]>> /\ n[1] \in ThePlan.jobs
    BY <2>1 DEF Compiled
  <2>3. status'[n[1]] \in {"ok", "error"}
    BY <1>2, <2>2
  <2> QED
    BY <1>1, <2>1, <2>3 DEF HasCommands, ThePlan, case
<1>7. /\ \A t \in Actors : pc'[t] = "spawn" => pc[t] = "spawn"
      /\ Idle => Idle'
  BY <1>1 DEF Types, TypeOK, Idle, Compiled
<1>8. \A j \in ThePlan.jobs : ~Open(<<j>>) => status'[j] = status[j]
  BY <1>2
<1> QED
  BY <1>1, <1>3, <1>4, <1>5, <1>6, <1>7, <1>8, QuietRun DEF state, case

\* An event is handled: its commands wait for the next exclusive task.
LEMMA HandleRun ==
    ASSUME MultiOk, MultiRunOk, NEW c, NEW skips \in SUBSET Jobs, NEW passes \in SUBSET Jobs,
           HandledAs(c, skips, passes), EventsAfter(c, skips, passes),
           c \in completed => \A t \in Actors : pc[t] # "spawn",
           passes # {} => c \in pending /\ deferred_systems = {}
    PROVE  MultiRunOk'
<1> USE MultiTyped, RunTyped
<1> DEFINE n == c.index
           out == schedule.outgoing[n]
<1>1. /\ UNCHANGED <<case, pc, apply_deferred, applied>>
      /\ running_jobs' = running_jobs \ {n}
      /\ deferred_systems' = deferred_systems \cup {m \in {n} : c.deferred}
      /\ skips = {k \in Freed(c) : strong_incoming'[k] # 0}
      /\ passes \subseteq {k \in Freed(c) \ skips : NO_OP(ThePlan, k)}
      /\ IF c.successed THEN Unblock(n) ELSE UNCHANGED strong_incoming
      /\ \A k \in Jobs : incoming'[k] = IF k \in out THEN incoming[k] - 1 ELSE incoming[k]
      /\ ready_systems' = ready_systems \cup (Freed(c) \ (skips \cup passes))
      /\ c \in completed \cup pending
      /\ completed' \subseteq completed
      /\ pending' = (pending \ {c}) \cup New(c, skips, passes)
  BY DEF HandledAs, EventsAfter
<1>2. /\ n \in Jobs /\ incoming[n] = 0 /\ Open(n)
      /\ \A k \in out : incoming[k] # 0
      /\ Freed(c) \subseteq Jobs
      /\ \A k \in Jobs : Open(k)' <=> Open(k) /\ k # n
  BY HandleOpen
<1>3. /\ Jobs' = Jobs /\ Actors' = Actors /\ ThePlan' = ThePlan
      /\ \A j : Ancestry(j)' = Ancestry(j)
      /\ \A k : EXCLUSIVE(ThePlan, k)' <=> EXCLUSIVE(ThePlan, k)
      /\ Idle' <=> Idle
  BY <1>1, SamePlan DEF case, Idle
<1>4. /\ \A j \in ThePlan.jobs : <<j>> # n => status'[j] = status[j]
      /\ \A j \in ThePlan.jobs : HasCommands(j)' <=> HasCommands(j)
  <2>1. \A j \in ThePlan.jobs : <<j>> # n => status'[j] = status[j]
    BY HandleStatus
  <2>2. ASSUME NEW j \in ThePlan.jobs, <<j>> = n
        PROVE  HasCommands(j)' <=> HasCommands(j)
    <3>1. ~IsSync(n) /\ n[1] = j
      <4>1. ~IsSync(<<j>>) /\ <<j>>[1] = j
        BY DEF Compiled
      <4> QED
        BY <2>2, <4>1, Zenon
    <3>2. CASE c \in completed
      BY <1>3, <3>1, <3>2, HandleStatus DEF HasCommands
    <3>3. CASE c \in pending
      <4>1. status[j] = "waiting" /\ status'[j] \in {"ok", "blocked"}
        BY <3>1, <3>3, HandleStatus
      <4>2. CASE c.successed
        <5>1. NO_OP(ThePlan, n)
          BY <3>3, <4>2 DEF EventsOk
        <5> QED
          BY <1>3, <3>1, <5>1 DEF NO_OP, HasCommands
      <4>3. CASE ~c.successed
        <5>1. ~Ok(n)'
          BY <4>3, HandleStatus
        <5>2. status'[j] = "blocked"
          BY <3>1, <4>1, <5>1 DEF Ok
        <5> QED
          BY <4>1, <5>2 DEF HasCommands
      <4> QED
        BY <4>2, <4>3
    <3> QED
      BY <1>1, <3>2, <3>3
  <2>3. ASSUME NEW j \in ThePlan.jobs, <<j>> # n
        PROVE  HasCommands(j)' <=> HasCommands(j)
    BY <1>3, <2>1, <2>3 DEF HasCommands
  <2> QED
    BY <2>1, <2>2, <2>3
<1>5. \A m \in Jobs : Holds(m) => Holds(m)' /\ m # n
  BY <1>2, <1>4 DEF Holds, Compiled
<1>6. ApartOk'
  BY <1>1 DEF ApartOk, case
<1>7. ASSUME c \in pending
      PROVE  c.deferred = FALSE /\ deferred_systems' = deferred_systems
  <2>1. ~c.deferred
    BY <1>7 DEF StackOk
  <2>2. c.deferred = FALSE
    BY <1>7, <2>1, Typed
  <2> QED
    BY <1>1, <2>2
<1>8. StackOk'
  <2>1. ASSUME NEW d \in pending'
        PROVE  ~d.deferred /\ (d.successed <=> strong_incoming'[d.index] = 0)
    <3>1. CASE d \in pending
      <4>1. d.index \in Jobs /\ Event(d.index) /\ PlaceOk(d.index)
        BY <3>1, Typed DEF Event
      <4>2. d.index \notin schedule.strong_outgoing[n]
        BY <1>2, <4>1 DEF PlaceOk, Compiled
      <4>3. strong_incoming'[d.index] = strong_incoming[d.index]
        BY <1>1, <4>1, <4>2 DEF Unblock
      <4> QED
        BY <3>1, <4>3 DEF StackOk
    <3>2. CASE d \in New(c, skips, passes)
      <4>1. \/ d.index \in skips /\ d = Completed(d.index, FALSE, FALSE) /\ d.successed = FALSE
            \/ d.index \in passes /\ d = Completed(d.index, FALSE, TRUE) /\ d.successed = TRUE
        BY <3>2, NewEvents
      <4>2. d.deferred = FALSE
        BY <4>1 DEF Completed
      <4> QED
        BY <1>1, <4>1, <4>2
    <3> QED
      BY <1>1, <3>1, <3>2
  <2>2. ASSUME pending' # {}, NEW t \in Actors, pc'[t] = "spawn"
        PROVE  deferred_systems' = {}
    <3>1. c \in pending
      BY <1>1, <2>2
    <3> QED
      BY <1>1, <1>7, <2>2, <3>1 DEF StackOk
  <2> QED
    BY <1>3, <2>1, <2>2 DEF StackOk
<1>9. HeldOk'
  <2>1. ASSUME NEW d \in completed', d.deferred
        PROVE  ~IsSync(d.index) /\ HasCommands(d.index[1])'
    <3>1. d.index \in Jobs /\ ~IsSync(d.index) /\ HasCommands(d.index[1])
      BY <1>1, <2>1, Typed DEF HeldOk
    <3> QED
      BY <1>4, <3>1 DEF Compiled
  <2>2. ASSUME NEW m \in deferred_systems'
        PROVE  Holds(m)' /\ (~Idle' => m[1] \notin applied')
    <3>1. CASE m \in deferred_systems
      BY <1>1, <1>3, <1>5, <3>1 DEF HeldOk
    <3>2. CASE m = n /\ c.deferred
      <4>1. c \in completed
        BY <1>1, <1>7, <3>2
      <4>2. ~IsSync(n) /\ HasCommands(n[1])
        BY <3>2, <4>1 DEF HeldOk
      <4>3. n = <<n[1]>> /\ n[1] \in ThePlan.jobs
        BY <1>2, <4>2 DEF Compiled
      <4>4. n[1] \notin applied
        BY <1>2, <4>3 DEF HeldOk
      <4>5. Holds(n)'
        BY <1>2, <1>4, <4>2, <4>3 DEF Holds
      <4> QED
        BY <1>1, <3>2, <4>4, <4>5
    <3> QED
      BY <1>1, <3>1, <3>2
  <2>3. ASSUME NEW k \in Jobs, NEW m \in apply_deferred'[k]
        PROVE  /\ Holds(m)' /\ m[1] \notin applied' /\ m \notin deferred_systems'
               /\ EXCLUSIVE(ThePlan, k)'
    <3>1. /\ Holds(m) /\ m[1] \notin applied /\ m \notin deferred_systems
          /\ EXCLUSIVE(ThePlan, k) /\ m \in Jobs
      BY <1>1, <2>3 DEF HeldOk
    <3> QED
      BY <1>1, <1>3, <1>5, <3>1
  <2>4. \A j \in applied' : ~Open(<<j>>)'
    BY <1>1, <1>2 DEF HeldOk
  <2> QED
    BY <1>3, <2>1, <2>2, <2>3, <2>4 DEF HeldOk
<1>10. SeenOk'
  <2> SUFFICES ASSUME NEW s \in Jobs, IsSync(s), Taken(s)', Ok(s)',
                      NEW j \in Ancestry(s[1]), HasCommands(j)'
               PROVE  Given(j)
    BY <1>1, <1>3 DEF SeenOk, Given
  <2>1. CASE Taken(s)
    <3>1. /\ s[1] \in ThePlan.jobs /\ ~Open(<<s[1]>>)
          /\ j \in ThePlan.jobs
      BY <2>1, ClosedBehindSync DEF Taken
    <3>2. Ok(s) /\ HasCommands(j)
      BY <1>2, <1>4, <3>1 DEF Ok
    <3> QED
      BY <2>1, <3>2 DEF SeenOk
  <2>2. CASE ~Taken(s)
    <3>1. s \in Freed(c) /\ s \in skips \cup passes /\ incoming'[s] = 0
      <4>1. incoming \in [Jobs -> Nat] /\ incoming[s] # 0 /\ incoming'[s] = 0
        BY <1>1, <2>2, Typed DEF Taken
      <4>2. s \in Freed(c)
        BY <1>1, <4>1 DEF Freed
      <4> QED
        BY <1>1, <4>1, <4>2 DEF Taken
    <3>2. s \in passes
      BY <1>1, <3>1, HandleSync
    <3>3. c \in pending /\ deferred_systems' = {}
      BY <1>7, <3>2
    <3>4. \A m \in Before(s) : Open(m) => m = n
      <4>1. Unhandled(s)' = {}
        BY <3>1, HandleCounts
      <4>2. Before(s)' = Before(s) /\ Before(s) \subseteq Jobs
        BY <1>1, <1>3 DEF Before, case
      <4> QED
        BY <1>2, <4>1, <4>2 DEF Unhandled
    <3>5. /\ s[1] \in ThePlan.jobs /\ <<s[1]>> \in Before(s)
      BY DEF Compiled
    <3>6. incoming[<<s[1]>>] = 0
      BY <1>2, <3>4, <3>5 DEF Open
    <3>7. j \in ThePlan.jobs /\ (j = s[1] \/ ~Open(<<j>>))
      BY <3>5, <3>6, ClosedAncestry
    <3>8. ASSUME NEW d \in completed, d.index = <<j>> PROVE FALSE
      <4>1. Open(<<j>>)
        BY <3>8 DEF Open, Event
      <4>2. <<j>> = n
        BY <3>4, <3>5, <3>7, <4>1
      <4>3. n \in running_jobs
        BY <3>8, <4>2 DEF EventsOk
      <4> QED
        BY <3>3, <4>3 DEF EventsOk
    <3>9. CASE j \in applied
      BY <3>9 DEF Given
    <3>10. CASE j \notin applied
      <4>1. Left(j)' /\ j \in ThePlan.deferred \ ThePlan.noop
        BY <1>1, <1>3, <3>10 DEF Left, HasCommands
      <4>2. CommandsOk'
        BY HandleCommands
      <4>3. \/ <<j>> \in deferred_systems'
            \/ \E k \in Jobs : <<j>> \in apply_deferred'[k]
            \/ \E d \in completed' : d.index = <<j>> /\ d.deferred
        BY <1>3, <4>1, <4>2 DEF CommandsOk
      <4> QED
        BY <1>1, <3>3, <3>8, <4>3 DEF Given
    <3> QED
      BY <3>9, <3>10
  <2> QED
    BY <2>1, <2>2
<1> QED
  BY <1>6, <1>8, <1>9, <1>10 DEF MultiRunOk

\* tick handles an event that it has popped.
LEMMA DrainRun ==
    ASSUME MultiOk, MultiRunOk, NEW t \in Actors, Drain(t)
    PROVE  MultiRunOk' /\ UNCHANGED <<plan, status, applied>>
<1> USE MultiTyped
<1>1. /\ UNCHANGED <<case, lock, unlocking, apply_deferred, applied, runs>>
      /\ pc[t] = "drain" /\ pending = {}
  BY DEF Drain
<1>2. \A s \in Actors : pc[s] # "spawn"
  <2>1. \A s \in Actors : pc[s] = "spawn" => s = t
    BY <1>1 DEF LockOk, Scheduling
  <2> QED
    BY <1>1, <2>1
<1>3. ASSUME NEW c \in completed, completed' = completed \ {c}, Handle(c, {}, FALSE),
             UNCHANGED <<pc, todo>>
      PROVE  MultiRunOk' /\ UNCHANGED <<plan, status, applied>>
  <2>1. Handles(c, FALSE)
    BY <1>1, <1>3 DEF Handles
  <2>2. PICK skips, passes \in SUBSET Jobs :
            /\ HandledAs(c, skips, passes) /\ EventsAfter(c, skips, passes)
            /\ passes # {} => FALSE
    BY <2>1, HandleParts
  <2>3. MultiRunOk'
    BY <1>2, <2>2, HandleRun
  <2>4. status' = status
    <3>1. \A j \in ThePlan.jobs : <<j>> # c.index => status'[j] = status[j]
      BY <2>2, HandleStatus
    <3>2. \A j \in ThePlan.jobs : <<j>> = c.index => status'[j] = status[j]
      <4>1. /\ ~IsSync(c.index) => status'[c.index[1]] = status[c.index[1]]
            /\ IsSync(c.index) => status' = status
        BY <2>2, HandleStatus
      <4>2. \A j \in ThePlan.jobs : <<j>>[1] = j
        OBVIOUS
      <4> QED
        BY <4>1, <4>2
    <3>3. status \in [ThePlan.jobs -> Statuses] /\ status' \in [ThePlan.jobs -> Statuses]
      BY <2>2, HandleStatus, Typed
    <3> QED
      BY <3>1, <3>2, <3>3
  <2> QED
    BY <1>1, <2>3, <2>4 DEF case
<1>4. CASE completed = {}
  BY <1>4, TickRun
<1> QED
  BY <1>3, <1>4 DEF Drain

\* The rest of the stack: what is passed after an exclusive spawn meets no commands.
LEMMA HandleRestRun ==
    ASSUME MultiOk, MultiRunOk, NEW t \in Actors, HandleRest(t)
    PROVE  MultiRunOk'
<1> USE MultiTyped, RunTyped
<1>1. /\ UNCHANGED <<case, completed, lock, unlocking, pc, todo, apply_deferred, applied, runs>>
      /\ pc[t] \in {"drain", "spawn"}
  BY DEF HandleRest
<1>2. PICK c \in pending : Handle(c, pending \ {c}, pc[t] = "spawn")
  BY DEF HandleRest
<1>3. c \notin completed
  BY DEF EventsOk
<1>4. Handles(c, pc[t] = "spawn") /\ (pc[t] = "spawn") \in BOOLEAN
  <2>1. /\ completed' \cup (pending \ {c}) = (completed \cup pending) \ {c}
        /\ pending \ {c} \in SUBSET pending /\ (pc[t] = "spawn") \in BOOLEAN
    BY <1>1, <1>3
  <2> QED
    BY <1>1, <1>2, <2>1 DEF Handles
<1>5. PICK skips, passes \in SUBSET Jobs :
          /\ HandledAs(c, skips, passes) /\ EventsAfter(c, skips, passes)
          /\ passes # {} => pc[t] = "spawn"
  BY <1>4, HandleParts
<1>6. passes # {} => deferred_systems = {}
  BY <1>5 DEF StackOk
<1> QED
  BY <1>3, <1>5, <1>6, HandleRun

\* A system is spawned beside what runs; if it is exclusive it takes all commands along.
LEMMA SpawnOneRun ==
    ASSUME MultiOk, MultiRunOk, NEW t \in Actors, SpawnOne(t)
    PROVE  MultiRunOk' /\ UNCHANGED <<plan, status, applied>>
<1> USE MultiTyped, RunTyped
<1>1. PICK n \in todo, noops \in SUBSET ready_systems : SpawnedAs(t, n, noops)
  BY SpawnParts
<1>2. /\ UNCHANGED <<case, incoming, strong_incoming, completed, lock, unlocking, outcome, runs>>
      /\ pc[t] = "spawn" /\ pending = {} /\ ~Idle
  BY SpawnParts
<1>3. /\ Jobs' = Jobs /\ Actors' = Actors /\ ThePlan' = ThePlan
      /\ \A j : Ancestry(j)' = Ancestry(j)
      /\ \A k : EXCLUSIVE(ThePlan, k)' <=> EXCLUSIVE(ThePlan, k)
  BY <1>2, SamePlan DEF case
<1>4. /\ n \in ready_systems /\ n \in Jobs /\ ready_systems \subseteq Jobs
      /\ running_jobs \subseteq Jobs /\ noops \subseteq ready_systems
      /\ \A k \in ready_systems : strong_incoming[k] = 0 /\ pc[k] = "none"
      /\ apply_deferred \in [Jobs -> SUBSET Jobs]
      /\ noops # {} => EXCLUSIVE(ThePlan, n)
      /\ running_jobs' = running_jobs \cup {n}
      /\ ready_systems' = (ready_systems \ {n}) \ noops
      /\ \A c \in pending' : c.index \in noops /\ c = Completed(c.index, FALSE, TRUE)
      /\ \A k \in Jobs : Open(k)' <=> Open(k)
  BY <1>1, SpawnNodes, ZenonT(40)
<1>5. /\ \A m \in running_jobs : <<n, m>> \notin schedule.conflict
      /\ \/ /\ EXCLUSIVE(ThePlan, n)
            /\ apply_deferred' = [apply_deferred EXCEPT ![n] = deferred_systems]
            /\ deferred_systems' = {}
         \/ /\ ~EXCLUSIVE(ThePlan, n)
            /\ UNCHANGED <<apply_deferred, deferred_systems>>
  BY <1>1 DEF SpawnedAs
<1>6. apply_deferred[n] = {}
  BY <1>4 DEF CommandsOk
<1>7. /\ EXCLUSIVE(ThePlan, n) => apply_deferred'[n] = deferred_systems /\ deferred_systems' = {}
      /\ ~EXCLUSIVE(ThePlan, n) => apply_deferred'[n] = {} /\ deferred_systems' = deferred_systems
      /\ \A k \in Jobs : k # n => apply_deferred'[k] = apply_deferred[k]
  BY <1>4, <1>5, <1>6
<1>8. \A j : /\ status'[j] = status[j] /\ applied' = applied
             /\ HasCommands(j)' <=> HasCommands(j)
  BY <1>2, <1>3 DEF HasCommands, outcome
<1>9. \A m \in Jobs : Holds(m)' <=> Holds(m)
  BY <1>4, <1>8 DEF Holds
<1>10. ApartOk'
  <2>1. \A m \in running_jobs : <<n, m>> \notin schedule.conflict /\ <<m, n>> \notin schedule.conflict
    <3>1. \A x, y \in Jobs : <<x, y>> \in schedule.conflict => <<y, x>> \in schedule.conflict
      BY OrdersOfGraph DEF Types, TypeOK
    <3> QED
      BY <1>4, <1>5, <3>1
  <2> QED
    BY <1>2, <1>4, <2>1 DEF ApartOk, case
<1>11. StackOk'
  <2>1. ASSUME NEW c \in pending'
        PROVE  ~c.deferred /\ (c.successed <=> strong_incoming'[c.index] = 0)
    <3>1. c.index \in noops /\ c = Completed(c.index, FALSE, TRUE)
      BY <1>4
    <3>2. c.deferred = FALSE /\ c.successed = TRUE
      BY <3>1 DEF Completed
    <3> QED
      BY <1>2, <1>4, <3>1, <3>2
  <2>2. pending' # {} => deferred_systems' = {}
    BY <1>4, <1>7
  <2> QED
    BY <2>1, <2>2 DEF StackOk
<1>12. HeldOk'
  <2>1. \A c \in completed' : c.deferred => ~IsSync(c.index) /\ HasCommands(c.index[1])'
    BY <1>2, <1>8 DEF HeldOk
  <2>2. \A m \in deferred_systems' : Holds(m)' /\ (~Idle' => m[1] \notin applied')
    BY <1>2, <1>7, <1>8, <1>9 DEF HeldOk
  <2>3. ASSUME NEW k \in Jobs, NEW m \in apply_deferred'[k]
        PROVE  /\ Holds(m)' /\ m[1] \notin applied' /\ m \notin deferred_systems'
               /\ EXCLUSIVE(ThePlan, k)'
    <3>1. CASE k = n
      BY <1>2, <1>3, <1>7, <1>8, <1>9, <2>3, <3>1 DEF HeldOk
    <3>2. CASE k # n
      <4>1. m \in apply_deferred[k]
        BY <1>7, <2>3, <3>2
      <4> QED
        BY <1>3, <1>7, <1>8, <1>9, <4>1 DEF HeldOk
    <3> QED
      BY <3>1, <3>2
  <2>4. \A j \in applied' : ~Open(<<j>>)'
    BY <1>4, <1>8 DEF HeldOk
  <2> QED
    BY <1>3, <2>1, <2>2, <2>3, <2>4 DEF HeldOk
<1>13. SeenOk'
  <2> SUFFICES ASSUME NEW s \in Jobs, IsSync(s), Taken(s)', Ok(s)',
                      NEW j \in Ancestry(s[1]), HasCommands(j)'
               PROVE  Given(j)'
    BY <1>3 DEF SeenOk
  <2>1. incoming[s] = 0 /\ s \notin ready_systems' /\ Ok(s) /\ HasCommands(j)
    BY <1>2, <1>8 DEF Taken, Ok
  <2>2. \A k \in Jobs : apply_deferred[k] \subseteq apply_deferred'[k]
    BY <1>6, <1>7
  <2>3. CASE s \notin ready_systems
    <3>1. Given(j)
      BY <2>1, <2>3 DEF SeenOk, Taken
    <3> QED
      BY <1>3, <1>8, <2>2, <3>1 DEF Given
  <2>4. CASE s \in ready_systems
    <3>1. EXCLUSIVE(ThePlan, n)
      BY <1>4, <2>1, <2>4 DEF EXCLUSIVE
    <3>2. j \in ThePlan.jobs /\ ~Open(<<j>>)
      BY <2>1, ClosedBehindSync
    <3>3. CASE j \in applied
      BY <1>8, <3>3 DEF Given
    <3>4. CASE j \notin applied
      <4>1. Left(j) /\ j \in ThePlan.deferred \ ThePlan.noop
        BY <2>1, <3>4 DEF Left, HasCommands
      <4>2. \/ <<j>> \in deferred_systems
            \/ \E k \in Jobs : <<j>> \in apply_deferred[k]
            \/ \E c \in completed : c.index = <<j>> /\ c.deferred
        BY <4>1 DEF CommandsOk
      <4>3. ~\E c \in completed : c.index = <<j>>
        BY <3>2 DEF Open, Event
      <4>4. \E k \in Jobs : <<j>> \in apply_deferred'[k]
        BY <1>4, <1>7, <2>2, <3>1, <4>2, <4>3
      <4> QED
        BY <1>3, <4>4 DEF Given
    <3> QED
      BY <3>3, <3>4
  <2> QED
    BY <2>3, <2>4
<1> QED
  BY <1>2, <1>10, <1>11, <1>12, <1>13 DEF MultiRunOk, case, outcome

\* An exclusive task applies what it holds; nobody else holds anything.
LEMMA ApplyDeferredRun ==
    ASSUME MultiOk, MultiRunOk, NEW n \in Jobs, ApplyDeferred(n)
    PROVE  /\ MultiRunOk' /\ UNCHANGED <<plan, status>>
           /\ n \in running_jobs /\ EXCLUSIVE(ThePlan, n) /\ pc[n] = "queued"
<1> USE MultiTyped, RunTyped
<1>1. /\ UNCHANGED <<case, state, completed, lock, unlocking, pc, pending, todo, status, runs>>
      /\ pc[n] = "queued" /\ apply_deferred[n] # {}
      /\ applied' = applied \cup {m[1] : m \in apply_deferred[n]}
      /\ apply_deferred' = [apply_deferred EXCEPT ![n] = {}]
  BY DEF ApplyDeferred
<1>2. /\ Jobs' = Jobs /\ Actors' = Actors /\ ThePlan' = ThePlan
      /\ \A j : Ancestry(j)' = Ancestry(j)
      /\ \A k : EXCLUSIVE(ThePlan, k)' <=> EXCLUSIVE(ThePlan, k)
  BY <1>1, SamePlan DEF case
<1>3. n \in running_jobs /\ EXCLUSIVE(ThePlan, n)
  BY <1>1 DEF HeldOk
<1>4. \A k \in Jobs : k # n => apply_deferred[k] = {}
  <2> SUFFICES ASSUME NEW k \in Jobs, k # n, NEW m \in apply_deferred[k] PROVE FALSE
    OBVIOUS
  <2>1. k \in running_jobs
    OBVIOUS
  <2>2. <<k, n>> \in schedule.conflict
    BY <1>3 DEF Compiled
  <2> QED
    BY <1>3, <2>1, <2>2 DEF ApartOk
<1>5. \A k \in Jobs : apply_deferred'[k] = {}
  <2>1. apply_deferred \in [Jobs -> SUBSET Jobs]
    BY DEF Types, TypeOK
  <2> QED
    BY <1>1, <1>4, <2>1
<1>6. /\ \A k : Open(k)' <=> Open(k)
      /\ \A j : HasCommands(j)' <=> HasCommands(j)
      /\ \A m : Holds(m)' <=> Holds(m)
  BY <1>1, <1>2 DEF Open, Event, HasCommands, Holds, state
<1>7. ApartOk' /\ StackOk'
  BY <1>1, <1>2 DEF ApartOk, StackOk, state, case
<1>8. \A m \in apply_deferred[n] : /\ Holds(m) /\ m \notin deferred_systems /\ m = <<m[1]>>
                                    /\ m[1] \in ThePlan.jobs
  BY DEF HeldOk
<1>9. HeldOk'
  <2>1. \A d \in completed' : d.deferred => ~IsSync(d.index) /\ HasCommands(d.index[1])'
    BY <1>1, <1>6 DEF HeldOk
  <2>2. ASSUME NEW m \in deferred_systems'
        PROVE  Holds(m)' /\ (~Idle' => m[1] \notin applied')
    <3>1. m \in deferred_systems /\ m = <<m[1]>> /\ Holds(m) /\ (~Idle => m[1] \notin applied)
      BY <1>1 DEF HeldOk, state
    <3>2. \A x \in apply_deferred[n] : x[1] # m[1]
      BY <1>8, <3>1
    <3> QED
      BY <1>1, <1>6, <3>1, <3>2 DEF Idle
  <2>3. ASSUME NEW j \in applied' PROVE ~Open(<<j>>)'
    <3>1. CASE j \in applied
      BY <1>6, <3>1 DEF HeldOk
    <3>2. CASE j \in {m[1] : m \in apply_deferred[n]}
      <4>1. PICK m \in apply_deferred[n] : j = m[1]
        BY <3>2
      <4>2. Holds(m) /\ m = <<j>>
        BY <1>8, <4>1
      <4> QED
        BY <1>6, <4>2 DEF Holds
    <3> QED
      BY <1>1, <3>1, <3>2
  <2> QED
    BY <1>2, <1>5, <2>1, <2>2, <2>3 DEF HeldOk
<1>10. SeenOk'
  <2> SUFFICES ASSUME NEW s \in Jobs, IsSync(s), Taken(s)', Ok(s)',
                      NEW j \in Ancestry(s[1]), HasCommands(j)'
               PROVE  Given(j)'
    BY <1>2 DEF SeenOk
  <2>1. Given(j)
    BY <1>1, <1>6 DEF SeenOk, Taken, Ok, state
  <2>2. <<j>> \in apply_deferred[n] => j \in applied'
    <3>1. <<j>>[1] = j
      OBVIOUS
    <3> QED
      BY <1>1, <3>1
  <2> QED
    BY <1>1, <1>4, <2>1, <2>2 DEF Given
<1> QED
  BY <1>1, <1>3, <1>7, <1>9, <1>10 DEF MultiRunOk, case

\* exec applies what is left.
LEMMA ApplyRestRun ==
    ASSUME MultiOk, MultiRunOk, ApplyRest
    PROVE  MultiRunOk' /\ UNCHANGED <<plan, status>>
<1> USE MultiTyped, RunTyped
<1>1. /\ UNCHANGED <<case, state, completed, lock, unlocking, pending, todo, apply_deferred,
                      status, runs>>
      /\ pc[Main] = "end" /\ pc' = [pc EXCEPT ![Main] = "none"]
      /\ applied' = applied \cup {m[1] : m \in deferred_systems}
  BY DEF ApplyRest, Goto
<1>2. /\ Jobs' = Jobs /\ Actors' = Actors /\ ThePlan' = ThePlan
      /\ \A j : Ancestry(j)' = Ancestry(j)
      /\ \A k : EXCLUSIVE(ThePlan, k)' <=> EXCLUSIVE(ThePlan, k)
  BY <1>1, SamePlan DEF case
<1>3. /\ Idle' /\ \A t \in Actors : pc'[t] = "spawn" => pc[t] = "spawn"
  BY <1>1 DEF Types, TypeOK, Idle, Compiled
<1>4. \A n \in Jobs : apply_deferred[n] = {}
  BY DEF ApplyRest, ScopeOver, CommandsOk, Actors
<1>5. /\ \A k : Open(k)' <=> Open(k)
      /\ \A j : HasCommands(j)' <=> HasCommands(j)
      /\ \A m : Holds(m)' <=> Holds(m)
  BY <1>1, <1>2 DEF Open, Event, HasCommands, Holds, state
<1>6. ApartOk' /\ StackOk'
  BY <1>1, <1>2, <1>3 DEF ApartOk, StackOk, state, case
<1>7. HeldOk'
  <2>1. \A d \in completed' : d.deferred => ~IsSync(d.index) /\ HasCommands(d.index[1])'
    BY <1>1, <1>5 DEF HeldOk
  <2>2. \A m \in deferred_systems' : Holds(m)'
    BY <1>1, <1>5 DEF HeldOk, state
  <2>3. ASSUME NEW j \in applied' PROVE ~Open(<<j>>)'
    <3>1. CASE j \in applied
      BY <1>5, <3>1 DEF HeldOk
    <3>2. CASE j \in {m[1] : m \in deferred_systems}
      <4>1. PICK m \in deferred_systems : j = m[1]
        BY <3>2
      <4>2. Holds(m) /\ m = <<j>>
        BY <4>1 DEF HeldOk
      <4> QED
        BY <1>5, <4>2 DEF Holds
    <3> QED
      BY <1>1, <3>1, <3>2
  <2> QED
    BY <1>1, <1>2, <1>3, <1>4, <2>1, <2>2, <2>3 DEF HeldOk
<1>8. SeenOk'
  <2> SUFFICES ASSUME NEW s \in Jobs, IsSync(s), Taken(s)', Ok(s)',
                      NEW j \in Ancestry(s[1]), HasCommands(j)'
               PROVE  Given(j)'
    BY <1>2 DEF SeenOk
  <2>1. Given(j)
    BY <1>1, <1>5 DEF SeenOk, Taken, Ok, state
  <2> QED
    BY <1>1, <1>2, <2>1 DEF Given
<1> QED
  BY <1>1, <1>6, <1>7, <1>8 DEF MultiRunOk, case

\* When exec is called no command is there yet.
LEMMA FreshRun == Fresh => RInv
<1> SUFFICES ASSUME Fresh PROVE RInv
  OBVIOUS
<1>1. Compiled
  BY CompiledGraph DEF Fresh
<1>2. \A j : ~HasCommands(j)
  BY <1>1 DEF HasCommands, Fresh, Compiled
<1>3. \A n \in Jobs : pc[n] = "none"
  BY <1>1 DEF Fresh, Begin, Actors, Compiled
<1>4. CASE kind = "multi"
  <2>1. ApartOk /\ StackOk /\ HeldOk /\ SeenOk
    BY <1>2, <1>4 DEF ApartOk, StackOk, HeldOk, SeenOk, Fresh
  <2> QED
    BY <1>4, <2>1 DEF RInv, MultiRunOk
<1>5. CASE kind = "single"
  BY <1>3, <1>5 DEF RInv, SingleRunOk, Fresh
<1> QED
  BY <1>4, <1>5 DEF Fresh

\* The single-threaded executor applies the commands of a job before it goes on.
LEMMA SingleRun ==
    ASSUME SingleOk, SingleRunOk, Single
    PROVE  SingleRunOk'
<1> USE SingleTyped
<1>1. UNCHANGED <<plan, schedule>> /\ Jobs' = Jobs
  BY DEF Single, AllVisited, Visit, Return, ApplyOwn, Unwind, case, Jobs
<1>2. CASE AllVisited
  <2>1. \A n \in Jobs : pc'[n] = pc[n]
    BY <1>2 DEF AllVisited, Goto
  <2>2. \A j \in applied : <<j>> \in Jobs
    BY DEF Compiled
  <2> QED
    BY <1>1, <1>2, <2>1, <2>2 DEF AllVisited, SingleRunOk, outcome
<1>3. ASSUME NEW n \in Jobs, Visit(n) PROVE SingleRunOk'
  <2>1. /\ n \in todo /\ todo' = todo \ {n} /\ applied' = applied
        /\ \A m \in Jobs : pc[m] = "none"
        /\ pc' = pc \/ pc' = [pc EXCEPT ![n] = "call"]
    BY <1>3 DEF Visit, Goto
  <2>2. /\ \A m \in Jobs : pc'[m] # "commands"
        /\ \A m \in Jobs : m # n => pc'[m] = "none"
    BY <2>1
  <2>3. \A j \in applied : <<j>> \in Jobs /\ <<j>> # n /\ <<j>> \notin todo
    <3> TAKE j \in applied
    <3>1. <<j>> \in Jobs
      BY DEF Compiled
    <3>2. <<j>> \notin todo
      BY DEF SingleRunOk
    <3> QED
      BY <2>1, <3>1, <3>2, Zenon
  <2> QED
    BY <1>1, <2>1, <2>2, <2>3 DEF SingleRunOk
<1>4. ASSUME NEW n \in Jobs, pc[n] # "none", pc' = [pc EXCEPT ![n] = pc'[n]],
             pc'[n] \in {"none", "commands"}, todo' = todo,
             applied' \subseteq applied \cup {n[1]},
             pc'[n] = "commands" =>
                applied' = applied /\ status'[n[1]] \in {"ok", "error", "skipped"}
      PROVE  SingleRunOk'
  <2>1. \A m \in Jobs : m # n => pc[m] = "none" /\ pc'[m] = "none"
    BY <1>4, CalledNode
  <2>2. ASSUME NEW j \in applied' PROVE <<j>> \notin todo' /\ pc'[<<j>>] = "none"
    <3>1. CASE j \in applied
      <4>1. <<j>> \in Jobs /\ <<j>> \notin todo /\ pc[<<j>>] = "none"
        BY <3>1 DEF Compiled, SingleRunOk
      <4> QED
        BY <1>4, <2>1, <4>1
    <3>2. CASE j = n[1] /\ j \notin applied
      <4>1. n = <<j>> /\ n \notin todo
        BY <1>4, <3>2, CalledNode
      <4> QED
        BY <1>4, <2>2, <3>2, <4>1
    <3> QED
      BY <1>4, <2>2, <3>1, <3>2
  <2>3. \A m \in Jobs : pc'[m] = "commands" => status'[m[1]] \in {"ok", "error", "skipped"}
    BY <1>4, <2>1
  <2> QED
    BY <1>1, <2>2, <2>3 DEF SingleRunOk
<1>5. ASSUME NEW n \in Jobs, Return(n) PROVE SingleRunOk'
  <2>1. PICK r \in {"ok", "error", "skipped"} : status' = [status EXCEPT ![n[1]] = r]
    BY <1>5 DEF Return
  <2>2. /\ pc[n] = "call" /\ pc' = [pc EXCEPT ![n] = "commands"]
        /\ todo' = todo /\ applied' = applied
    BY <1>5 DEF Return, Goto
  <2>3. status'[n[1]] \in {"ok", "error", "skipped"} /\ pc'[n] = "commands"
    BY <2>1, <2>2 DEF Compiled
  <2> QED
    BY <1>4, <2>2, <2>3
<1>6. ASSUME NEW n \in Jobs, ApplyOwn(n) PROVE SingleRunOk'
  <2>1. /\ pc[n] = "commands" /\ pc' = [pc EXCEPT ![n] = "none"]
        /\ todo' = todo /\ applied' \subseteq applied \cup {n[1]}
    BY <1>6 DEF ApplyOwn, Goto
  <2>2. pc'[n] = "none"
    BY <2>1
  <2> QED
    BY <1>4, <2>1, <2>2
<1>7. ASSUME NEW n \in Jobs, Unwind(n) PROVE SingleRunOk'
  <2>1. /\ pc[n] = "call" /\ pc' = [pc EXCEPT ![n] = "none", ![Main] = "unwound"]
        /\ todo' = todo /\ applied' = applied
    BY <1>7 DEF Unwind
  <2>2. \A m \in Jobs : pc'[m] = "none"
    <3>1. \A m \in Jobs : m # n => pc[m] = "none"
      BY <2>1, CalledNode
    <3>2. \A m \in Jobs : m # n => pc'[m] = pc[m]
      BY <2>1
    <3>3. pc'[n] = "none"
      BY <2>1
    <3> QED
      BY <3>1, <3>2, <3>3
  <2>3. \A j \in applied : <<j>> \in Jobs
    BY DEF Compiled
  <2> QED
    BY <1>1, <2>1, <2>2, <2>3 DEF SingleRunOk
<1> QED
  BY <1>2, <1>3, <1>5, <1>6, <1>7 DEF Single

-----------------------------------------------------------------------------
(***************************************************************************)
(* An execution as ScheduleRun sees it.                                    *)
(***************************************************************************)

\* The jobs before a, and those strongly before it.
BeforeJob(a) == {b \in ThePlan.jobs : <<b>> \in Before(<<a>>)}
StronglyBeforeJob(a) == {b \in ThePlan.jobs : <<b>> \in StronglyBefore(<<a>>)}

\* The orders and the conflicts it speaks of are those of the compiled graph.
LEMMA PromiseMeans ==
    ASSUME plan \in DOMAIN Plans, schedule = JobSchedule(ThePlan)
    PROVE  /\ Promise!ThePlan = ThePlan
           /\ \A a \in ThePlan.jobs :
                 /\ Promise!JobsBefore(a) = BeforeJob(a)
                 /\ Promise!JobsStronglyBefore(a) = StronglyBeforeJob(a)
                 /\ \A b \in Promise!JobsSeen(a) :
                       <<b, a>> \in Jobs /\ IsSync(<<b, a>>) /\ <<b, a>> \in Before(<<a>>)
           /\ \A a : Promise!Ancestry(a) = Ancestry(a)
           /\ \A a : Promise!HasCommands(a) <=> HasCommands(a)
           /\ \A m, n \in Jobs :
                 Promise!IsConflict(ThePlan, m, n) <=> <<m, n>> \in schedule.conflict
<1>1. Promise!ThePlan = ThePlan
  BY DEF Promise!ThePlan, ThePlan
<1>2. \A a : Promise!Ancestry(a) = Ancestry(a)
  BY DEF Promise!Ancestry, Ancestry
<1>3. \A a : Promise!HasCommands(a) <=> HasCommands(a)
  BY <1>1 DEF Promise!HasCommands, HasCommands
<1>4. \A m, n \in Jobs : Promise!IsConflict(ThePlan, m, n) <=> <<m, n>> \in schedule.conflict
  <2>1. \A m, n : Promise!IsConflict(ThePlan, m, n) <=> IsConflict(ThePlan, m, n)
    BY DEF Promise!IsConflict, Promise!EXCLUSIVE, Promise!IsSync, IsConflict, EXCLUSIVE, IsSync
  <2> QED
    BY <2>1, OrdersOfGraph
<1>5. ASSUME NEW a \in ThePlan.jobs
      PROVE  /\ Promise!JobsBefore(a) = BeforeJob(a)
             /\ Promise!JobsStronglyBefore(a) = StronglyBeforeJob(a)
             /\ \A b \in Promise!JobsSeen(a) :
                   <<b, a>> \in Jobs /\ IsSync(<<b, a>>) /\ <<b, a>> \in Before(<<a>>)
  <2>1. /\ Promise!JobsBefore(a) = {b \in ThePlan.jobs : <<b, a>> \in AnyOrder(ThePlan)}
        /\ Promise!JobsStronglyBefore(a) = {b \in ThePlan.jobs : <<b, a>> \in StrongOrder(ThePlan)}
        /\ Promise!JobsSeen(a) = {b \in ThePlan.deferred :
                                     <<b, a>> \in StrongOrder(ThePlan) \cup WeakOrder(ThePlan)}
    BY DEF Promise!JobsBefore, Promise!JobsStronglyBefore, Promise!JobsSeen, Orders, JobOrders,
           ThePlan
  <2>2. Promise!JobsBefore(a) = BeforeJob(a)
    BY <2>1, OrdersOfGraph DEF BeforeJob
  <2>3. Promise!JobsStronglyBefore(a) = StronglyBeforeJob(a)
    BY <2>1, OrdersOfGraph DEF StronglyBeforeJob
  <2>4. ASSUME NEW b \in Promise!JobsSeen(a)
        PROVE  <<b, a>> \in Jobs /\ IsSync(<<b, a>>) /\ <<b, a>> \in Before(<<a>>)
    <3>1. <<b, a>> \in SyncPoints(ThePlan)
      BY <2>1 DEF SyncPoints
    <3>2. <<b, a>>[2] = a
      OBVIOUS
    <3> QED
      BY <3>1, <3>2, OrdersOfGraph
  <2> QED
    BY <2>2, <2>3, <2>4
<1> QED
  BY <1>1, <1>2, <1>3, <1>4, <1>5

\* What the executor does is a step of ScheduleRun, or nothing that it sees.
Promised == Promise!RunNext \/ UNCHANGED <<plan, kind, status, applied>>

\* A job whose turn has come: what was before it is resolved, and strong_incoming tells
\* whether its strong order holds.
LEMMA TurnOfJob ==
    ASSUME MultiOk, NEW j \in ThePlan.jobs, incoming[<<j>>] = 0
    PROVE  /\ \A b \in BeforeJob(j) : status[b] \in Promise!Resolved
           /\ strong_incoming[<<j>>] = 0 <=> \A b \in StronglyBeforeJob(j) : status[b] = "ok"
<1> USE MultiTyped
<1>1. <<j>> \in Jobs /\ Unhandled(<<j>>) = {}
      /\ (strong_incoming[<<j>>] = 0 <=> Missing(<<j>>) = {})
  BY Counting DEF Compiled
<1>2. ASSUME NEW b \in ThePlan.jobs, ~Open(<<b>>) PROVE status[b] \in Promise!Resolved
  <2>1. <<b>> \in Jobs /\ StatusOk(b) /\ status[b] \in Statuses
    BY Typed DEF Compiled
  <2>2. pc[<<b>>] \notin {"queued", "run"}
    BY <1>2, <2>1 DEF PlaceOk, Open
  <2>3. status[b] # "waiting" /\ status[b] # "running"
    BY <1>2, <2>1, <2>2 DEF StatusOk, Open, Event
  <2> QED
    BY <2>1, <2>3 DEF Statuses, Promise!Resolved
<1>3. \A b \in BeforeJob(j) : status[b] \in Promise!Resolved
  BY <1>1, <1>2 DEF BeforeJob, Unhandled
<1>4. ASSUME Missing(<<j>>) = {}, NEW b \in StronglyBeforeJob(j) PROVE status[b] = "ok"
  <2>1. Ok(<<b>>)
    BY <1>4 DEF Missing, StronglyBeforeJob
  <2>2. <<b>>[1] = b
    OBVIOUS
  <2> QED
    BY <2>1, <2>2 DEF Ok
<1>5. ASSUME \A b \in StronglyBeforeJob(j) : status[b] = "ok" PROVE Missing(<<j>>) = {}
  <2> SUFFICES ASSUME NEW m \in Missing(<<j>>) PROVE FALSE
    OBVIOUS
  <2>1. m \in StronglyBefore(<<j>>) /\ (Open(m) \/ ~Ok(m))
    BY DEF Missing
  <2>2. m \in Before(<<j>>) /\ m = <<m[1]>> /\ m[1] \in ThePlan.jobs
    BY <1>1, <2>1, StrongJobs
  <2>3. ~Open(m)
    BY <1>1, <2>2 DEF Unhandled
  <2>4. m[1] \in StronglyBeforeJob(j)
    BY <2>1, <2>2 DEF StronglyBeforeJob
  <2> QED
    BY <1>5, <2>1, <2>3, <2>4 DEF Ok
<1> QED
  BY <1>1, <1>3, <1>4, <1>5

\* A job that is about to start sees the commands that it is promised.
LEMMA StartSees ==
    ASSUME MultiOk, MultiRunOk, NEW n \in Jobs, pc[n] = "queued", apply_deferred[n] = {},
           NEW j \in ThePlan.jobs, n = <<j>>
    PROVE  Promise!Visible(j)
<1> USE MultiTyped, RunTyped
<1>1. n \in running_jobs /\ incoming[n] = 0
  BY RunningNode
<1>2. plan \in DOMAIN Plans /\ schedule = JobSchedule(ThePlan)
  BY DEF Types, TypeOK
<1>a. kind = "multi"
  BY DEF MultiOk
<1> SUFFICES ASSUME NEW a \in Ancestry(j), NEW b \in Promise!JobsSeen(a), status[b] = "ok",
                    NEW c \in Ancestry(b), HasCommands(c)
             PROVE  c \in applied
  BY <1>2, <1>a, PromiseMeans DEF Promise!Visible, Promise!PromisedTo
<1>3. a \in ThePlan.jobs /\ incoming[<<a>>] = 0 /\ <<a>> \in Jobs
  <2>1. a \in ThePlan.jobs /\ (a = j \/ ~Open(<<a>>))
    BY <1>1, ClosedAncestry
  <2> QED
    BY <1>1, <2>1 DEF Open, Compiled
<1> DEFINE s == <<b, a>>
<1>4. s \in Jobs /\ IsSync(s) /\ s \in Before(<<a>>)
  BY <1>2, <1>3, PromiseMeans
<1>5. ~Open(s)
  BY <1>3, <1>4, Counting DEF Unhandled
<1>6. s[1] = b
  OBVIOUS
<1>7. Taken(s) /\ Ok(s) /\ c \in Ancestry(s[1])
  BY <1>5, <1>6 DEF Taken, Ok, Open
<1>8. Given(c)
  BY <1>4, <1>7 DEF SeenOk
<1>9. ASSUME NEW k \in Jobs, <<c>> \in apply_deferred[k] PROVE FALSE
  <2>1. k \in running_jobs /\ EXCLUSIVE(ThePlan, k) /\ k # n
    BY <1>9 DEF HeldOk
  <2>2. <<n, k>> \in schedule.conflict
    BY <2>1 DEF Compiled
  <2> QED
    BY <1>1, <2>1, <2>2 DEF ApartOk
<1> QED
  BY <1>8, <1>9 DEF Given

LEMMA StartJobPromised ==
    ASSUME MultiOk, MultiRunOk, NEW n \in Jobs, StartJob(n)
    PROVE  Promised
<1> USE MultiTyped, RunTyped
<1>1. /\ UNCHANGED <<plan, kind, applied>> /\ pc[n] = "queued" /\ apply_deferred[n] = {}
      /\ status' = IF IsSync(n) THEN status ELSE [status EXCEPT ![n[1]] = "running"]
  BY DEF StartJob, case
<1>2. CASE IsSync(n)
  BY <1>1, <1>2 DEF Promised
<1>3. CASE ~IsSync(n)
  <2> DEFINE j == n[1]
  <2>1. n = <<j>> /\ j \in ThePlan.jobs
    BY <1>3 DEF Compiled
  <2>2. n \in running_jobs /\ incoming[n] = 0 /\ strong_incoming[n] = 0
    BY <1>1, RunningNode
  <2>3. status[j] = "waiting"
    BY <1>1, <2>1 DEF StatusOk
  <2>4. plan \in DOMAIN Plans /\ schedule = JobSchedule(ThePlan)
    BY DEF Types, TypeOK
  <2> HIDE DEF j
  <2>5. Promise!MayStart(j)
    BY <2>1, <2>2, <2>3, <2>4, TurnOfJob, PromiseMeans DEF Promise!MayStart
  <2>6. \A k \in Promise!Running : ~Promise!IsConflict(ThePlan, <<j>>, <<k>>)
    <3> SUFFICES ASSUME NEW k \in ThePlan.jobs, status[k] = "running"
                 PROVE  ~Promise!IsConflict(ThePlan, <<j>>, <<k>>)
      BY <2>4, PromiseMeans DEF Promise!Running
    <3>1. <<k>> \in Jobs /\ pc[<<k>>] = "run"
      BY DEF StatusOk, Compiled
    <3>2. <<k>> \in running_jobs /\ <<k>> # n
      BY <1>1, <3>1, RunningNode
    <3> QED
      BY <2>1, <2>2, <2>4, <3>1, <3>2, PromiseMeans DEF ApartOk
  <2>7. Promise!Visible(j)
    BY <1>1, <2>1, StartSees
  <2>8. Promise!Start(j)
    BY <1>1, <1>3, <2>4, <2>5, <2>6, <2>7, PromiseMeans DEF Promise!Start, j
  <2> QED
    BY <2>1, <2>4, <2>8, PromiseMeans DEF Promised, Promise!RunNext
<1> QED
  BY <1>2, <1>3

LEMMA FinishJobPromised ==
    ASSUME MultiOk, NEW n \in Jobs, FinishJob(n)
    PROVE  Promised
<1> USE MultiTyped
<1>1. UNCHANGED <<plan, kind, applied>> /\ pc[n] = "run"
  BY DEF FinishJob, case
<1>2. PICK r \in {"ok", "error", "skipped"} :
         status' = IF IsSync(n) THEN status ELSE [status EXCEPT ![n[1]] = r]
  BY DEF FinishJob
<1>3. CASE IsSync(n)
  BY <1>1, <1>2, <1>3 DEF Promised
<1>4. CASE ~IsSync(n)
  <2>1. n = <<n[1]>> /\ n[1] \in ThePlan.jobs
    BY <1>4 DEF Compiled
  <2>2. status[n[1]] = "running"
    BY <1>1, <2>1 DEF StatusOk
  <2>3. Promise!Finish(n[1])
    BY <1>1, <1>2, <1>4, <2>2 DEF Promise!Finish
  <2>4. plan \in DOMAIN Plans /\ schedule = JobSchedule(ThePlan)
    BY DEF Types, TypeOK
  <2> QED
    BY <2>1, <2>3, <2>4, PromiseMeans DEF Promised, Promise!RunNext
<1> QED
  BY <1>3, <1>4

\* What is skipped is blocked, and what is passed passes.
LEMMA HandleRestPromised ==
    ASSUME MultiOk, MultiRunOk, NEW t \in Actors, HandleRest(t)
    PROVE  Promised
<1> USE MultiTyped, RunTyped
<1>1. PICK c \in pending : Handle(c, pending \ {c}, pc[t] = "spawn")
  BY DEF HandleRest
<1>2. UNCHANGED <<plan, kind, applied>> /\ Settle(c)
  BY <1>1 DEF HandleRest, Handle, case
<1>3. /\ c.index \in Jobs /\ incoming[c.index] = 0
      /\ c.successed <=> strong_incoming[c.index] = 0
      /\ c.successed => NO_OP(ThePlan, c.index)
  <2>1. c.index \in Jobs /\ Event(c.index)
    BY Typed DEF Event
  <2>2. incoming[c.index] = 0
    BY <2>1 DEF PlaceOk
  <2> QED
    BY <2>1, <2>2 DEF StackOk, EventsOk
<1>4. CASE IsSync(c.index)
  BY <1>2, <1>4 DEF Settle, Promised
<1>5. CASE ~IsSync(c.index)
  <2> DEFINE j == c.index[1]
  <2>1. c.index = <<j>> /\ j \in ThePlan.jobs
    BY <1>3, <1>5 DEF Compiled
  <2>2. status[j] = "waiting"
    BY <2>1 DEF StatusOk
  <2>3. status' = [status EXCEPT ![j] = IF c.successed THEN "ok" ELSE "blocked"]
    BY <1>2, <1>5, <2>2 DEF Settle
  <2>4. plan \in DOMAIN Plans /\ schedule = JobSchedule(ThePlan)
    BY DEF Types, TypeOK
  <2> HIDE DEF j
  <2>5. /\ \A b \in Promise!JobsBefore(j) : status[b] \in Promise!Resolved
        /\ strong_incoming[<<j>>] = 0 <=> \A b \in Promise!JobsStronglyBefore(j) : status[b] = "ok"
    BY <1>3, <2>1, <2>4, TurnOfJob, PromiseMeans
  <2>6. CASE c.successed
    <3>1. j \in ThePlan.noop
      BY <1>3, <1>5, <2>6 DEF NO_OP, j
    <3>2. Promise!MayStart(j)
      BY <1>3, <2>1, <2>2, <2>5, <2>6 DEF Promise!MayStart
    <3>3. Promise!Pass(j)
      BY <1>2, <2>3, <2>4, <2>6, <3>1, <3>2, PromiseMeans DEF Promise!Pass
    <3> QED
      BY <2>1, <2>4, <3>3, PromiseMeans DEF Promised, Promise!RunNext
  <2>7. CASE ~c.successed
    <3>1. \E b \in Promise!JobsStronglyBefore(j) : status[b] # "ok"
      BY <1>3, <2>1, <2>5, <2>7
    <3>2. Promise!Block(j)
      BY <1>2, <2>2, <2>3, <2>5, <2>7, <3>1 DEF Promise!Block
    <3> QED
      BY <2>1, <2>4, <3>2, PromiseMeans DEF Promised, Promise!RunNext
  <2> QED
    BY <2>6, <2>7
<1> QED
  BY <1>4, <1>5

\* Commands are applied while nothing runs, and for the first time.
LEMMA ApplyPromised ==
    ASSUME plan \in DOMAIN Plans, schedule = JobSchedule(ThePlan), UNCHANGED <<plan, kind, status>>,
           \A j \in ThePlan.jobs : status[j] # "running",
           NEW S \in SUBSET ThePlan.jobs, applied' = applied \cup S,
           \A j \in S : HasCommands(j) /\ j \notin applied
    PROVE  Promised
<1>1. Promise!Running = {}
  BY PromiseMeans DEF Promise!Running
<1>2. S \in SUBSET {j \in Promise!ThePlan.jobs : Promise!HasCommands(j)}
  BY PromiseMeans
<1>3. S \cap applied = {}
  OBVIOUS
<1>4. Promise!Apply
  BY <1>1, <1>2, <1>3 DEF Promise!Apply
<1> QED
  BY <1>4 DEF Promised, Promise!RunNext

LEMMA ApplyDeferredPromised ==
    ASSUME MultiOk, MultiRunOk, NEW n \in Jobs, ApplyDeferred(n)
    PROVE  Promised
<1> USE MultiTyped, RunTyped
<1>1. UNCHANGED <<plan, kind, status>> /\ n \in running_jobs /\ EXCLUSIVE(ThePlan, n) /\ pc[n] = "queued"
  BY ApplyDeferredRun DEF ApplyDeferred, case
<1>2. plan \in DOMAIN Plans /\ schedule = JobSchedule(ThePlan)
  BY DEF Types, TypeOK
<1>3. ASSUME NEW k \in ThePlan.jobs, status[k] = "running" PROVE FALSE
  <2>1. <<k>> \in Jobs /\ pc[<<k>>] = "run"
    BY <1>3 DEF StatusOk, Compiled
  <2>2. <<k>> \in running_jobs /\ <<k>> # n
    BY <1>1, <2>1, RunningNode
  <2>3. << <<k>>, n >> \in schedule.conflict
    BY <1>1, <2>1 DEF Compiled
  <2> QED
    BY <1>1, <2>2, <2>3 DEF ApartOk
<1> DEFINE S == {m[1] : m \in apply_deferred[n]}
<1>4. /\ S \in SUBSET ThePlan.jobs
      /\ \A j \in S : HasCommands(j) /\ j \notin applied
  BY DEF HeldOk, Holds
<1>5. applied' = applied \cup S
  BY DEF ApplyDeferred
<1> HIDE DEF S
<1> QED
  BY <1>1, <1>2, <1>3, <1>4, <1>5, ApplyPromised

LEMMA ApplyRestPromised ==
    ASSUME MultiOk, MultiRunOk, ApplyRest
    PROVE  Promised
<1> USE MultiTyped, RunTyped
<1>1. UNCHANGED <<plan, kind, status>> /\ ~Idle /\ ScopeOver
  BY DEF ApplyRest, Idle, case
<1>2. plan \in DOMAIN Plans /\ schedule = JobSchedule(ThePlan)
  BY DEF Types, TypeOK
<1>3. ASSUME NEW k \in ThePlan.jobs, status[k] = "running" PROVE FALSE
  <2>1. <<k>> \in Actors /\ pc[<<k>>] = "run"
    BY <1>3 DEF StatusOk, Compiled, Actors
  <2> QED
    BY <1>1, <2>1 DEF ScopeOver
<1> DEFINE S == {m[1] : m \in deferred_systems}
<1>4. /\ S \in SUBSET ThePlan.jobs
      /\ \A j \in S : HasCommands(j) /\ j \notin applied
  BY <1>1 DEF HeldOk, Holds
<1>5. applied' = applied \cup S
  BY DEF ApplyRest
<1> HIDE DEF S
<1> QED
  BY <1>1, <1>2, <1>3, <1>4, <1>5, ApplyPromised

\* exec is called again only when everything has been done.
LEMMA ExecAgainPromised ==
    ASSUME IInv, ExecAgain
    PROVE  Promised
<1>1. /\ UNCHANGED <<plan, kind>> /\ Idle /\ runs > 0
      /\ status' = [j \in ThePlan.jobs |-> "waiting"] /\ applied' = {}
  BY DEF ExecAgain, Idle, case
<1>2. ~delayed /\ plan \in DOMAIN Plans /\ schedule = JobSchedule(ThePlan)
  BY <1>1 DEF IInv, Types, TypeOK, NothingLeft
<1>3. Complete
  BY <1>1, <1>2, InvComplete DEF RunComplete
<1>4. /\ \A j \in ThePlan.jobs : status[j] \in Promise!Resolved
      /\ \A j \in ThePlan.jobs : HasCommands(j) => j \in applied
  BY <1>3 DEF Complete, HasCommands, Promise!Resolved
<1>5. Promise!Rerun
  BY <1>1, <1>2, <1>4, PromiseMeans DEF Promise!Rerun
<1> QED
  BY <1>5 DEF Promised, Promise!RunNext

\* A node that the single-threaded executor visits: what was before it is resolved.
LEMMA TurnOfVisit ==
    ASSUME SingleOk, NEW j \in ThePlan.jobs, <<j>> \in todo,
           \A m \in Jobs : pc[m] = "none", \A m \in todo : <<j>> \notin schedule.outgoing[m]
    PROVE  /\ \A b \in BeforeJob(j) : status[b] \in Promise!Resolved
           /\ strong_incoming[<<j>>] = 0 <=> \A b \in StronglyBeforeJob(j) : status[b] = "ok"
<1> USE SingleTyped
<1>1. <<j>> \in Jobs /\ \A m \in Before(<<j>>) : m \notin todo /\ m \in Jobs
  BY DEF Before
<1>2. ASSUME NEW b \in BeforeJob(j) PROVE status[b] \in Promise!Resolved
  <2>1. b \in ThePlan.jobs /\ <<b>> \notin todo /\ <<b>> \in Jobs
    BY <1>1 DEF BeforeJob
  <2>2. SingleStatusOk(b) /\ pc[<<b>>] = "none" /\ status[b] \in Statuses
    BY <2>1
  <2> QED
    BY <2>1, <2>2 DEF SingleStatusOk, Statuses, Promise!Resolved
<1>3. Owed(<<j>>) = {m \in StronglyBefore(<<j>>) : ~Ok(m)}
  <2>1. \A m \in StronglyBefore(<<j>>) : ~Unvisited(m)
    BY <1>1, StrongJobs DEF Unvisited
  <2> QED
    BY <2>1 DEF Owed
<1>4. strong_incoming[<<j>>] = 0 <=> Owed(<<j>>) = {}
  <2>1. Owed(<<j>>) \in SUBSET Jobs
    BY DEF Owed, StronglyBefore
  <2>2. IsFiniteSet(Owed(<<j>>))
    BY <2>1, FS_Subset DEF Compiled
  <2> QED
    BY <1>1, <2>2, FS_EmptySet DEF SingleCounts
<1>5. ASSUME Owed(<<j>>) = {}, NEW b \in StronglyBeforeJob(j) PROVE status[b] = "ok"
  <2>1. Ok(<<b>>)
    BY <1>3, <1>5 DEF StronglyBeforeJob
  <2>2. <<b>>[1] = b
    OBVIOUS
  <2> QED
    BY <2>1, <2>2 DEF Ok
<1>6. ASSUME \A b \in StronglyBeforeJob(j) : status[b] = "ok" PROVE Owed(<<j>>) = {}
  <2> SUFFICES ASSUME NEW m \in StronglyBefore(<<j>>), ~Ok(m) PROVE FALSE
    BY <1>3
  <2>1. m = <<m[1]>> /\ m[1] \in ThePlan.jobs
    BY <1>1, StrongJobs
  <2>2. m[1] \in StronglyBeforeJob(j)
    BY <2>1 DEF StronglyBeforeJob
  <2> QED
    BY <1>6, <2>2 DEF Ok
<1> QED
  BY <1>2, <1>4, <1>5, <1>6

LEMMA VisitPromised ==
    ASSUME SingleOk, NEW n \in Jobs, Visit(n)
    PROVE  Promised
<1> USE SingleTyped
<1>1. /\ UNCHANGED <<plan, kind, applied>> /\ n \in todo /\ pc[Main] = "visit"
      /\ \A m \in Jobs : pc[m] = "none"
      /\ \A m \in todo : n \notin schedule.outgoing[m]
      /\ \/ strong_incoming[n] # 0 /\ Settle(Completed(n, FALSE, FALSE))
         \/ strong_incoming[n] = 0 /\ NO_OP(ThePlan, n) /\ Settle(Completed(n, FALSE, TRUE))
         \/ /\ strong_incoming[n] = 0 /\ ~NO_OP(ThePlan, n)
            /\ status' = [status EXCEPT ![n[1]] = "running"]
  BY DEF Visit, case
<1>2. /\ Completed(n, FALSE, FALSE).index = n /\ Completed(n, FALSE, FALSE).successed = FALSE
      /\ Completed(n, FALSE, TRUE).index = n /\ Completed(n, FALSE, TRUE).successed = TRUE
  BY DEF Completed
<1>3. CASE IsSync(n)
  <2>1. status' = status
    BY <1>1, <1>2, <1>3 DEF Settle, NO_OP
  <2> QED
    BY <1>1, <2>1 DEF Promised
<1>4. CASE ~IsSync(n)
  <2> DEFINE j == n[1]
  <2>1. n = <<j>> /\ j \in ThePlan.jobs
    BY <1>4 DEF Compiled
  <2>2. status[j] = "waiting"
    BY <1>1, <2>1 DEF SingleStatusOk
  <2>3. plan \in DOMAIN Plans /\ schedule = JobSchedule(ThePlan)
    BY DEF Types, TypeOK
  <2>4. NO_OP(ThePlan, n) <=> j \in ThePlan.noop
    BY <1>4 DEF NO_OP
  <2>5. \/ /\ strong_incoming[n] # 0
           /\ status' = [status EXCEPT ![j] = "blocked"]
        \/ /\ strong_incoming[n] = 0 /\ j \in ThePlan.noop
           /\ status' = [status EXCEPT ![j] = "ok"]
        \/ /\ strong_incoming[n] = 0
           /\ status' = [status EXCEPT ![j] = "running"]
    BY <1>1, <1>2, <1>4, <2>2, <2>4 DEF Settle
  <2> HIDE DEF j
  <2>6. /\ \A b \in Promise!JobsBefore(j) : status[b] \in Promise!Resolved
        /\ strong_incoming[n] = 0 <=> \A b \in Promise!JobsStronglyBefore(j) : status[b] = "ok"
    BY <1>1, <2>1, <2>3, TurnOfVisit, PromiseMeans
  <2>7. CASE strong_incoming[n] # 0
    <3>1. Promise!Block(j)
      BY <1>1, <2>2, <2>5, <2>6, <2>7 DEF Promise!Block
    <3> QED
      BY <2>1, <2>3, <3>1, PromiseMeans DEF Promised, Promise!RunNext
  <2>8. CASE strong_incoming[n] = 0
    <3>1. Promise!MayStart(j)
      BY <2>2, <2>6, <2>8 DEF Promise!MayStart
    <3>2. CASE j \in ThePlan.noop /\ status' = [status EXCEPT ![j] = "ok"]
      <4>1. Promise!Pass(j)
        BY <1>1, <2>3, <3>1, <3>2, PromiseMeans DEF Promise!Pass
      <4> QED
        BY <2>1, <2>3, <4>1, PromiseMeans DEF Promised, Promise!RunNext
    <3>3. CASE status' = [status EXCEPT ![j] = "running"]
      <4>1. Promise!Running = {}
        <5>1. \A k \in ThePlan.jobs : status[k] # "running"
          BY <1>1 DEF SingleStatusOk, Compiled
        <5> QED
          BY <2>3, <5>1, PromiseMeans DEF Promise!Running
      <4>2. Promise!Visible(j)
        <5>1. ASSUME NEW c, HasCommands(c) PROVE c \in applied
          <6>1. c \in ThePlan.jobs /\ <<c>> \in Jobs
            BY <5>1 DEF HasCommands, Compiled
          <6> QED
            BY <1>1, <5>1, <6>1 DEF HasCommands, SingleStatusOk
        <5> QED
          BY <2>3, <5>1, PromiseMeans DEF Promise!Visible
      <4>3. Promise!Start(j)
        BY <1>1, <3>1, <3>3, <4>1, <4>2 DEF Promise!Start
      <4> QED
        BY <2>1, <2>3, <4>3, PromiseMeans DEF Promised, Promise!RunNext
    <3> QED
      BY <2>5, <2>8, <3>2, <3>3
  <2> QED
    BY <2>7, <2>8
<1> QED
  BY <1>3, <1>4

\* The job that is called returns, or unwinds.
LEMMA CallPromised ==
    ASSUME SingleOk, NEW n \in Jobs, Return(n) \/ Unwind(n)
    PROVE  Promised
<1> USE SingleTyped
<1>1. /\ UNCHANGED <<plan, kind, applied>> /\ pc[n] = "call"
      /\ \E r \in {"ok", "error", "skipped"} : status' = [status EXCEPT ![n[1]] = r]
  BY DEF Return, Unwind, case
<1>2. n = <<n[1]>> /\ n[1] \in ThePlan.jobs
  BY <1>1, CalledNode
<1>3. status[n[1]] = "running"
  BY <1>1, <1>2 DEF SingleStatusOk
<1>4. Promise!Finish(n[1])
  BY <1>1, <1>3 DEF Promise!Finish
<1>5. plan \in DOMAIN Plans /\ schedule = JobSchedule(ThePlan)
  BY DEF Types, TypeOK
<1> QED
  BY <1>2, <1>4, <1>5, PromiseMeans DEF Promised, Promise!RunNext

LEMMA ApplyOwnPromised ==
    ASSUME SingleOk, SingleRunOk, NEW n \in Jobs, ApplyOwn(n)
    PROVE  Promised
<1> USE SingleTyped
<1> DEFINE S == {j \in {n[1]} : DEFERRED(ThePlan, n) /\ status[j] # "skipped"}
<1>1. UNCHANGED <<plan, kind, status>> /\ pc[n] = "commands" /\ applied' = applied \cup S
  BY DEF ApplyOwn, case
<1>2. /\ n = <<n[1]>> /\ n[1] \in ThePlan.jobs /\ ~IsSync(n) /\ ~NO_OP(ThePlan, n)
      /\ \A m \in Jobs : pc[m] # "none" => m = n
  BY <1>1, CalledNode
<1>3. ASSUME NEW k \in ThePlan.jobs, status[k] = "running" PROVE FALSE
  <2>1. <<k>> \in Jobs /\ pc[<<k>>] = "call"
    BY <1>3 DEF SingleStatusOk, Compiled
  <2>2. <<k>> = n
    BY <1>2, <2>1
  <2> QED
    BY <1>1, <2>1, <2>2, Zenon
<1>4. n[1] \notin applied
  <2>1. ASSUME n[1] \in applied PROVE pc[<<n[1]>>] = "none"
    BY <2>1 DEF SingleRunOk
  <2> QED
    BY <1>1, <1>2, <2>1
<1>5. S \in SUBSET ThePlan.jobs /\ \A j \in S : HasCommands(j) /\ j \notin applied
  <2>1. status[n[1]] \in {"ok", "error", "skipped"}
    BY <1>1 DEF SingleRunOk
  <2>2. DEFERRED(ThePlan, n) => n[1] \in ThePlan.deferred \ ThePlan.noop
    BY <1>2 DEF DEFERRED, NO_OP
  <2> QED
    BY <1>2, <1>4, <2>1, <2>2 DEF HasCommands
<1>6. plan \in DOMAIN Plans /\ schedule = JobSchedule(ThePlan)
  BY DEF Types, TypeOK
<1> HIDE DEF S
<1> QED
  BY <1>1, <1>3, <1>5, <1>6, ApplyPromised

-----------------------------------------------------------------------------
\* The steps of each executor.
LEMMA MultiRefines ==
    ASSUME MultiOk, MultiRunOk,
           \/ \E t \in Actors : Tick(t)
           \/ \E n \in Jobs : Task(n)
           \/ Flush \/ ApplyRest
    PROVE  MultiRunOk' /\ Promised
<1>a. kind' = kind
  <2>1. Work
    BY DEF Work
  <2>2. [Next]_vars
    BY <2>1 DEF Next
  <2> QED
    BY <2>2, SameCase DEF case
<1>1. ASSUME NEW t \in Actors, Tick(t) PROVE MultiRunOk' /\ Promised
  <2>1. CASE TryLock(t) \/ Postpone(t) \/ Unlock(t) \/ Check(t)
    BY <1>a, <2>1, TickRun DEF Promised
  <2>2. CASE Drain(t)
    BY <1>a, <2>2, DrainRun DEF Promised
  <2>3. CASE HandleRest(t)
    BY <2>3, HandleRestRun, HandleRestPromised
  <2>4. CASE SpawnOne(t)
    BY <1>a, <2>4, SpawnOneRun DEF Promised
  <2> QED
    BY <1>1, <2>1, <2>2, <2>3, <2>4 DEF Tick
<1>2. ASSUME NEW n \in Jobs, Task(n) PROVE MultiRunOk' /\ Promised
  <2>1. CASE ApplyDeferred(n)
    BY <2>1, ApplyDeferredRun, ApplyDeferredPromised
  <2>2. CASE StartJob(n)
    BY <2>2, StartJobRun, StartJobPromised
  <2>3. CASE FinishJob(n)
    BY <2>3, FinishJobRun, FinishJobPromised
  <2> QED
    BY <1>2, <2>1, <2>2, <2>3 DEF Task
<1>3. ASSUME Flush PROVE MultiRunOk' /\ Promised
  <2>1. Main \in Actors
    BY DEF Actors
  <2> QED
    BY <1>a, <1>3, <2>1, TickRun DEF Promised
<1>4. ASSUME ApplyRest PROVE MultiRunOk' /\ Promised
  BY <1>4, ApplyRestRun, ApplyRestPromised
<1> QED
  BY <1>1, <1>2, <1>3, <1>4

LEMMA SingleRefines ==
    ASSUME SingleOk, SingleRunOk, Single
    PROVE  SingleRunOk' /\ Promised
<1>1. SingleRunOk'
  BY SingleRun
<1>2. ASSUME AllVisited PROVE Promised
  BY <1>2 DEF AllVisited, Promised, case, outcome
<1> QED
  BY <1>1, <1>2, VisitPromised, CallPromised, ApplyOwnPromised DEF Single

\* When nothing happens.
LEMMA SameRun ==
    ASSUME IInv, RInv, UNCHANGED vars
    PROVE  RInv'
<1>1. UNCHANGED <<plan, kind, schedule, incoming, strong_incoming, ready_systems, running_jobs,
                  deferred_systems, completed, pending, todo, apply_deferred, status, applied, pc>>
  BY DEF vars, case
<1>2. CASE kind = "multi"
  <2>1. MultiOk /\ MultiRunOk
    BY <1>2 DEF IInv, MultiOk, RInv
  <2>2. /\ \A n \in Jobs : Open(n)' <=> Open(n)
        /\ \A j \in ThePlan.jobs : HasCommands(j) => HasCommands(j)'
        /\ Idle' <=> Idle
    BY <1>1, SamePlan DEF Open, Event, HasCommands, Idle
  <2>3. MultiRunOk'
    BY <1>1, <2>1, <2>2, QuietRun
  <2> QED
    BY <1>1, <1>2, <2>3 DEF RInv
<1>3. CASE kind = "single"
  BY <1>1, <1>3 DEF RInv, SingleRunOk, Jobs
<1> QED
  BY <1>2, <1>3 DEF IInv, Types

\* Every step keeps the invariant, and keeps the promise.
LEMMA RunStep ==
    ASSUME IInv, RInv, [Next]_vars
    PROVE  RInv' /\ Promised
<1>1. CASE ExecAgain
  <2>1. Fresh'
    BY <1>1, ExecAgainStep
  <2>2. Fresh' => RInv'
    BY FreshRun, PTL
  <2> QED
    BY <1>1, <2>1, <2>2, ExecAgainPromised
<1>2. CASE UNCHANGED vars
  BY <1>2, SameRun DEF vars, case, Promised
<1>3. CASE Work
  <2>1. \/ kind = "multi" /\ MultiRunOk' /\ Promised
        \/ kind = "single" /\ SingleRunOk' /\ Promised
    BY <1>3, OwnSteps, MultiRefines, SingleRefines DEF RInv
  <2>2. kind' = kind
    BY SameCase DEF case
  <2> QED
    BY <2>1, <2>2 DEF RInv
<1> QED
  BY <1>1, <1>2, <1>3 DEF Next

\* Both executors keep what ScheduleRun promises to the authors of jobs, for any schedule
\* that Schedule::update accepts: jobs start in order, apart from what they conflict with,
\* and see the deferred commands that their orders promise, of the multi-threaded executor
\* except those of a failed job that a weak order names; commands are applied once, while
\* nothing runs; exec is over only when everything is done.
THEOREM ExecutorRefines == Spec /\ NothingLeft => RunRefines
<1>1. Init /\ NothingLeft => IInv /\ RInv
  BY InitFresh, FreshInv, FreshRun
<1>2. Init /\ NothingLeft => Promise!RunInit
  BY InitFresh DEF Fresh, Promise!RunInit, Promise!ThePlan, ThePlan
<1>3. IInv /\ RInv /\ [Next]_vars => IInv' /\ RInv' /\ [Promise!RunNext]_(Promise!runVars)
  BY InvStep, RunStep DEF Promised, Promise!runVars
<1> QED
  BY <1>1, <1>2, <1>3, PTL DEF Spec, RunRefines, Promise!RunSpec

-----------------------------------------------------------------------------
\* The multi-threaded executor has met a failed job whose commands a weak order promises.
WeakOrderFailed ==
    kind = "multi" /\ \E e \in WeakOrder(ThePlan) : e[1] \in ThePlan.deferred /\ status[e[1]] = "error"

\* Where there is none, what Promise shows is all that the docs promise.
LEMMA PromisedAll ==
    ASSUME plan \in DOMAIN Plans, kind \in {"multi", "single"}, ~WeakOrderFailed,
           NEW a \in ThePlan.jobs, NEW c \in Docs!PromisedTo(a), HasCommands(c)
    PROVE  c \in Promise!PromisedTo(a)
<1>1. /\ Docs!JobsSeen(a) = Promise!JobsSeen(a)
      /\ Docs!JobsWeaklySeen(a) = Promise!JobsWeaklySeen(a)
      /\ \A b : Docs!Ancestry(b) = Promise!Ancestry(b)
  BY DEF Docs!JobsSeen, Promise!JobsSeen, Docs!JobsWeaklySeen, Promise!JobsWeaklySeen,
         Docs!Ancestry, Promise!Ancestry
<1>0. c \in Promise!ThePlan.jobs
  BY DEF Docs!PromisedTo, Docs!ThePlan, Promise!ThePlan
<1>2. CASE \E b \in Docs!JobsSeen(a) : status[b] = "ok" /\ c \in Docs!Ancestry(b)
  BY <1>0, <1>1, <1>2 DEF Promise!PromisedTo
<1>3. CASE c \in Docs!JobsWeaklySeen(a)
  <2>0. c \in ThePlan.jobs
    BY ExecutorAssumption DEF HasCommands, IsPlan, ThePlan
  <2>1. /\ Promise!JobsWeaklySeen(a) = {b \in ThePlan.deferred : <<b, a>> \in WeakOrder(ThePlan)}
        /\ Promise!JobsSeen(a) = {b \in ThePlan.deferred :
                                     <<b, a>> \in StrongOrder(ThePlan) \cup WeakOrder(ThePlan)}
        /\ Promise!Ancestry(c) = {b \in ThePlan.jobs :
                                     \A U \in Upward(ThePlan) : c \in U => b \in U}
    BY <2>0 DEF Promise!JobsWeaklySeen, Promise!JobsSeen, Promise!Ancestry, Orders, JobOrders, ThePlan
  <2>2. c \in Promise!JobsWeaklySeen(a) /\ c \in Promise!JobsSeen(a)
    BY <1>1, <1>3, <2>1
  <2>3. CASE kind = "single"
    BY <1>0, <2>2, <2>3 DEF Promise!PromisedTo
  <2>4. CASE kind = "multi"
    <3>1. status[c] = "ok"
      BY <2>1, <2>2, <2>4 DEF WeakOrderFailed, HasCommands
    <3>2. c \in Promise!Ancestry(c)
      BY <2>0, <2>1
    <3> QED
      BY <1>0, <2>2, <3>1, <3>2 DEF Promise!PromisedTo
  <2> QED
    BY <2>3, <2>4
<1> QED
  BY <1>2, <1>3 DEF Docs!PromisedTo

LEMMA VisibleAll ==
    ASSUME plan \in DOMAIN Plans, kind \in {"multi", "single"}, ~WeakOrderFailed,
           NEW j \in ThePlan.jobs, Promise!Visible(j)
    PROVE  Docs!Visible(j)
<1>1. /\ Docs!Ancestry(j) = Promise!Ancestry(j)
      /\ Promise!Ancestry(j) \subseteq ThePlan.jobs
  BY DEF Docs!Ancestry, Promise!Ancestry, Orders, JobOrders, ThePlan
<1>2. Docs!ThePlan = ThePlan /\ Promise!ThePlan = ThePlan
  BY DEF Docs!ThePlan, Promise!ThePlan, ThePlan
<1> SUFFICES ASSUME NEW a \in Docs!Ancestry(j), NEW c \in Docs!PromisedTo(a),
                    Docs!HasCommands(c)
             PROVE  c \in applied
  BY DEF Docs!Visible
<1>3. HasCommands(c) /\ Promise!HasCommands(c)
  BY <1>2 DEF Docs!HasCommands, Promise!HasCommands, HasCommands
<1>4. c \in Promise!PromisedTo(a)
  BY <1>1, <1>3, PromisedAll
<1> QED
  BY <1>1, <1>3, <1>4 DEF Promise!Visible

\* A step that keeps the promise then keeps what the docs say.
LEMMA DocsStep ==
    ASSUME plan \in DOMAIN Plans, kind \in {"multi", "single"}, ~WeakOrderFailed, Promise!RunNext
    PROVE  Docs!RunNext
<1>1. Docs!ThePlan = ThePlan /\ Promise!ThePlan = ThePlan
  BY DEF Docs!ThePlan, Promise!ThePlan, ThePlan
<1>2. /\ Docs!Resolved = Promise!Resolved /\ Docs!Running = Promise!Running
      /\ \A c : Docs!HasCommands(c) <=> Promise!HasCommands(c)
  BY <1>1 DEF Docs!Resolved, Promise!Resolved, Docs!Running, Promise!Running,
              Docs!HasCommands, Promise!HasCommands
<1>3. \A j : Docs!MayStart(j) <=> Promise!MayStart(j)
  BY <1>2 DEF Docs!MayStart, Promise!MayStart, Docs!JobsBefore, Promise!JobsBefore,
              Docs!JobsStronglyBefore, Promise!JobsStronglyBefore
<1>4. ASSUME NEW j \in ThePlan.jobs, Promise!Start(j) PROVE Docs!Start(j)
  <2>1. j \notin ThePlan.noop => Docs!Visible(j)
    BY <1>1, <1>4, VisibleAll DEF Promise!Start
  <2>2. \A m, n : Docs!IsConflict(ThePlan, m, n) <=> Promise!IsConflict(ThePlan, m, n)
    BY DEF Docs!IsConflict, Docs!EXCLUSIVE, Docs!IsSync,
           Promise!IsConflict, Promise!EXCLUSIVE, Promise!IsSync
  <2> QED
    BY <1>1, <1>2, <1>3, <1>4, <2>1, <2>2 DEF Docs!Start, Promise!Start
<1>5. ASSUME NEW j \in ThePlan.jobs, Promise!Finish(j) PROVE Docs!Finish(j)
  BY <1>5 DEF Docs!Finish, Promise!Finish
<1>6. ASSUME NEW j \in ThePlan.jobs, Promise!Pass(j) PROVE Docs!Pass(j)
  BY <1>1, <1>3, <1>6 DEF Docs!Pass, Promise!Pass
<1>7. ASSUME NEW j \in ThePlan.jobs, Promise!Block(j) PROVE Docs!Block(j)
  BY <1>2, <1>7 DEF Docs!Block, Promise!Block, Docs!JobsBefore, Promise!JobsBefore,
                    Docs!JobsStronglyBefore, Promise!JobsStronglyBefore
<1>8. ASSUME Promise!Apply PROVE Docs!Apply
  <2>1. {j \in Docs!ThePlan.jobs : Docs!HasCommands(j)}
           = {j \in Promise!ThePlan.jobs : Promise!HasCommands(j)}
    BY <1>1, <1>2
  <2> QED
    BY <1>2, <1>8, <2>1 DEF Docs!Apply, Promise!Apply
<1>9. ASSUME Promise!Rerun PROVE Docs!Rerun
  BY <1>1, <1>2, <1>9 DEF Docs!Rerun, Promise!Rerun
<1> QED
  BY <1>1, <1>4, <1>5, <1>6, <1>7, <1>8, <1>9 DEF Docs!RunNext, Promise!RunNext

\* The orders hold as they are documented, of weak orders too, for the single-threaded
\* executor always, and for the multi-threaded one as long as no job fails whose commands
\* a weak order promises: what MultiThreadedExecutor withholds from the docs is that alone.
THEOREM OrdersHoldUnlessWeakFails == Spec /\ NothingLeft /\ []~WeakOrderFailed => OrdersHold
<1>1. Init /\ NothingLeft => IInv /\ RInv
  BY InitFresh, FreshInv, FreshRun
<1>2. Init /\ NothingLeft => Docs!RunInit
  BY InitFresh DEF Fresh, Docs!RunInit, Docs!ThePlan, ThePlan
<1>3. ASSUME IInv, RInv, ~WeakOrderFailed, [Next]_vars
      PROVE  IInv' /\ RInv' /\ [Docs!RunNext]_(Docs!runVars)
  <2>1. plan \in DOMAIN Plans /\ kind \in {"multi", "single"}
    BY <1>3 DEF IInv, Types, TypeOK
  <2>2. IInv' /\ RInv' /\ Promised
    BY <1>3, InvStep, RunStep
  <2>3. CASE Promise!RunNext
    BY <1>3, <2>1, <2>2, <2>3, DocsStep
  <2>4. CASE UNCHANGED <<plan, kind, status, applied>>
    BY <2>2, <2>4 DEF Docs!runVars
  <2> QED
    BY <2>2, <2>3, <2>4 DEF Promised
<1>4. IInv /\ RInv /\ ~WeakOrderFailed /\ [Next]_vars
         => IInv' /\ RInv' /\ [Docs!RunNext]_(Docs!runVars)
  BY <1>3
<1> QED
  BY <1>1, <1>2, <1>4, PTL DEF Spec, OrdersHold, Docs!RunSpec
=============================================================================
