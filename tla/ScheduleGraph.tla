---------------------------- MODULE ScheduleGraph ----------------------------
(***************************************************************************)
(* What Schedule (zlim-core, schedule/schedule.rs) compiles for its        *)
(* multi-threaded executor: the ordering graph with its sync points, and   *)
(* the conflict table.                                                     *)
(*                                                                         *)
(* A plan p is what the user inserted: p.jobs; the flags p.deferred,       *)
(* p.exclusive and p.noop (stage and group markers) as sets of jobs;       *)
(* p.conflict, the pairs whose access tables are not parallelizable;       *)
(* p.order, p.weak and p.relaxed, the pairs <<before, after>> of the three *)
(* kinds of order; p.run_if, the pairs <<condition, job>>; p.stages, the   *)
(* stages and groups, each with its marker jobs begin and end, of which    *)
(* end is DEFERRED, and its jobs.  A node of the compiled graph is <<j>>   *)
(* for a job j, <<b, a>> for the sync point between b and a.  The whole    *)
(* plan is inserted before the first update: an order inserted between     *)
(* compiled jobs gets no sync point.                                       *)
(***************************************************************************)
EXTENDS Naturals, Sequences, Graphs

\* Flags, orders, conditions and stages are of jobs that are inserted.
IsPlan(p) ==
    /\ IsFiniteSet(p.jobs)
    /\ p.deferred \cup p.exclusive \cup p.noop \subseteq p.jobs
    /\ p.order \cup p.weak \cup p.relaxed \cup p.run_if \subseteq p.jobs \X p.jobs
    /\ \A s \in p.stages : {s.begin, s.end} \cup s.jobs \subseteq p.jobs

\* insert_edge repeats an edge on the run-if conditions of its target.
OnConditions(p, R) ==
    R \cup {e \in p.jobs \X p.jobs :
               \E a \in p.jobs : <<e[1], a>> \in R /\ <<e[2], a>> \in p.run_if}

\* What a stage is put between: strong orders from its begin, weak ones to its
\* end, which have no sync points.
StageBegins(p) == UNION {{s.begin} \X (s.jobs \cup {s.end}) : s \in p.stages}
StageEnds(p) == UNION {s.jobs \X {s.end} : s \in p.stages}

\* The orders as insert_order, insert_weak_order, insert_relaxed_order and the
\* run-if part of insert_db leave them.
StrongOrder(p) == OnConditions(p, p.order \cup StageBegins(p)) \cup p.run_if
WeakOrder(p) == OnConditions(p, p.weak)
RelaxedOrder(p) == OnConditions(p, p.relaxed)
AnyOrder(p) ==
    StrongOrder(p) \cup WeakOrder(p) \cup RelaxedOrder(p) \cup StageEnds(p)

\* Mutant of SyncPoints: none for weak orders.
SyncPointsOfStrongOrder(p) == {e \in StrongOrder(p) : e[1] \in p.deferred}

\* insert_sync_point: between a DEFERRED job and the target of an order that
\* promises visibility, and the conditions of that target.
SyncPoints(p) == {e \in StrongOrder(p) \cup WeakOrder(p) : e[1] \in p.deferred}

Nodes(p) == {<<j>> : j \in p.jobs} \cup SyncPoints(p)

\* The strong edges of a sync point and its weak edge.
IntoSync(p) == {<< <<s[1]>>, s >> : s \in SyncPoints(p)}
OutOfSync(p) == {<< s, <<s[2]>> >> : s \in SyncPoints(p)}

Edges(R) == {<< <<e[1]>>, <<e[2]>> >> : e \in R}

\* build_schedule: the strong order, and the merge of all orders.
StrongGraph(p) ==
    [node |-> Nodes(p), edge |-> Edges(StrongOrder(p)) \cup IntoSync(p)]
Dag(p) ==
    [node |-> Nodes(p),
     edge |-> Edges(AnyOrder(p)) \cup IntoSync(p) \cup OutOfSync(p)]

\* SystemFlags of a node; a SyncPoint is NO_OP | EXCLUSIVE.
IsSync(n) == Len(n) = 2
NO_OP(p, n) == IsSync(n) \/ n[1] \in p.noop
EXCLUSIVE(p, n) == IsSync(n) \/ n[1] \in p.exclusive
DEFERRED(p, n) == ~IsSync(n) /\ n[1] \in p.deferred

\* ConflictTable, filled by init_systems and build_schedule.
IsConflict(p, m, n) ==
    \/ EXCLUSIVE(p, m)
    \/ EXCLUSIVE(p, n)
    \/ {m[1], n[1]} \in p.conflict

\* build_schedule: the JobSchedule the executor works from.
JobSchedule(p) ==
    LET dag == Dag(p)
        strong == StrongGraph(p)
    IN  [nodes |-> Nodes(p),
         incoming |-> [n \in Nodes(p) |-> InDegree(dag, n)],
         outgoing |-> [n \in Nodes(p) |-> Successors(dag, n)],
         strong_incoming |-> [n \in Nodes(p) |-> InDegree(strong, n)],
         strong_outgoing |-> [n \in Nodes(p) |-> Successors(strong, n)],
         conflict |-> {e \in Nodes(p) \X Nodes(p) : IsConflict(p, e[1], e[2])}]

\* The sets of jobs that hold with a job every job ordered before it.
Upward(p) == {S \in SUBSET p.jobs : \A e \in AnyOrder(p) : e[2] \in S => e[1] \in S}

\* The orders as seen from each job: the jobs before it, those strongly before
\* it, those whose commands it is promised to see, those of them that a weak order
\* names, and the job itself with all that precedes it.
JobOrders(p) ==
    [a \in p.jobs |->
        [before |-> {b \in p.jobs : <<b, a>> \in AnyOrder(p)},
         strong |-> {b \in p.jobs : <<b, a>> \in StrongOrder(p)},
         seen |-> {b \in p.deferred : <<b, a>> \in StrongOrder(p) \cup WeakOrder(p)},
         weakly |-> {b \in p.deferred : <<b, a>> \in WeakOrder(p)},
         ancestry |-> {b \in p.jobs : \A S \in Upward(p) : a \in S => b \in S}]]
=============================================================================
