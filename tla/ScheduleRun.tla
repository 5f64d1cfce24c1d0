----------------------------- MODULE ScheduleRun -----------------------------
(***************************************************************************)
(* What running a schedule promises to the authors of jobs, whatever       *)
(* executor runs it: the orders of zlim-core's README and of insert_order, *)
(* insert_weak_order and insert_relaxed_order, exclusive access to what a  *)
(* job declares, and the visibility of deferred commands.  Sync points,    *)
(* queues and threads do not appear.                                       *)
(*                                                                         *)
(* With Excused = {} these are the orders as the docs state them.  The     *)
(* executors in Excused keep all of them but one: the commands of a job    *)
(* that failed need not be visible to what is weakly ordered after it.     *)
(***************************************************************************)
EXTENDS ScheduleGraph

CONSTANTS
    Plans,    \* the schedules considered
    Orders,   \* the orders of each of them as JobOrders sees them
    Excused   \* the kinds of executor whose weak orders may hide what failed

VARIABLES
    plan,     \* the schedule being run, an index of Plans
    kind,     \* the kind of executor that runs it
    status,   \* what has become of every job in this run
    applied   \* jobs whose deferred commands have reached the world

runVars == <<plan, kind, status, applied>>

Resolved == {"ok", "error", "skipped", "blocked"}

ThePlan == Plans[plan]

JobsBefore(a) == Orders[plan][a].before
JobsStronglyBefore(a) == Orders[plan][a].strong
JobsSeen(a) == Orders[plan][a].seen
JobsWeaklySeen(a) == Orders[plan][a].weakly
Ancestry(a) == Orders[plan][a].ancestry

Running == {j \in ThePlan.jobs : status[j] = "running"}

\* A failed job's commands count, a skipped job has none.
HasCommands(c) ==
    c \in ThePlan.deferred \ ThePlan.noop /\ status[c] \in {"ok", "error"}

\* An order with visibility from b to a that b satisfied shows a the commands of b
\* and of all that precedes b; a weak one those of b also when b failed.
PromisedTo(a) ==
    {c \in ThePlan.jobs :
        \/ \E b \in JobsSeen(a) : status[b] = "ok" /\ c \in Ancestry(b)
        \/ c \in JobsWeaklySeen(a) /\ kind \notin Excused}

\* They are visible to a and to what follows a.
Visible(j) ==
    \A a \in Ancestry(j) : \A c \in PromisedTo(a) : HasCommands(c) => c \in applied

RunInit ==
    /\ plan \in DOMAIN Plans
    /\ kind \in {"multi", "single"}
    /\ status = [j \in ThePlan.jobs |-> "waiting"]
    /\ applied = {}

MayStart(j) ==
    /\ status[j] = "waiting"
    /\ \A b \in JobsBefore(j) : status[b] \in Resolved
    /\ \A b \in JobsStronglyBefore(j) : status[b] = "ok"

Start(j) ==
    /\ MayStart(j)
    /\ \A k \in Running : ~IsConflict(ThePlan, <<j>>, <<k>>)
    /\ j \notin ThePlan.noop => Visible(j)
    /\ status' = [status EXCEPT ![j] = "running"]
    /\ UNCHANGED <<plan, kind, applied>>

Finish(j) ==
    /\ status[j] = "running"
    /\ \E r \in {"ok", "error", "skipped"} :
          status' = [status EXCEPT ![j] = r]
    /\ UNCHANGED <<plan, kind, applied>>

\* A placeholder runs no code and needs no access to the world.
Pass(j) ==
    /\ j \in ThePlan.noop
    /\ MayStart(j)
    /\ status' = [status EXCEPT ![j] = "ok"]
    /\ UNCHANGED <<plan, kind, applied>>

\* A job whose strong order is broken does not run.
Block(j) ==
    /\ status[j] = "waiting"
    /\ \A b \in JobsBefore(j) : status[b] \in Resolved
    /\ \E b \in JobsStronglyBefore(j) : status[b] # "ok"
    /\ status' = [status EXCEPT ![j] = "blocked"]
    /\ UNCHANGED <<plan, kind, applied>>

\* Deferred commands are applied while no job uses the world, and only once.
Apply ==
    /\ Running = {}
    /\ \E S \in SUBSET {j \in ThePlan.jobs : HasCommands(j)} :
          /\ S \cap applied = {}
          /\ applied' = applied \cup S
    /\ UNCHANGED <<plan, kind, status>>

\* The schedule is run again, only when it has been run to the end.
Rerun ==
    /\ \A j \in ThePlan.jobs : status[j] \in Resolved
    /\ \A j \in ThePlan.jobs : HasCommands(j) => j \in applied
    /\ status' = [j \in ThePlan.jobs |-> "waiting"]
    /\ applied' = {}
    /\ UNCHANGED <<plan, kind>>

RunNext ==
    \/ \E j \in ThePlan.jobs : Start(j) \/ Finish(j) \/ Pass(j) \/ Block(j)
    \/ Apply
    \/ Rerun

RunSpec == RunInit /\ [][RunNext]_runVars
=============================================================================
