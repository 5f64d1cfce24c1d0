----------------------------- MODULE MCSchedule -----------------------------
(***************************************************************************)
(* ScheduleExecutor for TLC.                                               *)
(***************************************************************************)
EXTENDS ScheduleExecutor

\* S if bit k of i is set.
If(i, k, S) == IF (i \div 2^k) % 2 = 1 THEN S ELSE {}

\* Jobs 1 and 2 conflict and come before 3, 2 weakly, 1 strongly or in relaxed
\* order; 1 has deferred commands, 2 may have some; 2 and 3 may be exclusive.
MCPlans ==
    [i \in 0 .. 15 |->
        [jobs |-> 1 .. 3, deferred |-> {1} \cup If(i, 0, {2}),
         exclusive |-> If(i, 1, {3}) \cup If(i, 2, {2}),
         noop |-> {}, conflict |-> {{1, 2}},
         order |-> If(i, 3, {<<1, 3>>}), weak |-> {<<2, 3>>},
         relaxed |-> {<<1, 3>>} \ If(i, 3, {<<1, 3>>}), run_if |-> {},
         stages |-> {}]]

\* A stage of begin marker 1, job 2 and end marker 3; job 4 comes after the stage
\* or is a run-if condition of 2.
StagePlans ==
    [i \in 0 .. 1 |->
        [jobs |-> 1 .. 4, deferred |-> {2, 3}, exclusive |-> {},
         noop |-> {1, 3}, conflict |-> {},
         order |-> {<<3, 4>>} \ If(i, 0, {<<3, 4>>}), weak |-> {}, relaxed |-> {},
         run_if |-> If(i, 0, {<<4, 2>>}),
         stages |-> {[begin |-> 1, end |-> 3, jobs |-> {2}]}]]

\* Two jobs, in order, in conflict, or neither.
PairPlans ==
    [i \in 0 .. 3 |->
        [jobs |-> 1 .. 2, deferred |-> {1}, exclusive |-> {}, noop |-> {},
         conflict |-> If(i, 0, {{1, 2}}), order |-> If(i, 1, {<<1, 2>>}),
         weak |-> {}, relaxed |-> {}, run_if |-> {}, stages |-> {}]]

\* Job 1 with commands before job 2, weakly, beside job 3.
ChainPlan ==
    [jobs |-> 1 .. 3, deferred |-> {1}, exclusive |-> {}, noop |-> {},
     conflict |-> {}, order |-> {}, weak |-> {<<1, 2>>}, relaxed |-> {},
     run_if |-> {}, stages |-> {}]

AllPlans ==
    [i \in 0 .. 22 |-> IF i < 16 THEN MCPlans[i] ELSE IF i < 18 THEN StagePlans[i - 16]
                      ELSE IF i < 22 THEN PairPlans[i - 18] ELSE ChainPlan]
Small == 18 .. 22

Case(S, k, d, n) ==
    {[plan |-> i, kind |-> k, delayed |-> d, runs |-> n] : i \in S}

\* What either executor runs once or twice, and what is small enough with a
\* delayed release.
MCCases ==
    Case({0, 3, 4, 8, 9, 14, 16, 17}, "multi", FALSE, 1)
        \cup Case({18, 21}, "multi", FALSE, 2) \cup Case(Small, "multi", TRUE, 1)
        \cup Case(0 .. 17, "single", FALSE, 2)

LostCases == Case({22}, "multi", TRUE, 1)
WeakCases == Case({22}, "multi", FALSE, 1)
=============================================================================
