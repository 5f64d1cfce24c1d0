--------------------------- MODULE MCPoolExecutor ---------------------------
(***************************************************************************)
(* PoolExecutor for TLC.  The bounds are not spent all at once: a behaviour *)
(* has Budget tasks, scopes, unparks, local tasks and drops together, in   *)
(* any mixture, and a scope leaves room for fewer tasks.                   *)
(***************************************************************************)
EXTENDS PoolExecutor

CONSTANTS s1, Budget

Affordable ==
    /\ scheduled + 2 * scopes <= MaxTasks
    /\ scheduled + scopes + pokes + ticks + (IF stop THEN 1 ELSE 0) <= Budget

\* Only what comes from outside the threads costs anything, so the steps that
\* Fairness is about are always possible.
MCSpec == Init /\ [][Next /\ Affordable']_vars /\ Fairness
=============================================================================
