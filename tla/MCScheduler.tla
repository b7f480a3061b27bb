----------------------------- MODULE MCScheduler -----------------------------
(* Two processes, two workflows and a clock of a few ticks.                *)
EXTENDS Scheduler

CONSTANTS p1, p2, w1, w2, api

Processes == {p1, p2}

\* Every time unit, and every second one.
Crons == {{1, 2, 3, 4}, {2, 4}}

\* One of the processes is ahead of the other and of the API.
MCSkews == {[x \in {p1, p2, api} |-> IF x = p2 THEN 1 ELSE 0]}
=============================================================================
