---------------------------- MODULE MCScheduler ----------------------------
(* Instances of Scheduler for TLC. *)
EXTENDS Scheduler, TLC

CONSTANTS a, b, c, h1, h2

\* a and b share a host.
SharedHost == [s \in Stream |-> IF s = c THEN h2 ELSE h1]
Intervals == [s \in Stream |-> IF s = a THEN 3 ELSE 4]
\* One lateness is below the interval, the other is cut to half of it.
Latenesses == [s \in Stream |-> IF s = a THEN 2 ELSE 5]
=============================================================================
