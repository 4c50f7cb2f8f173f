------------------------------ MODULE MCSched ------------------------------
(* A small instance of Sched: two spawned tasks and idle, a slice of two    *)
(* ticks and a tick counter that wraps at four.                             *)
EXTENDS Sched

CONSTANTS t1, t2

MCTasks == {t1, t2}
=============================================================================
