---------------------------- MODULE MCWorkqueue ----------------------------
(* Instances of Workqueue for TLC: three works, of which one is also        *)
(* cancelled, and the tasks and the interrupt handler that call.            *)
EXTENDS Workqueue

CONSTANTS w1, w2, w3, t1, t2

OneWork == {w1}
ThreeWorks == {w1, w2, w3}
OneTask == {t1}
TaskAndIrq == {t1, Irq}
TwoTasks == {t1, t2}
Nobody == {}
=============================================================================
