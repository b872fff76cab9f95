---------------------------- MODULE MCTaskPool ----------------------------
(* TaskPool on small sets of threads and tasks. *)
EXTENDS TaskPool

CONSTANTS w1, w2, t1, t2, t3

PoolWorkers == {w1, w2}
ThreeTasks == {t1, t2, t3}
===========================================================================
