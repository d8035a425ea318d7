------------------------------- MODULE MCBarrier -------------------------------
(***************************************************************************)
(* Three tasks and three launches: a launch after one that was killed with *)
(* any number of tasks at the barrier, and one after that.                 *)
(***************************************************************************)
EXTENDS Barrier

CONSTANTS t1, t2, t3

MCTasks == {t1, t2, t3}
===============================================================================
