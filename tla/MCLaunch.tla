------------------------------- MODULE MCLaunch -------------------------------
(***************************************************************************)
(* Three tasks of two jobs, the second of which may be late, and a launch  *)
(* after one that has left its objects behind.                             *)
(***************************************************************************)
EXTENDS Launch

CONSTANTS t1, t2, t3

MCTasks == {t1, t2, t3}
MCPair == {t1, t2}
===============================================================================
