------------------------------ MODULE MCPrioLock ------------------------------
(***************************************************************************)
(* Three tasks, the highest with two threads: two lower tasks that may     *)
(* overtake an announced request, and two threads that share a bit.        *)
(***************************************************************************)
EXTENDS PrioLock

CONSTANTS h1, h2, l1, l2

MCProcs == {h1, h2, l1, l2}
MCPrios == 0 .. 2
MCPrio == [p \in MCProcs |-> CASE p \in {h1, h2} -> 0
                               [] p = l1 -> 1
                               [] p = l2 -> 2]
===============================================================================
