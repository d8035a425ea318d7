---------------------------- MODULE MCPrioQueueLock ----------------------------
(***************************************************************************)
(* Three tasks.  The middle one has two threads, so that a list has both a *)
(* head that overtakes and a next head that must not.                      *)
(***************************************************************************)
EXTENDS PrioQueueLock

CONSTANTS h1, m1, m2, l1

MCProcs == {h1, m1, m2, l1}
MCPrios == 0 .. 2
MCPrio == [p \in MCProcs |-> CASE p = h1 -> 0
                               [] p \in {m1, m2} -> 1
                               [] p = l1 -> 2]
===============================================================================
