------------------------------- MODULE FifoLock -------------------------------
(***************************************************************************)
(* What the FIFO spin locks of the project promise to their callers: a     *)
(* lock is held by one thread at a time and is granted in the order in     *)
(* which the requests were issued.  ticket_locks.c and tpds/mcs_locks.c    *)
(* are shown to implement this module.                                     *)
(*                                                                         *)
(* The order of the requests is kept as a relation: ahead[p] is the set of *)
(* threads that had already issued their request, and not yet released the *)
(* lock, when p issued its own.                                            *)
(***************************************************************************)
CONSTANT Procs          \* the threads that use the lock

VARIABLES requests,     \* threads that wait for the lock or hold it
          holders,      \* threads that hold the lock
          ahead         \* [Procs -> SUBSET Procs], the requests ahead of p

vars == <<requests, holders, ahead>>

Init ==
  /\ requests = {}
  /\ holders = {}
  /\ ahead = [p \in Procs |-> {}]

(***************************************************************************)
(* p issues its request: it queues up behind every outstanding request.    *)
(***************************************************************************)
Request(p) ==
  /\ p \notin requests
  /\ requests' = requests \cup {p}
  /\ ahead' = [ahead EXCEPT ![p] = requests]
  /\ UNCHANGED holders

(***************************************************************************)
(* The lock is free and no request is ahead of p: p gets the lock.         *)
(***************************************************************************)
Grant(p) ==
  /\ p \in requests
  /\ holders = {}
  /\ ahead[p] = {}
  /\ holders' = {p}
  /\ UNCHANGED <<requests, ahead>>

(***************************************************************************)
(* Nobody waits for the lock or holds it: p may take it in one step.       *)
(***************************************************************************)
GrantFree(p) ==
  /\ requests = {}
  /\ requests' = {p}
  /\ holders' = {p}
  /\ UNCHANGED ahead

Release(p) ==
  /\ p \in holders
  /\ requests' = requests \ {p}
  /\ holders' = holders \ {p}
  /\ ahead' = [q \in Procs |-> ahead[q] \ {p}]

Next ==
  \E p \in Procs : Request(p) \/ Grant(p) \/ GrantFree(p) \/ Release(p)

Spec == Init /\ [][Next]_vars
===============================================================================
