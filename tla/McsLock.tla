------------------------------- MODULE McsLock -------------------------------
(***************************************************************************)
(* The MCS list lock of tpds/mcs_locks.c.  The lock word m points to the   *)
(* last node of a list of requests; each thread owns one node, reused for  *)
(* all its requests, and spins on the flag of its own node.                *)
(*                                                                         *)
(* A node is named by the thread that owns it.  Each access to the lock    *)
(* word or to a node that another thread can reach is a step of its own.   *)
(***************************************************************************)
EXTENDS Integers, FiniteSets

CONSTANTS Procs,        \* the threads that use the lock
          NULL

ASSUME NullIsNoNode == NULL \notin Procs

VARIABLES m,            \* the lock word: last node of the list, or NULL
          next,         \* [Procs -> Procs \cup {NULL}], me->next
          spin,         \* [Procs -> BOOLEAN], me->spin
          tail,         \* [Procs -> Procs \cup {NULL}], local of lock_mcs
          pc,           \* what each thread does next
          ahead         \* history: the requests outstanding when p joined

lockVars == <<m, next, spin>>
vars == <<m, next, spin, tail, pc, ahead>>

Node == Procs \cup {NULL}

Init ==
  /\ m = NULL
  /\ next = [p \in Procs |-> NULL]
  /\ spin = [p \in Procs |-> FALSE]
  /\ tail = [p \in Procs |-> NULL]
  /\ pc = [p \in Procs |-> "idle"]
  /\ ahead = [p \in Procs |-> {}]

Goto(p, from, to) ==
  /\ pc[p] = from
  /\ pc' = [pc EXCEPT ![p] = to]

(***************************************************************************)
(* The threads in the list, and those that may use what it protects.       *)
(***************************************************************************)
Requests == {p \in Procs : pc[p] \notin {"idle", "swap"}}
Holders == {p \in Procs : pc[p] \in {"held", "cas", "await", "pass"}}

(***************************************************************************)
(* p's release takes effect: it is no longer ahead of anybody.             *)
(***************************************************************************)
Left(p) == ahead' = [q \in Procs |-> ahead[q] \ {p}]

(***************************************************************************)
(* lock_mcs: reset the own node, swap it in as the last one, and either    *)
(* own the lock at once or link the node behind its predecessor and spin.  *)
(***************************************************************************)
Reset(p) ==
  /\ Goto(p, "idle", "swap")
  /\ next' = [next EXCEPT ![p] = NULL]
  /\ spin' = [spin EXCEPT ![p] = FALSE]
  /\ UNCHANGED <<m, tail, ahead>>

\* Mutant: the node is not stored when there is a predecessor.
SwapLost(p) ==
  /\ Goto(p, "swap", IF m = NULL THEN "held" ELSE "link")
  /\ tail' = [tail EXCEPT ![p] = m]
  /\ m' = IF m = NULL THEN p ELSE m
  /\ ahead' = [ahead EXCEPT ![p] = Requests]
  /\ UNCHANGED <<next, spin>>

Swap(p) ==
  /\ Goto(p, "swap", IF m = NULL THEN "held" ELSE "link")
  /\ tail' = [tail EXCEPT ![p] = m]
  /\ m' = p
  /\ ahead' = [ahead EXCEPT ![p] = Requests]
  /\ UNCHANGED <<next, spin>>

Link(p) ==
  /\ Goto(p, "link", "spin")
  /\ next' = [next EXCEPT ![tail[p]] = p]
  /\ UNCHANGED <<m, spin, tail, ahead>>

SpinEnds(p) ==
  /\ spin[p]
  /\ Goto(p, "spin", "held")
  /\ UNCHANGED <<lockVars, tail, ahead>>

(***************************************************************************)
(* unlock_mcs: hand the lock to the successor; without one, empty the list *)
(* unless a successor is about to link itself in, which is then awaited.   *)
(***************************************************************************)
UnlockLook(p) ==
  /\ Goto(p, "held", IF next[p] = NULL THEN "cas" ELSE "pass")
  /\ UNCHANGED <<lockVars, tail, ahead>>

\* Mutants: a store in place of the compare-and-swap, and a failed
\* compare-and-swap after which no successor is awaited.
UnlockCasStore(p) ==
  /\ Goto(p, "cas", "idle")
  /\ m' = NULL
  /\ Left(p)
  /\ UNCHANGED <<next, spin, tail>>

UnlockCasGivesUp(p) ==
  /\ Goto(p, "cas", "idle")
  /\ m' = IF m = p THEN NULL ELSE m
  /\ Left(p)
  /\ UNCHANGED <<next, spin, tail>>

UnlockCas(p) ==
  \/ /\ m = p
     /\ Goto(p, "cas", "idle")
     /\ m' = NULL
     /\ Left(p)
     /\ UNCHANGED <<next, spin, tail>>
  \/ /\ m # p
     /\ Goto(p, "cas", "await")
     /\ UNCHANGED <<lockVars, tail, ahead>>

AwaitSuccessor(p) ==
  /\ next[p] # NULL
  /\ Goto(p, "await", "pass")
  /\ UNCHANGED <<lockVars, tail, ahead>>

\* Mutant: the holder sets its own flag.
PassOwn(p) ==
  /\ Goto(p, "pass", "idle")
  /\ spin' = [spin EXCEPT ![p] = TRUE]
  /\ Left(p)
  /\ UNCHANGED <<m, next, tail>>

Pass(p) ==
  /\ Goto(p, "pass", "idle")
  /\ spin' = [spin EXCEPT ![next[p]] = TRUE]
  /\ Left(p)
  /\ UNCHANGED <<m, next, tail>>

Lock(p) == Reset(p) \/ Swap(p) \/ Link(p) \/ SpinEnds(p)
Unlock(p) == UnlockLook(p) \/ UnlockCas(p) \/ AwaitSuccessor(p) \/ Pass(p)

Next == \E p \in Procs : Lock(p) \/ Unlock(p)

Spec == Init /\ [][Next]_vars

(***************************************************************************)
(* A thread that has joined the list keeps running, and critical sections  *)
(* end.  Nothing forces a thread to call the lock.                         *)
(***************************************************************************)
Fairness ==
  \A p \in Procs : /\ WF_vars(Link(p) \/ SpinEnds(p))
                   /\ WF_vars(Unlock(p))

FairSpec == Spec /\ Fairness

-------------------------------------------------------------------------------
(***************************************************************************)
(* Pointers name nodes or are NULL.                                        *)
(***************************************************************************)
TypeOK ==
  /\ m \in Node
  /\ next \in [Procs -> Node]
  /\ spin \in [Procs -> BOOLEAN]
  /\ tail \in [Procs -> Node]
  /\ pc \in [Procs -> {"idle", "swap", "link", "spin",
                       "held", "cas", "await", "pass"}]
  /\ ahead \in [Procs -> SUBSET Procs]

Waiting == {p \in Procs : pc[p] \in {"link", "spin"} /\ ~ spin[p]}

(***************************************************************************)
(* The list is one queue: m is its last node, every two nodes are ordered, *)
(* and the threads with nobody ahead of them are those that hold the lock  *)
(* or have their flag set; every other node came right behind its own      *)
(* predecessor, which is still in the list.                                *)
(***************************************************************************)
ListInv ==
  /\ m = NULL <=> Requests = {}
  /\ m # NULL => m \in Requests /\ Requests = ahead[m] \cup {m}
  /\ \A p \in Requests : ahead[p] \subseteq Requests \ {p}
  /\ \A p, q \in Requests : p = q \/ p \in ahead[q] \/ q \in ahead[p]
  /\ \A p \in Procs : ahead[p] = {} <=> p \notin Waiting
  /\ \A p \in Waiting : /\ tail[p] \in Requests
                        /\ ahead[p] = ahead[tail[p]] \cup {tail[p]}
  /\ \A p, q \in Waiting : tail[p] = tail[q] => p = q

(***************************************************************************)
(* The links are those of the queue: next of a node in the list is the     *)
(* successor that has linked itself in, a node that has not been swapped   *)
(* in is clean, and unlock_mcs never follows a NULL link.                  *)
(***************************************************************************)
LinkInv ==
  /\ \A p \in Requests :
       next[p] # NULL => /\ next[p] \in Waiting /\ pc[next[p]] = "spin"
                         /\ tail[next[p]] = p
  /\ \A p \in Waiting : pc[p] = "spin" => next[tail[p]] = p
  /\ \A p \in Procs : pc[p] = "swap" => next[p] = NULL /\ ~ spin[p]
  /\ \A p \in Procs : pc[p] = "pass" => next[p] # NULL
  /\ \A p \in Procs : pc[p] = "link" => ~ spin[p]

(***************************************************************************)
(* Two threads are never past lock_mcs, and not yet done with unlock_mcs,  *)
(* at the same time.                                                       *)
(***************************************************************************)
MutualExclusion == \A p, q \in Holders : p = q

(***************************************************************************)
(* A node is reused for the next request as soon as unlock_mcs returns:    *)
(* no other thread writes to a node whose owner is not in the list.        *)
(***************************************************************************)
IdleNodeUntouched ==
  [][\A p \in Procs :
       pc[p] \in {"idle", "swap"} /\ pc'[p] = pc[p]
         => next'[p] = next[p] /\ spin'[p] = spin[p]]_vars

(***************************************************************************)
(* The list lock implements the abstract FIFO lock: the lock is granted in *)
(* the order of the swaps, although the links are set later and in any     *)
(* order.                                                                  *)
(***************************************************************************)
Fifo == INSTANCE FifoLock WITH requests <- Requests, holders <- Holders

ImplementsFifo == Fifo!Spec

(***************************************************************************)
(* Every thread that swapped its node in gets the lock, also when its      *)
(* predecessor has to wait for the link.                                   *)
(***************************************************************************)
StarvationFree == \A p \in Procs : pc[p] \in {"link", "spin"} ~> pc[p] = "held"
===============================================================================
