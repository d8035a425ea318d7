----------------------------- MODULE PrioQueueLock -----------------------------
(***************************************************************************)
(* The array-based priority spin lock of tpds/priority_queue_locks.c: one  *)
(* MCS list of requests per task, and an owner word.  The head of a list   *)
(* scans the slots of the higher tasks, one load each, and when it saw     *)
(* them all empty tries to take owner with a compare-and-swap.             *)
(*                                                                         *)
(* Each list is the FifoLock that McsLock implements.  Its slot is NULL    *)
(* exactly when the list has no requests (McsLock's ListInv).              *)
(***************************************************************************)
EXTENDS Integers, FiniteSets

CONSTANTS Procs,        \* the threads that use the lock
          Prios,        \* the slots in use: 0 .. n - 1, 0 is the highest
          Prio,         \* [Procs -> Prios], task_prio of each thread's task
          NULL

ASSUME PrioTyping ==
  /\ \E n \in 1 .. 64 : Prios = 0 .. n - 1
  /\ Prio \in [Procs -> Prios]
  /\ NULL \notin Procs

VARIABLES owner,        \* lock->owner: the node of the holder, or NULL
          ahead,        \* the lists: who is ahead of p in its own list
          slot,         \* [Procs -> Nat], the i of the scan in lock_prio
          pc,           \* what each thread does next
          passed        \* history: acquisitions of lower tasks since the
                        \* slot of a task was empty

vars == <<owner, ahead, slot, pc, passed>>

Requests(t) == {p \in Procs : Prio[p] = t /\ pc[p] \notin {"idle", "free"}}
Empty(t) == Requests(t) = {}

Init ==
  /\ owner = NULL
  /\ ahead = [p \in Procs |-> {}]
  /\ slot = [p \in Procs |-> 0]
  /\ pc = [p \in Procs |-> "idle"]
  /\ passed = [t \in Prios |-> [u \in Prios |-> 0]]

Goto(p, from, to) ==
  /\ pc[p] = from
  /\ pc' = [pc EXCEPT ![p] = to]

\* Mutant: a request is put in front of its list.
JoinFirst(p) ==
  /\ Goto(p, "idle", "list")
  /\ ahead' = [ahead EXCEPT ![p] = {}]
  /\ UNCHANGED <<owner, slot, passed>>

(***************************************************************************)
(* lock_mcs(&lock->priority[task_prio], me)                                *)
(***************************************************************************)
Join(p) ==
  /\ Goto(p, "idle", "list")
  /\ ahead' = [ahead EXCEPT ![p] = Requests(Prio[p])]
  /\ passed' = IF Empty(Prio[p])
                 THEN [passed EXCEPT ![Prio[p]] = [u \in Prios |-> 0]]
                 ELSE passed
  /\ UNCHANGED <<owner, slot>>

StartScan(p) == slot' = [slot EXCEPT ![p] = 0]

\* Mutant: the head goes on with the scan of its last request.
BecomeHeadResumes(p) ==
  /\ ahead[p] = {}
  /\ Goto(p, "list", "scan")
  /\ UNCHANGED <<owner, ahead, slot, passed>>

BecomeHead(p) ==
  /\ ahead[p] = {}
  /\ Goto(p, "list", "scan")
  /\ StartScan(p)
  /\ UNCHANGED <<owner, ahead, passed>>

(***************************************************************************)
(* One iteration of the for loop over the higher slots; the scan starts    *)
(* over when it finds a request.                                           *)
(***************************************************************************)
ScanSlot(p) ==
  /\ pc[p] = "scan"
  /\ slot[p] < Prio[p]
  /\ slot' = [slot EXCEPT ![p] = IF Empty(slot[p]) THEN @ + 1 ELSE 0]
  /\ UNCHANGED <<owner, ahead, pc, passed>>

(***************************************************************************)
(* The compare-and-swap of owner after a scan that found nothing.  The     *)
(* history counts, up to 2, how often each lower task gets the lock while  *)
(* a slot is not empty.                                                    *)
(***************************************************************************)
Attempt(p) == pc[p] = "scan" /\ slot[p] = Prio[p]

\* Mutant: owner is stored without being compared.
StoreOwner(p) ==
  /\ Attempt(p)
  /\ Goto(p, "scan", "held")
  /\ owner' = p
  /\ UNCHANGED <<ahead, slot, passed>>

TakeOwner(p) ==
  /\ Attempt(p)
  /\ owner = NULL
  /\ Goto(p, "scan", "held")
  /\ owner' = p
  /\ passed' = [t \in Prios |->
       IF t < Prio[p] /\ ~ Empty(t) /\ passed[t][Prio[p]] < 2
         THEN [passed[t] EXCEPT ![Prio[p]] = @ + 1]
         ELSE passed[t]]
  /\ UNCHANGED <<ahead, slot>>

Retry(p) ==
  /\ Attempt(p)
  /\ owner # NULL
  /\ StartScan(p)
  /\ UNCHANGED <<owner, ahead, pc, passed>>

(***************************************************************************)
(* unlock_prio: unlock_mcs of the own list, then lock->owner = 0.          *)
(***************************************************************************)
LeaveList(p) ==
  /\ Goto(p, "held", "free")
  /\ ahead' = [q \in Procs |-> ahead[q] \ {p}]
  /\ UNCHANGED <<owner, slot, passed>>

\* Mutant: unlock_prio only leaves the list.
FreeOwnerForgets(p) ==
  /\ Goto(p, "free", "idle")
  /\ UNCHANGED <<owner, ahead, slot, passed>>

FreeOwner(p) ==
  /\ Goto(p, "free", "idle")
  /\ owner' = NULL
  /\ UNCHANGED <<ahead, slot, passed>>

Lock(p) == BecomeHead(p) \/ ScanSlot(p) \/ TakeOwner(p) \/ Retry(p)
Unlock(p) == LeaveList(p) \/ FreeOwner(p)

Next == \E p \in Procs : Join(p) \/ Lock(p) \/ Unlock(p)

Spec == Init /\ [][Next]_vars

(***************************************************************************)
(* A thread inside lock_prio keeps running, and critical sections end.     *)
(***************************************************************************)
Fairness == \A p \in Procs : WF_vars(Lock(p)) /\ WF_vars(Unlock(p))

FairSpec == Spec /\ Fairness

-------------------------------------------------------------------------------
(***************************************************************************)
(* The scan of a thread never leaves the slots above its own.              *)
(***************************************************************************)
TypeOK ==
  /\ owner \in Procs \cup {NULL}
  /\ ahead \in [Procs -> SUBSET Procs]
  /\ slot \in [Procs -> Prios]
  /\ \A p \in Procs : slot[p] <= Prio[p]
  /\ pc \in [Procs -> {"idle", "list", "scan", "held", "free"}]
  /\ passed \in [Prios -> [Prios -> 0 .. 2]]

(***************************************************************************)
(* One thread holds the lock and owner points to its node, until owner is  *)
(* reset: the next head of its list, let go before that, stays out.        *)
(***************************************************************************)
Holders == {p \in Procs : pc[p] \in {"held", "free"}}

MutualExclusion ==
  /\ \A p, q \in Holders : p = q
  /\ \A p \in Procs : p \in Holders <=> owner = p

(***************************************************************************)
(* Of every list only the head competes for owner, and it is there until   *)
(* it has taken the lock and left the list.                                *)
(***************************************************************************)
OneHeadPerList ==
  \A p, q \in Procs :
    pc[p] \in {"scan", "held"} /\ pc[q] \in {"scan", "held"} /\ Prio[p] = Prio[q]
      => p = q

(***************************************************************************)
(* While the slot of a task is not empty, each lower task gets the lock at *)
(* most once: its head may have scanned past the slot before, and its next *)
(* head scans anew.                                                        *)
(***************************************************************************)
OvertakenOncePerTask ==
  \A t, u \in Prios : ~ Empty(t) => passed[t][u] <= 1

(***************************************************************************)
(* Every list is used as a FIFO lock may be used, so the requests of one   *)
(* task compete in the order in which they joined.                         *)
(***************************************************************************)
List(t) == INSTANCE FifoLock WITH
             Procs <- {p \in Procs : Prio[p] = t},
             requests <- Requests(t),
             holders <- {p \in Requests(t) : pc[p] # "list"},
             ahead <- [p \in {q \in Procs : Prio[q] = t} |-> ahead[p]]

ListsAreFifo ==
  /\ \A t \in Prios : List(t)!Init
  /\ [][\A t \in Prios : List(t)!Next \/ UNCHANGED List(t)!vars]_vars

(***************************************************************************)
(* Every request of the highest task is served, in spite of the lower      *)
(* tasks that compete for owner.                                           *)
(***************************************************************************)
HighestIsServed ==
  \A p \in Procs : Prio[p] = 0 => (pc[p] = "list" ~> pc[p] = "held")
===============================================================================
