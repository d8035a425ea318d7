------------------------------- MODULE PrioLock -------------------------------
(***************************************************************************)
(* The priority-ordered spin lock of priority_locks.c.  A request that     *)
(* finds the lock taken announces its priority in the bit set waiters, and *)
(* a thread tries to take the lock only after a look at waiters that shows *)
(* no higher priority.  The look and the compare-and-swap are two steps.   *)
(*                                                                         *)
(* The threads of one task have one priority, hence share one bit.  They   *)
(* first queue up on a local FIFO lock of their task, so that one of them  *)
(* at a time uses the bit.  The local lock is the FifoLock that the ticket *)
(* lock and the MCS lock implement; LocalFifo = FALSE is the variant       *)
(* without it, overhead_measurements/priority_wo_fifo_locks.c.             *)
(***************************************************************************)
EXTENDS Integers, FiniteSets

CONSTANTS Procs,        \* the threads that use the lock
          Prios,        \* the tasks' locking priorities, 0 is the highest
          Prio,         \* [Procs -> Prios], my_prio of each thread's task
          LocalFifo,    \* is there a local lock per task?
          NULL

ASSUME PrioTyping ==
  /\ Prios \subseteq 0 .. 63
  /\ Prio \in [Procs -> Prios]
  /\ LocalFifo \in BOOLEAN
  /\ NULL \notin Prios

VARIABLES owner,        \* p->owner: the my_prio of the holder's task, or NULL
          waiters,      \* p->waiters, as the set of the bits that are set
          ahead,        \* the local locks: who is ahead of p in its task
          pc,           \* what each thread does next
          passed        \* history: acquisitions by lower tasks since p announced

vars == <<owner, waiters, ahead, pc, passed>>

Team(p) == {q \in Procs : Prio[q] = Prio[p]}
\* Mutants: the mask lacks the next higher task, or has the own bit.
HigherButOne(p) == {t \in Prios : t < Prio[p] - 1}
HigherOrOwn(p) == {t \in Prios : t <= Prio[p]}

Higher(p) == {t \in Prios : t < Prio[p]}      \* the mask my_prio.priority - 1

Init ==
  /\ owner = NULL
  /\ waiters = {}
  /\ ahead = [p \in Procs |-> {}]
  /\ pc = [p \in Procs |-> "idle"]
  /\ passed = [p \in Procs |-> [t \in Prios |-> 0]]

Goto(p, from, to) ==
  /\ pc[p] = from
  /\ pc' = [pc EXCEPT ![p] = to]

(***************************************************************************)
(* ticket_lock(local_lock)                                                 *)
(***************************************************************************)
LocalRequests == {p \in Procs : pc[p] \notin {"idle", "free"}}

\* Mutant: the local lock has no queue.
LocalRequestBarges(p) ==
  /\ Goto(p, "idle", "local")
  /\ ahead' = [ahead EXCEPT ![p] = {}]
  /\ UNCHANGED <<owner, waiters, passed>>

LocalRequest(p) ==
  /\ Goto(p, "idle", "local")
  /\ ahead' = [ahead EXCEPT ![p] = IF LocalFifo THEN LocalRequests \cap Team(p)
                                                ELSE {}]
  /\ UNCHANGED <<owner, waiters, passed>>

\* Mutant: nobody waits for the local lock.
LocalGrantAtOnce(p) ==
  /\ Goto(p, "local", "look1")
  /\ UNCHANGED <<owner, waiters, ahead, passed>>

LocalGrant(p) ==
  /\ ahead[p] = {}
  /\ Goto(p, "local", "look1")
  /\ UNCHANGED <<owner, waiters, ahead, passed>>

(***************************************************************************)
(* A compare-and-swap of owner from NULL.  The history counts, up to 2,    *)
(* the acquisitions by each lower task while a thread is announced.        *)
(***************************************************************************)
Announced(p) == pc[p] \in {"look", "check", "try"}

\* Mutant: owner is stored without being compared.
StoreOwner(p) ==
  /\ owner' = Prio[p]
  /\ UNCHANGED passed

CasOwner(p) ==
  /\ owner = NULL
  /\ owner' = Prio[p]
  /\ passed' = [q \in Procs |->
       IF Announced(q) /\ Prio[q] < Prio[p] /\ passed[q][Prio[p]] < 2
         THEN [passed[q] EXCEPT ![Prio[p]] = @ + 1]
         ELSE passed[q]]

(***************************************************************************)
(* The first attempt: spin while a higher priority waits, then one         *)
(* compare-and-swap; if that fails, announce the own priority.             *)
(***************************************************************************)
LookFirst(p) ==
  /\ waiters \cap Higher(p) = {}
  /\ Goto(p, "look1", "try1")
  /\ UNCHANGED <<owner, waiters, ahead, passed>>

TryFirst(p) ==
  \/ /\ CasOwner(p)
     /\ Goto(p, "try1", "held")
     /\ UNCHANGED <<waiters, ahead>>
  \/ /\ owner # NULL
     /\ Goto(p, "try1", "announce")
     /\ UNCHANGED <<owner, waiters, ahead, passed>>

Announce(p) ==
  /\ Goto(p, "announce", "look")
  /\ waiters' = waiters \cup {Prio[p]}
  /\ passed' = [passed EXCEPT ![p] = [t \in Prios |-> 0]]
  /\ UNCHANGED <<owner, ahead>>

(***************************************************************************)
(* The loop of an announced request: while a higher priority waits, renew  *)
(* a bit that was cleared; otherwise try, and on success clear the bit.    *)
(***************************************************************************)
Look(p) ==
  /\ Goto(p, "look", IF waiters \cap Higher(p) = {} THEN "try" ELSE "check")
  /\ UNCHANGED <<owner, waiters, ahead, passed>>

CheckBit(p) ==
  /\ Goto(p, "check", IF Prio[p] \in waiters THEN "look" ELSE "announce")
  /\ UNCHANGED <<owner, waiters, ahead, passed>>

Try(p) ==
  \/ /\ CasOwner(p)
     /\ Goto(p, "try", "retract")
     /\ UNCHANGED <<waiters, ahead>>
  \/ /\ owner # NULL
     /\ Goto(p, "try", "look")
     /\ UNCHANGED <<owner, waiters, ahead, passed>>

\* Mutant: the bit of a request that is served stays set.
RetractForgets(p) ==
  /\ Goto(p, "retract", "held")
  /\ UNCHANGED <<owner, waiters, ahead, passed>>

Retract(p) ==
  /\ Goto(p, "retract", "held")
  /\ waiters' = waiters \ {Prio[p]}
  /\ UNCHANGED <<owner, ahead, passed>>

(***************************************************************************)
(* plock_unlock: first ticket_unlock(local_lock), then owner = NULL.       *)
(***************************************************************************)
LocalRelease(p) ==
  /\ Goto(p, "held", "free")
  /\ ahead' = [q \in Procs |-> ahead[q] \ {p}]
  /\ UNCHANGED <<owner, waiters, passed>>

FreeOwner(p) ==
  /\ Goto(p, "free", "idle")
  /\ owner' = NULL
  /\ UNCHANGED <<waiters, ahead, passed>>

Lock(p) ==
  \/ LocalGrant(p) \/ LookFirst(p) \/ TryFirst(p) \/ Announce(p)
  \/ Look(p) \/ CheckBit(p) \/ Try(p) \/ Retract(p)

Unlock(p) == LocalRelease(p) \/ FreeOwner(p)

Next == \E p \in Procs : LocalRequest(p) \/ Lock(p) \/ Unlock(p)

Spec == Init /\ [][Next]_vars

(***************************************************************************)
(* A thread inside plock_lock keeps running, and critical sections end.    *)
(***************************************************************************)
Fairness == \A p \in Procs : WF_vars(Lock(p)) /\ WF_vars(Unlock(p))

FairSpec == Spec /\ Fairness

-------------------------------------------------------------------------------
(***************************************************************************)
(* Owner and bits are priorities of tasks.                                 *)
(***************************************************************************)
TypeOK ==
  /\ owner \in Prios \cup {NULL}
  /\ waiters \subseteq Prios
  /\ ahead \in [Procs -> SUBSET Procs]
  /\ pc \in [Procs -> {"idle", "local", "look1", "try1", "announce", "look",
                       "check", "try", "retract", "held", "free"}]
  /\ passed \in [Procs -> [Prios -> 0 .. 2]]

(***************************************************************************)
(* One thread at a time holds the lock, whatever mix of first and later    *)
(* attempts is under way, and owner says which task that is; the early     *)
(* release of the local lock lets nobody in before owner is NULL.          *)
(***************************************************************************)
Holders == {p \in Procs : pc[p] \in {"retract", "held", "free"}}

MutualExclusion ==
  /\ \A p, q \in Holders : p = q
  /\ \A p \in Holders : owner = Prio[p]
  /\ owner # NULL => Holders # {}

(***************************************************************************)
(* No bit is left behind: a set bit belongs to a request that is still     *)
(* announced or about to clear it.  A stale bit would keep every lower     *)
(* task out for good.                                                      *)
(***************************************************************************)
NoStaleBit ==
  \A t \in waiters :
    \E p \in Procs : Prio[p] = t /\ (Announced(p) \/ pc[p] \in {"announce", "retract"})

(***************************************************************************)
(* With a local lock the bit of an announced request stays set until its   *)
(* own thread has taken the lock: no thread of its task clears it.         *)
(***************************************************************************)
AnnouncedIsVisible == \A p \in Procs : Announced(p) => Prio[p] \in waiters

(***************************************************************************)
(* With a local lock, a lower task gets the lock at most once after a      *)
(* request was announced: only a thread that had looked at waiters before  *)
(* can still take it, and it is the only one of its task that had.  So a   *)
(* request waits for as many lower critical sections as there are lower    *)
(* tasks, where max_cslen_lp in blocking_analysis.cpp accounts for one.    *)
(***************************************************************************)
OvertakenOncePerTask ==
  \A p \in Procs, t \in Prios : Announced(p) => passed[p][t] <= 1

(***************************************************************************)
(* Each local lock is used as a FIFO lock may be used.                     *)
(***************************************************************************)
Local(t) == INSTANCE FifoLock WITH
              Procs <- {p \in Procs : Prio[p] = t},
              requests <- {p \in LocalRequests : Prio[p] = t},
              holders <- {p \in LocalRequests : Prio[p] = t /\ pc[p] # "local"},
              ahead <- [p \in {q \in Procs : Prio[q] = t} |-> ahead[p]]

LocalLocksAreFifo ==
  /\ \A t \in Prios : Local(t)!Init
  /\ [][\A t \in Prios : Local(t)!Next \/ UNCHANGED Local(t)!vars]_vars

(***************************************************************************)
(* Every request of the highest task is served, in spite of the lower      *)
(* tasks that compete for owner.                                           *)
(***************************************************************************)
HighestIsServed ==
  \A p \in Procs :
    (\A t \in Prios : Prio[p] <= t) => (pc[p] = "local" ~> pc[p] = "held")
===============================================================================
