------------------------------ MODULE TicketLock ------------------------------
(***************************************************************************)
(* The ticket spin lock of ticket_locks.c: a request takes the next number *)
(* of the counter users and spins until the counter ticket shows it.  Both *)
(* counters are 16-bit fields of one 32-bit word (union ticketlock in      *)
(* atomic.h); W is the number of values of one field, 2^16 in the code.    *)
(*                                                                         *)
(* Every access to the shared word is a step of its own: the fetch-and-add *)
(* of ticket_lock, each look at ticket, the read and the write of the      *)
(* non-atomic increment in ticket_unlock, and the read and the             *)
(* compare-and-swap of ticket_trylock.                                     *)
(***************************************************************************)
EXTENDS Integers, FiniteSets

CONSTANTS Procs,        \* the threads that use the lock
          W             \* number of values of an unsigned short

(***************************************************************************)
(* The counters tell an empty queue from a full one only if the queue      *)
(* never holds W requests.                                                 *)
(***************************************************************************)
ASSUME FieldWidth ==
  /\ W \in Nat
  /\ IsFiniteSet(Procs)
  /\ Cardinality(Procs) < W

VARIABLES ticket,       \* t->s.ticket, the number being served
          users,        \* t->s.users, the next number to hand out
          me,           \* [Procs -> 0..W-1], local me of ticket_(try)lock
          reg,          \* [Procs -> 0..W-1], register of ticket++
          pc            \* what each thread does next

vars == <<ticket, users, me, reg, pc>>

Values == 0 .. W - 1

(***************************************************************************)
(* Unsigned 16-bit arithmetic: x + 1, and the distance from a up to b.     *)
(***************************************************************************)
Inc(x) == IF x = W - 1 THEN 0 ELSE x + 1
Dist(a, b) == IF b >= a THEN b - a ELSE b - a + W

Init ==
  /\ ticket = 0
  /\ users = 0
  /\ me = [p \in Procs |-> 0]
  /\ reg = [p \in Procs |-> 0]
  /\ pc = [p \in Procs |-> "idle"]

Goto(p, from, to) ==
  /\ pc[p] = from
  /\ pc' = [pc EXCEPT ![p] = to]

(***************************************************************************)
(* ticket_lock: me = atomic_xadd(&t->s.users, 1), then spin on t->s.ticket *)
(***************************************************************************)
TakeTicket(p) ==
  /\ Goto(p, "idle", "spin")
  /\ me' = [me EXCEPT ![p] = users]
  /\ users' = Inc(users)
  /\ UNCHANGED <<ticket, reg>>

\* Mutant: a spinning thread takes a free lock, whatever its number.
AcquireFree(p) ==
  /\ \A q \in Procs : pc[q] \notin {"held", "store"}
  /\ Goto(p, "spin", "held")
  /\ UNCHANGED <<ticket, users, me, reg>>

Acquire(p) ==
  /\ ticket = me[p]
  /\ Goto(p, "spin", "held")
  /\ UNCHANGED <<ticket, users, me, reg>>

(***************************************************************************)
(* ticket_unlock: t->s.ticket++ is a load and a store.                     *)
(***************************************************************************)
UnlockLoad(p) ==
  /\ Goto(p, "held", "store")
  /\ reg' = [reg EXCEPT ![p] = ticket]
  /\ UNCHANGED <<ticket, users, me>>

\* Mutants: the release stores users, or the number that it had loaded.
UnlockStoreUsers(p) ==
  /\ Goto(p, "store", "idle")
  /\ ticket' = users
  /\ UNCHANGED <<users, me, reg>>

UnlockStoreSame(p) ==
  /\ Goto(p, "store", "idle")
  /\ ticket' = reg[p]
  /\ UNCHANGED <<users, me, reg>>

UnlockStore(p) ==
  /\ Goto(p, "store", "idle")
  /\ ticket' = Inc(reg[p])
  /\ UNCHANGED <<users, me, reg>>

(***************************************************************************)
(* ticket_trylock: read users, then compare-and-swap the whole word from   *)
(* (users, ticket) = (me, me) to (me + 1, me).                             *)
(***************************************************************************)
TryLoad(p) ==
  /\ Goto(p, "idle", "try")
  /\ me' = [me EXCEPT ![p] = users]
  /\ UNCHANGED <<ticket, users, reg>>

CasExpects(p) == users = me[p] /\ ticket = me[p]

\* Mutant: the compare-and-swap takes no number.
TrySucceedsNoNumber(p) ==
  /\ CasExpects(p)
  /\ Goto(p, "try", "held")
  /\ UNCHANGED <<ticket, users, me, reg>>

TrySucceeds(p) ==
  /\ CasExpects(p)
  /\ Goto(p, "try", "held")
  /\ users' = Inc(me[p])
  /\ ticket' = me[p]
  /\ UNCHANGED <<me, reg>>

TryFails(p) ==
  /\ ~ CasExpects(p)
  /\ Goto(p, "try", "idle")
  /\ UNCHANGED <<ticket, users, me, reg>>

(***************************************************************************)
(* ticket_lockable: one look at both counters.                             *)
(***************************************************************************)
Lockable == ticket = users

Lock(p) == TakeTicket(p) \/ Acquire(p)
Unlock(p) == UnlockLoad(p) \/ UnlockStore(p)
TryLock(p) == TryLoad(p) \/ TrySucceeds(p) \/ TryFails(p)

Next == \E p \in Procs : Lock(p) \/ Unlock(p) \/ TryLock(p)

Spec == Init /\ [][Next]_vars

(***************************************************************************)
(* A spinning thread keeps looking, and a critical section ends: each task *)
(* thread runs on cores of its own cluster and its critical sections are   *)
(* busy_work of a fixed length.  Nothing forces a thread to call the lock. *)
(***************************************************************************)
Fairness == \A p \in Procs : WF_vars(Acquire(p)) /\ WF_vars(Unlock(p))

FairSpec == Spec /\ Fairness

-------------------------------------------------------------------------------
(***************************************************************************)
(* The threads with an outstanding request, and those that may use what    *)
(* the lock protects.                                                      *)
(***************************************************************************)
Requests == {p \in Procs : pc[p] \in {"spin", "held", "store"}}
Holders == {p \in Procs : pc[p] \in {"held", "store"}}

(***************************************************************************)
(* Every counter and every copy of one stays inside its 16-bit field.      *)
(***************************************************************************)
TypeOK ==
  /\ ticket \in Values
  /\ users \in Values
  /\ me \in [Procs -> Values]
  /\ reg \in [Procs -> Values]
  /\ pc \in [Procs -> {"idle", "spin", "held", "store", "try"}]

(***************************************************************************)
(* Two threads never hold the lock at once, whichever of ticket_lock and   *)
(* ticket_trylock each of them used.                                       *)
(***************************************************************************)
MutualExclusion == \A p, q \in Holders : p = q

(***************************************************************************)
(* ticket_lockable answers yes exactly when no request is outstanding: the *)
(* counters never wrap all the way around onto each other.                 *)
(***************************************************************************)
LockableIffFree == Lockable <=> Requests = {}

(***************************************************************************)
(* The numbers of the outstanding requests are distinct and are exactly    *)
(* those between ticket and users; a holder is the one being served, and   *)
(* the value it loaded for ticket++ is still current when it stores.       *)
(***************************************************************************)
QueueInv ==
  /\ Cardinality(Requests) = Dist(ticket, users)
  /\ \A p \in Requests : Dist(ticket, me[p]) < Dist(ticket, users)
  /\ \A p, q \in Requests : me[p] = me[q] => p = q
  /\ \A p \in Holders : me[p] = ticket
  /\ \A p \in Procs : pc[p] = "store" => reg[p] = ticket

IInv == TypeOK /\ QueueInv

(***************************************************************************)
(* The lock implements the abstract FIFO lock: p is behind the requests    *)
(* whose numbers come up before its own.                                   *)
(***************************************************************************)
Ahead(p) ==
  IF p \in Requests
    THEN {q \in Requests : Dist(ticket, me[q]) < Dist(ticket, me[p])}
    ELSE {}

Fifo == INSTANCE FifoLock WITH
          requests <- Requests,
          holders <- Holders,
          ahead <- [p \in Procs |-> Ahead(p)]

ImplementsFifo == Fifo!Spec

(***************************************************************************)
(* Every thread that takes a ticket gets the lock, however often the other *)
(* threads call ticket_lock and ticket_trylock.                            *)
(***************************************************************************)
StarvationFree == \A p \in Procs : pc[p] = "spin" ~> pc[p] = "held"
===============================================================================
