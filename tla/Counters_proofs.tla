---------------------------- MODULE Counters_proofs ----------------------------
(***************************************************************************)
(* Proofs about the two counters of fixed width that processes share: the  *)
(* numbers of TicketLock, for every number of threads and every width with *)
(* more values than there are threads, and the count of those who have yet *)
(* to arrive at a Barrier, for every number of tasks and of launches and   *)
(* every width that can count the tasks.                                   *)
(***************************************************************************)
EXTENDS TicketLock, Barrier, FiniteSetTheorems, TLAPS

(***************************************************************************)
(* The ticket lock.                                                        *)
(***************************************************************************)
USE FieldWidth

(***************************************************************************)
(* The increment of an unsigned short stays in the field.                  *)
(***************************************************************************)
LEMMA IncType == \A x \in Values : Inc(x) \in Values
  BY DEF Values, Inc

(***************************************************************************)
(* Taking a number moves the end of the queue away by one, as long as the  *)
(* queue is not as long as the field is wide.                              *)
(***************************************************************************)
LEMMA DistGrow ==
  ASSUME NEW a \in Values, NEW b \in Values, Dist(a, b) + 1 < W
  PROVE  Dist(a, Inc(b)) = Dist(a, b) + 1
  BY DEF Values, Inc, Dist

(***************************************************************************)
(* Serving the next number brings every other number nearer by one.        *)
(***************************************************************************)
LEMMA DistShrink ==
  ASSUME NEW a \in Values, NEW b \in Values, a # b
  PROVE  Dist(Inc(a), b) = Dist(a, b) - 1
  BY DEF Values, Inc, Dist

(***************************************************************************)
(* Distances are natural numbers, zero at the number being served.         *)
(***************************************************************************)
LEMMA DistSelf ==
  ASSUME NEW a \in Values
  PROVE  Dist(a, a) = 0
  BY DEF Values, Dist

LEMMA DistType ==
  ASSUME NEW a \in Values, NEW b \in Values
  PROVE  Dist(a, b) \in Nat
  BY DEF Values, Dist

LEMMA Typing == Spec => []TypeOK
<1>1. Init => TypeOK
  BY FS_CardinalityType DEF Init, TypeOK, Values
<1>2. TypeOK /\ [Next]_vars => TypeOK'
  <2> SUFFICES ASSUME TypeOK, [Next]_vars PROVE TypeOK'
    OBVIOUS
  <2> USE IncType DEF TypeOK, Goto
  <2>1. ASSUME NEW p \in Procs, TakeTicket(p) PROVE TypeOK'
    BY <2>1 DEF TakeTicket
  <2>2. ASSUME NEW p \in Procs, Acquire(p) PROVE TypeOK'
    BY <2>2 DEF Acquire
  <2>3. ASSUME NEW p \in Procs, UnlockLoad(p) PROVE TypeOK'
    BY <2>3 DEF UnlockLoad
  <2>4. ASSUME NEW p \in Procs, UnlockStore(p) PROVE TypeOK'
    BY <2>4 DEF UnlockStore
  <2>5. ASSUME NEW p \in Procs, TryLoad(p) PROVE TypeOK'
    BY <2>5 DEF TryLoad
  <2>6. ASSUME NEW p \in Procs, TrySucceeds(p) PROVE TypeOK'
    BY <2>6 DEF TrySucceeds
  <2>7. ASSUME NEW p \in Procs, TryFails(p) PROVE TypeOK'
    BY <2>7 DEF TryFails
  <2>8. CASE UNCHANGED vars
    BY <2>8 DEF vars
  <2> QED
    BY <2>1, <2>2, <2>3, <2>4, <2>5, <2>6, <2>7, <2>8
    DEF Next, Lock, Unlock, TryLock
<1> QED
  BY <1>1, <1>2, PTL DEF Spec

-------------------------------------------------------------------------------
(***************************************************************************)
(* Requests is finite, and a thread outside it leaves room in the field    *)
(* for one more number.                                                    *)
(***************************************************************************)
LEMMA RequestsFinite ==
  IsFiniteSet(Requests) /\ Cardinality(Requests) \in Nat
  BY FS_Subset, FS_CardinalityType DEF Requests

LEMMA Room ==
  ASSUME TypeOK, QueueInv, NEW p \in Procs \ Requests
  PROVE  Dist(ticket, users) + 1 < W
<1>1. Requests \in SUBSET (Procs \ {p})
  BY DEF Requests
<1>2. /\ IsFiniteSet(Procs \ {p})
      /\ Cardinality(Procs \ {p}) = Cardinality(Procs) - 1
  BY FS_RemoveElement
<1>3. Cardinality(Requests) <= Cardinality(Procs) - 1
  BY <1>1, <1>2, FS_Subset
<1> QED
  BY <1>3, FS_CardinalityType, RequestsFinite DEF QueueInv

(***************************************************************************)
(* A thread whose request gets the number users joins the end of the       *)
(* queue: the step common to ticket_lock and a successful ticket_trylock.  *)
(***************************************************************************)
LEMMA Join ==
  ASSUME TypeOK, TypeOK', QueueInv, NEW p \in Procs \ Requests,
         Requests' = Requests \cup {p},
         ticket' = ticket, users' = Inc(users), reg' = reg,
         me' = [me EXCEPT ![p] = users],
         \A q \in Holders' : q \in Holders \/ (q = p /\ users = ticket),
         \A q \in Procs : pc'[q] = "store" => pc[q] = "store"
  PROVE  QueueInv'
<1>1. Dist(ticket, users) + 1 < W
  BY Room
<1>2. Dist(ticket', users') = Dist(ticket, users) + 1
  BY <1>1, DistGrow DEF TypeOK
<1>3. Dist(ticket, users) \in Nat
  BY DistType DEF TypeOK
<1>4. Cardinality(Requests') = Dist(ticket', users')
  BY <1>2, FS_AddElement, RequestsFinite DEF QueueInv
<1>5. \A q \in Requests' : Dist(ticket', me'[q]) < Dist(ticket', users')
  <2> SUFFICES ASSUME NEW q \in Requests'
               PROVE  Dist(ticket', me'[q]) < Dist(ticket', users')
    OBVIOUS
  <2>1. CASE q = p
    BY <2>1, <1>2, <1>3 DEF TypeOK
  <2>2. CASE q # p
    <3>1. q \in Requests /\ q \in Procs /\ me'[q] = me[q]
      BY <2>2 DEF Requests, TypeOK
    <3>2. Dist(ticket, me[q]) < Dist(ticket, users)
      BY <3>1 DEF QueueInv
    <3>3. Dist(ticket, me[q]) \in Nat
      BY <3>1, DistType DEF TypeOK
    <3> QED
      BY <3>1, <3>2, <3>3, <1>2, <1>3
  <2> QED
    BY <2>1, <2>2
<1>6. \A q \in Requests : me[q] # users
  <2> SUFFICES ASSUME NEW q \in Requests, me[q] = users PROVE FALSE
    OBVIOUS
  <2> QED
    BY <1>3 DEF QueueInv
<1>7. \A q, r \in Requests' : me'[q] = me'[r] => q = r
  BY <1>6 DEF QueueInv, TypeOK, Requests
<1>8. \A q \in Holders' : me'[q] = ticket'
  <2> SUFFICES ASSUME NEW q \in Holders' PROVE me'[q] = ticket'
    OBVIOUS
  <2>1. CASE q = p /\ users = ticket
    BY <2>1 DEF TypeOK
  <2>2. CASE q \in Holders
    <3>1. q # p /\ q \in Procs
      BY <2>2 DEF Holders, Requests
    <3> QED
      BY <2>2, <3>1 DEF QueueInv, TypeOK
  <2> QED
    BY <2>1, <2>2
<1>9. \A q \in Procs : pc'[q] = "store" => reg'[q] = ticket'
  BY DEF QueueInv
<1> QED
  BY <1>4, <1>5, <1>7, <1>8, <1>9 DEF QueueInv

(***************************************************************************)
(* ticket_unlock takes the request that is being served out of the queue.  *)
(***************************************************************************)
LEMMA Leave ==
  ASSUME TypeOK, TypeOK', QueueInv, NEW p \in Procs, UnlockStore(p)
  PROVE  QueueInv'
<1>1. /\ p \in Requests /\ p \in Holders
      /\ Requests' = Requests \ {p}
      /\ Holders' = Holders \ {p}
  BY DEF UnlockStore, Goto, TypeOK, Requests, Holders
<1>2. /\ me[p] = ticket
      /\ ticket' = Inc(ticket) /\ users' = users /\ me' = me /\ reg' = reg
  BY <1>1 DEF UnlockStore, Goto, QueueInv
<1>3. Dist(ticket, ticket) = 0
  BY DistSelf DEF TypeOK
<1>4. ticket # users
  BY <1>1, <1>2, <1>3 DEF QueueInv
<1>5. Dist(ticket', users') = Dist(ticket, users) - 1
  BY <1>2, <1>4, DistShrink DEF TypeOK
<1>6. Cardinality(Requests') = Dist(ticket', users')
  BY <1>1, <1>5, FS_RemoveElement, RequestsFinite DEF QueueInv
<1>7. \A q \in Requests' : /\ q \in Requests
                           /\ me[q] # ticket
                           /\ Dist(ticket', me[q]) = Dist(ticket, me[q]) - 1
  <2> SUFFICES ASSUME NEW q \in Requests'
               PROVE  /\ q \in Requests
                      /\ me[q] # ticket
                      /\ Dist(ticket', me[q]) = Dist(ticket, me[q]) - 1
    OBVIOUS
  <2>1. q \in Requests /\ q # p /\ q \in Procs
    BY <1>1 DEF Requests
  <2>2. me[q] # ticket
    BY <2>1, <1>1, <1>2 DEF QueueInv
  <2> QED
    BY <2>1, <2>2, <1>2, DistShrink DEF TypeOK
<1>8. \A q \in Requests' : Dist(ticket', me'[q]) < Dist(ticket', users')
  <2> SUFFICES ASSUME NEW q \in Requests'
               PROVE  Dist(ticket', me'[q]) < Dist(ticket', users')
    OBVIOUS
  <2>1. q \in Procs /\ Dist(ticket, me[q]) < Dist(ticket, users)
    BY <1>7 DEF QueueInv, Requests
  <2>2. Dist(ticket, me[q]) \in Nat /\ Dist(ticket, users) \in Nat
    BY <2>1, DistType DEF TypeOK
  <2> QED
    BY <2>1, <2>2, <1>2, <1>5, <1>7
<1>9. Holders' = {}
  <2> SUFFICES ASSUME NEW q \in Holders' PROVE FALSE
    OBVIOUS
  <2>1. q \in Holders /\ q \in Requests /\ q # p
    BY <1>1 DEF Holders, Requests
  <2> QED
    BY <2>1, <1>1, <1>2 DEF QueueInv
<1>10. \A q \in Procs : pc'[q] # "store"
  BY <1>9 DEF Holders
<1>11. \A q, r \in Requests' : me'[q] = me'[r] => q = r
  BY <1>1, <1>2 DEF QueueInv
<1> QED
  BY <1>6, <1>8, <1>9, <1>10, <1>11 DEF QueueInv

(***************************************************************************)
(* The counters number the outstanding requests in every reachable state.  *)
(***************************************************************************)
LEMMA QueueStep == TypeOK /\ TypeOK' /\ QueueInv /\ [Next]_vars => QueueInv'
<1> SUFFICES ASSUME TypeOK, TypeOK', QueueInv, [Next]_vars PROVE QueueInv'
  OBVIOUS
<1>1. ASSUME NEW p \in Procs, TakeTicket(p) PROVE QueueInv'
  <2>1. p \notin Requests /\ Requests' = Requests \cup {p} /\ Holders' = Holders
    BY <1>1 DEF TakeTicket, Goto, TypeOK, Requests, Holders
  <2>2. \A q \in Procs : pc'[q] = "store" => pc[q] = "store"
    BY <1>1 DEF TakeTicket, Goto, TypeOK
  <2> QED
    BY <1>1, <2>1, <2>2, Join DEF TakeTicket
<1>2. ASSUME NEW p \in Procs, Acquire(p) PROVE QueueInv'
  <2>1. /\ Requests' = Requests /\ Holders' = Holders \cup {p}
        /\ \A q \in Procs : pc'[q] = "store" => pc[q] = "store"
    BY <1>2 DEF Acquire, Goto, TypeOK, Requests, Holders
  <2> QED
    BY <1>2, <2>1 DEF Acquire, QueueInv
<1>3. ASSUME NEW p \in Procs, UnlockLoad(p) PROVE QueueInv'
  <2>1. /\ Requests' = Requests /\ Holders' = Holders
        /\ \A q \in Procs : pc'[q] = "store" => pc[q] = "store" \/ q = p
    BY <1>3 DEF UnlockLoad, Goto, TypeOK, Requests, Holders
  <2> QED
    BY <1>3, <2>1 DEF UnlockLoad, QueueInv, TypeOK
<1>4. ASSUME NEW p \in Procs, UnlockStore(p) PROVE QueueInv'
  BY <1>4, Leave
<1>5. ASSUME NEW p \in Procs, TryLoad(p) PROVE QueueInv'
  <2>1. /\ Requests' = Requests /\ Holders' = Holders /\ p \notin Requests
        /\ Holders \subseteq Requests /\ Requests \subseteq Procs
        /\ \A q \in Procs : pc'[q] = "store" => pc[q] = "store"
    BY <1>5 DEF TryLoad, Goto, TypeOK, Requests, Holders
  <2> QED
    BY <1>5, <2>1 DEF TryLoad, QueueInv, TypeOK
<1>6. ASSUME NEW p \in Procs, TrySucceeds(p) PROVE QueueInv'
  <2>1. /\ p \notin Requests /\ Requests' = Requests \cup {p}
        /\ Holders' = Holders \cup {p}
    BY <1>6 DEF TrySucceeds, Goto, TypeOK, Requests, Holders
  <2>2. \A q \in Procs : pc'[q] = "store" => pc[q] = "store"
    BY <1>6 DEF TrySucceeds, Goto, TypeOK
  <2>3. me' = [me EXCEPT ![p] = users] /\ users = ticket
    BY <1>6 DEF TrySucceeds, CasExpects, TypeOK
  <2> QED
    BY <1>6, <2>1, <2>2, <2>3, Join DEF TrySucceeds, CasExpects
<1>7. ASSUME NEW p \in Procs, TryFails(p) PROVE QueueInv'
  <2>1. /\ Requests' = Requests /\ Holders' = Holders
        /\ \A q \in Procs : pc'[q] = "store" => pc[q] = "store"
    BY <1>7 DEF TryFails, Goto, TypeOK, Requests, Holders
  <2> QED
    BY <1>7, <2>1 DEF TryFails, QueueInv
<1>8. CASE UNCHANGED vars
  BY <1>8 DEF vars, QueueInv, Requests, Holders
<1> QED
  BY <1>1, <1>2, <1>3, <1>4, <1>5, <1>6, <1>7, <1>8
  DEF Next, Lock, Unlock, TryLock

THEOREM QueueCorrect == Spec => []QueueInv
<1>1. Init => QueueInv
  <2> SUFFICES ASSUME Init PROVE QueueInv
    OBVIOUS
  <2>1. Requests = {} /\ Holders = {}
    BY DEF Init, Requests, Holders
  <2>2. Dist(ticket, users) = 0
    BY DEF Init, Dist
  <2>3. \A p \in Procs : pc[p] # "store"
    BY DEF Init
  <2> QED
    BY <2>1, <2>2, <2>3, FS_EmptySet DEF QueueInv
<1> QED
  BY <1>1, QueueStep, Typing, PTL DEF Spec

(***************************************************************************)
(* ticket_lock and ticket_trylock never let two threads in at once: holders *)
(* have the number being served, and numbers are distinct.                 *)
(***************************************************************************)
THEOREM TicketMutualExclusion == Spec => []MutualExclusion
<1>1. QueueInv => MutualExclusion
  BY DEF QueueInv, MutualExclusion, Holders, Requests
<1> QED
  BY <1>1, QueueCorrect, PTL

(***************************************************************************)
(* ticket_lockable says yes exactly when no request is outstanding.        *)
(***************************************************************************)
THEOREM TicketLockable == Spec => []LockableIffFree
<1>1. TypeOK /\ QueueInv => LockableIffFree
  <2> SUFFICES ASSUME TypeOK, QueueInv PROVE LockableIffFree
    OBVIOUS
  <2>1. Dist(ticket, users) = 0 <=> ticket = users
    BY DEF TypeOK, Values, Dist
  <2>2. Cardinality(Requests) = 0 <=> Requests = {}
    BY RequestsFinite, FS_EmptySet
  <2> QED
    BY <2>1, <2>2 DEF QueueInv, LockableIffFree, Lockable
<1> QED
  BY <1>1, Typing, QueueCorrect, PTL

-------------------------------------------------------------------------------
(***************************************************************************)
(* The map of TicketLock's state to FifoLock's, step by step.  First, what *)
(* a step that leaves the queue alone, lets p join it at the end, or serves *)
(* it does to Ahead.                                                       *)
(***************************************************************************)
LEMMA AheadSame ==
  ASSUME TypeOK, Requests' = Requests, ticket' = ticket,
         \A q \in Requests : me'[q] = me[q]
  PROVE  \A q \in Procs : Ahead(q)' = Ahead(q)
  BY DEF Ahead, Requests

LEMMA AheadJoin ==
  ASSUME TypeOK, QueueInv, NEW p \in Procs \ Requests,
         Requests' = Requests \cup {p},
         ticket' = ticket, me' = [me EXCEPT ![p] = users]
  PROVE  [q \in Procs |-> Ahead(q)]' =
           [[q \in Procs |-> Ahead(q)] EXCEPT ![p] = Requests]
<1>1. me'[p] = users /\ \A q \in Requests : me'[q] = me[q] /\ q \in Procs
  BY DEF TypeOK, Requests
<1>2. \A q \in Requests : Dist(ticket, me[q]) < Dist(ticket, users)
  BY DEF QueueInv
<1>3. Ahead(p)' = Requests
  <2>1. Dist(ticket, users) \in Nat
    BY DistType DEF TypeOK
  <2>2. Ahead(p)' = {q \in Requests' : Dist(ticket, me'[q]) < Dist(ticket, users)}
    BY <1>1 DEF Ahead
  <2>3. \A q \in Requests' : Dist(ticket, me'[q]) < Dist(ticket, users) <=> q # p
    BY <1>1, <1>2, <2>1
  <2> QED
    BY <2>2, <2>3
<1>4. \A q \in Procs : q # p => Ahead(q)' = Ahead(q)
  <2> SUFFICES ASSUME NEW q \in Procs, q # p PROVE Ahead(q)' = Ahead(q)
    OBVIOUS
  <2>1. CASE q \notin Requests
    BY <2>1 DEF Ahead
  <2>2. CASE q \in Requests
    <3>1. Dist(ticket, users) \in Nat /\ Dist(ticket, me[q]) \in Nat
      BY DistType DEF TypeOK
    <3>2. ~ (Dist(ticket, users) < Dist(ticket, me[q]))
      BY <2>2, <3>1, <1>2
    <3>3. Ahead(q)' = {r \in Requests' : Dist(ticket, me'[r]) < Dist(ticket, me[q])}
      BY <2>2, <1>1 DEF Ahead
    <3>4. Ahead(q) = {r \in Requests : Dist(ticket, me[r]) < Dist(ticket, me[q])}
      BY <2>2 DEF Ahead
    <3> QED
      BY <3>2, <3>3, <3>4, <1>1
  <2> QED
    BY <2>1, <2>2
<1> QED
  BY <1>3, <1>4

LEMMA AheadLeave ==
  ASSUME TypeOK, QueueInv, NEW p \in Procs, UnlockStore(p)
  PROVE  \A q \in Procs : Ahead(q)' = Ahead(q) \ {p}
<1>1. p \in Requests /\ p \in Holders /\ Requests' = Requests \ {p}
  BY DEF UnlockStore, Goto, TypeOK, Requests, Holders
<1>2. me[p] = ticket /\ ticket' = Inc(ticket) /\ me' = me
  BY <1>1 DEF UnlockStore, Goto, QueueInv
<1>3. \A q \in Requests' : /\ q \in Procs
                           /\ Dist(ticket', me[q]) = Dist(ticket, me[q]) - 1
                           /\ Dist(ticket, me[q]) \in Nat
  <2> SUFFICES ASSUME NEW q \in Requests'
               PROVE  /\ q \in Procs
                      /\ Dist(ticket', me[q]) = Dist(ticket, me[q]) - 1
                      /\ Dist(ticket, me[q]) \in Nat
    OBVIOUS
  <2>1. q \in Requests /\ q # p /\ q \in Procs
    BY <1>1 DEF Requests
  <2>2. me[q] # ticket
    BY <2>1, <1>1, <1>2 DEF QueueInv
  <2> QED
    BY <2>1, <2>2, <1>2, DistShrink, DistType DEF TypeOK
<1> SUFFICES ASSUME NEW q \in Procs PROVE Ahead(q)' = Ahead(q) \ {p}
  OBVIOUS
<1>4. CASE q \notin Requests
  BY <1>1, <1>4 DEF Ahead
<1>5. CASE q = p
  <2>1. Ahead(q)' = {}
    BY <1>1, <1>5 DEF Ahead
  <2>2. Dist(ticket, me[p]) = 0
    BY <1>2, DistSelf DEF TypeOK
  <2>3. \A r \in Requests : Dist(ticket, me[r]) \in Nat
    BY DistType DEF TypeOK, Requests
  <2>4. Ahead(q) = {}
    BY <1>1, <1>5, <2>2, <2>3 DEF Ahead
  <2> QED
    BY <2>1, <2>4
<1>6. CASE q \in Requests /\ q # p
  <2>1. q \in Requests'
    BY <1>1, <1>6
  <2>2. Ahead(q)' = {r \in Requests' : Dist(ticket', me[r]) < Dist(ticket', me[q])}
    BY <1>2, <2>1 DEF Ahead
  <2>3. \A r \in Requests' : Dist(ticket', me[r]) < Dist(ticket', me[q])
                               <=> Dist(ticket, me[r]) < Dist(ticket, me[q])
    BY <1>3, <2>1
  <2>4. Ahead(q) = {r \in Requests : Dist(ticket, me[r]) < Dist(ticket, me[q])}
    BY <1>6 DEF Ahead
  <2> QED
    BY <1>1, <2>2, <2>3, <2>4
<1> QED
  BY <1>4, <1>5, <1>6

(***************************************************************************)
(* The ticket lock implements the abstract FIFO lock: locks are granted in *)
(* the order in which threads took their numbers, through ticket_lock or   *)
(* through ticket_trylock, and to one thread at a time.                    *)
(***************************************************************************)
THEOREM TicketImplementsFifo == Spec => ImplementsFifo
<1>1. Init => Fifo!Init
  BY DEF Init, Fifo!Init, Requests, Holders, Ahead
<1>2. TypeOK /\ TypeOK' /\ QueueInv /\ [Next]_vars => [Fifo!Next]_(Fifo!vars)
  <2> SUFFICES ASSUME TypeOK, TypeOK', QueueInv, [Next]_vars
               PROVE  Fifo!Next \/ UNCHANGED Fifo!vars
    BY DEF Fifo!vars
  <2> DEFINE Stutter == Requests' = Requests /\ Holders' = Holders
  <2>0. ASSUME Stutter, ticket' = ticket, \A q \in Requests : me'[q] = me[q]
        PROVE  UNCHANGED Fifo!vars
    BY <2>0, AheadSame DEF Fifo!vars
  <2>1. ASSUME NEW p \in Procs, TakeTicket(p) PROVE Fifo!Request(p)
    <3>1. p \notin Requests /\ Requests' = Requests \cup {p} /\ Holders' = Holders
      BY <2>1 DEF TakeTicket, Goto, TypeOK, Requests, Holders
    <3> QED
      BY <2>1, <3>1, AheadJoin DEF TakeTicket, Fifo!Request
  <2>2. ASSUME NEW p \in Procs, Acquire(p) PROVE Fifo!Grant(p)
    <3>1. /\ p \in Requests /\ p \notin Holders
          /\ Requests' = Requests /\ Holders' = Holders \cup {p}
          /\ Holders \subseteq Requests
      BY <2>2 DEF Acquire, Goto, TypeOK, Requests, Holders
    <3>2. Holders = {}
      BY <2>2, <3>1 DEF Acquire, QueueInv
    <3>3. Ahead(p) = {}
      <4>1. \A q \in Requests : Dist(ticket, me[q]) \in Nat
        BY DistType DEF TypeOK, Requests
      <4> QED
        BY <2>2, <3>1, <4>1, DistSelf DEF Acquire, TypeOK, Ahead
    <3>4. \A q \in Procs : Ahead(q)' = Ahead(q)
      BY <2>2, <3>1, AheadSame DEF Acquire
    <3> QED
      BY <3>1, <3>2, <3>3, <3>4 DEF Fifo!Grant
  <2>3. ASSUME NEW p \in Procs, UnlockLoad(p) PROVE UNCHANGED Fifo!vars
    <3>1. Stutter
      BY <2>3 DEF UnlockLoad, Goto, TypeOK, Requests, Holders
    <3> QED
      BY <2>0, <2>3, <3>1 DEF UnlockLoad
  <2>4. ASSUME NEW p \in Procs, UnlockStore(p) PROVE Fifo!Release(p)
    <3>1. /\ p \in Holders
          /\ Requests' = Requests \ {p} /\ Holders' = Holders \ {p}
      BY <2>4 DEF UnlockStore, Goto, TypeOK, Requests, Holders
    <3> QED
      BY <2>4, <3>1, AheadLeave DEF Fifo!Release
  <2>5. ASSUME NEW p \in Procs, TryLoad(p) PROVE UNCHANGED Fifo!vars
    <3>1. Stutter /\ p \notin Requests /\ Requests \subseteq Procs
      BY <2>5 DEF TryLoad, Goto, TypeOK, Requests, Holders
    <3> QED
      BY <2>0, <2>5, <3>1 DEF TryLoad, TypeOK
  <2>6. ASSUME NEW p \in Procs, TrySucceeds(p) PROVE Fifo!GrantFree(p)
    <3>1. /\ p \notin Requests /\ Requests' = Requests \cup {p}
          /\ Holders' = Holders \cup {p} /\ Holders \subseteq Requests
      BY <2>6 DEF TrySucceeds, Goto, TypeOK, Requests, Holders
    <3>2. Cardinality(Requests) = 0
      BY <2>6, DistSelf DEF TrySucceeds, CasExpects, QueueInv, TypeOK
    <3>3. Requests = {}
      BY <3>2, RequestsFinite, FS_EmptySet
    <3>4. me' = [me EXCEPT ![p] = users] /\ ticket' = ticket
      BY <2>6 DEF TrySucceeds, CasExpects, TypeOK
    <3>5. [q \in Procs |-> Ahead(q)]' = [[q \in Procs |-> Ahead(q)] EXCEPT ![p] = {}]
      BY <3>1, <3>3, <3>4, AheadJoin
    <3>6. Ahead(p) = {}
      BY <3>1 DEF Ahead
    <3>7. [q \in Procs |-> Ahead(q)]' = [q \in Procs |-> Ahead(q)]
      BY <3>5, <3>6
    <3> QED
      BY <3>1, <3>3, <3>7 DEF Fifo!GrantFree
  <2>7. ASSUME NEW p \in Procs, TryFails(p) PROVE UNCHANGED Fifo!vars
    <3>1. Stutter
      BY <2>7 DEF TryFails, Goto, TypeOK, Requests, Holders
    <3> QED
      BY <2>0, <2>7, <3>1 DEF TryFails
  <2>8. CASE UNCHANGED vars
    BY <2>0, <2>8 DEF vars, Requests, Holders
  <2> QED
    BY <2>1, <2>2, <2>3, <2>4, <2>5, <2>6, <2>7, <2>8
    DEF Next, Lock, Unlock, TryLock, Fifo!Next
<1> QED
  BY <1>1, <1>2, Typing, QueueCorrect, PTL DEF Spec, ImplementsFifo, Fifo!Spec

HIDE FieldWidth

-------------------------------------------------------------------------------
(***************************************************************************)
(* The barrier.                                                            *)
(***************************************************************************)
USE BarrierSize

LEMMA SizeType == N \in Nat /\ N > 0 /\ N \in 0 .. Width - 1
  BY FS_CardinalityType, FS_EmptySet DEF N

(***************************************************************************)
(* get_barrier leaves the name at an object, a new one only if it had none.*)
(***************************************************************************)
LEMMA GetBarrierType ==
  ASSUME BarrierTypeOK, GetBarrier
  PROVE  /\ objects' \in Nat /\ objects <= objects'
         /\ name' \in 1 .. objects'
         /\ value' \in [1 .. objects' -> 0 .. Width - 1]
         /\ name # 0 => UNCHANGED shm
<1>1. CASE name = 0
  BY <1>1, SizeType DEF BarrierTypeOK, GetBarrier
<1>2. CASE name # 0
  BY <1>2 DEF BarrierTypeOK, GetBarrier, shm
<1> QED
  BY <1>1, <1>2

(***************************************************************************)
(* Every state of a behaviour has the types of BarrierTypeOK.                     *)
(***************************************************************************)
LEMMA BarrierTyping == BarrierSpec => []BarrierTypeOK
<1>1. BarrierInit => BarrierTypeOK
  BY DEF BarrierInit, BarrierTypeOK
<1>2. BarrierTypeOK /\ [BarrierNext]_bvars => BarrierTypeOK'
  <2> SUFFICES ASSUME BarrierTypeOK, [BarrierNext]_bvars PROVE BarrierTypeOK'
    OBVIOUS
  <2>1. CASE InitOpen
    BY <2>1, GetBarrierType DEF InitOpen, BarrierTypeOK
  <2>2. CASE InitStore
    BY <2>2, SizeType DEF InitStore, BarrierTypeOK
  <2>3. ASSUME NEW t \in Tasks, Fork(t) PROVE BarrierTypeOK'
    BY <2>3 DEF Fork, Moves, BarrierTypeOK, shm
  <2>4. ASSUME NEW t \in Tasks, Open(t) PROVE BarrierTypeOK'
    BY <2>4, GetBarrierType DEF Open, Moves, BarrierTypeOK
  <2>5. ASSUME NEW t \in Tasks, Arrive(t) PROVE BarrierTypeOK'
    <3>1. value' \in [1 .. objects -> 0 .. Width - 1]
      <4> DEFINE down == IF value[obj[t]] = 0 THEN Width - 1 ELSE value[obj[t]] - 1
      <4>1. value' = [value EXCEPT ![obj[t]] = down]
        BY <2>5 DEF Arrive
      <4>2. obj[t] \in 1 .. objects => down \in 0 .. Width - 1
        BY SizeType DEF BarrierTypeOK
      <4> HIDE DEF down
      <4> QED
        BY <4>1, <4>2 DEF BarrierTypeOK
    <3> QED
      BY <2>5, <3>1 DEF Arrive, Moves, BarrierTypeOK
  <2>6. ASSUME NEW t \in Tasks, Pass(t) \/ Unlink(t) \/ Exit(t) \/ KillOne(t)
        PROVE  BarrierTypeOK'
    BY <2>6 DEF Pass, Unlink, Exit, KillOne, Moves, BarrierTypeOK, shm
  <2>7. CASE AllReaped \/ KillGroup
    BY <2>7 DEF AllReaped, KillGroup, BarrierTypeOK, shm
  <2>8. CASE UNCHANGED bvars
    BY <2>8 DEF bvars, BarrierTypeOK, shm
  <2> QED
    BY <2>1, <2>2, <2>3, <2>4, <2>5, <2>6, <2>7, <2>8
    DEF BarrierNext, Launcher, Await
<1> QED
  BY <1>1, <1>2, PTL DEF BarrierSpec

-------------------------------------------------------------------------------
(***************************************************************************)
(* While the launcher sets the counter, no task has been forked and the    *)
(* name refers to the object that the launcher has mapped.  While it is    *)
(* idle there is no task.                                                  *)
(***************************************************************************)
Setting ==
  /\ launcher = "idle" => NoTaskLeft
  /\ launcher = "store" =>
       /\ \A t \in Tasks : at[t] = "off"
       /\ name = lobj /\ lobj # 0

(***************************************************************************)
(* The name refers to the launcher's object until a task has unlinked it,  *)
(* and to nothing afterwards: no open can come that late.                  *)
(***************************************************************************)
NameCleared ==
  launcher = "fork" =>
    /\ name \in {0, lobj}
    /\ (\E t \in Tasks : at[t] \in {"run", "gone"}) => name = 0

BarrierIInv == BarrierTypeOK /\ Setting /\ OneBarrier /\ NobodyLeavesEarly /\ NameCleared

(***************************************************************************)
(* The counter is zero only when everybody has arrived.                    *)
(***************************************************************************)
LEMMA ZeroMeansAll ==
  ASSUME N - Cardinality(Arrived) = 0 PROVE Arrived = Tasks
<1>1. Arrived \in SUBSET Tasks
  BY DEF Arrived
<1>2. Cardinality(Arrived) \in Nat
  BY <1>1, FS_Subset, FS_CardinalityType
<1> QED
  BY <1>1, <1>2, SizeType, FS_Subset DEF N

(***************************************************************************)
(* A task that has yet to arrive finds a positive counter, and arriving    *)
(* adds it to those who have.                                              *)
(***************************************************************************)
LEMMA ArriveCounts ==
  ASSUME NEW t \in Tasks, t \notin Arrived
  PROVE  /\ Cardinality(Arrived) \in Nat
         /\ Cardinality(Arrived) < N
         /\ Cardinality(Arrived \cup {t}) = Cardinality(Arrived) + 1
<1>1. Arrived \subseteq Tasks /\ Arrived # Tasks
  BY DEF Arrived
<1>2. IsFiniteSet(Arrived)
  BY <1>1, FS_Subset
<1>3. Cardinality(Arrived) \in Nat
  BY <1>2, FS_CardinalityType
<1>4. Cardinality(Arrived \cup {t}) = Cardinality(Arrived) + 1
  BY <1>2, FS_AddElement
<1>5. Cardinality(Arrived) <= N /\ Cardinality(Arrived) # N
  BY <1>1, FS_Subset DEF N
<1> QED
  BY <1>3, <1>4, <1>5, SizeType

(***************************************************************************)
(* What a step of the tasks or of the launcher keeps, action by action.    *)
(***************************************************************************)
LEMMA InitKeeps ==
  ASSUME BarrierIInv, InitOpen \/ InitStore, BarrierTypeOK' PROVE BarrierIInv'
<1>1. CASE InitOpen
  BY <1>1, GetBarrierType
  DEF InitOpen, BarrierIInv, BarrierTypeOK, Setting, OneBarrier, NobodyLeavesEarly, NameCleared
<1>2. CASE InitStore
  <2>1. Arrived' = {}
    BY <1>2 DEF InitStore, BarrierIInv, Setting, Arrived
  <2>2. Cardinality(Arrived') = 0
    BY <2>1, FS_EmptySet
  <2>3. value'[lobj] = N
    BY <1>2 DEF InitStore, BarrierIInv, BarrierTypeOK, Setting
  <2> QED
    BY <1>2, <2>2, <2>3, SizeType
    DEF InitStore, BarrierIInv, BarrierTypeOK, Setting, OneBarrier, NobodyLeavesEarly,
        NameCleared, Mapped, N
<1> QED
  BY <1>1, <1>2

LEMMA OpenKeeps ==
  ASSUME BarrierIInv, NEW t \in Tasks, Fork(t) \/ Open(t), BarrierTypeOK' PROVE BarrierIInv'
<1>1. launcher = "fork" /\ launcher' = "fork" /\ lobj' = lobj
  BY DEF Fork, Open, Moves, BarrierIInv, BarrierTypeOK, Setting, NoTaskLeft
<1>2. name = lobj /\ lobj # 0 /\ t \notin Arrived
  BY <1>1 DEF Fork, Open, Moves, BarrierIInv, OneBarrier, Arrived
<1>3. UNCHANGED shm
  BY <1>1, <1>2, GetBarrierType DEF Fork, Open, BarrierIInv
<1>4. Arrived' = Arrived
  BY <1>2 DEF Fork, Open, Moves, Arrived, BarrierIInv, BarrierTypeOK
<1>5. OneBarrier'
  BY <1>1, <1>2, <1>3, <1>4
  DEF Fork, Open, Moves, OneBarrier, Mapped, BarrierIInv, BarrierTypeOK, shm, N
<1>6. NobodyLeavesEarly' /\ NameCleared' /\ Setting'
  BY <1>1, <1>2, <1>3, <1>4
  DEF Fork, Open, Moves, BarrierIInv, BarrierTypeOK, NobodyLeavesEarly, NameCleared, Setting, shm
<1> QED
  BY <1>5, <1>6 DEF BarrierIInv

LEMMA ArriveKeeps ==
  ASSUME BarrierIInv, NEW t \in Tasks, Arrive(t), BarrierTypeOK' PROVE BarrierIInv'
<1>1. launcher = "fork" /\ launcher' = "fork" /\ UNCHANGED <<objects, name, obj, lobj>>
  BY DEF Arrive, Moves, BarrierIInv, BarrierTypeOK, Setting, NoTaskLeft
<1>2. t \notin Arrived /\ Arrived' = Arrived \cup {t} /\ obj[t] = lobj /\ lobj # 0
  BY <1>1 DEF Arrive, Moves, BarrierIInv, BarrierTypeOK, OneBarrier, Arrived, Mapped
<1>3. value'[lobj] = value[lobj] - 1
  <2>1. value[lobj] # 0
    BY <1>1, <1>2, ArriveCounts, SizeType DEF BarrierIInv, OneBarrier
  <2>2. value' = [value EXCEPT ![lobj] = value[lobj] - 1]
    BY <1>2, <2>1 DEF Arrive
  <2> QED
    BY <1>2, <2>2 DEF BarrierIInv, BarrierTypeOK
<1>4. value'[lobj] = N - Cardinality(Arrived')
  BY <1>1, <1>2, <1>3, ArriveCounts, SizeType DEF BarrierIInv, OneBarrier
<1>5. OneBarrier'
  BY <1>1, <1>2, <1>4 DEF Arrive, Moves, BarrierIInv, BarrierTypeOK, OneBarrier, Mapped, N
<1>6. NobodyLeavesEarly' /\ NameCleared' /\ Setting'
  BY <1>1, <1>2
  DEF Arrive, Moves, BarrierIInv, BarrierTypeOK, NobodyLeavesEarly, NameCleared, Setting, Arrived
<1> QED
  BY <1>5, <1>6 DEF BarrierIInv

LEMMA LeaveKeeps ==
  ASSUME BarrierIInv, NEW t \in Tasks, Pass(t) \/ Unlink(t) \/ Exit(t) \/ KillOne(t),
         BarrierTypeOK'
  PROVE  BarrierIInv'
<1>1. /\ launcher = "fork" /\ launcher' = "fork"
      /\ UNCHANGED <<objects, value, obj, lobj>>
  BY DEF Pass, Unlink, Exit, KillOne, Moves, BarrierIInv, BarrierTypeOK, Setting, NoTaskLeft, shm
<1>2. Arrived = Tasks
  <2>1. CASE Pass(t)
    <3>1. obj[t] = lobj
      BY <1>1, <2>1 DEF Pass, BarrierIInv, OneBarrier, Mapped
    <3> QED
      BY <1>1, <2>1, <3>1, ZeroMeansAll DEF Pass, BarrierIInv, OneBarrier
  <2>2. CASE Unlink(t) \/ Exit(t) \/ KillOne(t)
    BY <1>1, <2>2 DEF Unlink, Exit, KillOne, Moves, BarrierIInv, NobodyLeavesEarly
  <2> QED
    BY <2>1, <2>2
<1>3. Arrived' = Tasks
  BY <1>2 DEF Pass, Unlink, Exit, KillOne, Moves, Arrived, BarrierIInv, BarrierTypeOK
<1>4. name' \in {0, lobj}
  BY <1>1 DEF Pass, Unlink, Exit, KillOne, BarrierIInv, NameCleared, shm
<1>5. OneBarrier'
  BY <1>1, <1>2, <1>3
  DEF Pass, Unlink, Exit, KillOne, Moves, BarrierIInv, BarrierTypeOK, OneBarrier, Mapped, Arrived, N
<1>6. NameCleared'
  BY <1>1, <1>4
  DEF Pass, Unlink, Exit, KillOne, Moves, BarrierIInv, BarrierTypeOK, NameCleared, shm
<1> QED
  BY <1>1, <1>3, <1>5, <1>6 DEF BarrierIInv, NobodyLeavesEarly, Setting

LEMMA BarrierInvariant == BarrierSpec => []BarrierIInv
<1>1. BarrierInit => BarrierIInv
  BY DEF BarrierInit, BarrierIInv, BarrierTypeOK, Setting, NoTaskLeft, OneBarrier, NobodyLeavesEarly,
         NameCleared
<1>2. BarrierIInv /\ BarrierTypeOK' /\ [BarrierNext]_bvars => BarrierIInv'
  <2> SUFFICES ASSUME BarrierIInv, BarrierTypeOK', [BarrierNext]_bvars PROVE BarrierIInv'
    OBVIOUS
  <2>1. CASE AllReaped \/ KillGroup
    BY <2>1
    DEF AllReaped, KillGroup, BarrierIInv, Setting, NoTaskLeft, OneBarrier,
        NobodyLeavesEarly, NameCleared
  <2>2. CASE UNCHANGED bvars
    BY <2>2
    DEF bvars, shm, BarrierIInv, Setting, NoTaskLeft, OneBarrier, NobodyLeavesEarly,
        NameCleared, Arrived, Mapped, N
  <2> QED
    BY <2>1, <2>2, InitKeeps, OpenKeeps, ArriveKeeps, LeaveKeeps
    DEF BarrierNext, Launcher, Await
<1> QED
  BY <1>1, <1>2, BarrierTyping, PTL DEF BarrierSpec

-------------------------------------------------------------------------------
(***************************************************************************)
(* await_single_use_barrier returns to nobody before the last task of the  *)
(* task set has called it, also in a launch after one that was killed.     *)
(***************************************************************************)
THEOREM BarrierHolds == BarrierSpec => []NobodyLeavesEarly
BY BarrierInvariant, PTL DEF BarrierIInv

(***************************************************************************)
(* All tasks of a launch count down the object that their launcher set,    *)
(* and it counts those that have yet to arrive: it never wraps.            *)
(***************************************************************************)
THEOREM BarrierIsOne == BarrierSpec => []OneBarrier
BY BarrierInvariant, PTL DEF BarrierIInv

(***************************************************************************)
(* The race to destroy the barrier removes no name of a later launch.      *)
(***************************************************************************)
THEOREM UnlinkIsHarmless == BarrierSpec => NameBelongsToLaunch
<1>1. BarrierIInv /\ [BarrierNext]_bvars =>
        [\A t \in Tasks : Unlink(t) /\ name # 0 => name = obj[t]]_bvars
  <2> SUFFICES ASSUME BarrierIInv, NEW t \in Tasks, Unlink(t), name # 0
               PROVE  name = obj[t]
    OBVIOUS
  <2>1. launcher = "fork" /\ t \in Mapped
    BY DEF Unlink, Moves, BarrierIInv, BarrierTypeOK, Setting, NoTaskLeft, Mapped
  <2> QED
    BY <2>1 DEF BarrierIInv, NameCleared, OneBarrier
<1> QED
  BY <1>1, BarrierInvariant, PTL DEF BarrierSpec, NameBelongsToLaunch

(***************************************************************************)
(* A launch whose tasks were all reaped leaves no name behind, whichever   *)
(* of its tasks were killed on their way.                                  *)
(***************************************************************************)
THEOREM NoNameLeftBehind == BarrierSpec => NameIsGone
<1>1. BarrierIInv /\ [BarrierNext]_bvars => [AllReaped => name = 0]_bvars
  BY DEF BarrierIInv, NameCleared, AllReaped
<1> QED
  BY <1>1, BarrierInvariant, PTL DEF BarrierSpec, NameIsGone
===============================================================================
