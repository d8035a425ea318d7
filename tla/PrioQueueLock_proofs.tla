-------------------------- MODULE PrioQueueLock_proofs --------------------------
(***************************************************************************)
(* Proofs about PrioQueueLock for every number of tasks and of threads.    *)
(***************************************************************************)
EXTENDS PrioQueueLock, TLAPS

USE PrioTyping

States == {"idle", "list", "scan", "held", "free"}

LEMMA SlotsAreNumbers ==
  /\ Prios \subseteq Nat
  /\ \A p \in Procs, i \in Prios : i < Prio[p] => i + 1 \in Prios
  /\ \A p \in Procs : 0 \in Prios /\ 0 <= Prio[p] /\ Prio[p] \in Prios
<1>1. PICK n \in 1 .. 64 : Prios = 0 .. n - 1
  BY DEF PrioTyping
<1> QED
  BY <1>1

(***************************************************************************)
(* Every state of a behaviour has the types of TypeOK.                     *)
(***************************************************************************)
THEOREM Typing == Spec => []TypeOK
<1>1. Init => TypeOK
  BY SlotsAreNumbers DEF Init, TypeOK
<1>2. TypeOK /\ [Next]_vars => TypeOK'
  <2> SUFFICES ASSUME TypeOK, [Next]_vars PROVE TypeOK'
    OBVIOUS
  <2>1. ASSUME NEW p \in Procs, Join(p) PROVE TypeOK'
    <3>1. pc' \in [Procs -> States] /\ ahead' \in [Procs -> SUBSET Procs]
      BY <2>1 DEF Join, Goto, TypeOK, States, Requests
    <3>2. passed' \in [Prios -> [Prios -> 0 .. 2]]
      BY <2>1 DEF Join, TypeOK
    <3> QED
      BY <2>1, <3>1, <3>2 DEF Join, TypeOK, States
  <2>2. ASSUME NEW p \in Procs, BecomeHead(p) \/ ScanSlot(p) \/ Retry(p)
        PROVE  TypeOK'
    <3>1. pc' \in [Procs -> States]
      BY <2>2 DEF BecomeHead, ScanSlot, Retry, Goto, TypeOK, States
    <3>2. /\ slot' \in [Procs -> Prios]
          /\ \A q \in Procs : slot'[q] <= Prio[q]
      <4>1. PICK i \in Prios : slot' = [slot EXCEPT ![p] = i] /\ i <= Prio[p]
        BY <2>2, SlotsAreNumbers DEF BecomeHead, ScanSlot, Retry, StartScan, TypeOK
      <4> QED
        BY <4>1 DEF TypeOK
    <3>3. UNCHANGED <<owner, ahead, passed>>
      BY <2>2 DEF BecomeHead, ScanSlot, Retry
    <3> QED
      BY <3>1, <3>2, <3>3 DEF TypeOK, States
  <2>3. ASSUME NEW p \in Procs, TakeOwner(p) PROVE TypeOK'
    <3>1. pc' \in [Procs -> States]
      BY <2>3 DEF TakeOwner, Goto, TypeOK, States
    <3>2. passed' \in [Prios -> [Prios -> 0 .. 2]]
      <4> DEFINE Next1(t) ==
            IF t < Prio[p] /\ ~ Empty(t) /\ passed[t][Prio[p]] < 2
              THEN [passed[t] EXCEPT ![Prio[p]] = @ + 1]
              ELSE passed[t]
      <4>1. ASSUME NEW t \in Prios PROVE Next1(t) \in [Prios -> 0 .. 2]
        <5>1. passed[t] \in [Prios -> 0 .. 2] /\ Prio[p] \in Prios
          BY SlotsAreNumbers DEF TypeOK
        <5>2. CASE passed[t][Prio[p]] < 2
          BY <5>1, <5>2
        <5>3. CASE ~ (passed[t][Prio[p]] < 2)
          BY <5>1, <5>3
        <5> QED
          BY <5>2, <5>3
      <4>2. passed' = [t \in Prios |-> Next1(t)]
        BY <2>3 DEF TakeOwner
      <4> HIDE DEF Next1
      <4> QED
        BY <4>1, <4>2
    <3> QED
      BY <2>3, <3>1, <3>2 DEF TakeOwner, TypeOK, States
  <2>4. ASSUME NEW p \in Procs, LeaveList(p) \/ FreeOwner(p) PROVE TypeOK'
    <3>1. pc' \in [Procs -> States] /\ ahead' \in [Procs -> SUBSET Procs]
      BY <2>4 DEF LeaveList, FreeOwner, Goto, TypeOK, States
    <3> QED
      BY <2>4, <3>1 DEF LeaveList, FreeOwner, TypeOK, States
  <2>5. CASE UNCHANGED vars
    BY <2>5 DEF vars, TypeOK
  <2> QED
    BY <2>1, <2>2, <2>3, <2>4, <2>5 DEF Next, Lock, Unlock
<1> QED
  BY <1>1, <1>2, PTL DEF Spec

-------------------------------------------------------------------------------
(***************************************************************************)
(* One thread at a time holds the lock, and owner points to its node.      *)
(***************************************************************************)
THEOREM QueueMutualExclusion == Spec => []MutualExclusion
<1>1. Init => MutualExclusion
  BY DEF Init, MutualExclusion, Holders
<1>2. TypeOK /\ MutualExclusion /\ [Next]_vars => MutualExclusion'
  <2> SUFFICES ASSUME TypeOK, MutualExclusion, [Next]_vars PROVE MutualExclusion'
    OBVIOUS
  <2>1. ASSUME NEW p \in Procs, Join(p) \/ BecomeHead(p) \/ ScanSlot(p) \/ Retry(p)
                                \/ LeaveList(p)
        PROVE  MutualExclusion'
    <3>1. Holders' = Holders
      <4>1. \A q \in Procs : pc'[q] \in {"held", "free"} <=> pc[q] \in {"held", "free"}
        BY <2>1 DEF Join, BecomeHead, ScanSlot, Retry, LeaveList, Goto, TypeOK
      <4> QED
        BY <4>1 DEF Holders
    <3>2. owner' = owner
      BY <2>1 DEF Join, BecomeHead, ScanSlot, Retry, LeaveList
    <3> QED
      BY <3>1, <3>2 DEF MutualExclusion
  <2>2. ASSUME NEW p \in Procs, TakeOwner(p) PROVE MutualExclusion'
    <3>1. owner = NULL /\ owner' = p
      BY <2>2 DEF TakeOwner
    <3>2. Holders = {}
      BY <3>1 DEF MutualExclusion, Holders
    <3>3. \A q \in Procs : q \in Holders' <=> q = p
      BY <2>2, <3>2 DEF TakeOwner, Goto, TypeOK, Holders
    <3> QED
      BY <3>1, <3>3 DEF MutualExclusion, Holders
  <2>3. ASSUME NEW p \in Procs, FreeOwner(p) PROVE MutualExclusion'
    <3>1. p \in Holders /\ owner' = NULL
      BY <2>3 DEF FreeOwner, Goto, Holders
    <3>2. \A q \in Procs : q \notin Holders'
      BY <2>3, <3>1 DEF FreeOwner, Goto, TypeOK, Holders, MutualExclusion
    <3> QED
      BY <3>1, <3>2 DEF MutualExclusion, Holders
  <2>4. CASE UNCHANGED vars
    BY <2>4 DEF vars, MutualExclusion, Holders
  <2> QED
    BY <2>1, <2>2, <2>3, <2>4 DEF Next, Lock, Unlock
<1> QED
  BY <1>1, <1>2, Typing, PTL DEF Spec

-------------------------------------------------------------------------------
(***************************************************************************)
(* Of two requests in one list one is ahead of the other, and nobody is    *)
(* ahead of a thread that competes for owner.                              *)
(***************************************************************************)
Queued(p) == pc[p] \in {"list", "scan", "held"}

ListInv ==
  /\ \A p \in Procs : pc[p] \in {"scan", "held"} => ahead[p] = {}
  /\ \A p, q \in Procs : Queued(p) /\ Queued(q) /\ p # q /\ Prio[p] = Prio[q]
                           => p \in ahead[q] \/ q \in ahead[p]

LEMMA ListCorrect == Spec => []ListInv
<1>1. Init => ListInv
  BY DEF Init, ListInv, Queued
<1>2. TypeOK /\ ListInv /\ [Next]_vars => ListInv'
  <2> SUFFICES ASSUME TypeOK, ListInv, [Next]_vars PROVE ListInv'
    OBVIOUS
  <2>1. ASSUME NEW p \in Procs, Join(p) PROVE ListInv'
    <3>1. /\ pc'[p] = "list" /\ ahead'[p] = Requests(Prio[p])
          /\ \A q \in Procs : q # p => ahead'[q] = ahead[q] /\ pc'[q] = pc[q]
      BY <2>1 DEF Join, Goto, TypeOK
    <3>2. \A q \in Procs : Queued(q) => q \in Requests(Prio[q])
      BY DEF Queued, Requests
    <3> QED
      BY <3>1, <3>2 DEF ListInv, Queued
  <2>2. ASSUME NEW p \in Procs, Lock(p) PROVE ListInv'
    <3>1. /\ ahead' = ahead
          /\ \A q \in Procs : Queued(q)' <=> Queued(q)
          /\ \A q \in Procs : pc'[q] \in {"scan", "held"}
                                => pc[q] \in {"scan", "held"} \/ ahead[q] = {}
      BY <2>2 DEF Lock, BecomeHead, ScanSlot, TakeOwner, Retry, Goto, Attempt, TypeOK,
                  Queued
    <3> QED
      BY <3>1 DEF ListInv
  <2>3. ASSUME NEW p \in Procs, LeaveList(p) PROVE ListInv'
    <3>1. /\ pc[p] = "held" /\ pc'[p] = "free"
          /\ \A q \in Procs : ahead'[q] = ahead[q] \ {p}
          /\ \A q \in Procs : q # p => pc'[q] = pc[q]
      BY <2>3 DEF LeaveList, Goto, TypeOK
    <3> QED
      BY <3>1 DEF ListInv, Queued
  <2>4. ASSUME NEW p \in Procs, FreeOwner(p) PROVE ListInv'
    <3>1. /\ ahead' = ahead
          /\ \A q \in Procs : Queued(q)' <=> Queued(q)
          /\ \A q \in Procs : pc'[q] \in {"scan", "held"} => pc[q] \in {"scan", "held"}
      BY <2>4 DEF FreeOwner, Goto, TypeOK, Queued
    <3> QED
      BY <3>1 DEF ListInv
  <2>5. CASE UNCHANGED vars
    BY <2>5 DEF vars, ListInv, Queued
  <2> QED
    BY <2>1, <2>2, <2>3, <2>4, <2>5 DEF Next, Unlock
<1> QED
  BY <1>1, <1>2, Typing, PTL DEF Spec

(***************************************************************************)
(* Of every list only the head competes for owner, until it has taken the  *)
(* lock and left the list.                                                 *)
(***************************************************************************)
THEOREM OneHead == Spec => []OneHeadPerList
<1>1. ListInv => OneHeadPerList
  BY DEF ListInv, OneHeadPerList, Queued
<1> QED
  BY <1>1, ListCorrect, PTL

-------------------------------------------------------------------------------
(***************************************************************************)
(* A lower task that got the lock while the slot of a task was not empty   *)
(* has no head that is past that slot: it cannot get by it any more.       *)
(***************************************************************************)
OvertakeInv ==
  \A t, u \in Prios :
    ~ Empty(t) /\ passed[t][u] # 0
      => /\ passed[t][u] = 1
         /\ \A q \in Procs : Prio[q] = u /\ pc[q] = "scan" => slot[q] <= t

LEMMA OvertakeStep ==
  ASSUME TypeOK, OneHeadPerList, OvertakeInv, [Next]_vars
  PROVE  OvertakeInv'
<1> SUFFICES ASSUME NEW t \in Prios, NEW u \in Prios, ~ Empty(t)', passed'[t][u] # 0
             PROVE  /\ passed'[t][u] = 1
                    /\ \A q \in Procs : Prio[q] = u /\ pc'[q] = "scan" => slot'[q] <= t
  BY DEF OvertakeInv
<1> DEFINE Goal ==
      /\ passed'[t][u] = 1
      /\ \A q \in Procs : Prio[q] = u /\ pc'[q] = "scan" => slot'[q] <= t
<1>0. ASSUME ~ Empty(t), passed'[t][u] = passed[t][u],
             \A q \in Procs : pc'[q] = "scan" /\ (pc[q] = "scan" => slot[q] <= t)
                                => slot'[q] <= t
      PROVE  Goal
  BY <1>0 DEF OvertakeInv
<1>1. ASSUME NEW p \in Procs, Join(p) PROVE Goal
  <2>1. passed'[t] = passed[t] /\ ~ Empty(t)
    <3>1. CASE t = Prio[p]
      BY <1>1, <3>1 DEF Join, TypeOK
    <3>2. CASE t # Prio[p]
      <4>1. Requests(t)' = Requests(t)
        BY <1>1, <3>2 DEF Join, Goto, TypeOK, Requests
      <4> QED
        BY <1>1, <3>2, <4>1 DEF Join, TypeOK, Empty
    <3> QED
      BY <3>1, <3>2
  <2>2. \A q \in Procs : pc'[q] = "scan" => pc[q] = "scan" /\ slot'[q] = slot[q]
    BY <1>1 DEF Join, Goto, TypeOK
  <2> QED
    BY <1>0, <2>1, <2>2
<1>2. ASSUME NEW p \in Procs, BecomeHead(p) \/ ScanSlot(p) \/ Retry(p) PROVE Goal
  <2>1. Requests(t)' = Requests(t)
    <3>1. \A q \in Procs : pc'[q] \in {"idle", "free"} <=> pc[q] \in {"idle", "free"}
      BY <1>2 DEF BecomeHead, ScanSlot, Retry, Goto, TypeOK
    <3> QED
      BY <3>1 DEF Requests
  <2>2. passed' = passed
    BY <1>2 DEF BecomeHead, ScanSlot, Retry
  <2>3. \A q \in Procs : q # p => pc'[q] = pc[q] /\ slot'[q] = slot[q]
    BY <1>2 DEF BecomeHead, ScanSlot, Retry, Goto, StartScan, TypeOK
  <2>4. slot'[p] <= t \/ (pc[p] = "scan" /\ slot[p] > t)
    <3>1. ~ Empty(t)
      BY <2>1 DEF Empty
    <3>2. slot'[p] = 0 \/ (/\ pc[p] = "scan" /\ ~ (slot[p] = t)
                           /\ slot'[p] = slot[p] + 1)
      BY <1>2, <3>1 DEF BecomeHead, ScanSlot, Retry, StartScan, TypeOK
    <3> QED
      BY <3>2, SlotsAreNumbers DEF TypeOK
  <2>5. ~ Empty(t)
    BY <2>1 DEF Empty
  <2>6. slot[p] \in Nat /\ t \in Nat
    BY SlotsAreNumbers DEF TypeOK
  <2> QED
    BY <1>0, <2>2, <2>3, <2>4, <2>5, <2>6
<1>3. ASSUME NEW p \in Procs, TakeOwner(p) PROVE Goal
  <2>1. /\ pc[p] = "scan" /\ slot[p] = Prio[p] /\ pc'[p] = "held" /\ slot' = slot
        /\ \A q \in Procs : q # p => pc'[q] = pc[q]
    BY <1>3 DEF TakeOwner, Attempt, Goto, TypeOK
  <2>2. ~ Empty(t)
    <3>1. \A q \in Procs : pc'[q] \in {"idle", "free"} <=> pc[q] \in {"idle", "free"}
      BY <2>1
    <3> QED
      BY <3>1 DEF Empty, Requests
  <2>3. CASE passed'[t] = passed[t]
    BY <1>0, <2>1, <2>2, <2>3
  <2>4. CASE passed'[t] # passed[t]
    <3>1. /\ t < Prio[p]
          /\ passed'[t] = [passed[t] EXCEPT ![Prio[p]] = passed[t][Prio[p]] + 1]
      BY <1>3, <2>4 DEF TakeOwner
    <3>2. passed[t] \in [Prios -> 0 .. 2] /\ Prio[p] \in Nat /\ t \in Nat
      BY SlotsAreNumbers DEF TypeOK
    <3>3. CASE u = Prio[p]
      <4>1. passed[t][u] = 0
        <5>1. ~ (slot[p] <= t)
          BY <2>1, <3>1, <3>2
        <5> QED
          BY <2>1, <2>2, <3>3, <5>1 DEF OvertakeInv
      <4>2. passed'[t][u] = 1
        BY <3>1, <3>2, <3>3, <4>1
      <4>3. ASSUME NEW q \in Procs, Prio[q] = u PROVE pc'[q] # "scan"
        BY <2>1, <3>3, <4>3 DEF OneHeadPerList
      <4> QED
        BY <4>2, <4>3
    <3>4. CASE u # Prio[p]
      <4>1. passed'[t][u] = passed[t][u]
        BY <3>1, <3>2, <3>4
      <4> QED
        BY <1>0, <2>1, <2>2, <4>1
    <3> QED
      BY <3>3, <3>4
  <2> QED
    BY <2>3, <2>4
<1>4. ASSUME NEW p \in Procs, LeaveList(p) \/ FreeOwner(p) PROVE Goal
  <2>1. \A q \in Procs : /\ pc[q] \in {"idle", "free"} => pc'[q] \in {"idle", "free"}
                         /\ pc'[q] = "scan" => pc[q] = "scan"
    BY <1>4 DEF LeaveList, FreeOwner, Goto, TypeOK
  <2>2. passed' = passed /\ slot' = slot
    BY <1>4 DEF LeaveList, FreeOwner
  <2>3. ~ Empty(t)
    BY <2>1 DEF Empty, Requests
  <2> QED
    BY <1>0, <2>1, <2>2, <2>3
<1>5. CASE UNCHANGED vars
  <2>1. ~ Empty(t)
    BY <1>5 DEF vars, Empty, Requests
  <2> QED
    BY <1>0, <1>5, <2>1 DEF vars
<1> QED
  BY <1>1, <1>2, <1>3, <1>4, <1>5 DEF Next, Lock, Unlock

(***************************************************************************)
(* While the slot of a task is not empty each lower task gets the lock at  *)
(* most once, for every number of tasks and of threads.                    *)
(***************************************************************************)
THEOREM QueueOvertakenOncePerTask == Spec => []OvertakenOncePerTask
<1>1. Init => OvertakeInv
  BY DEF Init, OvertakeInv
<1>2. TypeOK /\ OvertakeInv => OvertakenOncePerTask
  BY DEF TypeOK, OvertakeInv, OvertakenOncePerTask
<1>3. Spec => []OvertakeInv
  BY <1>1, OvertakeStep, Typing, OneHead, PTL DEF Spec
<1> QED
  BY <1>2, <1>3, Typing, PTL

-------------------------------------------------------------------------------
(***************************************************************************)
(* The requests ahead of a thread are those of its own task.               *)
(***************************************************************************)
OwnListAhead == \A p, q \in Procs : q \in ahead[p] => Prio[q] = Prio[p]

LEMMA OwnListCorrect == Spec => []OwnListAhead
<1>1. Init => OwnListAhead
  BY DEF Init, OwnListAhead
<1>2. TypeOK /\ OwnListAhead /\ [Next]_vars => OwnListAhead'
  <2> SUFFICES ASSUME TypeOK, OwnListAhead, [Next]_vars PROVE OwnListAhead'
    OBVIOUS
  <2>1. ASSUME NEW p \in Procs, Join(p) PROVE OwnListAhead'
    BY <2>1 DEF Join, OwnListAhead, Requests, TypeOK
  <2>2. ASSUME NEW p \in Procs, LeaveList(p) PROVE OwnListAhead'
    BY <2>2 DEF LeaveList, OwnListAhead, TypeOK
  <2>3. ASSUME NEW p \in Procs, Lock(p) \/ FreeOwner(p) PROVE OwnListAhead'
    BY <2>3 DEF Lock, BecomeHead, ScanSlot, TakeOwner, Retry, FreeOwner, OwnListAhead
  <2>4. CASE UNCHANGED vars
    BY <2>4 DEF vars, OwnListAhead
  <2> QED
    BY <2>1, <2>2, <2>3, <2>4 DEF Next, Unlock
<1> QED
  BY <1>1, <1>2, Typing, PTL DEF Spec

(***************************************************************************)
(* A step of a thread is, for the list of its task, a step of the FIFO     *)
(* lock or none, and none for the list of any other task.                  *)
(***************************************************************************)
Waiting(t) == {p \in Procs : Prio[p] = t}
Heads(t) == {p \in Requests(t) : pc[p] # "list"}
AheadIn(t) == [p \in Waiting(t) |-> ahead[p]]

LEMMA ListStep ==
  ASSUME TypeOK, ListInv, OwnListAhead, NEW t \in Prios, [Next]_vars
  PROVE  \/ \E p \in Waiting(t) :
               \/ /\ p \notin Requests(t)
                  /\ Requests(t)' = Requests(t) \cup {p}
                  /\ AheadIn(t)' = [AheadIn(t) EXCEPT ![p] = Requests(t)]
                  /\ Heads(t)' = Heads(t)
               \/ /\ p \in Requests(t) /\ Heads(t) = {} /\ AheadIn(t)[p] = {}
                  /\ Heads(t)' = {p}
                  /\ Requests(t)' = Requests(t) /\ AheadIn(t)' = AheadIn(t)
               \/ /\ p \in Heads(t)
                  /\ Requests(t)' = Requests(t) \ {p}
                  /\ Heads(t)' = Heads(t) \ {p}
                  /\ AheadIn(t)' = [q \in Waiting(t) |-> AheadIn(t)[q] \ {p}]
         \/ /\ Requests(t)' = Requests(t) /\ Heads(t)' = Heads(t)
            /\ AheadIn(t)' = AheadIn(t)
<1> USE DEF Waiting, Heads, AheadIn, Requests
<1>1. ASSUME NEW p \in Procs, Join(p), Prio[p] = t
      PROVE  /\ p \notin Requests(t)
             /\ Requests(t)' = Requests(t) \cup {p}
             /\ AheadIn(t)' = [AheadIn(t) EXCEPT ![p] = Requests(t)]
             /\ Heads(t)' = Heads(t)
  BY <1>1 DEF Join, Goto, TypeOK
<1>2. ASSUME NEW p \in Procs, BecomeHead(p), Prio[p] = t
      PROVE  /\ p \in Requests(t) /\ Heads(t) = {} /\ AheadIn(t)[p] = {}
             /\ Heads(t)' = {p}
             /\ Requests(t)' = Requests(t) /\ AheadIn(t)' = AheadIn(t)
  <2>1. p \in Requests(t) /\ AheadIn(t)[p] = {} /\ ahead' = ahead
    BY <1>2 DEF BecomeHead, Goto, TypeOK
  <2>2. \A q \in Procs : pc'[q] = IF q = p THEN "scan" ELSE pc[q]
    BY <1>2 DEF BecomeHead, Goto, TypeOK
  <2>3. pc[p] = "list" /\ ahead[p] = {}
    BY <1>2 DEF BecomeHead, Goto
  <2>4. \A q \in Heads(t) : FALSE
    BY <2>3, <1>2 DEF ListInv, Queued, TypeOK
  <2> QED
    BY <2>1, <2>2, <2>3, <2>4
<1>3. ASSUME NEW p \in Procs, LeaveList(p), Prio[p] = t
      PROVE  /\ p \in Heads(t)
             /\ Requests(t)' = Requests(t) \ {p}
             /\ Heads(t)' = Heads(t) \ {p}
             /\ AheadIn(t)' = [q \in Waiting(t) |-> AheadIn(t)[q] \ {p}]
  BY <1>3 DEF LeaveList, Goto, TypeOK
<1>4. ASSUME NEW p \in Procs, ScanSlot(p) \/ TakeOwner(p) \/ Retry(p) \/ FreeOwner(p)
      PROVE  /\ Requests(t)' = Requests(t) /\ Heads(t)' = Heads(t)
             /\ AheadIn(t)' = AheadIn(t)
  BY <1>4 DEF ScanSlot, TakeOwner, Retry, FreeOwner, Attempt, Goto, TypeOK
<1>5. ASSUME NEW p \in Procs, Join(p) \/ BecomeHead(p) \/ LeaveList(p), Prio[p] # t
      PROVE  /\ Requests(t)' = Requests(t) /\ Heads(t)' = Heads(t)
             /\ AheadIn(t)' = AheadIn(t)
  <2>1. /\ Requests(t)' = Requests(t) /\ Heads(t)' = Heads(t)
    BY <1>5 DEF Join, BecomeHead, LeaveList, Goto, TypeOK
  <2>2. ASSUME NEW q \in Procs, Prio[q] = t PROVE ahead'[q] = ahead[q]
    <3>1. p \notin ahead[q]
      BY <1>5, <2>2 DEF OwnListAhead
    <3>2. q # p /\ (ahead'[q] = ahead[q] \/ ahead'[q] = ahead[q] \ {p})
      BY <1>5, <2>2 DEF Join, BecomeHead, LeaveList, TypeOK
    <3> QED
      BY <3>1, <3>2
  <2> QED
    BY <2>1, <2>2
<1>6. CASE UNCHANGED vars
  BY <1>6 DEF vars
<1> QED
  BY <1>1, <1>2, <1>3, <1>4, <1>5, <1>6 DEF Next, Lock, Unlock

(***************************************************************************)
(* The requests of one task get through its list in the order in which     *)
(* they joined it: every list is used as a FIFO lock, for every number of  *)
(* tasks and of threads.                                                   *)
(***************************************************************************)
THEOREM QueueListsAreFifo == Spec => ListsAreFifo
<1>1. Init => \A t \in Prios : List(t)!Init
  BY DEF Init, List!Init, Requests
<1>2. TypeOK /\ ListInv /\ OwnListAhead /\ [Next]_vars
        => [\A t \in Prios : List(t)!Next \/ UNCHANGED List(t)!vars]_vars
  <2> SUFFICES ASSUME TypeOK, ListInv, OwnListAhead, [Next]_vars, NEW t \in Prios
               PROVE  List(t)!Next \/ UNCHANGED List(t)!vars
    OBVIOUS
  <2> QED
    BY ListStep
    DEF List!Next, List!Request, List!Grant, List!Release, List!vars, Waiting, Heads, AheadIn
<1> QED
  BY <1>1, <1>2, Typing, ListCorrect, OwnListCorrect, PTL DEF Spec, ListsAreFifo
===============================================================================
