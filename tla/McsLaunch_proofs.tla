--------------------------- MODULE McsLaunch_proofs ---------------------------
(***************************************************************************)
(* Proofs about the list lock, for every set of threads, and about the     *)
(* launch of the tasks that use it, for every number of tasks, of jobs and *)
(* of launches.                                                            *)
(***************************************************************************)
EXTENDS McsLock, Launch, TLAPS

-------------------------------------------------------------------------------
(* The lock. *)

USE NullIsNoNode DEF Node

LEMMA Typing == Spec => []TypeOK
<1>1. Init => TypeOK
  BY DEF Init, TypeOK
<1>2. TypeOK /\ [Next]_vars => TypeOK'
  <2> SUFFICES ASSUME TypeOK, [Next]_vars PROVE TypeOK'
    OBVIOUS
  <2> USE DEF TypeOK, Goto
  <2>1. ASSUME NEW p \in Procs, Reset(p) PROVE TypeOK'
    BY <2>1 DEF Reset
  <2>2. ASSUME NEW p \in Procs, Swap(p) PROVE TypeOK'
    <3>1. Requests \in SUBSET Procs
      BY DEF Requests
    <3>2. ahead' \in [Procs -> SUBSET Procs]
      BY <2>2, <3>1 DEF Swap
    <3> QED
      BY <2>2, <3>2 DEF Swap
  <2>3. ASSUME NEW p \in Procs, Link(p) PROVE TypeOK'
    BY <2>3 DEF Link
  <2>4. ASSUME NEW p \in Procs, SpinEnds(p) PROVE TypeOK'
    BY <2>4 DEF SpinEnds, lockVars
  <2>5. ASSUME NEW p \in Procs, UnlockLook(p) PROVE TypeOK'
    BY <2>5 DEF UnlockLook, lockVars
  <2>6. ASSUME NEW p \in Procs, UnlockCas(p) PROVE TypeOK'
    BY <2>6 DEF UnlockCas, lockVars, Left
  <2>7. ASSUME NEW p \in Procs, AwaitSuccessor(p) PROVE TypeOK'
    BY <2>7 DEF AwaitSuccessor, lockVars
  <2>8. ASSUME NEW p \in Procs, Pass(p) PROVE TypeOK'
    BY <2>8 DEF Pass, Left
  <2>9. CASE UNCHANGED vars
    BY <2>9 DEF vars
  <2> QED
    BY <2>1, <2>2, <2>3, <2>4, <2>5, <2>6, <2>7, <2>8, <2>9
    DEF Next, Lock, Unlock
<1> QED
  BY <1>1, <1>2, PTL DEF Spec

-------------------------------------------------------------------------------
IInv == TypeOK /\ ListInv /\ LinkInv

(***************************************************************************)
(* Steps that change neither who is in the list, who waits in it, nor its  *)
(* order keep ListInv.                                                     *)
(***************************************************************************)
LEMMA SameList ==
  ASSUME ListInv, Requests' = Requests, Waiting' = Waiting,
         m' = m, tail' = tail, ahead' = ahead
  PROVE  ListInv'
  BY DEF ListInv

LEMMA InitInv == Init => ListInv /\ LinkInv
<1> SUFFICES ASSUME Init PROVE ListInv /\ LinkInv
  OBVIOUS
<1>1. Requests = {} /\ Waiting = {} /\ \A p \in Procs : pc[p] = "idle"
  BY DEF Init, Requests, Waiting
<1> QED
  BY <1>1 DEF Init, ListInv, LinkInv

LEMMA ResetInv == ASSUME IInv, NEW p \in Procs, Reset(p) PROVE ListInv' /\ LinkInv'
<1>1. /\ Requests' = Requests /\ Waiting' = Waiting /\ p \notin Requests
      /\ Waiting \subseteq Requests /\ Requests \subseteq Procs
  BY DEF IInv, TypeOK, Reset, Goto, Requests, Waiting
<1>2. ListInv'
  BY <1>1, SameList DEF IInv, Reset
<1>3. LinkInv'
  <2>1. \A q \in Requests : next'[q] = next[q] /\ pc'[q] = pc[q]
    BY <1>1 DEF IInv, TypeOK, Reset, Goto
  <2>2. \A q \in Waiting : tail[q] \in Requests
    BY DEF IInv, ListInv
  <2>3. \A q \in Procs : q # p => next'[q] = next[q] /\ spin'[q] = spin[q] /\ pc'[q] = pc[q]
    BY DEF IInv, TypeOK, Reset, Goto
  <2>4. next'[p] = NULL /\ ~ spin'[p] /\ pc'[p] = "swap"
    BY DEF IInv, TypeOK, Reset, Goto
  <2>5. \A q \in Requests' :
          next'[q] # NULL => /\ next'[q] \in Waiting' /\ pc'[next'[q]] = "spin"
                             /\ tail'[next'[q]] = q
    BY <1>1, <2>1 DEF IInv, LinkInv, Reset
  <2>6. \A q \in Waiting' : pc'[q] = "spin" => next'[tail'[q]] = q
    BY <1>1, <2>1, <2>2 DEF IInv, LinkInv, Reset
  <2> QED
    BY <2>3, <2>4, <2>5, <2>6 DEF IInv, LinkInv
<1> QED
  BY <1>2, <1>3

LEMMA SwapInv == ASSUME IInv, NEW p \in Procs, Swap(p) PROVE ListInv' /\ LinkInv'
<1> USE DEF IInv
<1>1. /\ p \notin Requests /\ Requests' = Requests \cup {p}
      /\ Waiting \subseteq Requests /\ Requests \subseteq Procs
      /\ m' = p /\ m' # NULL /\ next' = next /\ spin' = spin
      /\ next[p] = NULL /\ ~ spin[p]
  BY DEF TypeOK, Swap, Goto, Requests, Waiting, LinkInv
<1>2. /\ tail'[p] = m /\ \A q \in Procs : q # p => tail'[q] = tail[q]
      /\ ahead'[p] = Requests /\ \A q \in Procs : q # p => ahead'[q] = ahead[q]
      /\ pc'[p] \in {"held", "link"} /\ (pc'[p] = "link" <=> m # NULL)
      /\ \A q \in Procs : q # p => pc'[q] = pc[q]
  BY DEF TypeOK, Swap, Goto
<1>3. Waiting' = IF m = NULL THEN Waiting ELSE Waiting \cup {p}
  BY <1>1, <1>2 DEF Waiting
<1>4. \A q \in Waiting : tail[q] # m
  BY <1>1 DEF ListInv
<1>5. ListInv'
  <2>1. ahead'[m'] \cup {m'} = Requests' /\ m' \in Requests'
    BY <1>1, <1>2
  <2>2. \A q \in Requests' : ahead'[q] \subseteq Requests' \ {q}
    BY <1>1, <1>2 DEF ListInv
  <2>3. \A q, r \in Requests' : q = r \/ q \in ahead'[r] \/ r \in ahead'[q]
    BY <1>1, <1>2 DEF ListInv
  <2>4. \A q \in Procs : ahead'[q] = {} <=> q \notin Waiting'
    BY <1>1, <1>2, <1>3 DEF ListInv
  <2>5. \A q \in Waiting' : /\ tail'[q] \in Requests'
                            /\ ahead'[q] = ahead'[tail'[q]] \cup {tail'[q]}
    <3> SUFFICES ASSUME NEW q \in Waiting'
                 PROVE  /\ tail'[q] \in Requests'
                        /\ ahead'[q] = ahead'[tail'[q]] \cup {tail'[q]}
      OBVIOUS
    <3>1. CASE q = p
      BY <3>1, <1>1, <1>2, <1>3 DEF ListInv
    <3>2. CASE q # p
      BY <3>2, <1>1, <1>2, <1>3 DEF ListInv
    <3> QED
      BY <3>1, <3>2
  <2>6. \A q, r \in Waiting' : tail'[q] = tail'[r] => q = r
    BY <1>1, <1>2, <1>3, <1>4 DEF ListInv
  <2> QED
    BY <1>1, <2>1, <2>2, <2>3, <2>4, <2>5, <2>6 DEF ListInv
<1>6. LinkInv'
  <2>1. \A q \in Requests' :
          next'[q] # NULL => /\ next'[q] \in Waiting' /\ pc'[next'[q]] = "spin"
                             /\ tail'[next'[q]] = q
    BY <1>1, <1>2, <1>3 DEF LinkInv
  <2>2. \A q \in Waiting' : pc'[q] = "spin" => next'[tail'[q]] = q
    BY <1>1, <1>2, <1>3 DEF LinkInv
  <2>3. \A q \in Procs : /\ pc'[q] = "swap" => next'[q] = NULL /\ ~ spin'[q]
                         /\ pc'[q] = "pass" => next'[q] # NULL
                         /\ pc'[q] = "link" => ~ spin'[q]
    BY <1>1, <1>2 DEF LinkInv
  <2> QED
    BY <2>1, <2>2, <2>3 DEF LinkInv
<1> QED
  BY <1>5, <1>6

LEMMA LinkStepInv == ASSUME IInv, NEW p \in Procs, Link(p) PROVE ListInv' /\ LinkInv'
<1> USE DEF IInv
<1>1. /\ Requests' = Requests /\ Waiting' = Waiting /\ p \in Waiting
      /\ Waiting \subseteq Requests /\ Requests \subseteq Procs
      /\ pc[p] = "link" /\ pc'[p] = "spin" /\ \A q \in Procs : q # p => pc'[q] = pc[q]
      /\ spin' = spin /\ tail' = tail
  BY DEF TypeOK, Link, Goto, Requests, Waiting, LinkInv
<1>2. ListInv'
  BY <1>1, SameList DEF Link
<1>3. /\ tail[p] \in Requests /\ next'[tail[p]] = p
      /\ \A q \in Procs : q # tail[p] => next'[q] = next[q]
  BY <1>1 DEF ListInv, TypeOK, Link
<1>4. \A q \in Requests' :
        next'[q] # NULL => /\ next'[q] \in Waiting' /\ pc'[next'[q]] = "spin"
                           /\ tail'[next'[q]] = q
  <2> SUFFICES ASSUME NEW q \in Requests, next'[q] # NULL
               PROVE  /\ next'[q] \in Waiting /\ pc'[next'[q]] = "spin"
                      /\ tail[next'[q]] = q
    BY <1>1
  <2>1. CASE q = tail[p]
    BY <2>1, <1>1, <1>3
  <2>2. CASE q # tail[p]
    BY <2>2, <1>1, <1>3 DEF LinkInv
  <2> QED
    BY <2>1, <2>2
<1>5. \A q \in Waiting' : pc'[q] = "spin" => next'[tail'[q]] = q
  <2> SUFFICES ASSUME NEW q \in Waiting, pc'[q] = "spin" PROVE next'[tail[q]] = q
    BY <1>1
  <2>1. CASE q = p
    BY <2>1, <1>3
  <2>2. CASE q # p
    <3>1. pc[q] = "spin" /\ tail[q] # tail[p] /\ tail[q] \in Procs
      BY <2>2, <1>1 DEF ListInv
    <3> QED
      BY <3>1, <1>3 DEF LinkInv
  <2> QED
    BY <2>1, <2>2
<1>6. \A q \in Procs : /\ pc'[q] = "swap" => next'[q] = NULL /\ ~ spin'[q]
                       /\ pc'[q] = "pass" => next'[q] # NULL
                       /\ pc'[q] = "link" => ~ spin'[q]
  <2>1. pc[tail[p]] # "swap"
    BY <1>3 DEF Requests
  <2>2. p # NULL
    OBVIOUS
  <2> QED
    BY <2>1, <2>2, <1>1, <1>3 DEF LinkInv
<1>7. LinkInv'
  BY <1>4, <1>5, <1>6 DEF LinkInv
<1> QED
  BY <1>2, <1>7

(***************************************************************************)
(* Steps of a thread that keeps its place in the list and writes nothing.  *)
(***************************************************************************)
LEMMA LocalInv ==
  ASSUME IInv, NEW p \in Procs,
         SpinEnds(p) \/ UnlockLook(p) \/ AwaitSuccessor(p)
           \/ (UnlockCas(p) /\ m # p)
  PROVE  ListInv' /\ LinkInv'
<1> USE DEF IInv
<1>1. /\ Requests' = Requests /\ Waiting' = Waiting
      /\ UNCHANGED <<m, next, spin, tail, ahead>>
      /\ \A q \in Procs : q # p => pc'[q] = pc[q]
      /\ pc'[p] \in {"held", "cas", "await", "pass"}
      /\ pc'[p] = "pass" => next[p] # NULL
      /\ p \notin Waiting
  BY DEF TypeOK, SpinEnds, UnlockLook, AwaitSuccessor, UnlockCas, Goto,
         Requests, Waiting, lockVars
<1>2. ListInv'
  BY <1>1, SameList
<1>3. LinkInv'
  <2>1. \A q \in Waiting : q # p /\ q \in Procs
    BY <1>1 DEF Waiting
  <2> QED
    BY <1>1, <2>1 DEF LinkInv
<1> QED
  BY <1>2, <1>3

LEMMA EmptyInv ==
  ASSUME IInv, NEW p \in Procs, UnlockCas(p), m = p
  PROVE  ListInv' /\ LinkInv'
<1> USE DEF IInv
<1>1. /\ Requests = {p} /\ p \notin Waiting
      /\ ahead[p] = {} /\ m' = NULL
  BY DEF UnlockCas, Goto, ListInv, Requests, Waiting
<1>2. /\ Requests' = {} /\ Waiting' = {} /\ next' = next /\ spin' = spin
      /\ pc'[p] = "idle" /\ \A q \in Procs : q # p => pc'[q] = pc[q]
  BY <1>1 DEF TypeOK, UnlockCas, Goto, Requests, Waiting
<1>3. \A q \in Procs : ahead'[q] = {}
  <2>1. Waiting = {}
    BY <1>1 DEF Waiting, Requests
  <2> QED
    BY <1>1, <2>1 DEF UnlockCas, Left, ListInv
<1>4. ListInv'
  BY <1>1, <1>2, <1>3 DEF ListInv
<1>5. LinkInv'
  BY <1>1, <1>2 DEF LinkInv
<1> QED
  BY <1>4, <1>5

LEMMA PassInv == ASSUME IInv, NEW p \in Procs, Pass(p) PROVE ListInv' /\ LinkInv'
<1> USE DEF IInv
<1> DEFINE s == next[p]
<1>1. /\ p \in Requests /\ p \notin Waiting
      /\ Waiting \subseteq Requests /\ Requests \subseteq Procs
  BY DEF Pass, Goto, Requests, Waiting
<1>2. s \in Waiting /\ pc[s] = "spin" /\ tail[s] = p /\ s # p
  BY <1>1 DEF Pass, Goto, LinkInv
<1>3. /\ m' = m /\ next' = next /\ tail' = tail
      /\ spin'[s] = TRUE /\ \A q \in Procs : q # s => spin'[q] = spin[q]
      /\ pc'[p] = "idle" /\ \A q \in Procs : q # p => pc'[q] = pc[q]
      /\ \A q \in Procs : ahead'[q] = ahead[q] \ {p}
  BY <1>1, <1>2 DEF TypeOK, Pass, Goto, Left
<1>4. Requests' = Requests \ {p}
  BY <1>1, <1>3 DEF Requests
<1>5. Waiting' = Waiting \ {s}
  BY <1>1, <1>2, <1>3 DEF Waiting
<1>6. \A q \in Waiting' : q \in Waiting /\ tail[q] # p /\ tail[q] \in ahead[q]
  BY <1>2, <1>5 DEF ListInv
<1>7. ahead[p] = {} /\ ahead[s] = {p}
  BY <1>1, <1>2 DEF ListInv
<1>8. m # NULL /\ m # p
  <2>1. m # NULL
    BY <1>1 DEF ListInv
  <2>2. ahead[m] \cup {m} = Requests
    BY <2>1 DEF ListInv
  <2> QED
    BY <2>1, <2>2, <1>1, <1>2, <1>7
<1>9. ListInv'
  <2>1. m' # NULL /\ m' \in Requests' /\ Requests' = ahead'[m'] \cup {m'}
    BY <1>1, <1>3, <1>4, <1>8 DEF ListInv
  <2>2. \A q \in Requests' : ahead'[q] \subseteq Requests' \ {q}
    BY <1>1, <1>3, <1>4 DEF ListInv
  <2>3. \A q, r \in Requests' : q = r \/ q \in ahead'[r] \/ r \in ahead'[q]
    BY <1>1, <1>3, <1>4 DEF ListInv
  <2>4. \A q \in Procs : ahead'[q] = {} <=> q \notin Waiting'
    <3> SUFFICES ASSUME NEW q \in Procs PROVE ahead'[q] = {} <=> q \notin Waiting'
      OBVIOUS
    <3>1. CASE q = s
      BY <3>1, <1>3, <1>5, <1>7
    <3>2. CASE q \in Waiting /\ q # s
      BY <3>2, <1>3, <1>5, <1>6
    <3>3. CASE q \notin Waiting
      BY <3>3, <1>3, <1>5 DEF ListInv
    <3> QED
      BY <3>1, <3>2, <3>3
  <2>5. \A q \in Waiting' : /\ tail'[q] \in Requests'
                            /\ ahead'[q] = ahead'[tail'[q]] \cup {tail'[q]}
    BY <1>1, <1>3, <1>4, <1>6 DEF ListInv
  <2>6. \A q, r \in Waiting' : tail'[q] = tail'[r] => q = r
    BY <1>3, <1>6 DEF ListInv
  <2> QED
    BY <1>3, <1>8, <2>1, <2>2, <2>3, <2>4, <2>5, <2>6 DEF ListInv
<1>10. LinkInv'
  <2>1. \A q \in Requests' :
          next'[q] # NULL => /\ next'[q] \in Waiting' /\ pc'[next'[q]] = "spin"
                             /\ tail'[next'[q]] = q
    <3> SUFFICES ASSUME NEW q \in Requests', next[q] # NULL
                 PROVE  next[q] \in Waiting' /\ pc'[next[q]] = "spin"
                        /\ tail[next[q]] = q
      BY <1>3
    <3>1. q \in Requests /\ q # p
      BY <1>4
    <3>2. next[q] \in Waiting /\ pc[next[q]] = "spin" /\ tail[next[q]] = q
      BY <3>1 DEF LinkInv
    <3>3. next[q] # s /\ next[q] # p
      BY <3>1, <3>2, <1>1, <1>2
    <3> QED
      BY <3>2, <3>3, <1>1, <1>3, <1>5
  <2>2. \A q \in Waiting' : pc'[q] = "spin" => next'[tail'[q]] = q
    BY <1>1, <1>3, <1>5 DEF LinkInv
  <2>3. \A q \in Procs : /\ pc'[q] = "swap" => next'[q] = NULL /\ ~ spin'[q]
                         /\ pc'[q] = "pass" => next'[q] # NULL
                         /\ pc'[q] = "link" => ~ spin'[q]
    BY <1>2, <1>3 DEF LinkInv
  <2> QED
    BY <2>1, <2>2, <2>3 DEF LinkInv
<1> QED
  BY <1>9, <1>10

(***************************************************************************)
(* The list is a queue, and its links are those of the queue, in every     *)
(* reachable state.                                                        *)
(***************************************************************************)
THEOREM ListCorrect == Spec => [](ListInv /\ LinkInv)
<1>1. TypeOK /\ TypeOK' /\ ListInv /\ LinkInv /\ [Next]_vars => (ListInv /\ LinkInv)'
  <2> SUFFICES ASSUME IInv, [Next]_vars PROVE ListInv' /\ LinkInv'
    BY DEF IInv
  <2>1. CASE UNCHANGED vars
    <3>1. Requests' = Requests /\ Waiting' = Waiting
      BY <2>1 DEF vars, Requests, Waiting
    <3> QED
      BY <2>1, <3>1 DEF vars, IInv, ListInv, LinkInv
  <2>2. ASSUME NEW p \in Procs, Lock(p) PROVE ListInv' /\ LinkInv'
    BY <2>2, ResetInv, SwapInv, LinkStepInv, LocalInv DEF Lock
  <2>3. ASSUME NEW p \in Procs, Unlock(p) PROVE ListInv' /\ LinkInv'
    BY <2>3, LocalInv, EmptyInv, PassInv DEF Unlock
  <2> QED
    BY <2>1, <2>2, <2>3 DEF Next
<1> QED
  BY <1>1, InitInv, Typing, PTL DEF Spec

(***************************************************************************)
(* At most one thread is between the return of lock_mcs and that of        *)
(* unlock_mcs.                                                             *)
(***************************************************************************)
THEOREM McsMutualExclusion == Spec => []MutualExclusion
<1>1. ListInv => MutualExclusion
  <2> SUFFICES ASSUME ListInv, NEW p \in Holders, NEW q \in Holders PROVE p = q
    BY DEF MutualExclusion
  <2>1. p \in Requests \ Waiting /\ q \in Requests \ Waiting /\ p \in Procs /\ q \in Procs
    BY DEF Holders, Requests, Waiting
  <2>2. ahead[p] = {} /\ ahead[q] = {}
    BY <2>1 DEF ListInv
  <2> QED
    BY <2>1, <2>2 DEF ListInv
<1> QED
  BY <1>1, ListCorrect, PTL

(***************************************************************************)
(* Once unlock_mcs has returned, nobody writes to the node before its      *)
(* owner has swapped it in again: nodes can be reused at once.             *)
(***************************************************************************)
THEOREM McsNodeReuse == Spec => IdleNodeUntouched
<1> DEFINE A == \A p \in Procs :
                  pc[p] \in {"idle", "swap"} /\ pc'[p] = pc[p]
                    => next'[p] = next[p] /\ spin'[p] = spin[p]
<1>1. TypeOK /\ ListInv /\ LinkInv /\ [Next]_vars => [A]_vars
  <2> SUFFICES ASSUME IInv, NEW q \in Procs, Lock(q) \/ Unlock(q),
                      NEW p \in Procs, pc[p] \in {"idle", "swap"}, pc'[p] = pc[p]
               PROVE  next'[p] = next[p] /\ spin'[p] = spin[p]
    BY DEF Next, IInv
  <2> USE DEF IInv
  <2>1. CASE Link(q)
    <3>1. q \in Waiting /\ tail[q] \in Requests
      BY <2>1 DEF Link, Goto, LinkInv, ListInv, Waiting
    <3> QED
      BY <2>1, <3>1 DEF Link, TypeOK, Requests
  <2>2. CASE Pass(q)
    <3>1. next[q] \in Waiting
      BY <2>2 DEF Pass, Goto, LinkInv, Requests
    <3> QED
      BY <2>2, <3>1 DEF Pass, TypeOK, Waiting
  <2>3. CASE Reset(q)
    BY <2>3 DEF Reset, Goto, TypeOK
  <2>4. CASE Swap(q) \/ SpinEnds(q) \/ UnlockLook(q) \/ UnlockCas(q) \/ AwaitSuccessor(q)
    BY <2>4 DEF Swap, SpinEnds, UnlockLook, UnlockCas, AwaitSuccessor, lockVars
  <2> QED
    BY <2>1, <2>2, <2>3, <2>4 DEF Lock, Unlock
<1> QED
  BY <1>1, Typing, ListCorrect, PTL DEF Spec, IdleNodeUntouched

(***************************************************************************)
(* The MCS lock implements the abstract FIFO lock: the swap is the         *)
(* request, seeing the own flag or an empty list is the grant, and         *)
(* emptying the list or setting the successor's flag is the release.       *)
(***************************************************************************)
THEOREM McsImplementsFifo == Spec => ImplementsFifo
<1>1. Init => Fifo!Init
  BY DEF Init, Fifo!Init, Requests, Holders
<1>2. TypeOK /\ ListInv /\ LinkInv /\ [Next]_vars => [Fifo!Next]_(Fifo!vars)
  <2> SUFFICES ASSUME IInv, [Next]_vars PROVE Fifo!Next \/ UNCHANGED Fifo!vars
    BY DEF Fifo!vars, IInv
  <2> USE DEF IInv
  <2>0. \A p \in Holders : p \in Requests \ Waiting /\ p \in Procs
    BY DEF Holders, Requests, Waiting
  <2>1. ASSUME NEW p \in Procs, Reset(p) \/ Link(p) \/ UnlockLook(p) \/ AwaitSuccessor(p)
        PROVE  UNCHANGED Fifo!vars
    <3>1. Requests' = Requests /\ Holders' = Holders /\ ahead' = ahead
      BY <2>1 DEF TypeOK, Reset, Link, UnlockLook, AwaitSuccessor, Goto,
                  Requests, Holders
    <3> QED
      BY <3>1 DEF Fifo!vars
  <2>2. ASSUME NEW p \in Procs, Swap(p)
        PROVE  Fifo!Request(p) \/ Fifo!GrantFree(p)
    <3>1. p \notin Requests /\ Requests' = Requests \cup {p}
      BY <2>2 DEF TypeOK, Swap, Goto, Requests
    <3>2. CASE m = NULL
      <4>1. Requests = {} /\ Holders' = {p}
        BY <2>2, <3>2, <2>0 DEF TypeOK, ListInv, Swap, Goto, Holders, Requests
      <4>2. ahead[p] = {}
        BY <3>1 DEF ListInv, Waiting, Requests
      <4>3. ahead' = ahead
        BY <2>2, <4>1, <4>2 DEF TypeOK, Swap
      <4> QED
        BY <3>1, <4>1, <4>3 DEF Fifo!GrantFree
    <3>3. CASE m # NULL
      <4>1. Holders' = Holders
        BY <2>2, <3>3 DEF TypeOK, Swap, Goto, Holders
      <4> QED
        BY <2>2, <3>1, <4>1 DEF Swap, Fifo!Request
    <3> QED
      BY <3>2, <3>3
  <2>3. ASSUME NEW p \in Procs, SpinEnds(p) PROVE Fifo!Grant(p)
    <3>1. /\ p \in Requests /\ p \notin Waiting /\ p \notin Holders
          /\ Requests' = Requests /\ Holders' = Holders \cup {p}
      BY <2>3 DEF TypeOK, SpinEnds, Goto, Requests, Holders, Waiting
    <3>2. ahead[p] = {}
      BY <3>1 DEF ListInv
    <3>3. Holders = {}
      <4> SUFFICES ASSUME NEW q \in Holders PROVE FALSE
        OBVIOUS
      <4>1. q \in Requests /\ q # p /\ ahead[q] = {}
        BY <2>0, <3>1 DEF ListInv
      <4> QED
        BY <3>1, <3>2, <4>1 DEF ListInv
    <3> QED
      BY <2>3, <3>1, <3>2, <3>3 DEF SpinEnds, Fifo!Grant
  <2>4. ASSUME NEW p \in Procs, UnlockCas(p)
        PROVE  Fifo!Release(p) \/ UNCHANGED Fifo!vars
    <3>1. CASE m = p
      <4>1. /\ p \in Holders /\ Holders' = Holders \ {p}
            /\ Requests' = Requests \ {p}
        BY <2>4, <3>1 DEF TypeOK, UnlockCas, Goto, Requests, Holders
      <4> QED
        BY <2>4, <3>1, <4>1 DEF UnlockCas, Left, Fifo!Release
    <3>2. CASE m # p
      <4>1. Requests' = Requests /\ Holders' = Holders /\ ahead' = ahead
        BY <2>4, <3>2 DEF TypeOK, UnlockCas, Goto, Requests, Holders
      <4> QED
        BY <4>1 DEF Fifo!vars
    <3> QED
      BY <3>1, <3>2
  <2>5. ASSUME NEW p \in Procs, Pass(p) PROVE Fifo!Release(p)
    <3>1. p \in Holders /\ Holders' = Holders \ {p} /\ Requests' = Requests \ {p}
      BY <2>5 DEF TypeOK, Pass, Goto, Requests, Holders
    <3> QED
      BY <2>5, <3>1 DEF Pass, Left, Fifo!Release
  <2>6. CASE UNCHANGED vars
    BY <2>6 DEF vars, Fifo!vars, Requests, Holders
  <2> QED
    BY <2>1, <2>2, <2>3, <2>4, <2>5, <2>6 DEF Next, Lock, Unlock, Fifo!Next
<1> QED
  BY <1>1, <1>2, Typing, ListCorrect, PTL DEF Spec, ImplementsFifo, Fifo!Spec

HIDE NullIsNoNode DEF Node

-------------------------------------------------------------------------------
(* The launch. *)

USE LaunchSize

PcStates == {"off", "start", "arrive", "wait", "ready", "spin", "critical",
             "ran", "finalize", "zombie", "reaped"}

Phases == {"idle", "locks", "stat", "fork", "wait", "kill", "result", "destroy"}

Endings == {"success", "bind", "run", "missed", "signal", "fault"}

(***************************************************************************)
(* The part of TypeOK that the arguments below rest on.                    *)
(***************************************************************************)
Types ==
  /\ launcher \in Phases
  /\ children \subseteq Tasks
  /\ schedulable \in BOOLEAN
  /\ verdict \in {"none", "schedulable", "unschedulable"}
  /\ names \subseteq {"barrier", "locks", "stat"}
  /\ at \in [Tasks -> PcStates]
  /\ late \subseteq Tasks
  /\ status \in [Tasks -> Endings]
  /\ signalled \subseteq Tasks

(***************************************************************************)
(* The steps of a launch that move no task, and those of one task.         *)
(***************************************************************************)
Serial ==
  InitSpinlocks \/ InitStatMem \/ InitFails \/ AllSent \/ NoChild \/ WriteResult
    \/ ResultFails \/ Destroy

Killed == \E t \in Tasks : ForkFails \/ SetupFails(t)

LEMMA NextSplit ==
  ASSUME [LaunchNext]_launchvars
  PROVE  \/ InitBarrier
         \/ Serial
         \/ Killed
         \/ \E t \in Tasks : Fork(t) \/ Reap(t) \/ SendTerm(t)
         \/ \E t \in Tasks : Task(t)
         \/ \E t \in Tasks : Terminate(t) \/ Crash(t)
         \/ UNCHANGED launchvars
BY DEF LaunchNext, Launcher, Serial, Killed

(***************************************************************************)
(* A step of a running task moves that task only, and it stays Alive or    *)
(* becomes a zombie.                                                       *)
(***************************************************************************)
Running == {"start", "arrive", "wait", "ready", "spin", "critical", "ran", "finalize"}

LEMMA TaskMoves ==
  ASSUME Types, NEW t \in Tasks, Task(t)
  PROVE  /\ at[t] \in Running
         /\ \E s \in Running \cup {"zombie"} : at' = [at EXCEPT ![t] = s]
         /\ UNCHANGED <<lvars, signalled>>
<1>1. CASE SetUp(t) \/ BindFails(t) \/ Arrive(t) \/ Leave(t)
  BY <1>1 DEF SetUp, BindFails, Arrive, Leave, Goes, Running
<1>2. CASE Request(t) \/ Enter(t) \/ Release(t)
  BY <1>2 DEF Request, Enter, Release, Goes, Running
<1>3. CASE InTime(t) \/ Missed(t) \/ RunFails(t) \/ Finalize(t)
  BY <1>3 DEF InTime, Missed, RunFails, Finalize, Goes, Running
<1> QED
  BY <1>1, <1>2, <1>3 DEF Task

LEMMA TypesStep == Types /\ [LaunchNext]_launchvars => Types'
<1> SUFFICES ASSUME Types, [LaunchNext]_launchvars PROVE Types'
  OBVIOUS
<1>1. CASE InitBarrier
  BY <1>1 DEF InitBarrier, NewTasks, Types, PcStates, Phases, Endings
<1>2. CASE Serial
  BY <1>2 DEF Serial, InitSpinlocks, InitStatMem, InitFails, AllSent, NoChild,
              WriteResult, ResultFails, Destroy, Types, Phases, tvars, shm
<1>3. CASE Killed
  BY <1>3 DEF Killed, ForkFails, SetupFails, KillGroup, NewTasks, Types, PcStates,
              Phases, Endings, shm
<1>4. ASSUME NEW t \in Tasks, Fork(t) \/ Reap(t) \/ SendTerm(t) PROVE Types'
  <2>1. at' \in [Tasks -> PcStates]
    BY <1>4 DEF Fork, Reap, SendTerm, Goes, Types, PcStates
  <2>2. launcher' \in Phases /\ schedulable' \in BOOLEAN
    BY <1>4 DEF Fork, Reap, SendTerm, Types, Phases
  <2>3. children' \subseteq Tasks /\ signalled' \subseteq Tasks
    BY <1>4 DEF Fork, Reap, SendTerm, Types
  <2>4. UNCHANGED <<verdict, late, status, names>>
    BY <1>4 DEF Fork, Reap, SendTerm, shm
  <2> QED
    BY <2>1, <2>2, <2>3, <2>4 DEF Types
<1>5. ASSUME NEW t \in Tasks, Task(t) PROVE Types'
  <2>1. at' \in [Tasks -> PcStates]
    BY <1>5, TaskMoves DEF Types, PcStates, Running
  <2>2. /\ names' \subseteq {"barrier", "locks", "stat"} /\ late' \subseteq Tasks
        /\ status' \in [Tasks -> Endings]
    <3>1. CASE SetUp(t) \/ BindFails(t) \/ Arrive(t) \/ Leave(t)
      BY <3>1 DEF SetUp, BindFails, Arrive, Leave, Types, Endings, shm
    <3>2. CASE Request(t) \/ Enter(t) \/ Release(t)
      BY <3>2 DEF Request, Enter, Release, Types, shm
    <3>3. CASE InTime(t) \/ Missed(t) \/ RunFails(t) \/ Finalize(t)
      BY <3>3 DEF InTime, Missed, RunFails, Finalize, Types, Endings, shm
    <3> QED
      BY <1>5, <3>1, <3>2, <3>3 DEF Task
  <2>3. UNCHANGED <<lvars, signalled>>
    BY <1>5, TaskMoves
  <2> QED
    BY <2>1, <2>2, <2>3 DEF Types, lvars
<1>6. ASSUME NEW t \in Tasks, Terminate(t) \/ Crash(t) PROVE Types'
  BY <1>6 DEF Terminate, Crash, EndBySignal, Types, PcStates, Endings, lvars, shm
<1>7. CASE UNCHANGED launchvars
  BY <1>7 DEF launchvars, lvars, tvars, shm, Types
<1> QED
  BY <1>1, <1>2, <1>3, <1>4, <1>5, <1>6, <1>7, NextSplit

THEOREM LaunchTypes == LaunchSpec => []Types
<1>1. LaunchInit => Types
  BY DEF LaunchInit, Types, PcStates, Phases, Endings
<1> QED
  BY <1>1, TypesStep, PTL DEF LaunchSpec

-------------------------------------------------------------------------------
(***************************************************************************)
(* Tasks exist only between the forks and the end of the wait, when the    *)
(* objects are there, also if tasks crash.                                 *)
(***************************************************************************)
PhaseInv ==
  /\ launcher \notin {"fork", "wait", "kill"} => \A t \in Tasks : at[t] \in {"off", "reaped"}
  /\ launcher \in {"result", "destroy"} => \A t \in Tasks : at[t] = "reaped"
  /\ launcher = "stat" => "locks" \in names
  /\ launcher \in {"fork", "wait", "kill"} => {"locks", "stat"} \subseteq names

LEMMA PhaseStep == Types /\ PhaseInv /\ [LaunchNext]_launchvars => PhaseInv'
<1> SUFFICES ASSUME Types, PhaseInv, [LaunchNext]_launchvars PROVE PhaseInv'
  OBVIOUS
<1>1. CASE InitBarrier
  BY <1>1 DEF InitBarrier, NewTasks, PhaseInv
<1>2. CASE Serial
  BY <1>2 DEF Serial, InitSpinlocks, InitStatMem, InitFails, AllSent, NoChild,
              WriteResult, ResultFails, Destroy, PhaseInv, tvars, shm
<1>3. CASE Killed
  BY <1>3 DEF Killed, ForkFails, SetupFails, KillGroup, NewTasks, PhaseInv
<1>4. ASSUME NEW t \in Tasks, Fork(t) \/ Reap(t) \/ SendTerm(t) PROVE PhaseInv'
  <2>1. launcher \in {"fork", "wait", "kill"} /\ launcher' \in {"fork", "wait", "kill"}
    BY <1>4 DEF Fork, Reap, SendTerm
  <2>2. names' = names
    BY <1>4 DEF Fork, Reap, SendTerm, shm
  <2> QED
    BY <2>1, <2>2 DEF PhaseInv
<1>5. ASSUME NEW t \in Tasks, Task(t) \/ Terminate(t) \/ Crash(t) PROVE PhaseInv'
  <2>1. launcher \in {"fork", "wait", "kill"}
    <3>1. at[t] \notin {"off", "reaped"}
      BY <1>5, TaskMoves DEF Running, Terminate, Crash, EndBySignal, Alive
    <3> QED
      BY <3>1 DEF PhaseInv
  <2>2. launcher' = launcher
    BY <1>5, TaskMoves DEF Terminate, Crash, EndBySignal, lvars
  <2>3. names' = names \/ names' = names \ {"barrier"}
    <3>1. CASE Task(t)
      BY <3>1 DEF Task, SetUp, BindFails, Arrive, Leave, Request, Enter, Release,
                  InTime, Missed, RunFails, Finalize, shm
    <3>2. CASE Terminate(t) \/ Crash(t)
      BY <3>2 DEF Terminate, Crash, EndBySignal, shm
    <3> QED
      BY <1>5, <3>1, <3>2
  <2> QED
    BY <2>1, <2>2, <2>3 DEF PhaseInv
<1>6. CASE UNCHANGED launchvars
  BY <1>6 DEF launchvars, lvars, tvars, shm, PhaseInv
<1> QED
  BY <1>1, <1>2, <1>3, <1>4, <1>5, <1>6, NextSplit

LEMMA PhaseCorrect == LaunchSpec => []PhaseInv
<1>1. LaunchInit => PhaseInv
  BY DEF LaunchInit, PhaseInv
<1> QED
  BY <1>1, PhaseStep, LaunchTypes, PTL DEF LaunchSpec

(***************************************************************************)
(* The locks and the statistics keep their names while there is a task     *)
(* that may open or use them, whatever tasks crash.                        *)
(***************************************************************************)
THEOREM LaunchObjectsOutliveTasks == LaunchSpec => []ObjectsOutliveTasks
<1>1. Types /\ PhaseInv => ObjectsOutliveTasks
  BY DEF Types, PhaseInv, ObjectsOutliveTasks
<1> QED
  BY <1>1, LaunchTypes, PhaseCorrect, PTL

-------------------------------------------------------------------------------
(***************************************************************************)
(* A task ends by a SIGTERM only if the launcher sent it one, which it     *)
(* does when it has reaped a late task; then all that are alive have one   *)
(* pending or are still in the list of children.                           *)
(***************************************************************************)
SignalInv ==
  /\ launcher \in {"locks", "stat", "fork"} => schedulable
  /\ schedulable => signalled = {}
  /\ \A t \in Tasks : status[t] = "signal" => t \in signalled
  /\ launcher = "wait" => IF schedulable THEN children = Tasks ELSE Alive \subseteq signalled
  /\ launcher = "kill" => ~ schedulable /\ Alive \subseteq signalled \cup children

LEMMA SignalStep == Types /\ PhaseInv /\ SignalInv /\ [LaunchNext]_launchvars => SignalInv'
<1> SUFFICES ASSUME Types, PhaseInv, SignalInv, [LaunchNext]_launchvars PROVE SignalInv'
  OBVIOUS
<1>1. CASE InitBarrier
  BY <1>1 DEF InitBarrier, NewTasks, SignalInv
<1>2. CASE Serial
  <2>1. CASE AllSent
    BY <2>1 DEF AllSent, SignalInv, Alive, tvars
  <2>2. CASE Serial /\ ~ AllSent
    <3>1. /\ launcher' \in {"stat", "fork"} => launcher \in {"locks", "stat"}
          /\ launcher' \notin {"locks", "wait", "kill"}
      BY <2>2 DEF Serial, InitSpinlocks, InitStatMem, InitFails, NoChild, WriteResult,
                  ResultFails, Destroy
    <3>2. UNCHANGED <<schedulable, signalled, status>>
      BY <2>2 DEF Serial, InitSpinlocks, InitStatMem, InitFails, NoChild, WriteResult,
                  ResultFails, Destroy, tvars
    <3> QED
      BY <3>1, <3>2 DEF SignalInv
  <2> QED
    BY <1>2, <2>1, <2>2
<1>3. CASE Killed
  BY <1>3 DEF Killed, ForkFails, SetupFails, KillGroup, NewTasks, SignalInv
<1>4. ASSUME NEW t \in Tasks, Fork(t) PROVE SignalInv'
  BY <1>4 DEF Fork, SignalInv, Types
<1>5. ASSUME NEW t \in Tasks, Reap(t) PROVE SignalInv'
  <2>1. Alive' = Alive /\ t \notin Alive
    BY <1>5 DEF Reap, Goes, Types, Alive, PcStates
  <2>2. CASE status[t] = "missed"
    BY <1>5, <2>1, <2>2 DEF Reap, SignalInv, Alive
  <2>3. CASE status[t] # "missed"
    BY <1>5, <2>1, <2>3 DEF Reap, SignalInv
  <2> QED
    BY <2>2, <2>3
<1>6. ASSUME NEW t \in Tasks, SendTerm(t) PROVE SignalInv'
  <2>1. Alive' = Alive
    BY <1>6 DEF SendTerm, Alive
  <2> QED
    BY <1>6, <2>1 DEF SendTerm, SignalInv, shm
<1>7. ASSUME NEW t \in Tasks, Task(t) PROVE SignalInv'
  <2>1. Alive' \subseteq Alive
    BY <1>7, TaskMoves DEF Types, Alive, Running
  <2>2. \A u \in Tasks : status'[u] = "signal" => status[u] = "signal"
    BY <1>7 DEF Task, SetUp, BindFails, Arrive, Leave, Request, Enter, Release,
                InTime, Missed, RunFails, Finalize, Types
  <2>3. UNCHANGED <<launcher, children, schedulable, signalled>>
    BY <1>7, TaskMoves DEF lvars
  <2> QED
    BY <2>1, <2>2, <2>3 DEF SignalInv
<1>8. ASSUME NEW t \in Tasks, Terminate(t) \/ Crash(t) PROVE SignalInv'
  <2>1. Alive' \subseteq Alive
    BY <1>8 DEF Terminate, Crash, EndBySignal, Types, Alive
  <2>2. \A u \in Tasks : status'[u] = "signal" => status[u] = "signal" \/ u \in signalled
    BY <1>8 DEF Terminate, Crash, EndBySignal, Types
  <2>3. UNCHANGED <<launcher, children, schedulable, signalled>>
    BY <1>8 DEF Terminate, Crash, EndBySignal, lvars
  <2> QED
    BY <2>1, <2>2, <2>3 DEF SignalInv
<1>9. CASE UNCHANGED launchvars
  BY <1>9 DEF launchvars, lvars, tvars, SignalInv, Alive
<1> QED
  BY <1>1, <1>2, <1>3, <1>4, <1>5, <1>6, <1>7, <1>8, <1>9, NextSplit

LEMMA SignalCorrect == LaunchSpec => []SignalInv
<1>1. LaunchInit => SignalInv
  BY DEF LaunchInit, SignalInv
<1> QED
  BY <1>1, SignalStep, PhaseCorrect, LaunchTypes, PTL DEF LaunchSpec

-------------------------------------------------------------------------------
(***************************************************************************)
(* A task that counted a miss ends with the status of it, or by a SIGTERM, *)
(* or by its own fault.  The first two take an unschedulable task set: the *)
(* launcher has reaped the task, or that other late task for which it sent *)
(* the signal.                                                             *)
(***************************************************************************)
VerdictInv ==
  /\ \A t \in late : at[t] \in {"finalize", "zombie", "reaped"}
  /\ \A t \in late : at[t] \in {"zombie", "reaped"} => status[t] \in {"missed", "signal", "fault"}
  /\ \A t \in Tasks : status[t] = "missed" => t \in late
  /\ \A t \in Tasks : status[t] = "missed" /\ at[t] = "reaped" => ~ schedulable
  /\ ~ schedulable /\ launcher # "idle" => late # {}
  /\ launcher \notin {"idle", "destroy"} => verdict = "none"
  /\ VerdictIsRight

LEMMA VerdictStep ==
  Types /\ PhaseInv /\ SignalInv /\ VerdictInv /\ [LaunchNext]_launchvars => VerdictInv'
<1> SUFFICES ASSUME Types, PhaseInv, SignalInv, VerdictInv, [LaunchNext]_launchvars PROVE VerdictInv'
  OBVIOUS
<1>1. CASE InitBarrier
  BY <1>1 DEF InitBarrier, NewTasks, VerdictInv, VerdictIsRight, NoFault
<1>2. CASE Serial
  <2>1. CASE WriteResult
    <3>1. schedulable /\ NoFault => late = {}
      BY <2>1 DEF WriteResult, PhaseInv, SignalInv, VerdictInv, NoFault, Types
    <3>2. ~ schedulable => late # {}
      BY <2>1 DEF WriteResult, VerdictInv
    <3> QED
      BY <2>1, <3>1, <3>2 DEF WriteResult, VerdictInv, VerdictIsRight, NoFault, tvars
  <2>2. CASE Serial /\ ~ WriteResult
    <3>1. /\ launcher # "idle" /\ (launcher = "destroy" => launcher' = "idle")
          /\ UNCHANGED <<schedulable, verdict, at, late, status>>
      BY <2>2 DEF Serial, InitSpinlocks, InitStatMem, InitFails, AllSent, NoChild,
                  ResultFails, Destroy, tvars
    <3> QED
      BY <3>1 DEF VerdictInv, VerdictIsRight, NoFault
  <2> QED
    BY <1>2, <2>1, <2>2
<1>3. CASE Killed
  <2>1. launcher \in {"fork", "wait", "kill"}
    BY <1>3 DEF Killed, ForkFails, SetupFails, PhaseInv
  <2>2. verdict = "none"
    BY <2>1 DEF VerdictInv
  <2> QED
    BY <1>3, <2>2 DEF Killed, ForkFails, SetupFails, KillGroup, NewTasks, VerdictInv,
                      VerdictIsRight, NoFault
<1>4. ASSUME NEW t \in Tasks, Fork(t) \/ SendTerm(t) PROVE VerdictInv'
  <2>1. /\ launcher \notin {"idle", "destroy"} /\ launcher' \notin {"idle", "destroy"}
        /\ UNCHANGED <<schedulable, verdict, late, status>>
    BY <1>4 DEF Fork, SendTerm
  <2>2. \A u \in Tasks : at'[u] = at[u] \/ (at[u] = "off" /\ at'[u] = "start")
    BY <1>4 DEF Fork, SendTerm, Types
  <2> QED
    BY <2>1, <2>2 DEF VerdictInv, VerdictIsRight, NoFault, Types
<1>5. ASSUME NEW t \in Tasks, Reap(t) PROVE VerdictInv'
  <2>1. /\ launcher = "wait" /\ launcher' \in {"wait", "kill"}
        /\ UNCHANGED <<verdict, late, status>>
    BY <1>5 DEF Reap
  <2>2. \A u \in Tasks : at'[u] = at[u] \/ (u = t /\ at[u] = "zombie" /\ at'[u] = "reaped")
    BY <1>5 DEF Reap, Goes, Types
  <2>3. CASE status[t] = "missed"
    BY <1>5, <2>1, <2>2, <2>3 DEF Reap, VerdictInv, VerdictIsRight, NoFault, Types
  <2>4. CASE status[t] # "missed"
    BY <1>5, <2>1, <2>2, <2>4 DEF Reap, VerdictInv, VerdictIsRight, NoFault, Types
  <2> QED
    BY <2>3, <2>4
<1>6. ASSUME NEW t \in Tasks, Task(t) \/ Terminate(t) \/ Crash(t) PROVE VerdictInv'
  <2>1. launcher \in {"fork", "wait", "kill"} /\ verdict = "none"
    <3>1. at[t] \notin {"off", "reaped"}
      BY <1>6, TaskMoves DEF Running, Terminate, Crash, EndBySignal, Alive
    <3> QED
      BY <3>1 DEF PhaseInv, VerdictInv
  <2>2. UNCHANGED <<launcher, schedulable, verdict>>
    BY <1>6, TaskMoves DEF Terminate, Crash, EndBySignal, lvars
  <2>3. CASE SetUp(t) \/ BindFails(t) \/ Arrive(t) \/ Leave(t) \/ Request(t)
             \/ Enter(t) \/ Release(t) \/ InTime(t)
    <3>1. late' = late /\ t \notin late /\ at'[t] # "reaped"
      BY <2>3 DEF SetUp, BindFails, Arrive, Leave, Request, Enter, Release, InTime,
                  Goes, VerdictInv, Types
    <3>2. /\ \A u \in Tasks : u # t => at'[u] = at[u] /\ status'[u] = status[u]
          /\ status'[t] = "missed" => status[t] = "missed"
      BY <2>3 DEF SetUp, BindFails, Arrive, Leave, Request, Enter, Release, InTime,
                  Goes, Types
    <3> QED
      BY <2>1, <2>2, <3>1, <3>2 DEF VerdictInv, VerdictIsRight, NoFault, Types
  <2>4. CASE Missed(t)
    BY <2>1, <2>2, <2>4 DEF Missed, Goes, VerdictInv, VerdictIsRight, NoFault, Types
  <2>5. CASE RunFails(t)
    BY <2>1, <2>2, <2>5 DEF RunFails, Goes, VerdictInv, VerdictIsRight, NoFault, Types
  <2>6. CASE Finalize(t)
    BY <2>1, <2>2, <2>6 DEF Finalize, Goes, VerdictInv, VerdictIsRight, NoFault, Types
  <2>7. CASE Terminate(t) \/ Crash(t)
    BY <2>1, <2>2, <2>7 DEF Terminate, Crash, EndBySignal, VerdictInv, VerdictIsRight, NoFault, Types
  <2> QED
    BY <1>6, <2>3, <2>4, <2>5, <2>6, <2>7 DEF Task
<1>7. CASE UNCHANGED launchvars
  BY <1>7 DEF launchvars, lvars, tvars, VerdictInv, VerdictIsRight, NoFault
<1> QED
  BY <1>1, <1>2, <1>3, <1>4, <1>5, <1>6, <1>7, NextSplit

(***************************************************************************)
(* Unless a task dies by its own fault, the result says "schedulable"      *)
(* exactly when no task has counted a miss, in whatever order the tasks    *)
(* end, are killed and are reaped.                                         *)
(***************************************************************************)
THEOREM LaunchVerdict == LaunchSpec => []VerdictIsRight
<1>1. LaunchInit => VerdictInv
  BY DEF LaunchInit, VerdictInv, VerdictIsRight
<1>2. VerdictInv => VerdictIsRight
  BY DEF VerdictInv
<1> QED
  BY <1>1, <1>2, VerdictStep, SignalCorrect, PhaseCorrect, LaunchTypes, PTL DEF LaunchSpec

-------------------------------------------------------------------------------
(***************************************************************************)
(* The name of the barrier is there only until the first task has left it, *)
(* or one has died by its own fault.  No task is sent a signal before      *)
(* that: a late one has left it.                                           *)
(***************************************************************************)
NameInv ==
  /\ \A t \in Tasks : status[t] = "fault" => at[t] \in {"zombie", "reaped"}
  /\ NoFault /\ "barrier" \in names =>
       \A t \in Tasks : at[t] \in {"off", "start", "arrive", "wait"}

LEMMA NameStep ==
  Types /\ PhaseInv /\ SignalInv /\ VerdictInv /\ NameInv /\ [LaunchNext]_launchvars => NameInv'
<1> SUFFICES ASSUME Types, PhaseInv, SignalInv, VerdictInv, NameInv, [LaunchNext]_launchvars
             PROVE  NameInv'
  OBVIOUS
<1>1. CASE InitBarrier \/ Killed
  BY <1>1 DEF InitBarrier, Killed, ForkFails, SetupFails, KillGroup, NewTasks, NameInv
<1>2. CASE Serial
  <2>1. at' = at /\ status' = status /\ ("barrier" \in names' => "barrier" \in names)
    BY <1>2 DEF Serial, InitSpinlocks, InitStatMem, InitFails, AllSent, NoChild,
                WriteResult, ResultFails, Destroy, tvars, shm
  <2> QED
    BY <2>1 DEF NameInv, NoFault
<1>3. ASSUME NEW t \in Tasks, Fork(t) \/ Reap(t) \/ SendTerm(t) PROVE NameInv'
  <2>1. /\ names' = names /\ status' = status
        /\ \A u \in Tasks : at'[u] # at[u] =>
             \/ at[u] = "zombie" /\ at'[u] = "reaped"
             \/ at[u] = "off" /\ at'[u] = "start"
    BY <1>3 DEF Fork, Reap, SendTerm, Goes, Types, shm
  <2> QED
    BY <2>1 DEF NameInv, NoFault
<1>4. ASSUME NEW t \in Tasks, Task(t) PROVE NameInv'
  <2>1. status[t] # "fault" /\ status'[t] # "fault"
    <3>1. at[t] \notin {"zombie", "reaped"}
      BY <1>4, TaskMoves DEF Running
    <3>2. status[t] # "fault"
      BY <3>1 DEF NameInv
    <3> QED
      BY <1>4, <3>2 DEF Task, SetUp, BindFails, Arrive, Leave, Request, Enter, Release,
                        InTime, Missed, RunFails, Finalize, Types
  <2>2. \A u \in Tasks : u # t => at'[u] = at[u] /\ status'[u] = status[u]
    <3>1. \A u \in Tasks : u # t => at'[u] = at[u]
      BY <1>4, TaskMoves DEF Types
    <3>2. \A u \in Tasks : u # t => status'[u] = status[u]
      BY <1>4 DEF Task, SetUp, BindFails, Arrive, Leave, Request, Enter, Release,
                  InTime, Missed, RunFails, Finalize, Types
    <3> QED
      BY <3>1, <3>2
  <2>3. \A u \in Tasks : status'[u] = "fault" => at'[u] \in {"zombie", "reaped"}
    BY <2>1, <2>2 DEF NameInv
  <2>4. NoFault' = NoFault
    BY <2>1, <2>2 DEF NoFault
  <2>5. CASE SetUp(t) \/ BindFails(t) \/ Arrive(t)
    <3>1. names' = names /\ at[t] \in {"start", "arrive"} /\ at'[t] \in {"arrive", "wait"}
      BY <2>5 DEF SetUp, BindFails, Arrive, Goes, Types, shm
    <3> QED
      BY <2>2, <2>3, <2>4, <3>1 DEF NameInv
  <2>6. CASE Leave(t)
    BY <2>3, <2>6 DEF Leave, NameInv
  <2>7. CASE Request(t) \/ Enter(t) \/ Release(t) \/ InTime(t) \/ Missed(t)
             \/ RunFails(t) \/ Finalize(t)
    <3>1. at[t] \notin {"off", "start", "arrive", "wait"} /\ names' = names
      BY <2>7 DEF Request, Enter, Release, InTime, Missed, RunFails, Finalize, Goes, shm
    <3> QED
      BY <2>3, <2>4, <3>1 DEF NameInv
  <2> QED
    BY <1>4, <2>5, <2>6, <2>7 DEF Task
<1>5. ASSUME NEW t \in Tasks, Terminate(t) PROVE NameInv'
  <2>1. ~ schedulable /\ launcher # "idle" /\ names' = names
    BY <1>5 DEF Terminate, EndBySignal, SignalInv, PhaseInv, Alive, shm
  <2>2. PICK u \in late : at[u] \in {"finalize", "zombie", "reaped"}
    BY <2>1 DEF VerdictInv
  <2> QED
    <3>1. \A v \in Tasks : v # t => at'[v] = at[v] /\ status'[v] = status[v]
      BY <1>5 DEF Terminate, EndBySignal, Types
    <3>2. /\ at[t] \notin {"zombie", "reaped"} /\ at'[t] = "zombie"
          /\ status[t] # "fault" /\ status'[t] # "fault"
      BY <1>5 DEF Terminate, EndBySignal, Types, NameInv, Alive
    <3>3. NoFault' = NoFault
      BY <3>1, <3>2 DEF NoFault
    <3>4. NoFault => "barrier" \notin names
      BY <2>2 DEF NameInv, Types
    <3> QED
      BY <2>1, <3>1, <3>2, <3>3, <3>4 DEF NameInv
<1>6. CASE UNCHANGED launchvars
  BY <1>6 DEF launchvars, tvars, shm, NameInv, NoFault
<1>7. ASSUME NEW t \in Tasks, Crash(t) PROVE NameInv'
  BY <1>7 DEF Crash, EndBySignal, Types, NameInv, NoFault
<1> QED
  BY <1>1, <1>2, <1>3, <1>4, <1>5, <1>6, NextSplit, <1>7

(***************************************************************************)
(* Unless a task dies by its own fault, a launch that ends leaves no name  *)
(* behind.                                                                 *)
(***************************************************************************)
THEOREM LaunchNothingLeft == LaunchSpec => NothingLeft
<1>1. LaunchInit => NameInv /\ VerdictInv
  BY DEF LaunchInit, NameInv, VerdictInv, VerdictIsRight
<1>2. Types /\ PhaseInv /\ NameInv /\ [LaunchNext]_launchvars => [Destroy /\ NoFault => names' = {}]_launchvars
  <2> SUFFICES ASSUME Types, PhaseInv, NameInv, Destroy, NoFault PROVE names' = {}
    OBVIOUS
  <2>1. \A t \in Tasks : at[t] = "reaped"
    BY DEF Destroy, PhaseInv
  <2>2. "barrier" \notin names
    BY <2>1 DEF NameInv, LaunchSize
  <2> QED
    BY <2>2 DEF Destroy, Types
<1> QED
  BY <1>1, <1>2, NameStep, VerdictStep, SignalCorrect, PhaseCorrect, LaunchTypes, PTL
  DEF LaunchSpec, NothingLeft

-------------------------------------------------------------------------------
(***************************************************************************)
(* The queue holds one request of each task that spins or has the lock,    *)
(* and else, from the time it was cleared, those of tasks that were ended  *)
(* by a signal.  This holds with crashes, too.                             *)
(***************************************************************************)
Dead(t) == at[t] \in {"zombie", "reaped"} /\ status[t] \in {"signal", "fault"}

Queued(t) == at[t] \in {"spin", "critical"} \/ Dead(t)

QueueInv ==
  /\ queue \in Seq(Tasks)
  /\ \A t \in Tasks : at[t] = "critical" => queue # <<>> /\ Head(queue) = t
  /\ \A t \in Tasks : at[t] = "spin" => \E i \in DOMAIN queue : queue[i] = t
  /\ launcher \notin {"idle", "locks"} =>
       /\ \A t \in Tasks, i \in DOMAIN queue : queue[i] = t => Queued(t)
       /\ \A i, j \in DOMAIN queue : queue[i] = queue[j] => i = j

(***************************************************************************)
(* A step that leaves the queue, the requests in it and the tasks without  *)
(* one as they are.                                                        *)
(***************************************************************************)
LEMMA QueueUntouched ==
  ASSUME Types, QueueInv, queue' = queue,
         launcher \in {"idle", "locks"} => launcher' \in {"idle", "locks"},
         \A t \in Tasks :
           /\ at'[t] = "critical" => at[t] = "critical"
           /\ at'[t] = "spin" => at[t] = "spin"
           /\ Queued(t) => Queued(t)'
  PROVE  QueueInv'
BY DEF QueueInv

LEMMA QueueStep == Types /\ PhaseInv /\ QueueInv /\ [LaunchNext]_launchvars => QueueInv'
<1> SUFFICES ASSUME Types, PhaseInv, QueueInv, [LaunchNext]_launchvars PROVE QueueInv'
  OBVIOUS
<1>1. CASE InitBarrier \/ Killed
  <2>1. /\ queue' = queue /\ launcher' \in {"idle", "locks"}
        /\ \A t \in Tasks : at'[t] = "off"
    BY <1>1 DEF InitBarrier, Killed, ForkFails, SetupFails, KillGroup, NewTasks, shm
  <2> QED
    BY <2>1 DEF QueueInv
<1>2. CASE Serial
  <2>1. CASE InitSpinlocks \/ Destroy
    <3>1. queue' = <<>> /\ \A t \in Tasks : at'[t] \in {"off", "reaped"}
      BY <2>1 DEF InitSpinlocks, Destroy, PhaseInv, tvars
    <3> QED
      BY <3>1 DEF QueueInv
  <2>2. CASE Serial /\ ~ (InitSpinlocks \/ Destroy)
    <3>1. /\ UNCHANGED <<queue, at, status>>
          /\ launcher \in {"idle", "locks"} => launcher' \in {"idle", "locks"}
      BY <2>2 DEF Serial, InitStatMem, InitFails, AllSent, NoChild, WriteResult,
                  ResultFails, tvars, shm
    <3> QED
      BY <3>1, QueueUntouched DEF Queued, Dead
  <2> QED
    BY <1>2, <2>1, <2>2
<1>3. ASSUME NEW t \in Tasks, Fork(t) \/ Reap(t) \/ SendTerm(t) PROVE QueueInv'
  <2>1. /\ queue' = queue /\ status' = status /\ launcher \notin {"idle", "locks"}
        /\ \A u \in Tasks : \/ at'[u] = at[u]
                            \/ at[u] = "off" /\ at'[u] = "start"
                            \/ at[u] = "zombie" /\ at'[u] = "reaped"
    BY <1>3 DEF Fork, Reap, SendTerm, Goes, Types, shm
  <2> QED
    BY <2>1, QueueUntouched DEF Queued, Dead
<1>4. ASSUME NEW t \in Tasks, Task(t) PROVE QueueInv'
  <2>1. /\ launcher \notin {"idle", "locks"} /\ launcher' = launcher
        /\ \A u \in Tasks : u # t => at'[u] = at[u] /\ status'[u] = status[u]
    <3>1. at[t] \notin {"off", "reaped"} /\ launcher' = launcher
      BY <1>4, TaskMoves DEF Running, lvars
    <3>2. \A u \in Tasks : u # t => at'[u] = at[u]
      BY <1>4, TaskMoves DEF Types
    <3>3. \A u \in Tasks : u # t => status'[u] = status[u]
      BY <1>4 DEF Task, SetUp, BindFails, Arrive, Leave, Request, Enter, Release,
                  InTime, Missed, RunFails, Finalize, Types
    <3> QED
      BY <3>1, <3>2, <3>3 DEF PhaseInv
  <2>0. /\ \A u \in Tasks, i \in DOMAIN queue : queue[i] = u => Queued(u)
        /\ \A i, j \in DOMAIN queue : queue[i] = queue[j] => i = j
        /\ queue \in Seq(Tasks) /\ \A i \in DOMAIN queue : queue[i] \in Tasks
    BY <2>1 DEF QueueInv
  <2>2. CASE Request(t)
    <3>1. /\ at[t] = "ready" /\ at'[t] = "spin" /\ queue' = Append(queue, t)
      BY <2>2 DEF Request, Goes, Types
    <3>2. \A i \in DOMAIN queue : queue[i] # t
      BY <2>0, <3>1 DEF Queued, Dead
    <3>3. /\ queue' \in Seq(Tasks) /\ Len(queue') = Len(queue) + 1
          /\ \A i \in DOMAIN queue : i \in DOMAIN queue' /\ queue'[i] = queue[i]
          /\ queue'[Len(queue) + 1] = t /\ Len(queue) + 1 \in DOMAIN queue'
          /\ \A i \in DOMAIN queue' : i \in DOMAIN queue \/ i = Len(queue) + 1
          /\ queue # <<>> => queue' # <<>> /\ Head(queue') = Head(queue)
      BY <2>0, <3>1
    <3>4. \A u \in Tasks : at'[u] = "critical" => queue' # <<>> /\ Head(queue') = u
      BY <2>1, <3>1, <3>3 DEF QueueInv
    <3>5. \A u \in Tasks : at'[u] = "spin" => \E i \in DOMAIN queue' : queue'[i] = u
      BY <2>1, <3>1, <3>3 DEF QueueInv
    <3>6. ASSUME NEW u \in Tasks, NEW i \in DOMAIN queue', queue'[i] = u
          PROVE  Queued(u)'
      <4>1. CASE u = t
        BY <3>1, <4>1 DEF Queued
      <4>2. CASE u # t
        <5>1. Queued(u)
          BY <2>0, <3>3, <3>6, <4>2
        <5> QED
          BY <2>1, <4>2, <5>1 DEF Queued, Dead
      <4> QED
        BY <4>1, <4>2
    <3>7. \A i, j \in DOMAIN queue' : queue'[i] = queue'[j] => i = j
      BY <2>0, <3>2, <3>3
    <3> QED
      BY <3>3, <3>4, <3>5, <3>6, <3>7 DEF QueueInv
  <2>3. CASE Release(t)
    <3>1. /\ at[t] = "critical" /\ at'[t] = "ran" /\ queue' = Tail(queue)
      BY <2>3 DEF Release, Goes, Types
    <3>2. queue # <<>> /\ Head(queue) = t
      BY <3>1 DEF QueueInv
    <3>3. /\ queue' \in Seq(Tasks) /\ Len(queue') = Len(queue) - 1 /\ queue[1] = t
          /\ 1 \in DOMAIN queue
          /\ \A i \in DOMAIN queue' : i + 1 \in DOMAIN queue /\ queue'[i] = queue[i + 1]
          /\ \A i \in DOMAIN queue : i = 1 \/ (i - 1 \in DOMAIN queue'
                                               /\ queue'[i - 1] = queue[i])
      BY <2>0, <3>1, <3>2
    <3>4. \A i \in DOMAIN queue' : queue'[i] # t
      <4>1. ASSUME NEW i \in DOMAIN queue', queue'[i] = t PROVE FALSE
        <5>1. i + 1 \in DOMAIN queue /\ queue[i + 1] = queue[1] /\ i \in Nat \ {0}
          BY <3>3, <4>1
        <5>2. i + 1 = 1
          BY <2>0, <3>3, <5>1
        <5> QED
          BY <5>1, <5>2
      <4> QED
        BY <4>1
    <3>5. \A u \in Tasks : at'[u] # "critical"
      BY <2>1, <3>1, <3>2 DEF QueueInv
    <3>6. ASSUME NEW u \in Tasks, at'[u] = "spin"
          PROVE  \E i \in DOMAIN queue' : queue'[i] = u
      <4>1. u # t /\ at[u] = "spin"
        BY <2>1, <3>1, <3>6
      <4>2. PICK i \in DOMAIN queue : queue[i] = u
        BY <4>1 DEF QueueInv
      <4> QED
        BY <3>3, <4>1, <4>2
    <3>7. ASSUME NEW u \in Tasks, NEW i \in DOMAIN queue', queue'[i] = u
          PROVE  Queued(u)'
      <4>1. u # t /\ Queued(u)
        BY <2>0, <3>3, <3>4, <3>7
      <4> QED
        BY <2>1, <4>1 DEF Queued, Dead
    <3>8. ASSUME NEW i \in DOMAIN queue', NEW j \in DOMAIN queue', queue'[i] = queue'[j]
          PROVE  i = j
      <4>1. i + 1 = j + 1
        BY <2>0, <3>3, <3>8
      <4>2. i \in Nat /\ j \in Nat
        BY <3>3
      <4> QED
        BY <4>1, <4>2
    <3> QED
      BY <3>3, <3>5, <3>6, <3>7, <3>8 DEF QueueInv
  <2>4. CASE Enter(t)
    <3>1. /\ queue' = queue /\ status' = status /\ at[t] = "spin" /\ at'[t] = "critical"
          /\ Head(queue) = t
      BY <2>4 DEF Enter, Goes, Types, tvars, shm
    <3>2. queue # <<>>
      BY <3>1 DEF QueueInv
    <3> QED
      BY <2>1, <3>1, <3>2 DEF QueueInv, Queued, Dead
  <2>5. CASE SetUp(t) \/ BindFails(t) \/ Arrive(t) \/ Leave(t) \/ InTime(t) \/ Missed(t)
             \/ RunFails(t) \/ Finalize(t)
    <3>1. /\ queue' = queue
          /\ at[t] \notin {"spin", "critical", "zombie", "reaped"}
          /\ at'[t] \notin {"spin", "critical"}
      BY <2>5 DEF SetUp, BindFails, Arrive, Leave, InTime, Missed, RunFails, Finalize,
                  Goes, Types, shm
    <3> QED
      BY <2>1, <3>1, QueueUntouched DEF Queued, Dead
  <2> QED
    BY <1>4, <2>2, <2>3, <2>4, <2>5 DEF Task
<1>5. ASSUME NEW t \in Tasks, Terminate(t) \/ Crash(t) PROVE QueueInv'
  <2>1. /\ queue' = queue /\ launcher' = launcher /\ at[t] # "reaped"
        /\ at'[t] = "zombie" /\ status'[t] \in {"signal", "fault"}
        /\ \A u \in Tasks : u # t => at'[u] = at[u] /\ status'[u] = status[u]
    BY <1>5 DEF Terminate, Crash, EndBySignal, Alive, Types, lvars, shm
  <2> QED
    BY <2>1, QueueUntouched DEF Queued, Dead
<1>6. CASE UNCHANGED launchvars
  <2>1. UNCHANGED <<queue, at, status, launcher>>
    BY <1>6 DEF launchvars, lvars, tvars, shm
  <2> QED
    BY <2>1, QueueUntouched DEF Queued, Dead
<1> QED
  BY <1>1, <1>2, <1>3, <1>4, <1>5, <1>6, NextSplit

LEMMA QueueCorrect == LaunchSpec => []QueueInv
<1>1. LaunchInit => QueueInv
  BY DEF LaunchInit, QueueInv
<1> QED
  BY <1>1, QueueStep, PhaseCorrect, LaunchTypes, PTL DEF LaunchSpec

(***************************************************************************)
(* The tasks of a launch find no request of an earlier one in the lock.    *)
(***************************************************************************)
THEOREM LaunchQueueIsLive == LaunchSpec => []QueueIsLive
<1>1. QueueInv => QueueIsLive
  <2> SUFFICES ASSUME QueueInv, launcher \in {"fork", "wait"},
                      \A t \in Tasks : status[t] \notin {"signal", "fault"}
               PROVE  /\ \A i \in DOMAIN queue : at[queue[i]] \in {"spin", "critical"}
                      /\ \A t \in Tasks : at[t] \in {"spin", "critical"} =>
                           \E i \in DOMAIN queue : queue[i] = t
    BY DEF QueueIsLive
  <2>1. \A i \in DOMAIN queue : queue[i] \in Tasks
    BY DEF QueueInv
  <2>2. ASSUME NEW t \in Tasks, at[t] = "critical"
        PROVE  \E i \in DOMAIN queue : queue[i] = t
    <3>1. 1 \in DOMAIN queue /\ queue[1] = t
      BY <2>2 DEF QueueInv
    <3> QED
      BY <3>1
  <2> QED
    BY <2>1, <2>2 DEF QueueInv, Queued, Dead
<1> QED
  BY <1>1, QueueCorrect, PTL

(***************************************************************************)
(* Unless a task dies by its own fault, one that spins behind the request  *)
(* of a dead one is sent a signal as well.                                 *)
(***************************************************************************)
THEOREM LaunchNobodyIsLeftBehind == LaunchSpec => []NobodyIsLeftBehind
<1>1. Types /\ PhaseInv /\ SignalInv /\ QueueInv => NobodyIsLeftBehind
  <2> SUFFICES ASSUME Types, PhaseInv, SignalInv, QueueInv, NoFault, NEW t \in Tasks,
                      at[t] = "spin", NEW i \in DOMAIN queue,
                      at[queue[i]] \in {"zombie", "reaped"}
               PROVE  t \in signalled \/ (launcher = "kill" /\ t \in children)
    BY DEF NobodyIsLeftBehind
  <2>1. launcher \in {"fork", "wait", "kill"} /\ t \in Alive
    BY DEF PhaseInv, Alive
  <2>2. queue[i] \in Tasks /\ status[queue[i]] = "signal"
    BY <2>1 DEF QueueInv, Queued, Dead, NoFault
  <2>3. ~ schedulable
    BY <2>2 DEF SignalInv
  <2> QED
    BY <2>1, <2>3 DEF SignalInv
<1> QED
  BY <1>1, QueueCorrect, SignalCorrect, PhaseCorrect, LaunchTypes, PTL
===============================================================================
