---------------------------- MODULE PrioLock_proofs ----------------------------
(***************************************************************************)
(* Proofs about PrioLock for every number of tasks and of threads.         *)
(***************************************************************************)
EXTENDS PrioLock, TLAPS

USE PrioTyping

Active == {"look", "check", "try"}

States == {"idle", "local", "look1", "try1", "announce", "look",
           "check", "try", "retract", "held", "free"}

(***************************************************************************)
(* What the shared steps do, as facts about one thread or one task.        *)
(***************************************************************************)
LEMMA CasOwnerType ==
  ASSUME TypeOK, NEW p \in Procs, CasOwner(p)
  PROVE  /\ owner = NULL /\ owner' = Prio[p]
         /\ passed' \in [Procs -> [Prios -> 0 .. 2]]
BY DEF CasOwner, TypeOK

(***************************************************************************)
(* Every state of a behaviour has the types of TypeOK.                     *)
(***************************************************************************)
THEOREM Typing == Spec => []TypeOK
<1>1. Init => TypeOK
  BY DEF Init, TypeOK
<1>2. TypeOK /\ [Next]_vars => TypeOK'
  <2> SUFFICES ASSUME TypeOK, [Next]_vars PROVE TypeOK'
    OBVIOUS
  <2>1. ASSUME NEW p \in Procs, LocalRequest(p) PROVE TypeOK'
    BY <2>1 DEF LocalRequest, LocalRequests, Goto, TypeOK
  <2>2. ASSUME NEW p \in Procs, LocalGrant(p) \/ LookFirst(p) \/ Look(p) \/ CheckBit(p)
        PROVE  TypeOK'
    <3>1. pc' \in [Procs -> States]
      BY <2>2 DEF LocalGrant, LookFirst, Look, CheckBit, Goto, TypeOK, States
    <3> QED
      BY <2>2, <3>1 DEF LocalGrant, LookFirst, Look, CheckBit, TypeOK, States
  <2>3. ASSUME NEW p \in Procs, TryFirst(p) \/ Try(p) PROVE TypeOK'
    <3>1. pc' \in [Procs -> States]
      BY <2>3 DEF TryFirst, Try, Goto, TypeOK, States
    <3>2. /\ owner' \in Prios \cup {NULL}
          /\ passed' \in [Procs -> [Prios -> 0 .. 2]]
      <4>1. CASE CasOwner(p)
        BY <4>1, CasOwnerType
      <4>2. CASE UNCHANGED <<owner, passed>>
        BY <4>2 DEF TypeOK
      <4> QED
        BY <2>3, <4>1, <4>2 DEF TryFirst, Try
    <3>3. waiters' = waiters /\ ahead' = ahead
      BY <2>3 DEF TryFirst, Try
    <3> QED
      BY <3>1, <3>2, <3>3 DEF TypeOK, States
  <2>4. ASSUME NEW p \in Procs, Announce(p) PROVE TypeOK'
    <3>1. pc' \in [Procs -> States] /\ waiters' \subseteq Prios
      BY <2>4 DEF Announce, Goto, TypeOK, States
    <3>2. passed' \in [Procs -> [Prios -> 0 .. 2]]
      BY <2>4 DEF Announce, TypeOK
    <3> QED
      BY <2>4, <3>1, <3>2 DEF Announce, TypeOK, States
  <2>5. ASSUME NEW p \in Procs, Retract(p) \/ LocalRelease(p) \/ FreeOwner(p)
        PROVE  TypeOK'
    <3>1. pc' \in [Procs -> States]
      BY <2>5 DEF Retract, LocalRelease, FreeOwner, Goto, TypeOK, States
    <3>2. ahead' \in [Procs -> SUBSET Procs]
      BY <2>5 DEF Retract, LocalRelease, FreeOwner, TypeOK
    <3> QED
      BY <2>5, <3>1, <3>2 DEF Retract, LocalRelease, FreeOwner, TypeOK, States
  <2>6. CASE UNCHANGED vars
    BY <2>6 DEF vars, TypeOK
  <2> QED
    BY <2>1, <2>2, <2>3, <2>4, <2>5, <2>6 DEF Next, Lock, Unlock
<1> QED
  BY <1>1, <1>2, PTL DEF Spec

-------------------------------------------------------------------------------
(***************************************************************************)
(* One thread at a time holds the lock, with or without local locks, and   *)
(* owner is the priority of its task.                                      *)
(***************************************************************************)
THEOREM PrioMutualExclusion == Spec => []MutualExclusion
<1>1. Init => MutualExclusion
  BY DEF Init, MutualExclusion, Holders
<1>2. TypeOK /\ MutualExclusion /\ [Next]_vars => MutualExclusion'
  <2> SUFFICES ASSUME TypeOK, MutualExclusion, [Next]_vars PROVE MutualExclusion'
    OBVIOUS
  <2>1. ASSUME NEW p \in Procs, LocalRequest(p) \/ LocalGrant(p) \/ LookFirst(p)
                                \/ Announce(p) \/ Look(p) \/ CheckBit(p)
        PROVE  MutualExclusion'
    <3>1. Holders' = Holders
      <4>1. /\ pc[p] \notin {"retract", "held", "free"}
            /\ pc'[p] \notin {"retract", "held", "free"}
            /\ \A q \in Procs : q # p => pc'[q] = pc[q]
        BY <2>1 DEF LocalRequest, LocalGrant, LookFirst, Announce, Look, CheckBit,
                    Goto, TypeOK
      <4> QED
        BY <4>1 DEF Holders
    <3>2. owner' = owner
      BY <2>1 DEF LocalRequest, LocalGrant, LookFirst, Announce, Look, CheckBit
    <3> QED
      BY <3>1, <3>2 DEF MutualExclusion
  <2>2. ASSUME NEW p \in Procs, TryFirst(p) \/ Try(p) PROVE MutualExclusion'
    <3>1. CASE CasOwner(p)
      <4>1. owner = NULL /\ owner' = Prio[p]
        BY <3>1, CasOwnerType
      <4>2. Holders = {}
        BY <4>1 DEF MutualExclusion, Holders
      <4>3. /\ pc'[p] \in {"retract", "held"}
            /\ \A q \in Procs : q # p => pc'[q] = pc[q]
        BY <2>2, <4>1 DEF TryFirst, Try, Goto, TypeOK
      <4>4. Holders' = {p}
        <5>1. \A q \in Procs : q \in Holders' <=> q = p
          BY <4>2, <4>3 DEF Holders
        <5> QED
          BY <5>1 DEF Holders
      <4> QED
        BY <4>1, <4>4 DEF MutualExclusion
    <3>2. CASE ~ CasOwner(p)
      <4>1. /\ pc[p] \notin {"retract", "held", "free"}
            /\ pc'[p] \notin {"retract", "held", "free"}
            /\ \A q \in Procs : q # p => pc'[q] = pc[q]
            /\ owner' = owner
        BY <2>2, <3>2 DEF TryFirst, Try, Goto, TypeOK
      <4>2. Holders' = Holders
        BY <4>1 DEF Holders
      <4> QED
        BY <4>1, <4>2 DEF MutualExclusion
    <3> QED
      BY <3>1, <3>2
  <2>3. ASSUME NEW p \in Procs, Retract(p) \/ LocalRelease(p) PROVE MutualExclusion'
    <3>1. Holders' = Holders /\ owner' = owner
      BY <2>3 DEF Retract, LocalRelease, Goto, TypeOK, Holders
    <3> QED
      BY <3>1 DEF MutualExclusion
  <2>4. ASSUME NEW p \in Procs, FreeOwner(p) PROVE MutualExclusion'
    <3>1. Holders = {p}
      BY <2>4 DEF FreeOwner, Goto, Holders, MutualExclusion
    <3>2. Holders' = {} /\ owner' = NULL
      BY <2>4, <3>1 DEF FreeOwner, Goto, TypeOK, Holders
    <3> QED
      BY <3>2 DEF MutualExclusion
  <2>5. CASE UNCHANGED vars
    BY <2>5 DEF vars, MutualExclusion, Holders
  <2> QED
    BY <2>1, <2>2, <2>3, <2>4, <2>5 DEF Next, Lock, Unlock
<1> QED
  BY <1>1, <1>2, Typing, PTL DEF Spec

-------------------------------------------------------------------------------
(***************************************************************************)
(* A bit that is set always belongs to a request under way, whether or not *)
(* threads of one task clear the bits of each other.                       *)
(***************************************************************************)
THEOREM PrioNoStaleBit == Spec => []NoStaleBit
<1>1. Init => NoStaleBit
  BY DEF Init, NoStaleBit
<1>2. TypeOK /\ NoStaleBit /\ [Next]_vars => NoStaleBit'
  <2> SUFFICES ASSUME TypeOK, NoStaleBit, [Next]_vars, NEW t \in waiters'
               PROVE  \E q \in Procs : /\ Prio[q] = t
                                       /\ pc'[q] \in Active \cup {"announce", "retract"}
    BY DEF NoStaleBit, Announced, Active
  <2>1. ASSUME NEW p \in Procs, LocalRequest(p) \/ LocalGrant(p) \/ LookFirst(p)
                                \/ Look(p) \/ CheckBit(p) \/ TryFirst(p) \/ Try(p)
                                \/ LocalRelease(p) \/ FreeOwner(p)
        PROVE  \E q \in Procs : /\ Prio[q] = t
                                /\ pc'[q] \in Active \cup {"announce", "retract"}
    <3>1. PICK q \in Procs : /\ Prio[q] = t
                             /\ pc[q] \in Active \cup {"announce", "retract"}
      BY <2>1 DEF LocalRequest, LocalGrant, LookFirst, Look, CheckBit, TryFirst, Try,
                  LocalRelease, FreeOwner, NoStaleBit, Announced, Active
    <3>2. pc'[q] \in Active \cup {"announce", "retract"}
      BY <2>1, <3>1 DEF LocalRequest, LocalGrant, LookFirst, Look, CheckBit, TryFirst,
                        Try, LocalRelease, FreeOwner, Goto, Active, TypeOK
    <3> QED
      BY <3>1, <3>2
  <2>2. ASSUME NEW p \in Procs, Announce(p)
        PROVE  \E q \in Procs : /\ Prio[q] = t
                                /\ pc'[q] \in Active \cup {"announce", "retract"}
    <3>1. CASE t = Prio[p]
      BY <2>2, <3>1 DEF Announce, Goto, Active, TypeOK
    <3>2. CASE t # Prio[p]
      BY <2>2, <3>2 DEF Announce, Goto, Active, TypeOK, NoStaleBit, Announced
    <3> QED
      BY <3>1, <3>2
  <2>3. ASSUME NEW p \in Procs, Retract(p)
        PROVE  \E q \in Procs : /\ Prio[q] = t
                                /\ pc'[q] \in Active \cup {"announce", "retract"}
    BY <2>3 DEF Retract, Goto, Active, TypeOK, NoStaleBit, Announced
  <2>4. CASE UNCHANGED vars
    BY <2>4 DEF vars, NoStaleBit, Announced, Active
  <2> QED
    BY <2>1, <2>2, <2>3, <2>4 DEF Next, Lock, Unlock
<1> QED
  BY <1>1, <1>2, Typing, PTL DEF Spec

-------------------------------------------------------------------------------
(***************************************************************************)
(* The local locks, where there are any: of two threads of one task that   *)
(* have requested theirs, one is ahead of the other, and nobody is ahead   *)
(* of a thread that has got it.                                            *)
(***************************************************************************)
Past(p) == pc[p] \notin {"idle", "free", "local"}

LocalInv ==
  /\ \A p \in Procs : Past(p) => ahead[p] = {}
  /\ \A p, q \in LocalRequests : p # q /\ Prio[p] = Prio[q]
                                   => p \in ahead[q] \/ q \in ahead[p]

LEMMA LocalCorrect ==
  ASSUME LocalFifo
  PROVE  Spec => []LocalInv
<1>1. Init => LocalInv
  BY DEF Init, LocalInv, LocalRequests, Past
<1>2. TypeOK /\ LocalInv /\ [Next]_vars => LocalInv'
  <2> SUFFICES ASSUME TypeOK, LocalInv, [Next]_vars PROVE LocalInv'
    OBVIOUS
  <2>1. ASSUME NEW p \in Procs, LocalRequest(p) PROVE LocalInv'
    <3>1. /\ p \notin LocalRequests /\ LocalRequests' = LocalRequests \cup {p}
          /\ ahead'[p] = LocalRequests \cap Team(p)
          /\ \A q \in Procs : q # p => ahead'[q] = ahead[q] /\ pc'[q] = pc[q]
          /\ pc'[p] = "local"
      BY <2>1 DEF LocalRequest, LocalRequests, Goto, TypeOK
    <3>2. \A q \in Procs : Past(q)' => ahead'[q] = {}
      BY <3>1 DEF LocalInv, Past
    <3>3. ASSUME NEW a \in LocalRequests', NEW b \in LocalRequests', a # b,
                 Prio[a] = Prio[b]
          PROVE  a \in ahead'[b] \/ b \in ahead'[a]
      BY <3>1, <3>3 DEF LocalInv, Team, LocalRequests
    <3> QED
      BY <3>2, <3>3 DEF LocalInv
  <2>2. ASSUME NEW p \in Procs, Lock(p) PROVE LocalInv'
    <3>1. /\ LocalRequests' = LocalRequests /\ ahead' = ahead
          /\ Past(p)' => Past(p) \/ ahead[p] = {}
          /\ \A q \in Procs : q # p => pc'[q] = pc[q]
      <4>1. /\ pc[p] \notin {"idle", "free"} /\ pc'[p] \notin {"idle", "free"}
            /\ \A q \in Procs : q # p => pc'[q] = pc[q]
        BY <2>2 DEF Lock, LocalGrant, LookFirst, TryFirst, Announce, Look, CheckBit,
                    Try, Retract, Goto, TypeOK
      <4>2. ahead' = ahead /\ (pc[p] = "local" => ahead[p] = {})
        BY <2>2 DEF Lock, LocalGrant, LookFirst, TryFirst, Announce, Look, CheckBit,
                    Try, Retract, Goto
      <4> QED
        BY <4>1, <4>2 DEF LocalRequests, Past
    <3> QED
      BY <3>1 DEF LocalInv, Past
  <2>3. ASSUME NEW p \in Procs, LocalRelease(p) PROVE LocalInv'
    <3>1. /\ LocalRequests' = LocalRequests \ {p} /\ Past(p)
          /\ \A q \in Procs : ahead'[q] = ahead[q] \ {p}
          /\ \A q \in Procs : Past(q)' => Past(q)
      BY <2>3 DEF LocalRelease, LocalRequests, Goto, TypeOK, Past
    <3>2. \A q \in Procs : Past(q)' => ahead'[q] = {}
      BY <3>1 DEF LocalInv
    <3>3. ASSUME NEW a \in LocalRequests', NEW b \in LocalRequests', a # b,
                 Prio[a] = Prio[b]
          PROVE  a \in ahead'[b] \/ b \in ahead'[a]
      <4>1. a \in LocalRequests \ {p} /\ b \in LocalRequests \ {p}
        BY <3>1
      <4>2. a \in ahead[b] \/ b \in ahead[a]
        BY <3>3, <4>1 DEF LocalInv
      <4>3. a \in Procs /\ b \in Procs
        BY <4>1 DEF LocalRequests
      <4> QED
        BY <3>1, <4>1, <4>2, <4>3
    <3> QED
      BY <3>2, <3>3 DEF LocalInv
  <2>4. ASSUME NEW p \in Procs, FreeOwner(p) PROVE LocalInv'
    <3>1. /\ LocalRequests' = LocalRequests /\ ahead' = ahead
          /\ \A q \in Procs : Past(q)' => Past(q)
      BY <2>4 DEF FreeOwner, LocalRequests, Goto, TypeOK, Past
    <3>2. \A q \in Procs : Past(q)' => ahead'[q] = {}
      BY <3>1 DEF LocalInv
    <3> QED
      BY <3>1, <3>2 DEF LocalInv
  <2>5. CASE UNCHANGED vars
    BY <2>5 DEF vars, LocalInv, LocalRequests, Past
  <2> QED
    BY <2>1, <2>2, <2>3, <2>4, <2>5 DEF Next, Unlock
<1> QED
  BY <1>1, <1>2, Typing, PTL DEF Spec

(***************************************************************************)
(* Hence one thread per task is past its local lock.                       *)
(***************************************************************************)
LEMMA OnePast ==
  ASSUME LocalInv, NEW p \in Procs, NEW q \in Procs, Past(p), Past(q),
         Prio[p] = Prio[q]
  PROVE  p = q
BY DEF LocalInv, LocalRequests, Past

(***************************************************************************)
(* With local locks no other thread of its task clears the bit of an       *)
(* announced request.                                                      *)
(***************************************************************************)
THEOREM PrioAnnouncedIsVisible ==
  ASSUME LocalFifo
  PROVE  Spec => []AnnouncedIsVisible
<1>1. Init => AnnouncedIsVisible
  BY DEF Init, AnnouncedIsVisible, Announced
<1>2. TypeOK /\ LocalInv /\ AnnouncedIsVisible /\ [Next]_vars => AnnouncedIsVisible'
  <2> SUFFICES ASSUME TypeOK, LocalInv, AnnouncedIsVisible, [Next]_vars,
                      NEW q \in Procs, pc'[q] \in Active
               PROVE  Prio[q] \in waiters'
    BY DEF AnnouncedIsVisible, Announced, Active
  <2>1. ASSUME NEW p \in Procs, LocalRequest(p) \/ LocalGrant(p) \/ LookFirst(p)
                                \/ Look(p) \/ CheckBit(p) \/ TryFirst(p) \/ Try(p)
                                \/ LocalRelease(p) \/ FreeOwner(p)
        PROVE  Prio[q] \in waiters'
    <3>1. waiters' = waiters
      BY <2>1 DEF LocalRequest, LocalGrant, LookFirst, Look, CheckBit, TryFirst, Try,
                  LocalRelease, FreeOwner
    <3>2. pc[q] \in Active
      BY <2>1 DEF LocalRequest, LocalGrant, LookFirst, Look, CheckBit, TryFirst, Try,
                  LocalRelease, FreeOwner, Goto, Active, TypeOK
    <3> QED
      BY <3>1, <3>2 DEF AnnouncedIsVisible, Announced, Active
  <2>2. ASSUME NEW p \in Procs, Announce(p) PROVE Prio[q] \in waiters'
    BY <2>2 DEF Announce, Goto, Active, TypeOK, AnnouncedIsVisible, Announced
  <2>3. ASSUME NEW p \in Procs, Retract(p) PROVE Prio[q] \in waiters'
    <3>1. q # p /\ pc[q] \in Active /\ Past(p) /\ Past(q)
      BY <2>3 DEF Retract, Goto, Active, TypeOK, Past
    <3>2. Prio[q] # Prio[p]
      BY <3>1, OnePast
    <3> QED
      BY <2>3, <3>1, <3>2 DEF Retract, AnnouncedIsVisible, Announced, Active
  <2>4. CASE UNCHANGED vars
    BY <2>4 DEF vars, AnnouncedIsVisible, Announced, Active
  <2> QED
    BY <2>1, <2>2, <2>3, <2>4 DEF Next, Lock, Unlock
<1> QED
  BY <1>1, <1>2, Typing, LocalCorrect, PTL DEF Spec

-------------------------------------------------------------------------------
(***************************************************************************)
(* A lower task that has overtaken an announced request has no thread left *)
(* that had looked at waiters before the request was announced.  Any other *)
(* thread of it finds the bit.                                             *)
(***************************************************************************)
OvertakeInv ==
  \A p \in Procs, t \in Prios :
    Announced(p) /\ passed[p][t] # 0
      => /\ passed[p][t] = 1
         /\ \A q \in Procs : Prio[q] = t => Prio[p] < t /\ pc[q] \notin {"try1", "try"}

LEMMA OvertakeStep ==
  ASSUME TypeOK, LocalInv, AnnouncedIsVisible, OvertakeInv, [Next]_vars
  PROVE  OvertakeInv'
<1> SUFFICES ASSUME NEW p \in Procs, NEW t \in Prios, pc'[p] \in Active,
                    passed'[p][t] # 0
             PROVE  /\ passed'[p][t] = 1
                    /\ \A q \in Procs : Prio[q] = t => /\ Prio[p] < t
                                                       /\ pc'[q] \notin {"try1", "try"}
  BY DEF OvertakeInv, Announced, Active
<1> DEFINE Goal ==
      /\ passed'[p][t] = 1
      /\ \A q \in Procs : Prio[q] = t => Prio[p] < t /\ pc'[q] \notin {"try1", "try"}
<1>0. ASSUME pc[p] \in Active, passed'[p][t] = passed[p][t],
             \A q \in Procs : pc'[q] \in {"try1", "try"} => pc[q] \in {"try1", "try"}
      PROVE  Goal
  BY <1>0 DEF OvertakeInv, Announced, Active
<1>1. ASSUME NEW r \in Procs, Announce(r) PROVE Goal
  <2>1. r # p
    BY <1>1 DEF Announce, TypeOK
  <2>2. pc[p] \in Active /\ passed'[p] = passed[p]
    BY <1>1, <2>1 DEF Announce, Goto, TypeOK
  <2>3. \A q \in Procs : pc'[q] \in {"try1", "try"} => pc[q] \in {"try1", "try"}
    BY <1>1 DEF Announce, Goto, TypeOK
  <2> QED
    BY <1>0, <2>2, <2>3
<1>2. ASSUME NEW r \in Procs, LookFirst(r) \/ Look(r) PROVE Goal
  <2>1. passed' = passed /\ pc[p] \in Active
    BY <1>2 DEF LookFirst, Look, Goto, TypeOK, Active
  <2>2. /\ passed[p][t] = 1
        /\ \A q \in Procs : Prio[q] = t => Prio[p] < t /\ pc[q] \notin {"try1", "try"}
    BY <2>1 DEF OvertakeInv, Announced, Active
  <2>3. Prio[p] \in waiters
    BY <2>1 DEF AnnouncedIsVisible, Announced, Active
  <2>4. ASSUME NEW q \in Procs, Prio[q] = t PROVE pc'[q] \notin {"try1", "try"}
    <3>1. Prio[p] \in waiters \cap Higher(q) /\ pc[q] \notin {"try1", "try"}
      BY <2>2, <2>3, <2>4 DEF Higher
    <3> QED
      BY <1>2, <3>1 DEF LookFirst, Look, Goto, TypeOK
  <2> QED
    BY <2>1, <2>2, <2>4
<1>3. ASSUME NEW r \in Procs, TryFirst(r) \/ Try(r) PROVE Goal
  <2>1. pc[p] \in Active
    BY <1>3 DEF TryFirst, Try, Goto, TypeOK, Active
  <2>2. \A q \in Procs : pc'[q] \in {"try1", "try"} => pc[q] \in {"try1", "try"} /\ q # r
    BY <1>3 DEF TryFirst, Try, Goto, TypeOK
  <2>3. CASE passed'[p] = passed[p]
    BY <1>0, <2>1, <2>2, <2>3
  <2>4. CASE passed'[p] # passed[p]
    <3>1. CasOwner(r)
      BY <1>3, <2>4 DEF TryFirst, Try
    <3>2. /\ Prio[p] < Prio[r]
          /\ passed'[p] = [passed[p] EXCEPT ![Prio[r]] = passed[p][Prio[r]] + 1]
      BY <2>4, <3>1 DEF CasOwner
    <3>3. pc[r] \in {"try1", "try"} /\ passed[p] \in [Prios -> 0 .. 2]
      BY <1>3 DEF TryFirst, Try, Goto, TypeOK
    <3>4. CASE t = Prio[r]
      <4>1. passed[p][t] = 0
        BY <2>1, <3>3, <3>4 DEF OvertakeInv, Announced, Active
      <4>2. passed'[p][t] = 1
        BY <3>2, <3>3, <3>4, <4>1
      <4>3. ASSUME NEW q \in Procs, Prio[q] = t PROVE pc'[q] \notin {"try1", "try"}
        BY <2>2, <3>3, <3>4, <4>3, OnePast DEF Past
      <4> QED
        BY <3>2, <3>4, <4>2, <4>3
    <3>5. CASE t # Prio[r]
      <4>1. passed'[p][t] = passed[p][t]
        BY <3>2, <3>3, <3>5
      <4> QED
        BY <1>0, <2>1, <2>2, <4>1
    <3> QED
      BY <3>4, <3>5
  <2> QED
    BY <2>3, <2>4
<1>4. ASSUME NEW r \in Procs, LocalRequest(r) \/ LocalGrant(r) \/ CheckBit(r)
                              \/ Retract(r) \/ LocalRelease(r) \/ FreeOwner(r)
      PROVE  Goal
  <2>1. pc[p] \in Active
    BY <1>4 DEF LocalRequest, LocalGrant, CheckBit, Retract, LocalRelease, FreeOwner,
                Goto, TypeOK, Active
  <2>2. passed' = passed
    BY <1>4 DEF LocalRequest, LocalGrant, CheckBit, Retract, LocalRelease, FreeOwner
  <2>3. \A q \in Procs : pc'[q] \in {"try1", "try"} => pc[q] \in {"try1", "try"}
    BY <1>4 DEF LocalRequest, LocalGrant, CheckBit, Retract, LocalRelease, FreeOwner,
                Goto, TypeOK
  <2> QED
    BY <1>0, <2>1, <2>2, <2>3
<1>5. CASE UNCHANGED vars
  BY <1>0, <1>5 DEF vars
<1> QED
  BY <1>1, <1>2, <1>3, <1>4, <1>5 DEF Next, Lock, Unlock

(***************************************************************************)
(* An announced request waits for at most one critical section of each     *)
(* lower task, for every number of tasks and threads, when each task has a *)
(* local FIFO lock.                                                        *)
(***************************************************************************)
THEOREM PrioOvertakenOncePerTask ==
  ASSUME LocalFifo
  PROVE  Spec => []OvertakenOncePerTask
<1>1. Init => OvertakeInv
  BY DEF Init, OvertakeInv, Announced
<1>2. TypeOK /\ OvertakeInv => OvertakenOncePerTask
  BY DEF TypeOK, OvertakeInv, OvertakenOncePerTask
<1>3. Spec => []OvertakeInv
  BY <1>1, OvertakeStep, Typing, LocalCorrect, PrioAnnouncedIsVisible, PTL DEF Spec
<1> QED
  BY <1>2, <1>3, Typing, PTL

-------------------------------------------------------------------------------
(***************************************************************************)
(* The requests ahead of a thread at its local lock are of its own task.   *)
(***************************************************************************)
OwnTaskAhead == \A p, q \in Procs : q \in ahead[p] => Prio[q] = Prio[p]

LEMMA OwnTaskCorrect == Spec => []OwnTaskAhead
<1>1. Init => OwnTaskAhead
  BY DEF Init, OwnTaskAhead
<1>2. TypeOK /\ OwnTaskAhead /\ [Next]_vars => OwnTaskAhead'
  <2> SUFFICES ASSUME TypeOK, OwnTaskAhead, [Next]_vars PROVE OwnTaskAhead'
    OBVIOUS
  <2>1. ASSUME NEW p \in Procs, LocalRequest(p) PROVE OwnTaskAhead'
    BY <2>1 DEF LocalRequest, LocalRequests, Team, OwnTaskAhead, TypeOK
  <2>2. ASSUME NEW p \in Procs, LocalRelease(p) PROVE OwnTaskAhead'
    BY <2>2 DEF LocalRelease, OwnTaskAhead, TypeOK
  <2>3. ASSUME NEW p \in Procs, Lock(p) \/ FreeOwner(p) PROVE OwnTaskAhead'
    <3>1. ahead' = ahead
      BY <2>3 DEF Lock, LocalGrant, LookFirst, TryFirst, Announce, Look, CheckBit,
                  Try, Retract, FreeOwner
    <3> QED
      BY <3>1 DEF OwnTaskAhead
  <2>4. CASE UNCHANGED vars
    BY <2>4 DEF vars, OwnTaskAhead
  <2> QED
    BY <2>1, <2>2, <2>3, <2>4 DEF Next, Unlock
<1> QED
  BY <1>1, <1>2, Typing, PTL DEF Spec

(***************************************************************************)
(* A step of a thread is, for the local lock of its task, a step of the    *)
(* FIFO lock or none, and none for the local lock of any other task.       *)
(***************************************************************************)
Members(t) == {p \in Procs : Prio[p] = t}
Callers(t) == {p \in LocalRequests : Prio[p] = t}
Served(t) == {p \in LocalRequests : Prio[p] = t /\ pc[p] # "local"}
AheadIn(t) == [p \in Members(t) |-> ahead[p]]

LEMMA LocalStep ==
  ASSUME LocalFifo, TypeOK, LocalInv, OwnTaskAhead, NEW t \in Prios, [Next]_vars
  PROVE  \/ \E p \in Members(t) :
               \/ /\ p \notin Callers(t)
                  /\ Callers(t)' = Callers(t) \cup {p}
                  /\ AheadIn(t)' = [AheadIn(t) EXCEPT ![p] = Callers(t)]
                  /\ Served(t)' = Served(t)
               \/ /\ p \in Callers(t) /\ Served(t) = {} /\ AheadIn(t)[p] = {}
                  /\ Served(t)' = {p}
                  /\ Callers(t)' = Callers(t) /\ AheadIn(t)' = AheadIn(t)
               \/ /\ p \in Served(t)
                  /\ Callers(t)' = Callers(t) \ {p}
                  /\ Served(t)' = Served(t) \ {p}
                  /\ AheadIn(t)' = [q \in Members(t) |-> AheadIn(t)[q] \ {p}]
         \/ /\ Callers(t)' = Callers(t) /\ Served(t)' = Served(t)
            /\ AheadIn(t)' = AheadIn(t)
<1> USE DEF Members, Callers, Served, AheadIn, LocalRequests
<1>1. ASSUME NEW p \in Procs, LocalRequest(p), Prio[p] = t
      PROVE  /\ p \notin Callers(t)
             /\ Callers(t)' = Callers(t) \cup {p}
             /\ AheadIn(t)' = [AheadIn(t) EXCEPT ![p] = Callers(t)]
             /\ Served(t)' = Served(t)
  <2>1. LocalRequests \cap Team(p) = Callers(t)
    BY <1>1 DEF Team
  <2> QED
    BY <1>1, <2>1 DEF LocalRequest, Goto, TypeOK
<1>2. ASSUME NEW p \in Procs, LocalGrant(p), Prio[p] = t
      PROVE  /\ p \in Callers(t) /\ Served(t) = {} /\ AheadIn(t)[p] = {}
             /\ Served(t)' = {p}
             /\ Callers(t)' = Callers(t) /\ AheadIn(t)' = AheadIn(t)
  <2>1. p \in Callers(t) /\ AheadIn(t)[p] = {} /\ ahead' = ahead
    BY <1>2 DEF LocalGrant, Goto, TypeOK
  <2>2. \A q \in Procs : pc'[q] = IF q = p THEN "look1" ELSE pc[q]
    BY <1>2 DEF LocalGrant, Goto, TypeOK
  <2>3. pc[p] = "local" /\ ahead[p] = {}
    BY <1>2 DEF LocalGrant, Goto
  <2>4. \A q \in Served(t) : FALSE
    BY <1>2, <2>3 DEF LocalInv, Past, TypeOK
  <2> QED
    BY <2>1, <2>2, <2>3, <2>4
<1>3. ASSUME NEW p \in Procs, LocalRelease(p), Prio[p] = t
      PROVE  /\ p \in Served(t)
             /\ Callers(t)' = Callers(t) \ {p}
             /\ Served(t)' = Served(t) \ {p}
             /\ AheadIn(t)' = [q \in Members(t) |-> AheadIn(t)[q] \ {p}]
  BY <1>3 DEF LocalRelease, Goto, TypeOK
<1>4. ASSUME NEW p \in Procs,
             \/ LookFirst(p) \/ TryFirst(p) \/ Announce(p) \/ Look(p) \/ CheckBit(p)
             \/ Try(p) \/ Retract(p) \/ FreeOwner(p)
      PROVE  /\ Callers(t)' = Callers(t) /\ Served(t)' = Served(t)
             /\ AheadIn(t)' = AheadIn(t)
  <2>1. /\ pc[p] \notin {"idle", "local"} /\ pc'[p] # "local"
        /\ pc[p] = "free" <=> pc'[p] = "idle"
        /\ pc'[p] # "free"
        /\ \A q \in Procs : q # p => pc'[q] = pc[q]
    BY <1>4 DEF LookFirst, TryFirst, Announce, Look, CheckBit, Try, Retract,
                FreeOwner, Goto, TypeOK
  <2>2. ahead' = ahead
    BY <1>4 DEF LookFirst, TryFirst, Announce, Look, CheckBit, Try, Retract, FreeOwner
  <2> QED
    BY <2>1, <2>2
<1>5. ASSUME NEW p \in Procs, LocalRequest(p) \/ LocalGrant(p) \/ LocalRelease(p),
             Prio[p] # t
      PROVE  /\ Callers(t)' = Callers(t) /\ Served(t)' = Served(t)
             /\ AheadIn(t)' = AheadIn(t)
  <2>1. Callers(t)' = Callers(t) /\ Served(t)' = Served(t)
    BY <1>5 DEF LocalRequest, LocalGrant, LocalRelease, Goto, TypeOK
  <2>2. ASSUME NEW q \in Procs, Prio[q] = t PROVE ahead'[q] = ahead[q]
    <3>1. p \notin ahead[q]
      BY <1>5, <2>2 DEF OwnTaskAhead
    <3>2. q # p /\ (ahead'[q] = ahead[q] \/ ahead'[q] = ahead[q] \ {p})
      BY <1>5, <2>2 DEF LocalRequest, LocalGrant, LocalRelease, TypeOK
    <3> QED
      BY <3>1, <3>2
  <2> QED
    BY <2>1, <2>2
<1>6. CASE UNCHANGED vars
  BY <1>6 DEF vars
<1> QED
  BY <1>1, <1>2, <1>3, <1>4, <1>5, <1>6 DEF Next, Lock, Unlock

(***************************************************************************)
(* Where each task has a local lock, its threads call and leave it as one  *)
(* may a FIFO lock, for every number of tasks and of threads: in spite of  *)
(* the early release nobody is granted it who is not at the head.          *)
(***************************************************************************)
THEOREM PrioLocalLocksAreFifo ==
  ASSUME LocalFifo
  PROVE  Spec => LocalLocksAreFifo
<1>1. Init => \A t \in Prios : Local(t)!Init
  BY DEF Init, Local!Init, LocalRequests
<1>2. TypeOK /\ LocalInv /\ OwnTaskAhead /\ [Next]_vars
        => [\A t \in Prios : Local(t)!Next \/ UNCHANGED Local(t)!vars]_vars
  <2> SUFFICES ASSUME TypeOK, LocalInv, OwnTaskAhead, [Next]_vars, NEW t \in Prios
               PROVE  Local(t)!Next \/ UNCHANGED Local(t)!vars
    OBVIOUS
  <2> QED
    BY LocalStep
    DEF Local!Next, Local!Request, Local!Grant, Local!Release, Local!vars,
        Members, Callers, Served, AheadIn
<1> QED
  BY <1>1, <1>2, Typing, LocalCorrect, OwnTaskCorrect, PTL DEF Spec, LocalLocksAreFifo
===============================================================================
