--------------------------- MODULE Partition_proofs ---------------------------
(***************************************************************************)
(* Proofs about the schedulability test and the partition that is written  *)
(* after it, for every set of tasks and resources, every number of         *)
(* processors and every result of a division by zero:                      *)
(*   - the verdict "schedulable" rests on the allocation, the priorities   *)
(*     and the blocking bounds that are written out with it;               *)
(*   - the unsigned arithmetic of alloc_proc is exact;                     *)
(*   - the allocation is the least one that the bounds support, and a task *)
(*     set is given up only if there is none;                              *)
(*   - the cores that are written are those of the allocation.             *)
(*                                                                         *)
(* The second and the third rest on one fact about the bounds of           *)
(* BlockingBounds, BlockingMonotone: they are natural numbers that only    *)
(* grow when tasks get more processors.  The first part of this module     *)
(* works its way up to it, from single terms over the sums to the bounds   *)
(* of a task.  The first and the last need nothing of the bounds but that  *)
(* they are functions of the task set, the priorities and the allocation.  *)
(***************************************************************************)
EXTENDS Partition, SumTheorems, TLAPS

-------------------------------------------------------------------------------
(* Arithmetic. *)

\* A quotient rounded up is the least number that is enough.
LEMMA CeilingIsLeast ==
  ASSUME NEW s \in Nat \ {0}, NEW w \in Nat, NEW a \in Nat
  PROVE  ((w + s - 1) \div s <= a) <=> (w <= a * s)
  OBVIOUS

\* The quotient of natural numbers is one.
LEMMA DivNat ==
  ASSUME NEW s \in Nat \ {0}, NEW w \in Nat
  PROVE  w \div s \in Nat
  OBVIOUS

\* Division keeps the order.
LEMMA DivMonotone ==
  ASSUME NEW s \in Nat \ {0}, NEW w \in Nat, NEW v \in Nat, v <= w
  PROVE  v \div s <= w \div s
  OBVIOUS

\* A product grows with its factors.
LEMMA TimesMonotone ==
  ASSUME NEW a \in Nat, NEW b \in Nat, NEW c \in Nat, NEW d \in Nat, a <= b, c <= d
  PROVE  a * c \in Nat /\ a * c <= b * d
<1>1. a * c <= b * c
  OBVIOUS
<1>2. b * c <= b * d
  OBVIOUS
<1>3. a * c \in Nat /\ b * c \in Nat /\ b * d \in Nat
  OBVIOUS
<1> QED
  BY <1>1, <1>2, <1>3

\* A product with a positive factor is at least the other one.
LEMMA TimesAtLeast ==
  ASSUME NEW a \in Nat \ {0}, NEW k \in Nat
  PROVE  k <= a * k
<1>1. a - 1 \in Nat /\ (a - 1) * k = a * k - k /\ a * k \in Nat
  OBVIOUS
<1>2. (a - 1) * k >= 0
  BY <1>1
<1> QED
  BY <1>1, <1>2

\* The sum of the numbers below p.
LEMMA Triangle ==
  ASSUME NEW p \in Int
  PROVE  2 * ((p * (p - 1)) \div 2) = p * (p - 1) /\ (p * (p - 1)) \div 2 \in Int
<1>1. PICK q \in Int : p = 2 * q \/ p = 2 * q + 1
  <2>1. p \div 2 \in Int /\ (p = 2 * (p \div 2) \/ p = 2 * (p \div 2) + 1)
    OBVIOUS
  <2> QED
    BY <2>1
<1>2. CASE p = 2 * q
  <2>1. p * (p - 1) = 2 * (q * (p - 1))
    BY <1>2
  <2> DEFINE z == q * (p - 1)
  <2>2. z \in Int
    OBVIOUS
  <2> HIDE DEF z
  <2>3. (2 * z) \div 2 = z
    BY <2>2
  <2> QED
    BY <2>1, <2>2, <2>3 DEF z
<1>3. CASE p = 2 * q + 1
  <2>1. p * (p - 1) = 2 * (p * q)
    BY <1>3
  <2> DEFINE z == p * q
  <2>2. z \in Int
    OBVIOUS
  <2> HIDE DEF z
  <2>3. (2 * z) \div 2 = z
    BY <2>2
  <2> QED
    BY <2>1, <2>2, <2>3 DEF z
<1> QED
  BY <1>1, <1>2, <1>3

\* The lesser of two natural numbers is one, and no more than either.
LEMMA MinNat ==
  ASSUME NEW a \in Nat, NEW b \in Nat
  PROVE  Min({a, b}) \in Nat /\ Min({a, b}) <= a /\ Min({a, b}) <= b
<1>1. a \in Int /\ b \in Int
  OBVIOUS
<1> QED
  BY <1>1, MinTwo

\* The lesser of two numbers grows with both.
LEMMA MinMonotone ==
  ASSUME NEW a \in Nat, NEW b \in Nat, NEW c \in Nat, NEW d \in Nat, a <= c, b <= d
  PROVE  Min({a, b}) <= Min({c, d})
<1>1. a \in Int /\ b \in Int /\ c \in Int /\ d \in Int
  OBVIOUS
<1>2. Min({a, b}) = IF a <= b THEN a ELSE b
  BY <1>1, MinTwo
<1>3. Min({c, d}) = IF c <= d THEN c ELSE d
  BY <1>1, MinTwo
<1> QED
  BY <1>2, <1>3

-------------------------------------------------------------------------------
(* The tasks and their jobs. *)

\* Every task has a processor.
Allocations == [Tasks -> Nat \ {0}]

AtMost(p, q) == \A t \in Tasks : p[t] <= q[t]

\* What the generators guarantee of one task.
LEMMA TaskIsNat ==
  ASSUME NEW set \in TaskSets, NEW t \in Tasks
  PROVE  /\ set[t].period \in Nat \ {0} /\ set[t].span \in Nat /\ set[t].wcet \in Nat
         /\ set[t].span < set[t].period /\ set[t].span < set[t].wcet
         /\ \A r \in Resources : set[t].req[r] \in Nat /\ set[t].cs[r] \in Nat
<1>1. /\ set[t].period \in Nat /\ set[t].span \in Nat /\ set[t].wcet \in Nat
      /\ set[t].span < set[t].period /\ set[t].span < set[t].wcet
      /\ \A r \in Resources : set[t].req[r] \in Nat /\ set[t].cs[r] \in Nat
  BY GeneratedTaskSets, Zenon
<1> QED
  BY <1>1

\* The groups of tasks that the bounds sum over are finite.
LEMMA GroupsAreFinite ==
  ASSUME NEW set, NEW f, NEW t \in Tasks, NEW r
  PROVE  /\ IsFiniteSet(Interfering(set, t, r)) /\ Interfering(set, t, r) \subseteq Tasks
         /\ IsFiniteSet(Higher(set, f, t, r)) /\ Higher(set, f, t, r) \subseteq Tasks
         /\ IsFiniteSet(Lower(set, f, t, r)) /\ Lower(set, f, t, r) \subseteq Tasks
         /\ IsFiniteSet(Equal(set, f, t, r)) /\ Equal(set, f, t, r) \subseteq Tasks
<1>1. /\ Interfering(set, t, r) \subseteq Tasks /\ Higher(set, f, t, r) \subseteq Tasks
      /\ Lower(set, f, t, r) \subseteq Tasks /\ Equal(set, f, t, r) \subseteq Tasks
  BY DEF Interfering, Higher, Lower, Equal
<1>2. IsFiniteSet(Tasks)
  BY BoundsConstants
<1>3. \A S : S \subseteq Tasks => IsFiniteSet(S)
  BY <1>2, FS_Subset
<1> QED
  BY <1>1, <1>3

\* So are the sets of resources.
LEMMA SharedIsFinite ==
  ASSUME NEW set, NEW t
  PROVE  /\ IsFiniteSet(Shared(set, t)) /\ Shared(set, t) \subseteq Own(set, t)
         /\ Own(set, t) \subseteq Resources
<1>1. Shared(set, t) \subseteq Own(set, t) /\ Own(set, t) \subseteq Resources
  BY DEF Shared, Own
<1>2. IsFiniteSet(Resources)
  BY BoundsConstants
<1>3. \A S : S \subseteq Resources => IsFiniteSet(S)
  BY <1>2, FS_Subset
<1> QED
  BY <1>1, <1>3

\* The number of jobs in an interval is a positive number.
LEMMA JobsNat ==
  ASSUME NEW set \in TaskSets, NEW x \in Tasks, NEW len \in Nat
  PROVE  NJobs(set[x], len) \in Nat
<1>1. set[x].period \in Nat \ {0}
  BY TaskIsNat
<1> DEFINE k == set[x].period
<1>2. k \in Nat \ {0} /\ len + k \in Nat
  BY <1>1
<1> HIDE DEF k
<1>3. (len + k) \div k \in Nat
  BY <1>2, DivNat
<1> QED
  BY <1>3 DEF NJobs, k

\* A longer interval has no fewer jobs.
LEMMA JobsMonotone ==
  ASSUME NEW set \in TaskSets, NEW x \in Tasks, NEW len \in Nat, NEW more \in Nat, len <= more
  PROVE  NJobs(set[x], len) <= NJobs(set[x], more)
<1>1. set[x].period \in Nat \ {0}
  BY TaskIsNat
<1> DEFINE k == set[x].period
<1>2. k \in Nat \ {0} /\ len + k \in Nat /\ more + k \in Nat /\ len + k <= more + k
  BY <1>1
<1> HIDE DEF k
<1>3. (len + k) \div k <= (more + k) \div k
  BY <1>2, DivMonotone
<1> QED
  BY <1>3 DEF NJobs, k

\* The number of requests of another task is a natural number.
LEMMA PendingNat ==
  ASSUME NEW set \in TaskSets, NEW t \in Tasks, NEW x \in Tasks, NEW r \in Resources
  PROVE  Pending(set, t, x, r) \in Nat
<1>1. NJobs(set[x], set[t].period) \in Nat
  BY TaskIsNat, JobsNat
<1>2. set[x].req[r] \in Nat
  BY TaskIsNat
<1> QED
  BY <1>1, <1>2 DEF Pending

-------------------------------------------------------------------------------
(* Waiting for the task's own processors. *)

\* Waiting for the own processors is a natural number ...
LEMMA SelfWaitNat ==
  ASSUME NEW set \in TaskSets, NEW p \in Allocations, NEW t \in Tasks, NEW r \in Resources,
         NEW i \in 0 .. set[t].req[r]
  PROVE  SelfWait(set, p, t, r, i) \in Nat
<1>1. set[t].req[r] \in Nat /\ set[t].cs[r] \in Nat /\ p[t] \in Nat \ {0}
  BY TaskIsNat DEF Allocations
<1>2. (p[t] - 1) * i \in Nat /\ set[t].req[r] - i \in Nat
  <2>1. p[t] - 1 \in Nat /\ i \in Nat /\ i <= set[t].req[r]
    BY <1>1
  <2> QED
    BY <2>1, <1>1
<1>3. Min({(p[t] - 1) * i, set[t].req[r] - i}) \in Nat
  BY <1>2, MinNat
<1> QED
  BY <1>1, <1>3 DEF SelfWait

\* ... and grows with them.
LEMMA SelfWaitMonotone ==
  ASSUME NEW set \in TaskSets, NEW p \in Allocations, NEW q \in Allocations, AtMost(p, q),
         NEW t \in Tasks, NEW r \in Resources, NEW i \in 0 .. set[t].req[r]
  PROVE  SelfWait(set, p, t, r, i) <= SelfWait(set, q, t, r, i)
<1>1. /\ set[t].req[r] \in Nat /\ set[t].cs[r] \in Nat
      /\ p[t] \in Nat \ {0} /\ q[t] \in Nat \ {0} /\ p[t] <= q[t]
  BY TaskIsNat DEF Allocations, AtMost
<1>2. p[t] - 1 \in Nat /\ q[t] - 1 \in Nat /\ p[t] - 1 <= q[t] - 1 /\ i \in Nat /\ i <= set[t].req[r]
  BY <1>1
<1>3. (p[t] - 1) * i \in Nat /\ (q[t] - 1) * i \in Nat /\ (p[t] - 1) * i <= (q[t] - 1) * i
  BY <1>2, TimesMonotone
<1>4. set[t].req[r] - i \in Nat
  BY <1>1, <1>2
<1> DEFINE a == Min({(p[t] - 1) * i, set[t].req[r] - i})
           b == Min({(q[t] - 1) * i, set[t].req[r] - i})
<1>5. a \in Nat /\ b \in Nat
  BY <1>3, <1>4, MinNat
<1>6. a <= b
  BY <1>3, <1>4, MinMonotone
<1> HIDE DEF a, b
<1>7. a * set[t].cs[r] <= b * set[t].cs[r]
  BY <1>1, <1>5, <1>6, TimesMonotone
<1> QED
  BY <1>7 DEF SelfWait, a, b

\* How often the processors of a task wait for each other, with n requests on
\* p processors.
SelfCount(n, p) ==
  IF n < p THEN (n * (n - 1)) \div 2 ELSE (p - 1) * (n - p) + (p * (p - 1)) \div 2

\* Twice the number of waits for the own processors, without a division.
LEMMA SelfCountDouble ==
  ASSUME NEW n \in Nat, NEW p \in Nat \ {0}
  PROVE  /\ SelfCount(n, p) \in Int
         /\ n < p => 2 * SelfCount(n, p) = n * (n - 1)
         /\ n >= p => 2 * SelfCount(n, p) = (p - 1) * (2 * n - p)
<1>1. CASE n < p
  BY <1>1, Triangle DEF SelfCount
<1>2. CASE n >= p
  <2> DEFINE h == (p * (p - 1)) \div 2
  <2>1. h \in Int /\ 2 * h = p * (p - 1)
    BY Triangle
  <2>2. SelfCount(n, p) = (p - 1) * (n - p) + h
    BY <1>2 DEF SelfCount
  <2> HIDE DEF h
  <2>3. (p - 1) * (2 * n - p) = 2 * ((p - 1) * (n - p)) + p * (p - 1)
    OBVIOUS
  <2> QED
    BY <1>2, <2>1, <2>2, <2>3
<1> QED
  BY <1>1, <1>2

\* More processors of its own never give a task fewer waits,
LEMMA SelfCountMonotone ==
  ASSUME NEW n \in Nat, NEW p \in Nat \ {0}, NEW q \in Nat \ {0}, p <= q
  PROVE  SelfCount(n, p) <= SelfCount(n, q)
<1> DEFINE a == SelfCount(n, p)
           b == SelfCount(n, q)
<1>1. a \in Int /\ b \in Int
  BY SelfCountDouble
<1>2. /\ n < p => 2 * a = n * (n - 1)
      /\ n >= p => 2 * a = (p - 1) * (2 * n - p)
  BY SelfCountDouble
<1>3. /\ n < q => 2 * b = n * (n - 1)
      /\ n >= q => 2 * b = (q - 1) * (2 * n - q)
  BY SelfCountDouble
<1> SUFFICES a <= b
  OBVIOUS
<1> HIDE DEF a, b
<1>4. CASE n >= q
  <2>1. (q - 1) * (2 * n - q) - (p - 1) * (2 * n - p) = (q - p) * (2 * n - q - p + 1)
    OBVIOUS
  <2>2. (q - p) * (2 * n - q - p + 1) >= 0
    <3>1. q - p \in Nat /\ 2 * n - q - p + 1 \in Nat
      BY <1>4
    <3> QED
      BY <3>1
  <2>3. (p - 1) * (2 * n - p) \in Int /\ (q - 1) * (2 * n - q) \in Int
    OBVIOUS
  <2> QED
    BY <1>1, <1>2, <1>3, <1>4, <2>1, <2>2, <2>3
<1>5. CASE n < q /\ n >= p
  <2>1. n * (n - 1) - (p - 1) * (2 * n - p) = (n - p) * (n - p + 1)
    OBVIOUS
  <2>2. (n - p) * (n - p + 1) >= 0
    <3>1. n - p \in Nat /\ n - p + 1 \in Nat
      BY <1>5
    <3> QED
      BY <3>1
  <2>3. (p - 1) * (2 * n - p) \in Int /\ n * (n - 1) \in Int
    OBVIOUS
  <2> QED
    BY <1>1, <1>2, <1>3, <1>5, <2>1, <2>2, <2>3
<1>6. CASE n < p
  BY <1>1, <1>2, <1>3, <1>6
<1> QED
  BY <1>4, <1>5, <1>6

\* and there are no more waits than pairs of requests.
LEMMA SelfCountBounds ==
  ASSUME NEW n \in Nat, NEW p \in Nat \ {0}, NEW i \in 0 .. n
  PROVE  /\ SelfCount(n, p) \in Nat
         /\ SelfCount(n, p) <= n * n
         /\ Min({(p - 1) * i, n - i}) <= SelfCount(n, p)
<1>1. SelfCount(n, p) \in Int /\ SelfCount(n, 1) = 0
  <2>1. SelfCount(n, p) \in Int /\ SelfCount(n, 1) \in Int
    BY SelfCountDouble
  <2>2. 2 * SelfCount(n, 1) = 0
    <3>1. CASE n < 1
      BY <3>1, SelfCountDouble
    <3>2. CASE n >= 1
      BY <3>2, SelfCountDouble
    <3> QED
      BY <3>1, <3>2
  <2> QED
    BY <2>1, <2>2
<1>2. SelfCount(n, p) >= 0
  <2>1. SelfCount(n, 1) <= SelfCount(n, p)
    BY SelfCountMonotone
  <2> QED
    BY <1>1, <2>1
<1>3. SelfCount(n, p) <= n * n
  <2> DEFINE q == n + 1 + p
  <2>1. q \in Nat \ {0} /\ p <= q /\ n < q
    OBVIOUS
  <2>2. 2 * SelfCount(n, q) = n * (n - 1) /\ SelfCount(n, q) \in Int
    BY <2>1, SelfCountDouble
  <2>3. SelfCount(n, p) <= SelfCount(n, q)
    BY <2>1, SelfCountMonotone
  <2>4. n * (n - 1) = n * n - n /\ n * n \in Nat
    OBVIOUS
  <2> HIDE DEF q
  <2> QED
    BY <1>1, <2>2, <2>3, <2>4
<1>4. Min({(p - 1) * i, n - i}) <= SelfCount(n, p)
  <2>0. p - 1 \in Nat /\ i \in Nat /\ n - i \in Nat
    OBVIOUS
  <2>1. (p - 1) * i \in Nat
    BY <2>0, TimesMonotone
  <2>2. /\ Min({(p - 1) * i, n - i}) \in Nat
        /\ Min({(p - 1) * i, n - i}) <= (p - 1) * i /\ Min({(p - 1) * i, n - i}) <= n - i
    BY <2>0, <2>1, MinNat
  <2> DEFINE m == Min({(p - 1) * i, n - i})
  <2> SUFFICES m <= SelfCount(n, p)
    OBVIOUS
  <2>3. m \in Nat /\ m <= (p - 1) * i /\ m <= n - i
    BY <2>2
  <2> HIDE DEF m
  <2>4. CASE p = 1 \/ i = 0
    BY <1>1, <1>2, <2>3, <2>4
  <2>5. CASE p >= 2 /\ i >= 1 /\ n = 1
    BY <1>1, <1>2, <2>3, <2>5
  <2>6. CASE p >= 2 /\ i >= 1 /\ n >= 2
    <3>1. SelfCount(n, 2) \in Int /\ 2 * SelfCount(n, 2) = (2 - 1) * (2 * n - 2)
      BY <2>6, SelfCountDouble
    <3>2. SelfCount(n, 2) <= SelfCount(n, p)
      BY <2>6, SelfCountMonotone
    <3> QED
      BY <1>1, <2>3, <2>6, <3>1, <3>2
  <2> QED
    BY <2>4, <2>5, <2>6
<1> QED
  BY <1>1, <1>2, <1>3, <1>4

\* The waiting of all own processors is that number of critical sections ...
LEMMA SelfWorkCounts ==
  ASSUME NEW set, NEW p, NEW t, NEW r
  PROVE  SelfWork(set, p, t, r) = SelfCount(set[t].req[r], p[t]) * set[t].cs[r]
  BY DEF SelfWork, SelfCount

\* ... so it is a natural number, covers the waiting of each path ...
LEMMA SelfWorkBounds ==
  ASSUME NEW set \in TaskSets, NEW p \in Allocations, NEW t \in Tasks, NEW r \in Resources,
         NEW i \in 0 .. set[t].req[r]
  PROVE  /\ SelfWork(set, p, t, r) \in Nat
         /\ SelfWork(set, p, t, r) <= set[t].req[r] * set[t].req[r] * set[t].cs[r]
         /\ SelfWait(set, p, t, r, i) <= SelfWork(set, p, t, r)
<1> DEFINE n == set[t].req[r]
           c == set[t].cs[r]
           a == Min({(p[t] - 1) * i, n - i})
           b == SelfCount(n, p[t])
<1>1. n \in Nat /\ c \in Nat /\ p[t] \in Nat \ {0} /\ i \in 0 .. n
  BY TaskIsNat DEF Allocations
<1>2. (p[t] - 1) * i \in Nat /\ n - i \in Nat
  <2>1. p[t] - 1 \in Nat /\ i \in Nat /\ i <= n
    BY <1>1
  <2> QED
    BY <2>1, <1>1, TimesMonotone
<1>3. a \in Nat
  BY <1>2, MinNat
<1>4. b \in Nat /\ b <= n * n /\ a <= b
  BY <1>1, SelfCountBounds
<1>5. SelfWork(set, p, t, r) = b * c /\ SelfWait(set, p, t, r, i) = a * c
  BY SelfWorkCounts DEF SelfWait
<1> SUFFICES b * c \in Nat /\ b * c <= n * n * c /\ a * c <= b * c
  BY <1>5
<1> HIDE DEF a, b, c, n
<1>6. n * n \in Nat
  BY <1>1
<1> QED
  BY <1>1, <1>3, <1>4, <1>6, TimesMonotone

\* ... and grows with the processors.
LEMMA SelfWorkMonotone ==
  ASSUME NEW set \in TaskSets, NEW p \in Allocations, NEW q \in Allocations, AtMost(p, q),
         NEW t \in Tasks, NEW r \in Resources
  PROVE  SelfWork(set, p, t, r) <= SelfWork(set, q, t, r)
<1> DEFINE n == set[t].req[r]
           c == set[t].cs[r]
<1>1. n \in Nat /\ c \in Nat /\ p[t] \in Nat \ {0} /\ q[t] \in Nat \ {0} /\ p[t] <= q[t]
  BY TaskIsNat DEF Allocations, AtMost
<1>2. SelfCount(n, p[t]) \in Nat /\ SelfCount(n, q[t]) \in Nat
  <2>1. 0 \in 0 .. n
    BY <1>1
  <2> QED
    BY <1>1, <2>1, SelfCountBounds
<1>3. SelfCount(n, p[t]) <= SelfCount(n, q[t])
  BY <1>1, SelfCountMonotone
<1>4. SelfCount(n, p[t]) * c <= SelfCount(n, q[t]) * c
  BY <1>1, <1>2, <1>3, TimesMonotone
<1> QED
  BY <1>4, SelfWorkCounts

-------------------------------------------------------------------------------
(* What tasks of the same priority cost, and all tasks under FIFO order. *)

\* One term of the waiting for others: the least of two numbers of sections, of
\* the length c.
LEMMA TermNat ==
  ASSUME NEW a \in Nat, NEW b \in Nat, NEW c \in Nat
  PROVE  Min({a, b}) * c \in Nat /\ Min({a, b}) * c <= a * c /\ Min({a, b}) * c <= b * c
<1>1. Min({a, b}) \in Nat /\ Min({a, b}) <= a /\ Min({a, b}) <= b
  BY MinNat
<1> QED
  BY <1>1, TimesMonotone

\* The cost of another task of equal priority grows with both allocations.
LEMMA TermMonotone ==
  ASSUME NEW a \in Nat, NEW b \in Nat, NEW m \in Nat, NEW n \in Nat, NEW c \in Nat,
         a <= m, b <= n
  PROVE  Min({a, b}) * c <= Min({m, n}) * c
<1>1. Min({a, b}) \in Nat /\ Min({m, n}) \in Nat
  BY MinNat
<1>2. Min({a, b}) <= Min({m, n})
  BY MinMonotone
<1> QED
  BY <1>1, <1>2, TimesMonotone

\* The waiting for the tasks in S, each of which takes part with a number of
\* processors: along a path with i requests, and on all processors together.
PathSum(set, p, t, r, S, i) ==
  SumFunction([x \in S |-> Min({p[x] * i, Pending(set, t, x, r)}) * set[x].cs[r]])

WorkSum(set, p, t, r, S) ==
  SumFunction([x \in S |->
    Min({p[t] * Pending(set, t, x, r), p[x] * set[t].req[r]}) * set[x].cs[r]])

\* The cost of such tasks for one path: a natural number that grows.
LEMMA PathSumBounds ==
  ASSUME NEW set \in TaskSets, NEW p \in Allocations, NEW q \in Allocations, AtMost(p, q),
         NEW t \in Tasks, NEW r \in Resources, NEW S \in SUBSET Tasks,
         NEW i \in 0 .. set[t].req[r]
  PROVE  /\ PathSum(set, p, t, r, S, i) \in Nat
         /\ PathSum(set, p, t, r, S, i) <= PathSum(set, q, t, r, S, i)
         /\ PathSum(set, p, t, r, S, i) <= WorkSum(set, p, t, r, S)
<1> DEFINE F(g) == [x \in S |-> Min({g[x] * i, Pending(set, t, x, r)}) * set[x].cs[r]]
           W == [x \in S |-> Min({p[t] * Pending(set, t, x, r), p[x] * set[t].req[r]}) * set[x].cs[r]]
<1>1. IsFiniteSet(S)
  BY BoundsConstants, FS_Subset
<1>2. \A x \in S : /\ F(p)[x] \in Nat /\ F(q)[x] \in Nat /\ W[x] \in Nat
                   /\ F(p)[x] <= F(q)[x] /\ F(p)[x] <= W[x]
  <2> SUFFICES ASSUME NEW x \in S
               PROVE  /\ F(p)[x] \in Nat /\ F(q)[x] \in Nat /\ W[x] \in Nat
                      /\ F(p)[x] <= F(q)[x] /\ F(p)[x] <= W[x]
    OBVIOUS
  <2> DEFINE k == Pending(set, t, x, r)
             c == set[x].cs[r]
             n == set[t].req[r]
  <2>1. k \in Nat /\ c \in Nat /\ n \in Nat /\ i \in Nat /\ i <= n
    BY PendingNat, TaskIsNat
  <2>2. p[x] \in Nat \ {0} /\ q[x] \in Nat \ {0} /\ p[x] <= q[x] /\ p[t] \in Nat \ {0}
    BY DEF Allocations, AtMost
  <2>3. F(p)[x] = Min({p[x] * i, k}) * c /\ F(q)[x] = Min({q[x] * i, k}) * c
    OBVIOUS
  <2>4. W[x] = Min({p[t] * k, p[x] * n}) * c
    OBVIOUS
  <2>5. {p[t] * k, p[x] * n} = {p[x] * n, p[t] * k}
    OBVIOUS
  <2> HIDE DEF k, c, n, F, W
  <2>6. p[x] * i \in Nat /\ q[x] * i \in Nat /\ p[x] * i <= q[x] * i /\ p[x] * i <= p[x] * n
    BY <2>1, <2>2, TimesMonotone
  <2>7. p[x] * n \in Nat /\ p[t] * k \in Nat /\ k <= p[t] * k
    <3>1. k <= p[t] * k
      BY <2>1, <2>2, TimesAtLeast
    <3> QED
      BY <2>1, <2>2, <3>1, TimesMonotone
  <2>8. Min({p[x] * i, k}) * c \in Nat /\ Min({q[x] * i, k}) * c \in Nat
    BY <2>1, <2>6, TermNat
  <2>9. Min({p[x] * n, p[t] * k}) * c \in Nat
    BY <2>1, <2>7, TermNat
  <2>10. Min({p[x] * i, k}) * c <= Min({q[x] * i, k}) * c
    BY <2>1, <2>6, TermMonotone
  <2>11. Min({p[x] * i, k}) * c <= Min({p[x] * n, p[t] * k}) * c
    BY <2>1, <2>6, <2>7, TermMonotone
  <2> QED
    BY <2>3, <2>4, <2>5, <2>8, <2>9, <2>10, <2>11
<1>3. F(p) \in [S -> Nat] /\ F(q) \in [S -> Nat] /\ W \in [S -> Nat]
  BY <1>2
<1>4. PathSum(set, p, t, r, S, i) = SumFunction(F(p)) /\ PathSum(set, q, t, r, S, i) = SumFunction(F(q))
  BY DEF PathSum
<1>5. WorkSum(set, p, t, r, S) = SumFunction(W)
  BY DEF WorkSum
<1> HIDE DEF F, W
<1>6. SumFunction(F(p)) \in Nat
  BY <1>1, <1>3, FunSumNat
<1>7. SumFunction(F(p)) <= SumFunction(F(q))
  BY <1>1, <1>2, <1>3, FunSumMonotone
<1>8. SumFunction(F(p)) <= SumFunction(W)
  BY <1>1, <1>2, <1>3, FunSumMonotone
<1> QED
  BY <1>4, <1>5, <1>6, <1>7, <1>8

\* The same for all paths together, which cover each single one.
LEMMA WorkSumBounds ==
  ASSUME NEW set \in TaskSets, NEW p \in Allocations, NEW q \in Allocations, AtMost(p, q),
         NEW t \in Tasks, NEW r \in Resources, NEW S \in SUBSET Tasks
  PROVE  /\ WorkSum(set, p, t, r, S) \in Nat
         /\ WorkSum(set, p, t, r, S) <= WorkSum(set, q, t, r, S)
<1> DEFINE W(g) == [x \in S |-> Min({g[t] * Pending(set, t, x, r), g[x] * set[t].req[r]}) * set[x].cs[r]]
<1>1. IsFiniteSet(S)
  BY BoundsConstants, FS_Subset
<1>2. \A x \in S : W(p)[x] \in Nat /\ W(q)[x] \in Nat /\ W(p)[x] <= W(q)[x]
  <2> SUFFICES ASSUME NEW x \in S
               PROVE  W(p)[x] \in Nat /\ W(q)[x] \in Nat /\ W(p)[x] <= W(q)[x]
    OBVIOUS
  <2> DEFINE k == Pending(set, t, x, r)
             c == set[x].cs[r]
             n == set[t].req[r]
  <2>1. k \in Nat /\ c \in Nat /\ n \in Nat
    BY PendingNat, TaskIsNat
  <2>2. /\ p[x] \in Nat /\ q[x] \in Nat /\ p[x] <= q[x]
        /\ p[t] \in Nat /\ q[t] \in Nat /\ p[t] <= q[t]
    BY DEF Allocations, AtMost
  <2>3. W(p)[x] = Min({p[t] * k, p[x] * n}) * c /\ W(q)[x] = Min({q[t] * k, q[x] * n}) * c
    OBVIOUS
  <2> HIDE DEF k, c, n, W
  <2>4. /\ p[t] * k \in Nat /\ q[t] * k \in Nat /\ p[t] * k <= q[t] * k
        /\ p[x] * n \in Nat /\ q[x] * n \in Nat /\ p[x] * n <= q[x] * n
    BY <2>1, <2>2, TimesMonotone
  <2>5. Min({p[t] * k, p[x] * n}) * c \in Nat /\ Min({q[t] * k, q[x] * n}) * c \in Nat
    BY <2>1, <2>4, TermNat
  <2>6. Min({p[t] * k, p[x] * n}) * c <= Min({q[t] * k, q[x] * n}) * c
    BY <2>1, <2>4, TermMonotone
  <2> QED
    BY <2>3, <2>5, <2>6
<1>3. W(p) \in [S -> Nat] /\ W(q) \in [S -> Nat]
  BY <1>2
<1>4. WorkSum(set, p, t, r, S) = SumFunction(W(p)) /\ WorkSum(set, q, t, r, S) = SumFunction(W(q))
  BY DEF WorkSum
<1> HIDE DEF W
<1>5. SumFunction(W(p)) \in Nat
  BY <1>1, <1>3, FunSumNat
<1>6. SumFunction(W(p)) <= SumFunction(W(q))
  BY <1>1, <1>2, <1>3, FunSumMonotone
<1> QED
  BY <1>4, <1>5, <1>6

\* The most that the tasks in S can cost on M processors.
Rest(set, t, r, S) == SumFunction([x \in S |-> M * Pending(set, t, x, r) * set[x].cs[r]])

Within(p) == \A t \in Tasks : p[t] <= M

\* The requests of one other task stay below its part of the limit.
LEMMA RestTerm ==
  ASSUME NEW set \in TaskSets, NEW t \in Tasks, NEW r \in Resources, NEW x \in Tasks
  PROVE  /\ M * Pending(set, t, x, r) * set[x].cs[r] \in Nat
         /\ Pending(set, t, x, r) * set[x].cs[r] \in Nat
         /\ Pending(set, t, x, r) * set[x].cs[r] <= M * Pending(set, t, x, r) * set[x].cs[r]
<1> DEFINE k == Pending(set, t, x, r)
           c == set[x].cs[r]
<1>1. k \in Nat /\ c \in Nat /\ M \in Nat \ {0}
  BY PendingNat, TaskIsNat, SystemSize
<1> HIDE DEF k, c
<1>2. k <= M * k /\ M * k \in Nat
  BY <1>1, TimesAtLeast, TimesMonotone
<1>3. k * c \in Nat /\ k * c <= (M * k) * c /\ (M * k) * c \in Nat
  BY <1>1, <1>2, TimesMonotone
<1> QED
  BY <1>3 DEF k, c

\* So do those of all others together.
LEMMA WorkSumLimit ==
  ASSUME NEW set \in TaskSets, NEW p \in Allocations, Within(p),
         NEW t \in Tasks, NEW r \in Resources, NEW S \in SUBSET Tasks
  PROVE  WorkSum(set, p, t, r, S) <= Rest(set, t, r, S)
<1> DEFINE W == [x \in S |-> Min({p[t] * Pending(set, t, x, r), p[x] * set[t].req[r]}) * set[x].cs[r]]
           R == [x \in S |-> M * Pending(set, t, x, r) * set[x].cs[r]]
<1>1. IsFiniteSet(S)
  BY BoundsConstants, FS_Subset
<1>2. \A x \in S : W[x] \in Nat /\ R[x] \in Nat /\ W[x] <= R[x]
  <2> SUFFICES ASSUME NEW x \in S
               PROVE  W[x] \in Nat /\ R[x] \in Nat /\ W[x] <= R[x]
    OBVIOUS
  <2> DEFINE k == Pending(set, t, x, r)
             c == set[x].cs[r]
             n == set[t].req[r]
  <2>1. k \in Nat /\ c \in Nat /\ n \in Nat
    BY PendingNat, TaskIsNat
  <2>2. p[x] \in Nat /\ p[t] \in Nat /\ p[t] <= M /\ M \in Nat
    BY SystemSize DEF Allocations, Within
  <2>3. W[x] = Min({p[t] * k, p[x] * n}) * c
    OBVIOUS
  <2>4. R[x] = (M * k) * c
    OBVIOUS
  <2> HIDE DEF k, c, n, W, R
  <2>5. p[t] * k \in Nat /\ M * k \in Nat /\ p[t] * k <= M * k /\ p[x] * n \in Nat
    BY <2>1, <2>2, TimesMonotone
  <2>6. Min({p[t] * k, p[x] * n}) * c \in Nat /\ Min({p[t] * k, p[x] * n}) * c <= (p[t] * k) * c
    BY <2>1, <2>5, TermNat
  <2>7. (p[t] * k) * c \in Nat /\ (M * k) * c \in Nat /\ (p[t] * k) * c <= (M * k) * c
    BY <2>1, <2>5, TimesMonotone
  <2> QED
    BY <2>3, <2>4, <2>6, <2>7
<1>3. W \in [S -> Nat] /\ R \in [S -> Nat]
  BY <1>2
<1>4. WorkSum(set, p, t, r, S) = SumFunction(W) /\ Rest(set, t, r, S) = SumFunction(R)
  BY DEF WorkSum, Rest
<1> HIDE DEF W, R
<1>5. SumFunction(W) <= SumFunction(R)
  BY <1>1, <1>2, <1>3, FunSumMonotone
<1> QED
  BY <1>4, <1>5

\* The greatest value of a function on 0 .. n that stays within b.
LEMMA GreatestValue ==
  ASSUME NEW n \in Nat, NEW f \in [0 .. n -> Nat], NEW b \in Nat, \A i \in 0 .. n : f[i] <= b
  PROVE  /\ Max({f[i] : i \in 0 .. n}) \in Nat /\ Max({f[i] : i \in 0 .. n}) <= b
         /\ \A i \in 0 .. n : f[i] <= Max({f[j] : j \in 0 .. n})
         /\ \E i \in 0 .. n : Max({f[j] : j \in 0 .. n}) = f[i]
<1> DEFINE T == {f[i] : i \in 0 .. n}
<1>1. T \subseteq Int /\ b \in Int /\ \A x \in T : x <= b
  OBVIOUS
<1>2. T # {}
  <2>1. 0 \in 0 .. n
    OBVIOUS
  <2> QED
    BY <2>1
<1>3. Max(T) \in T /\ \A x \in T : x <= Max(T)
  BY <1>1, <1>2, IntGreatest
<1> QED
  BY <1>3

\* The greatest of values that all grow grows.
LEMMA GreatestMonotone ==
  ASSUME NEW n \in Nat, NEW f \in [0 .. n -> Nat], NEW g \in [0 .. n -> Nat],
         NEW b \in Nat, \A i \in 0 .. n : f[i] <= g[i] /\ g[i] <= b
  PROVE  Max({f[i] : i \in 0 .. n}) <= Max({g[i] : i \in 0 .. n})
<1>0. \A i \in 0 .. n : f[i] <= b /\ g[i] <= b
  <2> TAKE i \in 0 .. n
  <2>1. f[i] \in Nat /\ g[i] \in Nat
    OBVIOUS
  <2> QED
    BY <2>1
<1>1. \E i \in 0 .. n : Max({f[j] : j \in 0 .. n}) = f[i]
  BY <1>0, GreatestValue
<1>2. /\ Max({g[j] : j \in 0 .. n}) \in Nat
      /\ \A i \in 0 .. n : g[i] <= Max({g[j] : j \in 0 .. n})
  BY <1>0, GreatestValue
<1>3. \A i \in 0 .. n : f[i] \in Nat /\ g[i] \in Nat
  OBVIOUS
<1> DEFINE a == Max({f[i] : i \in 0 .. n})
           c == Max({g[i] : i \in 0 .. n})
<1> HIDE DEF a, c
<1> SUFFICES a <= c
  BY DEF a, c
<1>4. PICK i \in 0 .. n : a = f[i]
  BY <1>1 DEF a
<1>5. f[i] \in Nat /\ g[i] \in Nat /\ c \in Nat /\ f[i] <= g[i] /\ g[i] <= c
  BY <1>2, <1>3 DEF c
<1> QED
  BY <1>4, <1>5

\* The bounds under FIFO order for one resource.
FifoAt(set, p, t, r, i) ==
  SelfWait(set, p, t, r, i) + PathSum(set, p, t, r, Interfering(set, t, r), i)

FifoPath(set, p, t, r) == Max({FifoAt(set, p, t, r, i) : i \in 0 .. set[t].req[r]})

FifoWork(set, p, t, r) ==
  SelfWork(set, p, t, r) + WorkSum(set, p, t, r, Interfering(set, t, r))

\* The bounds under FIFO order are sums over the shared resources.
LEMMA FifoByResource ==
  ASSUME NEW set, NEW p, NEW t
  PROVE  /\ CriticalPathFifo(set, p, t) = SumFunction([r \in Shared(set, t) |-> FifoPath(set, p, t, r)])
         /\ WorkFifo(set, p, t) = SumFunction([r \in Shared(set, t) |-> FifoWork(set, p, t, r)])
  BY DEF CriticalPathFifo, WorkFifo, FifoPath, FifoAt, FifoWork, PathSum, WorkSum

\* Under FIFO order the bound for i requests is a natural number that grows.
LEMMA FifoAtBounds ==
  ASSUME NEW set \in TaskSets, NEW p \in Allocations, NEW q \in Allocations, AtMost(p, q),
         NEW t \in Tasks, NEW r \in Resources, NEW i \in 0 .. set[t].req[r]
  PROVE  /\ FifoAt(set, p, t, r, i) \in Nat
         /\ FifoAt(set, p, t, r, i) <= FifoAt(set, q, t, r, i)
         /\ FifoAt(set, p, t, r, i) <= FifoWork(set, p, t, r)
<1> DEFINE S == Interfering(set, t, r)
<1>0. AtMost(q, q)
  BY DEF AtMost, Allocations
<1>1. S \in SUBSET Tasks
  BY GroupsAreFinite
<1> HIDE DEF S
<1>2. SelfWait(set, p, t, r, i) \in Nat /\ SelfWait(set, q, t, r, i) \in Nat
  BY SelfWaitNat
<1>3. SelfWait(set, p, t, r, i) <= SelfWait(set, q, t, r, i)
  BY SelfWaitMonotone
<1>4. SelfWork(set, p, t, r) \in Nat /\ SelfWait(set, p, t, r, i) <= SelfWork(set, p, t, r)
  BY SelfWorkBounds
<1>5. /\ PathSum(set, p, t, r, S, i) \in Nat
      /\ PathSum(set, p, t, r, S, i) <= PathSum(set, q, t, r, S, i)
      /\ PathSum(set, p, t, r, S, i) <= WorkSum(set, p, t, r, S)
  BY <1>1, PathSumBounds
<1>6. PathSum(set, q, t, r, S, i) \in Nat
  BY <1>0, <1>1, PathSumBounds
<1>7. WorkSum(set, p, t, r, S) \in Nat
  BY <1>1, WorkSumBounds
<1> QED
  BY <1>2, <1>3, <1>4, <1>5, <1>6, <1>7 DEF FifoAt, FifoWork, S

\* So is the bound for the worst number of requests.
LEMMA FifoPathBounds ==
  ASSUME NEW set \in TaskSets, NEW p \in Allocations, NEW q \in Allocations, AtMost(p, q),
         NEW t \in Tasks, NEW r \in Resources
  PROVE  /\ FifoPath(set, p, t, r) \in Nat
         /\ FifoPath(set, p, t, r) <= FifoPath(set, q, t, r)
         /\ FifoPath(set, p, t, r) <= FifoWork(set, p, t, r)
         /\ FifoWork(set, p, t, r) \in Nat
         /\ FifoWork(set, p, t, r) <= FifoWork(set, q, t, r)
<1> DEFINE n == set[t].req[r]
           F(g) == [i \in 0 .. n |-> FifoAt(set, g, t, r, i)]
<1>0. AtMost(q, q) /\ n \in Nat
  BY TaskIsNat DEF AtMost, Allocations
<1>1. /\ FifoWork(set, p, t, r) \in Nat /\ FifoWork(set, q, t, r) \in Nat
      /\ FifoWork(set, p, t, r) <= FifoWork(set, q, t, r)
  <2>1. Interfering(set, t, r) \in SUBSET Tasks /\ 0 \in 0 .. n
    BY <1>0, GroupsAreFinite
  <2> DEFINE S == Interfering(set, t, r)
  <2>2. S \in SUBSET Tasks
    BY <2>1
  <2> HIDE DEF S
  <2>3. /\ WorkSum(set, p, t, r, S) \in Nat
        /\ WorkSum(set, p, t, r, S) <= WorkSum(set, q, t, r, S)
    BY <2>2, WorkSumBounds
  <2>4. WorkSum(set, q, t, r, S) \in Nat
    BY <1>0, <2>2, WorkSumBounds
  <2>5. SelfWork(set, p, t, r) \in Nat /\ SelfWork(set, q, t, r) \in Nat
    BY <2>1, SelfWorkBounds
  <2>6. SelfWork(set, p, t, r) <= SelfWork(set, q, t, r)
    BY SelfWorkMonotone
  <2> QED
    BY <2>3, <2>4, <2>5, <2>6 DEF FifoWork, S
<1>2. \A i \in 0 .. n : /\ FifoAt(set, p, t, r, i) \in Nat
                        /\ FifoAt(set, p, t, r, i) <= FifoAt(set, q, t, r, i)
                        /\ FifoAt(set, p, t, r, i) <= FifoWork(set, p, t, r)
  BY FifoAtBounds
<1>3. \A i \in 0 .. n : /\ FifoAt(set, q, t, r, i) \in Nat
                        /\ FifoAt(set, q, t, r, i) <= FifoWork(set, q, t, r)
  BY <1>0, FifoAtBounds
<1>4. F(p) \in [0 .. n -> Nat] /\ F(q) \in [0 .. n -> Nat]
  BY <1>2, <1>3
<1>5. /\ FifoPath(set, p, t, r) = Max({F(p)[i] : i \in 0 .. n})
      /\ FifoPath(set, q, t, r) = Max({F(q)[i] : i \in 0 .. n})
  <2>1. {F(p)[i] : i \in 0 .. n} = {FifoAt(set, p, t, r, i) : i \in 0 .. n}
    OBVIOUS
  <2>2. {F(q)[i] : i \in 0 .. n} = {FifoAt(set, q, t, r, i) : i \in 0 .. n}
    OBVIOUS
  <2> QED
    BY <2>1, <2>2 DEF FifoPath
<1>6. \A i \in 0 .. n : F(p)[i] <= F(q)[i] /\ F(q)[i] <= FifoWork(set, q, t, r)
  BY <1>2, <1>3
<1>7. \A i \in 0 .. n : F(p)[i] <= FifoWork(set, p, t, r)
  BY <1>2
<1> HIDE DEF F, n
<1>8. Max({F(p)[i] : i \in 0 .. n}) <= Max({F(q)[i] : i \in 0 .. n})
  BY <1>0, <1>1, <1>4, <1>6, GreatestMonotone
<1>9. /\ Max({F(p)[i] : i \in 0 .. n}) \in Nat
      /\ Max({F(p)[i] : i \in 0 .. n}) <= FifoWork(set, p, t, r)
  BY <1>0, <1>1, <1>4, <1>7, GreatestValue
<1> QED
  BY <1>1, <1>5, <1>8, <1>9

-------------------------------------------------------------------------------
(* The delay of one request under locks in priority order. *)

\* What the longest critical section of lower priority and the jobs of higher
\* priority in an interval of length d cost.
LongestOne(set, f, t, r) == Max({set[x].cs[r] : x \in Lower(set, f, t, r)} \cup {0})

HighSum(set, f, t, r, d) ==
  SumFunction([x \in Higher(set, f, t, r) |-> NJobs(set[x], d) * set[x].req[r] * set[x].cs[r]])

SelfOne(set, p, t, r) == Min({p[t] - 1, set[t].req[r] - 1}) * set[t].cs[r]

\* The parts of the recurrence of delay_per_request.
LEMMA NextDelayParts ==
  ASSUME NEW set \in TaskSets, NEW f, NEW p \in Allocations, NEW t \in Tasks,
         NEW r \in Own(set, t), NEW d
  PROVE  NextDelay(set, f, p, t, r, d) =
           LongestOne(set, f, t, r) + HighSum(set, f, t, r, d)
           + PathSum(set, p, t, r, Equal(set, f, t, r), 1) + SelfOne(set, p, t, r)
<1>1. \A x \in Equal(set, f, t, r) : p[x] * 1 = p[x]
  BY DEF Equal, Interfering, Allocations
<1>2. PathSum(set, p, t, r, Equal(set, f, t, r), 1) =
        SumFunction([x \in Equal(set, f, t, r) |->
                       Min({p[x], Pending(set, t, x, r)}) * set[x].cs[r]])
  <2>1. [x \in Equal(set, f, t, r) |-> Min({p[x] * 1, Pending(set, t, x, r)}) * set[x].cs[r]]
        = [x \in Equal(set, f, t, r) |-> Min({p[x], Pending(set, t, x, r)}) * set[x].cs[r]]
    BY <1>1
  <2> QED
    BY <2>1 DEF PathSum
<1> QED
  BY <1>2 DEF NextDelay, LongestOne, HighSum, SelfOne

\* The longest critical section of lower priority.
LEMMA LongestOneNat ==
  ASSUME NEW set \in TaskSets, NEW f, NEW t \in Tasks, NEW r \in Resources
  PROVE  LongestOne(set, f, t, r) \in Nat
<1> DEFINE S == Lower(set, f, t, r)
           C == [x \in S |-> set[x].cs[r]]
           T == {C[x] : x \in S} \cup {0}
<1>1. IsFiniteSet(S) /\ S \subseteq Tasks
  BY GroupsAreFinite
<1>2. \A x \in S : set[x].cs[r] \in Nat
  BY <1>1, TaskIsNat
<1>3. IsFiniteSet({C[x] : x \in S})
  <2> HIDE DEF S, C
  <2> QED
    BY <1>1, ImageIsFinite
<1>4. IsFiniteSet(T)
  BY <1>3, FS_AddElement
<1>5. T \subseteq Int /\ T \subseteq Nat /\ T # {}
  BY <1>2
<1>6. LongestOne(set, f, t, r) = Max(T)
  <2>1. T = {set[x].cs[r] : x \in Lower(set, f, t, r)} \cup {0}
    OBVIOUS
  <2> QED
    BY <2>1 DEF LongestOne
<1> HIDE DEF T
<1>7. Max(T) \in T
  BY <1>4, <1>5, MaxFinite
<1> QED
  BY <1>5, <1>6, <1>7

\* What the tasks of higher priority cost grows with the delay.
LEMMA HighSumMonotone ==
  ASSUME NEW set \in TaskSets, NEW f, NEW t \in Tasks, NEW r \in Resources,
         NEW d \in Nat, NEW e \in Nat, d <= e
  PROVE  HighSum(set, f, t, r, d) \in Nat /\ HighSum(set, f, t, r, d) <= HighSum(set, f, t, r, e)
<1> DEFINE S == Higher(set, f, t, r)
           F(g) == [x \in S |-> NJobs(set[x], g) * set[x].req[r] * set[x].cs[r]]
<1>1. IsFiniteSet(S) /\ S \subseteq Tasks
  BY GroupsAreFinite
<1>2. \A x \in S : F(d)[x] \in Nat /\ F(e)[x] \in Nat /\ F(d)[x] <= F(e)[x]
  <2> SUFFICES ASSUME NEW x \in S
               PROVE  F(d)[x] \in Nat /\ F(e)[x] \in Nat /\ F(d)[x] <= F(e)[x]
    OBVIOUS
  <2> DEFINE n == set[x].req[r]
             c == set[x].cs[r]
             a == NJobs(set[x], d)
             b == NJobs(set[x], e)
  <2>1. x \in Tasks
    BY <1>1
  <2>2. n \in Nat /\ c \in Nat
    BY <2>1, TaskIsNat
  <2>3. a \in Nat /\ b \in Nat
    BY <2>1, JobsNat
  <2>4. a <= b
    BY <2>1, JobsMonotone
  <2>5. F(d)[x] = (a * n) * c /\ F(e)[x] = (b * n) * c
    OBVIOUS
  <2> HIDE DEF a, b, c, n, F
  <2>6. a * n \in Nat /\ b * n \in Nat /\ a * n <= b * n
    BY <2>2, <2>3, <2>4, TimesMonotone
  <2>7. (a * n) * c \in Nat /\ (b * n) * c \in Nat /\ (a * n) * c <= (b * n) * c
    BY <2>2, <2>6, TimesMonotone
  <2> QED
    BY <2>5, <2>7
<1>3. F(d) \in [S -> Nat] /\ F(e) \in [S -> Nat]
  BY <1>2
<1>4. HighSum(set, f, t, r, d) = SumFunction(F(d)) /\ HighSum(set, f, t, r, e) = SumFunction(F(e))
  BY DEF HighSum
<1> HIDE DEF F, S
<1>5. SumFunction(F(d)) \in Nat
  BY <1>1, <1>3, FunSumNat
<1>6. SumFunction(F(d)) <= SumFunction(F(e))
  BY <1>1, <1>2, <1>3, FunSumMonotone
<1> QED
  BY <1>4, <1>5, <1>6

\* The recurrence grows with the delay and with the processors.
LEMMA NextDelayMonotone ==
  ASSUME NEW set \in TaskSets, NEW f, NEW p \in Allocations, NEW q \in Allocations, AtMost(p, q),
         NEW t \in Tasks, NEW r \in Own(set, t), NEW d \in Nat, NEW e \in Nat, d <= e
  PROVE  /\ NextDelay(set, f, p, t, r, d) \in Nat
         /\ NextDelay(set, f, p, t, r, d) <= NextDelay(set, f, q, t, r, e)
<1> DEFINE S == Equal(set, f, t, r)
<1>1. r \in Resources /\ set[t].req[r] \in Nat \ {0} /\ set[t].cs[r] \in Nat
  <2>1. r \in Resources /\ set[t].req[r] > 0
    BY DEF Own
  <2> QED
    BY <2>1, TaskIsNat
<1>2. S \in SUBSET Tasks /\ 1 \in 0 .. set[t].req[r] /\ AtMost(q, q)
  <2>1. S \in SUBSET Tasks
    BY GroupsAreFinite
  <2>2. 1 \in 0 .. set[t].req[r]
    BY <1>1
  <2>3. AtMost(q, q)
    BY DEF AtMost, Allocations
  <2> QED
    BY <2>1, <2>2, <2>3
<1> HIDE DEF S
<1>3. LongestOne(set, f, t, r) \in Nat
  BY <1>1, LongestOneNat
<1>4. HighSum(set, f, t, r, d) \in Nat /\ HighSum(set, f, t, r, d) <= HighSum(set, f, t, r, e)
  BY <1>1, HighSumMonotone
<1>5. HighSum(set, f, t, r, e) \in Nat
  BY <1>1, HighSumMonotone
<1>6. PathSum(set, p, t, r, S, 1) \in Nat /\ PathSum(set, p, t, r, S, 1) <= PathSum(set, q, t, r, S, 1)
  BY <1>1, <1>2, PathSumBounds
<1>7. PathSum(set, q, t, r, S, 1) \in Nat
  BY <1>1, <1>2, PathSumBounds
<1>8. /\ SelfOne(set, p, t, r) \in Nat /\ SelfOne(set, q, t, r) \in Nat
      /\ SelfOne(set, p, t, r) <= SelfOne(set, q, t, r)
  <2> DEFINE a == p[t] - 1
             b == q[t] - 1
             n == set[t].req[r] - 1
             c == set[t].cs[r]
  <2>1. a \in Nat /\ b \in Nat /\ a <= b /\ n \in Nat /\ c \in Nat
    BY <1>1 DEF Allocations, AtMost
  <2>2. SelfOne(set, p, t, r) = Min({a, n}) * c /\ SelfOne(set, q, t, r) = Min({b, n}) * c
    BY DEF SelfOne
  <2> HIDE DEF a, b, n, c
  <2>3. Min({a, n}) * c \in Nat /\ Min({b, n}) * c \in Nat
    BY <2>1, TermNat
  <2>4. n <= n
    BY <2>1
  <2>5. Min({a, n}) * c <= Min({b, n}) * c
    BY <2>1, <2>4, TermMonotone
  <2> QED
    BY <2>2, <2>3, <2>5
<1>9. NextDelay(set, f, p, t, r, d) =
        LongestOne(set, f, t, r) + HighSum(set, f, t, r, d)
        + PathSum(set, p, t, r, S, 1) + SelfOne(set, p, t, r)
  BY NextDelayParts DEF S
<1>10. NextDelay(set, f, q, t, r, e) =
        LongestOne(set, f, t, r) + HighSum(set, f, t, r, e)
        + PathSum(set, q, t, r, S, 1) + SelfOne(set, q, t, r)
  BY NextDelayParts DEF S
<1> QED
  BY <1>3, <1>4, <1>5, <1>6, <1>7, <1>8, <1>9, <1>10

\* A recursion that goes on from d to N[d] until it stays or leaves 0 .. m has a
\* solution, whether or not it ends.
LEMMA RecursionExists ==
  ASSUME NEW m \in Nat, NEW N \in [0 .. m -> Nat]
  PROVE  \E g : g = [d \in 0 .. m |-> IF N[d] = d \/ N[d] > m THEN N[d] ELSE g[N[d]]]
<1> DEFINE Closed(R) == \A x \in R : x <= m => N[x] \in R
           Reach(d) == {e \in Nat : \A R \in SUBSET Nat : d \in R /\ Closed(R) => e \in R}
           Stops(d) == {u \in 0 .. m : u \in Reach(d) /\ (N[u] = u \/ N[u] > m)}
           Ends(d) == {N[u] : u \in Stops(d)}
           End(d) == CHOOSE e : e \in Ends(d)
           g == [d \in 0 .. m |-> End(d)]
<1>1. ASSUME NEW d \in 0 .. m, N[d] = d \/ N[d] > m
      PROVE  End(d) = N[d]
  <2>1. \A u \in Reach(d) : u = d \/ u = N[d]
    <3>1. Closed({d, N[d]}) /\ {d, N[d]} \in SUBSET Nat /\ d \in {d, N[d]}
      BY <1>1
    <3> QED
      BY <3>1
  <2>2. d \in Reach(d)
    OBVIOUS
  <2>3. Stops(d) = {d}
    BY <1>1, <2>1, <2>2
  <2>4. Ends(d) = {N[d]}
    BY <2>3
  <2> QED
    BY <2>4
<1>2. ASSUME NEW d \in 0 .. m, ~ (N[d] = d \/ N[d] > m)
      PROVE  End(d) = End(N[d])
  <2>1. N[d] \in 0 .. m
    BY <1>2
  <2>2. \A u \in 0 .. m : u \in Stops(d) => u \in Stops(N[d])
    <3> SUFFICES ASSUME NEW u \in Stops(d), NEW R \in SUBSET Nat, N[d] \in R, Closed(R)
                 PROVE  u \in R
      OBVIOUS
    <3>1. Closed(R \cup {d}) /\ R \cup {d} \in SUBSET Nat /\ d \in R \cup {d}
      OBVIOUS
    <3>2. u \in R \cup {d}
      BY <3>1
    <3> QED
      BY <1>2, <3>2
  <2>3. \A u \in 0 .. m : u \in Stops(N[d]) => u \in Stops(d)
    <3> SUFFICES ASSUME NEW u \in Stops(N[d]), NEW R \in SUBSET Nat, d \in R, Closed(R)
                 PROVE  u \in R
      OBVIOUS
    <3>1. N[d] \in R
      OBVIOUS
    <3> QED
      BY <3>1
  <2>4. Stops(d) = Stops(N[d])
    BY <2>2, <2>3
  <2>5. Ends(d) = Ends(N[d])
    BY <2>4
  <2> QED
    BY <2>5
<1> HIDE DEF End
<1>3. \A d \in 0 .. m : End(d) = IF N[d] = d \/ N[d] > m THEN N[d] ELSE g[N[d]]
  <2> TAKE d \in 0 .. m
  <2>1. CASE N[d] = d \/ N[d] > m
    BY <1>1, <2>1
  <2>2. CASE ~ (N[d] = d \/ N[d] > m)
    <3>1. N[d] \in 0 .. m
      BY <2>2
    <3>2. g[N[d]] = End(N[d])
      BY <3>1
    <3> QED
      BY <1>2, <2>2, <3>2
  <2> QED
    BY <2>1, <2>2
<1>5. g = [d \in 0 .. m |-> IF N[d] = d \/ N[d] > m THEN N[d] ELSE g[N[d]]]
  BY <1>3
<1> QED
  BY <1>5

\* If N is monotone, the recursion from 0 finds the least fixed point, or that
\* there is none.
LEMMA RecursionIsLeast ==
  ASSUME NEW m \in Nat, NEW N \in [0 .. m -> Nat],
         \A d, e \in 0 .. m : d <= e => N[d] <= N[e],
         NEW g, \A d \in 0 .. m : g[d] = IF N[d] = d \/ N[d] > m THEN N[d] ELSE g[N[d]]
  PROVE  /\ g[0] \in Nat
         /\ g[0] <= m => N[g[0]] = g[0]
         /\ \A e \in 0 .. m : N[e] <= e => g[0] <= e
<1> DEFINE Good(d) == /\ g[d] \in Nat
                      /\ g[d] <= m => N[g[d]] = g[d]
                      /\ \A e \in 0 .. m : N[e] <= e /\ d <= e => g[d] <= e
           S == {k \in Nat : \A d \in 0 .. m : m - d < k /\ d <= N[d] => Good(d)}
<1>1. 0 \in S
  OBVIOUS
<1>2. ASSUME NEW k \in Nat, k \in S
      PROVE  k + 1 \in S
  <2> SUFFICES ASSUME NEW d \in 0 .. m, m - d < k + 1, d <= N[d]
               PROVE  Good(d)
    OBVIOUS
  <2>0. N[d] \in Nat
    OBVIOUS
  <2>1. CASE N[d] = d
    <3>1. g[d] = d
      BY <2>1
    <3> QED
      BY <2>1, <3>1
  <2>2. CASE N[d] > m
    <3>1. g[d] = N[d]
      BY <2>2
    <3>2. ASSUME NEW e \in 0 .. m, N[e] <= e, d <= e
          PROVE  FALSE
      <4>1. N[d] <= N[e] /\ N[e] \in Nat
        BY <3>2
      <4> QED
        BY <2>0, <2>2, <3>2, <4>1
    <3> QED
      BY <2>0, <2>2, <3>1, <3>2
  <2>3. CASE N[d] # d /\ ~ (N[d] > m)
    <3> DEFINE n == N[d]
    <3>1. n \in 0 .. m /\ d < n /\ m - n < k
      BY <2>0, <2>3
    <3>2. n <= N[n]
      BY <3>1
    <3>3. Good(n)
      BY <1>2, <3>1, <3>2
    <3>4. g[d] = g[n]
      BY <2>3
    <3>5. ASSUME NEW e \in 0 .. m, N[e] <= e, d <= e
          PROVE  n <= e
      <4>1. N[d] <= N[e] /\ N[e] \in Nat
        BY <3>5
      <4> QED
        BY <2>0, <3>5, <4>1
    <3> HIDE DEF n
    <3> QED
      BY <3>3, <3>4, <3>5
  <2> QED
    BY <2>1, <2>2, <2>3
<1>3. Nat \subseteq S
  <2> HIDE DEF S
  <2> QED
    BY <1>1, <1>2, SetInduction
<1>4. Good(0)
  <2>1. m + 1 \in S
    <3>1. m + 1 \in Nat
      OBVIOUS
    <3> HIDE DEF S
    <3> QED
      BY <1>3, <3>1
  <2>2. 0 \in 0 .. m /\ m - 0 < m + 1 /\ 0 <= N[0]
    OBVIOUS
  <2> HIDE DEF Good
  <2> QED
    BY <2>1, <2>2
<1> QED
  BY <1>4

\* The delay is what a solution of the recursion has at 0; N are the values of
\* the recurrence.
SolvesRecursion(set, f, p, t, r, N) ==
  \E g : /\ DelayPerRequest(set, f, p, t, r) = g[0]
         /\ \A d \in 0 .. set[t].period :
              g[d] = IF N[d] = d \/ N[d] > set[t].period THEN N[d] ELSE g[N[d]]

\* delay_per_request computes what the recurrence leads to.
LEMMA DelayIsRecursion ==
  ASSUME NEW set \in TaskSets, NEW f, NEW p \in Allocations, NEW t \in Tasks, NEW r \in Own(set, t),
         NEW N, N = [d \in 0 .. set[t].period |-> NextDelay(set, f, p, t, r, d)]
  PROVE  SolvesRecursion(set, f, p, t, r, N)
<1> DEFINE m == set[t].period
           Step1(g) == [d \in 0 .. m |->
                          LET next == NextDelay(set, f, p, t, r, d)
                          IN  IF next = d \/ next > m THEN next ELSE g[next]]
           g0 == CHOOSE g : g = Step1(g)
<1>1. m \in Nat
  BY TaskIsNat
<1>2. AtMost(p, p)
  BY DEF AtMost, Allocations
<1>3. \A d \in 0 .. m : NextDelay(set, f, p, t, r, d) \in Nat
  <2> TAKE d \in 0 .. m
  <2>1. d \in Nat /\ d <= d
    BY <1>1
  <2> QED
    BY <1>2, <2>1, NextDelayMonotone
<1>4. N \in [0 .. m -> Nat]
  BY <1>3
<1>5. PICK g : g = [d \in 0 .. m |-> IF N[d] = d \/ N[d] > m THEN N[d] ELSE g[N[d]]]
  <2> HIDE DEF m
  <2> QED
    BY <1>1, <1>4, RecursionExists
<1>6. g = Step1(g)
  <2>1. \A d \in 0 .. m : N[d] = NextDelay(set, f, p, t, r, d)
    OBVIOUS
  <2>2. Step1(g) = [d \in 0 .. m |-> IF N[d] = d \/ N[d] > m THEN N[d] ELSE g[N[d]]]
    BY <2>1
  <2> QED
    BY <1>5, <2>2
<1>7. DelayPerRequest(set, f, p, t, r) = g0[0]
  BY DEF DelayPerRequest
<1> HIDE DEF g0
<1>8. g0 = Step1(g0)
  BY <1>6 DEF g0
<1>9. \A d \in 0 .. m : g0[d] = IF N[d] = d \/ N[d] > m THEN N[d] ELSE g0[N[d]]
  <2> TAKE d \in 0 .. m
  <2>1. N[d] = NextDelay(set, f, p, t, r, d)
    OBVIOUS
  <2>2. g0[d] = Step1(g0)[d]
    BY <1>8
  <2> QED
    BY <2>1, <2>2
<1> QED
  BY <1>7, <1>9 DEF SolvesRecursion

\* The delay is the least fixed point of the recurrence, if one is within the
\* period.
LEMMA DelayIsLeast ==
  ASSUME NEW set \in TaskSets, NEW f, NEW p \in Allocations, NEW t \in Tasks, NEW r \in Own(set, t)
  PROVE  LET delay == DelayPerRequest(set, f, p, t, r)
         IN  /\ delay \in Nat
             /\ delay <= set[t].period => NextDelay(set, f, p, t, r, delay) = delay
             /\ \A e \in 0 .. set[t].period : NextDelay(set, f, p, t, r, e) <= e => delay <= e
<1> DEFINE m == set[t].period
           N == [d \in 0 .. m |-> NextDelay(set, f, p, t, r, d)]
<1>1. m \in Nat
  BY TaskIsNat
<1>2. AtMost(p, p)
  BY DEF AtMost, Allocations
<1>3. \A d, e \in 0 .. m : d <= e => N[d] \in Nat /\ N[d] <= N[e]
  <2> TAKE d, e \in 0 .. m
  <2> HAVE d <= e
  <2>1. d \in Nat /\ e \in Nat
    BY <1>1
  <2>2. NextDelay(set, f, p, t, r, d) \in Nat
    BY <1>2, <2>1, NextDelayMonotone
  <2>3. NextDelay(set, f, p, t, r, d) <= NextDelay(set, f, p, t, r, e)
    BY <1>2, <2>1, NextDelayMonotone
  <2> QED
    BY <2>2, <2>3
<1>4. N \in [0 .. m -> Nat]
  <2>1. \A d \in 0 .. m : d <= d
    BY <1>1
  <2> QED
    BY <1>3, <2>1
<1>5. PICK g : /\ DelayPerRequest(set, f, p, t, r) = g[0]
               /\ \A d \in 0 .. m : g[d] = IF N[d] = d \/ N[d] > m THEN N[d] ELSE g[N[d]]
  <2>1. N = [d \in 0 .. set[t].period |-> NextDelay(set, f, p, t, r, d)]
    OBVIOUS
  <2> HIDE DEF N
  <2>2. SolvesRecursion(set, f, p, t, r, N)
    BY <2>1, DelayIsRecursion
  <2> QED
    BY <2>2 DEF SolvesRecursion
<1> DEFINE delay == DelayPerRequest(set, f, p, t, r)
<1>6. /\ delay \in Nat
      /\ delay <= m => N[delay] = delay
      /\ \A e \in 0 .. m : N[e] <= e => delay <= e
  <2>1. \A d, e \in 0 .. m : d <= e => N[d] <= N[e]
    BY <1>3
  <2> HIDE DEF N, m
  <2>2. /\ g[0] \in Nat
        /\ g[0] <= m => N[g[0]] = g[0]
        /\ \A e \in 0 .. m : N[e] <= e => g[0] <= e
    BY <1>1, <1>4, <1>5, <2>1, RecursionIsLeast
  <2> QED
    BY <1>5, <2>2
<1>7. delay <= m => delay \in 0 .. m
  <2> HIDE DEF delay, m
  <2> QED
    BY <1>1, <1>6
<1> HIDE DEF delay
<1>8. \A e \in 0 .. m : N[e] = NextDelay(set, f, p, t, r, e)
  OBVIOUS
<1> HIDE DEF N
<1> QED
  BY <1>6, <1>7, <1>8 DEF delay

\* With more processors the delay grows.
LEMMA DelayMonotone ==
  ASSUME NEW set \in TaskSets, NEW f, NEW p \in Allocations, NEW q \in Allocations, AtMost(p, q),
         NEW t \in Tasks, NEW r \in Own(set, t),
         DelayPerRequest(set, f, q, t, r) <= set[t].period
  PROVE  DelayPerRequest(set, f, p, t, r) <= DelayPerRequest(set, f, q, t, r)
<1> DEFINE e == DelayPerRequest(set, f, q, t, r)
<1>1. e \in Nat /\ NextDelay(set, f, q, t, r, e) = e
  BY DelayIsLeast
<1>2. set[t].period \in Nat /\ e <= set[t].period
  BY TaskIsNat
<1> HIDE DEF e
<1>3. e <= e /\ e \in 0 .. set[t].period
  BY <1>1, <1>2
<1>4. NextDelay(set, f, p, t, r, e) <= NextDelay(set, f, q, t, r, e)
  BY <1>1, <1>3, NextDelayMonotone
<1>5. NextDelay(set, f, p, t, r, e) <= e
  BY <1>1, <1>4
<1>6. DelayPerRequest(set, f, p, t, r) <= e
  BY <1>3, <1>5, DelayIsLeast
<1> QED
  BY <1>6 DEF e

\* Delays that are bounded stay so when tasks get fewer processors.
LEMMA BoundedMonotone ==
  ASSUME NEW set \in TaskSets, NEW f, NEW p \in Allocations, NEW q \in Allocations, AtMost(p, q),
         NEW t \in Tasks, DelaysBounded(set, f, q, t)
  PROVE  DelaysBounded(set, f, p, t)
<1> SUFFICES ASSUME NEW r \in Own(set, t)
             PROVE  DelayPerRequest(set, f, p, t, r) <= set[t].period
  BY DEF DelaysBounded
<1> DEFINE a == DelayPerRequest(set, f, p, t, r)
           b == DelayPerRequest(set, f, q, t, r)
<1>1. b <= set[t].period
  BY DEF DelaysBounded
<1>2. a <= b
  BY <1>1, DelayMonotone
<1>3. a \in Nat /\ b \in Nat /\ set[t].period \in Nat
  BY DelayIsLeast, TaskIsNat
<1> HIDE DEF a, b
<1>4. a <= set[t].period
  BY <1>1, <1>2, <1>3
<1> QED
  BY <1>4 DEF a

-------------------------------------------------------------------------------
(* What tasks of lower and of higher priority cost. *)

\* The jobs of lower priority that come before x, the longest sections first.
Before(set, f, t, r, x) ==
  {y \in Lower(set, f, t, r) : \/ set[y].cs[r] > set[x].cs[r]
                               \/ set[y].cs[r] = set[x].cs[r] /\ y > x}

LowerTerm(set, f, t, r, n, x) ==
  Max({0, Min({n - SumFunction([y \in Before(set, f, t, r, x) |-> Pending(set, t, y, r)]),
               Pending(set, t, x, r)})}) * set[x].cs[r]

\* The loop over the critical sections of lower priority, task by task.
LEMMA LongestLowerTerms ==
  ASSUME NEW set, NEW f, NEW t, NEW r, NEW n
  PROVE  LongestLower(set, f, t, r, n) =
           SumFunction([x \in Lower(set, f, t, r) |-> LowerTerm(set, f, t, r, n, x)])
<1> DEFINE low == Lower(set, f, t, r)
           B(x) == {y \in low : \/ set[y].cs[r] > set[x].cs[r]
                                \/ set[y].cs[r] = set[x].cs[r] /\ y > x}
           Left(x) == n - SumFunction([y \in B(x) |-> Pending(set, t, y, r)])
<1>1. LongestLower(set, f, t, r, n) =
        SumFunction([x \in low |-> Max({0, Min({Left(x), Pending(set, t, x, r)})}) * set[x].cs[r]])
  BY DEF LongestLower
<1>2. \A x \in low : LowerTerm(set, f, t, r, n, x) =
                       Max({0, Min({Left(x), Pending(set, t, x, r)})}) * set[x].cs[r]
  BY DEF LowerTerm, Before
<1> QED
  BY <1>1, <1>2

\* What is left of a budget, cut off at a bound, grows with the budget.
LEMMA MiddleMonotone ==
  ASSUME NEW a \in Int, NEW b \in Int, a <= b, NEW k \in Nat
  PROVE  /\ Max({0, Min({a, k})}) \in Nat /\ Max({0, Min({a, k})}) <= k
         /\ Max({0, Min({a, k})}) <= Max({0, Min({b, k})})
         /\ Max({0, Min({b, k})}) \in Nat
<1>1. Min({a, k}) = IF a <= k THEN a ELSE k
  BY MinTwo
<1>2. Min({b, k}) = IF b <= k THEN b ELSE k
  BY MinTwo
<1> DEFINE x == Min({a, k})
           y == Min({b, k})
<1>3. x \in Int /\ y \in Int /\ x <= y /\ x <= k
  BY <1>1, <1>2
<1> HIDE DEF x, y
<1>4. 0 \in Int
  OBVIOUS
<1>5. Max({0, x}) = IF 0 >= x THEN 0 ELSE x
  BY <1>3, <1>4, MaxTwo
<1>6. Max({0, y}) = IF 0 >= y THEN 0 ELSE y
  BY <1>3, <1>4, MaxTwo
<1>7. /\ Max({0, x}) \in Nat /\ Max({0, x}) <= k
      /\ Max({0, x}) <= Max({0, y}) /\ Max({0, y}) \in Nat
  BY <1>3, <1>5, <1>6
<1> QED
  BY <1>7 DEF x, y

\* The longest n sections: a natural number that grows with n, within the limit.
LEMMA LongestLowerBounds ==
  ASSUME NEW set \in TaskSets, NEW f, NEW t \in Tasks, NEW r \in Resources,
         NEW i \in Nat, NEW n \in Nat, i <= n
  PROVE  /\ LongestLower(set, f, t, r, i) \in Nat
         /\ LongestLower(set, f, t, r, i) <= LongestLower(set, f, t, r, n)
         /\ LongestLower(set, f, t, r, i) <= Rest(set, t, r, Lower(set, f, t, r))
<1> DEFINE S == Lower(set, f, t, r)
           F(m) == [x \in S |-> LowerTerm(set, f, t, r, m, x)]
           R == [x \in S |-> M * Pending(set, t, x, r) * set[x].cs[r]]
<1>1. IsFiniteSet(S) /\ S \subseteq Tasks
  BY GroupsAreFinite
<1>2. \A x \in S : /\ F(i)[x] \in Nat /\ F(n)[x] \in Nat /\ R[x] \in Nat
                   /\ F(i)[x] <= F(n)[x] /\ F(i)[x] <= R[x]
  <2> SUFFICES ASSUME NEW x \in S
               PROVE  /\ F(i)[x] \in Nat /\ F(n)[x] \in Nat /\ R[x] \in Nat
                      /\ F(i)[x] <= F(n)[x] /\ F(i)[x] <= R[x]
    OBVIOUS
  <2> DEFINE k == Pending(set, t, x, r)
             c == set[x].cs[r]
             B == Before(set, f, t, r, x)
             P == [y \in B |-> Pending(set, t, y, r)]
             s == SumFunction(P)
             a == Max({0, Min({i - s, k})})
             b == Max({0, Min({n - s, k})})
  <2>0. x \in Tasks
    BY <1>1
  <2>1. k \in Nat /\ c \in Nat
    BY <2>0, PendingNat, TaskIsNat
  <2>2. s \in Nat
    <3>1. B \subseteq S
      BY DEF Before
    <3>2. IsFiniteSet(B)
      <4> HIDE DEF B, S
      <4> QED
        BY <1>1, <3>1, FS_Subset
    <3>3. \A y \in B : Pending(set, t, y, r) \in Nat
      <4> HIDE DEF B, S
      <4> QED
        BY <1>1, <3>1, PendingNat
    <3>4. P \in [B -> Nat]
      BY <3>3
    <3> HIDE DEF B, P
    <3> QED
      BY <3>2, <3>4, FunSumNat
  <2>3. F(i)[x] = a * c /\ F(n)[x] = b * c
    BY DEF LowerTerm
  <2>4. R[x] = M * k * c /\ R[x] \in Nat /\ k * c \in Nat /\ k * c <= R[x]
    BY <2>0, RestTerm
  <2>5. i - s \in Int /\ n - s \in Int /\ i - s <= n - s
    <3> HIDE DEF s
    <3> QED
      BY <2>2
  <2>6. a \in Nat /\ a <= k /\ a <= b /\ b \in Nat
    <3> HIDE DEF s, k
    <3> QED
      BY <2>1, <2>5, MiddleMonotone
  <2> HIDE DEF a, b, k, c, F, R
  <2>7. a * c \in Nat /\ b * c \in Nat /\ a * c <= b * c /\ a * c <= k * c
    BY <2>1, <2>6, TimesMonotone
  <2> QED
    BY <2>3, <2>4, <2>7
<1>3. F(i) \in [S -> Nat] /\ F(n) \in [S -> Nat] /\ R \in [S -> Nat]
  BY <1>2
<1>4. /\ LongestLower(set, f, t, r, i) = SumFunction(F(i))
      /\ LongestLower(set, f, t, r, n) = SumFunction(F(n))
      /\ Rest(set, t, r, S) = SumFunction(R)
  BY LongestLowerTerms DEF Rest
<1> HIDE DEF F, R, S
<1>5. SumFunction(F(i)) \in Nat
  BY <1>1, <1>3, FunSumNat
<1>6. SumFunction(F(i)) <= SumFunction(F(n))
  BY <1>1, <1>2, <1>3, FunSumMonotone
<1>7. SumFunction(F(i)) <= SumFunction(R)
  BY <1>1, <1>2, <1>3, FunSumMonotone
<1> QED
  BY <1>4, <1>5, <1>6, <1>7 DEF S

\* The tasks in S of higher priority: each request meets no more of their
\* requests than they make in the delay d.
InsidePath(set, t, r, S, i, d) ==
  SumFunction([x \in S |->
    Min({InsideDelay(set, x, r, d) * i, Pending(set, t, x, r)}) * set[x].cs[r]])

InsideWork(set, p, t, r, S, d) ==
  SumFunction([x \in S |->
    Min({InsideDelay(set, x, r, d) * set[t].req[r], Pending(set, t, x, r) * p[t]}) * set[x].cs[r]])

\* A longer delay meets no fewer requests.
LEMMA InsideMonotone ==
  ASSUME NEW set \in TaskSets, NEW x \in Tasks, NEW r \in Resources,
         NEW d \in Nat, NEW e \in Nat, d <= e
  PROVE  InsideDelay(set, x, r, d) \in Nat /\ InsideDelay(set, x, r, d) <= InsideDelay(set, x, r, e)
<1>1. NJobs(set[x], d) \in Nat /\ NJobs(set[x], e) \in Nat /\ set[x].req[r] \in Nat
  BY JobsNat, TaskIsNat
<1>2. NJobs(set[x], d) <= NJobs(set[x], e)
  BY JobsMonotone
<1> DEFINE a == NJobs(set[x], d)
           b == NJobs(set[x], e)
           n == set[x].req[r]
<1>3. a \in Nat /\ b \in Nat /\ n \in Nat /\ a <= b
  BY <1>1, <1>2
<1>4. InsideDelay(set, x, r, d) = a * n /\ InsideDelay(set, x, r, e) = b * n
  BY DEF InsideDelay
<1> HIDE DEF a, b, n
<1>5. a * n \in Nat /\ a * n <= b * n
  BY <1>3, TimesMonotone
<1> QED
  BY <1>4, <1>5

\* What the tasks of higher priority cost on one path: it grows with the delay.
LEMMA InsidePathBounds ==
  ASSUME NEW set \in TaskSets, NEW p \in Allocations,
         NEW t \in Tasks, NEW r \in Resources, NEW S \in SUBSET Tasks,
         NEW i \in 0 .. set[t].req[r], NEW d \in Nat, NEW e \in Nat, d <= e
  PROVE  /\ InsidePath(set, t, r, S, i, d) \in Nat
         /\ InsidePath(set, t, r, S, i, d) <= InsidePath(set, t, r, S, i, e)
         /\ InsidePath(set, t, r, S, i, d) <= InsideWork(set, p, t, r, S, d)
<1> DEFINE F(g) == [x \in S |-> Min({InsideDelay(set, x, r, g) * i, Pending(set, t, x, r)}) * set[x].cs[r]]
           W == [x \in S |-> Min({InsideDelay(set, x, r, d) * set[t].req[r],
                                  Pending(set, t, x, r) * p[t]}) * set[x].cs[r]]
<1>1. IsFiniteSet(S)
  BY BoundsConstants, FS_Subset
<1>2. \A x \in S : /\ F(d)[x] \in Nat /\ F(e)[x] \in Nat /\ W[x] \in Nat
                   /\ F(d)[x] <= F(e)[x] /\ F(d)[x] <= W[x]
  <2> SUFFICES ASSUME NEW x \in S
               PROVE  /\ F(d)[x] \in Nat /\ F(e)[x] \in Nat /\ W[x] \in Nat
                      /\ F(d)[x] <= F(e)[x] /\ F(d)[x] <= W[x]
    OBVIOUS
  <2> DEFINE k == Pending(set, t, x, r)
             c == set[x].cs[r]
             n == set[t].req[r]
             a == InsideDelay(set, x, r, d)
             b == InsideDelay(set, x, r, e)
             m == p[t]
  <2>1. k \in Nat /\ c \in Nat /\ n \in Nat /\ i \in Nat /\ i <= n
    BY PendingNat, TaskIsNat
  <2>2. a \in Nat /\ a <= b
    BY InsideMonotone
  <2>3. b \in Nat
    <3>1. e <= e
      OBVIOUS
    <3> QED
      BY <3>1, InsideMonotone
  <2>4. m \in Nat \ {0}
    BY DEF Allocations
  <2>5. F(d)[x] = Min({a * i, k}) * c /\ F(e)[x] = Min({b * i, k}) * c
    OBVIOUS
  <2>6. W[x] = Min({a * n, k * m}) * c
    OBVIOUS
  <2> HIDE DEF k, c, n, a, b, m, F, W
  <2>7. a * i \in Nat /\ b * i \in Nat /\ a * i <= b * i /\ a * i <= a * n /\ a * n \in Nat
    BY <2>1, <2>2, <2>3, TimesMonotone
  <2>8. k * m \in Nat /\ k <= k * m
    <3>1. k <= m * k /\ m * k = k * m
      BY <2>1, <2>4, TimesAtLeast
    <3> QED
      BY <2>1, <2>4, <3>1, TimesMonotone
  <2>9. Min({a * i, k}) * c \in Nat /\ Min({b * i, k}) * c \in Nat
    BY <2>1, <2>7, TermNat
  <2>10. Min({a * n, k * m}) * c \in Nat
    BY <2>1, <2>7, <2>8, TermNat
  <2>11. k <= k
    BY <2>1
  <2>12. Min({a * i, k}) * c <= Min({b * i, k}) * c
    BY <2>1, <2>7, <2>11, TermMonotone
  <2>13. Min({a * i, k}) * c <= Min({a * n, k * m}) * c
    BY <2>1, <2>7, <2>8, TermMonotone
  <2> QED
    BY <2>5, <2>6, <2>9, <2>10, <2>12, <2>13
<1>3. F(d) \in [S -> Nat] /\ F(e) \in [S -> Nat] /\ W \in [S -> Nat]
  BY <1>2
<1>4. /\ InsidePath(set, t, r, S, i, d) = SumFunction(F(d))
      /\ InsidePath(set, t, r, S, i, e) = SumFunction(F(e))
      /\ InsideWork(set, p, t, r, S, d) = SumFunction(W)
  BY DEF InsidePath, InsideWork
<1> HIDE DEF F, W
<1>5. SumFunction(F(d)) \in Nat
  BY <1>1, <1>3, FunSumNat
<1>6. SumFunction(F(d)) <= SumFunction(F(e))
  BY <1>1, <1>2, <1>3, FunSumMonotone
<1>7. SumFunction(F(d)) <= SumFunction(W)
  BY <1>1, <1>2, <1>3, FunSumMonotone
<1> QED
  BY <1>4, <1>5, <1>6, <1>7

\* The same for all paths together, within the limit.
LEMMA InsideWorkBounds ==
  ASSUME NEW set \in TaskSets, NEW p \in Allocations, NEW q \in Allocations, AtMost(p, q),
         NEW t \in Tasks, NEW r \in Resources, NEW S \in SUBSET Tasks,
         NEW d \in Nat, NEW e \in Nat, d <= e
  PROVE  /\ InsideWork(set, p, t, r, S, d) \in Nat
         /\ InsideWork(set, p, t, r, S, d) <= InsideWork(set, q, t, r, S, e)
         /\ Within(p) => InsideWork(set, p, t, r, S, d) <= Rest(set, t, r, S)
<1> DEFINE W(g, h) == [x \in S |-> Min({InsideDelay(set, x, r, h) * set[t].req[r],
                                        Pending(set, t, x, r) * g[t]}) * set[x].cs[r]]
           R == [x \in S |-> M * Pending(set, t, x, r) * set[x].cs[r]]
<1>1. IsFiniteSet(S)
  BY BoundsConstants, FS_Subset
<1>2. \A x \in S : /\ W(p, d)[x] \in Nat /\ W(q, e)[x] \in Nat /\ R[x] \in Nat
                   /\ W(p, d)[x] <= W(q, e)[x] /\ (Within(p) => W(p, d)[x] <= R[x])
  <2> SUFFICES ASSUME NEW x \in S
               PROVE  /\ W(p, d)[x] \in Nat /\ W(q, e)[x] \in Nat /\ R[x] \in Nat
                      /\ W(p, d)[x] <= W(q, e)[x] /\ (Within(p) => W(p, d)[x] <= R[x])
    OBVIOUS
  <2> DEFINE k == Pending(set, t, x, r)
             c == set[x].cs[r]
             n == set[t].req[r]
             a == InsideDelay(set, x, r, d)
             b == InsideDelay(set, x, r, e)
  <2>1. k \in Nat /\ c \in Nat /\ n \in Nat
    BY PendingNat, TaskIsNat
  <2>2. a \in Nat /\ a <= b
    BY InsideMonotone
  <2>3. b \in Nat
    <3>1. e <= e
      OBVIOUS
    <3> QED
      BY <3>1, InsideMonotone
  <2>4. p[t] \in Nat /\ q[t] \in Nat /\ p[t] <= q[t] /\ M \in Nat
    BY SystemSize DEF Allocations, AtMost
  <2>5. Within(p) => p[t] <= M
    BY DEF Within
  <2>6. W(p, d)[x] = Min({a * n, k * p[t]}) * c /\ W(q, e)[x] = Min({b * n, k * q[t]}) * c
    OBVIOUS
  <2>7. R[x] = (M * k) * c
    OBVIOUS
  <2> HIDE DEF k, c, n, a, b, W, R
  <2>8. a * n \in Nat /\ b * n \in Nat /\ a * n <= b * n
    BY <2>1, <2>2, <2>3, TimesMonotone
  <2>9. /\ k * p[t] \in Nat /\ k * q[t] \in Nat /\ k * p[t] <= k * q[t]
        /\ M * k = k * M /\ M * k \in Nat /\ (Within(p) => k * p[t] <= k * M)
    <3>1. k <= k
      BY <2>1
    <3> QED
      BY <2>1, <2>4, <2>5, <3>1, TimesMonotone
  <2>10. /\ Min({a * n, k * p[t]}) * c \in Nat
         /\ Min({a * n, k * p[t]}) * c <= (k * p[t]) * c
    BY <2>1, <2>8, <2>9, TermNat
  <2>11. Min({b * n, k * q[t]}) * c \in Nat
    BY <2>1, <2>8, <2>9, TermNat
  <2>12. Min({a * n, k * p[t]}) * c <= Min({b * n, k * q[t]}) * c
    BY <2>1, <2>8, <2>9, TermMonotone
  <2>13. (k * p[t]) * c \in Nat /\ (M * k) * c \in Nat /\ (Within(p) => (k * p[t]) * c <= (M * k) * c)
    BY <2>1, <2>9, TimesMonotone
  <2> QED
    BY <2>6, <2>7, <2>10, <2>11, <2>12, <2>13
<1>3. W(p, d) \in [S -> Nat] /\ W(q, e) \in [S -> Nat] /\ R \in [S -> Nat]
  BY <1>2
<1>4. /\ InsideWork(set, p, t, r, S, d) = SumFunction(W(p, d))
      /\ InsideWork(set, q, t, r, S, e) = SumFunction(W(q, e))
      /\ Rest(set, t, r, S) = SumFunction(R)
  BY DEF InsideWork, Rest
<1> HIDE DEF R, W
<1>5. SumFunction(W(p, d)) \in Nat
  BY <1>1, <1>3, FunSumNat
<1>6. SumFunction(W(p, d)) <= SumFunction(W(q, e))
  BY <1>1, <1>2, <1>3, FunSumMonotone
<1>7. Within(p) => SumFunction(W(p, d)) <= SumFunction(R)
  BY <1>1, <1>2, <1>3, FunSumMonotone
<1> QED
  BY <1>4, <1>5, <1>6, <1>7

-------------------------------------------------------------------------------
(* The bounds under priority order for one resource. *)

PrioAt(set, f, p, t, r, i, d) ==
  SelfWait(set, p, t, r, i) + LongestLower(set, f, t, r, i)
  + PathSum(set, p, t, r, Equal(set, f, t, r), i)
  + InsidePath(set, t, r, Higher(set, f, t, r), i, d)

PrioPath(set, f, p, t, r) ==
  Max({PrioAt(set, f, p, t, r, i, DelayPerRequest(set, f, p, t, r)) : i \in 0 .. set[t].req[r]})

PrioWorkAt(set, f, p, t, r, d) ==
  SelfWork(set, p, t, r) + LongestLower(set, f, t, r, set[t].req[r])
  + WorkSum(set, p, t, r, Equal(set, f, t, r))
  + InsideWork(set, p, t, r, Higher(set, f, t, r), d)

PrioWork(set, f, p, t, r) == PrioWorkAt(set, f, p, t, r, DelayPerRequest(set, f, p, t, r))

\* The bounds under priority order are sums over the shared resources.
LEMMA PrioByResource ==
  ASSUME NEW set \in TaskSets, NEW f, NEW p \in Allocations, NEW t \in Tasks
  PROVE  /\ CriticalPathPrio(set, f, p, t) =
              SumFunction([r \in Shared(set, t) |-> PrioPath(set, f, p, t, r)])
         /\ WorkPrio(set, f, p, t) = SumFunction([r \in Shared(set, t) |-> PrioWork(set, f, p, t, r)])
<1>1. CriticalPathPrio(set, f, p, t) =
        SumFunction([r \in Shared(set, t) |-> PrioPath(set, f, p, t, r)])
  BY DEF CriticalPathPrio, PrioPath, PrioAt, PathSum, InsidePath
<1> DEFINE Same(r) == SumFunction([x \in Equal(set, f, t, r) |->
                        Min({p[x] * set[t].req[r], Pending(set, t, x, r) * p[t]}) * set[x].cs[r]])
<1>2. \A r \in Shared(set, t) : Same(r) = WorkSum(set, p, t, r, Equal(set, f, t, r))
  <2> TAKE r \in Shared(set, t)
  <2>0. r \in Resources
    BY SharedIsFinite
  <2> DEFINE A(x) == Min({p[x] * set[t].req[r], Pending(set, t, x, r) * p[t]}) * set[x].cs[r]
             B(x) == Min({p[t] * Pending(set, t, x, r), p[x] * set[t].req[r]}) * set[x].cs[r]
  <2>1. \A x \in Equal(set, f, t, r) : A(x) = B(x)
    <3> TAKE x \in Equal(set, f, t, r)
    <3>1. x \in Tasks
      BY GroupsAreFinite
    <3>2. Pending(set, t, x, r) \in Nat /\ p[t] \in Nat
      BY <2>0, <3>1, PendingNat DEF Allocations
    <3>3. Pending(set, t, x, r) * p[t] = p[t] * Pending(set, t, x, r)
      BY <3>2
    <3>4. {p[x] * set[t].req[r], Pending(set, t, x, r) * p[t]}
          = {p[t] * Pending(set, t, x, r), p[x] * set[t].req[r]}
      BY <3>3
    <3> QED
      BY <3>4
  <2>2. [x \in Equal(set, f, t, r) |-> A(x)] = [x \in Equal(set, f, t, r) |-> B(x)]
    BY <2>1
  <2> QED
    BY <2>2 DEF WorkSum
<1> DEFINE Whole(r) == SelfWork(set, p, t, r) + LongestLower(set, f, t, r, set[t].req[r]) + Same(r)
                       + InsideWork(set, p, t, r, Higher(set, f, t, r), DelayPerRequest(set, f, p, t, r))
<1>3. WorkPrio(set, f, p, t) = SumFunction([r \in Shared(set, t) |-> Whole(r)])
  BY DEF WorkPrio, InsideWork
<1> HIDE DEF Same
<1>4. \A r \in Shared(set, t) : Whole(r) = PrioWork(set, f, p, t, r)
  BY <1>2 DEF PrioWork, PrioWorkAt
<1> HIDE DEF Whole
<1> QED
  BY <1>1, <1>3, <1>4

\* Under priority order the bound for i requests is a natural number that grows.
LEMMA PrioAtBounds ==
  ASSUME NEW set \in TaskSets, NEW f, NEW p \in Allocations, NEW q \in Allocations, AtMost(p, q),
         NEW t \in Tasks, NEW r \in Resources, NEW i \in 0 .. set[t].req[r],
         NEW d \in Nat, NEW e \in Nat, d <= e
  PROVE  /\ PrioAt(set, f, p, t, r, i, d) \in Nat
         /\ PrioAt(set, f, p, t, r, i, d) <= PrioAt(set, f, q, t, r, i, e)
         /\ PrioAt(set, f, p, t, r, i, d) <= PrioWorkAt(set, f, p, t, r, d)
<1> DEFINE E == Equal(set, f, t, r)
           H == Higher(set, f, t, r)
           n == set[t].req[r]
<1>0. AtMost(q, q) /\ AtMost(p, p)
  BY DEF AtMost, Allocations
<1>1. E \in SUBSET Tasks /\ H \in SUBSET Tasks
  BY GroupsAreFinite
<1>2. n \in Nat /\ i \in Nat /\ i <= n /\ i <= i /\ n <= n /\ e <= e /\ d <= d
  BY TaskIsNat
<1>3. SelfWait(set, p, t, r, i) \in Nat /\ SelfWait(set, q, t, r, i) \in Nat
  BY SelfWaitNat
<1>4. SelfWait(set, p, t, r, i) <= SelfWait(set, q, t, r, i)
  BY SelfWaitMonotone
<1>5. SelfWork(set, p, t, r) \in Nat /\ SelfWait(set, p, t, r, i) <= SelfWork(set, p, t, r)
  BY SelfWorkBounds
<1> HIDE DEF E, H, n
<1>6. /\ LongestLower(set, f, t, r, i) \in Nat
      /\ LongestLower(set, f, t, r, i) <= LongestLower(set, f, t, r, n)
  BY <1>2, LongestLowerBounds
<1>7. LongestLower(set, f, t, r, n) \in Nat
  BY <1>2, LongestLowerBounds
<1>8. /\ PathSum(set, p, t, r, E, i) \in Nat
      /\ PathSum(set, p, t, r, E, i) <= PathSum(set, q, t, r, E, i)
      /\ PathSum(set, p, t, r, E, i) <= WorkSum(set, p, t, r, E)
  BY <1>1, PathSumBounds
<1>9. PathSum(set, q, t, r, E, i) \in Nat
  BY <1>0, <1>1, PathSumBounds
<1>10. WorkSum(set, p, t, r, E) \in Nat
  BY <1>1, WorkSumBounds
<1>11. /\ InsidePath(set, t, r, H, i, d) \in Nat
       /\ InsidePath(set, t, r, H, i, d) <= InsidePath(set, t, r, H, i, e)
       /\ InsidePath(set, t, r, H, i, d) <= InsideWork(set, p, t, r, H, d)
  BY <1>1, InsidePathBounds
<1>12. InsidePath(set, t, r, H, i, e) \in Nat
  BY <1>1, <1>2, InsidePathBounds
<1>13. InsideWork(set, p, t, r, H, d) \in Nat
  BY <1>0, <1>1, <1>2, InsideWorkBounds
<1>14. /\ PrioAt(set, f, p, t, r, i, d) =
            SelfWait(set, p, t, r, i) + LongestLower(set, f, t, r, i)
            + PathSum(set, p, t, r, E, i) + InsidePath(set, t, r, H, i, d)
       /\ PrioAt(set, f, q, t, r, i, e) =
            SelfWait(set, q, t, r, i) + LongestLower(set, f, t, r, i)
            + PathSum(set, q, t, r, E, i) + InsidePath(set, t, r, H, i, e)
       /\ PrioWorkAt(set, f, p, t, r, d) =
            SelfWork(set, p, t, r) + LongestLower(set, f, t, r, n)
            + WorkSum(set, p, t, r, E) + InsideWork(set, p, t, r, H, d)
  BY DEF PrioAt, PrioWorkAt, E, H, n
<1> QED
  BY <1>3, <1>4, <1>5, <1>6, <1>7, <1>8, <1>9, <1>10, <1>11, <1>12, <1>13, <1>14

\* So is the bound on all processors, within the limit.
LEMMA PrioWorkAtBounds ==
  ASSUME NEW set \in TaskSets, NEW f, NEW p \in Allocations, NEW q \in Allocations, AtMost(p, q),
         NEW t \in Tasks, NEW r \in Resources, NEW d \in Nat, NEW e \in Nat, d <= e
  PROVE  /\ PrioWorkAt(set, f, p, t, r, d) \in Nat
         /\ PrioWorkAt(set, f, p, t, r, d) <= PrioWorkAt(set, f, q, t, r, e)
<1> DEFINE E == Equal(set, f, t, r)
           H == Higher(set, f, t, r)
           n == set[t].req[r]
<1>0. AtMost(q, q)
  BY DEF AtMost, Allocations
<1>1. E \in SUBSET Tasks /\ H \in SUBSET Tasks
  BY GroupsAreFinite
<1>2. n \in Nat /\ n <= n /\ 0 \in 0 .. set[t].req[r] /\ e <= e
  BY TaskIsNat
<1> HIDE DEF E, H, n
<1>3. SelfWork(set, p, t, r) \in Nat /\ SelfWork(set, q, t, r) \in Nat
  BY <1>2, SelfWorkBounds
<1>4. SelfWork(set, p, t, r) <= SelfWork(set, q, t, r)
  BY SelfWorkMonotone
<1>5. LongestLower(set, f, t, r, n) \in Nat
  BY <1>2, LongestLowerBounds
<1>6. WorkSum(set, p, t, r, E) \in Nat /\ WorkSum(set, p, t, r, E) <= WorkSum(set, q, t, r, E)
  BY <1>1, WorkSumBounds
<1>7. WorkSum(set, q, t, r, E) \in Nat
  BY <1>0, <1>1, WorkSumBounds
<1>8. /\ InsideWork(set, p, t, r, H, d) \in Nat
      /\ InsideWork(set, p, t, r, H, d) <= InsideWork(set, q, t, r, H, e)
  BY <1>1, InsideWorkBounds
<1>9. InsideWork(set, q, t, r, H, e) \in Nat
  BY <1>0, <1>1, <1>2, InsideWorkBounds
<1>10. /\ PrioWorkAt(set, f, p, t, r, d) =
            SelfWork(set, p, t, r) + LongestLower(set, f, t, r, n)
            + WorkSum(set, p, t, r, E) + InsideWork(set, p, t, r, H, d)
       /\ PrioWorkAt(set, f, q, t, r, e) =
            SelfWork(set, q, t, r) + LongestLower(set, f, t, r, n)
            + WorkSum(set, q, t, r, E) + InsideWork(set, q, t, r, H, e)
  BY DEF PrioWorkAt, E, H, n
<1> QED
  BY <1>3, <1>4, <1>5, <1>6, <1>7, <1>8, <1>9, <1>10

\* So is the bound for the worst number of requests.
LEMMA PrioPathBounds ==
  ASSUME NEW set \in TaskSets, NEW f, NEW p \in Allocations, NEW q \in Allocations, AtMost(p, q),
         NEW t \in Tasks, DelaysBounded(set, f, q, t), NEW r \in Own(set, t)
  PROVE  /\ PrioPath(set, f, p, t, r) \in Nat
         /\ PrioPath(set, f, p, t, r) <= PrioPath(set, f, q, t, r)
         /\ PrioPath(set, f, p, t, r) <= PrioWork(set, f, p, t, r)
         /\ PrioWork(set, f, p, t, r) \in Nat
         /\ PrioWork(set, f, p, t, r) <= PrioWork(set, f, q, t, r)
<1> DEFINE n == set[t].req[r]
           d == DelayPerRequest(set, f, p, t, r)
           e == DelayPerRequest(set, f, q, t, r)
           F == [i \in 0 .. n |-> PrioAt(set, f, p, t, r, i, d)]
           G == [i \in 0 .. n |-> PrioAt(set, f, q, t, r, i, e)]
           v == PrioWorkAt(set, f, p, t, r, d)
           w == PrioWorkAt(set, f, q, t, r, e)
<1>0. r \in Resources
  BY SharedIsFinite
<1>1. AtMost(q, q) /\ AtMost(p, p) /\ n \in Nat
  BY <1>0, TaskIsNat DEF AtMost, Allocations
<1>2. d \in Nat /\ e \in Nat
  BY DelayIsLeast
<1>3. d <= e
  BY DelayMonotone DEF DelaysBounded
<1>4. /\ PrioPath(set, f, p, t, r) = Max({F[i] : i \in 0 .. n})
      /\ PrioPath(set, f, q, t, r) = Max({G[i] : i \in 0 .. n})
  <2>1. {F[i] : i \in 0 .. n} = {PrioAt(set, f, p, t, r, i, d) : i \in 0 .. n}
    OBVIOUS
  <2>2. {G[i] : i \in 0 .. n} = {PrioAt(set, f, q, t, r, i, e) : i \in 0 .. n}
    OBVIOUS
  <2> QED
    BY <2>1, <2>2 DEF PrioPath
<1>5. PrioWork(set, f, p, t, r) = v /\ PrioWork(set, f, q, t, r) = w
  BY DEF PrioWork
<1> HIDE DEF d, e
<1>6. d <= d /\ e <= e
  BY <1>2
<1>7. v \in Nat /\ w \in Nat
  BY <1>0, <1>1, <1>2, <1>6, PrioWorkAtBounds
<1>8. v <= w
  BY <1>0, <1>2, <1>3, PrioWorkAtBounds
<1>9. \A i \in 0 .. n : /\ PrioAt(set, f, p, t, r, i, d) \in Nat
                        /\ PrioAt(set, f, p, t, r, i, d) <= PrioAt(set, f, q, t, r, i, e)
                        /\ PrioAt(set, f, p, t, r, i, d) <= v
  BY <1>0, <1>2, <1>3, PrioAtBounds
<1>10. \A i \in 0 .. n : /\ PrioAt(set, f, q, t, r, i, e) \in Nat
                         /\ PrioAt(set, f, q, t, r, i, e) <= w
  BY <1>0, <1>1, <1>2, <1>6, PrioAtBounds
<1>11. F \in [0 .. n -> Nat] /\ G \in [0 .. n -> Nat]
  BY <1>9, <1>10
<1>12. /\ \A i \in 0 .. n : F[i] <= G[i] /\ G[i] <= w
       /\ \A i \in 0 .. n : F[i] <= v
  BY <1>9, <1>10
<1> HIDE DEF F, G, v, w, n
<1>13. Max({F[i] : i \in 0 .. n}) <= Max({G[i] : i \in 0 .. n})
  BY <1>1, <1>7, <1>11, <1>12, GreatestMonotone
<1>14. Max({F[i] : i \in 0 .. n}) \in Nat /\ Max({F[i] : i \in 0 .. n}) <= v
  BY <1>1, <1>7, <1>11, <1>12, GreatestValue
<1> QED
  BY <1>4, <1>5, <1>7, <1>8, <1>13, <1>14

-------------------------------------------------------------------------------
(* The bounds over all resources. *)

\* The priorities are not given up on account of t under the allocation q.
Usable(set, lock, f, q, t) == lock = "fifo" \/ DelaysBounded(set, f, q, t)

PathOf(set, lock, f, p, t, r) ==
  IF lock = "fifo" THEN FifoPath(set, p, t, r) ELSE PrioPath(set, f, p, t, r)

WorkOf(set, lock, f, p, t, r) ==
  IF lock = "fifo" THEN FifoWork(set, p, t, r) ELSE PrioWork(set, f, p, t, r)

\* Both kinds of bounds, as sums over the shared resources.
LEMMA ByResource ==
  ASSUME NEW set \in TaskSets, NEW lock, NEW f, NEW p \in Allocations, NEW t \in Tasks
  PROVE  /\ CriticalPathBlocking(set, lock, f, p, t) =
              SumFunction([r \in Shared(set, t) |-> PathOf(set, lock, f, p, t, r)])
         /\ WorkBlocking(set, lock, f, p, t) =
              SumFunction([r \in Shared(set, t) |-> WorkOf(set, lock, f, p, t, r)])
<1>1. CASE lock = "fifo"
  BY <1>1, FifoByResource DEF CriticalPathBlocking, WorkBlocking, PathOf, WorkOf
<1>2. CASE lock # "fifo"
  BY <1>2, PrioByResource DEF CriticalPathBlocking, WorkBlocking, PathOf, WorkOf
<1> QED
  BY <1>1, <1>2

\* Both bounds grow with the allocation, and along the critical path a task
\* never waits for longer than it does on all its processors together.
THEOREM BlockingMonotone ==
  ASSUME NEW set \in TaskSets, NEW lock, NEW f, NEW p \in Allocations, NEW q \in Allocations,
         AtMost(p, q), NEW t \in Tasks, Usable(set, lock, f, q, t)
  PROVE  /\ CriticalPathBlocking(set, lock, f, p, t) \in Nat
         /\ CriticalPathBlocking(set, lock, f, p, t) <= CriticalPathBlocking(set, lock, f, q, t)
         /\ CriticalPathBlocking(set, lock, f, p, t) <= WorkBlocking(set, lock, f, p, t)
         /\ WorkBlocking(set, lock, f, p, t) \in Nat
         /\ WorkBlocking(set, lock, f, p, t) <= WorkBlocking(set, lock, f, q, t)
<1> DEFINE S == Shared(set, t)
           F(g) == [r \in S |-> PathOf(set, lock, f, g, t, r)]
           W(g) == [r \in S |-> WorkOf(set, lock, f, g, t, r)]
<1>1. IsFiniteSet(S)
  BY SharedIsFinite
<1>2. AtMost(q, q)
  BY DEF AtMost, Allocations
<1>3. \A r \in S : /\ F(p)[r] \in Nat /\ F(p)[r] <= F(q)[r] /\ F(p)[r] <= W(p)[r]
                   /\ W(p)[r] \in Nat /\ W(p)[r] <= W(q)[r] /\ F(q)[r] \in Nat /\ W(q)[r] \in Nat
  <2> SUFFICES ASSUME NEW r \in S
               PROVE  /\ F(p)[r] \in Nat /\ F(p)[r] <= F(q)[r] /\ F(p)[r] <= W(p)[r]
                      /\ W(p)[r] \in Nat /\ W(p)[r] <= W(q)[r]
                      /\ F(q)[r] \in Nat /\ W(q)[r] \in Nat
    OBVIOUS
  <2>1. r \in Own(set, t) /\ r \in Resources
    BY SharedIsFinite
  <2>2. CASE lock = "fifo"
    <3>1. /\ F(p)[r] = FifoPath(set, p, t, r) /\ F(q)[r] = FifoPath(set, q, t, r)
          /\ W(p)[r] = FifoWork(set, p, t, r) /\ W(q)[r] = FifoWork(set, q, t, r)
      BY <2>2 DEF PathOf, WorkOf
    <3> HIDE DEF F, W
    <3>2. /\ FifoPath(set, p, t, r) \in Nat
          /\ FifoPath(set, p, t, r) <= FifoPath(set, q, t, r)
          /\ FifoPath(set, p, t, r) <= FifoWork(set, p, t, r)
          /\ FifoWork(set, p, t, r) \in Nat
          /\ FifoWork(set, p, t, r) <= FifoWork(set, q, t, r)
      BY <2>1, FifoPathBounds
    <3>3. FifoPath(set, q, t, r) \in Nat /\ FifoWork(set, q, t, r) \in Nat
      BY <1>2, <2>1, FifoPathBounds
    <3> QED
      BY <3>1, <3>2, <3>3
  <2>3. CASE lock # "fifo"
    <3>0. DelaysBounded(set, f, q, t)
      BY <2>3 DEF Usable
    <3>1. /\ F(p)[r] = PrioPath(set, f, p, t, r) /\ F(q)[r] = PrioPath(set, f, q, t, r)
          /\ W(p)[r] = PrioWork(set, f, p, t, r) /\ W(q)[r] = PrioWork(set, f, q, t, r)
      BY <2>3 DEF PathOf, WorkOf
    <3> HIDE DEF F, W
    <3>2. /\ PrioPath(set, f, p, t, r) \in Nat
          /\ PrioPath(set, f, p, t, r) <= PrioPath(set, f, q, t, r)
          /\ PrioPath(set, f, p, t, r) <= PrioWork(set, f, p, t, r)
          /\ PrioWork(set, f, p, t, r) \in Nat
          /\ PrioWork(set, f, p, t, r) <= PrioWork(set, f, q, t, r)
      BY <2>1, <3>0, PrioPathBounds
    <3>3. PrioPath(set, f, q, t, r) \in Nat /\ PrioWork(set, f, q, t, r) \in Nat
      BY <1>2, <2>1, <3>0, PrioPathBounds
    <3> QED
      BY <3>1, <3>2, <3>3
  <2> QED
    BY <2>2, <2>3
<1>4. F(p) \in [S -> Nat] /\ F(q) \in [S -> Nat] /\ W(p) \in [S -> Nat] /\ W(q) \in [S -> Nat]
  BY <1>3
<1>5. /\ CriticalPathBlocking(set, lock, f, p, t) = SumFunction(F(p))
      /\ WorkBlocking(set, lock, f, p, t) = SumFunction(W(p))
  BY ByResource
<1>6. /\ CriticalPathBlocking(set, lock, f, q, t) = SumFunction(F(q))
      /\ WorkBlocking(set, lock, f, q, t) = SumFunction(W(q))
  BY ByResource
<1> HIDE DEF F, W, S
<1>7. SumFunction(F(p)) \in Nat /\ SumFunction(W(p)) \in Nat
  BY <1>1, <1>4, FunSumNat
<1>8. SumFunction(F(p)) <= SumFunction(F(q))
  BY <1>1, <1>3, <1>4, FunSumMonotone
<1>9. SumFunction(F(p)) <= SumFunction(W(p))
  BY <1>1, <1>3, <1>4, FunSumMonotone
<1>10. SumFunction(W(p)) <= SumFunction(W(q))
  BY <1>1, <1>3, <1>4, FunSumMonotone
<1> QED
  BY <1>5, <1>6, <1>7, <1>8, <1>9, <1>10

-------------------------------------------------------------------------------
(* On M processors the bounds are far from the limit of the numbers. *)

\* The sum over a part, as the sum of one function.
LEMMA RestOnSet ==
  ASSUME NEW set \in TaskSets, NEW t \in Tasks, NEW r \in Resources, NEW S \in SUBSET Tasks,
         NEW F, F = [x \in Tasks |-> M * Pending(set, t, x, r) * set[x].cs[r]]
  PROVE  /\ Rest(set, t, r, S) = SumFunctionOnSet(F, S)
         /\ SumFunctionOnSet(F, S) \in Nat
<1> DEFINE G == [x \in S |-> M * Pending(set, t, x, r) * set[x].cs[r]]
<1>1. IsFiniteSet(S)
  BY BoundsConstants, FS_Subset
<1>2. \A x \in S : G[x] \in Nat /\ F[x] \in Nat /\ G[x] = F[x]
  BY RestTerm
<1>3. \A x \in S : G[x] \in Int /\ G[x] = F[x]
  BY <1>2
<1>4. Rest(set, t, r, S) = SumFunctionOnSet(G, S)
  BY DEF Rest, SumFunction
<1> HIDE DEF G
<1>5. SumFunctionOnSet(G, S) = SumFunctionOnSet(F, S)
  BY <1>1, <1>3, SumSame
<1>6. SumFunctionOnSet(F, S) \in Nat
  BY <1>1, <1>2, SumNat
<1> QED
  BY <1>4, <1>5, <1>6

\* The cost of equal, lower and higher tasks stays below that of all others.
LEMMA RestOfParts ==
  ASSUME NEW set \in TaskSets, NEW t \in Tasks, NEW r \in Resources,
         NEW A \in SUBSET Tasks, NEW B \in SUBSET Tasks, NEW C \in SUBSET Tasks,
         A \cap B = {}, (A \cup B) \cap C = {}, t \notin A \cup B \cup C
  PROVE  /\ Rest(set, t, r, A) + Rest(set, t, r, B) + Rest(set, t, r, C)
              <= Rest(set, t, r, Tasks \ {t})
         /\ Rest(set, t, r, Tasks \ {t}) \in Nat
<1> DEFINE F == [x \in Tasks |-> M * Pending(set, t, x, r) * set[x].cs[r]]
           D == Tasks \ {t}
           U == A \cup B
           V == U \cup C
<1>0. IsFiniteSet(A) /\ IsFiniteSet(B) /\ IsFiniteSet(C) /\ IsFiniteSet(U) /\ IsFiniteSet(D)
  <2>1. \A S : S \subseteq Tasks => IsFiniteSet(S)
    BY BoundsConstants, FS_Subset
  <2> QED
    BY <2>1
<1>1. \A x \in Tasks : F[x] \in Nat /\ F[x] \in Int
  <2> TAKE x \in Tasks
  <2>1. F[x] \in Nat
    BY RestTerm
  <2> QED
    BY <2>1
<1>2. F = [x \in Tasks |-> M * Pending(set, t, x, r) * set[x].cs[r]]
  OBVIOUS
<1> HIDE DEF F
<1>3. /\ Rest(set, t, r, A) = SumFunctionOnSet(F, A)
      /\ Rest(set, t, r, B) = SumFunctionOnSet(F, B)
      /\ Rest(set, t, r, C) = SumFunctionOnSet(F, C)
  BY <1>2, RestOnSet
<1>4. D \in SUBSET Tasks
  OBVIOUS
<1>5. Rest(set, t, r, D) = SumFunctionOnSet(F, D) /\ SumFunctionOnSet(F, D) \in Nat
  <2> HIDE DEF D
  <2> QED
    BY <1>2, <1>4, RestOnSet
<1>6. SumFunctionOnSet(F, U) = SumFunctionOnSet(F, A) + SumFunctionOnSet(F, B)
  BY <1>0, <1>1, SumUnion
<1>7. SumFunctionOnSet(F, V) = SumFunctionOnSet(F, U) + SumFunctionOnSet(F, C)
  <2>1. \A x \in U \cup C : F[x] \in Int
    BY <1>1
  <2>2. U \cap C = {}
    OBVIOUS
  <2> HIDE DEF U
  <2> QED
    BY <1>0, <2>1, <2>2, SumUnion
<1>8. V \in SUBSET D /\ \A x \in D : F[x] \in Nat
  BY <1>1
<1> HIDE DEF D, U, V
<1>9. SumFunctionOnSet(F, V) <= SumFunctionOnSet(F, D)
  BY <1>0, <1>8, SumSubset
<1> QED
  BY <1>3, <1>5, <1>6, <1>7, <1>9 DEF D

Priorities == [Tasks -> Int]

\* The work that one resource brings stays below its part of the limit.
LEMMA WorkOfLimit ==
  ASSUME NEW set \in TaskSets, NEW lock, NEW f \in Priorities, NEW p \in Allocations, Within(p),
         NEW t \in Tasks, NEW r \in Own(set, t)
  PROVE  WorkOf(set, lock, f, p, t, r) <= WorkLimit(set, t, r) /\ WorkLimit(set, t, r) \in Nat
<1> DEFINE D == Tasks \ {t}
           n == set[t].req[r]
           c == set[t].cs[r]
           H == Higher(set, f, t, r)
           L == Lower(set, f, t, r)
           E == Equal(set, f, t, r)
           I == Interfering(set, t, r)
<1>0. r \in Resources /\ AtMost(p, p)
  BY SharedIsFinite DEF AtMost, Allocations
<1>1. n \in Nat /\ c \in Nat /\ n * n * c \in Nat /\ 0 \in 0 .. set[t].req[r] /\ n <= n
  <2>1. n \in Nat /\ c \in Nat
    BY <1>0, TaskIsNat
  <2> HIDE DEF n, c
  <2>2. n * n \in Nat /\ n * n * c \in Nat
    BY <2>1
  <2> QED
    BY <2>1, <2>2 DEF n
<1>2. WorkLimit(set, t, r) = n * n * c + Rest(set, t, r, D)
  BY DEF WorkLimit, Rest
<1>3. SelfWork(set, p, t, r) \in Nat /\ SelfWork(set, p, t, r) <= n * n * c
  BY <1>0, <1>1, SelfWorkBounds
<1>4. /\ I \in SUBSET Tasks /\ H \in SUBSET Tasks /\ L \in SUBSET Tasks /\ E \in SUBSET Tasks
  BY GroupsAreFinite
<1>5. I \cap {} = {} /\ (I \cup {}) \cap {} = {} /\ t \notin I \cup {} \cup {}
  BY DEF Interfering
<1>6. H \cap L = {} /\ (H \cup L) \cap E = {} /\ t \notin H \cup L \cup E
  BY DEF Higher, Lower, Equal, Interfering, Priorities
<1> HIDE DEF D, n, c, H, L, E, I
<1>7. /\ Rest(set, t, r, H) + Rest(set, t, r, L) + Rest(set, t, r, E) <= Rest(set, t, r, D)
      /\ Rest(set, t, r, D) \in Nat
  BY <1>0, <1>4, <1>6, RestOfParts DEF D
<1>8. WorkLimit(set, t, r) \in Nat
  BY <1>1, <1>2, <1>7
<1>9. CASE lock = "fifo"
  <2>1. Rest(set, t, r, I) + Rest(set, t, r, {}) + Rest(set, t, r, {}) <= Rest(set, t, r, D)
    <3>1. {} \in SUBSET Tasks
      OBVIOUS
    <3> QED
      BY <1>0, <1>4, <1>5, <3>1, RestOfParts DEF D
  <2>2. Rest(set, t, r, {}) = 0
    <3> DEFINE G == [x \in {} |-> M * Pending(set, t, x, r) * set[x].cs[r]]
    <3>1. Rest(set, t, r, {}) = SumFunctionOnSet(G, {})
      BY DEF Rest, SumFunction
    <3> HIDE DEF G
    <3> QED
      BY <3>1, SumEmpty
  <2>3. WorkSum(set, p, t, r, I) \in Nat
    BY <1>0, <1>4, WorkSumBounds
  <2>4. WorkSum(set, p, t, r, I) <= Rest(set, t, r, I)
    BY <1>0, <1>4, WorkSumLimit
  <2>5. Rest(set, t, r, I) \in Nat
    <3> DEFINE F == [x \in Tasks |-> M * Pending(set, t, x, r) * set[x].cs[r]]
    <3>1. F = [x \in Tasks |-> M * Pending(set, t, x, r) * set[x].cs[r]]
      OBVIOUS
    <3> HIDE DEF F
    <3> QED
      BY <1>0, <1>4, <3>1, RestOnSet
  <2>6. WorkOf(set, lock, f, p, t, r) = SelfWork(set, p, t, r) + WorkSum(set, p, t, r, I)
    BY <1>9 DEF WorkOf, FifoWork, I
  <2> QED
    BY <1>1, <1>2, <1>3, <1>7, <1>8, <2>1, <2>2, <2>3, <2>4, <2>5, <2>6
<1>10. CASE lock # "fifo"
  <2> DEFINE d == DelayPerRequest(set, f, p, t, r)
  <2>0. d \in Nat
    BY DelayIsLeast
  <2>1. WorkOf(set, lock, f, p, t, r) =
          SelfWork(set, p, t, r) + LongestLower(set, f, t, r, n)
          + WorkSum(set, p, t, r, E) + InsideWork(set, p, t, r, H, d)
    BY <1>10 DEF WorkOf, PrioWork, PrioWorkAt, H, E, n
  <2> HIDE DEF d
  <2>2. LongestLower(set, f, t, r, n) \in Nat /\ LongestLower(set, f, t, r, n) <= Rest(set, t, r, L)
    BY <1>0, <1>1, LongestLowerBounds DEF L
  <2>3. WorkSum(set, p, t, r, E) \in Nat
    BY <1>0, <1>4, WorkSumBounds
  <2>4. WorkSum(set, p, t, r, E) <= Rest(set, t, r, E)
    BY <1>0, <1>4, WorkSumLimit
  <2>5. d <= d
    BY <2>0
  <2>6. InsideWork(set, p, t, r, H, d) \in Nat /\ InsideWork(set, p, t, r, H, d) <= Rest(set, t, r, H)
    BY <1>0, <1>4, <2>0, <2>5, InsideWorkBounds
  <2>7. /\ Rest(set, t, r, H) \in Nat /\ Rest(set, t, r, L) \in Nat /\ Rest(set, t, r, E) \in Nat
    <3> DEFINE F == [x \in Tasks |-> M * Pending(set, t, x, r) * set[x].cs[r]]
    <3>1. F = [x \in Tasks |-> M * Pending(set, t, x, r) * set[x].cs[r]]
      OBVIOUS
    <3> HIDE DEF F
    <3> QED
      BY <1>0, <1>4, <3>1, RestOnSet
  <2> QED
    BY <1>1, <1>2, <1>3, <1>7, <1>8, <2>1, <2>2, <2>3, <2>4, <2>6, <2>7
<1> QED
  BY <1>8, <1>9, <1>10

\* The limit itself is a natural number.
LEMMA WorkLimitNat ==
  ASSUME NEW set \in TaskSets, NEW t \in Tasks, NEW r \in Resources
  PROVE  WorkLimit(set, t, r) \in Nat
<1> DEFINE n == set[t].req[r]
           c == set[t].cs[r]
<1>1. WorkLimit(set, t, r) = n * n * c + Rest(set, t, r, Tasks \ {t})
  BY DEF WorkLimit, Rest
<1>2. n \in Nat /\ c \in Nat
  BY TaskIsNat
<1> HIDE DEF n, c
<1>3. n * n \in Nat /\ n * n * c \in Nat
  BY <1>2
<1>4. Rest(set, t, r, Tasks \ {t}) \in Nat
  <2> DEFINE F == [x \in Tasks |-> M * Pending(set, t, x, r) * set[x].cs[r]]
             D == Tasks \ {t}
  <2>1. F = [x \in Tasks |-> M * Pending(set, t, x, r) * set[x].cs[r]] /\ D \in SUBSET Tasks
    OBVIOUS
  <2> HIDE DEF F, D
  <2>2. Rest(set, t, r, D) \in Nat
    BY <2>1, RestOnSet
  <2> QED
    BY <2>2 DEF D
<1> QED
  BY <1>1, <1>3, <1>4

\* No overflow: the work with the blocking is a number of the program.
LEMMA WorkFits ==
  ASSUME NEW set \in TaskSets, NEW lock, NEW f \in Priorities, NEW p \in Allocations, Within(p),
         NEW t \in Tasks, Usable(set, lock, f, p, t)
  PROVE  set[t].wcet + WorkBlocking(set, lock, f, p, t) < LongMod
<1> DEFINE S == Shared(set, t)
           W == [r \in S |-> WorkOf(set, lock, f, p, t, r)]
           B == [r \in Resources |-> WorkLimit(set, t, r)]
<1>0. IsFiniteSet(S) /\ S \subseteq Own(set, t) /\ S \in SUBSET Resources /\ IsFiniteSet(Resources)
  BY SharedIsFinite, BoundsConstants
<1>1. \A r \in Resources : B[r] \in Nat
  BY WorkLimitNat
<1>2. \A r \in S : W[r] \in Nat /\ W[r] <= B[r]
  <2> SUFFICES ASSUME NEW r \in S PROVE W[r] \in Nat /\ W[r] <= B[r]
    OBVIOUS
  <2>1. r \in Own(set, t) /\ r \in Resources /\ AtMost(p, p)
    BY <1>0 DEF AtMost, Allocations
  <2>2. WorkOf(set, lock, f, p, t, r) <= WorkLimit(set, t, r)
    BY <2>1, WorkOfLimit
  <2>3. WorkOf(set, lock, f, p, t, r) \in Nat
    <3>1. CASE lock = "fifo"
      BY <2>1, <3>1, FifoPathBounds DEF WorkOf
    <3>2. CASE lock # "fifo"
      BY <2>1, <3>2, PrioPathBounds DEF WorkOf, Usable
    <3> QED
      BY <3>1, <3>2
  <2>4. W[r] = WorkOf(set, lock, f, p, t, r) /\ B[r] = WorkLimit(set, t, r)
    BY <2>1
  <2> QED
    BY <2>2, <2>3, <2>4
<1>3. WorkBlocking(set, lock, f, p, t) = SumFunctionOnSet(W, S)
  <2>1. WorkBlocking(set, lock, f, p, t) = SumFunction(W)
    BY ByResource
  <2> QED
    BY <2>1 DEF SumFunction
<1>4. SumFunction(B) = SumFunctionOnSet(B, Resources)
  BY DEF SumFunction
<1>5. set[t].wcet + SumFunction(B) < LongMod /\ set[t].wcet \in Nat
  BY GeneratedTaskSets, Zenon
<1>6. LongMod \in Nat
  BY BoundsConstants
<1> HIDE DEF W, S, B
<1>7. SumFunctionOnSet(W, S) <= SumFunctionOnSet(B, S)
  <2>1. \A r \in S : W[r] \in Int /\ B[r] \in Int /\ W[r] <= B[r]
    BY <1>0, <1>1, <1>2
  <2> QED
    BY <1>0, <2>1, SumMonotone
<1>8. SumFunctionOnSet(B, S) <= SumFunctionOnSet(B, Resources)
  BY <1>0, <1>1, SumSubset
<1>9. SumFunctionOnSet(W, S) \in Nat
  BY <1>0, <1>2, SumNat
<1>10. SumFunctionOnSet(B, S) \in Nat /\ SumFunctionOnSet(B, Resources) \in Nat
  <2>1. \A r \in S : B[r] \in Nat
    BY <1>0, <1>1
  <2> QED
    BY <1>0, <1>1, <2>1, SumNat
<1> QED
  BY <1>3, <1>4, <1>5, <1>6, <1>7, <1>8, <1>9, <1>10

-------------------------------------------------------------------------------
(* The number of processors that a task needs. *)

\* alloc_proc yields a natural number.
LEMMA AllocNat ==
  ASSUME NEW task, task.period \in Nat, task.span \in Nat, task.wcet \in Nat,
         NEW w \in Nat, NEW s \in Nat
  PROVE  AllocProc(task, w, s) \in Nat
<1> DEFINE x == LongMinus(task.wcet + w, task.span + s)
           y == LongMinus(task.period, task.span + s)
<1>1. x \in Nat /\ y \in Nat
  <2>1. LongMod \in Nat \ {0}
    BY BoundsConstants
  <2>2. \A a \in Int : a % LongMod \in Nat
    BY <2>1
  <2>3. task.wcet + w - (task.span + s) \in Int /\ task.period - (task.span + s) \in Int
    OBVIOUS
  <2> QED
    BY <2>2, <2>3 DEF LongMinus
<1>2. AllocProc(task, w, s) = IF y = 0 THEN DivByZero ELSE (x + y - 1) \div y
  BY DEF AllocProc
<1> HIDE DEF x, y
<1>3. y # 0 => (x + y - 1) \div y \in Nat
  <2> SUFFICES ASSUME y # 0 PROVE (x + y - 1) \div y \in Nat
    OBVIOUS
  <2>1. y \in Nat \ {0} /\ x + y - 1 \in Nat
    BY <1>1
  <2> DEFINE z == x + y - 1
  <2> HIDE DEF z
  <2>2. z \div y \in Nat
    BY <2>1, DivNat DEF z
  <2> QED
    BY <2>2 DEF z
<1> QED
  BY <1>2, <1>3, BoundsConstants

\* Without overflow a task needs the least number of processors on which the
\* work beyond the critical path is done between its end and the deadline.
LEMMA AllocIsLeast ==
  ASSUME NEW task, task.period \in Nat, task.span \in Nat, task.wcet \in Nat,
         NEW w \in Nat, NEW s \in Nat, NEW a \in Nat,
         task.period < LongMod, task.wcet + w < LongMod,
         task.span + s < task.period, task.span + s <= task.wcet + w
  PROVE  (AllocProc(task, w, s) <= a) <=>
           (task.wcet + w - (task.span + s) <= a * (task.period - (task.span + s)))
<1> DEFINE x == task.wcet + w - (task.span + s)
           y == task.period - (task.span + s)
<1>0. LongMod \in Nat \ {0}
  BY BoundsConstants
<1>1. x \in Nat /\ y \in Nat \ {0} /\ x < LongMod /\ y < LongMod
  <2>1. x \in Int /\ y \in Int /\ x >= 0 /\ y > 0
    OBVIOUS
  <2>2. x <= task.wcet + w /\ y <= task.period
    OBVIOUS
  <2> HIDE DEF x, y
  <2> QED
    BY <1>0, <2>1, <2>2
<1>2. LongMinus(task.wcet + w, task.span + s) = x % LongMod
  BY DEF LongMinus
<1>3. LongMinus(task.period, task.span + s) = y % LongMod
  BY DEF LongMinus
<1> HIDE DEF x, y
<1>4. x % LongMod = x
  BY <1>0, <1>1, ModSmall
<1>5. y % LongMod = y
  BY <1>0, <1>1, ModSmall
<1>6. AllocProc(task, w, s) = (x + y - 1) \div y
  BY <1>1, <1>2, <1>3, <1>4, <1>5 DEF AllocProc
<1>7. ((x + y - 1) \div y <= a) <=> (x <= a * y)
  BY <1>1, CeilingIsLeast
<1> QED
  BY <1>6, <1>7 DEF x, y

\* The bounds and the processors needed are natural numbers, and work covers path.
LEMMA BlockingNat ==
  ASSUME NEW set \in TaskSets, NEW lock, NEW f, NEW p \in Allocations, NEW t \in Tasks,
         Usable(set, lock, f, p, t)
  PROVE  /\ CriticalPathBlocking(set, lock, f, p, t) \in Nat
         /\ WorkBlocking(set, lock, f, p, t) \in Nat
         /\ CriticalPathBlocking(set, lock, f, p, t) <= WorkBlocking(set, lock, f, p, t)
         /\ Need(set, lock, f, p, t) \in Nat
<1>1. AtMost(p, p)
  BY DEF AtMost, Allocations
<1>2. /\ CriticalPathBlocking(set, lock, f, p, t) \in Nat
      /\ WorkBlocking(set, lock, f, p, t) \in Nat
      /\ CriticalPathBlocking(set, lock, f, p, t) <= WorkBlocking(set, lock, f, p, t)
  BY <1>1, BlockingMonotone
<1>3. set[t].period \in Nat /\ set[t].span \in Nat /\ set[t].wcet \in Nat
  BY TaskIsNat
<1>4. Need(set, lock, f, p, t) \in Nat
  BY <1>2, <1>3, AllocNat DEF Need
<1> QED
  BY <1>2, <1>4

\* If a task needs no more than it has under q, with slack left, it needs no more
\* than that under any smaller allocation.
LEMMA NeedIsLeast ==
  ASSUME NEW set \in TaskSets, NEW lock, NEW f \in Priorities, NEW p \in Allocations,
         NEW q \in Allocations, AtMost(p, q), Within(q), NEW t \in Tasks,
         Usable(set, lock, f, q, t), Usable(set, lock, f, p, t),
         set[t].span + CriticalPathBlocking(set, lock, f, q, t) < set[t].period,
         Need(set, lock, f, q, t) <= q[t]
  PROVE  Need(set, lock, f, p, t) <= q[t]
<1> DEFINE v == WorkBlocking(set, lock, f, p, t)
           w == WorkBlocking(set, lock, f, q, t)
           r == CriticalPathBlocking(set, lock, f, p, t)
           s == CriticalPathBlocking(set, lock, f, q, t)
           a == q[t]
           task == set[t]
<1>1. v \in Nat /\ r \in Nat /\ w \in Nat /\ s \in Nat /\ r <= v /\ s <= w
  BY BlockingNat
<1>2. v <= w /\ r <= s
  BY BlockingMonotone
<1>3. /\ task.period \in Nat /\ task.span \in Nat /\ task.wcet \in Nat
      /\ task.span < task.wcet /\ task.period < LongMod
  <2>1. set[t].period < LongMod
    BY GeneratedTaskSets, Zenon
  <2> QED
    BY <2>1, TaskIsNat
<1>4. a \in Nat \ {0}
  BY DEF Allocations
<1>5. task.wcet + w < LongMod /\ LongMod \in Nat
  BY WorkFits, BoundsConstants
<1>6. task.span + s < task.period
  OBVIOUS
<1>7. AllocProc(task, w, s) <= a
  BY DEF Need
<1>8. Need(set, lock, f, p, t) = AllocProc(task, v, r)
  BY DEF Need
<1> SUFFICES AllocProc(task, v, r) <= a
  BY <1>8
<1> HIDE DEF v, w, r, s, a, task
<1>9. /\ task.wcet + v < LongMod /\ task.span + r < task.period
      /\ task.span + r <= task.wcet + v /\ task.span + s <= task.wcet + w
  BY <1>1, <1>2, <1>3, <1>5, <1>6
<1>10. task.wcet + w - (task.span + s) <= a * (task.period - (task.span + s))
  BY <1>1, <1>3, <1>4, <1>5, <1>6, <1>7, <1>9, AllocIsLeast
<1>11. task.wcet + v - (task.span + r) <= a * (task.period - (task.span + r))
  <2> DEFINE e == s - r
             y == task.period - (task.span + s)
  <2>1. e \in Nat /\ y \in Nat
    BY <1>1, <1>2, <1>3, <1>6
  <2>2. task.period - (task.span + r) = y + e
    BY <1>1, <1>3
  <2>3. task.wcet + v - (task.span + r) <= (task.wcet + w - (task.span + s)) + e
    BY <1>1, <1>2, <1>3
  <2>3a. task.wcet + v - (task.span + r) \in Int /\ task.wcet + w - (task.span + s) \in Int
    BY <1>1, <1>3
  <2>4. task.wcet + w - (task.span + s) <= a * y
    BY <1>10
  <2> HIDE DEF e, y
  <2>5. a * (y + e) = a * y + a * e /\ a * y \in Nat /\ a * e \in Nat
    BY <1>4, <2>1
  <2>6. e <= a * e
    BY <1>4, <2>1, TimesAtLeast
  <2> DEFINE l == task.wcet + v - (task.span + r)
             m == task.wcet + w - (task.span + s)
  <2>7. l <= m + e /\ m <= a * y /\ l \in Int /\ m \in Int
    BY <2>3, <2>3a, <2>4
  <2> HIDE DEF l, m
  <2>8. l <= a * (y + e)
    BY <2>1, <2>5, <2>6, <2>7
  <2> QED
    BY <2>2, <2>8 DEF l
<1> QED
  BY <1>1, <1>3, <1>4, <1>9, <1>11, AllocIsLeast

\* Without blocking every task needs a processor.
LEMMA InitialPositive ==
  ASSUME NEW set \in TaskSets, NEW t \in Tasks
  PROVE  AllocProc(set[t], 0, 0) \in Nat \ {0}
<1> DEFINE task == set[t]
<1>1. /\ task.period \in Nat /\ task.span \in Nat /\ task.wcet \in Nat
      /\ task.span < task.wcet /\ task.span < task.period
  BY TaskIsNat
<1>2. task.period < LongMod
  BY GeneratedTaskSets, Zenon
<1>3. task.wcet < LongMod
  <2>1. task.wcet + SumFunction([r \in Resources |-> WorkLimit(set, t, r)]) < LongMod
    BY GeneratedTaskSets, Zenon
  <2> DEFINE B == [r \in Resources |-> WorkLimit(set, t, r)]
  <2>2. B \in [Resources -> Nat]
    BY WorkLimitNat
  <2>3. IsFiniteSet(Resources) /\ LongMod \in Nat
    BY BoundsConstants
  <2> HIDE DEF B
  <2>4. SumFunction(B) \in Nat
    BY <2>2, <2>3, FunSumNat
  <2>5. task.wcet + SumFunction(B) < LongMod
    BY <2>1 DEF B
  <2> QED
    BY <1>1, <2>3, <2>4, <2>5
<1>4. AllocProc(task, 0, 0) \in Nat
  BY <1>1, AllocNat
<1>5. ~ (AllocProc(task, 0, 0) <= 0)
  <2> HIDE DEF task
  <2>1. task.wcet + 0 < LongMod /\ task.span + 0 < task.period /\ task.span + 0 <= task.wcet + 0
    BY <1>1, <1>3
  <2>2. (AllocProc(task, 0, 0) <= 0) <=>
          (task.wcet + 0 - (task.span + 0) <= 0 * (task.period - (task.span + 0)))
    BY <1>1, <1>2, <2>1, AllocIsLeast
  <2> QED
    BY <1>1, <2>2
<1> QED
  BY <1>4, <1>5

-------------------------------------------------------------------------------
(* Feasible allocations. *)

FeasibleFor(set, lock, f) ==
  {a \in [Tasks -> 1 .. M] :
     /\ SumFunction(a) <= M
     /\ \A t \in Tasks : /\ a[t] >= AllocProc(set[t], 0, 0)
                         /\ set[t].period > set[t].span + CriticalPathBlocking(set, lock, f, a, t)
                         /\ ~ Hopeless(set, lock, f, a, t)
                         /\ ~ (Need(set, lock, f, a, t) > a[t])}

\* A feasible allocation is one of at most M processors.
LEMMA FeasibleIsAllocation ==
  ASSUME NEW set \in TaskSets, NEW lock, NEW f, NEW a \in FeasibleFor(set, lock, f)
  PROVE  a \in Allocations /\ Within(a) /\ SumFunction(a) <= M
<1>1. a \in [Tasks -> 1 .. M] /\ M \in Nat
  BY SystemSize DEF FeasibleFor
<1> QED
  BY <1>1 DEF Allocations, Within, FeasibleFor

\* Below a feasible allocation no task is without hope, and none needs more than
\* it has there.
LEMMA BelowIsFine ==
  ASSUME NEW set \in TaskSets, NEW lock \in {"fifo", "prio"}, NEW f \in Priorities,
         NEW a \in FeasibleFor(set, lock, f), NEW p \in Allocations, AtMost(p, a), NEW t \in Tasks
  PROVE  ~ Hopeless(set, lock, f, p, t) /\ Need(set, lock, f, p, t) <= a[t]
<1>1. a \in Allocations /\ Within(a)
  BY FeasibleIsAllocation
<1>2. /\ set[t].period > set[t].span + CriticalPathBlocking(set, lock, f, a, t)
      /\ ~ Hopeless(set, lock, f, a, t) /\ ~ (Need(set, lock, f, a, t) > a[t])
  BY DEF FeasibleFor
<1>3. Usable(set, lock, f, a, t)
  BY <1>2 DEF Hopeless, Usable
<1>4. Usable(set, lock, f, p, t)
  BY <1>1, <1>3, BoundedMonotone DEF Usable
<1>5. /\ CriticalPathBlocking(set, lock, f, p, t) \in Nat
      /\ CriticalPathBlocking(set, lock, f, p, t) <= CriticalPathBlocking(set, lock, f, a, t)
  BY <1>1, <1>3, BlockingMonotone
<1>6. CriticalPathBlocking(set, lock, f, a, t) \in Nat /\ Need(set, lock, f, a, t) \in Nat
  BY <1>1, <1>3, BlockingNat
<1>7. set[t].period \in Nat /\ set[t].span \in Nat /\ a[t] \in Nat
  BY <1>1, TaskIsNat DEF Allocations
<1>8. ~ (set[t].period < set[t].span + CriticalPathBlocking(set, lock, f, p, t))
  BY <1>2, <1>5, <1>6, <1>7
<1>9. ~ Hopeless(set, lock, f, p, t)
  BY <1>4, <1>8 DEF Hopeless, Usable
<1>10. Need(set, lock, f, a, t) <= a[t]
  BY <1>2, <1>6, <1>7
<1>11. set[t].span + CriticalPathBlocking(set, lock, f, a, t) < set[t].period
  BY <1>2, <1>6, <1>7
<1>12. Need(set, lock, f, p, t) <= a[t]
  BY <1>1, <1>3, <1>4, <1>10, <1>11, NeedIsLeast
<1> QED
  BY <1>9, <1>12

\* There are two kinds of locks.
LEMMA LockKinds == Lock \in {"fifo", "prio"} /\ (Lock = "fifo" <=> mode = "fifo")
  BY DEF Lock

TypeInv ==
  /\ TypeOK
  /\ old.prio \in [Tasks -> 0 .. Cardinality(Tasks)]
  /\ pc # "start" => proc \in Allocations /\ newProc \in Allocations

\* The task ids are natural numbers from 1 on.
LEMMA TaskNumbers == Tasks \subseteq Nat /\ \A t \in Tasks : 1 \in Tasks
<1> DEFINE n == Cardinality(Tasks)
<1>1. Tasks = 1 .. n /\ n \in Nat
  BY BoundsConstants, FS_CardinalityType
<1> HIDE DEF n
<1> QED
  BY <1>1

\* The ids themselves are priorities.
LEMMA IdentityIsAssignment == [t \in Tasks |-> t] \in Assignments
<1> DEFINE id == [t \in Tasks |-> t]
<1>1. id \in [Tasks -> Tasks] /\ \A t \in Tasks : id[t] = t
  OBVIOUS
<1> HIDE DEF id
<1>2. id \in Injection(Tasks, Tasks) /\ id \in Surjection(Tasks, Tasks)
  BY <1>1 DEF Injection, Surjection, IsInjective
<1> QED
  BY <1>2 DEF Assignments, Bijection, id

\* Priorities are numbers of at most the number of tasks.
LEMMA AssignmentsAreRanks ==
  Assignments \subseteq [Tasks -> 0 .. Cardinality(Tasks)]
<1>1. Assignments \subseteq [Tasks -> Tasks]
  BY DEF Assignments, Bijection, Injection, Surjection
<1>2. Tasks \subseteq 0 .. Cardinality(Tasks)
  <2>1. Tasks = 1 .. Cardinality(Tasks) /\ Cardinality(Tasks) \in Nat
    BY BoundsConstants, FS_CardinalityType
  <2> DEFINE n == Cardinality(Tasks)
  <2>2. Tasks = 1 .. n /\ n \in Nat
    BY <2>1
  <2> HIDE DEF n
  <2>3. Tasks \subseteq 0 .. n
    BY <2>2
  <2> QED
    BY <2>3 DEF n
<1> QED
  BY <1>1, <1>2

\* Such numbers will do for the bounds.
LEMMA RanksArePriorities ==
  ASSUME NEW f \in [Tasks -> 0 .. Cardinality(Tasks)]
  PROVE  f \in Priorities
<1>1. 0 .. Cardinality(Tasks) \subseteq Int
  OBVIOUS
<1> QED
  BY <1>1 DEF Priorities

\* The state of the tasks before a first round.
LEMMA FreshTyped ==
  ASSUME ts \in TaskSets, FreshTasks
  PROVE  /\ proc' \in Allocations /\ newProc' = proc' /\ proc' = InitialProc
         /\ converged' \in [Tasks -> BOOLEAN]
         /\ single' \in [Tasks -> Nat] /\ whole' \in [Tasks -> Nat]
<1>1. InitialProc \in Allocations
  BY InitialPositive DEF InitialProc, Allocations
<1> QED
  BY <1>1 DEF FreshTasks

\* The state of the tasks after a round, all of which are usable.
LEMMA EvaluateTyped ==
  ASSUME TypeInv, pc # "start", NEW S \in SUBSET Tasks, Evaluate(S),
         \A t \in S : ~ Hopeless(ts, Lock, prio, Copied, t)
  PROVE  /\ Copied \in Allocations
         /\ proc' \in Allocations /\ newProc' \in Allocations
         /\ converged' \in [Tasks -> BOOLEAN]
         /\ single' \in [Tasks -> Nat] /\ whole' \in [Tasks -> Nat]
<1>1. Copied \in Allocations
  BY DEF TypeInv, Copied, Allocations
<1>2. ts \in TaskSets /\ newProc \in Allocations /\ single \in [Tasks -> Nat] /\ whole \in [Tasks -> Nat]
  BY DEF TypeInv, TypeOK
<1>3. \A t \in S : /\ CriticalPathBlocking(ts, Lock, prio, Copied, t) \in Nat
                   /\ WorkBlocking(ts, Lock, prio, Copied, t) \in Nat
                   /\ Need(ts, Lock, prio, Copied, t) \in Nat
  <2> TAKE t \in S
  <2>1. Usable(ts, Lock, prio, Copied, t)
    BY LockKinds DEF Hopeless, Usable
  <2> QED
    BY <1>1, <1>2, <2>1, BlockingNat
<1>4. proc' \in Allocations
  BY <1>1 DEF Evaluate
<1> DEFINE needs == [t \in S |-> Need(ts, Lock, prio, Copied, t)]
           grows == {t \in S : needs[t] > Copied[t]}
<1>5. newProc' = [t \in Tasks |-> IF t \in grows THEN needs[t] ELSE newProc[t]]
  BY DEF Evaluate
<1>6. \A t \in grows : needs[t] \in Nat \ {0}
  <2> TAKE t \in grows
  <2>1. needs[t] \in Nat /\ Copied[t] \in Nat /\ needs[t] > Copied[t]
    BY <1>1, <1>3 DEF Allocations
  <2> HIDE DEF needs
  <2> QED
    BY <2>1
<1>7. newProc' \in Allocations
  <2> HIDE DEF needs, grows
  <2> QED
    BY <1>2, <1>5, <1>6 DEF Allocations
<1>8. converged' \in [Tasks -> BOOLEAN]
  <2>1. converged' = [t \in Tasks |-> IF t \in S THEN t \notin grows ELSE converged[t]]
    BY DEF Evaluate
  <2>2. converged \in [Tasks -> BOOLEAN]
    BY DEF TypeInv, TypeOK
  <2> HIDE DEF needs, grows
  <2> QED
    BY <2>1, <2>2
<1>9. single' \in [Tasks -> Nat] /\ whole' \in [Tasks -> Nat]
  <2>1. single' = [t \in Tasks |-> IF t \in S
                    THEN CriticalPathBlocking(ts, Lock, prio, Copied, t) ELSE single[t]]
    BY DEF Evaluate
  <2>2. whole' = [t \in Tasks |-> IF t \in S
                    THEN WorkBlocking(ts, Lock, prio, Copied, t) ELSE whole[t]]
    BY DEF Evaluate
  <2> QED
    BY <1>2, <1>3, <2>1, <2>2
<1> QED
  BY <1>1, <1>4, <1>7, <1>8, <1>9

\* The total of an allocation is a natural number.
LEMMA TotalNat ==
  ASSUME NEW p \in Allocations
  PROVE  Total(p) \in Nat
<1>1. p \in [Tasks -> Nat] /\ IsFiniteSet(Tasks)
  BY BoundsConstants DEF Allocations
<1> QED
  BY <1>1, FunSumNat DEF Total

\* What a rejection sets has its type.
LEMMA RejectTyped ==
  ASSUME TypeInv, Reject
  PROVE  /\ status' \in 0 .. 2 /\ cost' \in Nat
         /\ pc' \in {"permute", "judge", "done"}
  BY SystemSize DEF TypeInv, TypeOK, Reject

\* The test starts with values of the right types ...
LEMMA InitTyped == Init => TypeInv
<1> SUFFICES ASSUME Init PROVE TypeInv
  OBVIOUS
<1>1. Cardinality(Tasks) \in Nat
  BY BoundsConstants, FS_CardinalityType
<1>2. prio \in [Tasks -> 0 .. Cardinality(Tasks)]
  <2> DEFINE n == Cardinality(Tasks)
  <2>1. 0 \in 0 .. n
    BY <1>1
  <2> HIDE DEF n
  <2>2. prio \in [Tasks -> 0 .. n]
    BY <2>1 DEF Init
  <2> QED
    BY <2>2 DEF n
<1>3. old.prio = prio
  BY DEF Init
<1> QED
  BY <1>2, <1>3, SystemSize DEF Init, TypeInv, TypeOK

\* ... and every step keeps them.
LEMMA StepTyped == TypeInv /\ [Next]_vars => TypeInv'
<1> SUFFICES ASSUME TypeInv, [Next]_vars PROVE TypeInv'
  OBVIOUS
<1>0. tick \in {0, 1} => 1 - tick \in {0, 1}
  OBVIOUS
<1> DEFINE Ranks == [Tasks -> 0 .. Cardinality(Tasks)]
<1> HIDE DEF Ranks
<1>R. prio \in Ranks /\ old.prio \in Ranks
  BY DEF TypeInv, TypeOK, Ranks
<1>U. Assignments \subseteq Ranks /\ DeadlineMonotonic \subseteq Ranks
  BY AssignmentsAreRanks DEF DeadlineMonotonic, Ranks
<1> SUFFICES ASSUME TRUE
             PROVE /\ ts' \in TaskSets /\ mode' \in {"fifo", "dm", "opt", "sim"}
                   /\ prio' \in Ranks /\ old'.prio \in Ranks
                   /\ proc' \in [Tasks -> Nat] /\ newProc' \in [Tasks -> Nat]
                   /\ converged' \in [Tasks -> BOOLEAN]
                   /\ single' \in [Tasks -> Nat] /\ whole' \in [Tasks -> Nat]
                   /\ status' \in 0 .. 2
                   /\ pc' \in {"start", "round", "permute", "judge", "anneal", "done"}
                   /\ cost' \in Nat /\ tries' \in 0 .. MaxTries /\ tick' \in {0, 1}
                   /\ pc' # "start" => proc' \in Allocations /\ newProc' \in Allocations
  BY DEF TypeInv, TypeOK, Ranks
<1>A. Allocations \subseteq [Tasks -> Nat]
  BY DEF Allocations
<1>1. CASE Start /\ tick' = 1 - tick
  <2>1. prio' \in Ranks
    BY <1>1, <1>U, IdentityIsAssignment DEF Start
  <2>2. ts \in TaskSets
    BY DEF TypeInv, TypeOK
  <2>3. /\ proc' \in Allocations /\ newProc' = proc'
        /\ converged' \in [Tasks -> BOOLEAN]
        /\ single' \in [Tasks -> Nat] /\ whole' \in [Tasks -> Nat]
    BY <1>1, <2>2, FreshTyped DEF Start
  <2>4. UNCHANGED <<tvars, svars>> /\ pc' \in {"done", "round"} /\ status' \in {2, status}
    BY <1>1 DEF Start
  <2> QED
    BY <1>0, <1>1, <1>R, <1>A, <2>1, <2>3, <2>4 DEF TypeInv, TypeOK, tvars, svars
<1>2. CASE GiveUp /\ tick' = 1 - tick
  <2> DEFINE S == {t \in Tasks : \A x \in HopelessTasks : t < x}
  <2>1. \A t \in S : ~ Hopeless(ts, Lock, prio, Copied, t)
    <3>1. \A t \in Tasks : ~ (t < t)
      BY TaskNumbers
    <3> QED
      BY <3>1 DEF HopelessTasks
  <2>2. Evaluate(S) /\ Reject /\ UNCHANGED <<tvars, prio, old, tries>> /\ pc = "round"
    BY <1>2 DEF GiveUp
  <2> HIDE DEF S
  <2>3. S \in SUBSET Tasks
    BY DEF S
  <2>4. /\ proc' \in Allocations /\ newProc' \in Allocations
        /\ converged' \in [Tasks -> BOOLEAN]
        /\ single' \in [Tasks -> Nat] /\ whole' \in [Tasks -> Nat]
    BY <2>1, <2>2, <2>3, EvaluateTyped
  <2>5. status' \in 0 .. 2 /\ cost' \in Nat /\ pc' \in {"permute", "judge", "done"}
    BY <2>2, RejectTyped
  <2> QED
    BY <1>0, <1>2, <1>R, <1>A, <2>2, <2>4, <2>5 DEF TypeInv, TypeOK, tvars
<1>3. CASE Round /\ tick' = 1 - tick
  <2>1. \A t \in Tasks : ~ Hopeless(ts, Lock, prio, Copied, t)
    BY <1>3 DEF Round, HopelessTasks
  <2>2. Evaluate(Tasks) /\ UNCHANGED <<tvars, prio, old, tries>> /\ pc = "round"
    BY <1>3 DEF Round
  <2>4. /\ proc' \in Allocations /\ newProc' \in Allocations
        /\ converged' \in [Tasks -> BOOLEAN]
        /\ single' \in [Tasks -> Nat] /\ whole' \in [Tasks -> Nat]
    BY <2>1, <2>2, EvaluateTyped
  <2>5. status' \in 0 .. 2 /\ cost' \in Nat /\ pc' \in {"round", "permute", "judge", "done"}
    <3>1. CASE Reject
      BY <3>1, RejectTyped
    <3>2. CASE ~ Reject
      <4>1. Total(newProc') \in Nat
        BY <2>4, TotalNat
      <4> QED
        BY <1>3, <3>2, <4>1 DEF Round, TypeInv, TypeOK
    <3> QED
      BY <3>1, <3>2
  <2> QED
    BY <1>0, <1>3, <1>R, <1>A, <2>2, <2>4, <2>5 DEF TypeInv, TypeOK, tvars
<1>4. CASE NextPermutation /\ tick' = 1 - tick
  <2>1. prio' \in Ranks
    BY <1>4, <1>U DEF NextPermutation, Later
  <2>2. /\ proc' \in Allocations /\ newProc' = proc'
        /\ converged' \in [Tasks -> BOOLEAN]
        /\ single' \in [Tasks -> Nat] /\ whole' \in [Tasks -> Nat]
    BY <1>4, FreshTyped DEF NextPermutation, TypeInv, TypeOK
  <2>3. UNCHANGED <<tvars, status, svars>> /\ pc' = "round"
    BY <1>4 DEF NextPermutation
  <2> QED
    BY <1>0, <1>4, <1>R, <1>A, <2>1, <2>2, <2>3 DEF TypeInv, TypeOK, tvars, svars
<1>5. CASE TryNeighbor /\ tick' = 1 - tick
  <2>1. PICK t \in Tasks : prio' = Neighbor(old.prio, t)
    BY <1>5 DEF TryNeighbor
  <2>2. prio' \in Ranks
    <3> DEFINE u == IF t + 1 \in Tasks THEN t + 1 ELSE 1
    <3>1. u \in Tasks
      BY TaskNumbers
    <3>2. prio' = [old.prio EXCEPT ![t] = old.prio[u], ![u] = old.prio[t]]
      BY <2>1 DEF Neighbor
    <3> HIDE DEF u
    <3> QED
      BY <1>R, <3>1, <3>2 DEF Ranks
  <2>3. /\ proc' \in Allocations /\ newProc' = proc'
        /\ converged' \in [Tasks -> BOOLEAN]
        /\ single' \in [Tasks -> Nat] /\ whole' \in [Tasks -> Nat]
    BY <1>5, FreshTyped DEF TryNeighbor, TypeInv, TypeOK
  <2>4. /\ UNCHANGED <<tvars, status, cost, old>> /\ pc' = "round"
        /\ tries' = tries + 1 /\ tries < MaxTries
    BY <1>5 DEF TryNeighbor
  <2>5. tries' \in 0 .. MaxTries
    BY <2>4, SystemSize DEF TypeInv, TypeOK
  <2> QED
    BY <1>0, <1>5, <1>R, <1>A, <2>2, <2>3, <2>4, <2>5 DEF TypeInv, TypeOK, tvars
<1>6. CASE (FirstCost \/ Judge) /\ tick' = 1 - tick
  <2>1. old'.prio \in Ranks
    <3>1. old' = [prio |-> prio, cost |-> cost] \/ old' = old
      BY <1>6 DEF FirstCost, Judge
    <3> QED
      BY <1>R, <3>1
  <2> QED
    BY <1>0, <1>6, <1>R, <1>A, <2>1 DEF FirstCost, Judge, TypeInv, TypeOK, tvars, pvars
<1>7. CASE (LastPermutation \/ Satisfied \/ Cooled) /\ tick' = 1 - tick
  BY <1>0, <1>7, <1>R, <1>A
  DEF LastPermutation, Satisfied, Cooled, TypeInv, TypeOK, tvars, pvars, svars
<1>8. CASE UNCHANGED vars
  BY <1>8, <1>R DEF vars, TypeInv, TypeOK, tvars, pvars, svars
<1> QED
  BY <1>1, <1>2, <1>3, <1>4, <1>5, <1>6, <1>7, <1>8 DEF Next, Step, Finished

\* The processors, the priorities and the verdict keep their types through all
\* rounds and searches of the test.
THEOREM TypeCorrect == Spec => []TypeOK
<1>1. TypeInv => TypeOK
  BY DEF TypeInv
<1> QED
  BY <1>1, InitTyped, StepTyped, PTL DEF Spec

-------------------------------------------------------------------------------
(* The unsigned difference never wraps. *)

\* A first round starts without blocking.
LEMMA FreshDemand ==
  ASSUME TypeInv, FreshTasks, UNCHANGED tvars
  PROVE  DemandNeverWraps'
<1>1. ts' = ts /\ ts \in TaskSets
  BY DEF tvars, TypeInv, TypeOK
<1>2. \A t \in Tasks : single'[t] = 0 /\ whole'[t] = 0
  BY DEF FreshTasks
<1>3. \A t \in Tasks : ts[t].span + single'[t] <= ts[t].wcet + whole'[t]
  <2> TAKE t \in Tasks
  <2>1. ts[t].span \in Nat /\ ts[t].wcet \in Nat /\ ts[t].span < ts[t].wcet
    BY <1>1, TaskIsNat
  <2>2. ts[t].span + 0 <= ts[t].wcet + 0
    BY <2>1
  <2> QED
    BY <1>2, <2>2
<1> QED
  BY <1>1, <1>3 DEF DemandNeverWraps

\* The bound on all processors covers that on a single one.
LEMMA EvaluateDemand ==
  ASSUME TypeInv, pc # "start", DemandNeverWraps, NEW S \in SUBSET Tasks, Evaluate(S), UNCHANGED tvars,
         \A t \in S : ~ Hopeless(ts, Lock, prio, Copied, t)
  PROVE  DemandNeverWraps'
<1>1. ts' = ts /\ ts \in TaskSets
  BY DEF tvars, TypeInv, TypeOK
<1>2. Copied \in Allocations
  BY EvaluateTyped
<1>3. \A t \in Tasks : ts[t].span + single'[t] <= ts[t].wcet + whole'[t]
  <2> TAKE t \in Tasks
  <2>1. CASE t \notin S
    <3>1. single'[t] = single[t] /\ whole'[t] = whole[t]
      BY <2>1 DEF Evaluate
    <3> QED
      BY <3>1 DEF DemandNeverWraps
  <2>2. CASE t \in S
    <3> DEFINE x == CriticalPathBlocking(ts, Lock, prio, Copied, t)
               y == WorkBlocking(ts, Lock, prio, Copied, t)
    <3>1. single'[t] = x /\ whole'[t] = y
      BY <2>2 DEF Evaluate
    <3>2. Usable(ts, Lock, prio, Copied, t)
      BY <2>2, LockKinds DEF Hopeless, Usable
    <3>3. x \in Nat /\ y \in Nat /\ x <= y
      BY <1>1, <1>2, <3>2, BlockingNat
    <3>4. ts[t].span \in Nat /\ ts[t].wcet \in Nat /\ ts[t].span < ts[t].wcet
      BY <1>1, TaskIsNat
    <3> HIDE DEF x, y
    <3>5. ts[t].span + x <= ts[t].wcet + y
      BY <3>3, <3>4
    <3> QED
      BY <3>1, <3>5
  <2> QED
    BY <2>1, <2>2
<1> QED
  BY <1>1, <1>3 DEF DemandNeverWraps

\* The tasks before the first one without hope have hope.
LEMMA GiveUpTasks ==
  ASSUME NEW S, S = {t \in Tasks : \A x \in HopelessTasks : t < x}
  PROVE  S \in SUBSET Tasks /\ \A t \in S : ~ Hopeless(ts, Lock, prio, Copied, t)
<1>1. \A t \in Tasks : ~ (t < t)
  BY TaskNumbers
<1> QED
  BY <1>1 DEF HopelessTasks

\* The demand is exact at the start ...
LEMMA InitDemand == Init => DemandNeverWraps
<1> SUFFICES ASSUME Init, NEW t \in Tasks PROVE ts[t].span + single[t] <= ts[t].wcet + whole[t]
  BY DEF DemandNeverWraps
<1>1. ts \in TaskSets /\ single[t] = 0 /\ whole[t] = 0
  BY DEF Init
<1>2. ts[t].span \in Nat /\ ts[t].wcet \in Nat /\ ts[t].span < ts[t].wcet
  BY <1>1, TaskIsNat
<1>3. ts[t].span + 0 <= ts[t].wcet + 0
  BY <1>2
<1> QED
  BY <1>1, <1>3

\* ... and after every step.
LEMMA StepDemand == TypeInv /\ DemandNeverWraps /\ [Next]_vars => DemandNeverWraps'
<1> SUFFICES ASSUME TypeInv, DemandNeverWraps, [Next]_vars PROVE DemandNeverWraps'
  OBVIOUS
<1>1. CASE Start \/ NextPermutation \/ TryNeighbor
  BY <1>1, FreshDemand DEF Start, NextPermutation, TryNeighbor, tvars
<1>2. CASE GiveUp
  <2> DEFINE S == {t \in Tasks : \A x \in HopelessTasks : t < x}
  <2>1. Evaluate(S) /\ UNCHANGED tvars /\ pc # "start"
    BY <1>2 DEF GiveUp
  <2>2. S \in SUBSET Tasks /\ \A t \in S : ~ Hopeless(ts, Lock, prio, Copied, t)
    BY GiveUpTasks
  <2> HIDE DEF S
  <2> QED
    BY <2>1, <2>2, EvaluateDemand
<1>3. CASE Round
  <2>1. Evaluate(Tasks) /\ UNCHANGED tvars /\ pc # "start"
    BY <1>3 DEF Round
  <2>2. \A t \in Tasks : ~ Hopeless(ts, Lock, prio, Copied, t)
    BY <1>3 DEF Round, HopelessTasks
  <2> QED
    BY <2>1, <2>2, EvaluateDemand
<1>4. CASE FirstCost \/ Judge \/ LastPermutation \/ Satisfied \/ Cooled
  BY <1>4 DEF FirstCost, Judge, LastPermutation, Satisfied, Cooled, DemandNeverWraps, tvars, pvars
<1>5. CASE UNCHANGED vars
  BY <1>5 DEF vars, tvars, pvars, DemandNeverWraps
<1> QED
  BY <1>1, <1>2, <1>3, <1>4, <1>5 DEF Next, Step, Finished

\* The unsigned difference in alloc_proc never wraps: in every state of the test
\* the bound on the work covers the bound on the critical path.
THEOREM DemandIsExact == Spec => []DemandNeverWraps
  BY InitTyped, StepTyped, InitDemand, StepDemand, PTL DEF Spec

-------------------------------------------------------------------------------
(* The verdict. *)

\* The allocation at hand supports itself and has the bounds that go with it.
Supported ==
  /\ SelfSupporting(prio, proc)
  /\ \A t \in Tasks : /\ single[t] = CriticalPathBlocking(ts, Lock, prio, proc, t)
                      /\ whole[t] = WorkBlocking(ts, Lock, prio, proc, t)

\* The state of the tasks is given by its values.
Shape ==
  /\ proc = [t \in Tasks |-> proc[t]]
  /\ newProc = [t \in Tasks |-> newProc[t]]

\* A task that has converged has nothing to copy in the next round.
NothingLeftToCopy ==
  pc = "round" => \A t \in Tasks : converged[t] => newProc[t] = proc[t]

\* A cost that satisfies the annealing is that of a supported allocation.
CostIsSupported ==
  pc = "judge" /\ ~ (cost > M) => cost = Total(proc) /\ Supported

\* Priorities that are given up leave a status that is not 0.
GivenUp == pc = "permute" => status # 0

Inv ==
  /\ Shape
  /\ NothingLeftToCopy
  /\ CostIsSupported
  /\ GivenUp
  /\ VerdictSupported

LEMMA InitInv == Init => Inv
  BY DEF Init, Inv, Shape, NothingLeftToCopy, CostIsSupported, GivenUp, VerdictSupported

\* The state of the tasks before a first round.
LEMMA FreshShape ==
  ASSUME FreshTasks
  PROVE  Shape' /\ \A t \in Tasks : newProc'[t] = proc'[t]
  BY DEF FreshTasks, Shape, InitialProc

\* The state of the tasks after the evaluation of some of them.
LEMMA EvaluateShape ==
  ASSUME NEW S \in SUBSET Tasks, Evaluate(S)
  PROVE  Shape'
  BY DEF Evaluate, Shape, Copied

\* What a rejection sets, in each of the three ways it is dealt with.
LEMMA RejectState ==
  ASSUME Reject
  PROVE  \/ pc' = "permute" /\ status' = 1
         \/ pc' = "judge" /\ cost' = CostMax
         \/ pc' = "done" /\ status' = 1
  BY DEF Reject

\* What a full round leaves: a task that has converged keeps what it has and
\* needs no more, and the bounds are those of the allocation of the round.
LEMMA EvaluateAll ==
  ASSUME Inv, pc = "round", Evaluate(Tasks), UNCHANGED <<tvars, prio>>
  PROVE  /\ \A t \in Tasks : converged'[t] => /\ newProc'[t] = proc'[t]
                                            /\ ~ (Need(ts, Lock, prio, proc', t) > proc'[t])
         /\ proc' = Copied
         /\ \A t \in Tasks :
              /\ single'[t] = CriticalPathBlocking(ts, Lock, prio, proc', t)
              /\ whole'[t] = WorkBlocking(ts, Lock, prio, proc', t)
<1>1. proc' = Copied
  BY DEF Evaluate
<1>2. ASSUME NEW t \in Tasks, converged'[t]
      PROVE  newProc'[t] = proc'[t] /\ ~ (Need(ts, Lock, prio, proc', t) > proc'[t])
  <2>1. ~ (Need(ts, Lock, prio, Copied, t) > Copied[t])
    BY <1>2 DEF Evaluate
  <2>2. newProc'[t] = newProc[t]
    BY <1>2, <2>1 DEF Evaluate
  <2>3. Copied[t] = newProc[t]
    BY DEF Inv, NothingLeftToCopy, Copied
  <2> QED
    BY <1>1, <2>1, <2>2, <2>3
<1>3. \A t \in Tasks : /\ single'[t] = CriticalPathBlocking(ts, Lock, prio, proc', t)
                      /\ whole'[t] = WorkBlocking(ts, Lock, prio, proc', t)
  BY <1>1 DEF Evaluate
<1> QED
  BY <1>1, <1>2, <1>3

\* A full round in which all have converged ends in a supported allocation.
LEMMA ConvergedIsSupported ==
  ASSUME Inv, pc = "round", HopelessTasks = {}, Evaluate(Tasks),
         UNCHANGED <<tvars, prio>>, \A t \in Tasks : converged'[t]
  PROVE  Supported' /\ newProc' = proc'
<1>1. Lock' = Lock /\ ts' = ts /\ prio' = prio
  BY DEF Lock, tvars
<1>2. \A t \in Tasks : ~ Hopeless(ts, Lock, prio, proc', t)
  BY EvaluateAll DEF HopelessTasks
<1>3. SelfSupporting(prio, proc)'
  BY <1>1, <1>2, EvaluateAll DEF SelfSupporting
<1>4. newProc' = proc'
  <2>1. Shape'
    BY EvaluateShape
  <2>2. \A t \in Tasks : newProc'[t] = proc'[t]
    BY EvaluateAll
  <2> QED
    BY <2>1, <2>2 DEF Shape
<1> QED
  BY <1>1, <1>3, <1>4, EvaluateAll DEF Supported

\* Every step keeps the invariant: one case per action, those that disturb the
\* same parts together.
LEMMA StepInv == Inv /\ [Next]_vars => Inv'
<1> SUFFICES ASSUME Inv, [Next]_vars PROVE Inv'
  OBVIOUS
<1> USE DEF Inv
<1>1. CASE Start
  <2>1. Shape' /\ NothingLeftToCopy'
    BY <1>1, FreshShape DEF Start, NothingLeftToCopy
  <2>2. pc' = "round" \/ (pc' = "done" /\ status' = 2)
    BY <1>1 DEF Start
  <2> QED
    BY <2>1, <2>2 DEF CostIsSupported, GivenUp, VerdictSupported
<1>2. CASE GiveUp
  <2>1. Shape'
    BY <1>2, EvaluateShape DEF GiveUp
  <2>2. Reject
    BY <1>2 DEF GiveUp
  <2> QED
    BY <2>1, <2>2, RejectState, SystemSize
    DEF NothingLeftToCopy, CostIsSupported, GivenUp, VerdictSupported
<1>3. CASE Round
  <2>1. Shape'
    BY <1>3, EvaluateShape DEF Round
  <2>2. CASE Reject
    BY <2>1, <2>2, RejectState, SystemSize
    DEF NothingLeftToCopy, CostIsSupported, GivenUp, VerdictSupported
  <2>3. CASE pc' = "round"
    BY <1>3, <2>1, <2>3, EvaluateAll
    DEF Round, NothingLeftToCopy, CostIsSupported, GivenUp, VerdictSupported
  <2>4. CASE /\ \A t \in Tasks : converged'[t]
             /\ mode = "sim" /\ cost' = Total(newProc') /\ pc' = "judge"
    <3>1. Supported' /\ newProc' = proc'
      BY <1>3, <2>4, ConvergedIsSupported DEF Round
    <3> QED
      BY <2>1, <2>4, <3>1 DEF NothingLeftToCopy, CostIsSupported, GivenUp, VerdictSupported, Total
  <2>5. CASE /\ \A t \in Tasks : converged'[t]
             /\ ~ (Total(newProc') > M) /\ status' = 0 /\ pc' = "done"
    <3>1. Supported' /\ newProc' = proc'
      BY <1>3, <2>5, ConvergedIsSupported DEF Round
    <3> QED
      BY <2>1, <2>5, <3>1
      DEF NothingLeftToCopy, CostIsSupported, GivenUp, VerdictSupported, Supported, Total
  <2> QED
    BY <1>3, <2>2, <2>3, <2>4, <2>5 DEF Round
<1>4. CASE NextPermutation \/ TryNeighbor
  BY <1>4, FreshShape
  DEF NextPermutation, TryNeighbor, NothingLeftToCopy, CostIsSupported, GivenUp, VerdictSupported
<1>5. CASE Satisfied
  <2>1. cost = Total(proc) /\ Supported /\ ~ (cost > M)
    BY <1>5 DEF Satisfied, CostIsSupported
  <2>2. UNCHANGED <<tvars, prio, pvars>> /\ pc' = "done"
    BY <1>5 DEF Satisfied
  <2> QED
    BY <2>1, <2>2
    DEF Shape, NothingLeftToCopy, CostIsSupported, GivenUp, VerdictSupported, Supported,
        SelfSupporting, Lock, Total, tvars, pvars
<1>6. CASE FirstCost \/ Judge \/ LastPermutation \/ Cooled
  BY <1>6
  DEF FirstCost, Judge, LastPermutation, Cooled, Shape, NothingLeftToCopy, CostIsSupported,
      GivenUp, VerdictSupported, pvars
<1>7. CASE UNCHANGED vars
  BY <1>7
  DEF vars, tvars, pvars, svars, Shape, NothingLeftToCopy, CostIsSupported, GivenUp,
      VerdictSupported, Supported, SelfSupporting, Lock, Total
<1> QED
  BY <1>1, <1>2, <1>3, <1>4, <1>5, <1>6, <1>7 DEF Next, Step, Finished

\* The bookkeeping of the rounds holds at all times.
THEOREM Bookkeeping == Spec => []Inv
<1> QED
  BY InitInv, StepInv, PTL DEF Spec

\* A task set that is called schedulable has an allocation on no more than M
\* processors that supports itself, and the bounds written out are its own.
THEOREM VerdictIsSupported == Spec => []VerdictSupported
<1>1. Inv => VerdictSupported
  BY DEF Inv
<1> QED
  BY <1>1, Bookkeeping, PTL

-------------------------------------------------------------------------------
(* The order of the permutations. *)

\* Two permutations are equal or one precedes the other.
LEMMA PrecedesIsTotal ==
  ASSUME NEW f \in Assignments, NEW g \in Assignments
  PROVE  f = g \/ Precedes(f, g) \/ Precedes(g, f)
<1> SUFFICES ASSUME f # g PROVE Precedes(f, g) \/ Precedes(g, f)
  OBVIOUS
<1> DEFINE D == {t \in Tasks : f[t] # g[t]}
<1>1. f \in [Tasks -> Tasks] /\ g \in [Tasks -> Tasks]
  BY DEF Assignments, Bijection, Injection
<1>2. D # {} /\ D \subseteq Nat
  <2>1. \E t \in Tasks : f[t] # g[t]
    BY <1>1
  <2> QED
    BY <2>1, TaskNumbers
<1>3. PICK t \in D : \A x \in D : t <= x
  <2> HIDE DEF D
  <2> QED
    BY <1>2, NatLeast
<1>4. \A x \in Tasks : x < t => f[x] = g[x]
  <2> TAKE x \in Tasks
  <2> HAVE x < t
  <2>1. ~ (t <= x)
    BY <1>2, TaskNumbers
  <2> QED
    BY <1>3, <2>1
<1>5. f[t] < g[t] \/ g[t] < f[t]
  <2>1. f[t] \in Nat /\ g[t] \in Nat /\ f[t] # g[t]
    BY <1>1, TaskNumbers
  <2> QED
    BY <2>1
<1> QED
  BY <1>4, <1>5 DEF Precedes

\* The permutation that "opt" starts with is the first.
LEMMA IdentityIsFirst ==
  ASSUME NEW f \in Assignments
  PROVE  ~ Precedes(f, [t \in Tasks |-> t])
<1> SUFFICES ASSUME NEW t \in Tasks, f[t] < t, \A x \in Tasks : x < t => f[x] = x PROVE FALSE
  BY DEF Precedes
<1>1. f[t] \in Tasks /\ \A x, y \in Tasks : f[x] = f[y] => x = y
  BY DEF Assignments, Bijection, Injection, IsInjective
<1>2. f[f[t]] = f[t]
  BY <1>1
<1>3. f[t] = t
  BY <1>1, <1>2
<1> QED
  BY <1>3, TaskNumbers

-------------------------------------------------------------------------------
(* The rounds stay below every feasible allocation. *)

Infeasible(f) == FeasibleFor(ts, Lock, f) = {}

LeastInv ==
  /\ pc # "start" => \A a \in FeasibleFor(ts, Lock, prio) : AtMost(proc, a) /\ AtMost(newProc, a)
  /\ pc \in {"judge", "anneal"} => mode = "sim"
  /\ pc = "permute" => mode = "opt" /\ Infeasible(prio)
  /\ pc = "done" /\ status = 1 /\ mode \in {"fifo", "dm"} => Infeasible(prio)
  /\ mode = "opt" /\ pc \in {"round", "permute"} =>
       prio \in Assignments /\ \A f \in Assignments : Precedes(f, prio) => Infeasible(f)
  /\ mode = "opt" /\ pc = "done" /\ status = 1 => \A f \in Assignments : Infeasible(f)

\* The task set and the kind of locks decide what is feasible.
LEMMA SameFeasible ==
  ASSUME UNCHANGED tvars
  PROVE  ts' = ts /\ mode' = mode /\ Lock' = Lock /\ \A f : Infeasible(f)' <=> Infeasible(f)
<1>1. ts' = ts /\ mode' = mode /\ Lock' = Lock
  BY DEF tvars, Lock
<1> QED
  BY <1>1 DEF Infeasible

\* The priorities at hand will do for the bounds.
LEMMA PrioIsPriorities ==
  ASSUME TypeInv
  PROVE  prio \in Priorities /\ ts \in TaskSets
  BY RanksArePriorities DEF TypeInv, TypeOK

\* The allocation of a round stays below every feasible one, and so do the needs.
LEMMA CopiedBelow ==
  ASSUME TypeInv, LeastInv, pc # "start", NEW a \in FeasibleFor(ts, Lock, prio)
  PROVE  /\ Copied \in Allocations /\ AtMost(Copied, a)
         /\ \A t \in Tasks : /\ ~ Hopeless(ts, Lock, prio, Copied, t)
                             /\ Need(ts, Lock, prio, Copied, t) <= a[t]
<1>1. Copied \in Allocations
  BY DEF TypeInv, Copied, Allocations
<1>2. AtMost(Copied, a)
  BY DEF LeastInv, Copied, AtMost
<1> QED
  BY <1>1, <1>2, LockKinds, PrioIsPriorities, BelowIsFine

\* A round leaves the allocations below every feasible one.
LEMMA EvaluateBelow ==
  ASSUME TypeInv, LeastInv, pc # "start", NEW S \in SUBSET Tasks, Evaluate(S),
         NEW a \in FeasibleFor(ts, Lock, prio)
  PROVE  AtMost(proc', a) /\ AtMost(newProc', a)
<1>1. AtMost(proc', a)
  BY CopiedBelow DEF Evaluate
<1>2. \A t \in Tasks : newProc'[t] <= a[t]
  <2> TAKE t \in Tasks
  <2>1. newProc'[t] = newProc[t] \/ (t \in S /\ newProc'[t] = Need(ts, Lock, prio, Copied, t))
    BY DEF Evaluate
  <2>2. newProc[t] <= a[t]
    BY DEF LeastInv, AtMost
  <2> QED
    BY <2>1, <2>2, CopiedBelow
<1> QED
  BY <1>1, <1>2 DEF AtMost

\* A round that gives up does so rightly.
LEMMA HopelessIsInfeasible ==
  ASSUME TypeInv, LeastInv, pc # "start", HopelessTasks # {}
  PROVE  Infeasible(prio)
<1> SUFFICES ASSUME NEW a \in FeasibleFor(ts, Lock, prio) PROVE FALSE
  BY DEF Infeasible
<1> QED
  BY CopiedBelow DEF HopelessTasks

\* Neither is there a feasible one when the processors do not suffice.
LEMMA TooManyIsInfeasible ==
  ASSUME TypeInv, LeastInv, TypeInv', pc = "round", Evaluate(Tasks), pc' # "start",
         Total(newProc') > M
  PROVE  Infeasible(prio)
<1> SUFFICES ASSUME NEW a \in FeasibleFor(ts, Lock, prio) PROVE FALSE
  BY DEF Infeasible
<1>1. newProc' \in Allocations
  BY DEF TypeInv
<1>2. a \in Allocations /\ SumFunction(a) <= M
  BY PrioIsPriorities, FeasibleIsAllocation
<1>3. AtMost(newProc', a)
  BY EvaluateBelow
<1>4. /\ newProc' \in [Tasks -> Nat] /\ a \in [Tasks -> Nat] /\ IsFiniteSet(Tasks)
      /\ \A t \in Tasks : newProc'[t] <= a[t]
  BY <1>1, <1>2, <1>3, BoundsConstants DEF Allocations, AtMost
<1>5. SumFunction(newProc') <= SumFunction(a)
  BY <1>4, FunSumMonotone
<1>6. SumFunction(newProc') \in Nat /\ SumFunction(a) \in Nat /\ M \in Nat
  BY <1>4, FunSumNat, SystemSize
<1> QED
  BY <1>2, <1>5, <1>6 DEF Total

\* The first allocation is below every feasible one.
LEMMA FreshBelow ==
  ASSUME FreshTasks, NEW lock, NEW f, NEW a \in FeasibleFor(ts, lock, f)
  PROVE  AtMost(proc', a) /\ AtMost(newProc', a)
<1>1. \A t \in Tasks : a[t] >= AllocProc(ts[t], 0, 0) /\ a[t] \in Nat
  <2>1. a \in [Tasks -> 1 .. M] /\ M \in Nat
    BY SystemSize DEF FeasibleFor
  <2> QED
    BY <2>1 DEF FeasibleFor
<1>2. \A t \in Tasks : proc'[t] = AllocProc(ts[t], 0, 0) /\ newProc'[t] = AllocProc(ts[t], 0, 0)
  BY DEF FreshTasks, InitialProc
<1> QED
  BY <1>1, <1>2 DEF AtMost

\* What a rejection of the priorities leaves.
LEMMA RejectLeast ==
  ASSUME TypeInv, LeastInv, pc = "round", NEW S \in SUBSET Tasks, Evaluate(S), Reject,
         UNCHANGED <<tvars, prio>>, mode # "sim" => Infeasible(prio)
  PROVE  LeastInv'
<1>1. /\ ts' = ts /\ mode' = mode /\ Lock' = Lock /\ prio' = prio
      /\ \A f : Infeasible(f)' <=> Infeasible(f)
  BY SameFeasible
<1>2. \A a \in FeasibleFor(ts, Lock, prio) : AtMost(proc', a) /\ AtMost(newProc', a)
  BY EvaluateBelow
<1>3. Infeasible(prio)' <=> Infeasible(prio)
  BY <1>1 DEF Infeasible
<1>4. CASE mode = "opt"
  <2>1. pc' = "permute"
    BY <1>4 DEF Reject
  <2> QED
    BY <1>1, <1>2, <1>3, <1>4, <2>1 DEF LeastInv
<1>5. CASE mode = "sim"
  <2>1. pc' = "judge"
    BY <1>5 DEF Reject
  <2> QED
    BY <1>1, <1>2, <1>3, <1>5, <2>1 DEF LeastInv
<1>6. CASE mode \notin {"opt", "sim"}
  <2>1. pc' = "done"
    BY <1>6 DEF Reject
  <2> QED
    BY <1>1, <1>2, <1>3, <1>6, <2>1 DEF LeastInv
<1> QED
  BY <1>4, <1>5, <1>6

\* The invariant holds at the start.
LEMMA InitLeast == Init => LeastInv
  BY DEF Init, LeastInv

\* The state after new priorities have been chosen.
LEMMA FreshLeast ==
  ASSUME FreshTasks, UNCHANGED tvars
  PROVE  \A a \in FeasibleFor(ts', Lock', prio') : AtMost(proc', a) /\ AtMost(newProc', a)
  BY FreshBelow, SameFeasible

\* No permutation is skipped: what precedes the next one has been tried.
LEMMA NextPermutationLeast ==
  ASSUME LeastInv, NextPermutation
  PROVE  LeastInv'
<1>1. /\ mode' = mode /\ mode = "opt" /\ pc' = "round" /\ prio \in Assignments
      /\ Infeasible(prio)
      /\ \A f \in Assignments : Precedes(f, prio) => Infeasible(f)
  BY DEF NextPermutation, LeastInv, tvars
<1>2. prio' \in Assignments /\ \A h \in Later : ~ Precedes(h, prio')
  BY DEF NextPermutation, Later
<1>3. ASSUME NEW f \in Assignments, Precedes(f, prio')
      PROVE  Infeasible(f)
  <2>1. f \notin Later
    BY <1>2, <1>3
  <2>2. ~ Precedes(prio, f)
    BY <2>1 DEF Later
  <2>3. f = prio \/ Precedes(f, prio)
    BY <1>1, <2>2, PrecedesIsTotal
  <2> QED
    BY <1>1, <2>3
<1>4. \A f : Infeasible(f)' <=> Infeasible(f)
  BY SameFeasible DEF NextPermutation
<1>5. \A f \in Assignments : Precedes(f, prio') => Infeasible(f)'
  BY <1>3, <1>4
<1>6. \A a \in FeasibleFor(ts', Lock', prio') : AtMost(proc', a) /\ AtMost(newProc', a)
  BY FreshLeast DEF NextPermutation
<1>7. Assignments' = Assignments /\ \A f : Precedes(f, prio)' <=> Precedes(f, prio')
  BY DEF Assignments, Precedes
<1> QED
  BY <1>1, <1>2, <1>5, <1>6, <1>7 DEF LeastInv

\* When there is no next permutation all have been tried.
LEMMA LastPermutationLeast ==
  ASSUME LeastInv, LastPermutation
  PROVE  LeastInv'
<1>1. /\ mode' = mode /\ mode = "opt" /\ pc' = "done" /\ prio \in Assignments
      /\ Infeasible(prio) /\ prio' = prio /\ proc' = proc /\ newProc' = newProc
      /\ pc # "start"
      /\ \A f \in Assignments : Precedes(f, prio) => Infeasible(f)
  BY DEF LastPermutation, LeastInv, tvars, pvars
<1>2. ASSUME NEW f \in Assignments
      PROVE  Infeasible(f)
  <2>1. ~ Precedes(prio, f)
    BY DEF LastPermutation, Later
  <2>2. f = prio \/ Precedes(f, prio)
    BY <1>1, <2>1, PrecedesIsTotal
  <2> QED
    BY <1>1, <2>2
<1>3. ts' = ts /\ Lock' = Lock /\ \A f : Infeasible(f)' <=> Infeasible(f)
  BY SameFeasible DEF LastPermutation
<1> QED
  BY <1>1, <1>2, <1>3 DEF LeastInv

\* The first permutation is preceded by none.
LEMMA StartLeast ==
  ASSUME LeastInv, Start
  PROVE  LeastInv'
<1>1. FreshTasks /\ UNCHANGED tvars /\ mode' = mode
  BY DEF Start, tvars
<1>2. \A a \in FeasibleFor(ts', Lock', prio') : AtMost(proc', a) /\ AtMost(newProc', a)
  BY <1>1, FreshLeast
<1>3. CASE pc' = "done" /\ status' = 2
  BY <1>1, <1>2, <1>3 DEF LeastInv
<1>4. CASE pc' = "round" /\ (mode = "opt" => prio' = [t \in Tasks |-> t])
  <2>1. mode = "opt" => /\ prio' \in Assignments
                        /\ \A f \in Assignments : ~ Precedes(f, prio')
    BY <1>4, IdentityIsFirst, IdentityIsAssignment
  <2>2. Assignments' = Assignments /\ \A f : Precedes(f, prio)' <=> Precedes(f, prio')
    BY DEF Assignments, Precedes
  <2> QED
    BY <1>1, <1>2, <1>4, <2>1, <2>2 DEF LeastInv
<1> QED
  BY <1>3, <1>4 DEF Start

\* A full round stays below, or finds that there is nothing to be below of.
LEMMA RoundLeast ==
  ASSUME TypeInv, TypeInv', LeastInv, Round
  PROVE  LeastInv'
<1>1. /\ pc = "round" /\ Evaluate(Tasks) /\ UNCHANGED <<tvars, prio>> /\ mode' = mode /\ prio' = prio
  BY DEF Round, tvars
<1>2. CASE Reject
  <2>0. pc' # "start"
    BY <1>2, RejectTyped
  <2>1. mode # "sim" => Infeasible(prio)
    <3> HAVE mode # "sim"
    <3>1. CASE Total(newProc') > M
      BY <1>1, <2>0, <3>1, TooManyIsInfeasible
    <3>2. CASE ~ (Total(newProc') > M)
      <4>1. pc' \in {"round", "done"} /\ (pc' = "done" => status' = 0)
        BY <3>2, <1>1 DEF Round
      <4>2. FALSE
        BY <1>2, <4>1 DEF Reject
      <4> QED
        BY <4>2
    <3> QED
      BY <3>1, <3>2
  <2> QED
    BY <1>1, <1>2, <2>1, RejectLeast
<1>3. CASE ~ Reject
  <2>1. \/ pc' = "round" /\ status' = status
        \/ pc' = "judge" /\ mode = "sim"
        \/ pc' = "done" /\ status' = 0
    BY <1>1, <1>3 DEF Round
  <2>2. \A a \in FeasibleFor(ts, Lock, prio) : AtMost(proc', a) /\ AtMost(newProc', a)
    BY <1>1, EvaluateBelow
  <2>3. ts' = ts /\ Lock' = Lock /\ \A f : Infeasible(f)' <=> Infeasible(f)
    BY <1>1, SameFeasible
  <2>4. Assignments' = Assignments /\ \A f : Precedes(f, prio)' <=> Precedes(f, prio')
    BY DEF Assignments, Precedes
  <2> QED
    BY <1>1, <2>1, <2>2, <2>3, <2>4 DEF LeastInv
<1> QED
  BY <1>2, <1>3

\* Every step keeps the invariant.
LEMMA StepLeast == TypeInv /\ TypeInv' /\ LeastInv /\ [Next]_vars => LeastInv'
<1> SUFFICES ASSUME TypeInv, TypeInv', LeastInv, [Next]_vars PROVE LeastInv'
  OBVIOUS
<1>1. CASE GiveUp
  <2> DEFINE S == {t \in Tasks : \A x \in HopelessTasks : t < x}
  <2>1. /\ Evaluate(S) /\ UNCHANGED <<tvars, prio>> /\ pc = "round" /\ Reject
        /\ HopelessTasks # {}
    BY <1>1 DEF GiveUp
  <2>2. S \in SUBSET Tasks
    OBVIOUS
  <2>3. Infeasible(prio)
    BY <2>1, HopelessIsInfeasible
  <2> HIDE DEF S
  <2> QED
    BY <2>1, <2>2, <2>3, RejectLeast
<1>2. CASE TryNeighbor
  <2>1. FreshTasks /\ UNCHANGED tvars /\ mode' = mode /\ pc' = "round" /\ mode = "sim"
    BY <1>2 DEF TryNeighbor, tvars, LeastInv
  <2>2. \A a \in FeasibleFor(ts', Lock', prio') : AtMost(proc', a) /\ AtMost(newProc', a)
    BY <2>1, FreshLeast
  <2> QED
    BY <2>1, <2>2 DEF LeastInv
<1>3. CASE FirstCost \/ Judge \/ Satisfied \/ Cooled
  <2>1. /\ UNCHANGED tvars /\ mode' = mode /\ mode = "sim" /\ pc' \in {"anneal", "done"}
        /\ prio' = prio /\ proc' = proc /\ newProc' = newProc /\ pc # "start"
    BY <1>3 DEF FirstCost, Judge, Satisfied, Cooled, tvars, pvars, LeastInv
  <2>2. ts' = ts /\ Lock' = Lock
    BY <2>1, SameFeasible
  <2> QED
    BY <2>1, <2>2 DEF LeastInv
<1>4. CASE UNCHANGED vars
  <2>1. /\ UNCHANGED tvars /\ mode' = mode /\ pc' = pc /\ status' = status
        /\ prio' = prio /\ proc' = proc /\ newProc' = newProc
    BY <1>4 DEF vars, tvars, pvars
  <2>2. ts' = ts /\ Lock' = Lock /\ \A f : Infeasible(f)' <=> Infeasible(f)
    BY <2>1, SameFeasible
  <2>4. Assignments' = Assignments /\ \A f : Precedes(f, prio)' <=> Precedes(f, prio')
    BY DEF Assignments, Precedes
  <2> QED
    BY <2>1, <2>2, <2>4 DEF LeastInv
<1> QED
  BY <1>1, <1>2, <1>3, <1>4, StartLeast, RoundLeast, NextPermutationLeast, LastPermutationLeast
  DEF Next, Step, Finished

\* What the property calls feasible is what the lemmas call so.
LEMMA FeasibleIsFeasibleFor ==
  ASSUME NEW f
  PROVE  Feasible(f) = FeasibleFor(ts, Lock, f)
  BY DEF Feasible, FeasibleFor, HasSlack, SelfSupporting, InitialProc, Total

\* The invariant gives the property.
LEMMA LeastInvIsLeast == LeastInv => LeastAllocation
<1> SUFFICES ASSUME LeastInv, pc = "done" PROVE LeastAllocation
  BY DEF LeastAllocation
<1>1. \A a \in Feasible(prio), t \in Tasks : proc[t] <= a[t]
  BY FeasibleIsFeasibleFor DEF LeastInv, AtMost
<1>2. \A f : Infeasible(f) <=> Feasible(f) = {}
  BY FeasibleIsFeasibleFor DEF Infeasible
<1> QED
  BY <1>1, <1>2 DEF LeastAllocation, LeastInv

\* The rounds stop at the least feasible allocation, and the test gives up only
\* where there is none: under the given priorities, or under any for "opt".
THEOREM AllocationIsLeast == Spec => []LeastAllocation
  BY InitTyped, StepTyped, InitLeast, StepLeast, LeastInvIsLeast, PTL DEF Spec

-------------------------------------------------------------------------------
(* The cores of a task. *)

LastBefore(c) == {l \in LastCores : l < c}

\* The last cores before a core are finitely many.
LEMMA SocketNat ==
  ASSUME NEW c
  PROVE  LastBefore(c) \in SUBSET LastCores /\ IsFiniteSet(LastBefore(c)) /\ Socket(c) \in Nat
<1>1. LastBefore(c) \in SUBSET LastCores
  BY DEF LastBefore
<1>2. IsFiniteSet(LastBefore(c))
  BY <1>1, CoreNumbers, FS_Subset
<1> QED
  BY <1>1, <1>2, FS_CardinalityType DEF Socket, LastBefore

\* More sockets lie before a core if a last core lies between.
LEMMA SocketGrows ==
  ASSUME NEW c \in Nat, NEW d \in Nat, c <= d, NEW l \in LastCores, c <= l, l < d
  PROVE  Socket(c) < Socket(d)
<1>1. LastBefore(c) \in SUBSET LastBefore(d)
  <2>1. \A x \in LastCores : x < c => x < d
    BY CoreNumbers
  <2> QED
    BY <2>1 DEF LastBefore
<1>2. l \in LastBefore(d) /\ l \notin LastBefore(c)
  <2>1. ~ (l < c)
    BY CoreNumbers
  <2> QED
    BY <2>1 DEF LastBefore
<1>3. Cardinality(LastBefore(c)) <= Cardinality(LastBefore(d))
      /\ Cardinality(LastBefore(d)) # Cardinality(LastBefore(c))
  BY <1>1, <1>2, SocketNat, FS_Subset
<1>4. Socket(c) = Cardinality(LastBefore(c)) /\ Socket(d) = Cardinality(LastBefore(d))
  BY DEF Socket, LastBefore
<1>5. Socket(c) \in Nat /\ Socket(d) \in Nat
  BY SocketNat
<1> QED
  BY <1>3, <1>4, <1>5

\* Cores with no last core between them are on one socket.
LEMMA SameSocket ==
  ASSUME NEW c \in Nat, NEW d \in Nat, c <= d, \A l \in LastCores : ~ (c <= l /\ l < d)
  PROVE  Socket(c) = Socket(d)
<1>1. \A l \in LastCores : l < c <=> l < d
  BY CoreNumbers
<1>2. {l \in LastCores : l < c} = {l \in LastCores : l < d}
  BY <1>1
<1> QED
  BY <1>2 DEF Socket

OnSocket(k) == {c \in 0 .. Max(LastCores) : Socket(c) = k}

\* The sizes of the sockets are finitely many numbers.
LEMMA SocketSizesFinite ==
  /\ IsFiniteSet(SocketSizes) /\ SocketSizes \subseteq Nat
  /\ \A k \in 0 .. Cardinality(LastCores) - 1 :
       Cardinality(OnSocket(k)) \in SocketSizes
  /\ \A k : IsFiniteSet(OnSocket(k)) /\ Cardinality(OnSocket(k)) \in Nat
<1> DEFINE K == 0 .. Cardinality(LastCores) - 1
           f == [k \in K |-> Cardinality(OnSocket(k))]
<1>1. Cardinality(LastCores) \in Nat
  BY CoreNumbers, FS_CardinalityType
<1>2. IsFiniteSet(K)
  <2> DEFINE n == Cardinality(LastCores) - 1
  <2>1. n \in Int
    BY <1>1
  <2> HIDE DEF n
  <2>2. IsFiniteSet(0 .. n)
    BY <2>1, FS_Interval
  <2> QED
    BY <2>2 DEF n
<1>3. Max(LastCores) \in Nat
  <2>1. IsFiniteSet(LastCores) /\ LastCores # {} /\ LastCores \subseteq Int
    BY CoreNumbers
  <2>2. Max(LastCores) \in LastCores
    BY <2>1, MaxFinite
  <2> QED
    BY <2>2, CoreNumbers
<1>4. \A k : IsFiniteSet(OnSocket(k)) /\ Cardinality(OnSocket(k)) \in Nat
  <2> TAKE k
  <2>1. OnSocket(k) \in SUBSET (0 .. Max(LastCores))
    BY DEF OnSocket
  <2>2. IsFiniteSet(0 .. Max(LastCores))
    BY <1>3, FS_Interval
  <2> QED
    BY <2>1, <2>2, FS_Subset, FS_CardinalityType
<1>5. SocketSizes = {f[k] : k \in K}
  BY DEF SocketSizes, OnSocket
<1>6. IsFiniteSet(SocketSizes)
  <2> HIDE DEF f, K
  <2> QED
    BY <1>2, <1>5, ImageIsFinite
<1>7. SocketSizes \subseteq Nat
  BY <1>4, <1>5
<1>8. \A k \in K : Cardinality(OnSocket(k)) \in SocketSizes
  BY <1>5
<1> QED
  BY <1>4, <1>6, <1>7, <1>8

\* A socket that begins after the last core c has no fewer cores than the
\* smallest one.
LEMMA NextSocketFits ==
  ASSUME NEW c \in LastCores, NEW n \in Nat \ {0}, n <= Min(SocketSizes)
  PROVE  \A l \in LastCores : ~ (c + 1 <= l /\ l < c + n)
<1> DEFINE T == {l \in LastCores : c + 1 <= l /\ l < c + n}
<1> SUFFICES ASSUME T # {} PROVE FALSE
  OBVIOUS
<1>1. T \subseteq Nat /\ c \in Nat
  BY CoreNumbers
<1>2. PICK l \in T : \A x \in T : l <= x
  <2> HIDE DEF T
  <2> QED
    BY <1>1, NatLeast
<1>3. l \in LastCores /\ l \in Nat /\ c + 1 \in Nat /\ c + 1 <= l /\ l < c + n
  BY <1>1, <1>2
<1> HIDE DEF T
<1> DEFINE k == Socket(c + 1)
<1>4. k \in 0 .. Cardinality(LastCores) - 1
  <2>1. LastBefore(c + 1) \in SUBSET LastCores /\ l \notin LastBefore(c + 1)
    BY <1>3, SocketNat DEF LastBefore
  <2>2. Cardinality(LastBefore(c + 1)) <= Cardinality(LastCores)
        /\ Cardinality(LastCores) # Cardinality(LastBefore(c + 1))
    BY <1>3, <2>1, CoreNumbers, FS_Subset
  <2>3. k = Cardinality(LastBefore(c + 1))
    BY DEF Socket, LastBefore
  <2>4. k \in Nat /\ Cardinality(LastCores) \in Nat
    BY SocketNat, CoreNumbers, FS_CardinalityType
  <2> HIDE DEF k
  <2> QED
    BY <2>2, <2>3, <2>4
<1>5. OnSocket(k) \in SUBSET (c + 1 .. l)
  <2> SUFFICES ASSUME NEW d \in OnSocket(k) PROVE d \in c + 1 .. l
    OBVIOUS
  <2>1. d \in Nat /\ Socket(d) = Socket(c + 1)
    BY DEF OnSocket
  <2>2. ~ (d <= c)
    <3> SUFFICES ASSUME d <= c PROVE FALSE
      OBVIOUS
    <3>1. d <= c + 1 /\ c < c + 1
      BY <1>1, <2>1
    <3>2. Socket(d) < Socket(c + 1)
      BY <1>3, <2>1, <3>1, SocketGrows
    <3> QED
      BY <2>1, <3>2, SocketNat
  <2>3. ~ (l < d)
    <3> SUFFICES ASSUME l < d PROVE FALSE
      OBVIOUS
    <3>1. c + 1 <= d
      BY <1>3, <2>1
    <3>2. Socket(c + 1) < Socket(d)
      BY <1>3, <2>1, <3>1, SocketGrows
    <3> QED
      BY <2>1, <3>2, SocketNat
  <2> QED
    BY <1>1, <1>3, <2>1, <2>2, <2>3
<1>6. IsFiniteSet(c + 1 .. l) /\ Cardinality(c + 1 .. l) = l - c
  <2>1. c + 1 \in Int /\ l \in Int /\ ~ (c + 1 > l) /\ l - (c + 1) + 1 = l - c
    BY <1>1, <1>3
  <2> QED
    BY <2>1, FS_Interval
<1>7. Cardinality(OnSocket(k)) <= l - c
  BY <1>5, <1>6, FS_Subset
<1>8. Cardinality(OnSocket(k)) \in SocketSizes
  BY <1>4, SocketSizesFinite
<1>9. Min(SocketSizes) <= Cardinality(OnSocket(k)) /\ Min(SocketSizes) \in Nat
  <2>1. SocketSizes \subseteq Int /\ SocketSizes # {} /\ IsFiniteSet(SocketSizes)
    BY <1>8, SocketSizesFinite
  <2> QED
    BY <1>8, <2>1, MinFinite, SocketSizesFinite
<1>10. Cardinality(OnSocket(k)) \in Nat
  BY SocketSizesFinite
<1> HIDE DEF k
<1> QED
  BY <1>1, <1>3, <1>7, <1>9, <1>10

\* A task starts where it would or behind the first last core in its way.
LEMMA PlacedRight ==
  ASSUME NEW first \in Nat, NEW n \in Nat \ {0}
  PROVE  /\ Placed(first, n) \in Nat /\ Placed(first, n) >= first
         /\ n <= Min(SocketSizes) => Socket(Placed(first, n)) = Socket(Placed(first, n) + n - 1)
<1>1. CASE Crossed(first, n) = {}
  <2>1. Placed(first, n) = first
    BY <1>1 DEF Placed
  <2>2. \A l \in LastCores : ~ (first <= l /\ l < first + n - 1)
    BY <1>1 DEF Crossed
  <2>3. first + n - 1 \in Nat /\ first <= first + n - 1
    OBVIOUS
  <2>4. Socket(first) = Socket(first + n - 1)
    BY <2>2, <2>3, SameSocket
  <2> QED
    BY <2>1, <2>4
<1>2. CASE Crossed(first, n) # {}
  <2> DEFINE c == Min(Crossed(first, n))
  <2>1. Crossed(first, n) \in SUBSET LastCores
    BY DEF Crossed
  <2>2. IsFiniteSet(Crossed(first, n)) /\ Crossed(first, n) \subseteq Int
    <3>1. IsFiniteSet(Crossed(first, n))
      BY <2>1, CoreNumbers, FS_Subset
    <3>2. Nat \subseteq Int
      OBVIOUS
    <3> QED
      BY <2>1, <3>1, <3>2, CoreNumbers
  <2>3. c \in Crossed(first, n)
    BY <1>2, <2>2, MinFinite
  <2>4. c \in LastCores /\ c \in Nat /\ first <= c
    BY <2>3, CoreNumbers DEF Crossed
  <2>5. Placed(first, n) = c + 1
    BY <1>2 DEF Placed
  <2> HIDE DEF c
  <2>6. ASSUME n <= Min(SocketSizes)
        PROVE  Socket(c + 1) = Socket(c + 1 + n - 1)
    <3>1. \A l \in LastCores : ~ (c + 1 <= l /\ l < c + n)
      BY <2>4, <2>6, NextSocketFits
    <3>2. c + 1 \in Nat /\ c + n \in Nat /\ c + 1 <= c + n /\ c + 1 + n - 1 = c + n
      BY <2>4
    <3> QED
      BY <3>1, <3>2, SameSocket
  <2> QED
    BY <2>4, <2>5, <2>6
<1> QED
  BY <1>1, <1>2

-------------------------------------------------------------------------------
(* The loop that writes the partition. *)

WrittenInv ==
  /\ written \subseteq Tasks /\ nextCore \in Nat
  /\ cores \in [Tasks -> [first : Int, last : Int]]
  /\ written # {} => pc = "done"
  /\ \A t \in written :
       /\ cores[t].first \in Nat /\ cores[t].last = cores[t].first + proc[t] - 1
       /\ cores[t].last < nextCore
       /\ proc[t] <= Min(SocketSizes) => Socket(cores[t].first) = Socket(cores[t].last)
  /\ \A t, x \in written : t # x =>
       cores[t].last < cores[x].first \/ cores[x].last < cores[t].first

\* Nothing is written at the start.
LEMMA InitWritten == PartitionInit => WrittenInv
  BY CoreNumbers DEF PartitionInit, WrittenInv

\* A task gets cores behind all that have been given away.
LEMMA WriteTaskWritten ==
  ASSUME TypeInv, WrittenInv, WriteTask
  PROVE  WrittenInv'
<1>1. PICK t \in Tasks \ written :
        /\ cores' = [cores EXCEPT ![t] = [first |-> Placed(nextCore, proc[t]),
                                          last |-> Placed(nextCore, proc[t]) + proc[t] - 1]]
        /\ nextCore' = Placed(nextCore, proc[t]) + proc[t]
        /\ written' = written \cup {t}
  BY DEF WriteTask
<1>2. pc = "done" /\ pc' = pc /\ proc' = proc
  BY DEF WriteTask, vars, pvars
<1>3. proc \in [Tasks -> Nat \ {0}]
  BY <1>2 DEF TypeInv, Allocations
<1> DEFINE s == Placed(nextCore, proc[t])
           n == proc[t]
<1>4. n \in Nat \ {0} /\ nextCore \in Nat
  BY <1>3 DEF WrittenInv
<1>5. s \in Nat /\ s >= nextCore /\ (n <= Min(SocketSizes) => Socket(s) = Socket(s + n - 1))
  BY <1>4, PlacedRight
<1>6. cores'[t].first = s /\ cores'[t].last = s + n - 1 /\ \A x \in written : cores'[x] = cores[x]
  BY <1>1 DEF WrittenInv
<1>7. nextCore' = s + n /\ s + n \in Nat
  BY <1>1, <1>4, <1>5
<1>8. cores' \in [Tasks -> [first : Int, last : Int]]
  <2>1. s \in Int /\ s + n - 1 \in Int
    BY <1>4, <1>5
  <2>2. cores' = [cores EXCEPT ![t] = [first |-> s, last |-> s + n - 1]]
    BY <1>1
  <2> HIDE DEF s, n
  <2> QED
    BY <2>1, <2>2 DEF WrittenInv
<1>9. \A x \in written : /\ cores[x].first \in Nat /\ cores[x].last \in Int /\ cores[x].last < nextCore
                         /\ cores[x].last < s /\ cores[x].last < s + n
  <2> TAKE x \in written
  <2>1. cores[x].first \in Nat /\ cores[x].last \in Int /\ cores[x].last < nextCore
    BY DEF WrittenInv
  <2> HIDE DEF s, n
  <2> QED
    BY <2>1, <1>4, <1>5
<1>10. \A x \in written' :
       /\ cores'[x].first \in Nat /\ cores'[x].last = cores'[x].first + proc'[x] - 1
       /\ cores'[x].last < nextCore'
       /\ proc'[x] <= Min(SocketSizes) => Socket(cores'[x].first) = Socket(cores'[x].last)
  <2> TAKE x \in written'
  <2>1. CASE x = t
    <3>1. s + n - 1 < s + n
      BY <1>4, <1>5
    <3> QED
      BY <1>2, <1>5, <1>6, <1>7, <2>1, <3>1
  <2>2. CASE x \in written
    <3> HIDE DEF s, n
    <3> QED
      BY <1>2, <1>6, <1>7, <1>9, <2>2 DEF WrittenInv
  <2> QED
    BY <1>1, <2>1, <2>2
<1>11. \A x, y \in written' : x # y =>
         cores'[x].last < cores'[y].first \/ cores'[y].last < cores'[x].first
  <2> TAKE x, y \in written'
  <2> HAVE x # y
  <2> HIDE DEF s, n
  <2>1. CASE x \in written /\ y \in written
    BY <1>6, <2>1 DEF WrittenInv
  <2>2. CASE x \in written /\ y = t
    BY <1>6, <1>9, <2>2
  <2>3. CASE y \in written /\ x = t
    BY <1>6, <1>9, <2>3
  <2> QED
    BY <1>1, <2>1, <2>2, <2>3
<1>12. written' \subseteq Tasks
  BY <1>1 DEF WrittenInv
<1>13. Min(SocketSizes)' = Min(SocketSizes) /\ \A c : Socket(c)' = Socket(c)
  OBVIOUS
<1> QED
  BY <1>2, <1>7, <1>8, <1>10, <1>11, <1>12 DEF WrittenInv

\* Every step keeps what has been written: the test is over by then.
LEMMA StepWritten == TypeInv /\ WrittenInv /\ [PartitionNext]_<<vars, wvars>> => WrittenInv'
<1> SUFFICES ASSUME TypeInv, WrittenInv, [PartitionNext]_<<vars, wvars>> PROVE WrittenInv'
  OBVIOUS
<1>1. CASE Step /\ UNCHANGED wvars
  <2>1. pc # "done"
    BY <1>1 DEF Step, Start, GiveUp, Round, NextPermutation, LastPermutation, Satisfied,
                FirstCost, Judge, TryNeighbor, Cooled
  <2>2. written = {} /\ written' = {}
    BY <1>1, <2>1 DEF WrittenInv, wvars
  <2> QED
    BY <1>1, <2>2 DEF WrittenInv, wvars
<1>2. CASE WriteTask
  BY <1>2, WriteTaskWritten
<1>3. CASE UNCHANGED <<vars, wvars>>
  BY <1>3 DEF WrittenInv, vars, wvars, pvars
<1> QED
  BY <1>1, <1>2, <1>3 DEF PartitionNext, AllWritten

\* The invariant gives the property.
LEMMA WrittenIsPlaced == TypeInv /\ WrittenInv => PlacementInv
<1> SUFFICES ASSUME TypeInv, WrittenInv PROVE PlacementInv
  OBVIOUS
<1>1. ASSUME NEW t \in written
      PROVE  /\ proc[t] \in Nat \ {0} /\ cores[t].first \in Nat /\ cores[t].last \in Int
             /\ cores[t].last = cores[t].first + proc[t] - 1
  <2>1. proc \in Allocations /\ t \in Tasks
    BY DEF WrittenInv, TypeInv
  <2> QED
    BY <2>1 DEF WrittenInv, Allocations
<1>2. ASSUME NEW t \in written
      PROVE  Cardinality(CoresOf(t)) = proc[t]
  <2> DEFINE a == cores[t].first
             b == cores[t].last
  <2>1. a \in Int /\ b \in Int /\ ~ (a > b) /\ b - a + 1 = proc[t]
    BY <1>1
  <2>2. Cardinality(a .. b) = IF a > b THEN 0 ELSE b - a + 1
    BY <2>1, FS_Interval
  <2> QED
    BY <2>1, <2>2 DEF CoresOf
<1>3. ASSUME NEW t \in written, NEW x \in written, t # x
      PROVE  CoresOf(t) \cap CoresOf(x) = {}
  <2>1. cores[t].last < cores[x].first \/ cores[x].last < cores[t].first
    BY <1>3 DEF WrittenInv
  <2> QED
    BY <1>1, <2>1 DEF CoresOf
<1> QED
  BY <1>2, <1>3 DEF PlacementInv, WrittenInv

-------------------------------------------------------------------------------
(* The loop after the test. *)

\* The loop that writes the partition leaves the test alone.
LEMMA PartitionIsTest == [PartitionNext]_<<vars, wvars>> => [Next]_vars
  BY DEF PartitionNext, WriteTask, AllWritten, Next

\* The allocation that the test leaves is the least one, its unsigned arithmetic
\* is exact, and the loop that writes the partition gives every task the cores of
\* that allocation, none twice, and those of one socket where they fit on one.
THEOREM AllocationIsCorrect == PartitionSpec => []AllocationIsRight
<1>1. PartitionInit => TypeInv /\ DemandNeverWraps /\ LeastInv /\ WrittenInv
  BY InitTyped, InitDemand, InitLeast, InitWritten DEF PartitionInit
<1>2. /\ TypeInv /\ DemandNeverWraps /\ LeastInv /\ WrittenInv
      /\ [PartitionNext]_<<vars, wvars>>
      => (TypeInv /\ DemandNeverWraps /\ LeastInv /\ WrittenInv)'
  BY PartitionIsTest, StepTyped, StepDemand, StepLeast, StepWritten
<1>3. TypeInv /\ DemandNeverWraps /\ LeastInv /\ WrittenInv => AllocationIsRight
  BY LeastInvIsLeast, WrittenIsPlaced DEF AllocationIsRight
<1> QED
  BY <1>1, <1>2, <1>3, PTL DEF PartitionSpec
===============================================================================
