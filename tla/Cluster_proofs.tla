---------------------------- MODULE Cluster_proofs ----------------------------
(***************************************************************************)
(* Proofs about the clustering and the programs that call it, for every    *)
(* number of cores, every task set that is read or generated, every option *)
(* and every chain of calls: number and utilisation kept for a core are    *)
(* those of its tasks and its period is not too long, high tasks keep      *)
(* cores of their own, what is written is complete, and every task of a    *)
(* partition that is called guaranteed meets its deadlines.                *)
(*                                                                         *)
(* The last one takes most of the room.  The bound of the code is turned,  *)
(* by the inequality of means, into a time before which all that can be    *)
(* released on a core is done (BoundIsEnough); then each step is shown to  *)
(* keep the bound for the tasks that it puts on a core or takes from it.   *)
(*                                                                         *)
(* The last part is about the simulation that the schedulability test runs *)
(* besides: it passes a core if and only if its tasks have the time that   *)
(* they ask for in one period, so that the two verdicts agree.             *)
(***************************************************************************)
EXTENDS Cluster, SumTheorems, TLAPS, SequenceTheorems, WellFoundedInduction, FiniteSetTheorems

-------------------------------------------------------------------------------
(* The lists that are sorted. *)

\* SortUtil reorders a list so that utilisations do not increase (lib_cluster.py:24).
LEMMA SortUtilSorts ==
  ASSUME NEW S, NEW ids \in Seq(S), \A x \in S : tasks[x].util \in Int
  PROVE  /\ Reorders(SortUtil(ids), ids)
         /\ \A k, l \in 1 .. Len(ids) :
              k <= l => tasks[SortUtil(ids)[k]].util >= tasks[SortUtil(ids)[l]].util
<1> DEFINE key == [i \in DOMAIN ids |-> - tasks[ids[i]].util]
<1>1. \A i \in DOMAIN ids : tasks[ids[i]].util \in Int
  BY SeqIsFunction
<1>2. \A i \in DOMAIN ids : key[i] = - tasks[ids[i]].util /\ key[i] \in Int
  BY <1>1
<1> DEFINE t == SortUtil(ids)
<1>3. t = SortOn(ids, key)
  BY DEF SortUtil
<1> HIDE DEF key, t
<1>4. \A k, l \in 1 .. Len(ids) :
        k <= l => \E i, j \in DOMAIN ids : t[k] = ids[i] /\ t[l] = ids[j] /\ key[i] <= key[j]
  BY <1>2, <1>3, SortOnSorts
<1>5. \A i, j \in DOMAIN ids : key[i] <= key[j] => tasks[ids[i]].util >= tasks[ids[j]].util
  BY <1>1, <1>2
<1>6. \A k, l \in 1 .. Len(ids) : k <= l => tasks[t[k]].util >= tasks[t[l]].util
  BY <1>4, <1>5
<1> QED
  BY <1>2, <1>3, <1>6, SortOnSorts DEF t

\* SortPeriod reorders a list so that periods do not decrease (lib_cluster.py:28).
LEMMA SortPeriodSorts ==
  ASSUME NEW S, NEW ids \in Seq(S), \A x \in S : tasks[x].period \in Int
  PROVE  /\ Reorders(SortPeriod(ids), ids)
         /\ \A k, l \in 1 .. Len(ids) :
              k <= l => tasks[SortPeriod(ids)[k]].period <= tasks[SortPeriod(ids)[l]].period
<1> DEFINE key == [i \in DOMAIN ids |-> tasks[ids[i]].period]
<1>1. \A i \in DOMAIN ids : key[i] = tasks[ids[i]].period /\ key[i] \in Int
  BY SeqIsFunction
<1>2. SortPeriod(ids) = SortOn(ids, key)
  BY DEF SortPeriod
<1> HIDE DEF key
<1> QED
  BY <1>1, <1>2, SortOnSorts

\* BySize reorders clusters so that sizes do not increase (lib_cluster.py:47).
LEMMA BySizeSorts ==
  ASSUME NEW S, out \in Seq(S), \A x \in S : Size(x) \in Int
  PROVE  /\ Reorders(BySize, out)
         /\ \A k, l \in 1 .. Len(out) :
              k <= l => Size(BySize[k]) >= Size(BySize[l])
<1> DEFINE key == [i \in DOMAIN out |-> - Size(out[i])]
<1>1. \A i \in DOMAIN out : Size(out[i]) \in Int
  BY SeqIsFunction
<1>2. \A i \in DOMAIN out : key[i] = - Size(out[i]) /\ key[i] \in Int
  BY <1>1
<1> DEFINE t == BySize
<1>3. t = SortOn(out, key)
  BY DEF BySize
<1> HIDE DEF key, t
<1>4. \A k, l \in 1 .. Len(out) :
        k <= l => \E i, j \in DOMAIN out : t[k] = out[i] /\ t[l] = out[j] /\ key[i] <= key[j]
  <2>1. \A i \in DOMAIN out : key[i] \in Int
    BY <1>2
  <2>2. \A k, l \in 1 .. Len(out) :
          k <= l => \E i, j \in DOMAIN out :
                      SortOn(out, key)[k] = out[i] /\ SortOn(out, key)[l] = out[j] /\ key[i] <= key[j]
    BY <2>1, SortOnSorts
  <2> QED
    BY <1>3, <2>2
<1>5. \A i, j \in DOMAIN out : key[i] <= key[j] => Size(out[i]) >= Size(out[j])
  BY <1>1, <1>2
<1>6. \A k, l \in 1 .. Len(out) : k <= l => Size(t[k]) >= Size(t[l])
  BY <1>4, <1>5
<1> QED
  BY <1>2, <1>3, <1>6, SortOnSorts DEF t

\* SortId reorders lines so that ids do not decrease (lib_cluster.py:16).
LEMMA SortIdSorts ==
  ASSUME NEW S, NEW s \in Seq(S), \A x \in S : x.id \in Int
  PROVE  /\ Reorders(SortId(s), s)
         /\ \A k, l \in 1 .. Len(s) :
              k <= l => SortId(s)[k].id <= SortId(s)[l].id
<1> DEFINE key == [i \in DOMAIN s |-> s[i].id]
<1>1. \A i \in DOMAIN s : key[i] = s[i].id /\ key[i] \in Int
  BY SeqIsFunction
<1>2. SortId(s) = SortOn(s, key)
  BY DEF SortId
<1> HIDE DEF key
<1> QED
  BY <1>1, <1>2, SortOnSorts

\* SortPossible reorders the cores that are offered (lib_cluster.py:43).
LEMMA SortPossibleSorts ==
  ASSUME NEW S, NEW s \in Seq(S), \A x \in S : x.num \in Int /\ x.den \in Int /\ x.den > 0
  PROVE  Reorders(SortPossible(s), s)
<1> DEFINE n == Len(s)
           num == [i \in 1 .. n |-> s[i].num]
           den == [i \in 1 .. n |-> s[i].den]
           L == RatioOrder(n, num, den)
           More(j, i) == s[j].num * s[i].den > s[i].num * s[j].den
           After(j, i) == More(j, i) \/ (~ More(i, j) /\ j <= i)
           t == SortPossible(s)
           rank(i) == Cardinality({j \in DOMAIN s : After(j, i)})
<1>1. n \in Nat /\ DOMAIN s = 1 .. n
      /\ num \in [1 .. n -> Int] /\ den \in [1 .. n -> Int] /\ \A i \in 1 .. n : den[i] > 0
  BY LenProperties, ElementOfSeq
<1>2. IsOrder(n, L) /\ \A i, j \in 1 .. n : <<j, i>> \in L <=> After(j, i)
  <2>1. \A i \in 1 .. n : num[i] = s[i].num /\ den[i] = s[i].den
    OBVIOUS
  <2> HIDE DEF num, den
  <2>2. IsOrder(n, L)
    BY <1>1, RatioOrderIsOrder
  <2>3. \A i, j \in 1 .. n : <<j, i>> \in L <=>
          \/ num[j] * den[i] > num[i] * den[j]
          \/ ~ (num[i] * den[j] > num[j] * den[i]) /\ j <= i
    BY DEF RatioOrder
  <2> QED
    BY <2>1, <2>2, <2>3
<1>3. t = [k \in DOMAIN s |-> s[CHOOSE i \in DOMAIN s : rank(i) = k]]
  BY DEF SortPossible, StableSort
<1> HIDE DEF L, After, t, n
<1>4. \A i \in 1 .. n : rank(i) = RankIn(n, L, i)
  <2> TAKE i \in 1 .. n
  <2>1. {j \in DOMAIN s : After(j, i)} = {j \in 1 .. n : <<j, i>> \in L}
    BY <1>1, <1>2
  <2> QED
    BY <2>1 DEF RankIn
<1> HIDE DEF rank
<1>5. \A k \in 1 .. n : \E i \in 1 .. n : t[k] = s[i] /\ RankIn(n, L, i) = k
  <2> TAKE k \in 1 .. n
  <2>1. \E i \in 1 .. n : RankIn(n, L, i) = k
    BY <1>1, <1>2, RankedIsOnto, Zenon
  <2> DEFINE c == CHOOSE i \in DOMAIN s : rank(i) = k
  <2>2. c \in 1 .. n /\ rank(c) = k
    BY <1>1, <1>4, <2>1
  <2>3. t[k] = s[c]
    BY <1>1, <1>3
  <2> QED
    BY <1>4, <2>2, <2>3
<1>6. DOMAIN t = DOMAIN s /\ t = [k \in DOMAIN t |-> t[k]]
  BY <1>3
<1>7. SortedIn(t, s, L)
  BY <1>2, <1>5, <1>6, SortedBy DEF n
<1> QED
  BY <1>7, SortedReorders DEF t

-------------------------------------------------------------------------------
(* The invariant. *)

\* The tasks, by number.
Ids == DOMAIN tasks

\* Calls are under way, or one has returned.
Called == phase \in {"high", "low", "balance", "done", "returned"}

Segment == [count : Nat \ {0}, len : Nat]

\* The task set, read or under generation: every task is regular, and once a call is made no critical
\* path is as long as the period, since others have been refused (cluster.py:83) or never drawn.
TaskInv ==
  /\ tasks \in Seq(Task)
  /\ \A id \in Ids : Regular(tasks[id])
  /\ Called \/ program[1] # "cluster" => \A id \in Ids : tasks[id].span < tasks[id].period
  /\ program \in Programs
  /\ gen \in {"draw", "grow", "judge", "generated"}
  /\ draft.segs \in Seq(Segment)
  /\ DOMAIN draft = {"period", "exctime", "segs"}
  /\ gen \in {"grow", "judge"} =>
       /\ draft.period \in Periods /\ draft.exctime \in Nat
       /\ draft.exctime < draft.period
       /\ SumTime(draft.segs) <= draft.exctime

\* What the partition says of one task, and of a core that a high task could do without.
Entry == [id : Nat, prio : Int, first : Cores, last : Int]

Lent == [core : Cores, index : Nat, num : Int, den : Nat \ {0}]

\* The types of what a call works on.
TypeInv ==
  /\ phase \in {"idle", "high", "low", "balance", "done", "returned", "ended", "failed"}
  /\ option \in 0 .. 6 /\ sched \in 0 .. 2 /\ fit \in {"none", "refit"}
  /\ info \in Seq(Ids) /\ low \in Seq(Ids) /\ moved \in [Cores -> Seq(Ids)]
  /\ out \in Seq(Entry) /\ \A i \in DOMAIN out : out[i].id \in Ids
  /\ DOMAIN stat = Cores /\ stat = [c \in Cores |-> stat[c]]
  /\ \A c \in Cores :
       /\ stat[c] = [np |-> stat[c].np, sumutil |-> stat[c].sumutil, mint |-> stat[c].mint]
       /\ stat[c].np \in Nat /\ stat[c].sumutil \in Int
  /\ parted \in 0 .. CoreNum /\ cur \in Nat
  /\ lowcore \in Seq(Cores) /\ possible \in Seq(Lent)
  /\ phase = "idle" => out = <<>> /\ info = <<>> /\ low = <<>> /\ \A c \in Cores : moved[c] = <<>>

\* Which tasks have been placed; a partition is whole if all are, each once.
Listed(id) == \E i \in DOMAIN out : out[i].id = id

DistinctIds(o) == \A i, j \in DOMAIN o : o[i].id = o[j].id => i = j

Whole(o) == DistinctIds(o) /\ \A id \in Ids : \E i \in DOMAIN o : o[i].id = id

\* While high tasks are placed they are the first ones of the list by utilisation; then every
\* task is placed or waits; while the balance goes on, it is placed or has been moved.
HighPhase ==
  /\ Reorders(info, [id \in Ids |-> id])
  /\ \A k, l \in 1 .. Len(info) : k <= l => tasks[info[k]].util >= tasks[info[l]].util
  /\ Len(out) <= Len(info)
  /\ \A i \in DOMAIN out : out[i].id = info[i] /\ IsHigh(out[i].id)
  /\ stat = [c \in Cores |-> NoTask] /\ moved = [c \in Cores |-> <<>>]
  /\ sched = 0 /\ fit = "none" /\ lowcore = <<>> /\ low = <<>> /\ cur = 1

LowPhase ==
  /\ DistinctIds(out) /\ Distinct(low)
  /\ \A k \in DOMAIN low : ~ IsHigh(low[k]) /\ ~ Listed(low[k])
  /\ \A id \in Ids : Listed(id) \/ \E k \in DOMAIN low : low[k] = id
  /\ lowcore # <<>> /\ cur \in DOMAIN lowcore
  /\ moved = [c \in Cores |-> <<>>]
  /\ sched \in {0, 1}
  /\ sched = 0 => Distinct(lowcore)

BalancePhase ==
  /\ DistinctIds(out)
  /\ \A c \in Cores : /\ Distinct(moved[c])
                      /\ \A k \in DOMAIN moved[c] : ~ Listed(moved[c][k]) /\ ~ IsHigh(moved[c][k])
                      /\ moved[c] # <<>> => c \in ToSet(lowcore)
  /\ \A c, d \in Cores : c # d => ToSet(moved[c]) \cap ToSet(moved[d]) = {}
  /\ \A id \in Ids : Listed(id) \/ \E c \in Cores : id \in ToSet(moved[c])
  /\ lowcore # <<>> /\ Distinct(lowcore)
  /\ sched = 0

DonePhase == IF sched = 2 THEN out = <<>> ELSE Whole(out)

PhaseInv ==
  /\ phase = "high" => HighPhase
  /\ phase = "low" => LowPhase
  /\ phase = "balance" => BalancePhase
  /\ phase \in {"done", "returned"} => DonePhase

\* What is kept when a chain of calls goes on.
Result(r, o) ==
  /\ r \in 0 .. 2 /\ o \in Seq(Entry)
  /\ o # <<>> => r < 2 /\ Whole(o) /\ \A i \in DOMAIN o : o[i].id \in Ids

KeptInv ==
  /\ IF phase = "idle" THEN kept = NoResult ELSE Result(kept.sched, kept.out)
  /\ rtps.lines # <<>> =>
       /\ rtps.options < 2 /\ phase = "ended"
       /\ [i \in DOMAIN rtps.lines |-> rtps.lines[i].id] = [i \in DOMAIN tasks |-> i]

\* What utility_test counts.
Pair == [sche : 0 .. 2, simu : {0, 1}]

CountInv ==
  /\ earlier \in 0 .. 2 /\ rtps.options \in 0 .. 2
  /\ counted \in Seq(Pair)
  /\ Len(counted) <= 1 \/ (Len(counted) = 2 /\ phase = "ended")

\* One of two clusters ends before the other one starts.
Apart(e, f) == e.last < f.first \/ f.last < e.first

HighAt == {i \in DOMAIN out : IsHigh(out[i].id)}

\* n cores are more than the task needs; what it keeps in any case.
Tight(e, n) == n * (tasks[e.id].period - tasks[e.id].span) > tasks[e.id].work - tasks[e.id].span

Floor(e) == Size(e) >= 2 /\ Tight(e, Size(e) + 1)

\* Clusters in placement order below parted.
HighClusters ==
  phase = "high" =>
    /\ parted = SumFunction([i \in DOMAIN out |-> Size(out[i])])
    /\ \A i \in DOMAIN out : /\ out[i].last < parted /\ out[i].last >= out[i].first - 1
                             /\ option = 6 => Size(out[i]) >= 1

\* A cluster that is offered is one of three cores or more, of which it can do without the last;
\* after a fit into sockets that keeps the order of the tasks it is still the cluster that is named.
LendInv ==
  phase \in {"high", "low"} =>
    \A k \in DOMAIN possible :
      LET p == possible[k]
      IN  /\ p.index \in DOMAIN out /\ IsHigh(out[p.index].id)
          /\ fit = "none" \/ InOrder =>
               /\ out[p.index].last = p.core /\ out[p.index].first <= p.core
               /\ \A l \in DOMAIN possible : possible[l].index = p.index => l = k
          /\ fit = "none" => Size(out[p.index]) >= 3 /\ Tight(out[p.index], Size(out[p.index]))

\* The cores of high tasks are their own, and none of them is a core of low tasks.
OwnInv ==
  fit = "none" \/ InOrder \/ sched # 1 =>
    /\ \A i, j \in DOMAIN out : i # j /\ IsHigh(out[i].id) => Apart(out[i], out[j])
    /\ phase \in {"low", "balance"} => \A i \in DOMAIN out : IsHigh(out[i].id) =>
         \A c \in ToSet(lowcore) : c < out[i].first \/ out[i].last < c

\* Low tasks are on single cores of low tasks.
LowInv == phase \in {"low", "balance"} =>
  \A i \in DOMAIN out : ~ IsHigh(out[i].id) =>
     out[i].first \in ToSet(lowcore) /\ out[i].last = out[i].first

\* High tasks keep what they need but for less than one core.
FloorInv == Parallel /\ fit = "none" => \A i \in DOMAIN out : IsHigh(out[i].id) => Floor(out[i])

\* The low tasks of a list that are on a core, and what a set of tasks needs.
LowIn(o, core) == {o[i].id : i \in {k \in DOMAIN o : o[k].first = core /\ ~ IsHigh(o[k].id)}}

Load(ids) == SumFunctionOnSet([id \in ids |-> tasks[id].util], ids)

\* The tasks of a core in the statistics.
Counted(core) == LowIn(out, core) \cup ToSet(moved[core])

\* The statistics are those of the tasks on the core.
StatInv ==
  phase \in {"low", "balance"} =>
    \A core \in Cores : /\ stat[core].np = Cardinality(Counted(core))
                        /\ stat[core].sumutil = Load(Counted(core))

-------------------------------------------------------------------------------
(* Tasks and their generation. *)

\* The assumptions on the constants.
LEMMA Constants ==
  /\ CoreNum \in Nat \ {0} /\ SocketCores \in Nat \ {0} /\ Hyper \in Nat \ {0}
  /\ Periods \subseteq Nat \ {0} /\ Parts \subseteq Nat \ {0}
  /\ Lengths \subseteq Nat \ {0} /\ Counts \subseteq Nat \ {0}
  /\ MinPart \in Nat \ {0, 1} /\ (\A part \in Parts : part >= MinPart)
  /\ (\A period \in Periods : Hyper % period = 0)
  BY ClusterSize, GenerateSize

\* The tasks, one by one.
LEMMA TaskTypes ==
  ASSUME TaskInv, NEW id \in Ids
  PROVE  /\ tasks[id].period \in Nat \ {0} /\ tasks[id].work \in Nat /\ tasks[id].span \in Nat
         /\ tasks[id].util \in Nat /\ tasks[id].span <= tasks[id].work
         /\ (Called => tasks[id].span < tasks[id].period)
<1>1. tasks \in Seq(Task) /\ Regular(tasks[id])
  BY DEF TaskInv
<1>2. tasks[id] \in Task
  BY <1>1, SeqIsFunction DEF Ids
<1> QED
  BY <1>1, <1>2 DEF Task, Regular, TaskInv

\* The ids are the numbers up to the number of tasks.
LEMMA IdsAreNumbers ==
  ASSUME tasks \in Seq(Task)
  PROVE  Len(tasks) \in Nat /\ Ids = 1 .. Len(tasks) /\ IsFiniteSet(Ids) /\ Ids \subseteq Nat
<1>1. Len(tasks) \in Nat /\ Ids = 1 .. Len(tasks)
  BY SeqIsFunction DEF Ids
<1> QED
  BY <1>1, FS_Interval

\* A refused input apart, a critical path is shorter than the period.
LEMMA NotTooLong ==
  ASSUME NEW t \in Task, Regular(t), ~ TooLong(t)
  PROVE  t.span < t.period
<1>1. /\ t.span \in Nat /\ t.period \in Nat \ {0} /\ t.work \in Nat /\ t.util \in Nat
      /\ Hyper \in Nat \ {0} /\ t.span <= t.work /\ t.util * t.period = t.work * Hyper
  BY Constants DEF Task, Regular
<1>2. CASE t.util < Hyper
  <2>1. \A a, b, c \in Nat : a < b /\ c > 0 => a * c < b * c
    OBVIOUS
  <2>2. t.util * t.period < Hyper * t.period
    BY <1>1, <1>2, <2>1
  <2>3. \A w, p, h \in Nat : w * h < h * p => w < p
    <3> TAKE w, p, h \in Nat
    <3> HAVE w * h < h * p
    <3>1. \A x, y, z \in Nat : x >= y => x * z >= z * y
      OBVIOUS
    <3>2. ~ (w >= p)
      <4>1. w >= p => w * h >= h * p
        BY <3>1
      <4>2. w * h \in Nat /\ h * p \in Nat
        OBVIOUS
      <4> QED
        BY <4>1, <4>2
    <3> QED
      BY <3>2
  <2>4. t.work < t.period
    BY <1>1, <2>2, <2>3
  <2> QED
    BY <1>1, <2>4
<1>3. CASE ~ (t.util < Hyper)
  BY <1>1, <1>3 DEF TooLong
<1> QED
  BY <1>2, <1>3

\* One more segment adds its length.
LEMMA SumTimeAppend ==
  ASSUME NEW segs \in Seq(Segment), NEW s \in Segment
  PROVE  SumTime(Append(segs, s)) = SumTime(segs) + s.len /\ SumTime(segs) \in Nat
<1> DEFINE n == Len(segs)
           f == [i \in 1 .. n |-> segs[i].len]
           t == Append(segs, s)
           g == [i \in 1 .. n + 1 |-> t[i].len]
<1>1. n \in Nat /\ DOMAIN segs = 1 .. n /\ \A i \in 1 .. n : segs[i].len \in Nat
  <2>1. n \in Nat /\ DOMAIN segs = 1 .. n /\ \A i \in 1 .. n : segs[i] \in Segment
    BY SeqIsFunction
  <2> QED
    BY <2>1 DEF Segment
<1>2. Len(t) = n + 1 /\ DOMAIN t = 1 .. n + 1 /\ (\A i \in 1 .. n : t[i] = segs[i]) /\ t[n + 1] = s
  BY <1>1, AppendProperties, LenProperties
<1>3. f \in [1 .. n -> Int] /\ f \in [1 .. n -> Nat]
  BY <1>1
<1>4. \A i \in 1 .. n + 1 : i \in 1 .. n \/ i = n + 1
  BY <1>1
<1>5. g \in [1 .. n + 1 -> Int] /\ (\A i \in 1 .. n : g[i] = f[i]) /\ g[n + 1] = s.len
  <2>1. s.len \in Nat
    BY DEF Segment
  <2> QED
    BY <1>1, <1>2, <1>4, <2>1
<1>6. SumTime(segs) = SumFunction(f) /\ SumTime(t) = SumFunction(g)
  BY <1>1, <1>2 DEF SumTime
<1> HIDE DEF f, g, t, n
<1>7. SumFunction(g) = SumFunction(f) + g[n + 1]
  BY <1>1, <1>3, <1>5, SumAppend
<1>8. SumFunction(f) \in Nat
  <2>1. IsFiniteSet(1 .. n)
    BY <1>1, FS_Interval
  <2> QED
    BY <1>3, <2>1, FunSumNat
<1> QED
  BY <1>5, <1>6, <1>7, <1>8 DEF t

\* A program that was drawn is a regular task.
LEMMA SummedIsTask ==
  ASSUME NEW segs \in Seq(Segment), NEW period \in Periods
  PROVE  /\ Summed(period, segs) \in Task /\ Regular(Summed(period, segs))
         /\ Summed(period, segs).span = SumTime(segs) /\ Summed(period, segs).period = period
<1> DEFINE n == Len(segs)
           f == [i \in 1 .. n |-> segs[i].len]
           w == [i \in 1 .. n |-> segs[i].count * segs[i].len]
           t == Summed(period, segs)
<1>1. /\ n \in Nat /\ DOMAIN segs = 1 .. n
      /\ \A i \in 1 .. n : segs[i].len \in Nat /\ segs[i].count \in Nat \ {0}
  <2>1. n \in Nat /\ DOMAIN segs = 1 .. n /\ \A i \in 1 .. n : segs[i] \in Segment
    BY SeqIsFunction
  <2> QED
    BY <2>1 DEF Segment
<1>2. f \in [1 .. n -> Nat] /\ w \in [1 .. n -> Nat] /\ \A i \in 1 .. n : f[i] <= w[i]
  <2>1. \A a \in Nat \ {0}, b \in Nat : a * b \in Nat /\ b <= a * b
    OBVIOUS
  <2>2. \A i \in 1 .. n : segs[i].count * segs[i].len \in Nat
                          /\ segs[i].len <= segs[i].count * segs[i].len
    BY <1>1, <2>1
  <2> QED
    BY <1>1, <2>2
<1>3. /\ SumTime(segs) = SumFunction(f) /\ t.span = SumFunction(f) /\ t.work = SumFunction(w)
      /\ t.period = period /\ t.segs = segs /\ t.util = SumFunction(w) * (Hyper \div period)
      /\ t = [period |-> t.period, segs |-> t.segs, work |-> t.work, span |-> t.span, util |-> t.util]
  BY <1>1 DEF SumTime, Summed
<1>4. SumFunction(f) \in Nat /\ SumFunction(w) \in Nat /\ SumFunction(f) <= SumFunction(w)
  <2> HIDE DEF f, w
  <2>1. IsFiniteSet(1 .. n)
    BY <1>1, FS_Interval
  <2>2. SumFunction(f) \in Nat /\ SumFunction(w) \in Nat
    BY <1>2, <2>1, FunSumNat
  <2> QED
    BY <1>2, <2>1, <2>2, FunSumMonotone
<1>5. /\ period \in Nat \ {0} /\ Hyper \in Nat \ {0} /\ Hyper % period = 0
  BY Constants
<1>6. Hyper \div period \in Nat /\ (Hyper \div period) * period = Hyper
  <2>1. period * (Hyper \div period) = Hyper /\ Hyper \div period \in Nat
    BY <1>5, CeilMultiple
  <2> QED
    BY <1>5, <2>1
<1>7. t.util \in Nat /\ t.util * period = t.work * Hyper
  <2>1. \A a, b, c \in Nat : a * b \in Nat /\ (a * b) * c = a * (b * c)
    OBVIOUS
  <2> DEFINE q == Hyper \div period
             x == SumFunction(w)
  <2>2. q \in Nat /\ x \in Nat /\ q * period = Hyper /\ t.util = x * q /\ t.work = x /\ period \in Nat
    BY <1>3, <1>4, <1>5, <1>6
  <2> HIDE DEF q, x, t
  <2> QED
    BY <2>1, <2>2
<1>8. segs \in Seq([count : Nat, len : Nat])
  <2>1. Segment \subseteq [count : Nat, len : Nat]
    BY DEF Segment
  <2>2. segs \in [1 .. n -> [count : Nat, len : Nat]]
    BY <2>1, SeqIsFunction
  <2> HIDE DEF n
  <2> QED
    BY <1>1, <2>2, FunctionIsSeq
<1> HIDE DEF t, f, w
<1>9. t \in Task
  BY <1>3, <1>4, <1>5, <1>7, <1>8 DEF Task
<1> QED
  BY <1>3, <1>4, <1>7, <1>9 DEF Regular, t

\* No segments take no time.
LEMMA SumTimeEmpty == SumTime(<<>>) = 0
<1> DEFINE f == [i \in DOMAIN <<>> |-> (<<>>)[i].len]
<1>1. DOMAIN f = {}
  OBVIOUS
<1>2. SumTime(<<>>) = SumFunction(f)
  BY DEF SumTime
<1> HIDE DEF f
<1> QED
  BY <1>1, <1>2, SumEmpty DEF SumFunction

\* The task set that a program starts with, read or empty, is regular.
LEMMA InitTask == ClusterInit => TaskInv
<1> SUFFICES ASSUME ClusterInit PROVE TaskInv
  OBVIOUS
<1>1. program \in Programs /\ phase = "idle" /\ gen = "draw" /\ draft = NoDraft
  BY DEF ClusterInit, Idle, NothingGenerated
<1>2. program[1] = "cluster" => tasks \in Inputs
  BY DEF ClusterInit
<1>3. program[1] # "cluster" => tasks = <<>>
  BY DEF ClusterInit
<1>4. tasks \in Seq(Task) /\ \A id \in Ids : Regular(tasks[id])
  <2>1. CASE program[1] = "cluster"
    BY <1>2, <2>1, InputsRead DEF Ids
  <2>2. CASE program[1] # "cluster"
    <3>1. tasks = <<>> /\ Ids = {}
      BY <1>3, <2>2 DEF Ids
    <3> QED
      BY <3>1
  <2> QED
    BY <2>1, <2>2
<1>5. program[1] # "cluster" => Ids = {}
  BY <1>3 DEF Ids
<1>6. /\ draft.segs = <<>> /\ DOMAIN draft = {"period", "exctime", "segs"}
  BY <1>1 DEF NoDraft
<1> QED
  BY <1>1, <1>4, <1>5, <1>6 DEF TaskInv, Called

\* The tasks are made before a call and stay what they are.
LEMMA TasksStay ==
  ASSUME TaskInv, tasks' = tasks, program' = program, gvars' = gvars, Called' => Called
  PROVE  TaskInv'
<1>1. Ids' = Ids /\ gen' = gen /\ draft' = draft
  BY DEF Ids, gvars
<1>2. \A id \in Ids : Regular(tasks[id])' = Regular(tasks[id])
  BY <1>1 DEF Regular
<1>3. SumTime(draft.segs)' = SumTime(draft.segs)
  BY <1>1 DEF SumTime
<1> QED
  BY <1>1, <1>2, <1>3 DEF TaskInv

\* A step of the generation keeps the task set regular (taskgenerate.py:181-211).
LEMMA GenerateTasks ==
  ASSUME TaskInv, GenerateSet
  PROVE  TaskInv'
<1>1. phase = "idle" /\ phase' = "idle" /\ program' = program /\ program[1] # "cluster"
  BY DEF GenerateSet, IsCaller, calls
<1>2. ~ Called /\ ~ Called'
  BY <1>1 DEF Called
<1>3. CASE DrawPeriod
  <2>1. PICK period \in Periods, part \in Parts :
          draft' = [period |-> period, exctime |-> period \div part, segs |-> <<>>]
    BY <1>3 DEF DrawPeriod
  <2>2. /\ draft'.period = period /\ draft'.exctime = period \div part /\ draft'.segs = <<>>
        /\ DOMAIN draft' = {"period", "exctime", "segs"}
    BY <2>1
  <2>4. period \in Nat \ {0} /\ part \in Nat \ {0, 1}
    BY Constants
  <2>3. period \div part \in Nat /\ 2 * (period \div part) <= period
    BY <2>4, HalfAtMost
  <2>5. draft'.exctime \in Nat /\ draft'.exctime < draft'.period
    BY <2>2, <2>3, <2>4
  <2>6. SumTime(draft'.segs) = 0 /\ draft'.segs \in Seq(Segment)
    BY <2>2, SumTimeEmpty
  <2>7. gen' = "grow" /\ tasks' = tasks
    BY <1>3 DEF DrawPeriod
  <2>8. /\ tasks' \in Seq(Task) /\ Ids' = Ids
        /\ \A id \in Ids' : Regular(tasks'[id]) /\ tasks'[id].span < tasks'[id].period
    BY <1>1, <2>7 DEF TaskInv, Ids
  <2>9. SumTime(draft.segs)' = SumTime(draft'.segs)
    BY DEF SumTime
  <2> QED
    BY <1>1, <1>2, <2>2, <2>5, <2>6, <2>7, <2>8, <2>9 DEF TaskInv, Regular
<1>4. CASE AddSegment
  <2>1. PICK len \in Lengths, count \in Counts :
          /\ SumTime(draft.segs) + len <= draft.exctime
          /\ draft' = [draft EXCEPT !.segs = Append(@, [count |-> count, len |-> len])]
    BY <1>4 DEF AddSegment
  <2>2. /\ draft.segs \in Seq(Segment) /\ DOMAIN draft = {"period", "exctime", "segs"} /\ gen = "grow"
        /\ draft.period \in Periods /\ draft.exctime \in Nat /\ draft.exctime < draft.period
    BY <1>4 DEF TaskInv, AddSegment
  <2> DEFINE s == [count |-> count, len |-> len]
  <2>3. s \in Segment /\ s.len = len
    BY Constants DEF Segment
  <2>4. /\ draft'.period = draft.period /\ draft'.exctime = draft.exctime
        /\ draft'.segs = Append(draft.segs, s) /\ DOMAIN draft' = DOMAIN draft
    BY <2>1, <2>2
  <2> HIDE DEF s
  <2>5. draft'.segs \in Seq(Segment)
    BY <2>2, <2>3, <2>4, AppendProperties
  <2>6. SumTime(draft'.segs) <= draft'.exctime
    BY <2>1, <2>2, <2>3, <2>4, SumTimeAppend
  <2>7. gen' = "grow" /\ tasks' = tasks
    BY <1>4 DEF AddSegment
  <2>8. /\ tasks' \in Seq(Task) /\ Ids' = Ids
        /\ \A id \in Ids' : Regular(tasks'[id]) /\ tasks'[id].span < tasks'[id].period
    BY <1>1, <2>7 DEF TaskInv, Ids
  <2>9. SumTime(draft.segs)' = SumTime(draft'.segs)
    BY DEF SumTime
  <2> QED
    BY <1>1, <1>2, <2>2, <2>4, <2>5, <2>6, <2>7, <2>8, <2>9 DEF TaskInv, Regular
<1>5. CASE EndProgram
  <2>1. gen = "grow" /\ gen' = "judge" /\ draft' = draft /\ tasks' = tasks
    BY <1>5 DEF EndProgram
  <2>2. /\ tasks' \in Seq(Task) /\ Ids' = Ids
        /\ \A id \in Ids' : Regular(tasks'[id]) /\ tasks'[id].span < tasks'[id].period
    BY <1>1, <2>1 DEF TaskInv, Ids
  <2>3. SumTime(draft.segs)' = SumTime(draft.segs)
    BY <2>1 DEF SumTime
  <2> QED
    BY <1>1, <1>2, <2>1, <2>2, <2>3 DEF TaskInv, Regular
<1>n. draft' = NoDraft => draft'.segs \in Seq(Segment) /\ DOMAIN draft' = {"period", "exctime", "segs"}
  BY DEF NoDraft
<1>6. CASE Complete \/ DrawAgain
  <2>1. gen' \in {"draw", "generated"} /\ draft' = NoDraft /\ tasks' = tasks
    BY <1>6 DEF Complete, DrawAgain
  <2>2. /\ tasks' \in Seq(Task) /\ Ids' = Ids
        /\ \A id \in Ids' : Regular(tasks'[id]) /\ tasks'[id].span < tasks'[id].period
    BY <1>1, <2>1 DEF TaskInv, Ids
  <2> QED
    BY <1>1, <1>2, <1>n, <2>1, <2>2 DEF TaskInv, Regular
<1>7. CASE AddProgram
  <2>1. gen = "judge" /\ gen' = "draw" /\ draft' = NoDraft /\ tasks' = Append(tasks, Drafted)
    BY <1>7 DEF AddProgram
  <2>2. /\ draft.period \in Periods /\ draft.segs \in Seq(Segment)
        /\ draft.exctime < draft.period /\ SumTime(draft.segs) <= draft.exctime /\ draft.exctime \in Nat
    BY <2>1 DEF TaskInv
  <2>3. Drafted \in Task /\ Regular(Drafted) /\ Drafted.span = SumTime(draft.segs) /\ Drafted.period = draft.period
    BY <2>2, SummedIsTask DEF Drafted
  <2>4. Drafted.span < Drafted.period
    <3>1. Drafted.span \in Nat /\ Drafted.period \in Nat
      BY <2>3 DEF Task
    <3> QED
      BY <2>2, <2>3, <3>1
  <2>5. /\ tasks \in Seq(Task) /\ DOMAIN tasks = 1 .. Len(tasks) /\ Len(tasks) \in Nat
        /\ \A id \in DOMAIN tasks : Regular(tasks[id]) /\ tasks[id].span < tasks[id].period
    BY <1>1, SeqIsFunction DEF TaskInv, Ids
  <2> HIDE DEF Drafted
  <2>6. /\ tasks' \in Seq(Task) /\ DOMAIN tasks' = 1 .. Len(tasks) + 1
        /\ \A id \in 1 .. Len(tasks) : tasks'[id] = tasks[id]
        /\ tasks'[Len(tasks) + 1] = Drafted
    <3> DEFINE t == Append(tasks, Drafted)
    <3>1. /\ t \in Seq(Task) /\ Len(t) = Len(tasks) + 1
          /\ (\A i \in 1 .. Len(tasks) : t[i] = tasks[i]) /\ t[Len(tasks) + 1] = Drafted
      BY <2>3, <2>5, AppendProperties
    <3>2. DOMAIN t = 1 .. Len(t)
      BY <3>1, SeqIsFunction
    <3> HIDE DEF t
    <3>3. tasks' = t
      BY <2>1 DEF t
    <3> QED
      BY <3>1, <3>2, <3>3
  <2>7. \A id \in Ids' : Regular(tasks'[id]) /\ tasks'[id].span < tasks'[id].period
    <3> SUFFICES ASSUME NEW id \in DOMAIN tasks' PROVE Regular(tasks'[id]) /\ tasks'[id].span < tasks'[id].period
      BY DEF Ids
    <3>1. id \in 1 .. Len(tasks) \/ id = Len(tasks) + 1
      BY <2>5, <2>6
    <3> QED
      BY <2>3, <2>4, <2>5, <2>6, <3>1
  <2> QED
    BY <1>1, <1>2, <1>n, <2>1, <2>6, <2>7 DEF TaskInv, Regular
<1> QED
  BY <1>3, <1>4, <1>5, <1>6, <1>7 DEF GenerateSet, GenerateStep

\* What a step of the partition leaves alone.
LEMMA StepOfCall ==
  ASSUME PartitionStep
  PROVE  /\ tasks' = tasks /\ option' = option /\ info' = info
         /\ phase \in {"high", "low", "balance"}
<1> USE DEF input
<1>1. CASE PlaceHigh \/ NoCoreForHigh
  BY <1>1 DEF PlaceHigh, NoCoreForHigh, NextIsHigh, NoPartition
<1>2. CASE AllHigh \/ NoLowCore \/ StartLow
  BY <1>2 DEF AllHigh, NoLowCore, StartLow, LowIsNext, NoPartition
<1>3. CASE FirstAdmitting
  BY <1>3 DEF FirstAdmitting
<1>4. CASE WorstFit
  BY <1>4 DEF WorstFit
<1>5. CASE LeastUtil
  BY <1>5 DEF LeastUtil, NoneFits
<1>6. CASE TakeCore
  BY <1>6 DEF TakeCore, NoneFits
<1>7. CASE NoCoreForLow \/ LowPlaced
  BY <1>7 DEF NoCoreForLow, LowPlaced, NoneFits, NoPartition
<1>8. CASE BalanceFails \/ Balanced
  BY <1>8 DEF BalanceFails, Balanced
<1>9. CASE Move
  BY <1>9 DEF Move
<1> QED
  BY <1>1, <1>2, <1>3, <1>4, <1>5, <1>6, <1>7, <1>8, <1>9 DEF PartitionStep

\* Every step does.
LEMMA StepTask == TaskInv /\ [ClusterNext]_cvars => TaskInv'
<1> SUFFICES ASSUME TaskInv, [ClusterNext]_cvars PROVE TaskInv'
  OBVIOUS
<1>1. CASE GenerateSet
  BY <1>1, GenerateTasks
<1>2. CASE ReadInput
  <2>1. /\ tasks' = tasks /\ program' = program /\ gen' = gen /\ draft' = draft
        /\ \A id \in DOMAIN tasks : ~ TooLong(tasks[id])
    BY <1>2 DEF ReadInput, Call, calls, gvars
  <2>2. /\ tasks \in Seq(Task) /\ \A id \in Ids : Regular(tasks[id])
    BY DEF TaskInv
  <2>3. \A id \in Ids : tasks[id].span < tasks[id].period
    BY <2>1, <2>2, NotTooLong, SeqIsFunction DEF Ids
  <2>4. Ids' = Ids
    BY <2>1 DEF Ids
  <2>5. \A id \in Ids : Regular(tasks[id])' = Regular(tasks[id])
    BY <2>1 DEF Regular
  <2>6. SumTime(draft.segs)' = SumTime(draft.segs)
    BY <2>1 DEF SumTime
  <2> QED
    BY <2>1, <2>2, <2>3, <2>4, <2>5, <2>6 DEF TaskInv
<1>3. CASE AssignCore
  <2>1. /\ tasks' = tasks /\ program' = program /\ gen' = gen /\ draft' = draft /\ program[1] # "cluster"
    BY <1>3 DEF AssignCore, Call, calls, gvars, IsCaller
  <2>2. Ids' = Ids
    BY <2>1 DEF Ids
  <2>3. \A id \in Ids : Regular(tasks[id])' = Regular(tasks[id])
    BY <2>1 DEF Regular
  <2>4. SumTime(draft.segs)' = SumTime(draft.segs)
    BY <2>1 DEF SumTime
  <2> QED
    BY <2>1, <2>2, <2>3, <2>4 DEF TaskInv
<1>4. CASE PartitionGoesOn
  <2>1. tasks' = tasks /\ program' = program /\ gvars' = gvars /\ Called
    BY <1>4, StepOfCall DEF PartitionGoesOn, calls, Called
  <2> QED
    BY <2>1, TasksStay
<1>5. CASE ReadFails \/ SortFails \/ Returned \/ TryNext \/ WriteSchedule \/ CountFive \/ CountSix
  <2>1. tasks' = tasks /\ program' = program /\ gvars' = gvars
    BY <1>5 DEF ReadFails, SortFails, Returned, TryNext, WriteSchedule, CountFive, CountSix,
                GoOn, Call, calls, input, gvars
  <2>2. Called' => Called
    BY <1>5 DEF ReadFails, SortFails, Returned, TryNext, WriteSchedule, CountFive, CountSix,
                GoOn, Call, Called
  <2> QED
    BY <2>1, <2>2, TasksStay
<1>6. CASE UNCHANGED cvars
  <2>1. tasks' = tasks /\ program' = program /\ gvars' = gvars /\ phase' = phase
    BY <1>6 DEF cvars, placing, input, calls
  <2> QED
    BY <2>1, TasksStay DEF Called
<1> QED
  BY <1>1, <1>2, <1>3, <1>4, <1>5, <1>6 DEF ClusterNext, ProgramStep

\* One more task adds its utilisation and counts once.
LEMMA LoadAdd ==
  ASSUME TaskInv, NEW ids \in SUBSET Ids, NEW a \in Ids, a \notin ids
  PROVE  /\ Load(ids \cup {a}) = Load(ids) + tasks[a].util
         /\ Cardinality(ids \cup {a}) = Cardinality(ids) + 1
         /\ Load(ids) \in Nat /\ Cardinality(ids) \in Nat
<1> DEFINE f == [id \in Ids |-> tasks[id].util]
           g == [id \in ids |-> tasks[id].util]
           h == [id \in ids \cup {a} |-> tasks[id].util]
<1>1. \A id \in Ids : tasks[id].util \in Nat
  BY TaskTypes
<1>2. IsFiniteSet(ids) /\ IsFiniteSet(ids \cup {a})
  <2>1. IsFiniteSet(Ids) /\ ids \cup {a} \in SUBSET Ids
    BY IdsAreNumbers DEF TaskInv
  <2> QED
    BY <2>1, FS_Subset
<1>3. /\ \A x \in ids : f[x] \in Nat /\ g[x] \in Nat /\ g[x] = f[x] /\ f[x] \in Int /\ g[x] \in Int
      /\ \A x \in ids \cup {a} : f[x] \in Int /\ h[x] \in Int /\ h[x] = f[x]
      /\ f[a] = tasks[a].util
  BY <1>1
<1>4. Load(ids) = SumFunctionOnSet(g, ids) /\ Load(ids \cup {a}) = SumFunctionOnSet(h, ids \cup {a})
  BY DEF Load
<1> HIDE DEF f, g, h
<1>5. SumFunctionOnSet(g, ids) = SumFunctionOnSet(f, ids)
  BY <1>2, <1>3, SumSame
<1>6. SumFunctionOnSet(h, ids \cup {a}) = SumFunctionOnSet(f, ids \cup {a})
  BY <1>2, <1>3, SumSame
<1>7. SumFunctionOnSet(f, ids \cup {a}) = SumFunctionOnSet(f, ids) + f[a]
  BY <1>2, <1>3, SumAdd
<1>8. SumFunctionOnSet(f, ids) \in Nat
  BY <1>2, <1>3, SumNat
<1>9. Cardinality(ids) \in Nat /\ Cardinality(ids \cup {a}) = Cardinality(ids) + 1
  BY <1>2, FS_CardinalityType, FS_AddElement
<1> QED
  BY <1>3, <1>4, <1>5, <1>6, <1>7, <1>8, <1>9

\* One task less takes its utilisation away.
LEMMA LoadRemove ==
  ASSUME TaskInv, NEW ids \in SUBSET Ids, NEW a \in ids
  PROVE  /\ Load(ids \ {a}) = Load(ids) - tasks[a].util
         /\ Cardinality(ids \ {a}) = Cardinality(ids) - 1 /\ Cardinality(ids) > 0
         /\ Load(ids) \in Nat /\ Cardinality(ids) \in Nat
<1> DEFINE d == ids \ {a}
<1>1. d \in SUBSET Ids /\ a \in Ids /\ a \notin d /\ d \cup {a} = ids
  OBVIOUS
<1>2. tasks[a].util \in Nat
  BY <1>1, TaskTypes
<1> HIDE DEF d
<1>3. /\ Load(ids) = Load(d) + tasks[a].util
      /\ Cardinality(ids) = Cardinality(d) + 1 /\ Load(d) \in Nat /\ Cardinality(d) \in Nat
  BY <1>1, LoadAdd
<1> QED
  BY <1>2, <1>3 DEF d

\* No task needs nothing.
LEMMA LoadEmpty == Load({}) = 0 /\ Cardinality({}) = 0
  BY SumEmpty, FS_EmptySet DEF Load

\* What stays the same when tasks and option do.
LEMMA SameTasks ==
  ASSUME tasks' = tasks, option' = option
  PROVE  /\ Ids' = Ids /\ (\A id : IsHigh(id)' = IsHigh(id))
         /\ (\A ids : Load(ids)' = Load(ids))
         /\ (\A o, c : LowIn(o, c)' = LowIn(o, c))
<1>1. Ids' = Ids /\ \A id : IsHigh(id)' = IsHigh(id)
  BY DEF Ids, IsHigh, Threshold
<1>2. \A ids : Load(ids)' = Load(ids)
  BY DEF Load
<1>3. \A o, c : LowIn(o, c)' = LowIn(o, c)
  BY <1>1 DEF LowIn
<1> QED
  BY <1>1, <1>2, <1>3

-------------------------------------------------------------------------------
(* A call. *)

\* A call starts with nothing placed (lib_cluster.py:451-469).
LEMMA CallTyped ==
  ASSUME TaskInv, NEW opt \in 0 .. 6, Call(opt)
  PROVE  TypeInv' /\ PhaseInv' /\ StatInv'
<1> DEFINE s == [id \in Ids |-> id]
<1>1. /\ phase' = "high" /\ option' = opt /\ info' = SortUtil(s) /\ out' = <<>>
      /\ stat' = [c \in Cores |-> NoTask] /\ parted' = 0 /\ possible' = <<>> /\ fit' = "none"
      /\ lowcore' = <<>> /\ low' = <<>> /\ cur' = 1 /\ moved' = [c \in Cores |-> <<>>]
      /\ sched' = 0 /\ tasks' = tasks
  BY DEF Call, Ids
<1>2. Len(tasks) \in Nat /\ Ids = 1 .. Len(tasks) /\ Ids' = Ids
  BY <1>1, IdsAreNumbers DEF TaskInv, Ids
<1>3. s \in Seq(Ids) /\ s \in [1 .. Len(tasks) -> Ids]
  BY <1>2
<1>4. \A id \in Ids : tasks[id].util \in Int
  BY TaskTypes
<1> HIDE DEF s
<1>5. /\ Reorders(SortUtil(s), s)
      /\ \A k, l \in 1 .. Len(s) : k <= l => tasks[SortUtil(s)[k]].util >= tasks[SortUtil(s)[l]].util
  BY <1>3, <1>4, SortUtilSorts
<1>6. SortUtil(s) \in Seq(Ids) /\ Len(SortUtil(s)) = Len(s)
  BY <1>3, <1>5, ReorderedSeq
<1>7. /\ Reorders(info', s) /\ info' \in Seq(Ids)
      /\ \A k, l \in 1 .. Len(info') : k <= l => tasks[info'[k]].util >= tasks[info'[l]].util
  BY <1>1, <1>5, <1>6
<1>8. CoreNum \in Nat \ {0}
  BY Constants
<1>9. TypeInv'
  BY <1>1, <1>2, <1>7, <1>8 DEF TypeInv, NoTask
<1>10. HighPhase'
  <2>1. Len(info') >= 0
    BY <1>7, SeqIsFunction
  <2>2. Len(out') <= Len(info') /\ \A i \in DOMAIN out' : FALSE
    BY <1>1, <2>1
  <2>3. s = [id \in Ids' |-> id]
    BY <1>2 DEF s
  <2> QED
    BY <1>1, <1>7, <2>2, <2>3 DEF HighPhase
<1> QED
  BY <1>1, <1>9, <1>10 DEF PhaseInv, StatInv

-------------------------------------------------------------------------------
(* The fit into sockets. *)

Use3 == [0 .. 2 -> Nat]

\* Used exists and follows its definition: natural numbers for each socket, from 0 on.
LEMMA UsedRecursion ==
  ASSUME out \in Seq(Entry), \A i \in 1 .. Len(out) : Size(BySize[i]) \in Nat
  PROVE  /\ \A i \in 0 .. Len(out) : Used[i] \in Use3
         /\ Used[0] = [s \in 0 .. 2 |-> 0]
         /\ \A i \in 1 .. Len(out) : \A s \in 0 .. 2 :
              Used[i][s] = Used[i - 1][s]
                           + IF s = FirstFit(Used[i - 1], BySize[i]) THEN Size(BySize[i]) ELSE 0
<1> DEFINE N == Len(out)
           z == [s \in 0 .. 2 |-> 0]
           Add(u, i) == [s \in 0 .. 2 |-> u[s] + IF s = FirstFit(u, BySize[i]) THEN Size(BySize[i]) ELSE 0]
           step == [i \in 1 .. N |-> [u \in Use3 |-> Add(u, i)]]
           F(g) == [i \in 0 .. N |-> IF i = 0 THEN z ELSE Add(g[i - 1], i)]
           G == CHOOSE g : g = F(g)
<1>1. N \in Nat
  BY SeqIsFunction
<1>a. \A i \in 1 .. N : \A u \in Use3 : Add(u, i) \in Use3
  BY SMTT(60) DEF Use3
<1>2. z \in Use3 /\ step \in [1 .. N -> [Use3 -> Use3]]
  <2>1. z \in Use3
    BY DEF Use3
  <2> HIDE DEF Add
  <2> QED
    BY <1>a, <2>1
<1>3. PICK g \in [0 .. N -> Use3] : g[0] = z /\ \A n \in 1 .. N : g[n] = step[n][g[n - 1]]
  <2> HIDE DEF N, z, step
  <2>1. Chains(N, Use3, z, step) # {}
    BY <1>1, <1>2, ChainExists
  <2> QED
    BY <2>1 DEF Chains
<1>4. \A n \in 1 .. N : g[n] = Add(g[n - 1], n) /\ g[n - 1] \in Use3
  <2> TAKE n \in 1 .. N
  <2>1. n - 1 \in 0 .. N
    BY <1>1
  <2>2. g[n - 1] \in Use3
    BY <2>1
  <2> HIDE DEF Add
  <2>3. step[n][g[n - 1]] = Add(g[n - 1], n)
    BY <2>2
  <2> QED
    BY <1>3, <2>2, <2>3
<1>5. g = F(g)
  <2> HIDE DEF Add, z
  <2>1. \A i \in 0 .. N : g[i] = IF i = 0 THEN z ELSE Add(g[i - 1], i)
    <3> TAKE i \in 0 .. N
    <3>1. i = 0 \/ i \in 1 .. N
      BY <1>1
    <3> QED
      BY <1>3, <1>4, <3>1
  <2> QED
    BY <2>1
<1>6. Used = G
  BY DEF Used
<1>7. G = F(G)
  <2> HIDE DEF F
  <2> QED
    BY <1>5
<1>8. \A i \in 0 .. N : Used[i] = IF i = 0 THEN z ELSE Add(Used[i - 1], i)
  <2> HIDE DEF Add, z, G
  <2>1. Used = F(Used)
    BY <1>6, <1>7
  <2> QED
    BY <2>1
<1>9. Used[0] \in Use3
  <2> HIDE DEF Add, z
  <2> QED
    BY <1>1, <1>2, <1>8
<1>10. \A n \in 1 .. N : Used[n - 1] \in Use3 => Used[n] \in Use3
  <2> TAKE n \in 1 .. N
  <2>1. Used[n] = Add(Used[n - 1], n)
    <3> HIDE DEF Add, z
    <3> QED
      BY <1>1, <1>8
  <2> HIDE DEF Add
  <2> QED
    BY <1>a, <2>1
<1>11. \A i \in 0 .. N : Used[i] \in Use3
  <2> HIDE DEF N
  <2> QED
    BY <1>1, <1>9, <1>10, ChainStays
<1>12. Used[0] = z
  <2> HIDE DEF Add, z
  <2> QED
    BY <1>1, <1>8
<1>13. \A i \in 1 .. N : \A s \in 0 .. 2 :
          Used[i][s] = Used[i - 1][s] + IF s = FirstFit(Used[i - 1], BySize[i]) THEN Size(BySize[i]) ELSE 0
  <2> TAKE i \in 1 .. N
  <2>1. i \in 0 .. N /\ i # 0
    BY <1>1
  <2>2. Used[i] = Add(Used[i - 1], i)
    <3> HIDE DEF Add, z
    <3> QED
      BY <1>8, <2>1
  <2> QED
    BY <2>2
<1> QED
  BY <1>11, <1>12, <1>13

\* The socket that the i-th cluster goes to.
InSocket(i) == FirstFit(Used[i - 1], BySize[i])

\* What the lemmas on the fit ask of the clusters.
Fitted ==
  /\ out \in Seq(Entry) /\ \A i \in DOMAIN out : Size(out[i]) \in Nat \ {0}
  /\ CoreNum = 3 * SocketCores /\ FitsSockets

\* The clusters in the order of their sizes are the clusters.
LEMMA SizesOrdered ==
  ASSUME out \in Seq(Entry), \A i \in DOMAIN out : Size(out[i]) \in Nat \ {0}
  PROVE  /\ Reorders(BySize, out) /\ BySize \in Seq(Entry)
         /\ DOMAIN BySize = 1 .. Len(out) /\ DOMAIN out = 1 .. Len(out) /\ Len(out) \in Nat
         /\ \A i \in 1 .. Len(out) : Size(BySize[i]) \in Nat \ {0} /\ BySize[i] \in Entry
<1>0. Len(out) \in Nat /\ DOMAIN out = 1 .. Len(out)
  BY SeqIsFunction
<1>1. \A x \in Entry : Size(x) \in Int
  <2> TAKE x \in Entry
  <2>1. x.first \in Cores /\ x.last \in Int
    BY DEF Entry
  <2>2. x.first \in Int
    BY <2>1 DEF Cores
  <2> QED
    BY <2>1, <2>2 DEF Size
<1>2. Reorders(BySize, out)
  BY <1>1, BySizeSorts
<1>3. /\ BySize \in Seq(Entry) /\ Len(BySize) = Len(out)
      /\ \A k \in 1 .. Len(out) : \E i \in 1 .. Len(out) : BySize[k] = out[i]
  BY <1>2, ReorderedSeq
<1>4. DOMAIN BySize = 1 .. Len(out) /\ \A i \in 1 .. Len(out) : BySize[i] \in Entry
  BY <1>3, SeqIsFunction
<1> QED
  BY <1>0, <1>2, <1>3, <1>4

\* If all clusters fit, the socket of each has room for it.
LEMMA SocketHasRoom ==
  ASSUME Fitted, NEW i \in 1 .. Len(out)
  PROVE  /\ InSocket(i) \in 0 .. 2 /\ i - 1 \in 0 .. Len(out)
         /\ Used[i - 1][InSocket(i)] + Size(BySize[i]) <= SocketCores
<1> DEFINE room == {s \in 0 .. 2 : Used[i - 1][s] + Size(BySize[i]) <= SocketCores}
<1>1. i - 1 \in 0 .. Len(out) /\ DOMAIN out = 1 .. Len(out)
  BY SizesOrdered DEF Fitted
<1>2. InSocket(i) = IF room = {} THEN 3 ELSE Min(room)
  BY DEF InSocket, FirstFit
<1>3. InSocket(i) # 3
  BY <1>1 DEF Fitted, FitsSockets, InSocket
<1>4. room # {} /\ InSocket(i) = Min(room)
  BY <1>2, <1>3
<1>5. IsFiniteSet(0 .. 2) /\ room \in SUBSET (0 .. 2) /\ room \subseteq Int
  <2>1. IsFiniteSet(0 .. 2)
    <3>1. \A b \in Nat : IsFiniteSet(0 .. b)
      BY FS_Interval
    <3> QED
      BY <3>1
  <2> QED
    BY <2>1
<1> HIDE DEF room
<1>6. Min(room) \in room
  <2>1. IsFiniteSet(room)
    BY <1>5, FS_Subset
  <2> QED
    BY <1>4, <1>5, <2>1, MinFinite
<1> QED
  BY <1>1, <1>4, <1>6 DEF room

\* What is used of a socket never shrinks and never exceeds it.
LEMMA UsedGrows ==
  ASSUME Fitted, NEW s \in 0 .. 2
  PROVE  /\ \A i \in 0 .. Len(out) : Used[i][s] \in Nat /\ Used[i][s] <= SocketCores
         /\ \A i, j \in 0 .. Len(out) : i <= j => Used[i][s] <= Used[j][s]
         /\ \A i \in 1 .. Len(out) :
              Used[i][s] = Used[i - 1][s] + IF s = InSocket(i) THEN Size(BySize[i]) ELSE 0
<1> DEFINE N == Len(out)
           f == [i \in 0 .. N |-> Used[i][s]]
<1>1. /\ N \in Nat /\ \A i \in 1 .. N : Size(BySize[i]) \in Nat \ {0}
      /\ out \in Seq(Entry)
  BY SizesOrdered DEF Fitted
<1>2. /\ \A i \in 0 .. N : Used[i] \in Use3
      /\ Used[0] = [x \in 0 .. 2 |-> 0]
      /\ \A i \in 1 .. N : Used[i][s] = Used[i - 1][s] + IF s = InSocket(i) THEN Size(BySize[i]) ELSE 0
  BY <1>1, UsedRecursion DEF InSocket
<1>3. \A i \in 0 .. N : Used[i][s] \in Nat
  BY <1>2 DEF Use3
<1>4. f \in [0 .. N -> Int]
  BY <1>3
<1>5. \A i \in 1 .. N : f[i - 1] <= f[i]
  <2> TAKE i \in 1 .. N
  <2>1. i - 1 \in 0 .. N /\ i \in 0 .. N
    BY <1>1
  <2>2. f[i - 1] = Used[i - 1][s] /\ f[i] = Used[i][s]
    BY <2>1
  <2>3. Used[i][s] = Used[i - 1][s] + IF s = InSocket(i) THEN Size(BySize[i]) ELSE 0
    BY <1>2
  <2>4. Size(BySize[i]) \in Nat /\ Used[i - 1][s] \in Nat /\ Used[i][s] \in Nat
    BY <1>1, <1>3, <2>1
  <2> HIDE DEF f, N
  <2> QED
    BY <2>2, <2>3, <2>4
<1>6. \A i, j \in 0 .. N : i <= j => f[i] <= f[j]
  <2> HIDE DEF f, N
  <2> QED
    BY <1>1, <1>4, <1>5, ChainMonotone
<1>7. SocketCores \in Nat
  BY Constants
<1>10. \A i \in 0 .. N : Used[i][s] <= SocketCores
  <2> DEFINE A == {x \in Nat : x <= SocketCores}
  <2>1. f[0] \in A
    BY <1>1, <1>2, <1>7
  <2>2. \A n \in 1 .. N : f[n - 1] \in A => f[n] \in A
    <3> TAKE n \in 1 .. N
    <3>1. /\ f[n - 1] = Used[n - 1][s] /\ f[n] = Used[n][s]
          /\ Used[n - 1][s] \in Nat /\ Used[n][s] \in Nat
      BY <1>1, <1>3
    <3>2. Used[n - 1][InSocket(n)] + Size(BySize[n]) <= SocketCores
      BY SocketHasRoom
    <3>3. Used[n][s] = Used[n - 1][s] + IF s = InSocket(n) THEN Size(BySize[n]) ELSE 0
      BY <1>2
    <3> HIDE DEF f, N
    <3> QED
      BY <3>1, <3>2, <3>3
  <2>3. \A n \in 0 .. N : f[n] \in A
    <3> HIDE DEF f, N, A
    <3> QED
      BY <1>1, <2>1, <2>2, ChainStays
  <2> QED
    BY <2>3
<1>11. \A i, j \in 0 .. N : i <= j => Used[i][s] <= Used[j][s]
  BY <1>6
<1> QED
  BY <1>2, <1>3, <1>10, <1>11

\* Where the clusters are after the fit.
LEMMA RefittedAt ==
  ASSUME Fitted, NEW i \in 1 .. Len(out)
  PROVE  /\ Refitted[i].id = BySize[i].id /\ Refitted[i].prio = BySize[i].prio
         /\ Refitted[i].first = InSocket(i) * SocketCores + Used[i - 1][InSocket(i)]
         /\ Refitted[i].last = Refitted[i].first + Size(BySize[i]) - 1
         /\ Refitted[i].last < InSocket(i) * SocketCores + SocketCores
         /\ Refitted[i].first \in Cores /\ Refitted[i].last \in Cores
         /\ Refitted[i] \in Entry /\ Size(Refitted[i]) = Size(BySize[i])
<1> DEFINE e == BySize[i]
           s == InSocket(i)
           f == s * SocketCores + Used[i - 1][s]
<1>1. Refitted[i] = [e EXCEPT !.first = f, !.last = f + Size(e) - 1]
  BY SizesOrdered DEF Fitted, Refitted, InSocket
<1>2. e \in Entry /\ Size(e) \in Nat \ {0}
  BY SizesOrdered DEF Fitted
<1>3. /\ s \in 0 .. 2 /\ i - 1 \in 0 .. Len(out) /\ Used[i - 1][s] \in Nat
      /\ Used[i - 1][s] + Size(e) <= SocketCores
  BY SocketHasRoom, UsedGrows
<1>4. SocketCores \in Nat \ {0} /\ CoreNum = 3 * SocketCores
  BY Constants DEF Fitted
<1>5. /\ Refitted[i].id = e.id /\ Refitted[i].prio = e.prio /\ Refitted[i].first = f
      /\ Refitted[i].last = f + Size(e) - 1
      /\ Refitted[i] = [id |-> e.id, prio |-> e.prio, first |-> f, last |-> f + Size(e) - 1]
      /\ e.id \in Nat /\ e.prio \in Int
  BY <1>1, <1>2 DEF Entry
<1>6. s * SocketCores \in Nat /\ s * SocketCores + SocketCores <= CoreNum
  <2>1. s = 0 \/ s = 1 \/ s = 2
    BY <1>3
  <2> QED
    BY <1>4, <2>1
<1> DEFINE z == Size(e)
           b == s * SocketCores
           u == Used[i - 1][s]
<1>7. /\ z \in Nat \ {0} /\ b \in Nat /\ u \in Nat /\ u + z <= SocketCores /\ b + SocketCores <= CoreNum
      /\ f = b + u /\ Refitted[i].first = f /\ Refitted[i].last = f + z - 1
  BY <1>2, <1>3, <1>5, <1>6
<1>8. Size(Refitted[i]) = Refitted[i].last - Refitted[i].first + 1
  BY DEF Size
<1> HIDE DEF e, s, f, z, b, u
<1>9. /\ f \in 0 .. CoreNum - 1 /\ f + z - 1 \in 0 .. CoreNum - 1
      /\ f + z - 1 < b + SocketCores /\ Size(Refitted[i]) = z
  BY <1>4, <1>7, <1>8, SMTT(60)
<1>10. f \in Cores /\ f + z - 1 \in Cores /\ f + z - 1 \in Int
  BY <1>9 DEF Cores
<1>11. Refitted[i] \in Entry
  BY <1>5, <1>10 DEF Entry, z
<1> QED
  BY <1>5, <1>7, <1>9, <1>10, <1>11 DEF e, s, f, z, b, u

\* The fit keeps which tasks there are and the sizes of their clusters.
LEMMA RefittedSeq ==
  ASSUME Fitted
  PROVE  /\ Refitted \in Seq(Entry) /\ Len(Refitted) = Len(out) /\ DOMAIN Refitted = 1 .. Len(out)
         /\ DOMAIN out = 1 .. Len(out) /\ Len(out) \in Nat
         /\ \A i \in 1 .. Len(out) : \E j \in 1 .. Len(out) :
              Refitted[i].id = out[j].id /\ Size(Refitted[i]) = Size(out[j])
         /\ \A j \in 1 .. Len(out) : \E i \in 1 .. Len(out) : Refitted[i].id = out[j].id
         /\ DistinctIds(out) => DistinctIds(Refitted)
<1> DEFINE N == Len(out)
<1>1. /\ N \in Nat /\ DOMAIN out = 1 .. N /\ Reorders(BySize, out) /\ out \in Seq(Entry)
  BY SizesOrdered DEF Fitted
<1>2. DOMAIN Refitted = 1 .. N /\ Refitted = [i \in 1 .. N |-> Refitted[i]]
  BY <1>1 DEF Refitted
<1>3. \A i \in 1 .. N : /\ Refitted[i] \in Entry /\ Refitted[i].id = BySize[i].id
                        /\ Size(Refitted[i]) = Size(BySize[i])
  BY RefittedAt
<1>4. Refitted \in [1 .. N -> Entry]
  BY <1>2, <1>3
<1>5. Refitted \in Seq(Entry) /\ Len(Refitted) = N
  BY <1>1, <1>4, FunctionIsSeq
<1>6. /\ \A k \in 1 .. N : \E i \in 1 .. N : BySize[k] = out[i]
      /\ \A i \in 1 .. N : \E k \in 1 .. N : BySize[k] = out[i]
  <2>1. PICK p \in Reorderings(N) : BySize = [k \in 1 .. N |-> out[p[k]]]
    BY <1>1 DEF Reorders
  <2>2. p \in [1 .. N -> 1 .. N] /\ \A i \in 1 .. N : \E k \in 1 .. N : p[k] = i
    BY DEF Reorderings
  <2>3. \A k \in 1 .. N : p[k] \in 1 .. N /\ BySize[k] = out[p[k]]
    BY <2>1, <2>2
  <2>4. \A k \in 1 .. N : \E i \in 1 .. N : BySize[k] = out[i]
    <3> TAKE k \in 1 .. N
    <3>1. p[k] \in 1 .. N /\ BySize[k] = out[p[k]]
      BY <2>3
    <3> QED
      BY <3>1
  <2>5. \A i \in 1 .. N : \E k \in 1 .. N : BySize[k] = out[i]
    <3> TAKE i \in 1 .. N
    <3>1. PICK k \in 1 .. N : p[k] = i
      BY <2>2
    <3>2. BySize[k] = out[i]
      BY <2>3, <3>1
    <3> QED
      BY <3>2
  <2> QED
    BY <2>4, <2>5
<1>7. DistinctIds(out) => DistinctIds(Refitted)
  <2> HAVE DistinctIds(out)
  <2>1. PICK p \in Reorderings(N) : BySize = [k \in 1 .. N |-> out[p[k]]]
    BY <1>1 DEF Reorders
  <2>2. p \in [1 .. N -> 1 .. N] /\ \A k, l \in 1 .. N : p[k] = p[l] => k = l
    BY DEF Reorderings
  <2>3. \A k \in 1 .. N : Refitted[k].id = out[p[k]].id /\ p[k] \in 1 .. N
    BY <1>3, <2>1, <2>2
  <2>4. \A k, l \in 1 .. N : Refitted[k].id = Refitted[l].id => k = l
    BY <1>1, <2>2, <2>3, SMTT(60) DEF DistinctIds
  <2> QED
    BY <1>2, <2>4 DEF DistinctIds
<1>8. \A j \in 1 .. N : \E i \in 1 .. N : Refitted[i].id = out[j].id
  BY <1>3, <1>6, ZenonT(60)
<1>9. \A i \in 1 .. N : \E j \in 1 .. N : Refitted[i].id = out[j].id /\ Size(Refitted[i]) = Size(out[j])
  <2> TAKE i \in 1 .. N
  <2>1. PICK j \in 1 .. N : BySize[i] = out[j]
    BY <1>6
  <2> QED
    BY <1>3, <2>1
<1> QED
  BY <1>1, <1>2, <1>5, <1>7, <1>8, <1>9

\* After the fit no two clusters share a core (lib_cluster.py:628-637).
LEMMA RefittedApart ==
  ASSUME Fitted, NEW i \in 1 .. Len(out), NEW j \in 1 .. Len(out), i # j
  PROVE  Apart(Refitted[i], Refitted[j])
<1>1. SUFFICES ASSUME NEW x \in 1 .. Len(out), NEW y \in 1 .. Len(out), x < y
               PROVE  Apart(Refitted[x], Refitted[y]) /\ Apart(Refitted[y], Refitted[x])
  <2>1. i < j \/ j < i
    OBVIOUS
  <2> QED
    BY <1>1, <2>1
<1> DEFINE s == InSocket(x)
           t == InSocket(y)
           C == SocketCores
<1>2. /\ s \in 0 .. 2 /\ t \in 0 .. 2 /\ C \in Nat \ {0}
      /\ x - 1 \in 0 .. Len(out) /\ y - 1 \in 0 .. Len(out) /\ x \in 0 .. Len(out) /\ x <= y - 1
  BY <1>1, SocketHasRoom, Constants
<1>3. /\ Used[x - 1][s] \in Nat /\ Used[x][s] \in Nat /\ Used[y - 1][s] \in Nat /\ Used[y - 1][t] \in Nat
      /\ Used[x][s] = Used[x - 1][s] + Size(BySize[x])
      /\ Used[x][s] <= Used[y - 1][s]
  <2>1. Used[x][s] <= Used[y - 1][s]
    BY <1>2, UsedGrows
  <2> QED
    BY <1>2, <2>1, UsedGrows
<1>4. /\ Refitted[x].first = s * C + Used[x - 1][s] /\ Refitted[x].last = Refitted[x].first + Size(BySize[x]) - 1
      /\ Refitted[x].last < s * C + C
      /\ Refitted[y].first = t * C + Used[y - 1][t]
      /\ Refitted[y].last < t * C + C
      /\ Refitted[x].first \in Cores /\ Refitted[x].last \in Cores /\ Refitted[y].first \in Cores
      /\ Refitted[y].last \in Cores
  BY RefittedAt
<1>5. Size(BySize[x]) \in Nat
  BY SizesOrdered DEF Fitted
<1>6. Cores \subseteq Nat
  BY DEF Cores
<1> HIDE DEF s, t, C
<1>7. CASE s = t
  <2> DEFINE b == s * C
  <2>1. b \in Nat
    BY <1>2
  <2>2. Refitted[x].last = b + Used[x - 1][s] + Size(BySize[x]) - 1 /\ Refitted[y].first = b + Used[y - 1][s]
    BY <1>3, <1>4, <1>7
  <2> DEFINE p == Used[x - 1][s]
             r == Used[y - 1][s]
             q == Used[x][s]
             z == Size(BySize[x])
  <2>4. /\ p \in Nat /\ q \in Nat /\ r \in Nat /\ z \in Nat /\ q = p + z /\ q <= r
        /\ Refitted[x].last = b + p + z - 1 /\ Refitted[y].first = b + r
    BY <1>3, <1>5, <2>2
  <2> HIDE DEF b, p, q, r, z
  <2>3. Refitted[x].last < Refitted[y].first
    BY <2>1, <2>4
  <2> QED
    BY <2>3 DEF Apart
<1>8. CASE s < t
  <2>1. s * C + C <= t * C
    BY <1>2, <1>8
  <2>2. s * C \in Nat /\ t * C \in Nat
    BY <1>2
  <2>3. Refitted[x].last < Refitted[y].first
    <3> DEFINE b == s * C
               d == t * C
               u == Used[y - 1][t]
               l == Refitted[x].last
    <3>1. /\ b \in Nat /\ d \in Nat /\ b + C <= d /\ l < b + C /\ l \in Nat
          /\ Refitted[y].first = d + u /\ u \in Nat /\ C \in Nat
      BY <1>2, <1>3, <1>4, <1>6, <2>1, <2>2
    <3> HIDE DEF b, d, u, l
    <3>2. l < d + u
      BY <3>1
    <3> QED
      BY <3>1, <3>2 DEF l
  <2> QED
    BY <2>3 DEF Apart
<1>9. CASE t < s
  <2>1. t * C + C <= s * C
    BY <1>2, <1>9
  <2>2. s * C \in Nat /\ t * C \in Nat
    BY <1>2
  <2>3. Refitted[y].last < Refitted[x].first
    <3> DEFINE b == t * C
               d == s * C
               u == Used[x - 1][s]
               l == Refitted[y].last
    <3>1. /\ b \in Nat /\ d \in Nat /\ b + C <= d /\ l < b + C /\ l \in Nat
          /\ Refitted[x].first = d + u /\ u \in Nat /\ C \in Nat
      BY <1>2, <1>3, <1>4, <1>6, <2>1, <2>2
    <3> HIDE DEF b, d, u, l
    <3>2. l < d + u
      BY <3>1
    <3> QED
      BY <3>1, <3>2 DEF l
  <2> QED
    BY <2>3 DEF Apart
<1>10. s = t \/ s < t \/ t < s
  BY <1>2
<1> QED
  BY <1>7, <1>8, <1>9, <1>10

\* The cores from first on, below limit, each once.
LEMMA FromSeq ==
  ASSUME NEW first \in Nat, NEW limit \in Nat, first <= limit, limit <= CoreNum
  PROVE  /\ From(first, limit) \in Seq(Cores) /\ Len(From(first, limit)) = limit - first
         /\ Distinct(From(first, limit))
         /\ \A c : c \in ToSet(From(first, limit)) <=> c \in Nat /\ first <= c /\ c < limit
<1>1. first .. limit - 1 \subseteq Cores
  BY Constants DEF Cores
<1> QED
  BY <1>1, RangeSeq

-------------------------------------------------------------------------------
(* What the fit leaves at the end of each socket. *)

End(s) == s * SocketCores + Used[Len(out)][s]

FreeCores ==
  From(End(0), SocketCores) \o From(End(1), 2 * SocketCores) \o From(End(2), 3 * SocketCores)

\* The cores left at the ends of the sockets are different, and as many as are not used.
LEMMA FreeIsSeq ==
  ASSUME Fitted
  PROVE  /\ FreeCores \in Seq(Cores) /\ Distinct(FreeCores)
         /\ Len(FreeCores) = CoreNum - Used[Len(out)][0] - Used[Len(out)][1] - Used[Len(out)][2]
         /\ \A c : c \in ToSet(FreeCores) <=>
              c \in Nat /\ \E s \in 0 .. 2 : End(s) <= c /\ c < s * SocketCores + SocketCores
<1> DEFINE C == SocketCores
           x == Used[Len(out)][0]
           y == Used[Len(out)][1]
           z == Used[Len(out)][2]
<1>1. Len(out) \in 0 .. Len(out)
  BY SizesOrdered DEF Fitted
<1>2. x \in Nat /\ x <= C /\ y \in Nat /\ y <= C /\ z \in Nat /\ z <= C
  BY <1>1, UsedGrows
<1>3. C \in Nat /\ CoreNum = 3 * C
  BY Constants DEF Fitted
<1>4. End(0) = x /\ End(1) = C + y /\ End(2) = 2 * C + z
  BY <1>2, <1>3 DEF End
<1>5. 0 .. 3 * C - 1 \subseteq Cores
  BY <1>3 DEF Cores
<1> HIDE DEF C, x, y, z
<1>6. /\ End(0) \in Nat /\ End(1) \in Nat /\ End(2) \in Nat
      /\ End(0) <= C /\ C <= End(1) /\ End(1) <= 2 * C /\ 2 * C <= End(2) /\ End(2) <= 3 * C
  BY <1>2, <1>3, <1>4
<1> DEFINE e == End(0)
           f == End(1)
           g == End(2)
           s == From(e, C) \o From(f, 2 * C) \o From(g, 3 * C)
<1>7. /\ s \in Seq(Cores) /\ Distinct(s)
      /\ Len(s) = (C - e) + (2 * C - f) + (3 * C - g)
      /\ \A c : c \in ToSet(s) <=>
           c \in Nat /\ ((e <= c /\ c < C) \/ (f <= c /\ c < 2 * C) \/ (g <= c /\ c < 3 * C))
  <2>1. e \in Nat /\ f \in Nat /\ g \in Nat /\ e <= C /\ C <= f /\ f <= 2 * C /\ 2 * C <= g /\ g <= 3 * C
    BY <1>6
  <2> HIDE DEF e, f, g
  <2> QED
    BY <1>3, <1>5, <2>1, ThreeRanges
<1>8. FreeCores = s
  BY DEF FreeCores, C
<1> HIDE DEF s
<1>9. Len(s) = CoreNum - x - y - z
  <2>1. Len(s) = (C - x) + (2 * C - (C + y)) + (3 * C - (2 * C + z))
    BY <1>4, <1>7
  <2> QED
    BY <1>2, <1>3, <2>1
<1>10. \A c : (\E k \in 0 .. 2 : End(k) <= c /\ c < k * C + C) <=>
                \/ End(0) <= c /\ c < C
                \/ End(1) <= c /\ c < 2 * C
                \/ End(2) <= c /\ c < 3 * C
  <2>1. 0 * C + C = C /\ 1 * C + C = 2 * C /\ 2 * C + C = 3 * C
    BY <1>3
  <2>2. 0 .. 2 = {0, 1, 2}
    OBVIOUS
  <2> QED
    BY <2>1, <2>2, Zenon
<1> QED
  BY <1>7, <1>8, <1>9, <1>10 DEF C, x, y, z

\* None of them is in a cluster.
LEMMA FreeIsApart ==
  ASSUME Fitted, NEW i \in 1 .. Len(out), NEW c \in ToSet(FreeCores)
  PROVE  c < Refitted[i].first \/ Refitted[i].last < c
<1> DEFINE C == SocketCores
           N == Len(out)
           t == InSocket(i)
<1>1. c \in Nat /\ \E s \in 0 .. 2 : End(s) <= c /\ c < s * C + C
  BY FreeIsSeq
<1>2. PICK s \in 0 .. 2 : End(s) <= c /\ c < s * C + C
  BY <1>1
<1>3. /\ t \in 0 .. 2 /\ C \in Nat \ {0} /\ i - 1 \in 0 .. N /\ i \in 0 .. N /\ N \in 0 .. N /\ i <= N
  <2>1. N \in Nat
    BY SizesOrdered DEF Fitted
  <2> QED
    BY <2>1, SocketHasRoom, Constants
<1>4. /\ Used[i - 1][t] \in Nat /\ Used[i][t] \in Nat /\ Used[N][t] \in Nat /\ Used[N][s] \in Nat
      /\ Used[i][t] = Used[i - 1][t] + Size(BySize[i])
      /\ Used[i][t] <= Used[N][t]
  <2>1. Used[i][t] <= Used[N][t]
    BY <1>3, UsedGrows
  <2> QED
    BY <1>3, <2>1, UsedGrows
<1>5. /\ Refitted[i].first = t * C + Used[i - 1][t] /\ Refitted[i].last = Refitted[i].first + Size(BySize[i]) - 1
      /\ Refitted[i].last < t * C + C
      /\ Refitted[i].first \in Cores /\ Refitted[i].last \in Cores
  BY RefittedAt
<1>6. Size(BySize[i]) \in Nat
  BY SizesOrdered DEF Fitted
<1>7. Refitted[i].first \in Nat /\ Refitted[i].last \in Nat
  BY <1>5 DEF Cores
<1>8. End(s) = s * C + Used[N][s]
  BY DEF End
<1> HIDE DEF t, C, N
<1> DEFINE p == Used[i - 1][t]
           q == Used[i][t]
           r == Used[N][t]
           v == Used[N][s]
           z == Size(BySize[i])
           b == t * C
           d == s * C
           f == Refitted[i].first
           l == Refitted[i].last
<1>9. /\ b \in Nat /\ d \in Nat
      /\ (s = t => b = d) /\ (s < t => d + C <= b) /\ (t < s => b + C <= d)
  BY <1>2, <1>3
<1>10. /\ p \in Nat /\ q \in Nat /\ r \in Nat /\ v \in Nat /\ z \in Nat /\ f \in Nat /\ l \in Nat
       /\ q = p + z /\ q <= r /\ f = b + p /\ l = f + z - 1 /\ l < b + C
       /\ d + v <= c /\ c < d + C /\ C \in Nat /\ c \in Nat /\ (s = t => r = v)
  BY <1>1, <1>2, <1>3, <1>4, <1>5, <1>6, <1>7, <1>8
<1> HIDE DEF p, q, r, v, z, b, d, f, l
<1>11. c < f \/ l < c
  <2>1. s = t \/ s < t \/ t < s
    BY <1>2, <1>3
  <2> QED
    BY <1>9, <1>10, <2>1
<1> QED
  BY <1>11 DEF f, l

\* The fit gives each cluster as many cores as it had.
LEMMA UsedIsSum ==
  ASSUME Fitted
  PROVE  Used[Len(out)][0] + Used[Len(out)][1] + Used[Len(out)][2]
           = SumFunction([i \in DOMAIN out |-> Size(out[i])])
<1> DEFINE N == Len(out)
           v == [x \in Entry |-> Size(x)]
           g == [i \in 1 .. N |-> Size(BySize[i])]
           T == [n \in 0 .. N |-> Used[n][0] + Used[n][1] + Used[n][2]]
<1>1. /\ N \in Nat /\ DOMAIN out = 1 .. N /\ Reorders(BySize, out)
      /\ \A i \in 1 .. N : Size(BySize[i]) \in Nat /\ Size(out[i]) \in Nat /\ BySize[i] \in Entry
      /\ out \in Seq(Entry) /\ \A i \in 1 .. N : out[i] \in Entry
  BY SizesOrdered, SeqIsFunction DEF Fitted
<1>2. Used[0] = [s \in 0 .. 2 |-> 0]
  BY <1>1, UsedRecursion
<1>3. \A n \in 0 .. N : Used[n][0] \in Nat /\ Used[n][1] \in Nat /\ Used[n][2] \in Nat
  BY UsedGrows
<1>4. ASSUME NEW n \in 1 .. N PROVE T[n] = T[n - 1] + g[n]
  <2>1. n \in 0 .. N /\ n - 1 \in 0 .. N /\ InSocket(n) \in 0 .. 2 /\ Size(BySize[n]) \in Nat
    BY <1>1, SocketHasRoom
  <2> DEFINE z == Size(BySize[n])
             k == InSocket(n)
             x(s) == Used[n - 1][s]
             y(s) == Used[n][s]
  <2>2. \A s \in 0 .. 2 : y(s) = x(s) + (IF s = k THEN z ELSE 0) /\ x(s) \in Nat
    BY <1>3, <2>1, UsedGrows
  <2>3. T[n] = y(0) + y(1) + y(2) /\ T[n - 1] = x(0) + x(1) + x(2) /\ g[n] = z
    BY <2>1
  <2> HIDE DEF z, k, x, y, T, g
  <2>4. y(0) + y(1) + y(2) = x(0) + x(1) + x(2) + z
    <3>1. 0 \in 0 .. 2 /\ 1 \in 0 .. 2 /\ 2 \in 0 .. 2
      OBVIOUS
    <3>2. (k = 0 \/ k = 1 \/ k = 2) /\ z \in Nat
      BY <2>1 DEF k, z
    <3> QED
      BY ONLY <2>2, <3>1, <3>2
  <2> QED
    BY <2>3, <2>4
<1>5. T \in [0 .. N -> Nat] /\ T[0] = 0 /\ g \in [1 .. N -> Nat]
  <2>1. \A n \in 0 .. N : T[n] \in Nat
    <3> TAKE n \in 0 .. N
    <3>1. Used[n][0] \in Nat /\ Used[n][1] \in Nat /\ Used[n][2] \in Nat
      BY <1>3
    <3>2. \A a, b, c \in Nat : a + b + c \in Nat
      OBVIOUS
    <3>3. Used[n][0] + Used[n][1] + Used[n][2] \in Nat
      BY <3>1, <3>2
    <3> QED
      BY <3>3
  <2>2. T[0] = 0
    BY <1>1, <1>2
  <2> QED
    BY <1>1, <2>1, <2>2
<1>6. T[N] = SumFunction(g)
  <2> HIDE DEF T, g, N
  <2>1. Sums(N, g, T)
    BY <1>4, <1>5 DEF Sums
  <2> QED
    BY <1>1, <1>5, <2>1, SumsAreSum
<1>7. /\ g = [i \in 1 .. N |-> v[BySize[i]]]
      /\ [i \in DOMAIN out |-> Size(out[i])] = [i \in 1 .. N |-> v[out[i]]]
  BY <1>1
<1>8. SumFunction([i \in 1 .. N |-> v[BySize[i]]]) = SumFunction([i \in 1 .. N |-> v[out[i]]])
  <2>1. \A i \in 1 .. N : v[out[i]] \in Int
    BY <1>1
  <2> HIDE DEF v
  <2> QED
    BY <1>1, <2>1, SumReordered
<1>9. T[N] = Used[N][0] + Used[N][1] + Used[N][2]
  BY <1>1
<1> QED
  BY <1>6, <1>7, <1>8, <1>9

-------------------------------------------------------------------------------
(* The placement of high tasks. *)

\* A high task gets as many cores as its work beside the critical path needs, and two if it has
\* such work (lib_cluster.py:500-505).
LEMMA NumCoreEnough ==
  ASSUME TaskInv, Called, NEW id \in Ids
  PROVE  /\ NumCore(tasks[id]) \in Nat
         /\ tasks[id].period - tasks[id].span \in Nat \ {0} /\ tasks[id].work - tasks[id].span \in Nat
         /\ Spare(tasks[id], NumCore(tasks[id])) \in Nat
         /\ (option = 6 => NumCore(tasks[id]) >= 1)
         /\ (tasks[id].work > tasks[id].span => NumCore(tasks[id]) >= 2)
<1> DEFINE a == tasks[id].work - tasks[id].span
           d == tasks[id].period - tasks[id].span
           c == CeilDiv(a, d)
           n == Cluster(tasks[id])
<1>1. a \in Nat /\ d \in Nat \ {0} /\ (tasks[id].work > tasks[id].span => a > 0)
  <2>1. /\ tasks[id].period \in Nat \ {0} /\ tasks[id].work \in Nat /\ tasks[id].span \in Nat
        /\ tasks[id].span <= tasks[id].work /\ tasks[id].span < tasks[id].period
    BY TaskTypes
  <2> QED
    BY <2>1
<1>2. n = IF c = 1 THEN 2 ELSE c
  BY DEF Cluster
<1>3. NumCore(tasks[id]) = IF option = 6 /\ 50 * (n * d - a) <= (4 + n) * d THEN n + 1 ELSE n
  BY DEF NumCore, Spare
<1>4. Spare(tasks[id], NumCore(tasks[id])) = NumCore(tasks[id]) * d - a
  BY DEF Spare
<1>a. tasks[id].work > tasks[id].span => a > 0
  BY <1>1
<1> HIDE DEF n, c
<1>5. c \in Nat /\ c * d >= a /\ (a = 0 => c = 0) /\ (a > 0 => c >= 1)
  BY <1>1, CeilDivBounds DEF c
<1> HIDE DEF a, d
<1>6. n \in Nat /\ n * d >= a /\ (a > 0 => n >= 2) /\ (a = 0 => n = 0) /\ (n + 1) * d >= a
  <2>1. c = 1 => 2 * d >= a
    BY <1>1, <1>5
  <2>2. n \in Nat /\ n * d >= a /\ (a > 0 => n >= 2) /\ (a = 0 => n = 0)
    BY <1>1, <1>2, <1>5, <2>1
  <2>3. (n + 1) * d = n * d + d /\ n * d \in Nat
    BY <1>1, <2>2
  <2> QED
    BY <1>1, <2>2, <2>3
<1>7. NumCore(tasks[id]) \in Nat /\ NumCore(tasks[id]) * d >= a
  BY <1>3, <1>6
<1>8. Spare(tasks[id], NumCore(tasks[id])) \in Nat
  <2>1. NumCore(tasks[id]) * d \in Nat
    BY <1>1, <1>7
  <2> QED
    BY <1>1, <1>4, <1>7, <2>1
<1>9. a > 0 => NumCore(tasks[id]) >= 2
  BY <1>3, <1>6
<1>10. option = 6 => NumCore(tasks[id]) >= 1
  <2>1. CASE a > 0
    BY <1>9, <2>1, <1>7
  <2>2. CASE a = 0
    <3>1. n = 0 /\ 0 * d = 0 /\ (4 + 0) * d = 4 * d /\ 4 * d >= 0
      BY <1>1, <1>6, <2>2
    <3>2. option = 6 => NumCore(tasks[id]) = 1
      BY <1>3, <2>2, <3>1
    <3> QED
      BY <3>2
  <2> QED
    BY <1>1, <2>1, <2>2
<1> QED
  BY <1>1, <1>7, <1>8, <1>9, <1>10, <1>a DEF a, d

\* One more cluster.
LEMMA SizesAppend ==
  ASSUME NEW o \in Seq(Entry), NEW e \in Entry
  PROVE  /\ SumFunction([i \in DOMAIN Append(o, e) |-> Size(Append(o, e)[i])])
              = SumFunction([i \in DOMAIN o |-> Size(o[i])]) + Size(e)
         /\ SumFunction([i \in DOMAIN o |-> Size(o[i])]) \in Int /\ Size(e) \in Int
<1> DEFINE n == Len(o)
           f == [i \in 1 .. n |-> Size(o[i])]
           t == Append(o, e)
           g == [i \in 1 .. n + 1 |-> Size(t[i])]
<1>0. \A x \in Entry : Size(x) \in Int
  BY Constants DEF Entry, Cores, Size
<1>1. /\ n \in Nat /\ DOMAIN o = 1 .. n /\ DOMAIN t = 1 .. n + 1
      /\ (\A i \in 1 .. n : t[i] = o[i]) /\ t[n + 1] = e
  BY AppendSeq
<1>2. \A i \in 1 .. n : o[i] \in Entry
  BY SeqIsFunction
<1>3. \A i \in 1 .. n + 1 : i \in 1 .. n \/ i = n + 1
  BY <1>1
<1> HIDE DEF t
<1>4. /\ f \in [1 .. n -> Int] /\ g \in [1 .. n + 1 -> Int] /\ (\A i \in 1 .. n : g[i] = f[i])
      /\ g[n + 1] = Size(e)
  <2>1. \A i \in 1 .. n : Size(o[i]) \in Int
    BY <1>0, <1>2
  <2>2. \A i \in 1 .. n + 1 : Size(t[i]) \in Int
    BY <1>0, <1>1, <1>3, <2>1
  <2>3. n + 1 \in 1 .. n + 1 /\ \A i \in 1 .. n : i \in 1 .. n + 1
    BY <1>1
  <2> QED
    BY <1>1, <2>1, <2>2, <2>3
<1>5. f = [i \in DOMAIN o |-> Size(o[i])] /\ g = [i \in DOMAIN t |-> Size(t[i])]
  BY <1>1
<1> HIDE DEF f, g, n
<1>6. SumFunction(g) = SumFunction(f) + g[n + 1]
  BY <1>1, <1>4, SumAppend
<1>7. SumFunction(f) \in Int
  <2>1. IsFiniteSet(1 .. n)
    BY <1>1, FS_Interval
  <2> QED
    BY <1>4, <2>1, FunSumInt
<1> QED
  BY <1>0, <1>4, <1>5, <1>6, <1>7 DEF t

\* The next high task gets the next cores.
LEMMA PlaceHighStep ==
  ASSUME TaskInv, TypeInv, PhaseInv, HighClusters, LendInv, OwnInv, FloorInv, PlaceHigh
  PROVE  /\ TypeInv' /\ PhaseInv' /\ StatInv'
         /\ HighClusters' /\ LendInv' /\ OwnInv' /\ LowInv' /\ FloorInv'
<1> DEFINE N == Len(out)
           id == info[N + 1]
           n == NumCore(tasks[id])
           e == [id |-> id, prio |-> 97, first |-> parted, last |-> parted + n - 1]
           lends == Spare(tasks[id], n) > 0 /\ n > 2
           p == [core |-> parted + n - 1, index |-> N + 1, num |-> Spare(tasks[id], n),
                 den |-> tasks[id].period - tasks[id].span]
<1>1. /\ phase = "high" /\ N < Len(info) /\ IsHigh(id) /\ parted < CoreNum /\ parted + n <= CoreNum
      /\ phase' = phase /\ tasks' = tasks /\ option' = option /\ info' = info
      /\ stat' = stat /\ fit' = fit /\ lowcore' = lowcore /\ low' = low /\ cur' = cur
      /\ moved' = moved /\ sched' = sched
      /\ parted' = parted + n /\ out' = Append(out, e)
      /\ possible' = IF lends THEN Append(possible, p) ELSE possible
  BY Zenon DEF PlaceHigh, NextIsHigh, input, lows
<1>2. HighPhase /\ HighPhase
  BY <1>1 DEF PhaseInv
<1>3. /\ CoreNum \in Nat \ {0} /\ parted \in 0 .. CoreNum /\ out \in Seq(Entry) /\ info \in Seq(Ids)
      /\ possible \in Seq(Lent)
  BY Constants DEF TypeInv
<1>4. /\ N \in Nat /\ DOMAIN out = 1 .. N /\ Len(info) \in Nat /\ id \in Ids /\ id \in Nat
      /\ \A i \in 1 .. N : out[i] \in Entry
  <2>1. N \in Nat /\ DOMAIN out = 1 .. N /\ (\A i \in 1 .. N : out[i] \in Entry) /\ Len(info) \in Nat
    BY <1>3, SeqIsFunction
  <2>2. N + 1 \in 1 .. Len(info)
    BY <1>1, <2>1
  <2>3. id \in Ids /\ Ids \subseteq Nat
    BY <1>3, <2>2, SeqIsFunction, IdsAreNumbers DEF TaskInv
  <2> QED
    BY <2>1, <2>3
<1>5. /\ n \in Nat /\ tasks[id].period - tasks[id].span \in Nat \ {0} /\ tasks[id].work - tasks[id].span \in Nat
      /\ Spare(tasks[id], n) \in Nat /\ (option = 6 => n >= 1)
      /\ (tasks[id].work > tasks[id].span => n >= 2)
  BY <1>1, <1>4, NumCoreEnough DEF Called
<1>6. e \in Entry /\ Size(e) = n /\ e.id = id /\ e.first = parted /\ e.last = parted + n - 1
  <2> HIDE DEF n, id, N
  <2>1. parted \in Cores /\ parted + n - 1 \in Int /\ (parted + n - 1) - parted + 1 = n
    BY <1>1, <1>3, <1>5, SMTT(60) DEF Cores
  <2>2. e \in Entry /\ e.id = id /\ e.first = parted /\ e.last = parted + n - 1
    BY <1>4, <2>1 DEF Entry
  <2> QED
    BY <2>1, <2>2 DEF Size
<1>7. lends => p \in Lent
  <2> HIDE DEF n, id, N
  <2>1. lends => parted + n - 1 \in Cores
    BY <1>1, <1>3, <1>5 DEF Cores
  <2> QED
    BY <1>4, <1>5, <2>1 DEF Lent
<1>8. /\ out' \in Seq(Entry) /\ Len(out') = N + 1 /\ DOMAIN out' = 1 .. N + 1
      /\ (\A i \in 1 .. N : out'[i] = out[i]) /\ out'[N + 1] = e
  <2> HIDE DEF e
  <2> QED
    BY <1>1, <1>3, <1>6, AppendSeq
<1>9. possible' \in Seq(Lent)
  <2> HIDE DEF p, lends
  <2> QED
    BY <1>1, <1>3, <1>7, AppendSeq
<1>a. /\ Ids' = Ids /\ (\A x : IsHigh(x)' = IsHigh(x)) /\ \A i \in DOMAIN out' : i \in 1 .. N \/ i = N + 1
  BY <1>1, <1>4, <1>8, SameTasks
<1>b. parted \in Int /\ parted + n \in Int
  BY <1>3, <1>5
<1>c. Parallel' = Parallel /\ (\A x, k : Tight(x, k)' = Tight(x, k)) /\ (\A x : Floor(x)' = Floor(x))
  BY <1>1 DEF Parallel, Tight, Floor
<1>d. fit = "none" /\ fit' = "none" /\ sched' = 0
  BY <1>1, <1>2 DEF HighPhase
<1> HIDE DEF N, id, n, e, lends, p
<1>10. TypeInv'
  <2>1. \A i \in DOMAIN out' : out'[i].id \in Ids
    BY <1>4, <1>6, <1>8, <1>a DEF TypeInv
  <2>2. parted' \in 0 .. CoreNum
    BY <1>1, <1>3, <1>5, SMTT(60)
  <2> QED
    BY <1>1, <1>8, <1>9, <1>a, <2>1, <2>2 DEF TypeInv
<1>11. PhaseInv'
  <2>1. Len(out') <= Len(info)
    BY <1>1, <1>4, <1>8
  <2>2. \A i \in DOMAIN out' : out'[i].id = info[i] /\ IsHigh(out'[i].id)
    <3> TAKE i \in DOMAIN out'
    <3>1. CASE i \in 1 .. N
      BY <1>2, <1>4, <1>8, <3>1 DEF HighPhase
    <3>2. CASE i = N + 1
      BY <1>1, <1>6, <1>8, <3>2 DEF id
    <3> QED
      BY <1>a, <3>1, <3>2
  <2>3. HighPhase'
    BY <1>1, <1>2, <1>a, <2>1, <2>2 DEF HighPhase
  <2> QED
    BY <1>1, <2>3 DEF PhaseInv
<1>12. HighClusters'
  <2>1. parted = SumFunction([i \in DOMAIN out |-> Size(out[i])])
    BY <1>1 DEF HighClusters
  <2>2. parted' = SumFunction([i \in DOMAIN out' |-> Size(out'[i])])
    <3>1. SumFunction([i \in DOMAIN Append(out, e) |-> Size(Append(out, e)[i])])
            = SumFunction([i \in DOMAIN out |-> Size(out[i])]) + Size(e)
      BY <1>3, <1>6, SizesAppend
    <3> QED
      BY <1>1, <1>6, <2>1, <3>1
  <2>3. \A i \in DOMAIN out' : /\ out'[i].last < parted' /\ out'[i].last >= out'[i].first - 1
                               /\ option = 6 => Size(out'[i]) >= 1
    <3> TAKE i \in DOMAIN out'
    <3>1. CASE i \in 1 .. N
      <4>1. /\ out[i].last < parted /\ out[i].last >= out[i].first - 1
            /\ option = 6 => Size(out[i]) >= 1
        BY <1>1, <1>4, <3>1 DEF HighClusters
      <4>2. out[i].last \in Int
        BY <1>4, <3>1 DEF Entry
      <4> QED
        BY <1>1, <1>5, <1>8, <1>b, <3>1, <4>1, <4>2
    <3>2. CASE i = N + 1
      BY <1>1, <1>5, <1>6, <1>8, <1>b, <3>2
    <3> QED
      BY <1>a, <3>1, <3>2
  <2> QED
    BY <1>1, <2>2, <2>3 DEF HighClusters, Size
<1>13. OwnInv'
  <2>1. \A i, j \in DOMAIN out' : i # j => Apart(out'[i], out'[j])
    <3> TAKE i, j \in DOMAIN out'
    <3> HAVE i # j
    <3>1. CASE i \in 1 .. N /\ j \in 1 .. N
      <4>1. IsHigh(out[i].id) /\ Apart(out[i], out[j])
        BY <1>2, <1>4, <1>d, <3>1 DEF HighPhase, OwnInv
      <4> QED
        BY <1>8, <3>1, <4>1
    <3>2. \A k \in 1 .. N : out'[k].last < e.first
      BY <1>1, <1>4, <1>6, <1>8 DEF HighClusters
    <3> QED
      BY <1>8, <1>a, <3>1, <3>2 DEF Apart
  <2> QED
    BY <1>1, <2>1 DEF OwnInv, Apart
<1>14. LendInv'
  <2> DEFINE Good(o, q, qs, k) ==
         /\ q.index \in DOMAIN o
         /\ IsHigh(o[q.index].id)
         /\ o[q.index].last = q.core /\ o[q.index].first <= q.core
         /\ \A l \in DOMAIN qs : qs[l].index = q.index => l = k
         /\ Size(o[q.index]) >= 3 /\ Tight(o[q.index], Size(o[q.index]))
  <2>1. \A k \in DOMAIN possible : Good(out, possible[k], possible, k)
    BY <1>1, <1>d DEF LendInv
  <2>2. \A k \in DOMAIN possible : possible[k].index \in 1 .. N /\ out'[possible[k].index] = out[possible[k].index]
    BY <1>4, <1>8, <2>1
  <2>3. \A k \in DOMAIN possible : Good(out', possible[k], possible, k)
    <3> TAKE k \in DOMAIN possible
    <3>1. possible[k].index \in DOMAIN out'
      BY <1>4, <1>8, <2>2
    <3> QED
      BY <2>1, <2>2, <3>1
  <2>4. CASE ~ lends
    <3>1. possible' = possible
      BY <1>1, <2>4
    <3>2. \A k \in DOMAIN possible' : Good(out', possible'[k], possible', k)
      BY <2>3, <3>1
    <3> QED
      BY <1>a, <1>c, <3>2 DEF LendInv, Size
  <2>5. CASE lends
    <3> DEFINE K == Len(possible)
    <3>1. p \in Lent /\ p.core = parted + n - 1 /\ p.index = N + 1 /\ n > 2 /\ Spare(tasks[id], n) > 0
      BY <1>7, <2>5 DEF lends, p
    <3>2. /\ K \in Nat /\ DOMAIN possible = 1 .. K /\ DOMAIN possible' = 1 .. K + 1
          /\ (\A k \in 1 .. K : possible'[k] = possible[k]) /\ possible'[K + 1] = p
      BY <1>1, <1>3, <2>5, <3>1, AppendSeq
    <3>3. Tight(e, n)
      BY <1>5, <1>6, <3>1 DEF Tight, Spare
    <3>4. /\ N + 1 \in DOMAIN out' /\ IsHigh(e.id) /\ e.last = p.core /\ e.first <= p.core
          /\ Size(e) >= 3 /\ Tight(e, Size(e))
      BY <1>1, <1>4, <1>5, <1>6, <1>8, <1>b, <3>1, <3>3
    <3> HIDE DEF K
    <3>5. \A k \in DOMAIN possible' : k \in 1 .. K \/ k = K + 1
      BY <3>2
    <3>6. \A k \in DOMAIN possible' : Good(out', possible'[k], possible', k)
      <4> TAKE k \in DOMAIN possible'
      <4>1. CASE k \in 1 .. K
        <5>1. Good(out', possible[k], possible, k) /\ possible'[k] = possible[k]
          BY <2>3, <3>2, <4>1
        <5>2. possible[k].index \in 1 .. N
          BY <2>2, <3>2, <4>1
        <5>3. \A l \in DOMAIN possible' : possible'[l].index = possible[k].index => l = k
          BY <1>4, <3>1, <3>2, <3>5, <5>1, <5>2
        <5> QED
          BY <5>1, <5>3
      <4>2. CASE k = K + 1
        <5>1. \A l \in 1 .. K : possible'[l].index \in 1 .. N
          BY <2>2, <3>2
        <5>2. \A l \in DOMAIN possible' : possible'[l].index = p.index => l = k
          BY <1>4, <3>1, <3>5, <4>2, <5>1
        <5> QED
          BY <1>8, <3>1, <3>2, <3>4, <4>2, <5>2
      <4> QED
        BY <3>5, <4>1, <4>2
    <3> QED
      BY <1>a, <1>c, <3>6 DEF LendInv, Size
  <2> QED
    BY <2>4, <2>5
<1>15. FloorInv'
  <2> SUFFICES ASSUME Parallel, NEW i \in DOMAIN out', IsHigh(out'[i].id) PROVE Floor(out'[i])
    BY <1>a, <1>c DEF FloorInv, Floor, Size
  <2>1. CASE i \in 1 .. N
    BY <1>2, <1>4, <1>8, <1>d, <2>1 DEF FloorInv, HighPhase
  <2>2. CASE i = N + 1
    <3> DEFINE d == tasks[id].period - tasks[id].span
               a == tasks[id].work - tasks[id].span
    <3>1. 20 * tasks[id].util >= 18 * Hyper
      <4>1. tasks[id].util \in Nat /\ Hyper \in Nat
        BY <1>4, TaskTypes, Constants
      <4>2. 20 * tasks[id].util >= Threshold(option) * Hyper /\ Threshold(option) \in {18, 19, 20}
        BY <1>1 DEF IsHigh, Threshold
      <4>3. Threshold(option) * Hyper >= 18 * Hyper
        BY <4>1, <4>2
      <4> QED
        BY <4>1, <4>2, <4>3
    <3>2. n >= 2
      BY <1>4, <1>5, <3>1 DEF Parallel, Ids
    <3>3. n * d - a \in Nat /\ d \in Nat \ {0} /\ a \in Nat
      BY <1>5 DEF Spare
    <3> HIDE DEF d, a
    <3>4. (n + 1) * d > a
      <4>1. n * d \in Int /\ (n + 1) * d = n * d + d
        BY <1>5, <3>3
      <4> QED
        BY <3>3, <4>1
    <3> QED
      BY <1>6, <1>8, <2>2, <3>2, <3>4 DEF Floor, Tight, d, a
  <2> QED
    BY <1>a, <2>1, <2>2
<1> QED
  BY <1>1, <1>10, <1>11, <1>12, <1>13, <1>14, <1>15 DEF StatInv, LowInv

\* What each call has at its end, with the invariants that are about its course.
LEMMA NoPartitionStep ==
  ASSUME TaskInv, TypeInv, phase = "high" \/ phase = "low", NoPartition
  PROVE  /\ TypeInv' /\ PhaseInv' /\ StatInv'
         /\ HighClusters' /\ LendInv' /\ OwnInv' /\ LowInv' /\ FloorInv'
<1>1. /\ phase' = "done" /\ sched' = 2 /\ out' = <<>> /\ option' = option /\ tasks' = tasks
      /\ info' = info /\ stat' = stat /\ parted' = parted /\ possible' = possible /\ fit' = fit
      /\ lowcore' = lowcore /\ low' = low /\ cur' = cur /\ moved' = moved
  BY DEF NoPartition, input, highs, lows
<1>2. Ids' = Ids
  BY <1>1 DEF Ids
<1>3. out' \in Seq(Entry) /\ DOMAIN out' = {}
  BY <1>1
<1>4. TypeInv'
  BY <1>1, <1>2, <1>3 DEF TypeInv
<1>5. PhaseInv'
  BY <1>1 DEF PhaseInv, DonePhase
<1> QED
  BY <1>1, <1>3, <1>4, <1>5 DEF StatInv, HighClusters, LendInv, OwnInv, LowInv, FloorInv

\* The clusters of the high tasks, which are the first tasks of the list.
LEMMA HighList ==
  ASSUME TaskInv, TypeInv, HighPhase, HighClusters, phase = "high"
  PROVE  /\ Len(out) \in Nat /\ DOMAIN out = 1 .. Len(out) /\ Len(info) \in Nat /\ DOMAIN info = 1 .. Len(info)
         /\ Len(out) <= Len(info) /\ out \in Seq(Entry) /\ info \in Seq(Ids)
         /\ Distinct(info) /\ DistinctIds(out)
         /\ (\A id \in Ids : \E k \in 1 .. Len(info) : info[k] = id)
         /\ (\A i \in 1 .. Len(out) : out[i].id = info[i] /\ IsHigh(out[i].id) /\ Size(out[i]) \in Nat)
         /\ (Crossing /\ FitsSockets => Fitted)
<1> DEFINE s == [id \in Ids |-> id]
<1>1. out \in Seq(Entry) /\ info \in Seq(Ids) /\ Reorders(info, s)
  BY DEF TypeInv, HighPhase
<1>2. /\ Len(out) \in Nat /\ DOMAIN out = 1 .. Len(out) /\ Len(info) \in Nat /\ DOMAIN info = 1 .. Len(info)
      /\ \A i \in 1 .. Len(out) : out[i] \in Entry
  BY <1>1, SeqIsFunction
<1>3. Len(tasks) \in Nat /\ Ids = 1 .. Len(tasks)
  BY IdsAreNumbers DEF TaskInv
<1>4. s \in Seq(Ids) /\ Len(s) = Len(tasks) /\ DOMAIN s = Ids /\ \A id \in Ids : s[id] = id
  <2>1. s \in [1 .. Len(tasks) -> Ids] /\ DOMAIN s = Ids /\ \A id \in Ids : s[id] = id
    BY <1>3
  <2> HIDE DEF s
  <2> QED
    BY <1>3, <2>1, FunctionIsSeq
<1> HIDE DEF s
<1>5. Distinct(s)
  BY <1>4 DEF Distinct
<1>6. Distinct(info)
  BY <1>1, <1>4, <1>5, ReorderedSet
<1>7. \A id \in Ids : \E k \in 1 .. Len(info) : info[k] = id
  <2>1. Len(info) = Len(s) /\ \A i \in 1 .. Len(s) : \E k \in 1 .. Len(s) : info[k] = s[i]
    <3>1. PICK p \in Reorderings(Len(s)) : info = [k \in 1 .. Len(s) |-> s[p[k]]]
      BY <1>1 DEF Reorders
    <3>2. Len(info) = Len(s)
      BY <1>1, <1>4, ReorderedSeq
    <3>3. \A i \in 1 .. Len(s) : \E k \in 1 .. Len(s) : p[k] = i
      BY DEF Reorderings
    <3> QED
      BY <3>1, <3>2, <3>3
  <2> QED
    BY <1>3, <1>4, <2>1
<1>8. \A i \in 1 .. Len(out) : out[i].id = info[i] /\ IsHigh(out[i].id)
  BY <1>2 DEF HighPhase
<1>9. Len(out) <= Len(info)
  BY DEF HighPhase
<1>10. DistinctIds(out)
  BY <1>2, <1>6, <1>8, <1>9 DEF DistinctIds, Distinct
<1>11. \A i \in 1 .. Len(out) : Size(out[i]) \in Nat /\ (option = 6 => Size(out[i]) \in Nat \ {0})
  <2> TAKE i \in 1 .. Len(out)
  <2>1. out[i].first \in Int /\ out[i].last \in Int
    <3>1. out[i] \in Entry
      BY <1>2
    <3> QED
      BY <3>1, Constants DEF Entry, Cores
  <2>2. out[i].last >= out[i].first - 1 /\ (option = 6 => Size(out[i]) >= 1)
    BY <1>2 DEF HighClusters
  <2>3. out[i].last - out[i].first + 1 \in Nat
    BY <2>1, <2>2
  <2> QED
    BY <2>2, <2>3 DEF Size
<1>12. Crossing /\ FitsSockets => Fitted
  BY <1>1, <1>2, <1>11 DEF Crossing, Fitted
<1> QED
  BY <1>1, <1>2, <1>6, <1>7, <1>8, <1>9, <1>10, <1>11, <1>12

\* What the fit into sockets keeps: who is there, how many cores it has, and that they are its own.
LEMMA RefitKeeps ==
  ASSUME TaskInv, TypeInv, HighPhase, HighClusters, OwnInv, phase = "high",
         NEW o, o = IF Crossing /\ FitsSockets THEN Refitted ELSE out
  PROVE  /\ o \in Seq(Entry) /\ Len(o) = Len(out) /\ DOMAIN o = 1 .. Len(out) /\ DistinctIds(o)
         /\ (\A i \in 1 .. Len(out) : \E j \in 1 .. Len(out) : o[i].id = out[j].id /\ Size(o[i]) = Size(out[j]))
         /\ (\A j \in 1 .. Len(out) : \E i \in 1 .. Len(out) : o[i].id = out[j].id)
         /\ (\A i, j \in 1 .. Len(out) : i # j => Apart(o[i], o[j]))
<1>1. /\ DOMAIN out = 1 .. Len(out) /\ out \in Seq(Entry) /\ DistinctIds(out)
      /\ (\A i \in 1 .. Len(out) : IsHigh(out[i].id)) /\ (Crossing /\ FitsSockets => Fitted)
  BY HighList
<1>2. fit = "none"
  BY DEF HighPhase
<1>3. CASE Crossing /\ FitsSockets
  <2>1. Fitted /\ o = Refitted
    BY <1>1, <1>3
  <2>2. /\ Refitted \in Seq(Entry) /\ Len(Refitted) = Len(out) /\ DOMAIN Refitted = 1 .. Len(out)
        /\ \A i \in 1 .. Len(out) : \E j \in 1 .. Len(out) :
              Refitted[i].id = out[j].id /\ Size(Refitted[i]) = Size(out[j])
        /\ \A j \in 1 .. Len(out) : \E i \in 1 .. Len(out) : Refitted[i].id = out[j].id
        /\ DistinctIds(Refitted)
    BY <1>1, <2>1, RefittedSeq
  <2>3. \A i, j \in 1 .. Len(out) : i # j => Apart(Refitted[i], Refitted[j])
    BY <2>1, RefittedApart
  <2> QED
    BY <2>1, <2>2, <2>3, ZenonT(60)
<1>4. CASE ~ (Crossing /\ FitsSockets)
  <2>1. o = out
    BY <1>4
  <2>2. \A i, j \in 1 .. Len(out) : i # j => Apart(out[i], out[j])
    BY <1>1, <1>2 DEF OwnInv
  <2> QED
    BY <1>1, <2>1, <2>2
<1> QED
  BY <1>3, <1>4

\* If all tasks are high their clusters are a complete partition.
LEMMA AllHighStep ==
  ASSUME TaskInv, TypeInv, PhaseInv, HighClusters, OwnInv, FloorInv, AllHigh
  PROVE  /\ TypeInv' /\ PhaseInv' /\ StatInv'
         /\ HighClusters' /\ LendInv' /\ OwnInv' /\ LowInv' /\ FloorInv'
<1> DEFINE N == Len(out)
<1>1. /\ phase = "high" /\ N = Len(info) /\ phase' = "done" /\ sched' = 0
      /\ out' = (IF Crossing /\ FitsSockets THEN Refitted ELSE out)
      /\ option' = option /\ tasks' = tasks
      /\ info' = info /\ stat' = stat /\ parted' = parted /\ possible' = possible /\ fit' = fit
      /\ lowcore' = lowcore /\ low' = low /\ cur' = cur /\ moved' = moved
  BY DEF AllHigh, input, highs, lows
<1>2. HighPhase /\ HighPhase
  BY <1>1 DEF PhaseInv
<1>3. /\ N \in Nat /\ DOMAIN out = 1 .. N
      /\ (\A id \in Ids : \E k \in 1 .. N : info[k] = id)
      /\ (\A i \in 1 .. N : out[i].id = info[i] /\ IsHigh(out[i].id))
  BY <1>1, <1>2, HighList
<1>4. /\ out' \in Seq(Entry) /\ Len(out') = N /\ DOMAIN out' = 1 .. N /\ DistinctIds(out')
      /\ (\A i \in 1 .. N : \E j \in 1 .. N : out'[i].id = out[j].id /\ Size(out'[i]) = Size(out[j]))
      /\ (\A j \in 1 .. N : \E i \in 1 .. N : out'[i].id = out[j].id)
      /\ (\A i, j \in 1 .. N : i # j => Apart(out'[i], out'[j]))
  BY <1>1, <1>2, RefitKeeps, ZenonT(60)
<1>5. Ids' = Ids /\ (\A x : IsHigh(x)' = IsHigh(x))
  BY <1>1, SameTasks
<1> HIDE DEF N
<1>6. TypeInv'
  <2>1. \A i \in 1 .. N : out[i].id \in Ids
    BY <1>3 DEF TypeInv
  <2>2. \A i \in DOMAIN out' : out'[i].id \in Ids
    BY <1>4, <2>1
  <2> QED
    BY <1>1, <1>4, <1>5, <2>2 DEF TypeInv
<1>7. PhaseInv'
  <2>1. \A id \in Ids : \E i \in DOMAIN out' : out'[i].id = id
    <3> TAKE id \in Ids
    <3>1. PICK k \in 1 .. N : info[k] = id
      BY <1>3
    <3>2. PICK i \in 1 .. N : out'[i].id = out[k].id
      BY <1>4
    <3> QED
      BY <1>3, <1>4, <3>1, <3>2
  <2> QED
    BY <1>1, <1>4, <1>5, <2>1 DEF PhaseInv, DonePhase, Whole, DistinctIds
<1>8. OwnInv'
  BY <1>1, <1>4, ZenonT(60) DEF OwnInv, Apart
<1>9. FloorInv'
  <2> SUFFICES ASSUME Parallel, fit = "none", NEW i \in DOMAIN out' PROVE Floor(out'[i])
    <3>1. Parallel' = Parallel /\ (\A x : Floor(x)' = Floor(x))
      BY <1>1 DEF Parallel, Floor, Tight, Size
    <3> QED
      BY <1>1, <3>1 DEF FloorInv, Floor, Tight, Size
  <2>1. PICK j \in 1 .. N : out'[i].id = out[j].id /\ Size(out'[i]) = Size(out[j])
    BY <1>4
  <2>2. Floor(out[j])
    BY <1>3 DEF FloorInv
  <2> QED
    BY <2>1, <2>2 DEF Floor, Tight
<1> QED
  BY <1>1, <1>6, <1>7, <1>8, <1>9 DEF StatInv, HighClusters, LendInv, LowInv

-------------------------------------------------------------------------------
(* The low tasks: the cores they start with. *)

Rest == SortPeriod(SubSeq(info, Len(out) + 1, Len(info)))

\* The tasks that are left are low, and are all that are not placed.
LEMMA RestIsLow ==
  ASSUME TaskInv, TypeInv, HighPhase, HighClusters, LowIsNext
  PROVE  /\ Rest \in Seq(Ids) /\ Distinct(Rest)
         /\ (\A k \in DOMAIN Rest : ~ IsHigh(Rest[k]) /\ \A i \in DOMAIN out : out[i].id # Rest[k])
         /\ (\A id \in Ids : (\E i \in DOMAIN out : out[i].id = id) \/ \E k \in DOMAIN Rest : Rest[k] = id)
<1> DEFINE N == Len(out)
           L == Len(info)
           s == SubSeq(info, N + 1, L)
           M == L - N
<1>1. /\ N \in Nat /\ DOMAIN out = 1 .. N /\ L \in Nat /\ N < L /\ info \in Seq(Ids)
      /\ Distinct(info) /\ DOMAIN info = 1 .. L
      /\ (\A id \in Ids : \E k \in 1 .. L : info[k] = id)
      /\ (\A i \in 1 .. N : out[i].id = info[i])
      /\ ~ IsHigh(info[N + 1])
  BY HighList DEF LowIsNext
<1>2. \A k \in 1 .. L : info[k] \in Ids
  BY <1>1, SeqIsFunction
<1>3. M \in Nat /\ (\A k \in 1 .. M : N + k \in 1 .. L) /\ \A k \in 1 .. L : k \in 1 .. N \/ k - N \in 1 .. M
  BY <1>1
<1>4. s \in Seq(Ids) /\ Len(s) = M /\ (\A k \in 1 .. M : s[k] = info[N + k]) /\ DOMAIN s = 1 .. M
  <2>1. \A i \in N + 1 .. L : info[i] \in Ids
    BY <1>1, <1>2
  <2>2. /\ s \in Seq(Ids) /\ Len(s) = (IF N + 1 <= L THEN L - (N + 1) + 1 ELSE 0)
        /\ \A i \in 1 .. L - (N + 1) + 1 : s[i] = info[(N + 1) + i - 1]
    <3>1. N + 1 \in Int /\ L \in Int
      BY <1>1
    <3> HIDE DEF N, L
    <3> QED
      BY <2>1, <3>1, SubSeqProperties
  <2>3. L - (N + 1) + 1 = M /\ N + 1 <= L /\ \A i \in 1 .. M : (N + 1) + i - 1 = N + i
    BY <1>1, <1>3
  <2>4. Len(s) = M /\ \A k \in 1 .. M : s[k] = info[N + k]
    BY <2>2, <2>3
  <2> QED
    BY <2>2, <2>4, SeqIsFunction
<1>5. Rest = SortPeriod(s)
  BY DEF Rest
<1> HIDE DEF s, N, L
<1>6. Reorders(Rest, s)
  <2>1. \A x \in Ids : tasks[x].period \in Int
    BY TaskTypes
  <2> QED
    BY <1>4, <1>5, <2>1, SortPeriodSorts
<1>7. Distinct(s)
  <2> SUFFICES ASSUME NEW i \in 1 .. M, NEW j \in 1 .. M, s[i] = s[j] PROVE i = j
    BY <1>4 DEF Distinct
  <2>1. N + i \in DOMAIN info /\ N + j \in DOMAIN info /\ info[N + i] = info[N + j]
    BY <1>1, <1>3, <1>4
  <2>2. N + i = N + j
    BY <1>1, <2>1 DEF Distinct
  <2> QED
    BY <1>1, <1>3, <2>2
<1>8. /\ Rest \in Seq(Ids) /\ DOMAIN Rest = 1 .. M /\ Distinct(Rest)
      /\ (\A k \in 1 .. M : \E i \in 1 .. M : Rest[k] = s[i])
      /\ (\A i \in 1 .. M : \E k \in 1 .. M : Rest[k] = s[i])
  <2>1. Rest \in Seq(Ids) /\ DOMAIN Rest = 1 .. Len(s)
    BY <1>4, <1>6, ReorderedSeq
  <2>2. Distinct(Rest)
    BY <1>4, <1>6, <1>7, ReorderedSet
  <2>3. PICK p \in Reorderings(Len(s)) : Rest = [k \in 1 .. Len(s) |-> s[p[k]]]
    BY <1>6 DEF Reorders
  <2>4. p \in [1 .. M -> 1 .. M] /\ \A i \in 1 .. M : \E k \in 1 .. M : p[k] = i
    BY <1>4 DEF Reorderings
  <2> QED
    BY <1>4, <2>1, <2>2, <2>3, <2>4
<1>9. \A k \in 1 .. M : ~ IsHigh(info[N + k])
  <2> TAKE k \in 1 .. M
  <2>1. N + 1 \in 1 .. L /\ N + k \in 1 .. L /\ N + 1 <= N + k
    BY <1>1, <1>3
  <2>2. tasks[info[N + 1]].util >= tasks[info[N + k]].util
    BY <2>1 DEF HighPhase, L
  <2>3. /\ tasks[info[N + 1]].util \in Nat /\ tasks[info[N + k]].util \in Nat
        /\ Threshold(option) * Hyper \in Int
    <3>1. Threshold(option) \in Int /\ Hyper \in Int
      BY Constants DEF Threshold
    <3> QED
      BY <1>2, <2>1, <3>1, TaskTypes
  <2> DEFINE u == tasks[info[N + 1]].util
             v == tasks[info[N + k]].util
             h == Threshold(option) * Hyper
  <2>4. u \in Nat /\ v \in Nat /\ h \in Int /\ u >= v /\ ~ (20 * u >= h)
    BY <1>1, <2>2, <2>3 DEF IsHigh
  <2> HIDE DEF u, v, h
  <2>5. ~ (20 * v >= h)
    BY <2>4
  <2> QED
    BY <2>5 DEF IsHigh, v, h
<1>10. \A k \in DOMAIN Rest : ~ IsHigh(Rest[k]) /\ \A i \in DOMAIN out : out[i].id # Rest[k]
  <2> TAKE k \in DOMAIN Rest
  <2>1. PICK i \in 1 .. M : Rest[k] = info[N + i]
    BY <1>4, <1>8, ZenonT(60)
  <2>2. \A j \in 1 .. N : info[j] # info[N + i]
    <3> TAKE j \in 1 .. N
    <3>1. j \in 1 .. L /\ N + i \in 1 .. L /\ j # N + i
      BY <1>1, <1>3
    <3> QED
      BY <1>1, <3>1 DEF Distinct
  <2> QED
    BY <1>1, <1>9, <2>1, <2>2, SMTT(60)
<1>11. \A id \in Ids : (\E i \in DOMAIN out : out[i].id = id) \/ \E k \in DOMAIN Rest : Rest[k] = id
  <2> TAKE id \in Ids
  <2>1. PICK k \in 1 .. L : info[k] = id
    BY <1>1
  <2>2. CASE k \in 1 .. N
    BY <1>1, <2>1, <2>2
  <2>3. CASE k - N \in 1 .. M
    <3>1. s[k - N] = id
      <4>1. N + (k - N) = k
        BY <1>1
      <4> QED
        BY <1>4, <2>1, <2>3, <4>1
    <3> QED
      BY <1>8, <2>3, <3>1
  <2> QED
    BY <1>3, <2>2, <2>3
<1> QED
  BY <1>8, <1>10, <1>11

\* The cores that low tasks start with are all free.
LEMMA StartCores ==
  ASSUME TaskInv, TypeInv, HighPhase, HighClusters, LowIsNext, parted < CoreNum,
         NEW o, o = IF Crossing /\ FitsSockets THEN Refitted ELSE out,
         NEW cores, cores = IF Crossing /\ FitsSockets THEN FreeCores ELSE From(parted, CoreNum)
  PROVE  /\ cores \in Seq(Cores) /\ Distinct(cores) /\ cores # <<>>
         /\ \A i \in 1 .. Len(out) : \A c \in ToSet(cores) : c < o[i].first \/ o[i].last < c
<1>1. /\ CoreNum \in Nat /\ parted \in Nat /\ CoreNum - parted > 0 /\ CoreNum <= CoreNum
      /\ phase = "high"
  BY Constants DEF TypeInv, LowIsNext
<1>2. DOMAIN out = 1 .. Len(out) /\ (Crossing /\ FitsSockets => Fitted) /\ out \in Seq(Entry)
  BY <1>1, HighList
<1>3. CASE Crossing /\ FitsSockets
  <2>1. o = Refitted /\ cores = FreeCores /\ Fitted
    BY <1>2, <1>3
  <2>2. /\ FreeCores \in Seq(Cores) /\ Distinct(FreeCores)
        /\ Len(FreeCores) = CoreNum - Used[Len(out)][0] - Used[Len(out)][1] - Used[Len(out)][2]
    BY <2>1, FreeIsSeq
  <2>3. Used[Len(out)][0] + Used[Len(out)][1] + Used[Len(out)][2] = parted
    <3>1. parted = SumFunction([i \in DOMAIN out |-> Size(out[i])])
      BY <1>1 DEF HighClusters
    <3> QED
      BY <2>1, <3>1, UsedIsSum
  <2>4. Len(FreeCores) # 0
    <3>1. \A s \in 0 .. 2 : Used[Len(out)][s] \in Nat
      <4>1. Len(out) \in 0 .. Len(out)
        BY <1>2, SeqIsFunction
      <4> QED
        BY <2>1, <4>1, UsedGrows
    <3>2. 0 \in 0 .. 2 /\ 1 \in 0 .. 2 /\ 2 \in 0 .. 2
      OBVIOUS
    <3> DEFINE x0 == Used[Len(out)][0]
               x1 == Used[Len(out)][1]
               x2 == Used[Len(out)][2]
               x == Len(FreeCores)
    <3>3. x0 \in Nat /\ x1 \in Nat /\ x2 \in Nat /\ x0 + x1 + x2 = parted /\ x = CoreNum - x0 - x1 - x2
      BY <2>2, <2>3, <3>1, <3>2
    <3> HIDE DEF x0, x1, x2, x
    <3>4. x # 0
      BY <1>1, <3>3
    <3> QED
      BY <3>4 DEF x
  <2>5. \A i \in 1 .. Len(out) : \A c \in ToSet(FreeCores) : c < Refitted[i].first \/ Refitted[i].last < c
    BY <2>1, FreeIsApart
  <2> QED
    BY <2>1, <2>2, <2>4, <2>5, EmptySeq
<1>4. CASE ~ (Crossing /\ FitsSockets)
  <2>1. o = out /\ cores = From(parted, CoreNum)
    BY <1>4
  <2>2. /\ cores \in Seq(Cores) /\ Len(cores) = CoreNum - parted /\ Distinct(cores)
        /\ \A c : c \in ToSet(cores) <=> c \in Nat /\ parted <= c /\ c < CoreNum
    <3>1. parted <= CoreNum
      BY <1>1
    <3> QED
      BY <1>1, <2>1, <3>1, FromSeq
  <2>3. \A i \in 1 .. Len(out) : out[i].last < parted /\ out[i].last \in Int
    <3>1. \A i \in 1 .. Len(out) : out[i] \in Entry
      BY <1>2, SeqIsFunction
    <3> QED
      BY <1>1, <1>2, <3>1 DEF HighClusters, Entry
  <2>4. \A i \in 1 .. Len(out) : \A c \in ToSet(cores) : out[i].last < c
    BY <1>1, <2>2, <2>3
  <2>5. cores # <<>>
    BY <1>1, <2>2, EmptySeq
  <2> QED
    BY <2>1, <2>2, <2>4, <2>5
<1> QED
  BY <1>3, <1>4

\* Sorting keeps that the clusters whose last core is offered are different ones.
LEMMA OffersSorted ==
  ASSUME NEW s \in Seq(Lent), \A k, l \in DOMAIN s : s[k].index = s[l].index => k = l
  PROVE  /\ SortPossible(s) \in Seq(Lent)
         /\ (\A k \in DOMAIN SortPossible(s) : \E i \in DOMAIN s : SortPossible(s)[k] = s[i])
         /\ (\A k, l \in DOMAIN SortPossible(s) :
               SortPossible(s)[k].index = SortPossible(s)[l].index => k = l)
<1> DEFINE t == SortPossible(s)
           n == Len(s)
<1>1. \A x \in Lent : x.num \in Int /\ x.den \in Int /\ x.den > 0
  BY DEF Lent
<1>2. Reorders(t, s)
  BY <1>1, SortPossibleSorts
<1>3. t \in Seq(Lent) /\ DOMAIN t = 1 .. n /\ DOMAIN s = 1 .. n /\ n \in Nat
  <2> HIDE DEF t
  <2> QED
    BY <1>2, ReorderedSeq
<1>4. PICK p \in Reorderings(n) : t = [k \in 1 .. n |-> s[p[k]]]
  BY <1>2 DEF Reorders
<1>5. p \in [1 .. n -> 1 .. n] /\ \A k, l \in 1 .. n : p[k] = p[l] => k = l
  BY DEF Reorderings
<1> HIDE DEF t, n
<1>6. \A k \in 1 .. n : t[k] = s[p[k]] /\ p[k] \in 1 .. n
  BY <1>4, <1>5
<1>7. \A k, l \in 1 .. n : t[k].index = t[l].index => k = l
  BY <1>3, <1>5, <1>6
<1> QED
  BY <1>3, <1>6, <1>7 DEF t

\* After the fit any high task may lose its last core.
Offers ==
  [i \in DOMAIN out |->
     [core |-> Refitted[i].last,
      index |-> CHOOSE k \in DOMAIN info : info[k] = Refitted[i].id,
      num |-> tasks[Refitted[i].id].util, den |-> Hyper]]

\* After a fit each cluster offers its last core, under the place of its task among the tasks by utilisation (lib_cluster.py:639-650).
LEMMA OffersAreLent ==
  ASSUME TaskInv, TypeInv, HighPhase, HighClusters, phase = "high", Crossing, FitsSockets
  PROVE  /\ Offers \in Seq(Lent) /\ DOMAIN Offers = 1 .. Len(out)
         /\ \A k, l \in DOMAIN Offers : Offers[k].index = Offers[l].index => k = l
         /\ \A i \in 1 .. Len(out) : /\ Offers[i].core = Refitted[i].last
                                     /\ Offers[i].index \in 1 .. Len(out)
                                     /\ info[Offers[i].index] = Refitted[i].id
<1> DEFINE N == Len(out)
           L == Len(info)
<1>1. /\ N \in Nat /\ DOMAIN out = 1 .. N /\ L \in Nat /\ N <= L /\ info \in Seq(Ids)
      /\ Distinct(info) /\ DOMAIN info = 1 .. L /\ out \in Seq(Entry) /\ DistinctIds(out)
      /\ (\A i \in 1 .. N : out[i].id = info[i])
      /\ Fitted
  BY HighList
<1>2. /\ DOMAIN Refitted = 1 .. N
      /\ (\A i \in 1 .. N : \E j \in 1 .. N : Refitted[i].id = out[j].id)
      /\ DistinctIds(Refitted)
  BY <1>1, RefittedSeq
<1>3. \A i \in 1 .. N : Refitted[i].last \in Cores
  BY <1>1, RefittedAt
<1>4. \A i \in 1 .. N : Offers[i] =
        [core |-> Refitted[i].last,
         index |-> CHOOSE k \in DOMAIN info : info[k] = Refitted[i].id,
         num |-> tasks[Refitted[i].id].util, den |-> Hyper]
  BY <1>1 DEF Offers
<1>5. ASSUME NEW i \in 1 .. N
      PROVE  /\ Offers[i] \in Lent /\ Offers[i].core = Refitted[i].last
             /\ Offers[i].index \in 1 .. N /\ info[Offers[i].index] = Refitted[i].id
  <2>1. PICK j \in 1 .. N : Refitted[i].id = out[j].id
    BY <1>2
  <2>2. info[j] = Refitted[i].id /\ j \in DOMAIN info /\ Refitted[i].id \in Ids
    <3>1. j \in 1 .. L
      BY <1>1
    <3> QED
      BY <1>1, <2>1, <3>1, SeqIsFunction
  <2> DEFINE x == CHOOSE k \in DOMAIN info : info[k] = Refitted[i].id
  <2>3. x \in DOMAIN info /\ info[x] = Refitted[i].id
    BY <2>2
  <2> HIDE DEF x
  <2>4. x = j
    BY <1>1, <2>2, <2>3 DEF Distinct
  <2>5. tasks[Refitted[i].id].util \in Nat /\ Hyper \in Nat \ {0}
    BY <2>2, TaskTypes, Constants
  <2>6. /\ Offers[i] = [core |-> Refitted[i].last, index |-> x,
                        num |-> tasks[Refitted[i].id].util, den |-> Hyper]
    BY <1>4 DEF x
  <2>7. x \in Nat
    BY <2>4
  <2> QED
    BY <1>3, <2>3, <2>4, <2>5, <2>6, <2>7 DEF Lent
<1>6. DOMAIN Offers = 1 .. N
  BY <1>1 DEF Offers
<1>7. Offers \in [1 .. N -> Lent]
  <2>1. Offers = [i \in 1 .. N |-> Offers[i]]
    BY <1>1 DEF Offers
  <2> QED
    BY <1>5, <2>1
<1>8. Offers \in Seq(Lent)
  BY <1>1, <1>7, FunctionIsSeq
<1>9. \A k, l \in DOMAIN Offers : Offers[k].index = Offers[l].index => k = l
  <2> TAKE k, l \in DOMAIN Offers
  <2> HAVE Offers[k].index = Offers[l].index
  <2>1. Refitted[k].id = Refitted[l].id
    BY <1>5, <1>6
  <2> QED
    BY <1>2, <1>6, <2>1 DEF DistinctIds
<1> QED
  BY <1>5, <1>6, <1>8, <1>9

\* The low tasks are next, with the cores that are left.
LEMMA StartLowStep ==
  ASSUME TaskInv, TypeInv, PhaseInv, HighClusters, LendInv, OwnInv, FloorInv, StartLow
  PROVE  /\ TypeInv' /\ PhaseInv' /\ StatInv'
         /\ HighClusters' /\ LendInv' /\ OwnInv' /\ LowInv' /\ FloorInv'
<1> DEFINE N == Len(out)
           refit == Crossing /\ FitsSockets
           o == IF refit THEN Refitted ELSE out
           cores == IF refit THEN FreeCores ELSE From(parted, CoreNum)
           offers == IF refit THEN Offers ELSE possible
<1>1. /\ LowIsNext /\ phase = "high" /\ parted < CoreNum /\ phase' = "low"
      /\ low' = Rest /\ out' = o /\ lowcore' = cores /\ possible' = SortPossible(offers)
      /\ fit' = (IF refit THEN "refit" ELSE fit)
      /\ option' = option /\ tasks' = tasks /\ info' = info /\ stat' = stat /\ parted' = parted
      /\ cur' = cur /\ moved' = moved /\ sched' = sched
  BY DEF StartLow, LowIsNext, input, Rest, FreeCores, End, Offers
<1>2. /\ HighPhase /\ HighPhase
      /\ stat = [c \in Cores |-> NoTask] /\ moved = [c \in Cores |-> <<>>]
      /\ sched = 0 /\ fit = "none" /\ cur = 1
  BY <1>1 DEF PhaseInv, HighPhase
<1>3. /\ N \in Nat /\ DOMAIN out = 1 .. N /\ out \in Seq(Entry) /\ info \in Seq(Ids)
      /\ Distinct(info) /\ DistinctIds(out) /\ N <= Len(info) /\ Len(info) \in Nat
      /\ DOMAIN info = 1 .. Len(info)
      /\ (\A i \in 1 .. N : out[i].id = info[i] /\ IsHigh(out[i].id) /\ Size(out[i]) \in Nat)
      /\ (refit => Fitted)
  BY <1>1, <1>2, HighList
<1>4. /\ o \in Seq(Entry) /\ Len(o) = N /\ DOMAIN o = 1 .. N /\ DistinctIds(o)
      /\ (\A i \in 1 .. N : \E j \in 1 .. N : o[i].id = out[j].id /\ Size(o[i]) = Size(out[j]))
      /\ (\A j \in 1 .. N : \E i \in 1 .. N : o[i].id = out[j].id)
      /\ (\A i, j \in 1 .. N : i # j => Apart(o[i], o[j]))
  <2>1. o = IF Crossing /\ FitsSockets THEN Refitted ELSE out
    OBVIOUS
  <2> HIDE DEF o
  <2> QED
    BY <1>1, <1>2, <2>1, RefitKeeps, ZenonT(60)
<1>5. /\ Rest \in Seq(Ids) /\ Distinct(Rest)
      /\ (\A k \in DOMAIN Rest : ~ IsHigh(Rest[k]) /\ \A i \in DOMAIN out : out[i].id # Rest[k])
      /\ (\A id \in Ids : (\E i \in DOMAIN out : out[i].id = id) \/ \E k \in DOMAIN Rest : Rest[k] = id)
  BY <1>1, <1>2, RestIsLow
<1>6. /\ cores \in Seq(Cores) /\ Distinct(cores) /\ cores # <<>>
      /\ \A i \in 1 .. N : \A c \in ToSet(cores) : c < o[i].first \/ o[i].last < c
  BY <1>1, <1>2, StartCores
<1>7. /\ Ids' = Ids /\ (\A x : IsHigh(x)' = IsHigh(x)) /\ (\A x, c : LowIn(x, c)' = LowIn(x, c))
      /\ (\A ids : Load(ids)' = Load(ids))
  BY <1>1, SameTasks
<1>8. \A k \in DOMAIN possible : possible[k].index \in 1 .. N
  BY <1>1, <1>3 DEF LendInv
<1>9. offers \in Seq(Lent) /\ \A k, l \in DOMAIN offers : offers[k].index = offers[l].index => k = l
  <2>1. CASE refit
    BY <1>1, <1>2, <2>1, OffersAreLent
  <2>2. CASE ~ refit
    BY <1>1, <1>2, <2>2 DEF TypeInv, LendInv
  <2> QED
    BY <2>1, <2>2
<1>10. /\ possible' \in Seq(Lent)
       /\ (\A k \in DOMAIN possible' : \E i \in DOMAIN offers : possible'[k] = offers[i])
       /\ (\A k, l \in DOMAIN possible' : possible'[k].index = possible'[l].index => k = l)
  <2> HIDE DEF offers
  <2> QED
    BY <1>1, <1>9, OffersSorted
<1>11. \A i \in 1 .. N : IsHigh(o[i].id) /\ o[i].id \in Ids
  <2>1. \A i \in 1 .. N : out[i].id \in Ids
    BY <1>3 DEF TypeInv
  <2> QED
    BY <1>3, <1>4, <2>1
<1>a. refit => \A i \in 1 .. N : /\ DOMAIN Offers = 1 .. N
                                 /\ Offers[i].core = Refitted[i].last
                                 /\ Offers[i].index \in 1 .. N
                                 /\ info[Offers[i].index] = Refitted[i].id
                                 /\ Refitted[i].first <= Refitted[i].last
  <2> SUFFICES ASSUME refit PROVE \A i \in 1 .. N : /\ DOMAIN Offers = 1 .. N
                                 /\ Offers[i].core = Refitted[i].last
                                 /\ Offers[i].index \in 1 .. N
                                 /\ info[Offers[i].index] = Refitted[i].id
                                 /\ Refitted[i].first <= Refitted[i].last
    OBVIOUS
  <2>1. \A i \in 1 .. N : /\ DOMAIN Offers = 1 .. N
                          /\ Offers[i].core = Refitted[i].last
                          /\ Offers[i].index \in 1 .. N
                          /\ info[Offers[i].index] = Refitted[i].id
    BY <1>1, <1>2, OffersAreLent
  <2>2. \A i \in 1 .. N : Refitted[i].first <= Refitted[i].last
    <3> TAKE i \in 1 .. N
    <3>1. Fitted /\ BySize[i] = BySize[i]
      BY <1>3
    <3>2. /\ Refitted[i].first \in Cores /\ Size(BySize[i]) \in Nat \ {0}
          /\ Refitted[i].last = Refitted[i].first + Size(BySize[i]) - 1
      BY <3>1, RefittedAt, SizesOrdered DEF Fitted
    <3>3. Refitted[i].first \in Int
      BY <3>2, Constants DEF Cores
    <3> QED
      BY <3>2, <3>3
  <2> QED
    BY <2>1, <2>2
<1> HIDE DEF N, refit, o, cores, offers
<1>12. TypeInv'
  <2>1. \A i \in DOMAIN out' : out'[i].id \in Ids
    BY <1>1, <1>4, <1>11
  <2>2. cores \in Seq(Cores) /\ fit' \in {"none", "refit"}
    BY <1>1, <1>2, <1>6
  <2> QED
    BY <1>1, <1>4, <1>5, <1>7, <1>10, <2>1, <2>2 DEF TypeInv
<1>13. PhaseInv'
  <2>1. \A k \in DOMAIN Rest : ~ IsHigh(Rest[k]) /\ \A i \in DOMAIN o : o[i].id # Rest[k]
    <3> TAKE k \in DOMAIN Rest
    <3>1. \A i \in DOMAIN o : o[i].id # Rest[k]
      <4> TAKE i \in DOMAIN o
      <4>1. PICK j \in 1 .. N : o[i].id = out[j].id
        BY <1>4, ZenonT(60)
      <4> QED
        BY <1>3, <1>5, <4>1
    <3> QED
      BY <1>5, <3>1
  <2>2. \A id \in Ids : (\E i \in DOMAIN o : o[i].id = id) \/ \E k \in DOMAIN Rest : Rest[k] = id
    <3> TAKE id \in Ids
    <3>1. CASE \E k \in DOMAIN Rest : Rest[k] = id
      BY <3>1
    <3>2. CASE \E j \in DOMAIN out : out[j].id = id
      <4>1. PICK j \in 1 .. N : out[j].id = id
        BY <1>3, <3>2
      <4>2. PICK i \in 1 .. N : o[i].id = out[j].id
        BY <1>4
      <4> QED
        BY <1>4, <4>1, <4>2
    <3> QED
      BY <1>5, <3>1, <3>2
  <2>3. 1 \in DOMAIN cores
    <3>1. Len(cores) \in Nat /\ DOMAIN cores = 1 .. Len(cores) /\ Len(cores) # 0
      BY <1>6, EmptySeq, SeqIsFunction
    <3> QED
      BY <3>1
  <2>4. LowPhase'
    <3>1. /\ DistinctIds(out)' /\ Distinct(low)'
      BY <1>1, <1>4, <1>5 DEF DistinctIds, Distinct
    <3>2. (\A k \in DOMAIN low : ~ IsHigh(low[k]) /\ ~ Listed(low[k]))'
      BY <1>1, <1>7, <2>1 DEF Listed
    <3>3. (\A id \in Ids : Listed(id) \/ \E k \in DOMAIN low : low[k] = id)'
      BY <1>1, <1>7, <2>2 DEF Listed
    <3>4. /\ lowcore' # <<>> /\ cur' \in DOMAIN lowcore' /\ moved' = [c \in Cores |-> <<>>]
          /\ sched' = 0 /\ Distinct(lowcore')
      BY <1>1, <1>2, <1>6, <2>3
    <3> QED
      BY <3>1, <3>2, <3>3, <3>4 DEF LowPhase, Distinct
  <2> QED
    BY <1>1, <2>4 DEF PhaseInv
<1>14. StatInv'
  <2>1. \A core \in Cores : LowIn(o, core) \cup ToSet(moved[core]) = {}
    <3> TAKE core \in Cores
    <3>1. LowIn(o, core) = {}
      BY <1>4, <1>11 DEF LowIn
    <3>2. moved[core] = <<>>
      BY <1>2
    <3>3. ToSet(moved[core]) = {}
      BY <3>2 DEF ToSet
    <3> QED
      BY <3>1, <3>3
  <2>2. \A core \in Cores : Counted(core)' = {}
    BY <1>1, <1>7, <2>1 DEF Counted
  <2>3. \A core \in Cores : stat'[core].np = 0 /\ stat'[core].sumutil = 0
    BY <1>1, <1>2 DEF NoTask
  <2>4. \A core \in Cores : /\ stat'[core].np = Cardinality(Counted(core)')
                            /\ stat'[core].sumutil = Load(Counted(core)')
    BY <2>2, <2>3, LoadEmpty
  <2>5. \A core \in Cores : Load(Counted(core))' = Load(Counted(core)')
    BY <1>1 DEF Load
  <2> QED
    BY <2>4, <2>5 DEF StatInv
<1>15. OwnInv'
  <2>1. \A i, j \in DOMAIN out' : i # j => Apart(out'[i], out'[j])
    BY <1>1, <1>4
  <2>2. \A i \in DOMAIN out' : \A c \in ToSet(lowcore)' : c < out'[i].first \/ out'[i].last < c
    <3>1. ToSet(lowcore)' = ToSet(cores)
      BY <1>1 DEF ToSet
    <3> QED
      BY <1>1, <1>4, <1>6, <3>1
  <2> QED
    BY <2>1, <2>2 DEF OwnInv, Apart
<1>16. LowInv'
  BY <1>1, <1>4, <1>7, <1>11 DEF LowInv
<1>17. FloorInv'
  <2> SUFFICES ASSUME Parallel, fit' = "none", NEW i \in DOMAIN out', IsHigh(out'[i].id)
               PROVE  Floor(out'[i])
    <3>1. Parallel' = Parallel /\ (\A x : Floor(x)' = Floor(x))
      BY <1>1 DEF Parallel, Floor, Tight, Size
    <3> QED
      BY <1>7, <3>1 DEF FloorInv, Floor, Tight, Size
  <2>1. out' = out
    BY <1>1 DEF o
  <2> QED
    BY <1>2, <2>1, <1>3 DEF FloorInv
<1>18. LendInv'
  <2>1. CASE refit
    <3>1. fit' = "refit" /\ out' = Refitted /\ offers = Offers
      BY <1>1, <2>1 DEF o, offers
    <3>2. ASSUME NEW k \in DOMAIN possible'
          PROVE  /\ possible'[k].index \in 1 .. N
                 /\ (\A i \in DOMAIN out' : out'[i].id = info[i]) =>
                      /\ out'[possible'[k].index].last = possible'[k].core
                      /\ out'[possible'[k].index].first <= possible'[k].core
      <4>1. PICK i \in DOMAIN offers : possible'[k] = offers[i]
        BY <1>10
      <4>2. i \in 1 .. N
        <5>1. CASE N = 0
          BY <1>9, <1>3, <3>1, <4>1, <5>1 DEF Offers
        <5>2. CASE N # 0
          <6>1. 1 \in 1 .. N
            BY <1>3, <5>2
          <6> QED
            BY <1>a, <2>1, <3>1, <6>1
        <5> QED
          BY <5>1, <5>2
      <4>3. /\ Offers[i].core = Refitted[i].last /\ Offers[i].index \in 1 .. N
            /\ info[Offers[i].index] = Refitted[i].id /\ Refitted[i].first <= Refitted[i].last
        BY <1>a, <2>1, <4>2
      <4>4. possible'[k].core = Refitted[i].last /\ possible'[k].index = Offers[i].index
        BY <3>1, <4>1, <4>3
      <4>5. (\A j \in DOMAIN out' : out'[j].id = info[j]) => Offers[i].index = i
        <5>1. SUFFICES ASSUME \A j \in DOMAIN out' : out'[j].id = info[j] PROVE Offers[i].index = i
          OBVIOUS
        <5>2. info[i] = info[Offers[i].index]
          BY <1>1, <1>4, <3>1, <4>2, <4>3, <5>1
        <5>3. i \in DOMAIN info /\ Offers[i].index \in DOMAIN info
          BY <1>3, <4>2, <4>3
        <5> QED
          BY <1>3, <5>2, <5>3 DEF Distinct
      <4> QED
        BY <3>1, <4>3, <4>4, <4>5
    <3>3. InOrder' => \A i \in DOMAIN out' : out'[i].id = info[i]
      BY <1>1, <1>4, <1>7, <1>11 DEF InOrder
    <3>4. \A k \in DOMAIN possible' :
            /\ possible'[k].index \in DOMAIN out' /\ IsHigh(out'[possible'[k].index].id)
            /\ InOrder' => /\ out'[possible'[k].index].last = possible'[k].core
                           /\ out'[possible'[k].index].first <= possible'[k].core
      BY <1>1, <1>4, <1>11, <3>2, <3>3
    <3> QED
      BY <1>7, <1>10, <3>1, <3>4 DEF LendInv
  <2>2. CASE ~ refit
    <3>1. fit' = "none" /\ out' = out /\ offers = possible
      BY <1>1, <1>2, <2>2 DEF o, offers
    <3>2. \A k \in DOMAIN possible :
            LET q == possible[k]
            IN  /\ q.index \in DOMAIN out
                /\ IsHigh(out[q.index].id)
                /\ out[q.index].last = q.core /\ out[q.index].first <= q.core
                /\ Size(out[q.index]) >= 3 /\ Tight(out[q.index], Size(out[q.index]))
      BY <1>1, <1>2 DEF LendInv
    <3>3. \A k \in DOMAIN possible' :
            LET q == possible'[k]
            IN  /\ q.index \in DOMAIN out
                /\ IsHigh(out[q.index].id)
                /\ out[q.index].last = q.core /\ out[q.index].first <= q.core
                /\ Size(out[q.index]) >= 3 /\ Tight(out[q.index], Size(out[q.index]))
      BY <1>10, <3>1, <3>2
    <3>4. \A x, n : Tight(x, n)' = Tight(x, n)
      BY <1>1 DEF Tight
    <3> QED
      BY <1>7, <1>10, <3>1, <3>3, <3>4 DEF LendInv, Size
  <2> QED
    BY <2>1, <2>2
<1> QED
  BY <1>1, <1>12, <1>13, <1>14, <1>15, <1>16, <1>17, <1>18 DEF HighClusters

-------------------------------------------------------------------------------
(* The placement of low tasks. *)

\* Ring goes to every core of low tasks.
LEMMA RingIsOnto ==
  ASSUME TypeInv, LowPhase
  PROVE  /\ DOMAIN lowcore = 1 .. Len(lowcore) /\ Len(lowcore) \in Nat \ {0}
         /\ (\A k \in DOMAIN lowcore : Ring[k] \in DOMAIN lowcore)
         /\ (\A i \in DOMAIN lowcore : \E k \in DOMAIN lowcore : Ring[k] = i)
<1> DEFINE n == Len(lowcore)
<1>1. n \in Nat \ {0} /\ DOMAIN lowcore = 1 .. n /\ cur \in 1 .. n
  BY SeqIsFunction, EmptySeq, SMTT(60) DEF TypeInv, LowPhase
<1>2. \A k \in 1 .. n : Ring[k] = ((cur + k - 2) % n) + 1
  BY <1>1 DEF Ring
<1> HIDE DEF n
<1>3. \A k \in 1 .. n : Ring[k] \in 1 .. n
  <2> TAKE k \in 1 .. n
  <2>1. cur + k - 2 \in Int
    BY <1>1
  <2>2. (cur + k - 2) % n \in 0 .. n - 1
    BY <1>1, <2>1
  <2> QED
    BY <1>1, <1>2, <2>2
<1>4. ASSUME NEW i \in 1 .. n PROVE \E k \in 1 .. n : Ring[k] = i
  <2>1. CASE i >= cur
    <3> DEFINE k == i - cur + 1
    <3>1. k \in 1 .. n /\ cur + k - 2 = i - 1 /\ i - 1 \in Nat /\ i - 1 < n
      BY <1>1, <2>1
    <3>2. (i - 1) % n = i - 1
      BY <1>1, <3>1, ModSmall
    <3>3. Ring[k] = i
      BY <1>2, <3>1, <3>2
    <3> QED
      BY <3>1, <3>3
  <2>2. CASE i < cur
    <3> DEFINE k == i - cur + 1 + n
    <3>1. k \in 1 .. n /\ cur + k - 2 = (i - 1) + n /\ i - 1 \in Nat /\ i - 1 < n
      BY <1>1, <2>2
    <3>2. ((i - 1) + n) % n = i - 1
      BY <1>1, <3>1, ModSmall
    <3>3. Ring[k] = i
      BY <1>2, <3>1, <3>2
    <3> QED
      BY <3>1, <3>3
  <2> QED
    BY <1>1, <2>1, <2>2
<1> QED
  BY <1>1, <1>3, <1>4 DEF n

\* The core of least utilisation is a core of low tasks.
LEMMA LeastLoadedIsCore ==
  ASSUME TypeInv, LowPhase
  PROVE  LeastLoaded(Len(lowcore)) \in DOMAIN lowcore
<1> DEFINE n == Len(lowcore)
           f == [k \in 1 .. n |-> SumUtil(Ring[k])]
           U == {SumUtil(Ring[k]) : k \in 1 .. n}
           least == Min(U)
           T == {k \in 1 .. n : SumUtil(Ring[k]) = least}
<1>1. DOMAIN lowcore = 1 .. n /\ n \in Nat \ {0} /\ \A k \in 1 .. n : Ring[k] \in 1 .. n
  BY RingIsOnto
<1>2. \A k \in 1 .. n : SumUtil(Ring[k]) \in Int
  <2> TAKE k \in 1 .. n
  <2>1. lowcore[Ring[k]] \in Cores
    BY <1>1, SeqIsFunction DEF TypeInv
  <2> QED
    BY <2>1 DEF TypeInv, SumUtil
<1>3. U \subseteq Int /\ U # {}
  <2>1. 1 \in 1 .. n
    BY <1>1
  <2> QED
    BY <1>2, <2>1
<1>4. IsFiniteSet(U)
  <2>1. IsFiniteSet(1 .. n)
    BY <1>1, FS_Interval
  <2>2. U = {f[k] : k \in 1 .. n}
    OBVIOUS
  <2> HIDE DEF f, U
  <2> QED
    BY <2>1, <2>2, ImageIsFinite
<1>5. least \in U
  <2> HIDE DEF U
  <2> QED
    BY <1>3, <1>4, MinFinite
<1>6. T # {} /\ T \subseteq 1 .. n
  BY <1>5
<1>7. Min(T) \in T
  <2> HIDE DEF T
  <2> QED
    BY <1>1, <1>6, LeastMember
<1>8. LeastLoaded(n) = Ring[Min(T)]
  BY DEF LeastLoaded
<1>9. Min(T) \in 1 .. n
  BY <1>6, <1>7
<1> HIDE DEF T
<1> QED
  BY <1>1, <1>8, <1>9

\* What the placement of a low task does, after some high task may have lost a core.
Shortened(o) ==
  /\ o \in Seq(Entry) /\ DOMAIN o = DOMAIN out
  /\ \A i \in DOMAIN out : o[i].id = out[i].id /\ o[i].first = out[i].first /\ o[i].prio = out[i].prio

\* Put adds the task to the list, and to the statistics of its core and of no other (lib_cluster.py:73-95).
LEMMA PutIsRight ==
  ASSUME TaskInv, TypeInv, LowPhase, StatInv, phase = "low", low # <<>>, NEW core \in Cores, NEW o,
         Shortened(o), Put(core, Head(low), o), tasks' = tasks, option' = option, moved' = moved
  PROVE  /\ Head(low) \in Ids /\ ~ IsHigh(Head(low)) /\ low' \in Seq(Ids)
         /\ out' \in Seq(Entry) /\ DOMAIN out' = 1 .. Len(out) + 1 /\ DOMAIN out = 1 .. Len(out)
         /\ Len(out) \in Nat
         /\ (\A i \in 1 .. Len(out) : out'[i] = o[i])
         /\ out'[Len(out) + 1].id = Head(low) /\ out'[Len(out) + 1].first = core
         /\ out'[Len(out) + 1].last = core
         /\ (\A i \in DOMAIN out' : out'[i].id \in Ids /\ (i \in 1 .. Len(out) \/ i = Len(out) + 1))
         /\ stat' = [c \in Cores |-> stat'[c]]
         /\ (\A c \in Cores :
               /\ stat'[c] = [np |-> stat'[c].np, sumutil |-> stat'[c].sumutil, mint |-> stat'[c].mint]
               /\ stat'[c].np \in Nat /\ stat'[c].sumutil \in Int)
         /\ StatInv'
<1> DEFINE N == Len(out)
           id == Head(low)
           e == [id |-> id, prio |-> 97 - stat[core].np, first |-> core, last |-> core]
<1>1. /\ stat' = [stat EXCEPT ![core] = Added(@, id)] /\ out' = Append(o, e) /\ low' = Tail(low)
  BY DEF Put
<1>2. /\ low \in Seq(Ids) /\ out \in Seq(Entry) /\ o \in Seq(Entry)
      /\ Tail(low) \in Seq(Ids) /\ id = low[1] /\ id \in Ids /\ DOMAIN low = 1 .. Len(low)
      /\ Len(low) \in Nat \ {0}
  BY TailSeq DEF TypeInv, Shortened
<1>3. ~ IsHigh(id) /\ ~ Listed(id)
  <2>1. 1 \in DOMAIN low
    BY <1>2
  <2> QED
    BY <1>2, <2>1 DEF LowPhase
<1>4. N \in Nat /\ DOMAIN out = 1 .. N /\ Len(o) = N /\ DOMAIN o = 1 .. N
  BY <1>2, LenProperties DEF Shortened
<1>5. core \in Int /\ id \in Nat /\ stat[core].np \in Nat /\ stat[core].sumutil \in Int
  BY <1>2, Constants, IdsAreNumbers, SMTT(60) DEF Cores, TaskInv, TypeInv
<1>6. e \in Entry /\ e.id = id /\ e.first = core /\ e.last = core
  BY <1>5 DEF Entry
<1>7. /\ out' \in Seq(Entry) /\ DOMAIN out' = 1 .. N + 1
      /\ (\A i \in 1 .. N : out'[i] = o[i]) /\ out'[N + 1] = e
  <2> HIDE DEF e
  <2> QED
    BY <1>1, <1>2, <1>4, <1>6, AppendSeq
<1>8. \A i \in DOMAIN out' : i \in 1 .. N \/ i = N + 1
  BY <1>4, <1>7
<1>9. Ids' = Ids /\ (\A x : IsHigh(x)' = IsHigh(x))
  BY SameTasks
<1> HIDE DEF N, e
<1>10. \A i \in DOMAIN out' : out'[i].id \in Ids
  <2> TAKE i \in DOMAIN out'
  <2>1. CASE i \in 1 .. N
    BY <1>4, <1>7, <2>1 DEF Shortened, TypeInv
  <2>2. CASE i = N + 1
    BY <1>2, <1>6, <1>7, <2>2
  <2> QED
    BY <1>8, <2>1, <2>2
<1>11. DOMAIN stat = Cores /\ DOMAIN stat' = Cores /\ stat' = [c \in Cores |-> stat'[c]]
  BY <1>1 DEF TypeInv
<1>12. \A c \in Cores : c # core => stat'[c] = stat[c]
  BY <1>1, <1>11
<1>13. stat'[core] = Added(stat[core], id)
  BY <1>1, <1>11
<1>14. tasks[id].util \in Nat
  BY <1>2, TaskTypes
<1>15. /\ stat'[core].np = stat[core].np + 1
       /\ stat'[core].sumutil = stat[core].sumutil + tasks[id].util
       /\ stat'[core] = [np |-> stat'[core].np, sumutil |-> stat'[core].sumutil, mint |-> stat'[core].mint]
  BY <1>13 DEF Added
<1>16. \A c \in Cores :
          /\ stat'[c] = [np |-> stat'[c].np, sumutil |-> stat'[c].sumutil, mint |-> stat'[c].mint]
          /\ stat'[c].np \in Nat /\ stat'[c].sumutil \in Int
  <2> TAKE c \in Cores
  <2>1. CASE c = core
    BY <1>5, <1>14, <1>15, <2>1
  <2>2. CASE c # core
    BY <1>12, <2>2 DEF TypeInv
  <2> QED
    BY <2>1, <2>2
<1>17. \A c \in Cores : LowIn(out', c) = IF c = core THEN LowIn(out, c) \cup {id} ELSE LowIn(out, c)
  <2> TAKE c \in Cores
  <2>1. \A x : x \in LowIn(out, c) <=> \E i \in 1 .. N : out[i].id = x /\ out[i].first = c /\ ~ IsHigh(out[i].id)
    BY <1>4 DEF LowIn
  <2>2. \A x : x \in LowIn(out', c) <=>
           \E i \in DOMAIN out' : out'[i].id = x /\ out'[i].first = c /\ ~ IsHigh(out'[i].id)
    BY DEF LowIn
  <2>3. \A i \in 1 .. N : out'[i].id = out[i].id /\ out'[i].first = out[i].first /\ i \in DOMAIN out'
    BY <1>4, <1>7 DEF Shortened
  <2>4. out'[N + 1].id = id /\ out'[N + 1].first = core /\ N + 1 \in DOMAIN out'
    BY <1>4, <1>6, <1>7
  <2>5. \A x : x \in LowIn(out', c) <=> x \in LowIn(out, c) \/ (c = core /\ x = id)
    <3> TAKE x
    <3>1. ASSUME x \in LowIn(out', c) PROVE x \in LowIn(out, c) \/ (c = core /\ x = id)
      <4>1. PICK i \in DOMAIN out' : out'[i].id = x /\ out'[i].first = c /\ ~ IsHigh(out'[i].id)
        BY <2>2, <3>1
      <4>2. CASE i \in 1 .. N
        BY <2>1, <2>3, <4>1, <4>2
      <4>3. CASE i = N + 1
        BY <2>4, <4>1, <4>3
      <4> QED
        BY <1>8, <4>2, <4>3
    <3>2. ASSUME x \in LowIn(out, c) PROVE x \in LowIn(out', c)
      <4>1. PICK i \in 1 .. N : out[i].id = x /\ out[i].first = c /\ ~ IsHigh(out[i].id)
        BY <2>1, <3>2
      <4> QED
        BY <2>2, <2>3, <4>1
    <3>3. ASSUME c = core, x = id PROVE x \in LowIn(out', c)
      BY <1>3, <2>2, <2>4, <3>3
    <3> QED
      BY <3>1, <3>2, <3>3
  <2>6. CASE c = core
    BY <2>5, <2>6
  <2>7. CASE c # core
    BY <2>5, <2>7
  <2> QED
    BY <2>6, <2>7
<1>18. \A c \in Cores : Counted(c) = LowIn(out, c) /\ Counted(c)' = LowIn(out', c)
  <2> TAKE c \in Cores
  <2>1. moved[c] = <<>> /\ moved'[c] = <<>>
    BY DEF LowPhase
  <2>2. ToSet(moved[c]) = {} /\ ToSet(moved'[c]) = {}
    BY <2>1 DEF ToSet
  <2>3. LowIn(out', c) = LowIn(out, c)'
    BY <1>9 DEF LowIn
  <2> QED
    BY <2>2, <2>3 DEF Counted
<1>19. StatInv'
  <2>1. \A c \in Cores : /\ stat'[c].np = Cardinality(LowIn(out', c))
                         /\ stat'[c].sumutil = Load(LowIn(out', c))
    <3> TAKE c \in Cores
    <3>1. stat[c].np = Cardinality(LowIn(out, c)) /\ stat[c].sumutil = Load(LowIn(out, c))
      BY <1>18 DEF StatInv
    <3>2. CASE c = core
      <4> DEFINE ids == LowIn(out, c)
      <4>1. ids \in SUBSET Ids
        BY <1>4, SMTT(60) DEF LowIn, TypeInv
      <4>2. id \notin ids
        BY <1>3 DEF LowIn, Listed
      <4> HIDE DEF ids, id
      <4>3. Load(ids \cup {id}) = Load(ids) + tasks[id].util /\ Cardinality(ids \cup {id}) = Cardinality(ids) + 1
        BY <1>2, <4>1, <4>2, LoadAdd
      <4> QED
        BY <1>15, <1>17, <3>1, <3>2, <4>3 DEF ids
    <3>3. CASE c # core
      BY <1>12, <1>17, <3>1, <3>3
    <3> QED
      BY <3>2, <3>3
  <2>2. \A ids : Load(ids)' = Load(ids)
    BY SameTasks
  <2>3. \A c \in Cores : Load(Counted(c))' = Load(LowIn(out', c))
    BY <1>18 DEF Load
  <2> QED
    BY <1>18, <2>1, <2>3 DEF StatInv
<1> QED
  BY <1>1, <1>2, <1>3, <1>4, <1>6, <1>7, <1>8, <1>10, <1>11, <1>16, <1>19 DEF N, e

\* Each task is placed, or waits, once.
Once(o, l) ==
  /\ DistinctIds(o) /\ Distinct(l)
  /\ \A k \in DOMAIN l : ~ IsHigh(l[k]) /\ \A i \in DOMAIN o : o[i].id # l[k]
  /\ \A id \in Ids : (\E i \in DOMAIN o : o[i].id = id) \/ \E k \in DOMAIN l : l[k] = id

\* Put takes the task from those that wait.
LEMMA PutKeepsOnce ==
  ASSUME TaskInv, TypeInv, LowPhase, StatInv, phase = "low", low # <<>>, NEW core \in Cores, NEW o,
         Shortened(o), Put(core, Head(low), o), tasks' = tasks, option' = option, moved' = moved
  PROVE  Once(out', low')
<1> DEFINE N == Len(out)
           M == Len(low) - 1
<1>1. /\ low \in Seq(Ids) /\ low' = Tail(low)
  BY DEF Put, TypeInv
<1>2. /\ DOMAIN out' = 1 .. N + 1 /\ DOMAIN out = 1 .. N /\ N \in Nat
      /\ (\A i \in 1 .. N : out'[i] = o[i]) /\ out'[N + 1].id = Head(low)
      /\ (\A i \in DOMAIN out' : i \in 1 .. N \/ i = N + 1)
  BY PutIsRight
<1>3. /\ DOMAIN low' = 1 .. M /\ M \in Nat /\ DOMAIN low = 1 .. M + 1
      /\ (\A k \in 1 .. M : low'[k] = low[k + 1]) /\ Head(low) = low[1]
  <2>1. /\ DOMAIN Tail(low) = 1 .. M /\ Len(low) \in Nat \ {0} /\ DOMAIN low = 1 .. Len(low)
        /\ (\A i \in 1 .. M : Tail(low)[i] = low[i + 1]) /\ Head(low) = low[1]
    BY <1>1, TailSeq
  <2> QED
    BY <1>1, <2>1
<1> HIDE DEF N, M
<1>4. \A k \in 1 .. M : k + 1 \in DOMAIN low /\ 1 \in DOMAIN low /\ k + 1 # 1
  BY <1>3
<1>5. \A i \in 1 .. N : out'[i].id = out[i].id
  BY <1>2 DEF Shortened
<1>6. \A i \in 1 .. N : out[i].id # low[1]
  <2>1. 1 \in DOMAIN low
    BY <1>3
  <2> QED
    BY <1>2, <2>1 DEF LowPhase, Listed
<1>7. DistinctIds(out')
  <2> SUFFICES ASSUME NEW i \in DOMAIN out', NEW j \in DOMAIN out', out'[i].id = out'[j].id PROVE i = j
    BY DEF DistinctIds
  <2>1. CASE i \in 1 .. N /\ j \in 1 .. N
    BY <1>2, <1>5, <2>1 DEF LowPhase, DistinctIds
  <2>2. CASE i = N + 1 /\ j \in 1 .. N
    BY <1>2, <1>3, <1>5, <1>6, <2>2
  <2>3. CASE i \in 1 .. N /\ j = N + 1
    BY <1>2, <1>3, <1>5, <1>6, <2>3
  <2> QED
    BY <1>2, <2>1, <2>2, <2>3
<1>8. Distinct(low')
  <2> SUFFICES ASSUME NEW k \in 1 .. M, NEW l \in 1 .. M, low'[k] = low'[l] PROVE k = l
    BY <1>3 DEF Distinct
  <2>1. /\ k + 1 \in DOMAIN low /\ l + 1 \in DOMAIN low
        /\ low[k + 1] = low[l + 1]
    BY <1>3, <1>4
  <2>2. Distinct(low)
    BY DEF LowPhase
  <2>3. k + 1 = l + 1
    BY <2>1, <2>2 DEF Distinct
  <2> QED
    BY <1>3, <2>3
<1>9. \A k \in DOMAIN low' : ~ IsHigh(low'[k]) /\ \A i \in DOMAIN out' : out'[i].id # low'[k]
  <2> TAKE k \in DOMAIN low'
  <2>1. k \in 1 .. M /\ low'[k] = low[k + 1] /\ k + 1 \in DOMAIN low
    BY <1>3, <1>4
  <2>2. ~ IsHigh(low[k + 1]) /\ \A i \in DOMAIN out : out[i].id # low[k + 1]
    BY <2>1 DEF LowPhase, Listed
  <2>3. low[k + 1] # low[1]
    BY <1>4, <2>1 DEF LowPhase, Distinct
  <2> QED
    BY <1>2, <1>3, <1>5, <2>1, <2>2, <2>3
<1>10. \A id \in Ids : (\E i \in DOMAIN out' : out'[i].id = id) \/ \E k \in DOMAIN low' : low'[k] = id
  <2> TAKE id \in Ids
  <2>1. CASE Listed(id)
    <3>1. PICK i \in 1 .. N : out[i].id = id
      BY <1>2, <2>1 DEF Listed
    <3>2. out'[i].id = id /\ i \in DOMAIN out'
      BY <1>2, <1>5, <3>1
    <3> QED
      BY <3>2
  <2>2. CASE \E k \in DOMAIN low : low[k] = id
    <3>1. PICK k \in DOMAIN low : low[k] = id
      BY <2>2
    <3>2. CASE k = 1
      <4>1. out'[N + 1].id = id /\ N + 1 \in DOMAIN out'
        BY <1>2, <1>3, <3>1, <3>2
      <4> QED
        BY <4>1
    <3>3. CASE k # 1
      <4>1. k - 1 \in 1 .. M /\ (k - 1) + 1 = k
        BY <1>3, <3>1, <3>3
      <4>2. low'[k - 1] = id
        BY <1>3, <3>1, <4>1
      <4> QED
        BY <1>3, <4>1, <4>2
    <3> QED
      BY <3>2, <3>3
  <2> QED
    BY <2>1, <2>2 DEF LowPhase
<1> QED
  BY <1>7, <1>8, <1>9, <1>10 DEF Once

\* A low task is put on a core of low tasks.
PutOn(i) ==
  /\ i \in DOMAIN lowcore /\ low # <<>> /\ phase = "low" /\ phase' = phase
  /\ Put(lowcore[i], Head(low), out)
  /\ tasks' = tasks /\ option' = option /\ info' = info /\ parted' = parted
  /\ possible' = possible /\ fit' = fit /\ lowcore' = lowcore /\ moved' = moved
  /\ cur' \in DOMAIN lowcore /\ sched' \in {sched, 1}

\* A low task is put on a core of low tasks.
LEMMA PutOnStep ==
  ASSUME TaskInv, TypeInv, PhaseInv, StatInv, LendInv, OwnInv, LowInv, FloorInv, NEW i0, PutOn(i0)
  PROVE  /\ TypeInv' /\ PhaseInv' /\ StatInv'
         /\ HighClusters' /\ LendInv' /\ OwnInv' /\ LowInv' /\ FloorInv'
<1> DEFINE N == Len(out)
           core == lowcore[i0]
           e == out'[N + 1]
<1>1. /\ i0 \in DOMAIN lowcore /\ low # <<>> /\ phase = "low" /\ phase' = "low"
      /\ Put(core, Head(low), out)
      /\ tasks' = tasks /\ option' = option /\ info' = info /\ parted' = parted
      /\ possible' = possible /\ fit' = fit /\ lowcore' = lowcore /\ moved' = moved
      /\ cur' \in DOMAIN lowcore /\ sched' \in {sched, 1}
  BY DEF PutOn
<1>2. LowPhase /\ LowPhase
  BY <1>1 DEF PhaseInv
<1>3. core \in Cores /\ core \in ToSet(lowcore) /\ lowcore \in Seq(Cores) /\ DOMAIN lowcore = 1 .. Len(lowcore)
      /\ Len(lowcore) \in Nat
  <2>1. core \in Cores /\ lowcore \in Seq(Cores) /\ DOMAIN lowcore = 1 .. Len(lowcore) /\ Len(lowcore) \in Nat
    BY <1>1, SeqIsFunction DEF TypeInv
  <2>2. core \in ToSet(lowcore)
    BY <1>1, InToSet
  <2> QED
    BY <2>1, <2>2
<1>4. Shortened(out)
  BY DEF Shortened, TypeInv
<1>5. /\ Head(low) \in Ids /\ ~ IsHigh(Head(low)) /\ low' \in Seq(Ids)
      /\ out' \in Seq(Entry) /\ DOMAIN out' = 1 .. N + 1 /\ DOMAIN out = 1 .. N
      /\ N \in Nat
      /\ (\A i \in 1 .. N : out'[i] = out[i])
      /\ e.id = Head(low) /\ e.first = core /\ e.last = core
      /\ (\A i \in DOMAIN out' : out'[i].id \in Ids /\ (i \in 1 .. N \/ i = N + 1))
      /\ stat' = [c \in Cores |-> stat'[c]]
      /\ (\A c \in Cores :
            /\ stat'[c] = [np |-> stat'[c].np, sumutil |-> stat'[c].sumutil, mint |-> stat'[c].mint]
            /\ stat'[c].np \in Nat /\ stat'[c].sumutil \in Int)
      /\ StatInv'
  <2> HIDE DEF core
  <2> QED
    BY <1>1, <1>2, <1>3, <1>4, PutIsRight
<1>6. Once(out', low')
  <2> HIDE DEF core
  <2> QED
    BY <1>1, <1>2, <1>3, <1>4, PutKeepsOnce
<1>7. /\ Ids' = Ids /\ (\A x : IsHigh(x)' = IsHigh(x))
      /\ Parallel' = Parallel /\ (\A x : Floor(x)' = Floor(x)) /\ (\A x, n : Tight(x, n)' = Tight(x, n))
  BY <1>1, SameTasks DEF Parallel, Floor, Tight, Size
<1>8. InOrder' => InOrder
  <2> SUFFICES ASSUME InOrder' PROVE InOrder
    OBVIOUS
  <2>1. \A i \in 1 .. N : i \in DOMAIN out' /\ out'[i] = out[i]
    BY <1>5
  <2>2. \A i \in DOMAIN out' : IsHigh(out'[i].id) => out'[i].id = info[i]
    BY <1>1, <1>7 DEF InOrder
  <2> QED
    BY <1>5, <2>1, <2>2 DEF InOrder
<1> HIDE DEF N, core, e
<1>9. TypeInv'
  <2>1. cur' \in Nat /\ sched' \in 0 .. 2
    BY <1>1, <1>2, <1>3 DEF LowPhase
  <2>2. DOMAIN stat' = Cores
    BY <1>5
  <2> QED
    BY <1>1, <1>5, <1>7, <2>1, <2>2 DEF TypeInv
<1>10. PhaseInv'
  <2>1. LowPhase'
    <3>1. DistinctIds(out)' /\ Distinct(low)'
      BY <1>6 DEF Once, DistinctIds, Distinct
    <3>2. (\A k \in DOMAIN low : ~ IsHigh(low[k]) /\ ~ Listed(low[k]))'
      BY <1>6, <1>7 DEF Once, Listed
    <3>3. (\A id \in Ids : Listed(id) \/ \E k \in DOMAIN low : low[k] = id)'
      BY <1>6, <1>7 DEF Once, Listed
    <3> QED
      BY <1>1, <1>2, <3>1, <3>2, <3>3 DEF LowPhase, Distinct
  <2> QED
    BY <1>1, <2>1 DEF PhaseInv
<1>11. ToSet(lowcore)' = ToSet(lowcore)
  BY <1>1 DEF ToSet
<1>12. LendInv'
  <2>1. \A k \in DOMAIN possible : possible[k].index \in 1 .. N
    BY <1>1, <1>5 DEF LendInv
  <2>2. \A k \in DOMAIN possible : /\ possible[k].index \in DOMAIN out'
                                   /\ out'[possible[k].index] = out[possible[k].index]
    BY <1>5, <2>1
  <2> QED
    BY <1>1, <1>7, <1>8, <2>2 DEF LendInv, Size
<1>13. OwnInv'
  <2> SUFFICES ASSUME fit = "none" \/ InOrder \/ sched # 1,
                      NEW i \in DOMAIN out', IsHigh(out'[i].id)
               PROVE  /\ \A j \in DOMAIN out' : i # j => Apart(out'[i], out'[j])
                      /\ \A c \in ToSet(lowcore) : c < out'[i].first \/ out'[i].last < c
    BY <1>1, <1>7, <1>8, <1>11 DEF OwnInv, Apart
  <2>1. i \in 1 .. N /\ out'[i] = out[i] /\ i \in DOMAIN out
    <3>1. i # N + 1
      BY <1>5 DEF e
    <3> QED
      BY <1>5, <3>1
  <2>2. \A c \in ToSet(lowcore) : c < out[i].first \/ out[i].last < c
    BY <1>1, <2>1 DEF OwnInv
  <2>3. \A j \in DOMAIN out' : i # j => Apart(out'[i], out'[j])
    <3> TAKE j \in DOMAIN out'
    <3> HAVE i # j
    <3>1. CASE j \in 1 .. N
      BY <1>1, <1>5, <2>1, <3>1 DEF OwnInv
    <3>2. CASE j = N + 1
      <4>1. core < out[i].first \/ out[i].last < core
        BY <1>3, <2>2
      <4> QED
        BY <1>5, <2>1, <3>2, <4>1 DEF Apart, e
    <3> QED
      BY <1>5, <3>1, <3>2
  <2> QED
    BY <2>1, <2>2, <2>3
<1>14. LowInv'
  <2> SUFFICES ASSUME NEW i \in DOMAIN out', ~ IsHigh(out'[i].id)
               PROVE  out'[i].first \in ToSet(lowcore) /\ out'[i].last = out'[i].first
    BY <1>1, <1>7, <1>11 DEF LowInv
  <2>1. CASE i \in 1 .. N
    BY <1>1, <1>5, <2>1 DEF LowInv
  <2>2. CASE i = N + 1
    BY <1>3, <1>5, <2>2 DEF e
  <2> QED
    BY <1>5, <2>1, <2>2
<1>15. FloorInv'
  <2> SUFFICES ASSUME Parallel, fit = "none", NEW i \in DOMAIN out', IsHigh(out'[i].id) PROVE Floor(out'[i])
    BY <1>1, <1>7 DEF FloorInv, Floor, Tight, Size
  <2>1. i \in 1 .. N /\ out'[i] = out[i] /\ i \in DOMAIN out
    <3>1. i # N + 1
      BY <1>5 DEF e
    <3> QED
      BY <1>5, <3>1
  <2> QED
    BY <2>1 DEF FloorInv
<1> QED
  BY <1>1, <1>5, <1>9, <1>10, <1>12, <1>13, <1>14, <1>15 DEF HighClusters

\* So is the choice of the least utilisation after all fits have failed.
LEMMA LeastUtilPuts ==
  ASSUME TypeInv, PhaseInv, LeastUtil
  PROVE  \E i \in DOMAIN lowcore : PutOn(i)
<1> DEFINE i == LeastLoaded(Len(lowcore))
<1>1. LowPhase /\ phase = "low" /\ low # <<>>
  BY DEF LeastUtil, NoneFits, PhaseInv
<1>2. i \in DOMAIN lowcore
  BY <1>1, LeastLoadedIsCore
<1>3. Put(lowcore[i], Head(low), out) /\ cur' = cur /\ sched' = 1
  BY DEF LeastUtil
<1>4. cur' \in DOMAIN lowcore
  BY <1>1, <1>3 DEF LowPhase
<1> HIDE DEF i
<1>5. PutOn(i)
  BY <1>1, <1>2, <1>3, <1>4 DEF LeastUtil, PutOn, input, highs
<1> QED
  BY <1>2, <1>5

\* All tasks are placed.
LEMMA LowPlacedStep ==
  ASSUME TaskInv, TypeInv, PhaseInv, StatInv, OwnInv, LowInv, FloorInv, LowPlaced
  PROVE  /\ TypeInv' /\ PhaseInv' /\ StatInv'
         /\ HighClusters' /\ LendInv' /\ OwnInv' /\ LowInv' /\ FloorInv'
<1>1. /\ phase = "low" /\ low = <<>>
      /\ phase' = (IF option \in {2, 3, 4, 6} /\ sched = 0 THEN "balance" ELSE "done")
      /\ option' = option /\ tasks' = tasks
      /\ info' = info /\ stat' = stat /\ parted' = parted /\ possible' = possible /\ fit' = fit
      /\ lowcore' = lowcore /\ low' = low /\ cur' = cur /\ moved' = moved /\ out' = out /\ sched' = sched
  BY DEF LowPlaced, input, highs, lows
<1>2. LowPhase /\ LowPhase
  BY <1>1 DEF PhaseInv
<1>3. phase' \in {"balance", "done"} /\ (phase' = "balance" => sched = 0)
  BY <1>1
<1>4. Ids' = Ids /\ (\A x : IsHigh(x)' = IsHigh(x)) /\ (\A ids : Load(ids)' = Load(ids))
  BY <1>1, SameTasks
<1>5. TypeInv'
  BY <1>1, <1>3, <1>4 DEF TypeInv
<1>6. \A id \in Ids : Listed(id)
  <2>1. DOMAIN low = {}
    BY <1>1
  <2> QED
    BY <1>2, <2>1 DEF LowPhase
<1>7. phase' = "balance" => BalancePhase'
  <2> SUFFICES ASSUME phase' = "balance" PROVE BalancePhase'
    OBVIOUS
  <2>1. \A c \in Cores : moved'[c] = <<>> /\ DOMAIN moved'[c] = {} /\ ToSet(moved'[c]) = {}
    BY <1>1, <1>2 DEF LowPhase, ToSet
  <2>2. DistinctIds(out)' /\ lowcore' # <<>> /\ Distinct(lowcore)' /\ sched' = 0
    BY <1>1, <1>2, <1>3 DEF LowPhase, DistinctIds, Distinct
  <2>3. (\A c \in Cores : /\ Distinct(moved[c])
                          /\ \A k \in DOMAIN moved[c] : ~ Listed(moved[c][k]) /\ ~ IsHigh(moved[c][k])
                          /\ moved[c] # <<>> => c \in ToSet(lowcore))'
    BY <2>1 DEF Distinct
  <2>4. (\A c, d \in Cores : c # d => ToSet(moved[c]) \cap ToSet(moved[d]) = {})'
    BY <2>1 DEF ToSet
  <2>5. (\A id \in Ids : Listed(id) \/ \E c \in Cores : id \in ToSet(moved[c]))'
    BY <1>1, <1>4, <1>6 DEF Listed
  <2> QED
    BY <2>2, <2>3, <2>4, <2>5 DEF BalancePhase
<1>8. phase' = "done" => DonePhase'
  BY <1>1, <1>2, <1>4, <1>6 DEF DonePhase, LowPhase, Whole, Listed, DistinctIds
<1>9. PhaseInv'
  BY <1>3, <1>7, <1>8 DEF PhaseInv
<1>10. StatInv'
  <2>1. \A c \in Cores : Counted(c)' = Counted(c)
    <3>1. \A o, c : LowIn(o, c)' = LowIn(o, c)
      BY <1>1, SameTasks
    <3> QED
      BY <1>1, <1>4 DEF Counted, LowIn
  <2>2. \A c \in Cores : Load(Counted(c))' = Load(Counted(c))
    BY <1>1, <2>1 DEF Load
  <2> QED
    BY <1>1, <2>1, <2>2 DEF StatInv
<1>11. OwnInv' /\ LowInv' /\ FloorInv'
  <2>1. ToSet(lowcore)' = ToSet(lowcore)
    BY <1>1 DEF ToSet
  <2>2. (InOrder' <=> InOrder) /\ Parallel' = Parallel /\ (\A x : Floor(x)' = Floor(x))
    BY <1>1, <1>4 DEF InOrder, Parallel, Floor, Tight, Size
  <2>3. OwnInv'
    BY <1>1, <1>4, <2>1, <2>2 DEF OwnInv, Apart
  <2>4. LowInv'
    BY <1>1, <1>4, <2>1 DEF LowInv
  <2>5. FloorInv'
    BY <1>1, <1>4, <2>2 DEF FloorInv, Floor, Tight, Size
  <2> QED
    BY <2>3, <2>4, <2>5
<1> QED
  BY <1>3, <1>5, <1>9, <1>10, <1>11 DEF HighClusters, LendInv

\* A low task gets the last core of a cluster that can do without it (lib_cluster.py:106-125).
LEMMA TakeCoreStep ==
  ASSUME TaskInv, TypeInv, PhaseInv, StatInv, LendInv, OwnInv, LowInv, FloorInv, TakeCore
  PROVE  /\ TypeInv' /\ PhaseInv' /\ StatInv'
         /\ HighClusters' /\ LendInv' /\ OwnInv' /\ LowInv' /\ FloorInv'
         /\ Head(possible).core \in Cores
         /\ \E o : Shortened(o) /\ Put(Head(possible).core, Head(low), o)
<1> DEFINE N == Len(out)
           M == Len(possible) - 1
           x == possible[1].index
           core == possible[1].core
           o == [out EXCEPT ![x].last = core - 1]
           e == out'[N + 1]
<1>1. /\ low # <<>> /\ possible # <<>> /\ phase = "low" /\ phase' = "low" /\ sched' = 1
      /\ lowcore' = Append(lowcore, Head(possible).core)
      /\ Put(Head(possible).core, Head(low), [out EXCEPT ![Head(possible).index].last = Head(possible).core - 1])
      /\ possible' = Tail(possible)
      /\ tasks' = tasks /\ option' = option /\ info' = info /\ parted' = parted
      /\ fit' = fit /\ moved' = moved /\ cur' = cur
  BY DEF TakeCore, NoneFits, input
<1>2. LowPhase /\ LowPhase
  BY <1>1 DEF PhaseInv
<1>3. /\ possible \in Seq(Lent) /\ possible' \in Seq(Lent) /\ M \in Nat /\ DOMAIN possible = 1 .. M + 1
      /\ DOMAIN possible' = 1 .. M /\ (\A k \in 1 .. M : possible'[k] = possible[k + 1])
      /\ Head(possible) = possible[1] /\ possible[1] \in Lent
  <2>1. possible \in Seq(Lent)
    BY DEF TypeInv
  <2>2. /\ Tail(possible) \in Seq(Lent) /\ Len(possible) \in Nat \ {0}
        /\ DOMAIN Tail(possible) = 1 .. M /\ DOMAIN possible = 1 .. Len(possible)
        /\ (\A i \in 1 .. M : Tail(possible)[i] = possible[i + 1])
        /\ Head(possible) = possible[1] /\ Head(possible) \in Lent
    BY <1>1, <2>1, TailSeq
  <2> QED
    BY <1>1, <2>1, <2>2
<1>4. 1 \in DOMAIN possible /\ \A k \in 1 .. M : k + 1 \in DOMAIN possible /\ k + 1 # 1
  BY <1>3
<1>5. /\ x \in DOMAIN out /\ IsHigh(out[x].id)
      /\ fit = "none" \/ InOrder =>
            /\ out[x].last = core /\ out[x].first <= core
            /\ \A l \in DOMAIN possible : possible[l].index = x => l = 1
      /\ fit = "none" => Size(out[x]) >= 3 /\ Tight(out[x], Size(out[x]))
  BY <1>1, <1>4 DEF LendInv
<1>6. core \in Cores /\ core \in Int /\ core - 1 \in Int
  BY <1>3, Constants, SMTT(60) DEF Lent, Cores
<1>7. out \in Seq(Entry) /\ DOMAIN out = 1 .. N /\ N \in Nat /\ \A i \in 1 .. N : out[i] \in Entry
  BY SeqIsFunction DEF TypeInv
<1>8. /\ DOMAIN o = 1 .. N /\ (\A i \in 1 .. N : i # x => o[i] = out[i])
      /\ o[x] = [out[x] EXCEPT !.last = core - 1]
  BY <1>5, <1>7
<1>9. o[x] \in Entry /\ o[x].id = out[x].id /\ o[x].first = out[x].first /\ o[x].last = core - 1
      /\ o[x].prio = out[x].prio
  <2>1. out[x] \in Entry
    BY <1>5, <1>7
  <2> HIDE DEF o, x, core
  <2> QED
    BY <1>6, <1>8, <2>1 DEF Entry
<1>10. o \in Seq(Entry)
  <2>1. o = [out EXCEPT ![x] = [out[x] EXCEPT !.last = core - 1]]
    BY <1>5
  <2>2. [out[x] EXCEPT !.last = core - 1] \in Entry
    BY <1>8, <1>9
  <2> HIDE DEF o, x, core
  <2> QED
    BY <1>5, <1>7, <2>1, <2>2, ExceptSeq
<1>11. Shortened(o)
  <2>1. \A i \in DOMAIN out : o[i].id = out[i].id /\ o[i].first = out[i].first /\ o[i].prio = out[i].prio
    BY <1>7, <1>8, <1>9
  <2> QED
    BY <1>7, <1>8, <1>10, <2>1 DEF Shortened
<1>12. Put(core, Head(low), o) /\ lowcore' = Append(lowcore, core)
  BY <1>1, <1>3
<1> HIDE DEF N, M, x, core, o, e
<1>13. /\ Head(low) \in Ids /\ ~ IsHigh(Head(low)) /\ low' \in Seq(Ids)
       /\ out' \in Seq(Entry) /\ DOMAIN out' = 1 .. N + 1
       /\ (\A i \in 1 .. N : out'[i] = o[i])
       /\ e.id = Head(low) /\ e.first = core /\ e.last = core
       /\ (\A i \in DOMAIN out' : out'[i].id \in Ids /\ (i \in 1 .. N \/ i = N + 1))
       /\ stat' = [c \in Cores |-> stat'[c]]
       /\ (\A c \in Cores :
             /\ stat'[c] = [np |-> stat'[c].np, sumutil |-> stat'[c].sumutil, mint |-> stat'[c].mint]
             /\ stat'[c].np \in Nat /\ stat'[c].sumutil \in Int)
       /\ StatInv'
  BY <1>1, <1>2, <1>6, <1>11, <1>12, PutIsRight DEF N, e
<1>14. Once(out', low')
  BY <1>1, <1>2, <1>6, <1>11, <1>12, PutKeepsOnce
<1>15. /\ Ids' = Ids /\ (\A y : IsHigh(y)' = IsHigh(y))
       /\ Parallel' = Parallel /\ (\A y : Floor(y)' = Floor(y)) /\ (\A y, n : Tight(y, n)' = Tight(y, n))
  BY <1>1, SameTasks DEF Parallel, Floor, Tight, Size
<1>16. \A i \in 1 .. N : i \in DOMAIN out' /\ out'[i].id = out[i].id /\ out'[i].first = out[i].first
  BY <1>7, <1>11, <1>13 DEF Shortened
<1>17. InOrder' => InOrder
  <2> SUFFICES ASSUME InOrder' PROVE InOrder
    OBVIOUS
  <2>1. \A i \in DOMAIN out' : IsHigh(out'[i].id) => out'[i].id = info[i]
    BY <1>1, <1>15 DEF InOrder
  <2> QED
    BY <1>7, <1>16, <2>1 DEF InOrder
<1>18. /\ lowcore' \in Seq(Cores) /\ DOMAIN lowcore' = 1 .. Len(lowcore) + 1
       /\ DOMAIN lowcore = 1 .. Len(lowcore) /\ Len(lowcore) \in Nat
       /\ (\A i \in 1 .. Len(lowcore) : lowcore'[i] = lowcore[i])
       /\ lowcore'[Len(lowcore) + 1] = core
  <2>1. lowcore \in Seq(Cores)
    BY DEF TypeInv
  <2> QED
    BY <1>6, <1>12, <2>1, AppendSeq
<1>19. \A c : c \in ToSet(lowcore)' <=> c \in ToSet(lowcore) \/ c = core
  <2>1. \A i \in DOMAIN lowcore' : i \in DOMAIN lowcore \/ i = Len(lowcore) + 1
    BY <1>18
  <2>2. Len(lowcore) + 1 \in DOMAIN lowcore' /\ \A i \in DOMAIN lowcore : i \in DOMAIN lowcore'
    BY <1>18
  <2>3. ToSet(lowcore)' = {lowcore'[i] : i \in DOMAIN lowcore'}
    BY DEF ToSet
  <2>4. ToSet(lowcore) = {lowcore[i] : i \in DOMAIN lowcore}
    BY DEF ToSet
  <2>5. \A i \in DOMAIN lowcore : lowcore'[i] = lowcore[i]
    BY <1>18
  <2> HIDE DEF core
  <2> QED
    BY <1>18, <2>1, <2>2, <2>3, <2>4, <2>5
<1>20. TypeInv'
  <2>1. cur' \in Nat /\ sched' \in 0 .. 2 /\ DOMAIN stat' = Cores
    BY <1>1, <1>13 DEF TypeInv
  <2> QED
    BY <1>1, <1>3, <1>13, <1>15, <1>18, <2>1 DEF TypeInv
<1>21. PhaseInv'
  <2>1. LowPhase'
    <3>1. DistinctIds(out)' /\ Distinct(low)'
      BY <1>14 DEF Once, DistinctIds, Distinct
    <3>2. (\A k \in DOMAIN low : ~ IsHigh(low[k]) /\ ~ Listed(low[k]))'
      BY <1>14, <1>15 DEF Once, Listed
    <3>3. (\A id \in Ids : Listed(id) \/ \E k \in DOMAIN low : low[k] = id)'
      BY <1>14, <1>15 DEF Once, Listed
    <3>4. lowcore' # <<>>
      <4>1. 1 \in DOMAIN lowcore'
        BY <1>18
      <4> QED
        BY <4>1
    <3>5. cur' \in DOMAIN lowcore' /\ moved' = [c \in Cores |-> <<>>]
      BY <1>1, <1>2, <1>18 DEF LowPhase
    <3> QED
      BY <1>1, <3>1, <3>2, <3>3, <3>4, <3>5 DEF LowPhase
  <2> QED
    BY <1>1, <2>1 DEF PhaseInv
<1>22. LendInv'
  <2> SUFFICES ASSUME NEW k \in 1 .. M
               PROVE  LET p == possible'[k]
                      IN  /\ p.index \in DOMAIN out' /\ IsHigh(out'[p.index].id)
                          /\ fit = "none" \/ InOrder =>
                               /\ out'[p.index].last = p.core /\ out'[p.index].first <= p.core
                               /\ \A l \in DOMAIN possible' : possible'[l].index = p.index => l = k
                          /\ fit = "none" => Size(out'[p.index]) >= 3 /\ Tight(out'[p.index], Size(out'[p.index]))
    BY <1>1, <1>3, <1>15, <1>17, SMTT(60) DEF LendInv, Size
  <2> DEFINE p == possible'[k]
             y == p.index
  <2>1. p = possible[k + 1] /\ k + 1 \in DOMAIN possible
    BY <1>3, <1>4
  <2>2. /\ y \in DOMAIN out /\ IsHigh(out[y].id)
        /\ fit = "none" \/ InOrder =>
              /\ out[y].last = p.core /\ out[y].first <= p.core
              /\ \A l \in DOMAIN possible : possible[l].index = y => l = k + 1
        /\ fit = "none" => Size(out[y]) >= 3 /\ Tight(out[y], Size(out[y]))
    BY <1>1, <2>1, ZenonT(60) DEF LendInv
  <2> HIDE DEF p
  <2>3. y \in DOMAIN out' /\ IsHigh(out'[y].id)
    BY <1>7, <1>16, <2>2
  <2>4. fit = "none" \/ InOrder => y # x
    BY <1>4, <2>2 DEF x
  <2>5. fit = "none" \/ InOrder => out'[y] = out[y]
    BY <1>7, <1>8, <1>13, <2>2, <2>4
  <2>6. fit = "none" \/ InOrder => \A l \in DOMAIN possible' : possible'[l].index = y => l = k
    <3> SUFFICES ASSUME fit = "none" \/ InOrder, NEW l \in 1 .. M, possible'[l].index = y PROVE l = k
      BY <1>3
    <3>1. possible[l + 1].index = y /\ l + 1 \in DOMAIN possible
      BY <1>3, <1>4
    <3>2. l + 1 = k + 1
      BY <2>2, <3>1
    <3> QED
      BY <3>2
  <2> QED
    BY <2>2, <2>3, <2>5, <2>6 DEF p
<1>23. OwnInv'
  <2> SUFFICES ASSUME fit = "none" \/ InOrder,
                      NEW i \in DOMAIN out', IsHigh(out'[i].id)
               PROVE  /\ \A j \in DOMAIN out' : i # j => Apart(out'[i], out'[j])
                      /\ \A c \in ToSet(lowcore)' : c < out'[i].first \/ out'[i].last < c
    <3>1. (InOrder' \/ sched' # 1 \/ fit' = "none") => fit = "none" \/ InOrder
      BY <1>1, <1>17
    <3> QED
      BY <1>15, <3>1 DEF OwnInv, Apart
  <2>0. i \in 1 .. N /\ IsHigh(out[i].id)
    <3>1. i # N + 1
      BY <1>13 DEF e
    <3> QED
      BY <1>13, <1>16, <3>1
  <2>1. out[x].last = core /\ out[x].first <= core
    BY <1>5
  <2>2. \A k \in 1 .. N : /\ out'[k].first = out[k].first /\ out'[k].last <= out[k].last
                          /\ out'[k].last \in Int /\ out[k].last \in Int /\ out[k].first \in Int
    <3> TAKE k \in 1 .. N
    <3>1. out[k] \in Entry /\ out[k].last \in Int /\ out[k].first \in Int
      BY <1>7, Constants DEF Entry, Cores
    <3>2. CASE k = x
      BY <1>6, <1>9, <1>13, <1>16, <2>1, <3>1, <3>2
    <3>3. CASE k # x
      BY <1>8, <1>13, <3>1, <3>3
    <3> QED
      BY <3>2, <3>3
  <2>3. core < out'[i].first \/ out'[i].last < core
    <3>1. CASE i = x
      <4>1. out'[i].last = core - 1
        BY <1>9, <1>13, <2>0, <3>1
      <4> QED
        BY <1>6, <4>1
    <3>2. CASE i # x
      <4>1. Apart(out[i], out[x])
        BY <1>5, <1>7, <2>0, <3>2 DEF OwnInv
      <4>2. out[x].first \in Int
        BY <1>5, <1>7, <2>2
      <4> QED
        BY <1>6, <2>0, <2>1, <2>2, <4>1, <4>2 DEF Apart
    <3> QED
      BY <3>1, <3>2
  <2>4. \A c \in ToSet(lowcore)' : c < out'[i].first \/ out'[i].last < c
    <3> TAKE c \in ToSet(lowcore)'
    <3>1. CASE c = core
      BY <2>3, <3>1
    <3>2. CASE c \in ToSet(lowcore)
      <4>1. c < out[i].first \/ out[i].last < c
        BY <1>1, <1>7, <2>0, <3>2 DEF OwnInv
      <4>2. c \in Int
        <5>1. PICK k \in DOMAIN lowcore : lowcore[k] = c
          BY <3>2, InToSet
        <5>2. lowcore[k] \in Cores
          BY <1>18, SeqIsFunction DEF TypeInv
        <5> QED
          BY <5>1, <5>2, Constants DEF Cores
      <4> QED
        BY <2>0, <2>2, <4>1, <4>2
    <3> QED
      BY <1>19, <3>1, <3>2
  <2>5. \A j \in DOMAIN out' : i # j => Apart(out'[i], out'[j])
    <3> TAKE j \in DOMAIN out'
    <3> HAVE i # j
    <3>1. CASE j \in 1 .. N
      <4>1. Apart(out[i], out[j])
        BY <1>7, <2>0, <3>1 DEF OwnInv
      <4> QED
        BY <2>0, <2>2, <3>1, <4>1 DEF Apart
    <3>2. CASE j = N + 1
      BY <1>13, <2>3, <3>2 DEF Apart, e
    <3> QED
      BY <1>13, <3>1, <3>2
  <2> QED
    BY <2>4, <2>5
<1>24. LowInv'
  <2> SUFFICES ASSUME NEW i \in DOMAIN out', ~ IsHigh(out'[i].id)
               PROVE  out'[i].first \in ToSet(lowcore)' /\ out'[i].last = out'[i].first
    BY <1>15 DEF LowInv
  <2>1. CASE i \in 1 .. N
    <3>1. i # x /\ i \in DOMAIN out /\ ~ IsHigh(out[i].id)
      BY <1>5, <1>7, <1>16, <2>1
    <3>2. out'[i] = out[i]
      BY <1>8, <1>13, <2>1, <3>1
    <3>3. out[i].first \in ToSet(lowcore) /\ out[i].last = out[i].first
      BY <1>1, <3>1 DEF LowInv
    <3> QED
      BY <1>19, <3>2, <3>3
  <2>2. CASE i = N + 1
    BY <1>13, <1>19, <2>2 DEF e
  <2> QED
    BY <1>13, <2>1, <2>2
<1>25. FloorInv'
  <2> SUFFICES ASSUME Parallel, fit = "none", NEW i \in DOMAIN out', IsHigh(out'[i].id) PROVE Floor(out'[i])
    BY <1>1, <1>15 DEF FloorInv, Floor, Tight, Size
  <2>1. i \in 1 .. N
    <3>1. i # N + 1
      BY <1>13 DEF e
    <3> QED
      BY <1>13, <3>1
  <2>2. CASE i = x
    <3>1. out'[i].id = out[x].id /\ out'[i].first = out[x].first /\ out'[i].last = core - 1
      BY <1>9, <1>13, <2>1, <2>2
    <3>2. out[x].first \in Int /\ out[x].last = core
      BY <1>5, <1>7, Constants DEF Entry, Cores
    <3>3. Size(out'[i]) + 1 = Size(out[x]) /\ Size(out[x]) \in Int /\ Size(out'[i]) \in Int
      BY <1>6, <3>1, <3>2 DEF Size
    <3>4. Size(out[x]) >= 3 /\ Tight(out[x], Size(out[x]))
      BY <1>5
    <3>5. Tight(out'[i], Size(out'[i]) + 1)
      BY <3>1, <3>3, <3>4 DEF Tight
    <3>6. Size(out'[i]) >= 2
      BY <3>3, <3>4
    <3> QED
      BY <3>5, <3>6 DEF Floor
  <2>3. CASE i # x
    <3>1. out'[i] = out[i] /\ i \in DOMAIN out
      BY <1>7, <1>8, <1>13, <2>1, <2>3
    <3> QED
      BY <3>1 DEF FloorInv
  <2> QED
    BY <2>2, <2>3
<1>26. Head(possible).core \in Cores /\ \E y : Shortened(y) /\ Put(Head(possible).core, Head(low), y)
  <2>1. Head(possible).core = core
    BY <1>3 DEF core
  <2> QED
    BY <1>6, <1>11, <1>12, <2>1
<1> QED
  BY <1>1, <1>13, <1>20, <1>21, <1>22, <1>23, <1>24, <1>25, <1>26 DEF HighClusters

-------------------------------------------------------------------------------
(* The balance. *)

\* The utilisation of a core of low tasks.
LEMMA SumUtilInt ==
  ASSUME TypeInv
  PROVE  /\ DOMAIN lowcore = 1 .. Len(lowcore) /\ Len(lowcore) \in Nat
         /\ \A i \in DOMAIN lowcore : lowcore[i] \in Cores /\ SumUtil(i) \in Int
  BY SeqIsFunction DEF TypeInv, SumUtil

\* The balance takes from one core and gives to another one, on which no task starts (lib_cluster.py:289-310).
LEMMA SourceAndTarget ==
  ASSUME TypeInv, Unbalanced
  PROVE  /\ CoreMax \in Cores /\ CoreMin \in Cores /\ CoreMin # CoreMax
         /\ CoreMin \in ToSet(lowcore)
         /\ \A i \in DOMAIN out : out[i].first # CoreMin
<1> DEFINE n == Len(lowcore)
           f == [i \in DOMAIN lowcore |-> SumUtil(i)]
           k == Min({i \in Sources : f[i] = Max({f[j] : j \in Sources})})
           l == Min({i \in Positions(FALSE) : f[i] = Min({f[j] : j \in Positions(FALSE)})})
<1>1. DOMAIN lowcore = 1 .. n /\ n \in Nat /\ \A i \in DOMAIN lowcore : lowcore[i] \in Cores /\ SumUtil(i) \in Int
  BY SumUtilInt
<1>2. /\ Sources # {} /\ Positions(FALSE) # {}
      /\ Sources \subseteq DOMAIN lowcore /\ Positions(FALSE) \subseteq DOMAIN lowcore
  BY DEF Unbalanced, Sources, Positions
<1>3. CoreMax = lowcore[k]
  <2>1. \A i \in Sources : f[i] = SumUtil(i)
    BY <1>2
  <2>2. {SumUtil(i) : i \in Sources} = {f[j] : j \in Sources}
    BY <2>1
  <2>3. \A v : {i \in Sources : SumUtil(i) = v} = {i \in Sources : f[i] = v}
    BY <2>1
  <2> DEFINE best == Max({SumUtil(i) : i \in Sources})
  <2>4. CoreMax = lowcore[Min({i \in Sources : SumUtil(i) = best})]
    BY DEF CoreMax
  <2>5. best = Max({f[j] : j \in Sources})
    BY <2>2
  <2> HIDE DEF f, best
  <2>6. {i \in Sources : SumUtil(i) = best} = {i \in Sources : f[i] = best}
    BY <2>3
  <2>7. k = Min({i \in Sources : f[i] = best})
    BY <2>5
  <2> QED
    BY <2>4, <2>6, <2>7
<1>4. CoreMin = lowcore[l]
  <2>1. \A i \in Positions(FALSE) : f[i] = SumUtil(i)
    BY <1>2
  <2>2. {SumUtil(i) : i \in Positions(FALSE)} = {f[j] : j \in Positions(FALSE)}
    BY <2>1
  <2>3. \A v : {i \in Positions(FALSE) : SumUtil(i) = v} = {i \in Positions(FALSE) : f[i] = v}
    BY <2>1
  <2> DEFINE best == Min({SumUtil(i) : i \in Positions(FALSE)})
  <2>4. CoreMin = lowcore[Min({i \in Positions(FALSE) : SumUtil(i) = best})]
    BY DEF CoreMin
  <2>5. best = Min({f[j] : j \in Positions(FALSE)})
    BY <2>2
  <2> HIDE DEF f, best
  <2>6. {i \in Positions(FALSE) : SumUtil(i) = best} = {i \in Positions(FALSE) : f[i] = best}
    BY <2>3
  <2>7. l = Min({i \in Positions(FALSE) : f[i] = best})
    BY <2>5
  <2> QED
    BY <2>4, <2>6, <2>7
<1>5. \A i \in DOMAIN lowcore : f[i] \in Int
  BY <1>1
<1>6. k \in Sources /\ l \in Positions(FALSE)
  <2>1. Sources \subseteq 1 .. n /\ Positions(FALSE) \subseteq 1 .. n
    BY <1>1, <1>2
  <2> HIDE DEF f, n
  <2>2. k \in Sources
    BY <1>1, <1>2, <1>5, <2>1, MinOfValues
  <2>3. l \in Positions(FALSE)
    BY <1>1, <1>2, <1>5, <2>1, MinOfValues
  <2> QED
    BY <2>2, <2>3
<1> HIDE DEF k, l, f, n
<1>7. At(out, lowcore[k]) # {} /\ k \in DOMAIN lowcore
  BY <1>6 DEF Sources, Positions
<1>8. At(out, lowcore[l]) = {} /\ l \in DOMAIN lowcore
  BY <1>6 DEF Positions
<1>9. CoreMin # CoreMax
  BY <1>3, <1>4, <1>7, <1>8
<1>10. \A i \in DOMAIN out : out[i].first # CoreMin
  BY <1>4, <1>8 DEF At
<1>11. CoreMin \in ToSet(lowcore)
  BY <1>4, <1>8, InToSet
<1> QED
  BY <1>1, <1>3, <1>4, <1>7, <1>8, <1>9, <1>10, <1>11

\* A candidate is a task on the fullest core.
LEMMA CandidateIsThere ==
  ASSUME TaskInv, TypeInv, Unbalanced, NEW n \in DOMAIN Candidates
  PROVE  /\ Candidates[n] \in Ids
         /\ \E i \in DOMAIN out : out[i].id = Candidates[n] /\ out[i].first = CoreMax
<1> DEFINE at == At(out, CoreMax)
           m == Cardinality(at)
           Place(i) == Cardinality({j \in at : j <= i})
           s == [k \in 1 .. m |-> out[CHOOSE i \in at : Place(i) = k].id]
           On(x) == \E i \in at : out[i].id = x
<1>1. DOMAIN out = 1 .. Len(out) /\ Len(out) \in Nat
  BY SeqIsFunction DEF TypeInv
<1>2. at \subseteq 1 .. Len(out) /\ at \subseteq DOMAIN out
  BY <1>1 DEF At
<1>3. IsFiniteSet(at) /\ at \in SUBSET Nat
  <2>1. IsFiniteSet(1 .. Len(out))
    BY <1>1, FS_Interval
  <2> HIDE DEF at
  <2>2. IsFiniteSet(at)
    BY <1>2, <2>1, FS_Subset
  <2> QED
    BY <1>2, <2>2
<1>4. m \in Nat
  <2> HIDE DEF at
  <2> QED
    BY <1>3, FS_CardinalityType
<1>5. Candidates = SortUtil(s)
  BY DEF Candidates
<1> HIDE DEF at
<1>6. \A k \in 1 .. m : \E i \in at : Place(i) = k
  <2>1. \A k \in 1 .. m : \E i \in at : PlaceIn(at, i) = k
    BY <1>3, PlacesAreOnto
  <2> QED
    BY <2>1 DEF PlaceIn
<1>7. \A k \in 1 .. m : s[k] \in Ids /\ On(s[k])
  <2> TAKE k \in 1 .. m
  <2> DEFINE i == CHOOSE i \in at : Place(i) = k
  <2>1. i \in at
    BY <1>6
  <2>2. s[k] = out[i].id
    OBVIOUS
  <2> HIDE DEF i, s
  <2> QED
    BY <1>2, <2>1, <2>2 DEF TypeInv
<1> HIDE DEF m
<1>8. s \in Seq(Ids) /\ Len(s) = m
  <2>1. s \in [1 .. m -> Ids]
    BY <1>7
  <2> HIDE DEF s
  <2> QED
    BY <1>4, <2>1, FunctionIsSeq
<1> HIDE DEF s, On
<1>9. Reorders(Candidates, s)
  <2>1. \A x \in Ids : tasks[x].util \in Int
    BY TaskTypes
  <2> QED
    BY <1>5, <1>8, <2>1, SortUtilSorts
<1>10. /\ DOMAIN Candidates = 1 .. m
       /\ \A k \in 1 .. m : \E i \in 1 .. m : Candidates[k] = s[i]
  <2>1. DOMAIN Candidates = 1 .. Len(s)
    BY <1>8, <1>9, ReorderedSeq
  <2>2. PICK p \in Reorderings(Len(s)) : Candidates = [k \in 1 .. Len(s) |-> s[p[k]]]
    BY <1>9 DEF Reorders
  <2>3. p \in [1 .. m -> 1 .. m]
    BY <1>8 DEF Reorderings
  <2> QED
    BY <1>8, <2>1, <2>2, <2>3
<1>11. PICK i \in 1 .. m : Candidates[n] = s[i]
  BY <1>10
<1> QED
  BY <1>2, <1>7, <1>11 DEF On, at, At

\* The program fails while it balances.
LEMMA BalanceFailsStep ==
  ASSUME TaskInv, TypeInv, PhaseInv, OwnInv, FloorInv, BalanceFails
  PROVE  /\ TypeInv' /\ PhaseInv' /\ StatInv'
         /\ HighClusters' /\ LendInv' /\ OwnInv' /\ LowInv' /\ FloorInv'
<1>1. /\ phase = "balance" /\ phase' = "failed" /\ option' = option /\ tasks' = tasks
      /\ info' = info /\ stat' = stat /\ parted' = parted /\ possible' = possible /\ fit' = fit
      /\ lowcore' = lowcore /\ low' = low /\ cur' = cur /\ moved' = moved /\ out' = out /\ sched' = sched
  BY DEF BalanceFails, input, highs, lows
<1>2. Ids' = Ids /\ (\A x : IsHigh(x)' = IsHigh(x))
  BY <1>1, SameTasks
<1>3. TypeInv'
  BY <1>1, <1>2 DEF TypeInv
<1>4. (InOrder' <=> InOrder) /\ Parallel' = Parallel /\ (\A x : Floor(x)' = Floor(x))
  BY <1>1, <1>2 DEF InOrder, Parallel, Floor, Tight, Size
<1>5. OwnInv'
  BY <1>1, <1>2, <1>4 DEF OwnInv, Apart
<1>6. FloorInv'
  BY <1>1, <1>2, <1>4 DEF FloorInv, Floor, Tight, Size
<1> QED
  BY <1>1, <1>3, <1>5, <1>6 DEF PhaseInv, StatInv, HighClusters, LendInv, LowInv

\* The task id, at x in the list, is moved.
Moves(id, x, mint) ==
  /\ out[x].id = id /\ out[x].first = CoreMax /\ ~ IsHigh(id)
  /\ stat' = [stat EXCEPT
       ![CoreMin] = [np |-> @.np + 1, sumutil |-> @.sumutil + tasks[id].util, mint |-> mint],
       ![CoreMax] = Removed(@, id)]
  /\ moved' = [moved EXCEPT ![CoreMin] = SortPeriod(Append(@, id))]
  /\ out' = RemoveAt(out, x)

\* The list of the core that receives a task, which is sorted by period.
LEMMA SortedWith ==
  ASSUME TaskInv, NEW s \in Seq(Ids), NEW x \in Ids
  PROVE  LET r == SortPeriod(Append(s, x))
         IN  /\ r \in Seq(Ids) /\ (\A y : y \in ToSet(r) <=> y \in ToSet(s) \/ y = x)
             /\ Distinct(s) /\ x \notin ToSet(s) => Distinct(r)
             /\ \A k, l \in DOMAIN r : k <= l => tasks[r[k]].period <= tasks[r[l]].period
<1> DEFINE t == Append(s, x)
           r == SortPeriod(t)
<1>1. /\ t \in Seq(Ids) /\ (Distinct(s) /\ x \notin ToSet(s) => Distinct(t))
      /\ \A y : y \in ToSet(t) <=> y \in ToSet(s) \/ y = x
  BY AppendFresh
<1> HIDE DEF t
<1>2. /\ Reorders(r, t)
      /\ \A k, l \in 1 .. Len(t) : k <= l => tasks[r[k]].period <= tasks[r[l]].period
  <2>1. \A y \in Ids : tasks[y].period \in Int
    BY TaskTypes
  <2> QED
    BY <1>1, <2>1, SortPeriodSorts
<1> HIDE DEF r
<1>3. r \in Seq(Ids) /\ DOMAIN r = 1 .. Len(t)
  BY <1>1, <1>2, ReorderedSeq
<1>4. ToSet(r) = ToSet(t) /\ (Distinct(t) => Distinct(r))
  BY <1>1, <1>2, ReorderedSet
<1>5. /\ r \in Seq(Ids) /\ (\A y : y \in ToSet(r) <=> y \in ToSet(s) \/ y = x)
      /\ Distinct(s) /\ x \notin ToSet(s) => Distinct(r)
      /\ \A k, l \in DOMAIN r : k <= l => tasks[r[k]].period <= tasks[r[l]].period
  BY <1>1, <1>2, <1>3, <1>4
<1> QED
  BY <1>5 DEF r, t

\* A move takes one low task of the fullest core from the list.
LEMMA MovedTask ==
  ASSUME TaskInv, TypeInv, PhaseInv, Move
  PROVE  \E id \in Ids, x \in DOMAIN out : \E mint : Moves(id, x, mint)
<1> DEFINE n == Min(Movable)
           id == Candidates[n]
           y == CHOOSE i \in DOMAIN out : out[i].id = id
<1>1. phase = "balance" /\ Unbalanced /\ ~ NoPeriod /\ Movable # {}
  BY DEF Move
<1>2. BalancePhase
  BY <1>1 DEF PhaseInv
<1>3. Movable \subseteq DOMAIN Candidates
  BY DEF Movable
<1>4. Movable \subseteq 1 .. Cardinality(At(out, CoreMax)) /\ Cardinality(At(out, CoreMax)) \in Nat
  <2>1. DOMAIN Candidates = 1 .. Cardinality(At(out, CoreMax))
    BY Zenon DEF Candidates, SortUtil, SortOn
  <2>2. Cardinality(At(out, CoreMax)) \in Nat
    <3>1. DOMAIN out = 1 .. Len(out) /\ Len(out) \in Nat
      BY SeqIsFunction DEF TypeInv
    <3>2. IsFiniteSet(1 .. Len(out))
      BY <3>1, FS_Interval
    <3>3. At(out, CoreMax) \subseteq 1 .. Len(out)
      BY <3>1 DEF At
    <3>4. IsFiniteSet(At(out, CoreMax))
      BY <3>2, <3>3, FS_Subset
    <3> QED
      BY <3>4, FS_CardinalityType
  <2> QED
    BY <1>3, <2>1, <2>2
<1>5. n \in Movable
  BY <1>1, <1>4, LeastMember
<1>6. n \in DOMAIN Candidates
  BY <1>3, <1>5
<1>7. ~ IsHigh(id)
  BY <1>1, <1>6 DEF NoPeriod
<1>8. /\ stat' = [stat EXCEPT
           ![CoreMin] = [np |-> @.np + 1, sumutil |-> @.sumutil + tasks[id].util, mint |-> MintAfter(n)],
           ![CoreMax] = Removed(@, id)]
      /\ moved' = [moved EXCEPT ![CoreMin] = SortPeriod(Append(@, id))]
      /\ out' = RemoveAt(out, y)
  BY Zenon DEF Move
<1> HIDE DEF n
<1>9. id \in Ids /\ \E i \in DOMAIN out : out[i].id = id /\ out[i].first = CoreMax
  BY <1>1, <1>6, CandidateIsThere
<1> HIDE DEF id
<1>10. y \in DOMAIN out /\ out[y].id = id
  BY <1>9
<1> HIDE DEF y
<1>11. out[y].first = CoreMax
  BY <1>2, <1>9, <1>10 DEF BalancePhase, DistinctIds
<1>12. Moves(id, y, MintAfter(n))
  BY <1>7, <1>8, <1>10, <1>11 DEF Moves
<1> QED
  BY <1>9, <1>10, <1>12

\* A task is moved: the statistics of both cores change with it (lib_cluster.py:378-401).
LEMMA MoveStep ==
  ASSUME TaskInv, TypeInv, PhaseInv, StatInv, OwnInv, LowInv, FloorInv, Move
  PROVE  /\ TypeInv' /\ PhaseInv' /\ StatInv'
         /\ HighClusters' /\ LendInv' /\ OwnInv' /\ LowInv' /\ FloorInv'
<1> DEFINE N == Len(out)
           A == CoreMin
           B == CoreMax
<1>1. /\ phase = "balance" /\ phase' = "balance" /\ Unbalanced /\ option' = option /\ tasks' = tasks
      /\ info' = info /\ parted' = parted /\ possible' = possible /\ fit' = fit
      /\ lowcore' = lowcore /\ low' = low /\ cur' = cur /\ sched' = sched
  BY DEF Move, input, highs, lows
<1>2. BalancePhase
  BY <1>1 DEF PhaseInv
<1>3. B \in Cores /\ A \in Cores /\ A # B /\ A \in ToSet(lowcore) /\ \A i \in DOMAIN out : out[i].first # A
  BY <1>1, SourceAndTarget
<1>a. PICK id \in Ids, x \in DOMAIN out : \E mint : Moves(id, x, mint)
  BY MovedTask
<1>b. PICK mint : Moves(id, x, mint)
  BY <1>a
<1>4. /\ out[x].id = id /\ out[x].first = B /\ ~ IsHigh(id)
      /\ stat' = [stat EXCEPT
           ![A] = [np |-> @.np + 1, sumutil |-> @.sumutil + tasks[id].util, mint |-> mint],
           ![B] = Removed(@, id)]
      /\ moved' = [moved EXCEPT ![A] = SortPeriod(Append(@, id))]
      /\ out' = RemoveAt(out, x)
  BY <1>b, Zenon DEF Moves
<1> HIDE DEF A, B
<1>5. out \in Seq(Entry) /\ N \in Nat /\ DOMAIN out = 1 .. N
  BY SeqIsFunction DEF TypeInv
<1> DEFINE h == Skip(N, x)
<1>6. /\ out' \in Seq(Entry) /\ DOMAIN out' = 1 .. N - 1
      /\ (\A i \in 1 .. N - 1 : h[i] \in 1 .. N /\ h[i] # x /\ out'[i] = out[h[i]])
      /\ (\A i, j \in 1 .. N - 1 : h[i] = h[j] => i = j)
      /\ (\A j \in 1 .. N : j # x => \E i \in 1 .. N - 1 : h[i] = j)
  <2>1. x \in 1 .. Len(out)
    BY <1>5
  <2>2. out \in Seq(Entry)
    BY <1>5
  <2> DEFINE r == RemoveAt(out, x)
  <2>3. r \in Seq(Entry) /\ Removes(r, out, x)
    BY <2>1, <2>2, RemoveAtSeq
  <2>4. out' = r
    BY <1>4
  <2> HIDE DEF r
  <2>5. /\ DOMAIN r = 1 .. N - 1
        /\ (\A i \in 1 .. N - 1 : h[i] \in 1 .. N /\ h[i] # x /\ r[i] = out[h[i]])
        /\ (\A i, j \in 1 .. N - 1 : h[i] = h[j] => i = j)
        /\ (\A j \in 1 .. N : j # x => \E i \in 1 .. N - 1 : h[i] = j)
    BY <2>3 DEF Removes
  <2> QED
    BY <2>3, <2>4, <2>5
<1> HIDE DEF N, h
<1>7. Ids' = Ids /\ (\A y : IsHigh(y)' = IsHigh(y)) /\ (\A ids : Load(ids)' = Load(ids))
  BY <1>1, SameTasks
<1>8. tasks[id].util \in Nat
  BY TaskTypes
<1>9. \A i \in DOMAIN out' : out'[i] = out[h[i]] /\ h[i] \in DOMAIN out /\ h[i] # x
  BY <1>5, <1>6
\* What is left in the list.
<1> DEFINE Lists1(y) == \E i \in DOMAIN out' : out'[i].id = y
<1>10. \A y : Lists1(y) <=> Listed(y) /\ y # id
  <2> TAKE y
  <2>2. ASSUME NEW i \in DOMAIN out', out'[i].id = y PROVE Listed(y) /\ y # id
    <3>1. out[h[i]].id = y /\ h[i] \in DOMAIN out /\ h[i] # x
      BY <1>9, <2>2
    <3> QED
      BY <1>2, <1>4, <3>1 DEF Listed, BalancePhase, DistinctIds
  <2>3. ASSUME NEW j \in DOMAIN out, out[j].id = y, y # id PROVE \E i \in DOMAIN out' : out'[i].id = y
    <3>1. j # x /\ j \in 1 .. N
      BY <1>4, <1>5, <2>3
    <3>2. PICK i \in 1 .. N - 1 : h[i] = j
      BY <1>6, <3>1
    <3>3. out'[i] = out[j] /\ i \in DOMAIN out'
      BY <1>6, <3>2
    <3> QED
      BY <2>3, <3>3
  <2> QED
    BY <2>2, <2>3 DEF Listed
<1> HIDE DEF Lists1
\* The tasks that were moved.
<1>11. /\ moved \in [Cores -> Seq(Ids)] /\ moved[A] \in Seq(Ids) /\ Distinct(moved[A])
       /\ \A c \in Cores : \A k \in DOMAIN moved[c] : moved[c][k] # id
  <2>1. moved \in [Cores -> Seq(Ids)] /\ moved[A] \in Seq(Ids)
    BY <1>3 DEF TypeInv
  <2>2. Distinct(moved[A])
    BY <1>2, <1>3 DEF BalancePhase
  <2>3. \E i \in DOMAIN out : out[i].id = id
    BY <1>4
  <2>4. Listed(id)
    BY <2>3 DEF Listed
  <2>5. \A c \in Cores : \A k \in DOMAIN moved[c] : ~ Listed(moved[c][k])
    BY <1>2 DEF BalancePhase
  <2> QED
    BY <2>1, <2>2, <2>4, <2>5
<1> DEFINE u == SortPeriod(Append(moved[A], id))
<1>12. u \in Seq(Ids) /\ Distinct(u) /\ \A y : y \in ToSet(u) <=> y \in ToSet(moved[A]) \/ y = id
  <2>1. id \notin ToSet(moved[A])
    BY <1>3, <1>11, InToSet
  <2> QED
    BY <1>11, <2>1, SortedWith
<1>13. moved'[A] = u /\ moved' \in [Cores -> Seq(Ids)] /\ \A c \in Cores : c # A => moved'[c] = moved[c]
  <2>1. moved' = [moved EXCEPT ![A] = u]
    BY <1>4
  <2> HIDE DEF u
  <2> QED
    BY <1>3, <1>11, <1>12, <2>1
<1> HIDE DEF u
<1>14. \A c \in Cores : \A y : y \in ToSet(moved'[c]) <=> y \in ToSet(moved[c]) \/ (c = A /\ y = id)
  BY <1>3, <1>12, <1>13
<1>15. \A c \in Cores : id \notin ToSet(moved[c])
  BY <1>11, InToSet
<1>16. BalancePhase'
  <2>1. DistinctIds(out')
    <3> SUFFICES ASSUME NEW i \in DOMAIN out', NEW j \in DOMAIN out', out'[i].id = out'[j].id PROVE i = j
      BY DEF DistinctIds
    <3>1. h[i] = h[j]
      BY <1>2, <1>9 DEF BalancePhase, DistinctIds
    <3> QED
      BY <1>6, <3>1
  <2>2. \A c \in Cores : Distinct(moved'[c])
    BY <1>2, <1>3, <1>12, <1>13 DEF BalancePhase
  <2>3. \A c \in Cores : \A k \in DOMAIN moved'[c] : ~ Lists1(moved'[c][k]) /\ ~ IsHigh(moved'[c][k])
    <3> TAKE c \in Cores
    <3> TAKE k \in DOMAIN moved'[c]
    <3> DEFINE y == moved'[c][k]
    <3>1. y \in ToSet(moved'[c])
      BY InToSet
    <3>2. CASE y = id
      BY <1>4, <1>10, <3>2
    <3>3. CASE y \in ToSet(moved[c])
      <4>1. PICK l \in DOMAIN moved[c] : moved[c][l] = y
        BY <3>3, InToSet
      <4>2. ~ Listed(y) /\ ~ IsHigh(y)
        BY <1>2, <4>1 DEF BalancePhase
      <4> QED
        BY <1>10, <4>2
    <3> QED
      BY <1>14, <3>1, <3>2, <3>3
  <2>4. \A c \in Cores : moved'[c] # <<>> => c \in ToSet(lowcore)
    BY <1>2, <1>3, <1>13 DEF BalancePhase
  <2>5. \A c, d \in Cores : c # d => ToSet(moved'[c]) \cap ToSet(moved'[d]) = {}
    <3> SUFFICES ASSUME NEW c \in Cores, NEW d \in Cores, c # d,
                        NEW y, y \in ToSet(moved'[c]), y \in ToSet(moved'[d])
                 PROVE  FALSE
      OBVIOUS
    <3>1. ToSet(moved[c]) \cap ToSet(moved[d]) = {}
      BY <1>2 DEF BalancePhase
    <3> QED
      BY <1>14, <1>15, <3>1
  <2>6. \A y \in Ids : Lists1(y) \/ \E c \in Cores : y \in ToSet(moved'[c])
    <3> TAKE y \in Ids
    <3>1. CASE y = id
      <4>1. y \in ToSet(moved'[A])
        BY <1>3, <1>14, <3>1
      <4> QED
        BY <1>3, <4>1
    <3>2. CASE y # id
      <4>1. Listed(y) \/ \E c \in Cores : y \in ToSet(moved[c])
        BY <1>2 DEF BalancePhase
      <4> QED
        BY <1>10, <1>14, <3>2, <4>1
    <3> QED
      BY <3>1, <3>2
  <2>7. (\A c \in Cores : /\ Distinct(moved[c])
                          /\ \A k \in DOMAIN moved[c] : ~ Listed(moved[c][k]) /\ ~ IsHigh(moved[c][k])
                          /\ moved[c] # <<>> => c \in ToSet(lowcore))'
    <3>1. ToSet(lowcore)' = ToSet(lowcore)
      BY <1>1 DEF ToSet
    <3> QED
      <4>1. (\A c \in Cores : Distinct(moved[c]))'
        BY <2>2 DEF Distinct
      <4>2. (\A c \in Cores : \A k \in DOMAIN moved[c] : ~ Listed(moved[c][k]))'
        BY <2>3 DEF Listed, Lists1
      <4>3. (\A c \in Cores : \A k \in DOMAIN moved[c] : ~ IsHigh(moved[c][k]))'
        BY <1>1, <2>3 DEF IsHigh, Threshold
      <4>4. (\A c \in Cores : moved[c] # <<>> => c \in ToSet(lowcore))'
        BY <2>4, <3>1
      <4> QED
        BY <4>1, <4>2, <4>3, <4>4
  <2>8. (\A c, d \in Cores : c # d => ToSet(moved[c]) \cap ToSet(moved[d]) = {})'
    BY <2>5 DEF ToSet
  <2>9. (\A y \in Ids : Listed(y) \/ \E c \in Cores : y \in ToSet(moved[c]))'
    BY <1>7, <2>6 DEF ToSet, Listed, Lists1
  <2>10. DistinctIds(out)' /\ lowcore' # <<>> /\ Distinct(lowcore)' /\ sched' = 0
    BY <1>1, <1>2, <2>1 DEF BalancePhase, DistinctIds, Distinct
  <2> QED
    BY <2>7, <2>8, <2>9, <2>10 DEF BalancePhase
<1>17. /\ DOMAIN stat = Cores /\ DOMAIN stat' = Cores /\ stat' = [c \in Cores |-> stat'[c]]
       /\ (\A c \in Cores : c # A /\ c # B => stat'[c] = stat[c])
       /\ stat'[A] = [np |-> stat[A].np + 1, sumutil |-> stat[A].sumutil + tasks[id].util, mint |-> mint]
       /\ stat'[B] = [stat[B] EXCEPT !.np = stat[B].np - 1, !.sumutil = stat[B].sumutil - tasks[id].util]
  <2>1. DOMAIN stat = Cores
    BY DEF TypeInv
  <2> DEFINE f == [np |-> stat[A].np + 1, sumutil |-> stat[A].sumutil + tasks[id].util, mint |-> mint]
             g == [stat[B] EXCEPT !.np = stat[B].np - 1, !.sumutil = stat[B].sumutil - tasks[id].util]
  <2>2. stat' = [stat EXCEPT ![A] = f, ![B] = g]
    <3>1. stat' = [stat EXCEPT
           ![A] = [np |-> @.np + 1, sumutil |-> @.sumutil + tasks[id].util, mint |-> mint],
           ![B] = Removed(@, id)]
      BY <1>4, Zenon
    <3>2. stat' = [stat EXCEPT ![A] = f, ![B] = Removed(stat[B], id)]
      BY <3>1, Zenon
    <3> QED
      BY <3>2 DEF Removed
  <2> HIDE DEF f, g
  <2>3. /\ DOMAIN stat' = Cores /\ stat' = [c \in Cores |-> stat'[c]]
        /\ (\A c \in Cores : c # A /\ c # B => stat'[c] = stat[c]) /\ stat'[A] = f /\ stat'[B] = g
    BY <1>3, <2>1, <2>2
  <2> QED
    BY <2>1, <2>3 DEF f, g
<1>18. /\ stat'[B].np = stat[B].np - 1 /\ stat'[B].sumutil = stat[B].sumutil - tasks[id].util
       /\ stat'[A].np = stat[A].np + 1 /\ stat'[A].sumutil = stat[A].sumutil + tasks[id].util
       /\ stat'[A] = [np |-> stat'[A].np, sumutil |-> stat'[A].sumutil, mint |-> stat'[A].mint]
       /\ stat'[B] = [np |-> stat'[B].np, sumutil |-> stat'[B].sumutil, mint |-> stat'[B].mint]
  <2>1. stat[B] = [np |-> stat[B].np, sumutil |-> stat[B].sumutil, mint |-> stat[B].mint]
    BY <1>3 DEF TypeInv
  <2>2. stat'[B] = [np |-> stat[B].np - 1, sumutil |-> stat[B].sumutil - tasks[id].util, mint |-> stat[B].mint]
    BY <1>17, <2>1
  <2> QED
    BY <1>17, <2>2
\* The tasks that are counted.
<1>19. \A c \in Cores : \A y : y \in LowIn(out', c) <=> y \in LowIn(out, c) /\ y # id
  <2> TAKE c \in Cores
  <2> TAKE y
  <2>1. ASSUME y \in LowIn(out', c) PROVE y \in LowIn(out, c) /\ y # id
    <3>1. PICK i \in DOMAIN out' : out'[i].id = y /\ out'[i].first = c /\ ~ IsHigh(out'[i].id)
      BY <2>1 DEF LowIn
    <3>2. out'[i] = out[h[i]] /\ h[i] \in DOMAIN out /\ h[i] # x
      BY <1>9
    <3>3. y # id
      BY <1>2, <1>4, <3>1, <3>2 DEF BalancePhase, DistinctIds
    <3> QED
      BY <3>1, <3>2, <3>3 DEF LowIn
  <2>2. ASSUME y \in LowIn(out, c), y # id PROVE y \in LowIn(out', c)
    <3>1. PICK j \in DOMAIN out : out[j].id = y /\ out[j].first = c /\ ~ IsHigh(out[j].id)
      BY <2>2 DEF LowIn
    <3>2. j # x /\ j \in 1 .. N
      BY <1>4, <1>5, <2>2, <3>1
    <3>3. PICK i \in 1 .. N - 1 : h[i] = j
      BY <1>6, <3>2
    <3>4. i \in DOMAIN out' /\ out'[i] = out[j]
      BY <1>6, <3>3
    <3> QED
      BY <3>1, <3>4 DEF LowIn
  <2> QED
    BY <2>1, <2>2
<1> DEFINE K(c) == LowIn(out, c) \cup ToSet(moved[c])
           K1(c) == LowIn(out', c) \cup ToSet(moved'[c])
<1>20. \A c \in Cores : K(c) \in SUBSET Ids
  <2> TAKE c \in Cores
  <2>1. LowIn(out, c) \subseteq Ids
    BY ZenonT(60) DEF LowIn, TypeInv
  <2>2. ToSet(moved[c]) \subseteq Ids
    <3>1. moved[c] \in Seq(Ids)
      BY <1>11
    <3>2. \A i \in DOMAIN moved[c] : moved[c][i] \in Ids
      BY <3>1, SeqIsFunction
    <3> QED
      BY <3>2, InToSet
  <2> QED
    BY <2>1, <2>2
<1>21. \A c \in Cores : c # A => LowIn(out', c) \cup ToSet(moved'[c]) = K(c) \ {id}
  <2> TAKE c \in Cores
  <2> HAVE c # A
  <2>1. \A y : y \in K1(c) <=> y \in K(c) /\ y # id
    BY <1>14, <1>15, <1>19
  <2> QED
    BY <2>1
<1>22. LowIn(out', A) \cup ToSet(moved'[A]) = K(A) \cup {id} /\ id \notin K(A)
  <2>1. \A y : y \notin LowIn(out, A)
    BY <1>3 DEF LowIn
  <2>2. \A y : y \in K1(A) <=> y \in K(A) \/ y = id
    BY <1>3, <1>14, <1>19, <2>1
  <2> QED
    BY <1>3, <1>15, <2>1, <2>2
<1>23. id \in K(B) /\ \A c \in Cores : c # B => id \notin K(c)
  <2>1. id \in LowIn(out, B)
    BY <1>4 DEF LowIn
  <2>2. \A c \in Cores : c # B => id \notin LowIn(out, c)
    <3> SUFFICES ASSUME NEW c \in Cores, c # B, id \in LowIn(out, c) PROVE FALSE
      OBVIOUS
    <3>1. PICK j \in DOMAIN out : out[j].id = id /\ out[j].first = c
      BY DEF LowIn
    <3>2. j = x
      BY <1>2, <1>4, <3>1 DEF BalancePhase, DistinctIds
    <3> QED
      BY <1>4, <3>1, <3>2
  <2> QED
    BY <1>15, <2>1, <2>2
<1>24. \A c \in Cores : stat[c].np = Cardinality(K(c)) /\ stat[c].sumutil = Load(K(c))
  BY <1>1 DEF StatInv, Counted
<1> HIDE DEF K
<1>25. ASSUME NEW c \in Cores
       PROVE  /\ stat'[c].np = Cardinality(K1(c)) /\ stat'[c].sumutil = Load(K1(c))
              /\ stat'[c].np \in Nat /\ stat'[c].sumutil \in Int
  <2> DEFINE s == K(c)
  <2>0. s \in SUBSET Ids /\ stat[c].np = Cardinality(s) /\ stat[c].sumutil = Load(s)
    BY <1>20, <1>24
  <2>1. CASE c = A
    <3>1. id \notin s
      BY <1>22, <2>1
    <3> HIDE DEF s
    <3>2. /\ Load(s \cup {id}) = Load(s) + tasks[id].util
          /\ Cardinality(s \cup {id}) = Cardinality(s) + 1
          /\ Load(s) \in Nat /\ Cardinality(s) \in Nat
      BY <2>0, <3>1, LoadAdd
    <3>3. K1(c) = s \cup {id}
      BY <1>22, <2>1 DEF s
    <3>4. stat'[c].np = Cardinality(s) + 1 /\ stat'[c].sumutil = Load(s) + tasks[id].util
      BY <1>18, <2>0, <2>1
    <3> HIDE DEF K1
    <3>5. stat'[c].np = Cardinality(s \cup {id}) /\ stat'[c].sumutil = Load(s \cup {id})
      BY <3>2, <3>4
    <3>6. stat'[c].np \in Nat /\ stat'[c].sumutil \in Int
      BY <1>8, <3>2, <3>4
    <3> QED
      BY <3>3, <3>5, <3>6
  <2>2. CASE c = B
    <3>1. id \in s
      BY <1>23, <2>2
    <3> HIDE DEF s
    <3>2. /\ Load(s \ {id}) = Load(s) - tasks[id].util
          /\ Cardinality(s \ {id}) = Cardinality(s) - 1 /\ Cardinality(s) > 0
          /\ Load(s) \in Nat /\ Cardinality(s) \in Nat
      BY <2>0, <3>1, LoadRemove
    <3>3. K1(c) = s \ {id}
      BY <1>3, <1>21, <2>2 DEF s
    <3>4. stat'[c].np = Cardinality(s) - 1 /\ stat'[c].sumutil = Load(s) - tasks[id].util
      BY <1>18, <2>0, <2>2
    <3> HIDE DEF K1
    <3>5. stat'[c].np = Cardinality(s \ {id}) /\ stat'[c].sumutil = Load(s \ {id})
      BY <3>2, <3>4
    <3>6. stat'[c].np \in Nat /\ stat'[c].sumutil \in Int
      BY <1>8, <3>2, <3>4
    <3> QED
      BY <3>3, <3>5, <3>6
  <2>3. CASE c # A /\ c # B
    <3>1. K1(c) = s
      <4>1. K1(c) = s \ {id} /\ id \notin s
        BY <1>21, <1>23, <2>3
      <4> QED
        BY <4>1
    <3>2. stat'[c] = stat[c]
      BY <1>17, <2>3
    <3> QED
      BY <2>0, <3>1, <3>2 DEF TypeInv
  <2> QED
    BY <2>1, <2>2, <2>3
<1>26. StatInv'
  <2>1. \A c \in Cores : Counted(c)' = K1(c)
    <3>1. \A o, c : LowIn(o, c)' = LowIn(o, c)
      BY <1>1, SameTasks
    <3> QED
      BY <1>7 DEF Counted, LowIn, ToSet
  <2>2. \A c \in Cores : Load(Counted(c))' = Load(K1(c))
    BY <1>1, <2>1 DEF Load
  <2> HIDE DEF K1
  <2> QED
    BY <1>25, <2>1, <2>2 DEF StatInv
<1> HIDE DEF K1
<1>27. TypeInv'
  <2>1. \A i \in DOMAIN out' : out'[i].id \in Ids
    BY <1>9, ZenonT(60) DEF TypeInv
  <2>2. \A c \in Cores :
          /\ stat'[c] = [np |-> stat'[c].np, sumutil |-> stat'[c].sumutil, mint |-> stat'[c].mint]
          /\ stat'[c].np \in Nat /\ stat'[c].sumutil \in Int
    <3> TAKE c \in Cores
    <3>1. stat'[c] = [np |-> stat'[c].np, sumutil |-> stat'[c].sumutil, mint |-> stat'[c].mint]
      <4>1. CASE c # A /\ c # B
        BY <1>17, <4>1 DEF TypeInv
      <4> QED
        BY <1>18, <4>1
    <3> QED
      BY <1>25, <3>1
  <2> QED
    BY <1>1, <1>6, <1>7, <1>13, <1>17, <2>1, <2>2 DEF TypeInv
<1>28. OwnInv'
  <2> SUFFICES ASSUME NEW i \in DOMAIN out', IsHigh(out'[i].id)
               PROVE  /\ \A j \in DOMAIN out' : i # j => Apart(out'[i], out'[j])
                      /\ \A c \in ToSet(lowcore) : c < out'[i].first \/ out'[i].last < c
    <3>1. ToSet(lowcore)' = ToSet(lowcore)
      BY <1>1 DEF ToSet
    <3> QED
      BY <1>7, <3>1 DEF OwnInv, Apart
  <2>1. h[i] \in DOMAIN out /\ IsHigh(out[h[i]].id) /\ out'[i] = out[h[i]]
    BY <1>9
  <2>2. sched # 1
    BY <1>2 DEF BalancePhase
  <2>3. \A j \in DOMAIN out' : i # j => Apart(out'[i], out'[j])
    <3> TAKE j \in DOMAIN out'
    <3> HAVE i # j
    <3>1. h[j] \in DOMAIN out /\ out'[j] = out[h[j]] /\ h[i] # h[j]
      BY <1>6, <1>9
    <3> QED
      BY <2>1, <2>2, <3>1 DEF OwnInv
  <2> QED
    BY <1>1, <2>1, <2>2, <2>3 DEF OwnInv
<1>29. LowInv'
  <2>1. ToSet(lowcore)' = ToSet(lowcore)
    BY <1>1 DEF ToSet
  <2>2. \A i \in DOMAIN out' : ~ IsHigh(out'[i].id) =>
           out'[i].first \in ToSet(lowcore) /\ out'[i].last = out'[i].first
    BY <1>1, <1>9 DEF LowInv
  <2> QED
    BY <1>7, <2>1, <2>2 DEF LowInv
<1>30. FloorInv'
  <2>1. Parallel' = Parallel /\ (\A y : Floor(y)' = Floor(y))
    BY <1>1 DEF Parallel, Floor, Tight, Size
  <2>2. Parallel /\ fit = "none" => \A i \in DOMAIN out' : IsHigh(out'[i].id) => Floor(out'[i])
    BY <1>9 DEF FloorInv
  <2> QED
    BY <1>1, <1>7, <2>1, <2>2 DEF FloorInv, Floor, Tight, Size
<1>31. PhaseInv'
  BY <1>1, <1>16 DEF PhaseInv
<1> QED
  BY <1>1, <1>26, <1>27, <1>28, <1>29, <1>30, <1>31 DEF HighClusters, LendInv

\* The entry of the i-th task that was moved to a core.
SettledAt(c, i) == [id |-> moved[c][i], prio |-> 98 - i, first |-> c, last |-> c]

\* The entries of the tasks that were moved to one core.
LEMMA SettledSeq ==
  ASSUME TaskInv, TypeInv, BalancePhase, NEW c \in Cores
  PROVE  /\ Settled(c) \in Seq(Entry) /\ Distinct(Settled(c))
         /\ \A x : x \in ToSet(Settled(c)) <=> \E i \in DOMAIN moved[c] : x = SettledAt(c, i)
<1> DEFINE n == Len(moved[c])
           s == Settled(c)
<1>1. moved[c] \in Seq(Ids) /\ Distinct(moved[c])
  BY DEF TypeInv, BalancePhase
<1>2. n \in Nat /\ DOMAIN moved[c] = 1 .. n /\ \A i \in 1 .. n : moved[c][i] \in Ids
  BY <1>1, SeqIsFunction
<1>3. s = [i \in 1 .. n |-> SettledAt(c, i)]
  BY <1>2 DEF Settled, SettledAt
<1>4. Ids \subseteq Nat
  BY IdsAreNumbers DEF TaskInv
<1>5. \A i \in 1 .. n : SettledAt(c, i) \in Entry
  <2> TAKE i \in 1 .. n
  <2>1. moved[c][i] \in Nat
    BY <1>2, <1>4
  <2>2. 98 - i \in Int
    BY <1>2
  <2>3. c \in Int
    BY Constants DEF Cores
  <2> QED
    BY <2>1, <2>2, <2>3 DEF SettledAt, Entry
<1>6. s \in [1 .. n -> Entry]
  BY <1>3, <1>5
<1>7. s \in Seq(Entry) /\ DOMAIN s = 1 .. n
  <2> HIDE DEF s, n
  <2> QED
    BY <1>2, <1>6, FunctionIsSeq
<1>8. \A i \in 1 .. n : s[i] = SettledAt(c, i) /\ s[i].id = moved[c][i]
  BY <1>3 DEF SettledAt
<1> HIDE DEF s, n
<1>9. Distinct(s)
  BY <1>1, <1>2, <1>7, <1>8 DEF Distinct
<1>10. \A x : x \in ToSet(s) <=> \E i \in DOMAIN moved[c] : x = SettledAt(c, i)
  <2>1. \A x : x \in ToSet(s) <=> \E i \in DOMAIN s : s[i] = x
    BY InToSet
  <2> QED
    BY <1>2, <1>7, <1>8, <2>1
<1> QED
  BY <1>7, <1>9, <1>10 DEF s

\* All of these entries, core by core.
AllSettled == FlattenSeq([k \in DOMAIN lowcore |-> Settled(lowcore[k])])

\* The entries of all tasks that were moved.
LEMMA AllSettledSeq ==
  ASSUME TaskInv, TypeInv, BalancePhase
  PROVE  /\ AllSettled \in Seq(Entry) /\ Distinct(AllSettled)
         /\ \A x : x \in ToSet(AllSettled) <=>
              \E c \in ToSet(lowcore) : c \in Cores /\ \E i \in DOMAIN moved[c] : x = SettledAt(c, i)
<1> DEFINE n == Len(lowcore)
           ss == [k \in DOMAIN lowcore |-> Settled(lowcore[k])]
<1>1. lowcore \in Seq(Cores) /\ Distinct(lowcore) /\ lowcore # <<>>
  BY DEF TypeInv, BalancePhase
<1>2. n \in Nat /\ n # 0 /\ DOMAIN lowcore = 1 .. n /\ \A k \in 1 .. n : lowcore[k] \in Cores
  BY <1>1, SeqIsFunction
<1>3. \A k \in 1 .. n : Settled(lowcore[k]) \in Seq(Entry)
  BY <1>2, SettledSeq
<1>4. ss \in [1 .. n -> Seq(Entry)] /\ \A k \in 1 .. n : ss[k] = Settled(lowcore[k])
  BY <1>2, <1>3
<1>5. ss \in Seq(Seq(Entry)) /\ Len(ss) = n
  <2> HIDE DEF ss, n
  <2> QED
    BY <1>2, <1>4, FunctionIsSeq
<1>6. DOMAIN ss = 1 .. n
  BY <1>2
<1>7. AllSettled = FlattenSeq(ss)
  BY DEF AllSettled
<1> HIDE DEF ss, n
<1>8. ss # <<>>
  BY <1>2, <1>5
<1>9. \A k \in 1 .. n : Distinct(ss[k]) /\ \A x : x \in ToSet(ss[k]) <=>
         \E i \in DOMAIN moved[lowcore[k]] : x = SettledAt(lowcore[k], i)
  <2> TAKE k \in 1 .. n
  <2>1. lowcore[k] \in Cores /\ ss[k] = Settled(lowcore[k])
    BY <1>2, <1>4
  <2>2. Distinct(Settled(lowcore[k])) /\ \A x : x \in ToSet(Settled(lowcore[k])) <=>
         \E i \in DOMAIN moved[lowcore[k]] : x = SettledAt(lowcore[k], i)
    BY <2>1, SettledSeq
  <2> QED
    BY <2>1, <2>2
<1>10. Disjoint(ss)
  <2> SUFFICES ASSUME NEW k \in 1 .. n, NEW l \in 1 .. n, k # l, NEW x \in ToSet(ss[k]), x \in ToSet(ss[l])
               PROVE  FALSE
    BY <1>6 DEF Disjoint
  <2>1. PICK i : x = SettledAt(lowcore[k], i)
    BY <1>9
  <2>2. PICK j : x = SettledAt(lowcore[l], j)
    BY <1>9
  <2>3. x.first = lowcore[k]
    BY <2>1 DEF SettledAt
  <2>4. x.first = lowcore[l]
    BY <2>2 DEF SettledAt
  <2> QED
    BY <1>1, <1>2, <2>3, <2>4 DEF Distinct
<1>11. /\ FlattenSeq(ss) \in Seq(Entry)
       /\ \A x : x \in ToSet(FlattenSeq(ss)) <=> \E k \in DOMAIN ss : x \in ToSet(ss[k])
       /\ (\A k \in DOMAIN ss : Distinct(ss[k])) /\ Disjoint(ss) => Distinct(FlattenSeq(ss))
  BY <1>5, <1>8, FlatSeq
<1>12. Distinct(FlattenSeq(ss))
  BY <1>6, <1>9, <1>10, <1>11
<1>13. \A x : x \in ToSet(FlattenSeq(ss)) <=>
         \E c \in ToSet(lowcore) : c \in Cores /\ \E i \in DOMAIN moved[c] : x = SettledAt(c, i)
  <2>1. \A c : c \in ToSet(lowcore) <=> \E k \in 1 .. n : lowcore[k] = c
    BY <1>2, InToSet
  <2> TAKE x
  <2>2. x \in ToSet(FlattenSeq(ss)) <=> \E k \in 1 .. n : x \in ToSet(ss[k])
    BY <1>6, <1>11
  <2> QED
    BY <1>2, <1>9, <2>1, <2>2
<1> QED
  BY <1>7, <1>11, <1>12, <1>13

\* The tasks that were moved are listed again: the partition is complete (lib_cluster.py:409-418).
LEMMA BalancedStep ==
  ASSUME TaskInv, TypeInv, PhaseInv, OwnInv, FloorInv, Balanced
  PROVE  /\ TypeInv' /\ PhaseInv' /\ StatInv'
         /\ HighClusters' /\ LendInv' /\ OwnInv' /\ LowInv' /\ FloorInv'
<1> DEFINE N == Len(out)
           a == AllSettled
           M == Len(a)
<1>1. /\ phase = "balance" /\ phase' = "done" /\ option' = option /\ tasks' = tasks
      /\ info' = info /\ stat' = stat /\ parted' = parted /\ possible' = possible /\ fit' = fit
      /\ lowcore' = lowcore /\ low' = low /\ cur' = cur /\ moved' = moved /\ sched' = sched
  BY DEF Balanced, input, highs, lows
<1>2. out' = out \o a
  BY DEF Balanced, AllSettled
<1>3. BalancePhase /\ BalancePhase
  BY <1>1 DEF PhaseInv
<1>4. out \in Seq(Entry) /\ \A i \in DOMAIN out : out[i].id \in Ids
  BY DEF TypeInv
<1>5. /\ a \in Seq(Entry) /\ Distinct(a)
      /\ \A x : x \in ToSet(a) <=>
           \E c \in ToSet(lowcore) : c \in Cores /\ \E i \in DOMAIN moved[c] : x = SettledAt(c, i)
  BY <1>3, AllSettledSeq
<1> HIDE DEF a
<1>6. /\ out' \in Seq(Entry) /\ DOMAIN out' = 1 .. N + M
      /\ N \in Nat /\ DOMAIN out = 1 .. N /\ M \in Nat /\ DOMAIN a = 1 .. M
      /\ (\A i \in 1 .. N : out'[i] = out[i]) /\ (\A i \in 1 .. M : out'[N + i] = a[i])
      /\ \A i \in 1 .. N + M : i \in 1 .. N \/ \E j \in 1 .. M : i = N + j
  BY <1>2, <1>4, <1>5, ConcatSeq
<1> HIDE DEF N, M
<1>7. Ids' = Ids /\ (\A y : IsHigh(y)' = IsHigh(y))
  BY <1>1, SameTasks
\* What is known of an entry that is appended.
<1>8. ASSUME NEW j \in 1 .. M
      PROVE  \E c \in ToSet(lowcore) : \E i \in DOMAIN moved[c] : c \in Cores /\ a[j] = SettledAt(c, i)
  <2>1. a[j] \in ToSet(a)
    BY <1>6, InToSet
  <2> QED
    BY <1>5, <2>1
<1>9. ASSUME NEW j \in 1 .. M
      PROVE  /\ a[j].first = a[j].last /\ a[j].first \in ToSet(lowcore) /\ a[j].first \in Cores
             /\ a[j].id \in Ids /\ ~ Listed(a[j].id) /\ ~ IsHigh(a[j].id)
  <2>1. PICK c \in ToSet(lowcore) : \E i \in DOMAIN moved[c] : c \in Cores /\ a[j] = SettledAt(c, i)
    BY <1>8
  <2>2. PICK i \in DOMAIN moved[c] : c \in Cores /\ a[j] = SettledAt(c, i)
    BY <2>1
  <2>3. a[j].id = moved[c][i] /\ a[j].first = c /\ a[j].last = c
    BY <2>2 DEF SettledAt
  <2>4. moved[c][i] \in Ids
    <3>1. moved[c] \in Seq(Ids)
      BY <2>2 DEF TypeInv
    <3> QED
      BY <3>1, SeqIsFunction
  <2> QED
    BY <1>3, <2>2, <2>3, <2>4 DEF BalancePhase
<1>10. ASSUME NEW j \in 1 .. M, NEW k \in 1 .. M, a[j].id = a[k].id
       PROVE  j = k
  <2>1. PICK c \in ToSet(lowcore) : \E i \in DOMAIN moved[c] : c \in Cores /\ a[j] = SettledAt(c, i)
    BY <1>8
  <2>2. PICK i \in DOMAIN moved[c] : c \in Cores /\ a[j] = SettledAt(c, i)
    BY <2>1
  <2>3. PICK d \in ToSet(lowcore) : \E l \in DOMAIN moved[d] : d \in Cores /\ a[k] = SettledAt(d, l)
    BY <1>8
  <2>4. PICK l \in DOMAIN moved[d] : d \in Cores /\ a[k] = SettledAt(d, l)
    BY <2>3
  <2>5. a[j].id = moved[c][i] /\ a[k].id = moved[d][l]
    BY <2>2, <2>4 DEF SettledAt
  <2>6. moved[c][i] \in ToSet(moved[c]) /\ moved[d][l] \in ToSet(moved[d])
    BY InToSet
  <2>7. c = d
    BY <1>3, <1>10, <2>2, <2>4, <2>5, <2>6 DEF BalancePhase
  <2>8. Distinct(moved[c])
    BY <1>3, <2>2 DEF BalancePhase
  <2>9. i = l
    BY <1>10, <2>5, <2>7, <2>8 DEF Distinct
  <2>10. a[j] = a[k]
    BY <2>2, <2>4, <2>7, <2>9
  <2> QED
    BY <1>5, <1>6, <2>10 DEF Distinct
\* Every task is on the list, once.
<1>11. Whole(out')
  <2>1. DistinctIds(out')
    <3> SUFFICES ASSUME NEW i \in 1 .. N + M, NEW j \in 1 .. N + M, out'[i].id = out'[j].id PROVE i = j
      BY <1>6 DEF DistinctIds
    <3>1. CASE i \in 1 .. N /\ j \in 1 .. N
      BY <1>3, <1>6, <3>1 DEF BalancePhase, DistinctIds
    <3>2. ASSUME NEW x \in 1 .. N, NEW y \in 1 .. M PROVE out[x].id # a[y].id
      <4>1. Listed(out[x].id)
        BY <1>6 DEF Listed
      <4> QED
        BY <1>9, <4>1
    <3>3. CASE i \in 1 .. N /\ j \notin 1 .. N
      <4>1. PICK y \in 1 .. M : j = N + y
        BY <1>6, <3>3
      <4> QED
        BY <1>6, <3>2, <3>3, <4>1, ZenonT(60)
    <3>4. CASE i \notin 1 .. N /\ j \in 1 .. N
      <4>1. PICK y \in 1 .. M : i = N + y
        BY <1>6, <3>4
      <4> QED
        BY <1>6, <3>2, <3>4, <4>1, ZenonT(60)
    <3>5. CASE i \notin 1 .. N /\ j \notin 1 .. N
      <4>1. PICK x \in 1 .. M : i = N + x
        BY <1>6, <3>5
      <4>2. PICK y \in 1 .. M : j = N + y
        BY <1>6, <3>5
      <4> QED
        BY <1>6, <1>10, <4>1, <4>2
    <3> QED
      BY <3>1, <3>3, <3>4, <3>5
  <2>2. \A id \in Ids : \E i \in DOMAIN out' : out'[i].id = id
    <3> TAKE id \in Ids
    <3>1. CASE Listed(id)
      <4>1. PICK i \in 1 .. N : out[i].id = id
        BY <1>6, <3>1 DEF Listed
      <4>2. i \in 1 .. N + M
        BY <1>6
      <4> QED
        BY <1>6, <4>1, <4>2
    <3>2. CASE ~ Listed(id)
      <4>1. PICK c \in Cores : id \in ToSet(moved[c])
        BY <1>3, <3>2 DEF BalancePhase
      <4>2. PICK i \in DOMAIN moved[c] : moved[c][i] = id
        BY <4>1, InToSet
      <4>3. moved[c] # <<>>
        BY <4>2
      <4>4. c \in ToSet(lowcore)
        BY <1>3, <4>3 DEF BalancePhase
      <4>5. SettledAt(c, i) \in ToSet(a)
        BY <1>5, <4>4
      <4>6. PICK j \in 1 .. M : a[j] = SettledAt(c, i)
        BY <1>6, <4>5, InToSet
      <4>7. a[j].id = id
        BY <4>2, <4>6 DEF SettledAt
      <4>8. N + j \in 1 .. N + M
        BY <1>6
      <4> QED
        BY <1>6, <4>7, <4>8
    <3> QED
      BY <3>1, <3>2
  <2> QED
    BY <2>1, <2>2 DEF Whole
<1>12. PhaseInv'
  <2>1. Whole(out)'
    BY <1>7, <1>11 DEF Whole, DistinctIds
  <2>2. sched' = 0
    BY <1>1, <1>3 DEF BalancePhase
  <2> QED
    BY <1>1, <2>1, <2>2 DEF PhaseInv, DonePhase
<1>13. \A i \in DOMAIN out' : out'[i].id \in Ids
  <2> TAKE i \in DOMAIN out'
  <2>1. CASE i \in 1 .. N
    BY <1>4, <1>6, <2>1
  <2>2. CASE i \notin 1 .. N
    <3>1. PICK y \in 1 .. M : i = N + y
      BY <1>6, <2>2
    <3> QED
      BY <1>6, <1>9, <3>1
  <2> QED
    BY <2>1, <2>2
<1>14. TypeInv'
  BY <1>1, <1>6, <1>7, <1>13 DEF TypeInv
\* The high tasks are where they were.
<1>15. ASSUME NEW i \in DOMAIN out', IsHigh(out'[i].id)
       PROVE  i \in 1 .. N /\ i \in DOMAIN out /\ out'[i] = out[i]
  <2>1. i \in 1 .. N
    <3> SUFFICES ASSUME i \notin 1 .. N PROVE FALSE
      OBVIOUS
    <3>1. PICK y \in 1 .. M : i = N + y
      BY <1>6
    <3>2. out'[i] = a[y]
      BY <1>6, <3>1
    <3> QED
      BY <1>9, <1>15, <3>2
  <2> QED
    BY <1>6, <2>1
<1>16. OwnInv'
  <2> SUFFICES ASSUME NEW i \in DOMAIN out', IsHigh(out'[i].id), NEW j \in DOMAIN out', i # j
               PROVE  Apart(out'[i], out'[j])
    BY <1>1, <1>7 DEF OwnInv, Apart
  <2>1. i \in 1 .. N /\ i \in DOMAIN out /\ out'[i] = out[i]
    BY <1>15
  <2>2. sched # 1
    BY <1>3 DEF BalancePhase
  <2>3. CASE j \in 1 .. N
    BY <1>6, <2>1, <2>2, <2>3 DEF OwnInv
  <2>4. CASE j \notin 1 .. N
    <3>1. PICK y \in 1 .. M : j = N + y
      BY <1>6, <2>4
    <3>2. a[y].first = a[y].last /\ a[y].first \in ToSet(lowcore)
      BY <1>9
    <3>3. a[y].first < out[i].first \/ out[i].last < a[y].first
      BY <1>1, <2>1, <2>2, <3>2 DEF OwnInv
    <3> QED
      BY <1>6, <2>1, <3>1, <3>2, <3>3 DEF Apart
  <2> QED
    BY <2>3, <2>4
<1>17. FloorInv'
  <2> SUFFICES ASSUME Parallel, fit = "none", NEW i \in DOMAIN out', IsHigh(out'[i].id)
               PROVE  Floor(out'[i])
    BY <1>1, <1>7 DEF FloorInv, Floor, Tight, Size, Parallel
  <2>1. i \in DOMAIN out /\ out'[i] = out[i]
    BY <1>15
  <2> QED
    BY <2>1 DEF FloorInv
<1> QED
  BY <1>1, <1>12, <1>14, <1>16, <1>17 DEF StatInv, HighClusters, LendInv, LowInv

-------------------------------------------------------------------------------
(* What a set of tasks demands. *)

\* The tasks of a set in the order of their periods.
ByPeriod(g, A) ==
  /\ g \in [1 .. Cardinality(A) -> A]
  /\ \A k, l \in 1 .. Cardinality(A) :
       /\ g[k] = g[l] => k = l
       /\ k <= l => tasks[g[k]].period <= tasks[g[l]].period
  /\ \A x \in A : \E k \in 1 .. Cardinality(A) : g[k] = x

\* Every set of tasks has such a list.
LEMMA SortedByPeriod ==
  ASSUME TaskInv
  PROVE  \A A \in SUBSET Ids : \E g : ByPeriod(g, A)
<1> DEFINE key == [x \in Ids |-> tasks[x].period]
<1>1. IsFiniteSet(Ids) /\ \A x \in Ids : key[x] \in Int
  BY IdsAreNumbers, TaskTypes DEF TaskInv
<1>2. \A A \in SUBSET Ids : \E g : InKeyOrder(g, A, key)
  BY <1>1, KeysInOrder
<1>3. ASSUME NEW A \in SUBSET Ids, NEW g, InKeyOrder(g, A, key) PROVE ByPeriod(g, A)
  BY <1>3 DEF InKeyOrder, ByPeriod
<1> QED
  BY <1>2, <1>3

\* What a task needs of a time len, if it is released at its start and then every period.
Due(id, len) == CeilDiv(len, tasks[id].period) * tasks[id].work

\* What a task demands of a time up to its period, up to two, and of a multiple of it.
LEMMA DueBounds ==
  ASSUME TaskInv, NEW id \in Ids, NEW len \in Nat \ {0}
  PROVE  /\ Due(id, len) \in Nat /\ tasks[id].work \in Nat
         /\ (len <= tasks[id].period => Due(id, len) <= tasks[id].work)
         /\ (len < 2 * tasks[id].period => Due(id, len) <= 2 * tasks[id].work)
         /\ (len % tasks[id].period = 0 => Hyper * Due(id, len) = len * tasks[id].util)
<1> DEFINE p == tasks[id].period
           w == tasks[id].work
           u == tasks[id].util
           c == CeilDiv(len, p)
<1>1. p \in Nat \ {0} /\ w \in Nat /\ u \in Nat /\ Hyper \in Nat \ {0}
  BY TaskTypes, ClusterSize
<1>2. u * p = w * Hyper
  BY DEF TaskInv, Regular
<1>3. Due(id, len) = c * w
  BY DEF Due
<1> HIDE DEF p, w, u, c
<1>4. c \in Nat /\ (len <= p => c <= 1) /\ (len < 2 * p => c <= 2) /\ (len % p = 0 => c * p = len)
  BY <1>1, CeilDivLimits DEF c
<1>5. c * w \in Nat
  BY <1>1, <1>4
<1>6. \A k \in Nat : c <= k => c * w <= k * w
  BY <1>1, <1>4
<1>7. ASSUME len % p = 0 PROVE Hyper * (c * w) = len * u
  <2>1. c * p = len
    BY <1>4, <1>7
  <2>2. Hyper * (c * w) = c * (w * Hyper) /\ c * (u * p) = (c * p) * u
    BY <1>1, <1>4
  <2> QED
    BY <1>2, <2>1, <2>2
<1>8. (c <= 1 => c * w <= w) /\ (c <= 2 => c * w <= 2 * w)
  <2>1. 1 * w = w
    BY <1>1
  <2> QED
    BY <1>6, <2>1
<1> QED
  BY <1>1, <1>3, <1>4, <1>5, <1>7, <1>8 DEF p, w, u

\* The demand of a set is a sum of terms that do not depend on the set, and grows with it.
LEMMA DemandIsSum ==
  ASSUME TaskInv, NEW A \in SUBSET Ids, NEW len \in Nat \ {0}
  PROVE  /\ Demand(A, len) = SumFunctionOnSet([id \in Ids |-> Due(id, len)], A)
         /\ Demand(A, len) \in Nat /\ IsFiniteSet(A)
<1> DEFINE f == [id \in Ids |-> Due(id, len)]
           g == [id \in A |-> CeilDiv(len, tasks[id].period) * tasks[id].work]
<1>1. IsFiniteSet(A)
  BY IdsAreNumbers, FS_Subset DEF TaskInv
<1>2. \A x \in A : f[x] \in Nat /\ f[x] = g[x]
  BY DueBounds DEF Due
<1>3. Demand(A, len) = SumFunctionOnSet(g, A)
  BY DEF Demand
<1> HIDE DEF f, g
<1>4. SumFunctionOnSet(g, A) = SumFunctionOnSet(f, A)
  <2>1. \A x \in A : g[x] \in Int /\ g[x] = f[x]
    BY <1>2
  <2> QED
    BY <1>1, <2>1, SumSame
<1>5. SumFunctionOnSet(f, A) \in Nat
  BY <1>1, <1>2, SumNat
<1> QED
  BY <1>1, <1>3, <1>4, <1>5 DEF f

\* More tasks demand more.
LEMMA DemandGrows ==
  ASSUME TaskInv, NEW B \in SUBSET Ids, NEW A \in SUBSET B, NEW len \in Nat \ {0}
  PROVE  Demand(A, len) <= Demand(B, len)
<1> DEFINE f == [id \in Ids |-> Due(id, len)]
<1>1. Demand(A, len) = SumFunctionOnSet(f, A) /\ Demand(B, len) = SumFunctionOnSet(f, B) /\ IsFiniteSet(B)
  BY DemandIsSum
<1>2. \A x \in B : f[x] \in Nat
  BY DueBounds
<1> HIDE DEF f
<1> QED
  BY <1>1, <1>2, SumSubset

\* Tasks whose periods divide len have enough time if they use at most a core.
LEMMA DividingIsEnough ==
  ASSUME TaskInv, NEW A \in SUBSET Ids, NEW len \in Nat \ {0},
         \A x \in A : len % tasks[x].period = 0, Load(A) <= Hyper
  PROVE  Demand(A, len) <= len
<1> DEFINE f == [id \in Ids |-> Due(id, len)]
           g == [id \in A |-> tasks[id].util]
           d == Demand(A, len)
           l == Load(A)
<1>1. d = SumFunctionOnSet(f, A) /\ d \in Nat /\ IsFiniteSet(A)
  BY DemandIsSum
<1>2. l = SumFunctionOnSet(g, A)
  BY DEF Load
<1>3. \A x \in A : f[x] \in Int /\ g[x] \in Nat /\ Hyper * f[x] = len * g[x]
  BY DueBounds, TaskTypes
<1>4. Hyper \in Nat \ {0}
  BY ClusterSize
<1> HIDE DEF f, g, d, l
<1>5. l \in Nat
  BY <1>1, <1>2, <1>3, SumNat
<1>6. Hyper * d = len * l
  <2>1. \A x \in A : f[x] \in Int /\ g[x] \in Int /\ Hyper * f[x] = len * g[x]
    BY <1>3
  <2>2. Hyper * SumFunctionOnSet(f, A) = len * SumFunctionOnSet(g, A)
    BY <1>1, <1>4, <2>1, SumScaled
  <2> QED
    BY <1>1, <1>2, <2>2
<1>7. len * l <= len * Hyper
  <2>1. l <= Hyper
    BY DEF l
  <2> QED
    BY <1>4, <1>5, <2>1, ProductGrows
<1>8. Hyper * len >= Hyper * d
  <2>1. len * Hyper = Hyper * len /\ len * Hyper \in Int /\ len * l \in Int
    BY <1>4, <1>5
  <2> QED
    BY <1>6, <1>7, <2>1
<1>9. len >= d
  BY <1>1, <1>4, <1>8, FactorCancels
<1> QED
  BY <1>9 DEF d

\* All that the tasks of a set need once.
Work(ids) == SumFunctionOnSet([id \in Ids |-> tasks[id].work], ids)

\* That is a natural number.
LEMMA WorkIsNat ==
  ASSUME TaskInv, NEW A \in SUBSET Ids
  PROVE  Work(A) \in Nat
<1> DEFINE w == [id \in Ids |-> tasks[id].work]
<1>1. \A x \in A : w[x] \in Nat
  BY TaskTypes
<1>2. IsFiniteSet(A)
  BY IdsAreNumbers, FS_Subset DEF TaskInv
<1>3. Work(A) = SumFunctionOnSet(w, A)
  BY DEF Work
<1> HIDE DEF w
<1> QED
  BY <1>1, <1>2, <1>3, SumNat

\* Some of the tasks are released at most twice, the others once.
LEMMA DemandOfTwo ==
  ASSUME TaskInv, NEW A \in SUBSET Ids, NEW B \in SUBSET A, NEW len \in Nat \ {0},
         \A x \in B : len < 2 * tasks[x].period, \A x \in A \ B : len <= tasks[x].period
  PROVE  Demand(A, len) <= Work(A) + Work(B)
<1> DEFINE f == [id \in Ids |-> Due(id, len)]
           w == [id \in Ids |-> tasks[id].work]
<1>1. Demand(A, len) = SumFunctionOnSet(f, A) /\ IsFiniteSet(A)
  BY DemandIsSum
<1>2. Work(A) = SumFunctionOnSet(w, A) /\ Work(B) = SumFunctionOnSet(w, B)
  BY DEF Work
<1>3. \A x \in A : f[x] = Due(x, len) /\ w[x] = tasks[x].work /\ f[x] \in Int /\ w[x] \in Int
  BY DueBounds
<1>4. \A x \in B : f[x] <= 2 * w[x]
  <2>1. \A x \in B : Due(x, len) <= 2 * tasks[x].work
    BY DueBounds
  <2> QED
    BY <1>3, <2>1
<1>5. \A x \in A \ B : f[x] <= w[x]
  <2>1. \A x \in A \ B : Due(x, len) <= tasks[x].work
    BY DueBounds
  <2> QED
    BY <1>3, <2>1
<1> HIDE DEF f, w
<1> QED
  BY <1>1, <1>2, <1>3, <1>4, <1>5, TwiceOrOnce

\* The task has time for its work and that of all tasks of A before its deadline.
Feasible(A, a) == \E len \in 1 .. tasks[a].period : Demand(A, len) <= len

\* What the tasks of a set use of a core, and need, as sums over the set in the order of periods.
LEMMA PrefixLoads ==
  ASSUME TaskInv, NEW A \in SUBSET Ids, NEW g, ByPeriod(g, A)
  PROVE  /\ Cardinality(A) \in Nat
         /\ Sums(Cardinality(A), [i \in 1 .. Cardinality(A) |-> tasks[g[i]].util],
                 [n \in 0 .. Cardinality(A) |-> Load(Prefix(g, n))])
         /\ Sums(Cardinality(A), [i \in 1 .. Cardinality(A) |-> tasks[g[i]].work],
                 [n \in 0 .. Cardinality(A) |-> Work(Prefix(g, n))])
         /\ Prefix(g, Cardinality(A)) = A
<1> DEFINE N == Cardinality(A)
           u == [id \in Ids |-> tasks[id].util]
           w == [id \in Ids |-> tasks[id].work]
<1>1. IsFiniteSet(A) /\ N \in Nat
  BY IdsAreNumbers, FS_Subset, FS_CardinalityType DEF TaskInv
<1>2. /\ g \in [1 .. N -> A] /\ (\A k, l \in 1 .. N : g[k] = g[l] => k = l)
      /\ \A x \in A : \E k \in 1 .. N : g[k] = x
  BY DEF ByPeriod
<1>3. Listing(N, A, g)
  BY <1>2 DEF Listing
<1>4. Prefix(g, N) = A
  BY <1>2 DEF Prefix
<1>5. \A x \in A : u[x] \in Nat /\ w[x] \in Nat /\ u[x] = tasks[x].util /\ w[x] = tasks[x].work
  BY TaskTypes
<1>6. \A n \in 0 .. N : Prefix(g, n) \subseteq A /\ IsFiniteSet(Prefix(g, n))
  BY <1>1, <1>2, PrefixIsFinite
<1>7. \A n \in 0 .. N : Load(Prefix(g, n)) = SumFunctionOnSet(u, Prefix(g, n))
  <2> TAKE n \in 0 .. N
  <2> DEFINE D == Prefix(g, n)
             v == [id \in D |-> tasks[id].util]
  <2>a. IsFiniteSet(D) /\ D \subseteq A
    BY <1>6
  <2>b. \A x \in D : v[x] = tasks[x].util
    OBVIOUS
  <2>1. IsFiniteSet(D) /\ \A x \in D : v[x] \in Int /\ u[x] \in Int /\ v[x] = u[x]
    <3> HIDE DEF D, v, u, w
    <3> QED
      BY <1>5, <2>a, <2>b
  <2>2. Load(D) = SumFunctionOnSet(v, D)
    BY DEF Load
  <2> HIDE DEF D, v, u
  <2>3. SumFunctionOnSet(v, D) = SumFunctionOnSet(u, D)
    BY <2>1, SumSame
  <2> QED
    BY <2>2, <2>3 DEF D
<1>8. \A n : Work(Prefix(g, n)) = SumFunctionOnSet(w, Prefix(g, n))
  BY DEF Work
<1> HIDE DEF N, u, w
<1>9. /\ Sums(N, [i \in 1 .. N |-> u[g[i]]], [n \in 0 .. N |-> SumFunctionOnSet(u, Prefix(g, n))])
      /\ Sums(N, [i \in 1 .. N |-> w[g[i]]], [n \in 0 .. N |-> SumFunctionOnSet(w, Prefix(g, n))])
  BY <1>1, <1>3, <1>5, PrefixSums
<1>10. /\ [i \in 1 .. N |-> u[g[i]]] = [i \in 1 .. N |-> tasks[g[i]].util]
       /\ [i \in 1 .. N |-> w[g[i]]] = [i \in 1 .. N |-> tasks[g[i]].work]
  BY <1>2, <1>5
<1>11. /\ [n \in 0 .. N |-> SumFunctionOnSet(u, Prefix(g, n))] = [n \in 0 .. N |-> Load(Prefix(g, n))]
       /\ [n \in 0 .. N |-> SumFunctionOnSet(w, Prefix(g, n))] = [n \in 0 .. N |-> Work(Prefix(g, n))]
  BY <1>7, <1>8
<1> QED
  BY <1>1, <1>4, <1>9, <1>10, <1>11 DEF N

\* Tasks with periods between m and 2 m that are within the bound are feasible (Lauzac, Melhem and
\* Mosse): if none of the periods were long enough for what is due until then, the utilisation would
\* be beyond the bound.
LEMMA BoundIsEnough ==
  ASSUME TaskInv, NEW A \in SUBSET Ids, NEW a \in A, NEW m \in Nat \ {0},
         \A x \in A : m <= tasks[x].period /\ tasks[x].period <= tasks[a].period,
         tasks[a].period < 2 * m,
         WithinBound(Load(A), Cardinality(A), tasks[a].period, m)
  PROVE  Feasible(A, a)
<1> SUFFICES ASSUME ~ Feasible(A, a) PROVE FALSE
  OBVIOUS
<1>1. PICK g : ByPeriod(g, A)
  BY SortedByPeriod
<1> DEFINE N == Cardinality(A)
           P == [i \in 0 .. N |-> IF i = 0 THEN m ELSE tasks[g[i]].period]
           C == [i \in 1 .. N |-> tasks[g[i]].work]
           u == [i \in 1 .. N |-> tasks[g[i]].util]
           L == [n \in 0 .. N |-> Load(Prefix(g, n))]
           W == [n \in 0 .. N |-> Work(Prefix(g, n))]
<1>2. N \in Nat /\ Sums(N, u, L) /\ Sums(N, C, W) /\ Prefix(g, N) = A
  BY <1>1, PrefixLoads
<1>3. /\ g \in [1 .. N -> A] /\ \A x \in A : \E k \in 1 .. N : g[k] = x
      /\ \A k, l \in 1 .. N : k <= l => tasks[g[k]].period <= tasks[g[l]].period
  BY <1>1 DEF ByPeriod
<1>4. N # 0 /\ N \in 1 .. N
  BY <1>2, <1>3
<1>5. \A i \in 1 .. N : /\ P[i] = tasks[g[i]].period /\ g[i] \in A /\ P[i] \in Nat \ {0}
                        /\ m <= P[i] /\ P[i] <= tasks[a].period /\ P[i] < 2 * m
                        /\ C[i] = tasks[g[i]].work /\ u[i] = tasks[g[i]].util
                        /\ C[i] \in Nat /\ u[i] \in Nat /\ u[i] * P[i] = C[i] * Hyper
  <2> TAKE i \in 1 .. N
  <2>1. P[i] = tasks[g[i]].period /\ g[i] \in A /\ C[i] = tasks[g[i]].work /\ u[i] = tasks[g[i]].util
    <3>1. i \in 0 .. N /\ i # 0
      BY <1>2
    <3>2. g[i] \in A
      BY <1>3
    <3> QED
      BY <3>1, <3>2
  <2>2. /\ tasks[g[i]].period \in Nat \ {0} /\ tasks[a].period \in Nat \ {0}
        /\ tasks[g[i]].work \in Nat /\ tasks[g[i]].util \in Nat
    BY <2>1, TaskTypes
  <2>3. m <= tasks[g[i]].period /\ tasks[g[i]].period <= tasks[a].period
    BY <2>1
  <2>4. tasks[g[i]].util * tasks[g[i]].period = tasks[g[i]].work * Hyper
    BY <2>1 DEF TaskInv, Regular
  <2> HIDE DEF P, C, u
  <2> QED
    BY <2>1, <2>2, <2>3, <2>4
<1>6. P[0] = m /\ P \in [0 .. N -> Nat \ {0}]
  <2>1. 0 \in 0 .. N /\ \A i \in 0 .. N : i = 0 \/ i \in 1 .. N
    BY <1>2
  <2>2. P[0] = m
    BY <2>1
  <2>3. \A i \in 0 .. N : P[i] \in Nat \ {0}
    BY <1>5, <2>1, <2>2
  <2> QED
    BY <2>2, <2>3
<1>7. P[N] = tasks[a].period
  <2>1. PICK k \in 1 .. N : g[k] = a
    BY <1>3
  <2>2. tasks[a].period <= tasks[g[N]].period
    BY <1>2, <1>3, <1>4, <2>1
  <2>3. P[N] = tasks[g[N]].period /\ P[N] <= tasks[a].period /\ P[N] \in Nat
    BY <1>4, <1>5
  <2>4. tasks[a].period \in Nat
    BY TaskTypes
  <2> HIDE DEF P
  <2> QED
    BY <2>2, <2>3, <2>4
<1>8. \A i \in 1 .. N : P[i - 1] <= P[i]
  <2> TAKE i \in 1 .. N
  <2>1. CASE i = 1
    BY <1>5, <1>6, <2>1
  <2>2. CASE i # 1
    <3>1. i - 1 \in 1 .. N /\ i - 1 <= i
      BY <1>2, <2>2
    <3>2. tasks[g[i - 1]].period <= tasks[g[i]].period
      BY <1>3, <3>1
    <3> QED
      BY <1>5, <3>1, <3>2
  <2> QED
    BY <2>1, <2>2
<1>9. Work(A) \in Nat
  BY WorkIsNat
<1>10. \A i \in 1 .. N : W[N] + W[i - 1] > P[i]
  <2> TAKE i \in 1 .. N
  <2> DEFINE len == P[i]
             B == Prefix(g, i - 1)
  <2>1. len \in Nat \ {0} /\ len \in 1 .. tasks[a].period
    <3>1. tasks[a].period \in Nat
      BY TaskTypes
    <3> QED
      BY <1>5, <3>1
  <2>2. B \subseteq A
    <3>1. \A k \in 1 .. i - 1 : k \in 1 .. N
      BY <1>2
    <3> QED
      BY <1>3, <3>1 DEF Prefix
  <2>3. \A x \in B : len < 2 * tasks[x].period
    <3> TAKE x \in B
    <3>1. m <= tasks[x].period /\ tasks[x].period \in Nat /\ len < 2 * m
      BY <1>5, <2>2, TaskTypes
    <3> HIDE DEF len, B
    <3> QED
      BY <2>1, <3>1
  <2>4. \A x \in A \ B : len <= tasks[x].period
    <3> TAKE x \in A \ B
    <3>1. PICK k \in 1 .. N : g[k] = x
      BY <1>3
    <3>2. ~ (k \in 1 .. i - 1)
      BY <3>1 DEF Prefix
    <3>3. i <= k
      BY <3>2
    <3> QED
      BY <1>3, <1>5, <3>1, <3>3
  <2>5. ~ (Demand(A, len) <= len)
    BY <2>1 DEF Feasible
  <2>6. Work(B) \in Nat /\ Demand(A, len) \in Nat
    <3>1. B \in SUBSET Ids
      BY <2>2
    <3> HIDE DEF len, B
    <3> QED
      BY <2>1, <3>1, WorkIsNat, DemandIsSum
  <2>7. W[N] = Work(A) /\ W[i - 1] = Work(B)
    BY <1>2, <1>4
  <2> HIDE DEF len, B, W
  <2>8. Demand(A, len) <= Work(A) + Work(B)
    BY <2>1, <2>2, <2>3, <2>4, DemandOfTwo
  <2> QED
    BY <1>9, <2>1, <2>5, <2>6, <2>7, <2>8 DEF len
<1> HIDE DEF W
<1>11. Overrun(N, Hyper, P, C, W, u, L)
  <2>1. C \in [1 .. N -> Nat] /\ u \in [1 .. N -> Nat]
    BY <1>5
  <2>2. P[N] < 2 * P[0]
    BY <1>4, <1>5, <1>6
  <2> HIDE DEF P, C, u, L
  <2> QED
    BY <1>2, <1>4, <1>5, <1>6, <1>8, <1>10, <2>1, <2>2, ClusterSize DEF Overrun
<1>12. OverBound(N, P[N], P[0], Hyper, L[N])
  <2> HIDE DEF P, C, u, L
  <2> QED
    BY <1>11, OverrunIsOver
<1>13. L[N] = Load(A)
  BY <1>2
<1>14. OverBound(N, tasks[a].period, m, Hyper, Load(A))
  <2> HIDE DEF P, L
  <2> QED
    BY <1>6, <1>7, <1>12, <1>13
<1> QED
  BY <1>14 DEF OverBound, WithinBound

-------------------------------------------------------------------------------
(* Deadlines. *)

\* What the guarantee rests on.
Sound == Parallel /\ SoundPeriods

\* On a core that is served in the order of periods every task meets its deadline.
CoreFeasible(A) == \A x \in A : Feasible({y \in A : tasks[y].period <= tasks[x].period}, x)

\* The clusters are large enough.
HighFits(o) ==
  \A i \in DOMAIN o : IsHigh(o[i].id) =>
    LET t == tasks[o[i].id]
    IN  Size(o[i]) >= 2 /\ t.work - t.span <= Size(o[i]) * (t.period - t.span)

\* The priorities of the low tasks of a core are in the order of their periods.
RateOn(o) ==
  \A i, j \in DOMAIN o :
    ~ IsHigh(o[i].id) /\ ~ IsHigh(o[j].id) /\ o[i].first = o[j].first /\ o[i].prio >= o[j].prio =>
      tasks[o[i].id].period <= tasks[o[j].id].period

\* So it is where they are on one core each.
Ranking(o) == RateOn(o) /\ \A i \in DOMAIN o : ~ IsHigh(o[i].id) => o[i].last = o[i].first

\* A list in the order of periods.
Ascending(s) == \A k, l \in DOMAIN s : k <= l => tasks[s[k]].period <= tasks[s[l]].period

HighMeets == phase \in {"high", "low", "balance"} /\ sched = 0 /\ Parallel => HighFits(out)

\* The period that the statistics have of a core is the least of its tasks, if they are close.
LeastKnown ==
  Close(Ids \ Highs) =>
    \A c \in Cores : Counted(c) # {} =>
      /\ \A x \in Counted(c) : stat[c].mint <= tasks[x].period
      /\ \E y \in Ids \ Highs : stat[c].mint = tasks[y].period

\* The low tasks that wait have the longest periods, and get priorities below those on a core.
Waiting ==
  /\ Ascending(low)
  /\ \A i \in DOMAIN out : ~ IsHigh(out[i].id) =>
       /\ \A k \in DOMAIN low : tasks[out[i].id].period <= tasks[low[k]].period
       /\ out[i].prio >= 98 - stat[out[i].first].np

\* Moved tasks are alone on their cores.
MovedApart ==
  \A c \in Cores : /\ Ascending(moved[c])
                   /\ moved[c] # <<>> => \A i \in DOMAIN out : out[i].first # c

LowGuard ==
  phase \in {"low", "balance"} /\ sched = 0 =>
    /\ RateOn(out)
    /\ Sound => \A c \in Cores : CoreFeasible(Counted(c))
    /\ LeastKnown
    /\ IF phase = "low" THEN Waiting ELSE MovedApart

DoneGuard == phase = "done" /\ sched = 0 /\ Sound => AllMeetDeadlines(out)

\* The verdict 0 of a chain of calls is that of the last one.
KeptGuard ==
  program[1] = "cluster" =>
    /\ phase \in {"high", "low", "balance", "done"} => kept.sched # 0
    /\ phase = "returned" /\ kept.sched = 0 => sched = 0 /\ (Sound => AllMeetDeadlines(kept.out))

FileGuard ==
  rtps.options = 0 =>
    program[1] = "cluster" /\ phase = "ended" /\ (Sound => AllMeetDeadlines(rtps.lines))

Guards == HighMeets /\ LowGuard /\ DoneGuard /\ KeptGuard /\ FileGuard

\* With fewer other tasks a task has more time.
LEMMA FeasibleWithLess ==
  ASSUME TaskInv, NEW A \in SUBSET Ids, NEW B \in SUBSET A, NEW a \in Ids, Feasible(A, a)
  PROVE  Feasible(B, a)
<1>1. PICK len \in 1 .. tasks[a].period : Demand(A, len) <= len
  BY DEF Feasible
<1>2. tasks[a].period \in Nat
  BY TaskTypes
<1>3. len \in Nat \ {0} /\ B \in SUBSET Ids
  BY <1>1, <1>2
<1>4. Demand(B, len) <= Demand(A, len)
  BY <1>3, DemandGrows
<1>5. Demand(A, len) \in Nat /\ Demand(B, len) \in Nat
  BY <1>3, DemandIsSum
<1>6. Demand(B, len) <= len
  BY <1>1, <1>3, <1>4, <1>5
<1> QED
  BY <1>1, <1>6 DEF Feasible

\* The same for all tasks of a core.
LEMMA CoreWithLess ==
  ASSUME TaskInv, NEW A \in SUBSET Ids, NEW B \in SUBSET A, CoreFeasible(A)
  PROVE  CoreFeasible(B)
<1> SUFFICES ASSUME NEW x \in B
             PROVE  Feasible({y \in B : tasks[y].period <= tasks[x].period}, x)
  BY DEF CoreFeasible
<1> DEFINE C == {y \in A : tasks[y].period <= tasks[x].period}
           D == {y \in B : tasks[y].period <= tasks[x].period}
<1>1. Feasible(C, x) /\ x \in Ids
  BY DEF CoreFeasible
<1>2. C \in SUBSET Ids /\ D \in SUBSET C
  OBVIOUS
<1> HIDE DEF C, D
<1>3. Feasible(D, x)
  BY <1>1, <1>2, FeasibleWithLess
<1> QED
  BY <1>3 DEF D

\* The load of more tasks is greater.
LEMMA LoadGrows ==
  ASSUME TaskInv, NEW A \in SUBSET Ids, NEW B \in SUBSET A
  PROVE  Load(B) <= Load(A) /\ Load(A) \in Nat /\ Load(B) \in Nat
<1> DEFINE f == [id \in A |-> tasks[id].util]
           g == [id \in B |-> tasks[id].util]
<1>1. IsFiniteSet(A) /\ IsFiniteSet(B)
  BY IdsAreNumbers, FS_Subset DEF TaskInv
<1>2. (\A x \in A : f[x] \in Nat) /\ \A x \in B : g[x] \in Int /\ f[x] \in Int /\ g[x] = f[x]
  BY TaskTypes
<1>3. Load(A) = SumFunctionOnSet(f, A) /\ Load(B) = SumFunctionOnSet(g, B)
  BY DEF Load
<1> HIDE DEF f, g
<1>4. SumFunctionOnSet(g, B) = SumFunctionOnSet(f, B)
  BY <1>1, <1>2, SumSame
<1>5. SumFunctionOnSet(f, B) <= SumFunctionOnSet(f, A)
  BY <1>1, <1>2, SumSubset
<1>6. SumFunctionOnSet(f, A) \in Nat /\ SumFunctionOnSet(f, B) \in Nat
  <2>1. \A x \in B : f[x] \in Nat
    BY <1>2
  <2> QED
    BY <1>1, <1>2, <2>1, SumNat
<1> QED
  BY <1>3, <1>4, <1>5, <1>6

\* Harmonic periods need no bound but the core itself.
LEMMA HarmonicIsEnough ==
  ASSUME TaskInv, NEW A \in SUBSET Ids, Harmonic(A), Load(A) <= Hyper
  PROVE  CoreFeasible(A)
<1> SUFFICES ASSUME NEW x \in A
             PROVE  Feasible({y \in A : tasks[y].period <= tasks[x].period}, x)
  BY DEF CoreFeasible
<1> DEFINE D == {y \in A : tasks[y].period <= tasks[x].period}
           len == tasks[x].period
<1>1. len \in Nat \ {0} /\ len \in 1 .. tasks[x].period
  BY TaskTypes
<1>2. D \in SUBSET Ids /\ D \in SUBSET A
  OBVIOUS
<1>3. \A y \in D : len % tasks[y].period = 0
  BY DEF Harmonic
<1>4. Load(D) <= Hyper
  <2>1. Hyper \in Nat
    BY ClusterSize
  <2> HIDE DEF D
  <2>2. Load(D) <= Load(A) /\ Load(A) \in Nat /\ Load(D) \in Nat
    BY <1>2, LoadGrows
  <2> QED
    BY <2>1, <2>2
<1> HIDE DEF D
<1>5. Demand(D, len) <= len
  <2> HIDE DEF len
  <2> QED
    BY <1>1, <1>2, <1>3, <1>4, DividingIsEnough
<1>6. Feasible(D, x)
  BY <1>1, <1>5 DEF Feasible
<1> QED
  BY <1>6 DEF D

\* A task alone on a core.
LEMMA OneIsFeasible ==
  ASSUME TaskInv, NEW z \in Ids, tasks[z].util <= Hyper
  PROVE  CoreFeasible({z})
<1>1. tasks[z].period \in Nat \ {0} /\ tasks[z].util \in Nat
  BY TaskTypes
<1>2. tasks[z].period % tasks[z].period = 0
  BY <1>1
<1>3. Harmonic({z})
  BY <1>2 DEF Harmonic
<1>4. Load({z}) = tasks[z].util
  <2> DEFINE e == {}
  <2>1. e \in SUBSET Ids /\ z \notin e
    OBVIOUS
  <2>2. Load(e) = 0
    BY LoadEmpty
  <2> HIDE DEF e
  <2>3. Load(e \cup {z}) = Load(e) + tasks[z].util
    BY <2>1, LoadAdd
  <2>4. e \cup {z} = {z}
    BY DEF e
  <2>5. Load({z}) = 0 + tasks[z].util
    BY <2>2, <2>3, <2>4, Zenon
  <2> QED
    BY <1>1, <2>5
<1> QED
  BY <1>3, <1>4, HarmonicIsEnough

\* One more task on a core, if for it and each task after it the bound holds for those up to there.
LEMMA BoundedCore ==
  ASSUME TaskInv, NEW A \in SUBSET Ids, CoreFeasible(A), NEW z \in Ids, NEW m \in Nat \ {0},
         \A x \in A \cup {z} : m <= tasks[x].period /\ tasks[x].period < 2 * m,
         \A x \in A \cup {z} : tasks[z].period <= tasks[x].period =>
            LET C == {y \in A \cup {z} : tasks[y].period <= tasks[x].period}
            IN  WithinBound(Load(C), Cardinality(C), tasks[x].period, m)
  PROVE  CoreFeasible(A \cup {z})
<1> SUFFICES ASSUME NEW x \in A \cup {z}
             PROVE  Feasible({y \in A \cup {z} : tasks[y].period <= tasks[x].period}, x)
  BY DEF CoreFeasible
<1> DEFINE C == {y \in A \cup {z} : tasks[y].period <= tasks[x].period}
<1>0. \A y \in A \cup {z} : tasks[y].period \in Nat \ {0} /\ y \in Ids
  BY TaskTypes
<1>1. CASE tasks[z].period <= tasks[x].period
  <2>1. WithinBound(Load(C), Cardinality(C), tasks[x].period, m)
    BY <1>1
  <2>2. x \in C /\ C \in SUBSET Ids
    BY <1>0
  <2>3. \A y \in C : m <= tasks[y].period /\ tasks[y].period <= tasks[x].period
    OBVIOUS
  <2>4. tasks[x].period < 2 * m
    OBVIOUS
  <2> HIDE DEF C
  <2>5. Feasible(C, x)
    BY <2>1, <2>2, <2>3, <2>4, BoundIsEnough
  <2> QED
    BY <2>5 DEF C
<1>2. CASE ~ (tasks[z].period <= tasks[x].period)
  <2>1. x \in A
    BY <1>0, <1>2
  <2>2. C = {y \in A : tasks[y].period <= tasks[x].period}
    BY <1>2
  <2> HIDE DEF C
  <2>3. Feasible(C, x)
    BY <2>1, <2>2 DEF CoreFeasible
  <2> QED
    BY <2>3 DEF C
<1> QED
  BY <1>1, <1>2

\* The last task in the order of periods.
LEMMA BoundedLast ==
  ASSUME TaskInv, NEW A \in SUBSET Ids, CoreFeasible(A), NEW z \in Ids, NEW m \in Nat \ {0},
         \A x \in A : m <= tasks[x].period /\ tasks[x].period <= tasks[z].period,
         m <= tasks[z].period, tasks[z].period < 2 * m,
         WithinBound(Load(A \cup {z}), Cardinality(A \cup {z}), tasks[z].period, m)
  PROVE  CoreFeasible(A \cup {z})
<1> DEFINE B == A \cup {z}
<1>0. \A y \in B : tasks[y].period \in Nat \ {0} /\ m <= tasks[y].period /\ tasks[y].period <= tasks[z].period
  BY TaskTypes
<1>1. \A x \in B : m <= tasks[x].period /\ tasks[x].period < 2 * m
  <2> HIDE DEF B
  <2>1. tasks[z].period \in Nat
    BY TaskTypes
  <2> QED
    BY <1>0, <2>1
<1>2. ASSUME NEW x \in B, tasks[z].period <= tasks[x].period
      PROVE  LET C == {y \in B : tasks[y].period <= tasks[x].period}
             IN  WithinBound(Load(C), Cardinality(C), tasks[x].period, m)
  <2>1. tasks[x].period = tasks[z].period
    <3>1. tasks[z].period \in Nat
      BY TaskTypes
    <3> HIDE DEF B
    <3> QED
      BY <1>0, <1>2, <3>1
  <2>2. {y \in B : tasks[y].period <= tasks[x].period} = B
    BY <1>0, <2>1
  <2> QED
    BY <2>1, <2>2
<1> HIDE DEF B
<1>3. \A x \in B : tasks[z].period <= tasks[x].period =>
            LET C == {y \in B : tasks[y].period <= tasks[x].period}
            IN  WithinBound(Load(C), Cardinality(C), tasks[x].period, m)
  BY <1>2
<1> QED
  BY <1>1, <1>3, BoundedCore DEF B

\* Every task of a partition meets its deadline if its clusters are large enough, its cores feasible
\* and served in the order of periods, and no high task starts where a low one is.
LEMMA Meets ==
  ASSUME TaskInv, NEW p, HighFits(p), RateOn(p),
         \A i \in DOMAIN p : p[i].id \in Ids /\ p[i].first \in Int /\ p[i].last \in Int,
         \A i \in DOMAIN p : ~ IsHigh(p[i].id) =>
            /\ p[i].last = p[i].first
            /\ CoreFeasible(LowIn(p, p[i].first))
            /\ \A j \in DOMAIN p : p[j].first = p[i].first => ~ IsHigh(p[j].id)
  PROVE  AllMeetDeadlines(p)
<1> SUFFICES ASSUME NEW i \in DOMAIN p PROVE MeetsDeadline(p, p[i])
  BY DEF AllMeetDeadlines
<1> DEFINE e == p[i]
<1>1. CASE IsHigh(e.id)
  <2>1. Size(e) >= 2 /\ tasks[e.id].work - tasks[e.id].span <= Size(e) * (tasks[e.id].period - tasks[e.id].span)
    BY <1>1 DEF HighFits
  <2> HIDE DEF e
  <2>2. Size(e) \in Int
    BY DEF Size, e
  <2>3. Size(e) # 1 /\ Size(e) > 1
    BY <2>1, <2>2
  <2>4. MeetsDeadline(p, e)
    BY <2>1, <2>3 DEF MeetsDeadline
  <2> QED
    BY <2>4 DEF e
<1>2. CASE ~ IsHigh(e.id)
  <2> DEFINE L == LowIn(p, e.first)
             D == {y \in L : tasks[y].period <= tasks[e.id].period}
             H == Ahead(p, e)
  <2>1. Size(e) = 1
    BY <1>2 DEF Size
  <2>2. L \in SUBSET Ids /\ e.id \in L /\ CoreFeasible(L)
    BY <1>2 DEF LowIn
  <2>3. Feasible(D, e.id) /\ D \in SUBSET Ids
    BY <2>2 DEF CoreFeasible
  <2>4. H \in SUBSET D
    <3> SUFFICES ASSUME NEW k \in DOMAIN p, p[k].first = e.first, p[k].prio >= e.prio PROVE p[k].id \in D
      BY DEF Ahead
    <3>1. ~ IsHigh(p[k].id)
      BY <1>2
    <3>2. p[k].id \in L
      BY <3>1 DEF LowIn
    <3>3. tasks[p[k].id].period <= tasks[e.id].period
      BY <1>2, <3>1 DEF RateOn
    <3> QED
      BY <3>2, <3>3
  <2>5. e.id \in Ids
    OBVIOUS
  <2> HIDE DEF e, L, D, H
  <2>6. Feasible(H, e.id)
    BY <2>3, <2>4, <2>5, FeasibleWithLess
  <2>7. MeetsDeadline(p, e)
    BY <2>1, <2>6 DEF MeetsDeadline, Feasible, H
  <2> QED
    BY <2>7 DEF e
<1> QED
  BY <1>1, <1>2

\* What the guards say stays the same as long as the tasks and the option do.
LEMMA SameGuards ==
  ASSUME tasks' = tasks, option' = option
  PROVE  /\ Ids' = Ids /\ Highs' = Highs /\ Sound' = Sound
         /\ Close(Ids \ Highs)' = Close(Ids \ Highs)
         /\ (\A id : IsHigh(id)' = IsHigh(id))
         /\ (\A A : CoreFeasible(A)' = CoreFeasible(A))
         /\ (\A o : HighFits(o)' = HighFits(o)) /\ (\A o : RateOn(o)' = RateOn(o))
         /\ (\A s : Ascending(s)' = Ascending(s))
         /\ (\A o : AllMeetDeadlines(o)' = AllMeetDeadlines(o))
         /\ (\A o, c : LowIn(o, c)' = LowIn(o, c))
<1>1. Ids' = Ids /\ \A id : IsHigh(id)' = IsHigh(id)
  BY DEF Ids, IsHigh, Threshold
<1>2. Highs' = Highs
  BY <1>1 DEF Highs, Ids
<1>3. Sound' = Sound /\ Close(Ids \ Highs)' = Close(Ids \ Highs)
  BY <1>1, <1>2 DEF Sound, Parallel, SoundPeriods, Harmonic, Close
<1>4. \A A, len : Demand(A, len)' = Demand(A, len)
  BY DEF Demand
<1>5. \A A, a : Feasible(A, a)' = Feasible(A, a)
  BY <1>4 DEF Feasible
<1>6. \A A : CoreFeasible(A)' = CoreFeasible(A)
  BY <1>5 DEF CoreFeasible
<1>7. \A o : HighFits(o)' = HighFits(o)
  BY <1>1 DEF HighFits, Size
<1>8. \A o : RateOn(o)' = RateOn(o)
  BY <1>1 DEF RateOn
<1>9. \A s : Ascending(s)' = Ascending(s)
  BY DEF Ascending
<1>10. \A o, e : MeetsDeadline(o, e)' = MeetsDeadline(o, e)
  BY <1>4 DEF MeetsDeadline, Ahead, Size
<1>11. \A o : AllMeetDeadlines(o)' = AllMeetDeadlines(o)
  BY <1>10 DEF AllMeetDeadlines
<1>12. \A o, c : LowIn(o, c)' = LowIn(o, c)
  BY <1>1 DEF LowIn
<1> QED
  BY <1>1, <1>2, <1>3, <1>6, <1>7, <1>8, <1>9, <1>11, <1>12

\* A low task needs less than a core.
LEMMA LowIsSmall ==
  ASSUME TaskInv, NEW id \in Ids, ~ IsHigh(id)
  PROVE  tasks[id].util < Hyper /\ tasks[id].util \in Nat /\ Hyper \in Nat \ {0}
<1> DEFINE u == tasks[id].util
           h == Threshold(option)
<1>1. u \in Nat /\ Hyper \in Nat \ {0}
  BY TaskTypes, ClusterSize
<1>2. h \in {18, 19, 20} /\ 20 * u < h * Hyper
  <2>1. h \in {18, 19, 20}
    BY DEF Threshold
  <2>2. ~ (20 * u >= h * Hyper)
    BY DEF IsHigh
  <2> HIDE DEF h, u
  <2>3. h * Hyper \in Int /\ 20 * u \in Int
    BY <1>1, <2>1
  <2> QED
    BY <2>1, <2>2, <2>3
<1> HIDE DEF u, h
<1>3. u < Hyper
  <2>1. h * Hyper <= 20 * Hyper
    BY <1>1, <1>2
  <2> QED
    BY <1>1, <1>2, <2>1
<1> QED
  BY <1>1, <1>3 DEF u

\* Close periods are not mapped.
LEMMA ScaledClose ==
  ASSUME TaskInv, Close(Ids \ Highs), NEW id \in Ids, ~ IsHigh(id)
  PROVE  Scaled(id) = tasks[id].period
<1> DEFINE L == Ids \ Highs
           f == [x \in L |-> tasks[x].period]
           T == {f[x] : x \in L}
           periods == {tasks[x].period : x \in L}
<1>1. id \in L
  BY DEF Highs, Ids
<1>2. T = periods
  OBVIOUS
<1>3. IsFiniteSet(L)
  BY IdsAreNumbers, FS_Subset DEF TaskInv
<1>4. \A x \in L : tasks[x].period \in Nat /\ f[x] = tasks[x].period
  BY TaskTypes
<1>5. IsFiniteSet(T) /\ T \subseteq Int /\ T # {}
  <2>1. IsFiniteSet(T)
    <3> HIDE DEF f, L
    <3> QED
      BY <1>3, ImageIsFinite
  <2> QED
    BY <1>1, <1>4, <2>1
<1> HIDE DEF T
<1>6. Min(T) \in T /\ Max(T) \in T
  BY <1>5, MinFinite, MaxFinite
<1>7. PICK a \in L : Min(T) = f[a]
  BY <1>6 DEF T
<1>8. PICK b \in L : Max(T) = f[b]
  BY <1>6 DEF T
<1>9. f[b] < 2 * f[a]
  BY <1>4, <1>7, <1>8 DEF Close
<1>10. ~ (Max(T) >= 2 * Min(T))
  BY <1>4, <1>7, <1>8, <1>9
<1>11. Scaled(id) = (IF Max(periods) >= 2 * Min(periods)
                       THEN tasks[id].period - 2 * Min(periods) + Max(periods) ELSE tasks[id].period)
  BY DEF Scaled, Ids
<1> QED
  BY <1>2, <1>10, <1>11

\* A list whose high tasks have the clusters that they had.
LEMMA HighFitsKept ==
  ASSUME NEW o, HighFits(o), NEW p,
         \A i \in DOMAIN p : IsHigh(p[i].id) =>
            \E j \in DOMAIN o : o[j].id = p[i].id /\ Size(o[j]) = Size(p[i])
  PROVE  HighFits(p)
<1> SUFFICES ASSUME NEW i \in DOMAIN p, IsHigh(p[i].id)
             PROVE  /\ Size(p[i]) >= 2
                    /\ tasks[p[i].id].work - tasks[p[i].id].span
                         <= Size(p[i]) * (tasks[p[i].id].period - tasks[p[i].id].span)
  BY DEF HighFits
<1>1. PICK j \in DOMAIN o : o[j].id = p[i].id /\ Size(o[j]) = Size(p[i])
  OBVIOUS
<1>2. IsHigh(o[j].id)
  BY <1>1
<1>3. /\ Size(o[j]) >= 2
      /\ tasks[o[j].id].work - tasks[o[j].id].span
           <= Size(o[j]) * (tasks[o[j].id].period - tasks[o[j].id].span)
  BY <1>2 DEF HighFits
<1> QED
  BY <1>1, <1>3

\* A cluster that is given is large enough (lib_cluster.py:521-541).
LEMMA PlaceHighFits ==
  ASSUME TaskInv, TypeInv, PhaseInv, Parallel, HighFits(out), PlaceHigh
  PROVE  HighFits(out')
<1> DEFINE N == Len(out)
           id == info[N + 1]
           n == NumCore(tasks[id])
           e == [id |-> id, prio |-> 97, first |-> parted, last |-> parted + n - 1]
           t == tasks[id]
<1>1. phase = "high" /\ N < Len(info) /\ IsHigh(id) /\ out' = Append(out, e)
  BY Zenon DEF PlaceHigh, NextIsHigh
<1>2. out \in Seq(Entry) /\ info \in Seq(Ids) /\ parted \in Int
  BY DEF TypeInv
<1>3. N \in Nat /\ DOMAIN out = 1 .. N /\ id \in Ids
  <2>1. N \in Nat /\ DOMAIN out = 1 .. N /\ Len(info) \in Nat
    BY <1>2, SeqIsFunction
  <2>2. N + 1 \in 1 .. Len(info)
    BY <1>1, <2>1
  <2> QED
    BY <1>2, <2>1, <2>2, SeqIsFunction
<1>4. t.work > t.span
  <2>1. 20 * t.util >= Threshold(option) * Hyper /\ t.util \in Nat /\ Hyper \in Nat
    BY <1>1, <1>3, TaskTypes, ClusterSize DEF IsHigh
  <2>2. Threshold(option) \in {18, 19, 20}
    BY DEF Threshold
  <2> DEFINE u == t.util
             h == Threshold(option)
  <2> HIDE DEF u, h
  <2>3. h * Hyper >= 18 * Hyper
    BY <2>1, <2>2 DEF h
  <2>4. 20 * u >= 18 * Hyper
    <3>1. u \in Nat /\ Hyper \in Nat /\ h * Hyper \in Int /\ 20 * u >= h * Hyper
      BY <2>1, <2>2 DEF u, h
    <3> QED
      BY <2>3, <3>1
  <2> QED
    BY <1>3, <2>4 DEF Parallel, Ids, u
<1>5. /\ n \in Nat /\ n >= 2 /\ Spare(t, n) \in Nat
      /\ t.period - t.span \in Nat \ {0} /\ t.work - t.span \in Nat
  BY <1>1, <1>3, <1>4, NumCoreEnough DEF Called
<1>6. Size(e) = n
  BY <1>2, <1>5 DEF Size
<1>7. t.work - t.span <= n * (t.period - t.span)
  <2>1. n * (t.period - t.span) - (t.work - t.span) \in Nat
    BY <1>5 DEF Spare
  <2> DEFINE a == t.work - t.span
             d == t.period - t.span
  <2>2. a \in Nat /\ d \in Nat /\ n * d - a \in Nat
    BY <1>5, <2>1
  <2> HIDE DEF a, d, n
  <2>3. n * d \in Int
    BY <1>5, <2>2
  <2>4. a <= n * d
    BY <2>2, <2>3
  <2> QED
    BY <2>4 DEF a, d
<1> HIDE DEF n, e, N
<1>8. /\ Append(out, e) = out' /\ DOMAIN Append(out, e) = 1 .. N + 1 /\ Append(out, e)[N + 1] = e
      /\ \A i \in 1 .. N : Append(out, e)[i] = out[i]
  BY <1>1, <1>2, <1>3 DEF N
<1> SUFFICES ASSUME NEW i \in DOMAIN out', IsHigh(out'[i].id)
             PROVE  /\ Size(out'[i]) >= 2
                    /\ tasks[out'[i].id].work - tasks[out'[i].id].span
                         <= Size(out'[i]) * (tasks[out'[i].id].period - tasks[out'[i].id].span)
  BY DEF HighFits
<1>9. CASE i = N + 1
  <2>1. out'[i] = e /\ e.id = id
    BY <1>8, <1>9 DEF e
  <2> QED
    BY <1>5, <1>6, <1>7, <2>1
<1>10. CASE i # N + 1
  <2>1. i \in 1 .. N /\ out'[i] = out[i]
    BY <1>3, <1>8, <1>10
  <2> QED
    BY <1>3, <2>1 DEF HighFits
<1> QED
  BY <1>9, <1>10

\* What is counted on a core are low tasks, and the statistics are those of these tasks.
LEMMA CountedOnCore ==
  ASSUME TaskInv, TypeInv, StatInv, phase \in {"low", "balance"}, PhaseInv, NEW c \in Cores
  PROVE  /\ Counted(c) \in SUBSET Ids /\ (\A x \in Counted(c) : ~ IsHigh(x) /\ x \in Ids \ Highs)
         /\ stat[c].np = Cardinality(Counted(c)) /\ stat[c].sumutil = Load(Counted(c))
         /\ IsFiniteSet(Counted(c)) /\ Cardinality(Counted(c)) \in Nat /\ Load(Counted(c)) \in Nat
         /\ (stat[c].np = 0 => Counted(c) = {})
<1>1. \A x \in ToSet(moved[c]) : x \in Ids /\ ~ IsHigh(x)
  <2> TAKE x \in ToSet(moved[c])
  <2>1. PICK k \in DOMAIN moved[c] : moved[c][k] = x
    BY InToSet
  <2>2. moved[c] \in Seq(Ids)
    BY DEF TypeInv
  <2>3. x \in Ids
    BY <2>1, <2>2, SeqIsFunction
  <2>4. ~ IsHigh(x)
    <3>1. CASE phase = "balance"
      BY <2>1, <3>1 DEF PhaseInv, BalancePhase
    <3>2. CASE phase = "low"
      <4>1. moved[c] = <<>>
        BY <3>2 DEF PhaseInv, LowPhase
      <4> QED
        BY <2>1, <4>1
    <3> QED
      BY <3>1, <3>2
  <2> QED
    BY <2>3, <2>4
<1>2. \A x \in LowIn(out, c) : x \in Ids /\ ~ IsHigh(x)
  BY DEF LowIn, TypeInv
<1>3. Counted(c) \in SUBSET Ids /\ \A x \in Counted(c) : ~ IsHigh(x)
  BY <1>1, <1>2 DEF Counted
<1> DEFINE A == Counted(c)
<1>4. \A x \in A : ~ IsHigh(x) /\ x \in Ids \ Highs
  BY <1>3 DEF Highs, Ids
<1>5. stat[c].np = Cardinality(A) /\ stat[c].sumutil = Load(A)
  BY DEF StatInv
<1> HIDE DEF A
<1>6. A \in SUBSET Ids
  BY <1>3 DEF A
<1>7. IsFiniteSet(A) /\ Cardinality(A) \in Nat
  BY <1>6, IdsAreNumbers, FS_Subset, FS_CardinalityType DEF TaskInv
<1>8. Load(A) \in Nat
  BY <1>6, LoadGrows
<1>9. stat[c].np = 0 => A = {}
  BY <1>5, <1>7, FS_EmptySet
<1> QED
  BY <1>4, <1>5, <1>6, <1>7, <1>8, <1>9 DEF A

\* There is room for a low task: the core is empty, or the periods are harmonic and it is less than
\* full, or they are close and it is within the bound.
HasRoom(c, z) ==
  \/ stat[c].np = 0
  \/ Harmonic(Ids \ Highs) /\ stat[c].sumutil + tasks[z].util <= Hyper
  \/ /\ Close(Ids \ Highs) /\ stat[c].np # 0
     /\ WithinBound(stat[c].sumutil + tasks[z].util, stat[c].np + 1, Scaled(z), stat[c].mint)

\* With one more task for which there is room the tasks of a core still meet their deadlines.
LEMMA RoomIsFeasible ==
  ASSUME TaskInv, TypeInv, StatInv, phase \in {"low", "balance"}, PhaseInv, LeastKnown, NEW c \in Cores,
         CoreFeasible(Counted(c)), NEW z \in Ids, ~ IsHigh(z), z \notin Counted(c), HasRoom(c, z),
         \A x \in Counted(c) : tasks[x].period <= tasks[z].period
  PROVE  CoreFeasible(Counted(c) \cup {z})
<1> DEFINE A == Counted(c)
           s == stat[c]
           u == tasks[z].util
<1>1. /\ A \in SUBSET Ids /\ (\A x \in A : ~ IsHigh(x) /\ x \in Ids \ Highs)
      /\ s.np = Cardinality(A) /\ s.sumutil = Load(A) /\ Cardinality(A) \in Nat /\ Load(A) \in Nat
      /\ (s.np = 0 => A = {})
  BY CountedOnCore
<1>2. z \in Ids \ Highs
  BY DEF Highs, Ids
<1>3. u < Hyper /\ u \in Nat /\ Hyper \in Nat
  BY LowIsSmall
<1>4. Load(A \cup {z}) = s.sumutil + u /\ Cardinality(A \cup {z}) = s.np + 1
  <2>1. Load(A \cup {z}) = Load(A) + u /\ Cardinality(A \cup {z}) = Cardinality(A) + 1
    <3> HIDE DEF A
    <3>1. A \in SUBSET Ids /\ z \notin A
      BY <1>1 DEF A
    <3> QED
      BY <3>1, LoadAdd
  <2> QED
    BY <1>1, <2>1
<1> HIDE DEF A, s, u
<1>5. CASE s.np = 0
  <2>1. A \cup {z} = {z}
    BY <1>1, <1>5
  <2>2. u <= Hyper
    BY <1>3
  <2>3. CoreFeasible({z})
    BY <2>2, OneIsFeasible DEF u
  <2> QED
    BY <2>1, <2>3 DEF A
<1>6. CASE Harmonic(Ids \ Highs) /\ s.sumutil + u <= Hyper
  <2>1. A \cup {z} \in SUBSET Ids /\ A \cup {z} \in SUBSET (Ids \ Highs)
    BY <1>1, <1>2
  <2>2. Harmonic(A \cup {z})
    BY <1>6, <2>1 DEF Harmonic
  <2>3. Load(A \cup {z}) <= Hyper
    BY <1>4, <1>6
  <2> DEFINE B == A \cup {z}
  <2> HIDE DEF B
  <2>4. CoreFeasible(B)
    BY <2>1, <2>2, <2>3, HarmonicIsEnough DEF B
  <2> QED
    BY <2>4 DEF A, B
<1>7. CASE Close(Ids \ Highs) /\ s.np # 0 /\ WithinBound(s.sumutil + u, s.np + 1, Scaled(z), s.mint)
  <2> DEFINE m == s.mint
  <2>1. A # {}
    BY <1>1, <1>7, LoadEmpty
  <2>2. (\A x \in A : m <= tasks[x].period) /\ \E y \in Ids \ Highs : m = tasks[y].period
    BY <1>7, <2>1 DEF LeastKnown, A, s
  <2>3. PICK y \in Ids \ Highs : m = tasks[y].period
    BY <2>2
  <2>4. m \in Nat \ {0}
    BY <2>3, TaskTypes
  <2>5. Scaled(z) = tasks[z].period
    BY <1>7, ScaledClose
  <2>6. tasks[z].period < 2 * m
    BY <1>2, <1>7, <2>3 DEF Close
  <2>7. \A x \in A : tasks[x].period <= tasks[z].period
    BY DEF A
  <2>8. m <= tasks[z].period
    <3>1. PICK x \in A : TRUE
      BY <2>1
    <3>2. m <= tasks[x].period /\ tasks[x].period <= tasks[z].period
      BY <2>2, <2>7
    <3>3. tasks[x].period \in Nat /\ tasks[z].period \in Nat
      BY <1>1, TaskTypes
    <3> QED
      BY <2>4, <3>2, <3>3
  <2> HIDE DEF m
  <2>9. WithinBound(Load(A \cup {z}), Cardinality(A \cup {z}), tasks[z].period, m)
    BY <1>4, <1>7, <2>5 DEF m
  <2>10. A \in SUBSET Ids /\ CoreFeasible(A)
    BY <1>1 DEF A
  <2>11. CoreFeasible(A \cup {z})
    BY <2>2, <2>4, <2>6, <2>7, <2>8, <2>9, <2>10, BoundedLast
  <2> QED
    BY <2>11 DEF A
<1> QED
  BY <1>5, <1>6, <1>7 DEF HasRoom, s, u

\* A low task that is put on a core has a longer period and a lower priority than those there.
LEMMA PutRanks ==
  ASSUME TaskInv, TypeInv, PhaseInv, StatInv, phase = "low", low # <<>>, RateOn(out), Waiting,
         NEW core \in Cores, NEW o, Shortened(o), Put(core, Head(low), o),
         tasks' = tasks, option' = option, moved' = moved
  PROVE  RateOn(out)' /\ Waiting'
<1> DEFINE N == Len(out)
           z == Head(low)
           e == out'[N + 1]
<1>1. LowPhase
  BY DEF PhaseInv
<1>4. /\ z \in Ids /\ ~ IsHigh(z) /\ N \in Nat /\ DOMAIN out' = 1 .. N + 1 /\ DOMAIN out = 1 .. N
      /\ (\A i \in 1 .. N : out'[i] = o[i] /\ o[i].id = out[i].id /\ o[i].first = out[i].first
                             /\ o[i].prio = out[i].prio)
      /\ e.id = z /\ e.first = core
      /\ out \in Seq(Entry)
  <2>1. Shortened(o)
    OBVIOUS
  <2>2. out \in Seq(Entry)
    BY DEF TypeInv
  <2>3. /\ Head(low) \in Ids /\ ~ IsHigh(Head(low)) /\ DOMAIN out' = 1 .. Len(out) + 1
        /\ DOMAIN out = 1 .. Len(out) /\ Len(out) \in Nat /\ (\A i \in 1 .. Len(out) : out'[i] = o[i])
        /\ out'[Len(out) + 1].id = Head(low) /\ out'[Len(out) + 1].first = core
    BY <1>1, PutIsRight
  <2> QED
    BY <2>1, <2>2, <2>3 DEF Shortened
<1>5. /\ stat' = [stat EXCEPT ![core] = Added(@, z)] /\ low' = Tail(low)
      /\ out' = Append(o, [id |-> z, prio |-> 97 - stat[core].np, first |-> core, last |-> core])
  BY DEF Put
<1>6. e.prio = 97 - stat[core].np
  <2>1. Len(o) = N
    <3>1. o \in Seq(Entry) /\ DOMAIN o = 1 .. N
      BY <1>4 DEF Shortened
    <3> QED
      BY <1>4, <3>1, SeqIsFunction
  <2> QED
    BY <1>4, <1>5, <2>1
<1>8. /\ low \in Seq(Ids) /\ low' \in Seq(Ids) /\ z = low[1] /\ DOMAIN low = 1 .. Len(low) /\ Len(low) \in Nat \ {0}
      /\ DOMAIN low' = 1 .. Len(low) - 1 /\ \A k \in 1 .. Len(low) - 1 : low'[k] = low[k + 1]
  <2>1. low \in Seq(Ids)
    BY DEF TypeInv
  <2> QED
    BY <1>5, <2>1, TailSeq
<1>9. stat[core].np \in Nat /\ DOMAIN stat = Cores
  BY DEF TypeInv
<1>10. /\ stat'[core] = Added(stat[core], z) /\ \A c \in Cores : c # core => stat'[c] = stat[c]
  BY <1>5, <1>9
<1>11. stat'[core].np = stat[core].np + 1
  BY <1>10 DEF Added
<1>12. \A i \in 1 .. N : ~ IsHigh(out[i].id) =>
          /\ tasks[out[i].id].period <= tasks[z].period
          /\ out[i].prio >= 98 - stat[out[i].first].np
          /\ \A k \in DOMAIN low : tasks[out[i].id].period <= tasks[low[k]].period
  <2> TAKE i \in 1 .. N
  <2> HAVE ~ IsHigh(out[i].id)
  <2>1. i \in DOMAIN out /\ 1 \in DOMAIN low
    BY <1>4, <1>8
  <2>2. /\ \A k \in DOMAIN low : tasks[out[i].id].period <= tasks[low[k]].period
        /\ out[i].prio >= 98 - stat[out[i].first].np
    BY <2>1 DEF Waiting
  <2> QED
    BY <1>8, <2>1, <2>2
<1>13. \A i \in 1 .. N : out[i].id \in Ids /\ out[i].first \in Cores /\ out[i].prio \in Int
  <2>1. \A i \in 1 .. N : out[i] \in Entry /\ out[i].id \in Ids
    BY <1>4, SeqIsFunction DEF TypeInv
  <2> QED
    BY <2>1 DEF Entry
<1> HIDE DEF z, e, N
<1>18. RateOn(out')
  <2> SUFFICES ASSUME NEW i \in DOMAIN out', NEW j \in DOMAIN out', ~ IsHigh(out'[i].id), ~ IsHigh(out'[j].id),
                      out'[i].first = out'[j].first, out'[i].prio >= out'[j].prio
               PROVE  tasks[out'[i].id].period <= tasks[out'[j].id].period
    BY DEF RateOn
  <2>0. (i \in 1 .. N \/ i = N + 1) /\ (j \in 1 .. N \/ j = N + 1)
    BY <1>4
  <2>1. CASE i \in 1 .. N /\ j \in 1 .. N
    BY <1>4, <2>1 DEF RateOn
  <2>2. CASE i \in 1 .. N /\ j = N + 1
    <3>1. out'[i].id = out[i].id /\ out'[j].id = z
      BY <1>4, <2>2 DEF e
    <3> QED
      BY <1>12, <2>2, <3>1
  <2>3. CASE i = N + 1 /\ j \in 1 .. N
    <3>1. out'[j].id = out[j].id /\ out[j].first = core /\ e.prio >= out[j].prio
      BY <1>4, <2>3 DEF e
    <3>2. out[j].prio >= 98 - stat[core].np /\ out[j].prio \in Int
      BY <1>12, <1>13, <2>3, <3>1
    <3> QED
      BY <1>6, <1>9, <3>1, <3>2
  <2>4. CASE i = N + 1 /\ j = N + 1
    <3>1. tasks[z].period \in Nat
      BY <1>4, TaskTypes
    <3>2. out'[i].id = z /\ out'[j].id = z
      BY <1>4, <2>4 DEF e
    <3> QED
      BY <3>1, <3>2
  <2> QED
    BY <2>0, <2>1, <2>2, <2>3, <2>4
<1>21. Ascending(low')
  <2> SUFFICES ASSUME NEW k \in DOMAIN low', NEW l \in DOMAIN low', k <= l
               PROVE  tasks[low'[k]].period <= tasks[low'[l]].period
    BY DEF Ascending
  <2>1. low'[k] = low[k + 1] /\ low'[l] = low[l + 1] /\ k + 1 \in DOMAIN low /\ l + 1 \in DOMAIN low /\ k + 1 <= l + 1
    BY <1>8
  <2> QED
    BY <2>1 DEF Waiting, Ascending
<1>22. \A i \in DOMAIN out' : ~ IsHigh(out'[i].id) =>
         /\ \A k \in DOMAIN low' : tasks[out'[i].id].period <= tasks[low'[k]].period
         /\ out'[i].prio >= 98 - stat'[out'[i].first].np
  <2> SUFFICES ASSUME NEW i \in DOMAIN out', ~ IsHigh(out'[i].id)
               PROVE  /\ \A k \in DOMAIN low' : tasks[out'[i].id].period <= tasks[low'[k]].period
                      /\ out'[i].prio >= 98 - stat'[out'[i].first].np
    OBVIOUS
  <2>1. \A k \in DOMAIN low' : low'[k] = low[k + 1] /\ k + 1 \in DOMAIN low /\ 1 \in DOMAIN low /\ 1 <= k + 1
    BY <1>8
  <2>2. CASE i \in 1 .. N
    <3>1. out'[i].id = out[i].id /\ out'[i].first = out[i].first /\ out'[i].prio = out[i].prio /\ ~ IsHigh(out[i].id)
      BY <1>4, <2>2
    <3>2. \A k \in DOMAIN low' : tasks[out'[i].id].period <= tasks[low'[k]].period
      BY <1>12, <2>1, <2>2, <3>1
    <3>3. out[i].prio >= 98 - stat[out[i].first].np /\ out[i].first \in Cores /\ out[i].prio \in Int
      BY <1>12, <1>13, <2>2, <3>1
    <3>4. out[i].prio >= 98 - stat'[out[i].first].np
      <4>1. CASE out[i].first = core
        BY <1>9, <1>11, <3>3, <4>1
      <4>2. CASE out[i].first # core
        BY <1>10, <3>3, <4>2
      <4> QED
        BY <4>1, <4>2
    <3> QED
      BY <3>1, <3>2, <3>4
  <2>3. CASE i = N + 1
    <3>1. out'[i].id = z /\ out'[i].first = core /\ out'[i].prio = 97 - stat[core].np
      BY <1>4, <1>6, <2>3 DEF e
    <3>2. \A k \in DOMAIN low' : tasks[z].period <= tasks[low'[k]].period
      BY <1>8, <2>1 DEF Waiting, Ascending
    <3>3. out'[i].prio >= 98 - stat'[core].np
      BY <1>9, <1>11, <3>1
    <3> QED
      BY <3>1, <3>2, <3>3
  <2> QED
    BY <1>4, <2>2, <2>3
<1>23. /\ (\A id : IsHigh(id)' = IsHigh(id))
       /\ (\A p : RateOn(p)' = RateOn(p)) /\ (\A s : Ascending(s)' = Ascending(s))
  BY SameGuards
<1>24. RateOn(out)'
  BY <1>18, <1>23
<1>25. Waiting'
  BY <1>21, <1>22, <1>23 DEF Waiting
<1> QED
  BY <1>24, <1>25

\* A low task is put on a core with room for it.
LEMMA PutGuard ==
  ASSUME TaskInv, TypeInv, PhaseInv, StatInv, LowGuard, NEW i0, PutOn(i0), sched = 0,
         Sound => HasRoom(lowcore[i0], Head(low))
  PROVE  LowGuard'
<1> DEFINE N == Len(out)
           core == lowcore[i0]
           z == Head(low)
           e == out'[N + 1]
<1>1. /\ i0 \in DOMAIN lowcore /\ low # <<>> /\ phase = "low" /\ phase' = "low"
      /\ Put(core, z, out) /\ tasks' = tasks /\ option' = option /\ moved' = moved /\ lowcore' = lowcore
  BY DEF PutOn
<1>2. LowPhase
  BY <1>1 DEF PhaseInv
<1>3. core \in Cores
  BY <1>1, SeqIsFunction DEF TypeInv
<1>4. /\ z \in Ids /\ ~ IsHigh(z) /\ N \in Nat /\ DOMAIN out' = 1 .. N + 1 /\ DOMAIN out = 1 .. N
      /\ (\A i \in 1 .. N : out'[i] = out[i])
      /\ e.id = z /\ e.first = core
      /\ out \in Seq(Entry)
  <2>1. Shortened(out)
    BY DEF Shortened, TypeInv
  <2>2. out \in Seq(Entry)
    BY DEF TypeInv
  <2> HIDE DEF core
  <2>3. /\ Head(low) \in Ids /\ ~ IsHigh(Head(low)) /\ DOMAIN out' = 1 .. Len(out) + 1
        /\ DOMAIN out = 1 .. Len(out) /\ Len(out) \in Nat /\ (\A i \in 1 .. Len(out) : out'[i] = out[i])
        /\ out'[Len(out) + 1].id = Head(low) /\ out'[Len(out) + 1].first = core
    BY <1>1, <1>2, <1>3, <2>1, PutIsRight
  <2> QED
    BY <2>2, <2>3
<1>5. stat' = [stat EXCEPT ![core] = Added(@, z)]
  BY <1>1 DEF Put
<1>7. /\ RateOn(out) /\ LeastKnown /\ Waiting /\ (Sound => \A c \in Cores : CoreFeasible(Counted(c)))
  BY <1>1 DEF LowGuard
<1>8. z = low[1] /\ 1 \in DOMAIN low
  BY <1>1, TailSeq DEF TypeInv
<1>9. stat[core].np \in Nat /\ DOMAIN stat = Cores
  BY <1>3 DEF TypeInv
<1>10. /\ stat'[core] = Added(stat[core], z) /\ \A c \in Cores : c # core => stat'[c] = stat[c]
  BY <1>3, <1>5, <1>9
<1> HIDE DEF z, core, e, N
\* The statistics with one more task.
<1>14. \A c \in Cores : LowIn(out', c) = LowIn(out, c) \cup (IF c = core THEN {z} ELSE {})
  <2> TAKE c \in Cores
  <2>1. \A i \in 1 .. N + 1 : i \in 1 .. N \/ i = N + 1
    BY <1>4
  <2>2. N + 1 \in DOMAIN out' /\ \A i \in 1 .. N : i \in DOMAIN out' /\ i \in DOMAIN out
    BY <1>4
  <2>3. ASSUME NEW x \in LowIn(out', c) PROVE x \in LowIn(out, c) \cup (IF c = core THEN {z} ELSE {})
    <3>1. PICK i \in DOMAIN out' : out'[i].first = c /\ ~ IsHigh(out'[i].id) /\ x = out'[i].id
      BY <2>3 DEF LowIn
    <3>2. CASE i \in 1 .. N
      BY <1>4, <2>2, <3>1, <3>2 DEF LowIn
    <3>3. CASE i = N + 1
      BY <1>4, <3>1, <3>3 DEF e
    <3> QED
      BY <1>4, <2>1, <3>2, <3>3
  <2>4. ASSUME NEW x \in LowIn(out, c) PROVE x \in LowIn(out', c)
    <3>1. PICK i \in DOMAIN out : out[i].first = c /\ ~ IsHigh(out[i].id) /\ x = out[i].id
      BY <2>4 DEF LowIn
    <3>2. i \in DOMAIN out' /\ out'[i] = out[i]
      BY <1>4, <2>2
    <3> QED
      BY <3>1, <3>2 DEF LowIn
  <2>5. c = core => z \in LowIn(out', c)
    BY <1>4, <2>2 DEF LowIn, e
  <2> QED
    BY <2>3, <2>4, <2>5
<1> DEFINE Now(c) == LowIn(out', c) \cup ToSet(moved[c])
<1>15. \A c \in Cores : Now(c) = Counted(c) \cup (IF c = core THEN {z} ELSE {})
  BY <1>14 DEF Counted
<1>16. \A c \in Cores : Counted(c) = LowIn(out, c)
  <2>1. \A c \in Cores : ToSet(moved[c]) = {}
    <3> TAKE c \in Cores
    <3>1. moved[c] = <<>>
      BY <1>2 DEF LowPhase
    <3>2. \A x : x \notin ToSet(moved[c])
      BY <3>1, InToSet
    <3> QED
      BY <3>2
  <2> QED
    BY <2>1 DEF Counted
<1>17. \A x \in Counted(core) : tasks[x].period <= tasks[z].period /\ x # z
  <2> TAKE x \in Counted(core)
  <2>1. PICK i \in DOMAIN out : out[i].first = core /\ ~ IsHigh(out[i].id) /\ x = out[i].id
    BY <1>3, <1>16 DEF LowIn
  <2>2. tasks[x].period <= tasks[z].period
    BY <1>7, <1>8, <2>1 DEF Waiting
  <2>3. ~ Listed(z)
    BY <1>2, <1>8 DEF LowPhase
  <2>4. x # z
    BY <2>1, <2>3 DEF Listed
  <2> QED
    BY <2>2, <2>4
<1>19. Sound => \A c \in Cores : CoreFeasible(Now(c))
  <2> SUFFICES ASSUME Sound, NEW c \in Cores PROVE CoreFeasible(Now(c))
    OBVIOUS
  <2>1. CASE c # core
    <3>1. Now(c) = Counted(c)
      BY <1>15, <2>1
    <3> HIDE DEF Now
    <3> QED
      BY <1>7, <3>1
  <2>2. CASE c = core
    <3>1. Now(core) = Counted(core) \cup {z}
      BY <1>3, <1>15
    <3>2. HasRoom(core, z) /\ z \notin Counted(core) /\ CoreFeasible(Counted(core))
      BY <1>3, <1>7, <1>17 DEF core, z
    <3> HIDE DEF Now
    <3>3. CoreFeasible(Counted(core) \cup {z})
      BY <1>1, <1>3, <1>4, <1>7, <1>17, <3>2, RoomIsFeasible
    <3> QED
      BY <2>2, <3>1, <3>3
  <2> QED
    BY <2>1, <2>2
<1>20. Close(Ids \ Highs) =>
         \A c \in Cores : Now(c) # {} =>
           /\ \A x \in Now(c) : stat'[c].mint <= tasks[x].period
           /\ \E y \in Ids \ Highs : stat'[c].mint = tasks[y].period
  <2> SUFFICES ASSUME Close(Ids \ Highs), NEW c \in Cores, Now(c) # {}
               PROVE  /\ \A x \in Now(c) : stat'[c].mint <= tasks[x].period
                      /\ \E y \in Ids \ Highs : stat'[c].mint = tasks[y].period
    OBVIOUS
  <2>1. CASE c # core
    <3>1. Now(c) = Counted(c) /\ stat'[c] = stat[c]
      BY <1>10, <1>15, <2>1
    <3> HIDE DEF Now
    <3> QED
      BY <1>7, <3>1 DEF LeastKnown
  <2>2. CASE c = core /\ stat[core].np = 0
    <3>1. Counted(core) = {}
      BY <1>1, <1>3, <2>2, CountedOnCore
    <3>2. Now(c) = {z}
      BY <1>15, <2>2, <3>1
    <3>3. stat'[c].mint = tasks[z].period
      <4>1. stat'[c].mint = Scaled(z)
        BY <1>10, <2>2 DEF Added
      <4> QED
        BY <1>4, <4>1, ScaledClose
    <3>4. z \in Ids \ Highs /\ tasks[z].period \in Nat
      BY <1>4, TaskTypes DEF Highs, Ids
    <3> HIDE DEF Now
    <3> QED
      BY <3>2, <3>3, <3>4
  <2>3. CASE c = core /\ stat[core].np # 0
    <3>1. stat'[c].mint = stat[core].mint
      BY <1>10, <2>3 DEF Added
    <3>2. /\ Counted(core) # {} /\ Counted(core) \in SUBSET Ids
      <4>1. stat[core].np = Cardinality(Counted(core)) /\ Counted(core) \in SUBSET Ids
        BY <1>1, <1>3, CountedOnCore
      <4> QED
        BY <2>3, <4>1, LoadEmpty
    <3>3. /\ \A x \in Counted(core) : stat[core].mint <= tasks[x].period
          /\ \E y \in Ids \ Highs : stat[core].mint = tasks[y].period
      BY <1>3, <1>7, <3>2 DEF LeastKnown
    <3>4. PICK x \in Counted(core) : TRUE
      BY <3>2
    <3>5. stat[core].mint <= tasks[z].period
      <4>1. tasks[x].period \in Nat /\ tasks[z].period \in Nat
        BY <1>4, <3>2, TaskTypes
      <4>2. stat[core].mint \in Nat
        BY <3>3, TaskTypes
      <4> QED
        BY <1>17, <3>3, <4>1, <4>2
    <3>6. Now(c) = Counted(core) \cup {z}
      BY <1>15, <2>3
    <3> HIDE DEF Now
    <3> QED
      BY <3>1, <3>3, <3>5, <3>6
  <2> QED
    BY <2>1, <2>2, <2>3
<1>23. /\ Ids' = Ids /\ Highs' = Highs /\ Sound' = Sound
       /\ Close(Ids \ Highs)' = Close(Ids \ Highs)
       /\ (\A id : IsHigh(id)' = IsHigh(id))
       /\ (\A A : CoreFeasible(A)' = CoreFeasible(A))
       /\ (\A o : RateOn(o)' = RateOn(o)) /\ (\A s : Ascending(s)' = Ascending(s))
       /\ (\A o, c : LowIn(o, c)' = LowIn(o, c))
  BY <1>1, SameGuards
<1>24. \A c : Counted(c)' = Now(c)
  BY <1>1, <1>23 DEF Counted, ToSet
<1> HIDE DEF Now
<1>25. RateOn(out)' /\ Waiting'
  <2>1. Shortened(out)
    BY <1>4 DEF Shortened
  <2> QED
    BY <1>1, <1>3, <1>7, <2>1, PutRanks DEF core, z
<1>26. (Sound => \A c \in Cores : CoreFeasible(Counted(c)))'
  BY <1>19, <1>23, <1>24
<1>27. LeastKnown'
  BY <1>1, <1>20, <1>23, <1>24 DEF LeastKnown
<1> QED
  BY <1>1, <1>25, <1>26, <1>27 DEF LowGuard

\* FirstAdmitting puts the task on a core that admits it.
LEMMA FirstAdmittingRoom ==
  ASSUME TaskInv, TypeInv, PhaseInv, FirstAdmitting
  PROVE  /\ sched' = sched
         /\ \E i \in DOMAIN lowcore : PutOn(i) /\ (Sound => HasRoom(lowcore[i], Head(low)))
<1> DEFINE n == Len(lowcore)
           T == {j \in DOMAIN lowcore : Admits(Ring[j], Head(low))}
           k == Min(T)
<1>1. LowPhase /\ phase = "low" /\ low # <<>> /\ ~ NoCoreAdmits /\ option # 1
  BY DEF FirstAdmitting, PhaseInv
<1>2. /\ DOMAIN lowcore = 1 .. n /\ n \in Nat \ {0}
      /\ (\A j \in DOMAIN lowcore : Ring[j] \in DOMAIN lowcore)
      /\ (\A i \in DOMAIN lowcore : \E j \in DOMAIN lowcore : Ring[j] = i)
  BY <1>1, RingIsOnto
<1>3. T # {} /\ T \subseteq 1 .. n
  <2>1. PICK i \in DOMAIN lowcore : Admits(i, Head(low))
    BY <1>1 DEF NoCoreAdmits
  <2>2. PICK j \in DOMAIN lowcore : Ring[j] = i
    BY <1>2
  <2>3. j \in T
    BY <2>1, <2>2
  <2> QED
    BY <1>2, <2>3
<1>4. k \in T
  <2> HIDE DEF T
  <2> QED
    BY <1>2, <1>3, LeastMember
<1>5. k \in DOMAIN lowcore /\ Admits(Ring[k], Head(low))
  BY <1>4
<1>6. cur' = Ring[k] /\ Put(lowcore[Ring[k]], Head(low), out)
  BY DEF FirstAdmitting
<1>7. Ring[k] \in DOMAIN lowcore
  BY <1>2, <1>5
<1> HIDE DEF k
<1>8. PutOn(Ring[k])
  BY <1>1, <1>6, <1>7 DEF FirstAdmitting, PutOn, input, highs
<1> DEFINE i == Ring[k]
           c == lowcore[i]
           z == Head(low)
<1>9. stat[c].np = 0 \/ WithinBound(stat[c].sumutil + tasks[z].util, stat[c].np + 1, Scaled(z), stat[c].mint)
  BY <1>5 DEF Admits, IsEmpty, Bounded
<1>10. Sound => HasRoom(c, z)
  <2> SUFFICES ASSUME Sound PROVE HasRoom(c, z)
    OBVIOUS
  <2>1. Harmonic(Ids \ Highs) \/ Close(Ids \ Highs)
    BY DEF Sound, SoundPeriods, Ids
  <2> HIDE DEF c, z
  <2>2. WithinBound(stat[c].sumutil + tasks[z].util, stat[c].np + 1, Scaled(z), stat[c].mint) =>
          stat[c].sumutil + tasks[z].util <= Hyper
    BY DEF WithinBound
  <2> QED
    BY <1>9, <2>1, <2>2 DEF HasRoom
<1> QED
  BY <1>7, <1>8, <1>10 DEF FirstAdmitting

\* No core of low tasks is used less than the one of least utilisation.
LEMMA LeastLoadedIsLeast ==
  ASSUME TypeInv, LowPhase
  PROVE  \A i \in DOMAIN lowcore : SumUtil(LeastLoaded(Len(lowcore))) <= SumUtil(i)
<1> DEFINE n == Len(lowcore)
           f == [k \in 1 .. n |-> SumUtil(Ring[k])]
           U == {SumUtil(Ring[k]) : k \in 1 .. n}
           least == Min(U)
           T == {k \in 1 .. n : SumUtil(Ring[k]) = least}
<1>1. /\ DOMAIN lowcore = 1 .. n /\ n \in Nat \ {0} /\ (\A k \in 1 .. n : Ring[k] \in 1 .. n)
      /\ \A i \in 1 .. n : \E k \in 1 .. n : Ring[k] = i
  BY RingIsOnto
<1>2. \A k \in 1 .. n : SumUtil(Ring[k]) \in Int
  <2> TAKE k \in 1 .. n
  <2>1. lowcore[Ring[k]] \in Cores
    BY <1>1, SeqIsFunction DEF TypeInv
  <2> QED
    BY <2>1 DEF TypeInv, SumUtil
<1>3. U \subseteq Int /\ U # {}
  <2>1. 1 \in 1 .. n
    BY <1>1
  <2> QED
    BY <1>2, <2>1
<1>4. IsFiniteSet(U)
  <2>1. IsFiniteSet(1 .. n)
    BY <1>1, FS_Interval
  <2>2. U = {f[k] : k \in 1 .. n}
    OBVIOUS
  <2> HIDE DEF f, U
  <2> QED
    BY <2>1, <2>2, ImageIsFinite
<1>5. least \in U /\ \A x \in U : least <= x
  <2> HIDE DEF U
  <2> QED
    BY <1>3, <1>4, MinFinite
<1>6. T # {} /\ T \subseteq 1 .. n
  BY <1>5
<1>7. Min(T) \in T
  <2> HIDE DEF T
  <2> QED
    BY <1>1, <1>6, LeastMember
<1>8. LeastLoaded(n) = Ring[Min(T)]
  BY DEF LeastLoaded
<1>9. SumUtil(LeastLoaded(n)) = least
  BY <1>7, <1>8
<1>10. \A i \in 1 .. n : SumUtil(i) \in U
  BY <1>1
<1> HIDE DEF least, U
<1> QED
  BY <1>1, <1>5, <1>9, <1>10

\* WorstFit puts the task on an empty core, or on one that is used no more than a core that accepts it.
LEMMA WorstFitRoom ==
  ASSUME TaskInv, TypeInv, PhaseInv, WorstFit
  PROVE  /\ sched' = sched
         /\ \E i \in DOMAIN lowcore : PutOn(i) /\ (Sound => HasRoom(lowcore[i], Head(low)))
<1> DEFINE n == Len(lowcore)
           T == {j \in DOMAIN lowcore : IsEmpty(Ring[j])}
           i == IF T = {} THEN LeastLoaded(n) ELSE Ring[Min(T)]
           z == Head(low)
<1>1. LowPhase /\ phase = "low" /\ low # <<>> /\ option = 1 /\ ~ NoCoreBounded
  BY DEF WorstFit, PhaseInv
<1>2. /\ DOMAIN lowcore = 1 .. n /\ n \in Nat \ {0}
      /\ (\A j \in DOMAIN lowcore : Ring[j] \in DOMAIN lowcore)
      /\ (\A h \in DOMAIN lowcore : \E j \in DOMAIN lowcore : Ring[j] = h)
  BY <1>1, RingIsOnto
<1>3. LeastLoaded(n) \in DOMAIN lowcore /\ \A h \in DOMAIN lowcore : SumUtil(LeastLoaded(n)) <= SumUtil(h)
  BY <1>1, LeastLoadedIsCore, LeastLoadedIsLeast
<1>4. T # {} => Ring[Min(T)] \in DOMAIN lowcore /\ IsEmpty(Ring[Min(T)])
  <2>1. T \subseteq 1 .. n
    BY <1>2
  <2> HIDE DEF T
  <2>2. T # {} => Min(T) \in T
    BY <1>2, <2>1, LeastMember
  <2> QED
    BY <1>2, <2>1, <2>2 DEF T
<1>5. cur' = (IF T = {} THEN cur ELSE i) /\ Put(lowcore[i], z, out)
  BY DEF WorstFit
<1>6. i \in DOMAIN lowcore
  BY <1>3, <1>4
<1>7. cur' \in DOMAIN lowcore
  <2>1. cur \in DOMAIN lowcore
    BY <1>1 DEF LowPhase
  <2> HIDE DEF i, T
  <2> QED
    BY <1>5, <1>6, <2>1
<1>8. Sound => HasRoom(lowcore[i], z)
  <2> SUFFICES ASSUME Sound PROVE HasRoom(lowcore[i], z)
    OBVIOUS
  <2>1. Harmonic(Ids \ Highs)
    BY <1>1 DEF Sound, SoundPeriods, Ids
  <2>2. CASE T # {}
    BY <1>4, <2>2 DEF IsEmpty, HasRoom
  <2>3. CASE T = {}
    <3>1. \A h \in DOMAIN lowcore : ~ IsEmpty(h)
      BY <1>2, <2>3
    <3>2. PICK h \in DOMAIN lowcore : Bounded(h, z)
      BY <1>1, <3>1 DEF NoCoreBounded
    <3>3. SumUtil(h) + tasks[z].util <= Hyper
      BY <3>2 DEF Bounded, WithinBound, SumUtil
    <3>4. SumUtil(i) <= SumUtil(h)
      BY <1>3, <2>3
    <3>5. SumUtil(i) \in Int /\ SumUtil(h) \in Int
      BY <1>6, SumUtilInt
    <3>6. tasks[z].util \in Nat /\ Hyper \in Nat
      <4>1. z \in Ids
        BY <1>1, TailSeq DEF TypeInv
      <4> QED
        BY <4>1, TaskTypes, ClusterSize
    <3> HIDE DEF i, z
    <3>7. SumUtil(i) + tasks[z].util <= Hyper
      BY <3>3, <3>4, <3>5, <3>6
    <3> QED
      BY <2>1, <3>7 DEF HasRoom, SumUtil
  <2> QED
    BY <2>2, <2>3
<1> HIDE DEF i, T
<1>9. PutOn(i)
  BY <1>1, <1>5, <1>6, <1>7 DEF WorstFit, PutOn, input, highs
<1> QED
  BY <1>6, <1>8, <1>9 DEF WorstFit

\* When the first high tasks are placed and the low ones wait, no low task is on a core.
LEMMA StartLowGuard ==
  ASSUME TaskInv, TypeInv, PhaseInv, HighClusters, OwnInv, HighMeets, StartLow
  PROVE  LowGuard' /\ HighMeets'
<1> DEFINE N == Len(out)
           o == IF Crossing /\ FitsSockets THEN Refitted ELSE out
<1>1. /\ LowIsNext /\ phase = "high" /\ phase' = "low" /\ low' = Rest /\ out' = o
      /\ option' = option /\ tasks' = tasks /\ moved' = moved /\ sched' = sched
  BY DEF StartLow, LowIsNext, input, Rest
<1>2. HighPhase /\ moved = [c \in Cores |-> <<>>] /\ sched = 0
  BY <1>1 DEF PhaseInv, HighPhase
<1>3. /\ N \in Nat /\ DOMAIN out = 1 .. N /\ \A i \in 1 .. N : IsHigh(out[i].id)
  BY <1>1, <1>2, HighList
<1>4. /\ DOMAIN o = 1 .. N
      /\ (\A i \in 1 .. N : \E j \in 1 .. N : o[i].id = out[j].id /\ Size(o[i]) = Size(out[j]))
  <2>1. o = IF Crossing /\ FitsSockets THEN Refitted ELSE out
    OBVIOUS
  <2> HIDE DEF o
  <2> QED
    BY <1>1, <1>2, <2>1, RefitKeeps, ZenonT(60)
<1> HIDE DEF o, N
<1>5. \A i \in DOMAIN o : IsHigh(o[i].id)
  BY <1>3, <1>4
<1>6. Parallel => HighFits(o)
  <2> SUFFICES ASSUME Parallel PROVE HighFits(o)
    OBVIOUS
  <2>1. HighFits(out)
    BY <1>1, <1>2 DEF HighMeets
  <2>2. \A i \in DOMAIN o : \E j \in DOMAIN out : out[j].id = o[i].id /\ Size(out[j]) = Size(o[i])
    BY <1>3, <1>4
  <2> QED
    BY <2>1, <2>2, HighFitsKept
<1>7. /\ Ids' = Ids /\ Highs' = Highs /\ Sound' = Sound
      /\ Close(Ids \ Highs)' = Close(Ids \ Highs)
      /\ (\A id : IsHigh(id)' = IsHigh(id))
      /\ (\A A : CoreFeasible(A)' = CoreFeasible(A))
      /\ (\A p : HighFits(p)' = HighFits(p))
      /\ (\A p : RateOn(p)' = RateOn(p)) /\ (\A s : Ascending(s)' = Ascending(s))
      /\ (\A p, c : LowIn(p, c)' = LowIn(p, c))
  BY <1>1, SameGuards
<1>8. \A c \in Cores : LowIn(o, c) = {} /\ ToSet(moved[c]) = {}
  <2> TAKE c \in Cores
  <2>1. LowIn(o, c) = {}
    BY <1>5 DEF LowIn
  <2>2. moved[c] = <<>>
    BY <1>2
  <2>3. \A x : x \notin ToSet(moved[c])
    BY <2>2, InToSet
  <2> QED
    BY <2>1, <2>3
<1>9. \A c \in Cores : Counted(c)' = {}
  BY <1>1, <1>7, <1>8 DEF Counted, ToSet
<1>10. CoreFeasible({})
  BY DEF CoreFeasible
<1>11. Ascending(Rest)
  <2> DEFINE s == SubSeq(info, Len(out) + 1, Len(info))
  <2>1. Len(out) \in Nat /\ Len(info) \in Nat /\ info \in Seq(Ids)
    BY <1>1, <1>2, HighList
  <2>2. s \in Seq(Ids)
    <3>1. \A i \in Len(out) + 1 .. Len(info) : info[i] \in Ids
      <4>1. \A i \in 1 .. Len(info) : info[i] \in Ids
        BY <2>1, SeqIsFunction
      <4> QED
        BY <2>1, <4>1
    <3> QED
      BY <2>1, <3>1, SubSeqProperties
  <2> HIDE DEF s
  <2>3. \A x \in Ids : tasks[x].period \in Int
    BY TaskTypes
  <2>4. /\ Reorders(SortPeriod(s), s)
        /\ \A k, l \in 1 .. Len(s) : k <= l => tasks[SortPeriod(s)[k]].period <= tasks[SortPeriod(s)[l]].period
    BY <2>2, <2>3, SortPeriodSorts
  <2>5. DOMAIN SortPeriod(s) = 1 .. Len(s)
    BY <2>2, <2>4, ReorderedSeq
  <2>6. Rest = SortPeriod(s)
    BY DEF Rest, s
  <2> QED
    BY <2>4, <2>5, <2>6 DEF Ascending
<1>12. RateOn(o)
  BY <1>5 DEF RateOn
<1>13. RateOn(out)' /\ LeastKnown' /\ (Sound => \A c \in Cores : CoreFeasible(Counted(c)))'
  <2>1. RateOn(out)'
    BY <1>1, <1>7, <1>12
  <2>2. LeastKnown'
    BY <1>9 DEF LeastKnown
  <2>3. \A c \in Cores : CoreFeasible(Counted(c))'
    BY <1>7, <1>9, <1>10
  <2> QED
    BY <2>1, <2>2, <2>3
<1>14. Waiting'
  BY <1>1, <1>5, <1>7, <1>11 DEF Waiting
<1>15. LowGuard'
  BY <1>1, <1>13, <1>14 DEF LowGuard
<1>16. HighMeets'
  <2>1. Parallel' = Parallel
    BY <1>1 DEF Parallel
  <2> QED
    BY <1>1, <1>6, <1>7, <2>1 DEF HighMeets
<1> QED
  BY <1>15, <1>16

-------------------------------------------------------------------------------
(* The steps keep the guards. *)

\* A low task on a core of low tasks leaves the clusters as they are.
LEMMA PutHighMeets ==
  ASSUME TaskInv, TypeInv, PhaseInv, StatInv, HighMeets, NEW i0, PutOn(i0), sched = 0
  PROVE  HighMeets'
<1>1. /\ i0 \in DOMAIN lowcore /\ phase = "low" /\ phase' = "low" /\ low # <<>>
      /\ Put(lowcore[i0], Head(low), out) /\ tasks' = tasks /\ option' = option /\ moved' = moved
  BY DEF PutOn
<1>2. LowPhase /\ Shortened(out) /\ lowcore[i0] \in Cores
  BY <1>1, SeqIsFunction DEF PhaseInv, Shortened, TypeInv
<1>3. /\ ~ IsHigh(Head(low)) /\ DOMAIN out' = 1 .. Len(out) + 1 /\ Len(out) \in Nat
      /\ DOMAIN out = 1 .. Len(out) /\ (\A i \in 1 .. Len(out) : out'[i] = out[i])
      /\ out'[Len(out) + 1].id = Head(low)
  <2> DEFINE core == lowcore[i0]
  <2>1. core \in Cores /\ Put(core, Head(low), out)
    BY <1>1, <1>2
  <2> HIDE DEF core
  <2> QED
    BY <1>1, <1>2, <2>1, PutIsRight
<1>4. Parallel' = Parallel /\ \A o : HighFits(o)' = HighFits(o)
  BY <1>1, SameGuards DEF Parallel
<1>5. Parallel => HighFits(out')
  <2> SUFFICES ASSUME Parallel PROVE HighFits(out')
    OBVIOUS
  <2>1. HighFits(out)
    BY <1>1 DEF HighMeets
  <2>2. \A i \in DOMAIN out' : IsHigh(out'[i].id) => i \in DOMAIN out /\ out'[i] = out[i]
    <3> SUFFICES ASSUME NEW i \in DOMAIN out', IsHigh(out'[i].id) PROVE i \in DOMAIN out /\ out'[i] = out[i]
      OBVIOUS
    <3>1. i # Len(out) + 1
      BY <1>3
    <3> QED
      BY <1>3, <3>1
  <2>3. \A i \in DOMAIN out' : IsHigh(out'[i].id) =>
            \E j \in DOMAIN out : out[j].id = out'[i].id /\ Size(out[j]) = Size(out'[i])
    BY <2>2
  <2> QED
    BY <2>1, <2>3, HighFitsKept
<1> QED
  BY <1>1, <1>4, <1>5 DEF HighMeets

\* Where a low task may be, no cluster starts.
LEMMA HighElsewhere ==
  ASSUME TypeInv, OwnInv, phase \in {"low", "balance"}, sched = 0, HighFits(out),
         NEW c \in ToSet(lowcore), NEW j \in DOMAIN out, out[j].first = c
  PROVE  ~ IsHigh(out[j].id)
<1> SUFFICES ASSUME IsHigh(out[j].id) PROVE FALSE
  OBVIOUS
<1>1. c < out[j].first \/ out[j].last < c
  BY DEF OwnInv
<1>2. Size(out[j]) >= 2
  BY DEF HighFits
<1>3. out[j].first \in Int /\ out[j].last \in Int
  <2>1. out[j] \in Entry
    BY SeqIsFunction DEF TypeInv
  <2> QED
    BY <2>1 DEF Entry, Cores
<1> QED
  BY <1>1, <1>2, <1>3 DEF Size

\* All tasks are high.
LEMMA AllHighGuard ==
  ASSUME TaskInv, TypeInv, PhaseInv, HighClusters, OwnInv, HighMeets, AllHigh
  PROVE  DoneGuard' /\ HighMeets' /\ LowGuard' /\ Ranking(out)'
<1> DEFINE N == Len(out)
           o == IF Crossing /\ FitsSockets THEN Refitted ELSE out
<1>1. /\ phase = "high" /\ phase' = "done" /\ sched' = 0 /\ out' = o
      /\ option' = option /\ tasks' = tasks
  BY DEF AllHigh, input
<1>2. HighPhase /\ sched = 0
  BY <1>1 DEF PhaseInv, HighPhase
<1>3. /\ N \in Nat /\ DOMAIN out = 1 .. N /\ \A i \in 1 .. N : IsHigh(out[i].id) /\ out[i].id \in Ids
  BY <1>1, <1>2, HighList DEF TypeInv
<1>4. /\ DOMAIN o = 1 .. N /\ o \in Seq(Entry)
      /\ (\A i \in 1 .. N : \E j \in 1 .. N : o[i].id = out[j].id /\ Size(o[i]) = Size(out[j]))
  <2>1. o = IF Crossing /\ FitsSockets THEN Refitted ELSE out
    OBVIOUS
  <2> HIDE DEF o
  <2> QED
    BY <1>1, <1>2, <2>1, RefitKeeps, ZenonT(60)
<1> HIDE DEF o, N
<1>5. \A i \in DOMAIN o : IsHigh(o[i].id) /\ o[i].id \in Ids
  BY <1>3, <1>4
<1>6. \A i \in DOMAIN o : o[i].first \in Int /\ o[i].last \in Int
  <2>1. \A i \in DOMAIN o : o[i] \in Entry
    BY <1>4, SeqIsFunction
  <2> QED
    BY <2>1 DEF Entry, Cores
<1>7. Sound => AllMeetDeadlines(o)
  <2> SUFFICES ASSUME Sound PROVE AllMeetDeadlines(o)
    OBVIOUS
  <2>1. HighFits(out)
    BY <1>1, <1>2 DEF HighMeets, Sound
  <2>2. \A i \in DOMAIN o : \E j \in DOMAIN out : out[j].id = o[i].id /\ Size(out[j]) = Size(o[i])
    BY <1>3, <1>4
  <2>3. HighFits(o)
    BY <2>1, <2>2, HighFitsKept
  <2>4. RateOn(o)
    BY <1>5 DEF RateOn
  <2> QED
    BY <1>5, <1>6, <2>3, <2>4, Meets
<1>8. Sound' = Sound /\ \A p : AllMeetDeadlines(p)' = AllMeetDeadlines(p)
  BY <1>1, SameGuards
<1>9. Ranking(out)'
  <2>1. \A id : IsHigh(id)' = IsHigh(id)
    BY <1>1, SameGuards
  <2> QED
    BY <1>1, <1>5, <2>1 DEF Ranking, RateOn
<1> QED
  BY <1>1, <1>7, <1>8, <1>9 DEF DoneGuard, HighMeets, LowGuard

\* All tasks are placed: the partition is complete, or it is balanced.
LEMMA LowPlacedGuard ==
  ASSUME TaskInv, TypeInv, PhaseInv, OwnInv, LowInv, HighMeets, LowGuard, LowPlaced, sched = 0
  PROVE  DoneGuard' /\ HighMeets' /\ LowGuard'
<1>1. /\ phase = "low" /\ phase' \in {"balance", "done"}
      /\ option' = option /\ tasks' = tasks /\ stat' = stat /\ moved' = moved /\ out' = out /\ sched' = sched
  BY DEF LowPlaced, input
<1>2. LowPhase
  BY <1>1 DEF PhaseInv
<1>3. /\ Ids' = Ids /\ Highs' = Highs /\ Sound' = Sound
      /\ Close(Ids \ Highs)' = Close(Ids \ Highs)
      /\ (\A id : IsHigh(id)' = IsHigh(id))
      /\ (\A A : CoreFeasible(A)' = CoreFeasible(A))
      /\ (\A o : HighFits(o)' = HighFits(o))
      /\ (\A o : RateOn(o)' = RateOn(o)) /\ (\A s : Ascending(s)' = Ascending(s))
      /\ (\A o : AllMeetDeadlines(o)' = AllMeetDeadlines(o))
      /\ (\A o, c : LowIn(o, c)' = LowIn(o, c))
  BY <1>1, SameGuards
<1>4. /\ RateOn(out) /\ LeastKnown /\ (Sound => \A c \in Cores : CoreFeasible(Counted(c)))
  BY <1>1 DEF LowGuard
<1>5. \A c : Counted(c)' = Counted(c)
  BY <1>1, <1>3 DEF Counted, ToSet
<1>6. \A c \in Cores : moved[c] = <<>>
  BY <1>2 DEF LowPhase
<1>7. MovedApart'
  BY <1>1, <1>6 DEF MovedApart, Ascending
<1>8. RateOn(out)' /\ LeastKnown' /\ (Sound => \A c \in Cores : CoreFeasible(Counted(c)))'
  BY <1>1, <1>3, <1>4, <1>5 DEF LeastKnown
<1>9. LowGuard'
  BY <1>1, <1>7, <1>8 DEF LowGuard
<1>10. HighMeets'
  BY <1>1, <1>3 DEF HighMeets, Parallel
<1>11. Sound => AllMeetDeadlines(out)
  <2> SUFFICES ASSUME Sound PROVE AllMeetDeadlines(out)
    OBVIOUS
  <2>1. HighFits(out)
    BY <1>1 DEF HighMeets, Sound
  <2>2. \A i \in DOMAIN out : out[i].id \in Ids /\ out[i].first \in Int /\ out[i].last \in Int /\ out[i].first \in Cores
    <3>1. \A i \in DOMAIN out : out[i] \in Entry /\ out[i].id \in Ids
      BY SeqIsFunction DEF TypeInv
    <3> QED
      BY <3>1 DEF Entry, Cores
  <2>3. ASSUME NEW i \in DOMAIN out, ~ IsHigh(out[i].id)
        PROVE  /\ out[i].last = out[i].first
               /\ CoreFeasible(LowIn(out, out[i].first))
               /\ \A j \in DOMAIN out : out[j].first = out[i].first => ~ IsHigh(out[j].id)
    <3> DEFINE c == out[i].first
    <3>1. out[i].last = c /\ c \in ToSet(lowcore) /\ c \in Cores
      BY <1>1, <2>2, <2>3 DEF LowInv
    <3>2. \A x : x \notin ToSet(moved[c])
      <4>1. moved[c] = <<>>
        BY <1>6, <3>1
      <4> QED
        BY <4>1, InToSet
    <3>3. Counted(c) = LowIn(out, c)
      BY <3>2 DEF Counted
    <3>4. CoreFeasible(LowIn(out, c))
      BY <1>4, <3>1, <3>3
    <3>5. \A j \in DOMAIN out : out[j].first = c => ~ IsHigh(out[j].id)
      BY <1>1, <2>1, <3>1, HighElsewhere
    <3> QED
      BY <3>1, <3>4, <3>5
  <2> QED
    BY <1>4, <2>1, <2>2, <2>3, Meets
<1>12. DoneGuard'
  BY <1>1, <1>3, <1>11 DEF DoneGuard
<1> QED
  BY <1>9, <1>10, <1>12

\* The load of the first elements of a list, summed over their places.
LEMMA PrefixLoad ==
  ASSUME TaskInv, NEW g \in Seq(Ids), Distinct(g)
  PROVE  \A n \in 0 .. Len(g) :
           /\ Load(Prefix(g, n)) = SumFunctionOnSet([k \in DOMAIN g |-> tasks[g[k]].util], 1 .. n)
           /\ Cardinality(Prefix(g, n)) = n /\ Prefix(g, n) \in SUBSET Ids
<1> DEFINE N == Len(g)
           f == [k \in DOMAIN g |-> tasks[g[k]].util]
           S == {n \in Nat : n <= N => Load(Prefix(g, n)) = SumFunctionOnSet(f, 1 .. n)}
<1>1. N \in Nat /\ DOMAIN g = 1 .. N /\ g \in [1 .. N -> Ids]
  BY SeqIsFunction
<1>2. \A k, l \in 1 .. N : g[k] = g[l] => k = l
  BY <1>1 DEF Distinct
<1>3. \A k \in 1 .. N : f[k] = tasks[g[k]].util /\ f[k] \in Int
  <2> TAKE k \in 1 .. N
  <2>1. g[k] \in Ids
    BY <1>1
  <2> QED
    BY <1>1, <2>1, TaskTypes
<1> HIDE DEF f, N
<1>4. \A n \in 0 .. N : /\ IsFiniteSet(Prefix(g, n)) /\ Cardinality(Prefix(g, n)) = n
                        /\ Prefix(g, n) \subseteq Ids
  BY <1>1, <1>2, PrefixIsFinite
<1>5. 0 \in S
  <2>1. Prefix(g, 0) = {} /\ 1 .. 0 = {}
    BY DEF Prefix
  <2> QED
    BY <2>1, LoadEmpty, SumEmpty
<1>6. \A n \in Nat : n \in S => n + 1 \in S
  <2> TAKE n \in Nat
  <2> HAVE n \in S
  <2> SUFFICES ASSUME n + 1 <= N PROVE Load(Prefix(g, n + 1)) = SumFunctionOnSet(f, 1 .. n + 1)
    OBVIOUS
  <2> DEFINE i == n + 1
             D == 1 .. n
             p == Prefix(g, n)
  <2>1. i \in 1 .. N /\ i - 1 = n /\ n \in 0 .. N
    BY <1>1
  <2>2. Load(p) = SumFunctionOnSet(f, D)
    BY <1>1
  <2>3. D \cup {i} = 1 .. n + 1 /\ i \notin D /\ \A k \in D \cup {i} : k \in 1 .. N
    BY <1>1
  <2>4. IsFiniteSet(D)
    BY FS_Interval
  <2> HIDE DEF i
  <2>5. Prefix(g, i) = Prefix(g, i - 1) \cup {g[i]} /\ g[i] \notin Prefix(g, i - 1) /\ g[i] \in Ids
    BY <1>1, <1>2, <2>1, PrefixStep
  <2>6. Prefix(g, i) = p \cup {g[i]} /\ g[i] \notin p /\ g[i] \in Ids /\ p \in SUBSET Ids
    BY <1>4, <2>1, <2>5
  <2> HIDE DEF p
  <2>7. Load(p \cup {g[i]}) = Load(p) + tasks[g[i]].util
    BY <2>6, LoadAdd
  <2> HIDE DEF D
  <2>8. \A k \in D \cup {i} : f[k] \in Int
    BY <1>3, <2>3
  <2>a. i \notin D
    BY <2>3
  <2>9. SumFunctionOnSet(f, D \cup {i}) = SumFunctionOnSet(f, D) + f[i]
    <3> HIDE DEF S
    <3> QED
      BY <2>a, <2>4, <2>8, SumAdd, Zenon
  <2>10. Load(Prefix(g, i)) = SumFunctionOnSet(f, D \cup {i})
    BY <1>3, <2>1, <2>2, <2>6, <2>7, <2>9
  <2> QED
    BY <2>3, <2>10 DEF i
<1> HIDE DEF S
<1>7. Nat \subseteq S
  BY <1>5, <1>6, SetInduction
<1> SUFFICES ASSUME NEW n \in 0 .. N
             PROVE  /\ Load(Prefix(g, n)) = SumFunctionOnSet(f, 1 .. n)
                    /\ Cardinality(Prefix(g, n)) = n /\ Prefix(g, n) \in SUBSET Ids
  BY DEF N, f
<1>8. n \in S /\ n <= N
  BY <1>1, <1>7
<1> QED
  BY <1>4, <1>8 DEF S

\* In a list in the order of periods the tasks with periods up to that of x are the first ones.
LEMMA LastOfPeriod ==
  ASSUME TaskInv, NEW g \in Seq(Ids), Ascending(g), NEW x \in ToSet(g)
  PROVE  \E j \in DOMAIN g : /\ tasks[g[j]].period = tasks[x].period
                             /\ {y \in ToSet(g) : tasks[y].period <= tasks[x].period} = Prefix(g, j)
                             /\ \A k \in DOMAIN g : tasks[g[k]].period <= tasks[x].period => k <= j
<1> DEFINE N == Len(g)
           J == {k \in 1 .. N : tasks[g[k]].period <= tasks[x].period}
           j == Max(J)
<1>1. N \in Nat /\ DOMAIN g = 1 .. N /\ \A k \in 1 .. N : g[k] \in Ids
  BY SeqIsFunction
<1>2. PICK i \in 1 .. N : g[i] = x
  BY <1>1, InToSet
<1>3. \A k \in 1 .. N : tasks[g[k]].period \in Nat
  BY <1>1, TaskTypes
<1>4. tasks[x].period \in Nat
  BY <1>2, <1>3
<1>5. i \in J
  BY <1>2, <1>4
<1>6. j \in J /\ \A k \in J : k <= j
  <2>1. IsFiniteSet(1 .. N)
    BY <1>1, FS_Interval
  <2>2. J \subseteq 1 .. N
    OBVIOUS
  <2>3. IsFiniteSet(J) /\ J \subseteq Int /\ J # {}
    <3> HIDE DEF J, N
    <3>1. IsFiniteSet(J)
      BY <2>1, <2>2, FS_Subset
    <3> QED
      BY <1>5, <2>2, <3>1
  <2> HIDE DEF J
  <2> QED
    BY <2>3, MaxFinite
<1> HIDE DEF j
<1>7. j \in 1 .. N /\ tasks[g[j]].period <= tasks[x].period
  BY <1>6
<1>8. tasks[x].period <= tasks[g[j]].period
  BY <1>1, <1>2, <1>5, <1>6, <1>7 DEF Ascending
<1>9. tasks[g[j]].period = tasks[x].period
  BY <1>3, <1>4, <1>7, <1>8
<1>10. \A k \in 1 .. j : k \in 1 .. N /\ tasks[g[k]].period <= tasks[g[j]].period
  BY <1>1, <1>7 DEF Ascending
<1>11. {y \in ToSet(g) : tasks[y].period <= tasks[x].period} = Prefix(g, j)
  <2>1. ASSUME NEW y \in ToSet(g), tasks[y].period <= tasks[x].period PROVE y \in Prefix(g, j)
    <3>1. PICK k \in 1 .. N : g[k] = y
      BY <1>1, InToSet
    <3>2. k \in J
      BY <2>1, <3>1
    <3>3. k \in 1 .. j
      BY <1>6, <1>7, <3>1, <3>2
    <3> QED
      BY <3>1, <3>3 DEF Prefix
  <2>2. ASSUME NEW y \in Prefix(g, j) PROVE y \in ToSet(g) /\ tasks[y].period <= tasks[x].period
    <3>1. PICK k \in 1 .. j : g[k] = y
      BY DEF Prefix
    <3>2. k \in DOMAIN g /\ tasks[g[k]].period <= tasks[x].period
      BY <1>1, <1>9, <1>10
    <3> QED
      BY <3>1, <3>2, InToSet
  <2> QED
    BY <2>1, <2>2
<1> QED
  BY <1>1, <1>6, <1>7, <1>9, <1>11

\* Which candidate a move takes.
LEMMA MovedCandidate ==
  ASSUME TaskInv, TypeInv, PhaseInv, Move
  PROVE  \E n \in Movable, x \in DOMAIN out :
           /\ n \in DOMAIN Candidates /\ (\A k \in Movable : n <= k)
           /\ DOMAIN Candidates = 1 .. Cardinality(At(out, CoreMax)) /\ n \in Nat \ {0}
           /\ Cardinality(At(out, CoreMax)) \in Nat
           /\ (\A k \in DOMAIN Candidates : Candidates[k] \in Ids /\ ~ IsHigh(Candidates[k]))
           /\ Moves(Candidates[n], x, MintAfter(n))
<1> DEFINE n == Min(Movable)
           id == Candidates[n]
           y == CHOOSE i \in DOMAIN out : out[i].id = id
           m == Cardinality(At(out, CoreMax))
<1>1. phase = "balance" /\ Unbalanced /\ ~ NoPeriod /\ Movable # {}
  BY DEF Move
<1>2. BalancePhase
  BY <1>1 DEF PhaseInv
<1>3. Movable \subseteq DOMAIN Candidates
  BY DEF Movable
<1>4. DOMAIN Candidates = 1 .. m /\ m \in Nat
  <2>1. DOMAIN Candidates = 1 .. Cardinality(At(out, CoreMax))
    BY Zenon DEF Candidates, SortUtil, SortOn
  <2>2. Cardinality(At(out, CoreMax)) \in Nat
    <3>1. DOMAIN out = 1 .. Len(out) /\ Len(out) \in Nat
      BY SeqIsFunction DEF TypeInv
    <3>2. IsFiniteSet(1 .. Len(out))
      BY <3>1, FS_Interval
    <3>3. At(out, CoreMax) \subseteq 1 .. Len(out)
      BY <3>1 DEF At
    <3>4. IsFiniteSet(At(out, CoreMax))
      BY <3>2, <3>3, FS_Subset
    <3> QED
      BY <3>4, FS_CardinalityType
  <2> QED
    BY <2>1, <2>2
<1> HIDE DEF m
<1>a. Movable \subseteq 1 .. m
  BY <1>3, <1>4
<1>b. Movable \subseteq Int /\ IsFiniteSet(Movable)
  <2>1. IsFiniteSet(1 .. m)
    BY <1>4, FS_Interval
  <2>2. IsFiniteSet(Movable)
    BY <1>a, <2>1, FS_Subset
  <2> QED
    BY <1>a, <2>2
<1>5. n \in Movable /\ \A k \in Movable : n <= k
  BY <1>1, <1>b, MinFinite
<1>6. n \in DOMAIN Candidates /\ n \in Nat \ {0}
  BY <1>3, <1>4, <1>5
<1>7. \A k \in DOMAIN Candidates : ~ IsHigh(Candidates[k])
  BY <1>1 DEF NoPeriod
<1>8. /\ stat' = [stat EXCEPT
           ![CoreMin] = [np |-> @.np + 1, sumutil |-> @.sumutil + tasks[id].util, mint |-> MintAfter(n)],
           ![CoreMax] = Removed(@, id)]
      /\ moved' = [moved EXCEPT ![CoreMin] = SortPeriod(Append(@, id))]
      /\ out' = RemoveAt(out, y)
  BY Zenon DEF Move
<1> HIDE DEF n
<1>c. \A k \in DOMAIN Candidates : Candidates[k] \in Ids
  BY <1>1, CandidateIsThere
<1>9. id \in Ids /\ \E i \in DOMAIN out : out[i].id = id /\ out[i].first = CoreMax
  BY <1>1, <1>6, CandidateIsThere
<1>d. ~ IsHigh(id)
  BY <1>6, <1>7
<1> HIDE DEF id
<1>10. y \in DOMAIN out /\ out[y].id = id
  BY <1>9
<1> HIDE DEF y
<1>11. out[y].first = CoreMax
  BY <1>2, <1>9, <1>10 DEF BalancePhase, DistinctIds
<1>12. Moves(id, y, MintAfter(n))
  BY <1>d, <1>8, <1>10, <1>11 DEF Moves
<1>13. /\ n \in DOMAIN Candidates /\ (\A k \in Movable : n <= k)
       /\ DOMAIN Candidates = 1 .. Cardinality(At(out, CoreMax)) /\ n \in Nat \ {0}
       /\ Cardinality(At(out, CoreMax)) \in Nat
       /\ (\A k \in DOMAIN Candidates : Candidates[k] \in Ids /\ ~ IsHigh(Candidates[k]))
       /\ Moves(Candidates[n], y, MintAfter(n))
  BY <1>4, <1>5, <1>6, <1>7, <1>c, <1>12 DEF m, id
<1> QED
  BY <1>5, <1>10, <1>13

\* What is counted on the core that receives a task.
Target == ToSet(moved[CoreMin])

\* The statistics of the core that receives a task are those of the tasks moved there.
LEMMA TargetIsCounted ==
  ASSUME TypeInv, StatInv, phase = "balance", Unbalanced
  PROVE  /\ CoreMin \in Cores /\ Counted(CoreMin) = Target /\ Target \in SUBSET Ids
         /\ moved[CoreMin] \in Seq(Ids)
         /\ stat[CoreMin].np = Cardinality(Target) /\ stat[CoreMin].sumutil = Load(Target)
<1>1. CoreMin \in Cores /\ \A i \in DOMAIN out : out[i].first # CoreMin
  BY SourceAndTarget
<1>2. Counted(CoreMin) = Target
  BY <1>1 DEF Counted, LowIn, Target
<1>3. moved[CoreMin] \in Seq(Ids)
  BY <1>1 DEF TypeInv
<1>4. Target \in SUBSET Ids
  <2>1. \A i \in DOMAIN moved[CoreMin] : moved[CoreMin][i] \in Ids
    BY <1>3, SeqIsFunction
  <2> QED
    BY <2>1, InToSet DEF Target
<1> QED
  BY <1>1, <1>2, <1>3, <1>4 DEF StatInv

\* The period that the statistics have of it then is the least one, if periods are close.
LEMMA TargetPeriod ==
  ASSUME TaskInv, TypeInv, StatInv, LowGuard, phase = "balance", sched = 0, Unbalanced, Close(Ids \ Highs),
         NEW n \in Movable, n \in DOMAIN Candidates, n \in Nat \ {0}, \A k \in Movable : n <= k,
         NEW m \in Nat, DOMAIN Candidates = 1 .. m,
         \A k \in DOMAIN Candidates : Candidates[k] \in Ids /\ ~ IsHigh(Candidates[k])
  PROVE  /\ \A x \in Target \cup {Candidates[n]} : MintAfter(n) <= tasks[x].period
         /\ \E y \in Ids \ Highs : MintAfter(n) = tasks[y].period
<1> DEFINE s == stat[CoreMin]
           id == Candidates[n]
           low0 == Ids \ Highs
<1>1. /\ CoreMin \in Cores /\ Counted(CoreMin) = Target /\ Target \in SUBSET Ids /\ s.np = Cardinality(Target)
  BY TargetIsCounted
<1>2. \A k \in DOMAIN Candidates : /\ Scaled(Candidates[k]) = tasks[Candidates[k]].period
                                   /\ Candidates[k] \in low0
  <2> TAKE k \in DOMAIN Candidates
  <2>1. Candidates[k] \in Ids /\ ~ IsHigh(Candidates[k])
    OBVIOUS
  <2>2. Candidates[k] \in low0
    BY <2>1 DEF Highs
  <2> QED
    BY <2>1, <2>2, ScaledClose
<1>3. \A y \in low0 : tasks[y].period \in Nat
  BY TaskTypes
<1>4. 1 \in DOMAIN Candidates /\ \A k \in 1 .. n : k \in DOMAIN Candidates
  <2>1. n \in Nat \ {0} /\ n \in 1 .. m
    OBVIOUS
  <2>2. 1 \in 1 .. m /\ \A k \in 1 .. n : k \in 1 .. m
    BY <2>1
  <2> QED
    BY <2>2
<1>5. CASE s.np = 0
  <2>1. Target = {}
    <3>1. IsFiniteSet(Target)
      BY <1>1, IdsAreNumbers, FS_Subset DEF TaskInv
    <3> QED
      BY <1>1, <1>5, <3>1, FS_EmptySet
  <2>2. 1 \in Movable
    BY <1>4, <1>5 DEF Movable, CanAdd
  <2>3. n = 1
    BY <1>4, <2>2
  <2>4. MintAfter(n) = Scaled(Candidates[1])
    BY <1>5 DEF MintAfter
  <2>5. MintAfter(n) = tasks[id].period /\ id \in low0
    BY <1>2, <1>4, <2>3, <2>4
  <2>6. tasks[id].period \in Nat
    BY <1>3, <2>5
  <2> QED
    BY <2>1, <2>5, <2>6
<1>6. CASE s.np # 0
  <2> DEFINE f == [k \in 1 .. n |-> Scaled(Candidates[k])]
             P == {f[k] : k \in 1 .. n}
             T == P \cup {s.mint}
  <2>1. Target # {}
    BY <1>1, <1>6, LoadEmpty
  <2>2. LeastKnown
    BY DEF LowGuard
  <2>3. (\A x \in Target : s.mint <= tasks[x].period) /\ \E y \in low0 : s.mint = tasks[y].period
    BY <1>1, <2>1, <2>2 DEF LeastKnown
  <2>4. \A t \in T : \E y \in low0 : t = tasks[y].period
    BY <1>2, <1>4, <2>3
  <2>5. T \subseteq Int /\ IsFiniteSet(T) /\ T # {}
    <3>1. T \subseteq Int
      <4> HIDE DEF T, low0
      <4> SUFFICES ASSUME NEW t \in T PROVE t \in Int
        OBVIOUS
      <4>1. PICK y \in low0 : t = tasks[y].period
        BY <2>4
      <4> QED
        BY <1>3, <4>1
    <3>2. IsFiniteSet(1 .. n)
      BY FS_Interval
    <3>3. IsFiniteSet(P)
      <4> DEFINE D == 1 .. n
      <4>1. P = {f[k] : k \in D}
        OBVIOUS
      <4> HIDE DEF P, f, D
      <4> QED
        BY <3>2, <4>1, ImageIsFinite DEF D
    <3>4. IsFiniteSet(T)
      <4> HIDE DEF P
      <4> QED
        BY <3>3, FS_AddElement
    <3> QED
      BY <3>1, <3>4
  <2>6. MintAfter(n) = Min(T)
    <3>1. {Scaled(Candidates[i]) : i \in 1 .. n} = P
      OBVIOUS
    <3> HIDE DEF P
    <3> QED
      BY <1>6, <3>1 DEF MintAfter
  <2>7. f[n] \in T /\ f[n] = tasks[id].period /\ s.mint \in T
    BY <1>2
  <2> HIDE DEF T
  <2>8. Min(T) \in T /\ \A t \in T : Min(T) <= t
    BY <2>5, MinFinite
  <2>9. \E y \in low0 : MintAfter(n) = tasks[y].period
    BY <2>4, <2>6, <2>8
  <2>10. MintAfter(n) <= tasks[id].period /\ MintAfter(n) <= s.mint
    BY <2>6, <2>7, <2>8
  <2>11. \A x \in Target : MintAfter(n) <= tasks[x].period
    <3>1. MintAfter(n) \in Nat /\ s.mint \in Nat
      BY <1>3, <2>3, <2>9
    <3>2. \A x \in Target : tasks[x].period \in Nat
      BY <1>1, TaskTypes
    <3> QED
      BY <2>3, <2>10, <3>1, <3>2
  <2> QED
    BY <2>9, <2>10, <2>11
<1> QED
  BY <1>5, <1>6

\* The tasks moved to a core and one more, in the order of periods.
LEMMA JoinedList ==
  ASSUME TaskInv, TypeInv, StatInv, phase = "balance", Unbalanced, Distinct(moved[CoreMin]),
         NEW n, Candidates[n] \in Ids, Candidates[n] \notin Target
  PROVE  /\ Joined(n) \in Seq(Ids) /\ Distinct(Joined(n)) /\ Ascending(Joined(n))
         /\ ToSet(Joined(n)) = Target \cup {Candidates[n]}
<1> DEFINE id == Candidates[n]
           mv == moved[CoreMin]
           s == <<id>> \o mv
           g == SortPeriod(s)
           M == Len(mv)
<1>1. mv \in Seq(Ids) /\ Distinct(mv) /\ <<id>> \in Seq(Ids) /\ Len(<<id>>) = 1 /\ <<id>>[1] = id
  BY TargetIsCounted
<1>2. Joined(n) = g
  BY DEF Joined
<1>3. \A x : x \in Target <=> \E k \in DOMAIN mv : mv[k] = x
  BY InToSet DEF Target
<1> HIDE DEF mv, id
<1> DEFINE one == <<id>>
<1>a. one \in Seq(Ids) /\ Len(one) = 1 /\ one[1] = id /\ s = one \o mv
  BY <1>1
<1> HIDE DEF one, s
<1>4. /\ s \in Seq(Ids) /\ DOMAIN s = 1 .. Len(one) + M /\ M \in Nat /\ DOMAIN mv = 1 .. M
      /\ (\A i \in 1 .. Len(one) : s[i] = one[i]) /\ (\A i \in 1 .. M : s[Len(one) + i] = mv[i])
      /\ \A i \in 1 .. Len(one) + M : i \in 1 .. Len(one) \/ \E j \in 1 .. M : i = Len(one) + j
  <2> DEFINE t == one \o mv
             O == Len(one)
  <2>0. one \in Seq(Ids) /\ mv \in Seq(Ids)
    BY <1>1, <1>a
  <2>1. /\ t \in Seq(Ids) /\ DOMAIN t = 1 .. O + M /\ M \in Nat /\ DOMAIN mv = 1 .. M
        /\ (\A i \in 1 .. O : t[i] = one[i]) /\ (\A i \in 1 .. M : t[O + i] = mv[i])
        /\ \A i \in 1 .. O + M : i \in 1 .. O \/ \E j \in 1 .. M : i = O + j
    <3>1. t \in Seq(Ids) /\ DOMAIN t = 1 .. O + M /\ M \in Nat /\ DOMAIN mv = 1 .. M
      BY <2>0, ConcatSeq
    <3>2. (\A i \in 1 .. O : t[i] = one[i]) /\ (\A i \in 1 .. M : t[O + i] = mv[i])
      BY <2>0, ConcatSeq
    <3>3. \A i \in 1 .. O + M : i \in 1 .. O \/ \E j \in 1 .. M : i = O + j
      BY <2>0, ConcatSeq
    <3> QED
      BY <3>1, <3>2, <3>3
  <2>2. s = t
    BY <1>a
  <2> HIDE DEF M, t
  <2> QED
    BY <2>1, <2>2
<1> HIDE DEF M
<1>5. /\ DOMAIN s = 1 .. M + 1 /\ s[1] = id /\ (\A i \in 1 .. M : s[1 + i] = mv[i])
      /\ \A i \in 1 .. M + 1 : i = 1 \/ \E j \in 1 .. M : i = 1 + j
  BY <1>4, <1>a
<1>6. \A i \in 1 .. M : mv[i] # id
  BY <1>3, <1>4 DEF id
<1>7. Distinct(s)
  <2> SUFFICES ASSUME NEW i \in 1 .. M + 1, NEW j \in 1 .. M + 1, s[i] = s[j] PROVE i = j
    BY <1>5 DEF Distinct
  <2>1. CASE i = 1 /\ j = 1
    BY <2>1
  <2>2. CASE i # 1 /\ j = 1
    BY <1>5, <1>6, <2>2
  <2>3. CASE i = 1 /\ j # 1
    BY <1>5, <1>6, <2>3
  <2>4. CASE i # 1 /\ j # 1
    <3>1. PICK k \in 1 .. M : i = 1 + k
      BY <1>5, <2>4
    <3>2. PICK l \in 1 .. M : j = 1 + l
      BY <1>5, <2>4
    <3>3. mv[k] = mv[l]
      BY <1>5, <3>1, <3>2
    <3> QED
      BY <1>1, <1>4, <3>1, <3>2, <3>3 DEF Distinct
  <2> QED
    BY <2>1, <2>2, <2>3, <2>4
<1>8. ToSet(s) = Target \cup {id}
  <2>1. ASSUME NEW x, x \in ToSet(s) PROVE x \in Target \cup {id}
    <3>1. PICK i \in 1 .. M + 1 : s[i] = x
      BY <1>5, <2>1, InToSet
    <3>2. CASE i = 1
      BY <1>5, <3>1, <3>2
    <3>3. CASE i # 1
      <4>1. PICK j \in 1 .. M : i = 1 + j
        BY <1>5, <3>3
      <4>2. mv[j] = x
        BY <1>5, <3>1, <4>1
      <4> QED
        BY <1>3, <1>4, <4>2
    <3> QED
      BY <3>2, <3>3
  <2>2. ASSUME NEW x, x \in Target PROVE x \in ToSet(s)
    <3>1. PICK j \in 1 .. M : mv[j] = x
      BY <1>3, <1>4, <2>2
    <3>2. 1 + j \in 1 .. M + 1 /\ s[1 + j] = x
      BY <1>4, <1>5, <3>1
    <3> QED
      BY <1>5, <3>2, InToSet
  <2>3. id \in ToSet(s)
    <3>1. 1 \in DOMAIN s
      BY <1>4, <1>5
    <3> QED
      BY <1>5, <3>1, InToSet
  <2> QED
    BY <2>1, <2>2, <2>3
<1>9. /\ Reorders(g, s)
      /\ \A k, l \in 1 .. Len(s) : k <= l => tasks[g[k]].period <= tasks[g[l]].period
  <2>1. \A x \in Ids : tasks[x].period \in Int
    BY TaskTypes
  <2> QED
    BY <1>4, <2>1, SortPeriodSorts
<1> HIDE DEF g
<1>10. g \in Seq(Ids) /\ DOMAIN g = 1 .. Len(s) /\ ToSet(g) = ToSet(s) /\ Distinct(g)
  <2>1. g \in Seq(Ids) /\ DOMAIN g = 1 .. Len(s)
    BY <1>4, <1>9, ReorderedSeq
  <2>2. ToSet(g) = ToSet(s) /\ (Distinct(s) => Distinct(g))
    BY <1>4, <1>9, ReorderedSet
  <2> QED
    BY <1>7, <2>1, <2>2
<1>11. Ascending(g)
  BY <1>9, <1>10 DEF Ascending
<1> QED
  BY <1>2, <1>8, <1>10, <1>11 DEF id

\* The core that receives a task can serve it with those that were moved there before (lib_cluster.py:320-366).
LEMMA TargetIsFeasible ==
  ASSUME TaskInv, TypeInv, StatInv, LowGuard, phase = "balance", sched = 0, Unbalanced, Sound,
         Distinct(moved[CoreMin]), \A x \in Target : ~ IsHigh(x),
         NEW n \in Movable, n \in DOMAIN Candidates, n \in Nat \ {0}, \A k \in Movable : n <= k,
         NEW m \in Nat, DOMAIN Candidates = 1 .. m,
         \A k \in DOMAIN Candidates : Candidates[k] \in Ids /\ ~ IsHigh(Candidates[k]),
         Candidates[n] \notin Target
  PROVE  CoreFeasible(Target \cup {Candidates[n]})
<1> DEFINE id == Candidates[n]
           s == stat[CoreMin]
           g == Joined(n)
           B == Target \cup {id}
<1>1. /\ CoreMin \in Cores /\ Counted(CoreMin) = Target /\ Target \in SUBSET Ids
      /\ s.np = Cardinality(Target) /\ id \in Ids /\ ~ IsHigh(id)
  BY TargetIsCounted
<1>2. CASE s.np = 0
  <2>1. Target = {}
    <3>1. IsFiniteSet(Target)
      BY <1>1, IdsAreNumbers, FS_Subset DEF TaskInv
    <3> QED
      BY <1>1, <1>2, <3>1, FS_EmptySet
  <2>2. B = {id}
    BY <2>1
  <2> HIDE DEF id
  <2>3. tasks[id].util <= Hyper
    <3>1. tasks[id].util < Hyper /\ tasks[id].util \in Nat /\ Hyper \in Nat \ {0}
      BY <1>1, LowIsSmall
    <3> QED
      BY <3>1
  <2>4. CoreFeasible({id})
    BY <1>1, <2>3, OneIsFeasible
  <2> QED
    BY <2>2, <2>4 DEF id
<1>3. CASE s.np # 0
  <2> DEFINE own == CHOOSE i \in DOMAIN g : g[i] = id
             Upto(i) == SumFunctionOnSet([j \in DOMAIN g |-> tasks[g[j]].util], 1 .. i)
             N == Len(g)
             mint == MintAfter(n)
  <2>1. g \in Seq(Ids) /\ Distinct(g) /\ Ascending(g) /\ ToSet(g) = B
    BY <1>1, JoinedList
  <2>2. \A i \in own .. N : WithinBound(Upto(i), i, Scaled(g[i]), mint)
    <3>1. CanAdd(n)
      BY DEF Movable
    <3> QED
      BY <1>3, <3>1 DEF CanAdd
  <2> HIDE DEF g
  <2>3. N \in Nat /\ DOMAIN g = 1 .. N /\ \A k \in 1 .. N : g[k] \in Ids
    BY <2>1, SeqIsFunction
  <2>4. own \in 1 .. N /\ g[own] = id
    <3>1. \E i \in DOMAIN g : g[i] = id
      BY <2>1, InToSet
    <3> QED
      BY <2>3, <3>1
  <2> HIDE DEF own
  <2>5. \A i \in 0 .. N : Load(Prefix(g, i)) = Upto(i) /\ Cardinality(Prefix(g, i)) = i
    BY <2>1, PrefixLoad
  <2> HIDE DEF Upto, mint, N
  <2>6. \A i \in own .. N : WithinBound(Load(Prefix(g, i)), Cardinality(Prefix(g, i)), Scaled(g[i]), mint)
    <3> TAKE i \in own .. N
    <3>1. i \in 0 .. N
      BY <2>3, <2>4
    <3>2. Load(Prefix(g, i)) = Upto(i) /\ Cardinality(Prefix(g, i)) = i
      BY <2>5, <3>1
    <3> QED
      BY <2>2, <3>2
  <2>7. CASE Harmonic(Ids \ Highs)
    <3>1. Prefix(g, N) = B
      <4>1. \A x : x \in ToSet(g) <=> \E k \in 1 .. N : g[k] = x
        BY <2>3, InToSet
      <4>2. ToSet(g) = B
        BY <2>1
      <4> HIDE DEF B
      <4> QED
        BY <4>1, <4>2 DEF Prefix
    <3>2. Load(B) <= Hyper
      <4>1. N \in own .. N
        BY <2>3, <2>4
      <4>2. WithinBound(Load(Prefix(g, N)), Cardinality(Prefix(g, N)), Scaled(g[N]), mint)
        BY <2>6, <4>1
      <4>3. Load(Prefix(g, N)) <= Hyper
        BY <4>2 DEF WithinBound
      <4> QED
        BY <3>1, <4>3
    <3>3. Harmonic(B)
      <4>1. B \subseteq Ids \ Highs
        BY <1>1 DEF Highs
      <4> QED
        BY <2>7, <4>1 DEF Harmonic
    <3>4. B \in SUBSET Ids
      BY <1>1
    <3> QED
      BY <3>2, <3>3, <3>4, HarmonicIsEnough
  <2>8. CASE Close(Ids \ Highs)
    <3>1. /\ \A x \in B : mint <= tasks[x].period
          /\ \E y \in Ids \ Highs : mint = tasks[y].period
      BY <2>8, TargetPeriod DEF mint
    <3>2. PICK y \in Ids \ Highs : mint = tasks[y].period
      BY <3>1
    <3>3. mint \in Nat \ {0}
      BY <3>2, TaskTypes
    <3>4. \A x \in B : x \in Ids \ Highs /\ ~ IsHigh(x)
      BY <1>1 DEF Highs
    <3>5. \A x \in B : mint <= tasks[x].period /\ tasks[x].period < 2 * mint
      BY <2>8, <3>1, <3>2, <3>4 DEF Close
    <3>6. ASSUME NEW x \in B, tasks[id].period <= tasks[x].period
          PROVE  LET C == {z \in B : tasks[z].period <= tasks[x].period}
                 IN  WithinBound(Load(C), Cardinality(C), tasks[x].period, mint)
      <4>1. x \in ToSet(g)
        BY <2>1
      <4>2. PICK j \in DOMAIN g :
              /\ tasks[g[j]].period = tasks[x].period
              /\ {z \in ToSet(g) : tasks[z].period <= tasks[x].period} = Prefix(g, j)
              /\ \A k \in DOMAIN g : tasks[g[k]].period <= tasks[x].period => k <= j
        BY <2>1, <4>1, LastOfPeriod
      <4>3. own <= j /\ j \in own .. N
        BY <2>3, <2>4, <3>6, <4>2
      <4>4. Scaled(g[j]) = tasks[x].period
        <5>1. g[j] \in B
          BY <2>1, <4>2, InToSet
        <5>2. g[j] \in Ids /\ ~ IsHigh(g[j])
          BY <3>4, <5>1
        <5> QED
          BY <2>8, <4>2, <5>2, ScaledClose
      <4>5. {z \in B : tasks[z].period <= tasks[x].period} = Prefix(g, j)
        BY <2>1, <4>2
      <4>6. WithinBound(Load(Prefix(g, j)), Cardinality(Prefix(g, j)), Scaled(g[j]), mint)
        BY <2>6, <4>3
      <4> QED
        BY <4>4, <4>5, <4>6
    <3>7. CoreFeasible(Target)
      BY <1>1 DEF LowGuard
    <3> HIDE DEF id, mint
    <3>8. CoreFeasible(Target \cup {id})
      BY <1>1, <3>3, <3>5, <3>6, <3>7, BoundedCore
    <3> QED
      BY <3>8 DEF id
  <2> QED
    BY <2>7, <2>8 DEF Sound, SoundPeriods, Ids
<1> QED
  BY <1>2, <1>3

\* A move to another core leaves both feasible (lib_cluster.py:378-401).
LEMMA MoveGuard ==
  ASSUME TaskInv, TypeInv, PhaseInv, StatInv, HighMeets, LowGuard, Move
  PROVE  LowGuard' /\ HighMeets'
<1> DEFINE N == Len(out)
           A == CoreMin
           B == CoreMax
<1>1. /\ phase = "balance" /\ phase' = "balance" /\ Unbalanced /\ option' = option /\ tasks' = tasks
      /\ sched' = sched
  BY DEF Move, input
<1>2. BalancePhase /\ sched = 0
  BY <1>1 DEF PhaseInv, BalancePhase
<1>3. B \in Cores /\ A \in Cores /\ A # B /\ \A i \in DOMAIN out : out[i].first # A
  BY <1>1, SourceAndTarget
<1>a. PICK n \in Movable, x \in DOMAIN out :
           /\ n \in DOMAIN Candidates /\ (\A k \in Movable : n <= k)
           /\ DOMAIN Candidates = 1 .. Cardinality(At(out, CoreMax)) /\ n \in Nat \ {0}
           /\ Cardinality(At(out, CoreMax)) \in Nat
           /\ (\A k \in DOMAIN Candidates : Candidates[k] \in Ids /\ ~ IsHigh(Candidates[k]))
           /\ Moves(Candidates[n], x, MintAfter(n))
  BY MovedCandidate
<1> DEFINE id == Candidates[n]
           mint == MintAfter(n)
           m == Cardinality(At(out, CoreMax))
<1>4. /\ out[x].id = id /\ out[x].first = B /\ ~ IsHigh(id) /\ id \in Ids
      /\ stat' = [stat EXCEPT
           ![A] = [np |-> @.np + 1, sumutil |-> @.sumutil + tasks[id].util, mint |-> mint],
           ![B] = Removed(@, id)]
      /\ moved' = [moved EXCEPT ![A] = SortPeriod(Append(@, id))]
      /\ out' = RemoveAt(out, x)
  BY <1>a, Zenon DEF Moves
<1>5. /\ Counted(A) = Target /\ Target \in SUBSET Ids /\ moved[A] \in Seq(Ids) /\ Distinct(moved[A])
      /\ moved \in [Cores -> Seq(Ids)]
  BY <1>1, <1>2, <1>3, TargetIsCounted DEF BalancePhase, TypeInv
<1>6. id \notin Target /\ \A y \in Target : ~ IsHigh(y)
  <2>1. \A k \in DOMAIN moved[A] : ~ Listed(moved[A][k]) /\ ~ IsHigh(moved[A][k])
    BY <1>2, <1>3 DEF BalancePhase
  <2>2. Listed(id)
    BY <1>4 DEF Listed
  <2> QED
    BY <2>1, <2>2, InToSet DEF Target
<1>7. Sound => CoreFeasible(Target \cup {id})
  <2> SUFFICES ASSUME Sound PROVE CoreFeasible(Target \cup {id})
    OBVIOUS
  <2>1. /\ m \in Nat /\ DOMAIN Candidates = 1 .. m /\ n \in DOMAIN Candidates /\ n \in Nat \ {0}
        /\ (\A k \in Movable : n <= k)
        /\ (\A k \in DOMAIN Candidates : Candidates[k] \in Ids /\ ~ IsHigh(Candidates[k]))
        /\ Distinct(moved[CoreMin]) /\ (\A y \in Target : ~ IsHigh(y)) /\ Candidates[n] \notin Target
    BY <1>a, <1>5, <1>6
  <2> HIDE DEF m
  <2> QED
    BY <1>1, <1>2, <2>1, TargetIsFeasible
<1>8. Close(Ids \ Highs) =>
        /\ \A y \in Target \cup {id} : mint <= tasks[y].period
        /\ \E y \in Ids \ Highs : mint = tasks[y].period
  <2> SUFFICES ASSUME Close(Ids \ Highs)
               PROVE  /\ \A y \in Target \cup {id} : mint <= tasks[y].period
                      /\ \E y \in Ids \ Highs : mint = tasks[y].period
    OBVIOUS
  <2>1. /\ m \in Nat /\ DOMAIN Candidates = 1 .. m /\ n \in DOMAIN Candidates /\ n \in Nat \ {0}
        /\ (\A k \in Movable : n <= k)
        /\ (\A k \in DOMAIN Candidates : Candidates[k] \in Ids /\ ~ IsHigh(Candidates[k]))
    BY <1>a
  <2> HIDE DEF m
  <2> QED
    BY <1>1, <1>2, <2>1, TargetPeriod
<1> HIDE DEF A, B, id, mint
\* The list that is left.
<1> DEFINE h == Skip(N, x)
<1>9. /\ DOMAIN out' = 1 .. N - 1 /\ DOMAIN out = 1 .. N /\ N \in Nat
      /\ (\A i \in 1 .. N - 1 : h[i] \in 1 .. N /\ h[i] # x /\ out'[i] = out[h[i]])
  <2>0. out \in Seq(Entry) /\ N \in Nat /\ DOMAIN out = 1 .. N
    BY SeqIsFunction DEF TypeInv
  <2>1. x \in 1 .. Len(out)
    BY <2>0
  <2> DEFINE r == RemoveAt(out, x)
  <2>3. Removes(r, out, x)
    BY <2>0, <2>1, RemoveAtSeq
  <2>4. out' = r
    BY <1>4
  <2> HIDE DEF r
  <2>5. /\ DOMAIN r = 1 .. N - 1
        /\ (\A i \in 1 .. N - 1 : h[i] \in 1 .. N /\ h[i] # x /\ r[i] = out[h[i]])
    BY <2>3 DEF Removes
  <2> QED
    BY <2>0, <2>4, <2>5
<1> HIDE DEF N, h
<1>10. \A i \in DOMAIN out' : out'[i] = out[h[i]] /\ h[i] \in DOMAIN out
  BY <1>9
\* The list of the core that receives the task.
<1> DEFINE u == SortPeriod(Append(moved[A], id))
<1>11. u \in Seq(Ids) /\ Ascending(u) /\ \A y : y \in ToSet(u) <=> y \in Target \/ y = id
  <2>1. moved[A] \in Seq(Ids) /\ Target = ToSet(moved[A])
    BY <1>4, <1>5 DEF Target, A
  <2> QED
    BY <1>4, <2>1, SortedWith DEF Ascending
<1>12. moved'[A] = u /\ \A c \in Cores : c # A => moved'[c] = moved[c]
  <2>1. moved' = [moved EXCEPT ![A] = u]
    BY <1>4
  <2> HIDE DEF u
  <2> QED
    BY <1>3, <1>5, <2>1
<1> HIDE DEF u
<1>13. stat'[A].mint = mint /\ \A c \in Cores : c # A => stat'[c].mint = stat[c].mint
  <2>1. DOMAIN stat = Cores /\ stat[B] = [np |-> stat[B].np, sumutil |-> stat[B].sumutil, mint |-> stat[B].mint]
    BY <1>3 DEF TypeInv
  <2> DEFINE f == [np |-> stat[A].np + 1, sumutil |-> stat[A].sumutil + tasks[id].util, mint |-> mint]
             g == [stat[B] EXCEPT !.np = stat[B].np - 1, !.sumutil = stat[B].sumutil - tasks[id].util]
  <2>2. stat' = [stat EXCEPT ![A] = f, ![B] = g]
    <3>2. stat' = [stat EXCEPT ![A] = f, ![B] = Removed(stat[B], id)]
      BY <1>4, Zenon
    <3> QED
      BY <3>2 DEF Removed
  <2>3. f.mint = mint /\ g.mint = stat[B].mint
    BY <2>1
  <2> HIDE DEF f, g
  <2>4. stat'[A] = f /\ stat'[B] = g /\ \A c \in Cores : c # A /\ c # B => stat'[c] = stat[c]
    BY <1>3, <2>1, <2>2
  <2> QED
    BY <2>3, <2>4
<1>14. /\ Ids' = Ids /\ Highs' = Highs /\ Sound' = Sound
       /\ Close(Ids \ Highs)' = Close(Ids \ Highs)
       /\ (\A y : IsHigh(y)' = IsHigh(y))
       /\ (\A D : CoreFeasible(D)' = CoreFeasible(D))
       /\ (\A o : HighFits(o)' = HighFits(o))
       /\ (\A o : RateOn(o)' = RateOn(o)) /\ (\A s : Ascending(s)' = Ascending(s))
       /\ (\A o, c : LowIn(o, c)' = LowIn(o, c))
  BY <1>1, SameGuards
\* What is counted.
<1> DEFINE Now(c) == LowIn(out', c) \cup ToSet(moved'[c])
<1>15. \A c : Counted(c)' = Now(c)
  BY <1>14 DEF Counted, ToSet
<1>16. Now(A) = Target \cup {id}
  <2>1. LowIn(out', A) = {}
    BY <1>3, <1>10 DEF LowIn
  <2> QED
    BY <1>11, <1>12, <2>1
<1>17. \A c \in Cores : c # A => Now(c) \in SUBSET Counted(c)
  <2> TAKE c \in Cores
  <2> HAVE c # A
  <2>1. LowIn(out', c) \subseteq LowIn(out, c)
    <3> SUFFICES ASSUME NEW y \in LowIn(out', c) PROVE y \in LowIn(out, c)
      OBVIOUS
    <3>1. PICK i \in DOMAIN out' : out'[i].first = c /\ ~ IsHigh(out'[i].id) /\ y = out'[i].id
      BY DEF LowIn
    <3> QED
      BY <1>10, <3>1 DEF LowIn
  <2> QED
    BY <1>12, <2>1 DEF Counted
<1> HIDE DEF Now
<1>18. RateOn(out) /\ LeastKnown /\ MovedApart /\ (Sound => \A c \in Cores : CoreFeasible(Counted(c)))
  BY <1>1, <1>2 DEF LowGuard
<1>19. RateOn(out)'
  <2>1. RateOn(out')
    BY <1>10, <1>18 DEF RateOn
  <2> QED
    BY <1>14, <2>1
<1>20. (Sound => \A c \in Cores : CoreFeasible(Counted(c)))'
  <2> SUFFICES ASSUME Sound, NEW c \in Cores PROVE CoreFeasible(Now(c))
    BY <1>14, <1>15
  <2>1. CASE c = A
    BY <1>7, <1>16, <2>1
  <2>2. CASE c # A
    <3>1. Counted(c) \in SUBSET Ids
      <4>1. LowIn(out, c) \subseteq Ids
        BY ZenonT(60) DEF LowIn, TypeInv
      <4>2. ToSet(moved[c]) \subseteq Ids
        <5>1. moved[c] \in Seq(Ids)
          BY <1>5
        <5>2. \A i \in DOMAIN moved[c] : moved[c][i] \in Ids
          BY <5>1, SeqIsFunction
        <5> QED
          BY <5>2, InToSet
      <4> QED
        BY <4>1, <4>2 DEF Counted
    <3> QED
      BY <1>17, <1>18, <2>2, <3>1, CoreWithLess
  <2> QED
    BY <2>1, <2>2
<1>21. LeastKnown'
  <2> SUFFICES ASSUME Close(Ids \ Highs), NEW c \in Cores, Now(c) # {}
               PROVE  /\ \A y \in Now(c) : stat'[c].mint <= tasks[y].period
                      /\ \E y \in Ids \ Highs : stat'[c].mint = tasks[y].period
    BY <1>1, <1>14, <1>15 DEF LeastKnown
  <2>1. CASE c = A
    BY <1>8, <1>13, <1>16, <2>1
  <2>2. CASE c # A
    <3>1. Counted(c) # {} /\ Now(c) \subseteq Counted(c)
      BY <1>17, <2>2
    <3>2. /\ \A y \in Counted(c) : stat[c].mint <= tasks[y].period
          /\ \E y \in Ids \ Highs : stat[c].mint = tasks[y].period
      BY <1>18, <3>1 DEF LeastKnown
    <3> QED
      BY <1>13, <2>2, <3>1, <3>2
  <2> QED
    BY <2>1, <2>2
<1>22. MovedApart'
  <2> SUFFICES ASSUME NEW c \in Cores
               PROVE  /\ Ascending(moved'[c])
                      /\ moved'[c] # <<>> => \A i \in DOMAIN out' : out'[i].first # c
    BY <1>14 DEF MovedApart
  <2>1. CASE c = A
    BY <1>3, <1>10, <1>11, <1>12, <2>1
  <2>2. CASE c # A
    <3>1. /\ Ascending(moved[c])
          /\ moved[c] # <<>> => \A i \in DOMAIN out : out[i].first # c
      BY <1>18 DEF MovedApart
    <3> QED
      BY <1>10, <1>12, <2>2, <3>1
  <2> QED
    BY <2>1, <2>2
<1>23. HighMeets'
  <2> SUFFICES ASSUME Parallel PROVE HighFits(out')
    <3>1. Parallel' = Parallel
      BY <1>1 DEF Parallel
    <3> QED
      BY <1>1, <1>14, <3>1 DEF HighMeets
  <2>1. HighFits(out)
    BY <1>1, <1>2 DEF HighMeets
  <2>2. \A i \in DOMAIN out' : \E j \in DOMAIN out : out[j].id = out'[i].id /\ Size(out[j]) = Size(out'[i])
    BY <1>10
  <2> QED
    BY <2>1, <2>2, HighFitsKept
<1> QED
  BY <1>1, <1>19, <1>20, <1>21, <1>22, <1>23 DEF LowGuard

\* Moved tasks are listed again: the partition is complete (lib_cluster.py:409-418).
LEMMA BalancedGuard ==
  ASSUME TaskInv, TypeInv, PhaseInv, OwnInv, LowInv, HighMeets, LowGuard, Balanced
  PROVE  DoneGuard' /\ HighMeets' /\ LowGuard' /\ Ranking(out)'
<1> DEFINE N == Len(out)
           a == AllSettled
           M == Len(a)
           o == out \o a
<1>1. /\ phase = "balance" /\ phase' = "done" /\ option' = option /\ tasks' = tasks /\ sched' = sched
      /\ out' = o
  BY DEF Balanced, input, AllSettled
<1>2. /\ Sound' = Sound /\ \A p : AllMeetDeadlines(p)' = AllMeetDeadlines(p)
      /\ (\A p : RateOn(p)' = RateOn(p)) /\ \A id : IsHigh(id)' = IsHigh(id)
  BY <1>1, SameGuards
<1> SUFFICES Ranking(o) /\ (Sound => AllMeetDeadlines(o))
  BY <1>1, <1>2 DEF DoneGuard, HighMeets, LowGuard, Ranking
<1>3. BalancePhase /\ sched = 0
  BY <1>1 DEF PhaseInv, BalancePhase
<1>4. out \in Seq(Entry) /\ \A i \in DOMAIN out : out[i].id \in Ids /\ out[i] \in Entry
  BY SeqIsFunction DEF TypeInv
<1>5. /\ a \in Seq(Entry)
      /\ \A x : x \in ToSet(a) <=>
           \E c \in ToSet(lowcore) : c \in Cores /\ \E i \in DOMAIN moved[c] : x = SettledAt(c, i)
  BY <1>3, AllSettledSeq
<1> HIDE DEF a
<1>6. /\ DOMAIN o = 1 .. N + M
      /\ N \in Nat /\ DOMAIN out = 1 .. N /\ M \in Nat /\ DOMAIN a = 1 .. M
      /\ (\A i \in 1 .. N : o[i] = out[i]) /\ (\A i \in 1 .. M : o[N + i] = a[i])
      /\ \A i \in 1 .. N + M : i \in 1 .. N \/ \E j \in 1 .. M : i = N + j
  <2>1. out \in Seq(Entry) /\ a \in Seq(Entry)
    BY <1>4, <1>5
  <2> QED
    BY <2>1, ConcatSeq
<1> HIDE DEF N, M, o
\* An entry is one that was there, or that of a moved task.
<1> DEFINE Moved(e) == \E c \in ToSet(lowcore) : \E i \in DOMAIN moved[c] : c \in Cores /\ e = SettledAt(c, i)
           Old(e) == \E i \in DOMAIN out : e = out[i]
<1>7. \A k \in DOMAIN o : Old(o[k]) \/ Moved(o[k])
  <2> TAKE k \in DOMAIN o
  <2>1. CASE k \in 1 .. N
    BY <1>6, <2>1
  <2>2. CASE k \notin 1 .. N
    <3>1. PICK j \in 1 .. M : k = N + j
      BY <1>6, <2>2
    <3>2. o[k] = a[j] /\ a[j] \in ToSet(a)
      BY <1>6, <3>1, InToSet
    <3> QED
      BY <1>5, <3>2
  <2> QED
    BY <2>1, <2>2
<1>8. ASSUME NEW c \in Cores, NEW i \in DOMAIN moved[c]
      PROVE  moved[c][i] \in Ids /\ ~ IsHigh(moved[c][i]) /\ moved[c][i] \in ToSet(moved[c]) /\ i \in Int
  <2>1. moved[c] \in Seq(Ids)
    BY DEF TypeInv
  <2>2. moved[c][i] \in Ids /\ i \in Int
    BY <2>1, SeqIsFunction
  <2> QED
    BY <1>3, <2>2, InToSet DEF BalancePhase
<1>9. /\ RateOn(out) /\ MovedApart
      /\ Sound => HighFits(out) /\ \A c \in Cores : CoreFeasible(Counted(c))
  BY <1>1, <1>3 DEF LowGuard, HighMeets, Sound
<1> HIDE DEF Moved, Old
<1>10. ASSUME NEW e, Moved(e)
       PROVE  /\ e.id \in Ids /\ ~ IsHigh(e.id) /\ e.first \in Cores /\ e.last = e.first
              /\ e.id \in ToSet(moved[e.first]) /\ moved[e.first] # <<>>
              /\ \A i \in DOMAIN out : out[i].first # e.first
  <2>1. PICK c \in ToSet(lowcore) : \E i \in DOMAIN moved[c] : c \in Cores /\ e = SettledAt(c, i)
    BY <1>10 DEF Moved
  <2>2. PICK i \in DOMAIN moved[c] : c \in Cores /\ e = SettledAt(c, i)
    BY <2>1
  <2>3. e.id = moved[c][i] /\ e.first = c /\ e.last = c
    BY <2>2 DEF SettledAt
  <2>4. moved[c] # <<>>
    BY <2>2
  <2>5. \A j \in DOMAIN out : out[j].first # c
    BY <1>9, <2>2, <2>4 DEF MovedApart
  <2> QED
    BY <1>8, <2>2, <2>3, <2>4, <2>5
<1>11. Sound => HighFits(o)
  <2>1. \A k \in DOMAIN o : IsHigh(o[k].id) =>
          \E j \in DOMAIN out : out[j].id = o[k].id /\ Size(out[j]) = Size(o[k])
    <3> SUFFICES ASSUME NEW k \in DOMAIN o, IsHigh(o[k].id)
                 PROVE  \E j \in DOMAIN out : out[j].id = o[k].id /\ Size(out[j]) = Size(o[k])
      OBVIOUS
    <3>1. Old(o[k])
      BY <1>7, <1>10
    <3> QED
      BY <3>1 DEF Old
  <2> QED
    BY <1>9, <2>1, HighFitsKept
<1>12. RateOn(o)
  <2> SUFFICES ASSUME NEW k \in DOMAIN o, NEW l \in DOMAIN o, ~ IsHigh(o[k].id), ~ IsHigh(o[l].id),
                      o[k].first = o[l].first, o[k].prio >= o[l].prio
               PROVE  tasks[o[k].id].period <= tasks[o[l].id].period
    BY DEF RateOn
  <2>1. CASE Old(o[k]) /\ Old(o[l])
    BY <1>9, <2>1 DEF RateOn, Old
  <2>2. CASE Moved(o[k]) /\ Moved(o[l])
    <3>1. PICK c \in ToSet(lowcore) : \E i \in DOMAIN moved[c] : c \in Cores /\ o[k] = SettledAt(c, i)
      BY <2>2 DEF Moved
    <3>2. PICK i \in DOMAIN moved[c] : c \in Cores /\ o[k] = SettledAt(c, i)
      BY <3>1
    <3>3. PICK d \in ToSet(lowcore) : \E j \in DOMAIN moved[d] : d \in Cores /\ o[l] = SettledAt(d, j)
      BY <2>2 DEF Moved
    <3>4. PICK j \in DOMAIN moved[d] : d \in Cores /\ o[l] = SettledAt(d, j)
      BY <3>3
    <3>5. /\ o[k].id = moved[c][i] /\ o[k].first = c /\ o[k].prio = 98 - i
          /\ o[l].id = moved[d][j] /\ o[l].first = d /\ o[l].prio = 98 - j
      BY <3>2, <3>4 DEF SettledAt
    <3>6. c = d
      BY <3>5
    <3>7. i \in Int /\ j \in Int /\ j \in DOMAIN moved[c]
      BY <1>8, <3>2, <3>4, <3>6
    <3>8. i <= j
      BY <3>5, <3>7
    <3>9. Ascending(moved[c])
      BY <1>9, <3>2 DEF MovedApart
    <3> QED
      BY <3>5, <3>6, <3>7, <3>8, <3>9 DEF Ascending
  <2>3. CASE Old(o[k]) /\ Moved(o[l])
    BY <1>10, <2>3 DEF Old
  <2>4. CASE Moved(o[k]) /\ Old(o[l])
    BY <1>10, <2>4 DEF Old
  <2> QED
    BY <1>7, <2>1, <2>2, <2>3, <2>4
<1>13. \A k \in DOMAIN o : o[k].id \in Ids /\ o[k].first \in Int /\ o[k].last \in Int
  <2> TAKE k \in DOMAIN o
  <2>1. CASE Old(o[k])
    BY <1>4, <2>1 DEF Old, Entry, Cores
  <2>2. CASE Moved(o[k])
    BY <1>10, <2>2 DEF Cores
  <2> QED
    BY <1>7, <2>1, <2>2
<1>14. ASSUME Sound, NEW c \in Cores PROVE CoreFeasible(LowIn(o, c))
  <2>1. LowIn(o, c) \in SUBSET Counted(c)
    <3> SUFFICES ASSUME NEW k \in DOMAIN o, o[k].first = c, ~ IsHigh(o[k].id)
                 PROVE  o[k].id \in LowIn(out, c) \/ o[k].id \in ToSet(moved[c])
      BY DEF LowIn, Counted
    <3>1. CASE Old(o[k])
      BY <3>1 DEF Old, LowIn
    <3>2. CASE Moved(o[k])
      BY <1>10, <3>2
    <3> QED
      BY <1>7, <3>1, <3>2
  <2>2. Counted(c) \in SUBSET Ids
    <3>1. LowIn(out, c) \subseteq Ids
      BY <1>4 DEF LowIn
    <3>2. \A x \in ToSet(moved[c]) : x \in Ids
      BY <1>8, InToSet
    <3> QED
      BY <3>1, <3>2 DEF Counted
  <2> QED
    BY <1>9, <1>14, <2>1, <2>2, CoreWithLess
<1>15. ASSUME NEW k \in DOMAIN o, ~ IsHigh(o[k].id)
       PROVE  /\ o[k].last = o[k].first
              /\ Sound => /\ CoreFeasible(LowIn(o, o[k].first))
                          /\ \A j \in DOMAIN o : o[j].first = o[k].first => ~ IsHigh(o[j].id)
  <2>1. CASE Old(o[k])
    <3>1. PICK i \in DOMAIN out : o[k] = out[i]
      BY <2>1 DEF Old
    <3> DEFINE c == out[i].first
    <3>2. out[i].last = c /\ c \in ToSet(lowcore) /\ c \in Cores
      BY <1>1, <1>4, <1>15, <3>1 DEF LowInv, Entry
    <3>3. Sound => \A j \in DOMAIN out : out[j].first = c => ~ IsHigh(out[j].id)
      BY <1>1, <1>3, <1>9, <3>2, HighElsewhere
    <3>4. Sound => \A j \in DOMAIN o : o[j].first = c => ~ IsHigh(o[j].id)
      <4> SUFFICES ASSUME Sound, NEW j \in DOMAIN o, o[j].first = c PROVE ~ IsHigh(o[j].id)
        OBVIOUS
      <4>1. CASE Old(o[j])
        BY <3>3, <4>1 DEF Old
      <4>2. CASE Moved(o[j])
        BY <1>10, <4>2
      <4> QED
        BY <1>7, <4>1, <4>2
    <3> QED
      BY <1>14, <3>1, <3>2, <3>4
  <2>2. CASE Moved(o[k])
    <3>1. \A j \in DOMAIN o : o[j].first = o[k].first => ~ IsHigh(o[j].id)
      <4> SUFFICES ASSUME NEW j \in DOMAIN o, o[j].first = o[k].first PROVE ~ IsHigh(o[j].id)
        OBVIOUS
      <4>1. CASE Old(o[j])
        BY <1>10, <2>2, <4>1 DEF Old
      <4>2. CASE Moved(o[j])
        BY <1>10, <4>2
      <4> QED
        BY <1>7, <4>1, <4>2
    <3> QED
      BY <1>10, <1>14, <2>2, <3>1
  <2> QED
    BY <1>7, <2>1, <2>2
<1> QED
  BY <1>11, <1>12, <1>13, <1>15, Meets DEF Ranking

-------------------------------------------------------------------------------
(* The programs. *)

\* The invariant of the calls.
ClusterInv ==
  /\ TypeInv /\ PhaseInv /\ StatInv
  /\ HighClusters /\ LendInv /\ OwnInv /\ LowInv /\ FloorInv

\* Every step of cluster_partition keeps the invariant.
LEMMA PartitionStepKeeps ==
  ASSUME TaskInv, ClusterInv, PartitionStep
  PROVE  ClusterInv'
<1>1. /\ TypeInv /\ PhaseInv /\ StatInv
      /\ HighClusters /\ LendInv /\ OwnInv /\ LowInv /\ FloorInv
  BY DEF ClusterInv
<1> SUFFICES /\ TypeInv' /\ PhaseInv' /\ StatInv'
             /\ HighClusters' /\ LendInv' /\ OwnInv' /\ LowInv' /\ FloorInv'
  BY DEF ClusterInv
<1>2. CASE PlaceHigh
  BY <1>1, <1>2, PlaceHighStep
<1>3. CASE NoCoreForHigh \/ NoLowCore \/ NoCoreForLow
  <2>1. NoPartition /\ (phase = "high" \/ phase = "low")
    BY <1>3 DEF NoCoreForHigh, NoLowCore, NoCoreForLow, NextIsHigh, LowIsNext, NoneFits
  <2> QED
    BY <1>1, <2>1, NoPartitionStep
<1>4. CASE AllHigh
  BY <1>1, <1>4, AllHighStep
<1>5. CASE StartLow
  BY <1>1, <1>5, StartLowStep
<1>6. CASE FirstAdmitting \/ WorstFit \/ LeastUtil
  <2>1. \E i \in DOMAIN lowcore : PutOn(i)
    BY <1>1, <1>6, FirstAdmittingRoom, WorstFitRoom, LeastUtilPuts
  <2>2. PICK i \in DOMAIN lowcore : PutOn(i)
    BY <2>1
  <2> QED
    BY <1>1, <2>2, PutOnStep
<1>7. CASE TakeCore
  BY <1>1, <1>7, TakeCoreStep
<1>8. CASE LowPlaced
  BY <1>1, <1>8, LowPlacedStep
<1>9. CASE BalanceFails
  BY <1>1, <1>9, BalanceFailsStep
<1>10. CASE Move
  BY <1>1, <1>10, MoveStep
<1>11. CASE Balanced
  BY <1>1, <1>11, BalancedStep
<1> QED
  BY <1>2, <1>3, <1>4, <1>5, <1>6, <1>7, <1>8, <1>9, <1>10, <1>11 DEF PartitionStep

\* So does a call.
LEMMA CallKeeps ==
  ASSUME TaskInv, NEW opt \in 0 .. 6, Call(opt)
  PROVE  ClusterInv'
<1>1. TypeInv' /\ PhaseInv' /\ StatInv'
  BY CallTyped
<1>2. /\ phase' = "high" /\ out' = <<>> /\ parted' = 0 /\ possible' = <<>>
  BY DEF Call
<1>3. HighClusters'
  <2> DEFINE f == [i \in DOMAIN out' |-> Size(out'[i])]
  <2>1. DOMAIN f = {}
    BY <1>2
  <2> HIDE DEF f
  <2>3. SumFunctionOnSet(f, {}) = 0
    BY SumEmpty
  <2>4. SumFunction(f) = 0
    BY <2>1, <2>3 DEF SumFunction
  <2>5. SumFunction([i \in DOMAIN out |-> Size(out[i])])' = SumFunction(f)
    BY DEF f, Size
  <2>6. \A i \in DOMAIN out' : FALSE
    BY <1>2
  <2> QED
    BY <1>2, <2>4, <2>5, <2>6 DEF HighClusters
<1>4. LendInv' /\ OwnInv' /\ LowInv' /\ FloorInv'
  <2>1. (\A i \in DOMAIN out' : FALSE) /\ (\A i \in DOMAIN possible' : FALSE)
    BY <1>2
  <2> QED
    BY <1>2, <2>1 DEF LendInv, OwnInv, LowInv, FloorInv
<1> QED
  BY <1>1, <1>3, <1>4 DEF ClusterInv

\* Nothing is placed, and the phase stays or goes on to one that asks no more.
LEMMA NothingPlaced ==
  ASSUME ClusterInv, UNCHANGED <<input, out, stat, highs, lows, moved, sched>>,
         \/ phase' = phase \/ phase' \in {"ended", "failed"}
         \/ phase = "done" /\ phase' = "returned"
  PROVE  ClusterInv'
<1>1. /\ option' = option /\ tasks' = tasks
      /\ info' = info /\ stat' = stat /\ parted' = parted /\ possible' = possible /\ fit' = fit
      /\ lowcore' = lowcore /\ low' = low /\ cur' = cur /\ moved' = moved /\ out' = out /\ sched' = sched
  BY DEF input, highs, lows
<1>2. Ids' = Ids /\ (\A x : IsHigh(x)' = IsHigh(x)) /\ (\A ids : Load(ids)' = Load(ids))
      /\ (\A o, c : LowIn(o, c)' = LowIn(o, c))
  BY <1>1, SameTasks
<1>3. TypeInv /\ TypeInv'
  BY <1>1, <1>2 DEF TypeInv, ClusterInv
<1>4. /\ InOrder' = InOrder /\ Parallel' = Parallel /\ (\A x : Floor(x)' = Floor(x))
      /\ (\A x, n : Tight(x, n)' = Tight(x, n)) /\ (\A x : Listed(x)' = Listed(x))
  BY <1>1, <1>2 DEF InOrder, Parallel, Floor, Tight, Size, Listed
<1>5. HighClusters'
  BY <1>1, <1>3 DEF HighClusters, ClusterInv, Size, TypeInv
<1>6. LendInv'
  BY <1>1, <1>2, <1>3, <1>4 DEF LendInv, ClusterInv, Size, Tight
<1>7. OwnInv'
  BY <1>1, <1>2, <1>3, <1>4 DEF OwnInv, ClusterInv, Apart, ToSet
<1>8. LowInv'
  BY <1>1, <1>2, <1>3 DEF LowInv, ClusterInv, ToSet
<1>9. FloorInv'
  BY <1>1, <1>2, <1>4 DEF FloorInv, Floor, Tight, Size, ClusterInv
<1>10. StatInv'
  <2>1. \A c : Counted(c)' = Counted(c)
    BY <1>1, <1>2 DEF Counted, LowIn, ToSet
  <2>2. \A c : Load(Counted(c))' = Load(Counted(c))
    BY <1>1, <2>1 DEF Load
  <2> QED
    BY <1>1, <2>1, <2>2 DEF StatInv, ClusterInv
<1>11. PhaseInv'
  <2>1. phase' = "high" => HighPhase'
    <3> SUFFICES ASSUME phase' = "high" PROVE HighPhase'
      OBVIOUS
    <3>1. HighPhase
      BY DEF ClusterInv, PhaseInv
    <3> QED
      <4>1. Reorders(info, [id \in Ids |-> id])'
        BY <1>1, <1>2, <3>1, SMTT(60) DEF HighPhase, Reorders
      <4>2. (\A k, l \in 1 .. Len(info) : k <= l => tasks[info[k]].util >= tasks[info[l]].util)'
        BY <1>1, <3>1 DEF HighPhase
      <4>3. (\A i \in DOMAIN out : out[i].id = info[i] /\ IsHigh(out[i].id))'
        BY <1>1, <3>1 DEF HighPhase, IsHigh, Threshold
      <4>4. (/\ Len(out) <= Len(info)
             /\ stat = [c \in Cores |-> NoTask] /\ moved = [c \in Cores |-> <<>>]
             /\ sched = 0 /\ fit = "none" /\ lowcore = <<>> /\ low = <<>> /\ cur = 1)'
        BY <1>1, <3>1 DEF HighPhase, NoTask
      <4> QED
        BY <4>1, <4>2, <4>3, <4>4 DEF HighPhase
  <2>2. phase' = "low" => LowPhase'
    <3> SUFFICES ASSUME phase' = "low" PROVE LowPhase'
      OBVIOUS
    <3>1. LowPhase
      BY DEF ClusterInv, PhaseInv
    <3> QED
      BY <1>1, <1>2, <3>1 DEF LowPhase, DistinctIds, Distinct, IsHigh, Threshold, Listed
  <2>3. phase' = "balance" => BalancePhase'
    <3> SUFFICES ASSUME phase' = "balance" PROVE BalancePhase'
      OBVIOUS
    <3>1. BalancePhase
      BY DEF ClusterInv, PhaseInv
    <3> QED
      <4>1. (\A c \in Cores : Distinct(moved[c]))'
        BY <1>1, <3>1 DEF BalancePhase, Distinct
      <4>a. (\A c \in Cores : \A k \in DOMAIN moved[c] : ~ Listed(moved[c][k]))'
        BY <1>1, <3>1 DEF BalancePhase, Listed
      <4>b. (\A c \in Cores : moved[c] # <<>> => c \in ToSet(lowcore))'
        BY <1>1, <3>1 DEF BalancePhase, ToSet
      <4>2. (\A c \in Cores : \A k \in DOMAIN moved[c] : ~ IsHigh(moved[c][k]))'
        BY <1>1, <3>1 DEF BalancePhase, IsHigh, Threshold
      <4>3. (\A c, d \in Cores : c # d => ToSet(moved[c]) \cap ToSet(moved[d]) = {})'
        <5>1. \A c : ToSet(moved[c])' = ToSet(moved[c])
          BY <1>1 DEF ToSet
        <5> QED
          BY <3>1, <5>1 DEF BalancePhase
      <4>4. (\A id \in Ids : Listed(id) \/ \E c \in Cores : id \in ToSet(moved[c]))'
        BY <1>1, <1>2, <3>1 DEF BalancePhase, ToSet, Listed
      <4>5. (DistinctIds(out) /\ lowcore # <<>> /\ Distinct(lowcore) /\ sched = 0)'
        BY <1>1, <3>1 DEF BalancePhase, DistinctIds, Distinct
      <4> QED
        <5>1. (\A c \in Cores : /\ Distinct(moved[c])
                                /\ \A k \in DOMAIN moved[c] : ~ Listed(moved[c][k]) /\ ~ IsHigh(moved[c][k])
                                /\ moved[c] # <<>> => c \in ToSet(lowcore))'
          BY <4>1, <4>a, <4>b, <4>2
        <5> QED
          BY <4>3, <4>4, <4>5, <5>1 DEF BalancePhase
  <2>4. phase' \in {"done", "returned"} => DonePhase'
    <3> SUFFICES ASSUME phase' \in {"done", "returned"} PROVE DonePhase'
      OBVIOUS
    <3>1. DonePhase
      BY DEF ClusterInv, PhaseInv
    <3> QED
      BY <1>1, <1>2, <3>1 DEF DonePhase, Whole, DistinctIds
  <2> QED
    BY <2>1, <2>2, <2>3, <2>4 DEF PhaseInv
<1> QED
  BY <1>3, <1>5, <1>6, <1>7, <1>8, <1>9, <1>10, <1>11 DEF ClusterInv

\* Before a call the task set may change.
LEMMA GenerateKeeps ==
  ASSUME ClusterInv, GenerateSet
  PROVE  ClusterInv'
<1>1. /\ phase = "idle" /\ phase' = phase /\ option' = option
      /\ info' = info /\ stat' = stat /\ parted' = parted /\ possible' = possible /\ fit' = fit
      /\ lowcore' = lowcore /\ low' = low /\ cur' = cur /\ moved' = moved /\ out' = out /\ sched' = sched
  BY DEF GenerateSet, highs, lows
<1>2. TypeInv
  BY DEF ClusterInv
<1>3. out' = <<>> /\ info' = <<>> /\ low' = <<>> /\ \A c \in Cores : moved'[c] = <<>>
  BY <1>1, <1>2 DEF TypeInv
<1>4. TypeInv'
  <2>1. moved' \in [Cores -> Seq(Ids')]
    BY <1>1, <1>2, <1>3 DEF TypeInv
  <2>2. info' \in Seq(Ids') /\ low' \in Seq(Ids') /\ out' \in Seq(Entry) /\ \A i \in DOMAIN out' : FALSE
    BY <1>3
  <2> QED
    BY <1>1, <1>2, <1>3, <2>1, <2>2 DEF TypeInv
<1>5. \A i \in DOMAIN out' : FALSE
  BY <1>3
<1> QED
  BY <1>1, <1>4, <1>5 DEF ClusterInv, PhaseInv, StatInv, HighClusters, LendInv, OwnInv, LowInv, FloorInv

\* So does every step of the programs around it.
LEMMA ClusterInvHolds == TaskInv /\ ClusterInv /\ [ClusterNext]_cvars => ClusterInv'
<1> SUFFICES ASSUME TaskInv, ClusterInv, [ClusterNext]_cvars PROVE ClusterInv'
  OBVIOUS
<1>1. CASE GenerateSet
  BY <1>1, GenerateKeeps
<1>2. CASE ReadInput \/ AssignCore
  <2>1. Call(program[2])
    BY <1>2 DEF ReadInput, AssignCore
  <2>2. program[2] \in 0 .. 6
    BY ClusterRuns DEF TaskInv
  <2> QED
    BY <2>1, <2>2, CallKeeps
<1>3. CASE TryNext
  <2>1. Call(NextOption) /\ NextOption \in 0 .. 6
    BY <1>3 DEF TryNext, NextOption
  <2> QED
    BY <2>1, CallKeeps
<1>4. CASE CountFive
  <2>1. Call(6) /\ 6 \in 0 .. 6
    BY <1>4 DEF CountFive
  <2> QED
    BY <2>1, CallKeeps
<1>5. CASE PartitionGoesOn
  BY <1>5, PartitionStepKeeps DEF PartitionGoesOn
<1>6. CASE ReadFails \/ SortFails \/ Returned \/ WriteSchedule \/ CountSix
  BY <1>6, NothingPlaced DEF ReadFails, SortFails, Returned, WriteSchedule, CountSix, GoOn
<1>7. CASE UNCHANGED cvars
  BY <1>7, NothingPlaced DEF cvars, placing
<1> QED
  BY <1>1, <1>2, <1>3, <1>4, <1>5, <1>6, <1>7 DEF ClusterNext, ProgramStep

\* It holds before the first call.
LEMMA ClusterInvStarts == ClusterInit => ClusterInv
<1> SUFFICES ASSUME ClusterInit PROVE ClusterInv
  OBVIOUS
<1>1. /\ phase = "idle" /\ option = 0 /\ info = <<>> /\ out = <<>> /\ stat = [c \in Cores |-> NoTask]
      /\ parted = 0 /\ possible = <<>> /\ fit = "none" /\ lowcore = <<>> /\ low = <<>> /\ cur = 1
      /\ moved = [c \in Cores |-> <<>>] /\ sched = 0
  BY DEF ClusterInit, Idle
<1>2. CoreNum \in Nat
  BY Constants
<1>3. TypeInv
  BY <1>1, <1>2 DEF TypeInv, NoTask
<1>4. \A i \in DOMAIN out : FALSE
  BY <1>1
<1> QED
  BY <1>1, <1>3, <1>4 DEF ClusterInv, PhaseInv, StatInv, HighClusters, LendInv, OwnInv, LowInv, FloorInv

-------------------------------------------------------------------------------
(* The result that is kept, and what is written of it. *)

\* The lines of a schedule that has each task once, in the order of the tasks.
LEMMA SortedLines ==
  ASSUME TaskInv, NEW o \in Seq(Entry), Whole(o), \A i \in DOMAIN o : o[i].id \in Ids
  PROVE  [i \in DOMAIN SortId(o) |-> SortId(o)[i].id] = [i \in DOMAIN tasks |-> i]
<1> DEFINE t == SortId(o)
           n == Len(o)
           m == Len(tasks)
           f == [i \in 1 .. n |-> t[i].id]
<1>1. m \in Nat /\ Ids = 1 .. m
  BY IdsAreNumbers DEF TaskInv
<1>2. \A e \in Entry : e.id \in Int
  BY DEF Entry
<1>3. Reorders(t, o) /\ \A k, l \in 1 .. n : k <= l => t[k].id <= t[l].id
  BY <1>2, SortIdSorts
<1> HIDE DEF t
<1>4. n \in Nat /\ DOMAIN t = 1 .. n /\ DOMAIN o = 1 .. n
  BY <1>3, ReorderedSeq
<1>5. PICK p \in Reorderings(n) : t = [k \in 1 .. n |-> o[p[k]]]
  BY <1>3 DEF Reorders
<1>6. /\ p \in [1 .. n -> 1 .. n] /\ (\A k, l \in 1 .. n : p[k] = p[l] => k = l)
      /\ \A i \in 1 .. n : \E k \in 1 .. n : p[k] = i
  BY DEF Reorderings
<1>7. \A k \in 1 .. n : f[k] = o[p[k]].id /\ p[k] \in DOMAIN o
  BY <1>4, <1>5, <1>6
<1>8. f \in [1 .. n -> 1 .. m]
  BY <1>1, <1>7
<1>9. \A i, j \in 1 .. n : i <= j => f[i] <= f[j]
  BY <1>3
<1>10. f = [i \in DOMAIN t |-> t[i].id]
  BY <1>4
<1> HIDE DEF f, n, m
<1>11. \A i, j \in 1 .. n : f[i] = f[j] => i = j
  BY <1>6, <1>7 DEF Whole, DistinctIds
<1>12. \A x \in 1 .. m : \E i \in 1 .. n : f[i] = x
  <2> TAKE x \in 1 .. m
  <2>1. PICK j \in DOMAIN o : o[j].id = x
    BY <1>1 DEF Whole
  <2>2. PICK k \in 1 .. n : p[k] = j
    BY <1>4, <1>6
  <2> QED
    BY <1>7, <2>1, <2>2
<1>13. n = m /\ \A i \in 1 .. n : f[i] = i
  <2>1. n \in Nat /\ m \in Nat
    BY <1>1, <1>4
  <2>2. Ascends(f, n, m)
    BY <1>8, <1>9, <1>11, <1>12 DEF Ascends
  <2> QED
    BY <2>1, <2>2, AscendingIsIdentity
<1>14. f = [i \in DOMAIN tasks |-> i]
  BY <1>1, <1>8, <1>13 DEF Ids
<1> QED
  BY <1>10, <1>14 DEF t

\* Lines that are sorted were there before.
LEMMA NothingSorted ==
  ASSUME NEW o \in Seq(Entry), SortId(o) # <<>>
  PROVE  o # <<>>
<1> SUFFICES ASSUME o = <<>> PROVE FALSE
  OBVIOUS
<1>1. \A e \in Entry : e.id \in Int
  BY DEF Entry
<1>2. Reorders(SortId(o), o)
  BY <1>1, SortIdSorts
<1>3. SortId(o) \in Seq(Entry) /\ Len(SortId(o)) = Len(o)
  BY <1>2, ReorderedSeq
<1>4. Len(o) = 0
  OBVIOUS
<1> HIDE DEF SortId
<1> QED
  BY <1>3, <1>4

\* A result stays one as long as the task set does.
LEMMA SameResult ==
  ASSUME tasks' = tasks
  PROVE  \A r, o : Result(r, o)' <=> Result(r, o)
  BY DEF Result, Whole, DistinctIds, Ids

\* What is kept of up to three calls is a result, and what is written is complete (lib_cluster.py:785-805).
LEMMA KeptInvHolds ==
  ASSUME TaskInv, ClusterInv, KeptInv, [ClusterNext]_cvars
  PROVE  KeptInv'
<1>1. TypeInv /\ PhaseInv
  BY DEF ClusterInv
<1>2. TaskInv /\ (phase # "ended" => rtps.lines = <<>>)
  BY DEF KeptInv
<1>3. phase = "idle" => Result(kept.sched, kept.out)
  <2> SUFFICES ASSUME phase = "idle" PROVE Result(kept.sched, kept.out)
    OBVIOUS
  <2>1. kept.sched = 2 /\ kept.out = <<>>
    BY DEF KeptInv, NoResult
  <2>2. <<>> \in Seq(Entry)
    OBVIOUS
  <2> QED
    BY <2>1, <2>2 DEF Result
<1>4. Result(kept.sched, kept.out)
  BY <1>3 DEF KeptInv
<1>5. CASE GenerateSet
  <2>1. phase = "idle" /\ phase' = "idle" /\ kept' = kept /\ rtps' = rtps
    BY <1>5 DEF GenerateSet, calls
  <2> QED
    BY <1>2, <2>1 DEF KeptInv, NoResult
<1>6. CASE ReadFails \/ ReadInput \/ AssignCore \/ SortFails \/ PartitionGoesOn \/ TryNext \/ CountFive \/ CountSix
  <2>1. tasks' = tasks /\ kept' = kept /\ rtps' = rtps /\ phase # "ended" /\ phase' # "idle"
    <3>1. CASE ReadFails \/ SortFails \/ CountSix
      BY <3>1 DEF ReadFails, SortFails, CountSix, GoOn, NoNames, calls, input
    <3>2. CASE ReadInput \/ AssignCore \/ TryNext \/ CountFive
      BY <3>2 DEF ReadInput, AssignCore, TryNext, CountFive, Call, calls
    <3>3. CASE PartitionGoesOn
      <4>1. PartitionStep /\ kept' = kept /\ rtps' = rtps
        BY <3>3 DEF PartitionGoesOn, calls
      <4>2. tasks' = tasks /\ phase \in {"high", "low", "balance"}
        BY <4>1, StepOfCall
      <4>3. phase' # "idle"
        <5> USE DEF NoPartition
        <5>1. CASE PlaceHigh \/ NoCoreForHigh \/ AllHigh \/ NoLowCore \/ StartLow
          BY <4>2, <5>1, SMTT(60) DEF PlaceHigh, NoCoreForHigh, AllHigh, NoLowCore, StartLow
        <5>2. CASE FirstAdmitting \/ WorstFit \/ LeastUtil \/ TakeCore \/ NoCoreForLow
          BY <4>2, <5>2 DEF FirstAdmitting, WorstFit, LeastUtil, TakeCore, NoCoreForLow
        <5>3. CASE LowPlaced \/ BalanceFails \/ Move \/ Balanced
          BY <4>2, <5>3 DEF LowPlaced, BalanceFails, Move, Balanced
        <5> QED
          BY <4>1, <5>1, <5>2, <5>3 DEF PartitionStep
      <4> QED
        BY <4>1, <4>2, <4>3
    <3> QED
      BY <1>6, <3>1, <3>2, <3>3
  <2>2. Result(kept.sched, kept.out)'
    BY <1>4, <2>1 DEF Result, Whole, DistinctIds, Ids
  <2> QED
    BY <1>2, <2>1, <2>2 DEF KeptInv
<1>7. CASE Returned
  <2>1. /\ phase = "done" /\ phase' = "returned" /\ tasks' = tasks /\ rtps' = rtps /\ kept' = Kept
    BY <1>7 DEF Returned, GoOn, input
  <2>2. DonePhase /\ out \in Seq(Entry) /\ sched \in 0 .. 2 /\ \A i \in DOMAIN out : out[i].id \in Ids
    BY <1>1, <2>1 DEF PhaseInv, TypeInv
  <2>3. Result(sched, out) /\ Result(1, out)
    BY <2>2 DEF DonePhase, Result
  <2>4. Result(kept'.sched, kept'.out)
    BY <1>4, <2>1, <2>3 DEF Kept
  <2>5. Result(kept.sched, kept.out)'
    BY <2>1, <2>4 DEF Result, Whole, DistinctIds, Ids
  <2> QED
    BY <1>2, <2>1, <2>5 DEF KeptInv
<1>8. CASE WriteSchedule
  <2>1. /\ phase = "returned" /\ phase' = "ended" /\ tasks' = tasks /\ kept' = kept
        /\ rtps' = [options |-> IF kept.sched = 2 \/ kept.out = <<>> THEN 2 ELSE kept.sched,
                    lines |-> SortId(kept.out)]
    BY <1>8 DEF WriteSchedule, GoOn, input
  <2>2. Result(kept.sched, kept.out)'
    BY <1>4, <2>1 DEF Result, Whole, DistinctIds, Ids
  <2>3. ASSUME rtps'.lines # <<>>
        PROVE  /\ rtps'.options < 2
               /\ [i \in DOMAIN rtps'.lines |-> rtps'.lines[i].id] = [i \in DOMAIN tasks |-> i]
    <3>1. rtps'.lines = SortId(kept.out)
      BY <2>1
    <3>2. kept.out \in Seq(Entry)
      BY <1>4 DEF Result
    <3>3. kept.out # <<>>
      BY <2>3, <3>1, <3>2, NothingSorted
    <3>4. kept.sched < 2 /\ kept.sched \in 0 .. 2 /\ Whole(kept.out) /\ \A i \in DOMAIN kept.out : kept.out[i].id \in Ids
      BY <1>4, <3>3 DEF Result
    <3>5. rtps'.options < 2
      BY <2>1, <3>3, <3>4
    <3>6. [i \in DOMAIN SortId(kept.out) |-> SortId(kept.out)[i].id] = [i \in DOMAIN tasks |-> i]
      BY <3>2, <3>4, SortedLines
    <3> QED
      BY <3>1, <3>5, <3>6
  <2> QED
    BY <2>1, <2>2, <2>3 DEF KeptInv
<1>9. CASE UNCHANGED cvars
  <2>1. tasks' = tasks /\ kept' = kept /\ rtps' = rtps /\ phase' = phase
    BY <1>9 DEF cvars, placing, input, calls
  <2>2. Result(kept.sched, kept.out)'
    BY <1>4, <2>1 DEF Result, Whole, DistinctIds, Ids
  <2> QED
    BY <2>1, <2>2 DEF KeptInv, NoResult
<1> QED
  BY <1>5, <1>6, <1>7, <1>8, <1>9 DEF ClusterNext, ProgramStep

\* utility_test counts once for option 5 and once for option 6.
LEMMA CountInvHolds ==
  ASSUME ClusterInv, KeptInv, CountInv, [ClusterNext]_cvars
  PROVE  CountInv'
<1>1. sched \in 0 .. 2 /\ phase # "idle" => kept.sched \in 0 .. 2
  BY DEF ClusterInv, TypeInv, KeptInv, Result
<1>2. \A p : Simulation(p) \in {0, 1}
  BY DEF Simulation
<1>3. phase # "idle" => [sche |-> kept.sched, simu |-> Simulation(kept.out)] \in Pair
  <2>1. Simulation(kept.out) \in {0, 1}
    BY <1>2
  <2>2. phase # "idle" => kept.sched \in 0 .. 2
    BY DEF KeptInv, Result
  <2> QED
    BY <2>1, <2>2 DEF Pair
<1>4. CASE GenerateSet \/ ReadFails \/ ReadInput \/ AssignCore \/ SortFails \/ PartitionGoesOn \/ TryNext
  <2>1. earlier' = earlier /\ rtps' = rtps /\ counted' = counted /\ phase # "ended"
    <3>1. CASE GenerateSet \/ ReadFails \/ ReadInput \/ AssignCore \/ SortFails \/ TryNext
      BY <3>1 DEF GenerateSet, ReadFails, ReadInput, AssignCore, SortFails, NoNames, TryNext, calls
    <3>2. CASE PartitionGoesOn
      BY <3>2, StepOfCall DEF PartitionGoesOn, calls
    <3> QED
      BY <1>4, <3>1, <3>2
  <2> QED
    BY <2>1 DEF CountInv
<1>5. CASE Returned
  <2>1. /\ phase = "done" /\ rtps' = rtps /\ counted' = counted
        /\ (earlier' = sched \/ earlier' = earlier)
    BY <1>5 DEF Returned
  <2>2. sched \in 0 .. 2
    BY DEF ClusterInv, TypeInv
  <2> QED
    BY <2>1, <2>2 DEF CountInv
<1>6. CASE WriteSchedule
  <2>1. /\ phase = "returned" /\ earlier' = earlier /\ counted' = counted
        /\ (rtps'.options = 2 \/ rtps'.options = kept.sched)
    BY <1>6 DEF WriteSchedule
  <2>2. kept.sched \in 0 .. 2
    BY <2>1 DEF KeptInv, Result
  <2> QED
    BY <2>1, <2>2 DEF CountInv
<1>7. CASE CountFive
  <2>1. /\ phase = "returned" /\ earlier' = earlier /\ rtps' = rtps
        /\ counted' = <<[sche |-> kept.sched, simu |-> Simulation(kept.out)]>>
    BY <1>7 DEF CountFive
  <2> DEFINE e == [sche |-> kept.sched, simu |-> Simulation(kept.out)]
  <2>2. e \in Pair /\ counted' = <<e>>
    BY <1>3, <2>1
  <2> HIDE DEF e
  <2>3. <<e>> \in Seq(Pair) /\ Len(<<e>>) = 1
    BY <2>2
  <2> QED
    BY <2>1, <2>2, <2>3 DEF CountInv
<1>8. CASE CountSix
  <2>1. /\ phase = "returned" /\ phase' = "ended" /\ earlier' = earlier /\ rtps' = rtps
        /\ counted' = Append(counted, [sche |-> kept.sched, simu |-> Simulation(kept.out)])
    BY <1>8 DEF CountSix, GoOn
  <2> DEFINE e == [sche |-> kept.sched, simu |-> Simulation(kept.out)]
  <2>2. e \in Pair /\ counted' = Append(counted, e)
    BY <1>3, <2>1
  <2> HIDE DEF e
  <2>3. counted \in Seq(Pair) /\ Len(counted) <= 1
    BY <2>1 DEF CountInv
  <2>4. Append(counted, e) \in Seq(Pair) /\ Len(Append(counted, e)) = Len(counted) + 1 /\ Len(counted) \in Nat
    BY <2>2, <2>3, AppendSeq
  <2>5. Len(Append(counted, e)) <= 1 \/ Len(Append(counted, e)) = 2
    BY <2>3, <2>4
  <2> QED
    BY <2>1, <2>2, <2>4, <2>5 DEF CountInv
<1>9. CASE UNCHANGED cvars
  BY <1>9 DEF cvars, placing, calls, CountInv
<1> QED
  BY <1>4, <1>5, <1>6, <1>7, <1>8, <1>9 DEF ClusterNext, ProgramStep

-------------------------------------------------------------------------------
(* The theorems. *)

\* Intervals that are apart share no core.
LEMMA ApartIsDisjoint ==
  ASSUME NEW e \in Entry, NEW f \in Entry, Apart(e, f)
  PROVE  CoresIn(e) \cap CoresIn(f) = {}
<1>1. e.first \in Int /\ e.last \in Int /\ f.first \in Int /\ f.last \in Int
  BY Constants DEF Entry, Cores
<1> SUFFICES ASSUME NEW c, c \in CoresIn(e), c \in CoresIn(f) PROVE FALSE
  OBVIOUS
<1>2. c \in Int /\ e.first <= c /\ c <= e.last /\ f.first <= c /\ c <= f.last
  BY <1>1 DEF CoresIn
<1> QED
  BY <1>1, <1>2 DEF Apart

\* The cores of a high task are its own.
LEMMA OwnInvIsOwnCores == ClusterInv => OwnCores
<1> SUFFICES ASSUME ClusterInv, InOrder \/ sched # 1,
                    NEW i \in DOMAIN out, NEW j \in DOMAIN out, i # j, IsHigh(out[i].id)
             PROVE  CoresIn(out[i]) \cap CoresIn(out[j]) = {}
  BY DEF OwnCores
<1>1. out[i] \in Entry /\ out[j] \in Entry
  <2>1. out \in Seq(Entry)
    BY DEF ClusterInv, TypeInv
  <2> QED
    BY <2>1, SeqIsFunction
<1>2. Apart(out[i], out[j])
  BY DEF ClusterInv, OwnInv
<1> QED
  BY <1>1, <1>2, ApartIsDisjoint

\* The same for the floor of what a high task needs.
LEMMA FloorInvIsFloor == ClusterInv => HighKeepsFloor
  BY DEF ClusterInv, FloorInv, HighKeepsFloor, Floor, Tight, Size

\* The inductive invariant of both programs.
AllInv == TaskInv /\ ClusterInv /\ KeptInv /\ CountInv

\* All parts hold at the start ...
LEMMA AllInvStarts == ClusterInit => AllInv
<1> SUFFICES ASSUME ClusterInit PROVE AllInv
  OBVIOUS
<1>1. /\ phase = "idle" /\ kept = NoResult /\ rtps = NoFile /\ counted = <<>> /\ earlier = 0
  BY DEF ClusterInit, Idle
<1>2. KeptInv
  BY <1>1 DEF KeptInv, NoFile
<1>3. CountInv
  BY <1>1 DEF CountInv, NoFile
<1> QED
  BY <1>2, <1>3, InitTask, ClusterInvStarts DEF AllInv

\* ... and are kept by every step.
LEMMA AllInvStays == AllInv /\ [ClusterNext]_cvars => AllInv'
  BY StepTask, ClusterInvHolds, KeptInvHolds, CountInvHolds DEF AllInv

\* The inductive invariant holds throughout both programs.
THEOREM ClusterInductive == ClusterSpec => []AllInv
  BY AllInvStarts, AllInvStays, PTL DEF ClusterSpec

\* What a step of the partition makes of the phase.
LEMMA PhaseOfStep ==
  ASSUME PartitionStep
  PROVE  phase' \in {"high", "low", "balance", "done", "failed"}
<1>0. phase \in {"high", "low", "balance"}
  BY StepOfCall
<1>1. CASE NoCoreForHigh \/ NoLowCore \/ NoCoreForLow
  BY <1>1 DEF NoCoreForHigh, NoLowCore, NoCoreForLow, NoPartition
<1>2. CASE PlaceHigh
  BY <1>0, <1>2 DEF PlaceHigh
<1>3. CASE AllHigh \/ StartLow
  BY <1>3 DEF AllHigh, StartLow
<1>4. CASE FirstAdmitting \/ WorstFit \/ LeastUtil \/ TakeCore
  BY <1>0, <1>4 DEF FirstAdmitting, WorstFit, LeastUtil, TakeCore
<1>5. CASE LowPlaced \/ BalanceFails \/ Balanced
  BY <1>5 DEF LowPlaced, BalanceFails, Balanced
<1>6. CASE Move
  BY <1>0, <1>6 DEF Move
<1> QED
  BY <1>1, <1>2, <1>3, <1>4, <1>5, <1>6 DEF PartitionStep

\* The verdict 0 is not taken back, and not given where there is no guarantee.
LEMMA NotGuaranteed ==
  ASSUME sched' # 0
  PROVE  HighMeets' /\ LowGuard' /\ DoneGuard'
  BY DEF HighMeets, LowGuard, DoneGuard

\* Every step of cluster_partition keeps what the guarantee rests on.
LEMMA PartitionGuards ==
  ASSUME TaskInv, ClusterInv, HighMeets, LowGuard, PartitionStep
  PROVE  HighMeets' /\ LowGuard' /\ DoneGuard'
<1>1. /\ TypeInv /\ PhaseInv /\ StatInv
      /\ HighClusters /\ LendInv /\ OwnInv /\ LowInv /\ FloorInv
  BY DEF ClusterInv
<1>2. CASE PlaceHigh
  <2>1. phase = "high" /\ phase' = "high" /\ sched' = sched /\ tasks' = tasks /\ option' = option
    BY <1>2 DEF PlaceHigh, NextIsHigh, input
  <2>2. sched = 0
    BY <1>1, <2>1 DEF PhaseInv, HighPhase
  <2>3. Parallel' = Parallel /\ \A o : HighFits(o)' = HighFits(o)
    BY <2>1, SameGuards DEF Parallel
  <2>4. Parallel => HighFits(out')
    BY <1>1, <1>2, <2>1, <2>2, PlaceHighFits DEF HighMeets
  <2> QED
    BY <2>1, <2>3, <2>4 DEF HighMeets, LowGuard, DoneGuard
<1>3. CASE NoCoreForHigh \/ NoLowCore \/ NoCoreForLow
  <2>1. sched' # 0
    BY <1>3 DEF NoCoreForHigh, NoLowCore, NoCoreForLow, NoPartition
  <2> QED
    BY <2>1, NotGuaranteed
<1>4. CASE AllHigh
  BY <1>1, <1>4, AllHighGuard
<1>5. CASE StartLow
  <2>1. phase' = "low"
    BY <1>5 DEF StartLow
  <2>2. LowGuard' /\ HighMeets'
    BY <1>1, <1>5, StartLowGuard
  <2> QED
    BY <2>1, <2>2 DEF DoneGuard
<1>6. CASE FirstAdmitting \/ WorstFit
  <2>1. /\ sched' = sched
        /\ \E i \in DOMAIN lowcore : PutOn(i) /\ (Sound => HasRoom(lowcore[i], Head(low)))
    BY <1>1, <1>6, FirstAdmittingRoom, WorstFitRoom
  <2>2. PICK i \in DOMAIN lowcore : PutOn(i) /\ (Sound => HasRoom(lowcore[i], Head(low)))
    BY <2>1
  <2>3. phase' = "low"
    BY <2>2 DEF PutOn
  <2>4. CASE sched = 0
    <3>1. LowGuard'
      BY <1>1, <2>2, <2>4, PutGuard
    <3>2. HighMeets'
      BY <1>1, <2>2, <2>4, PutHighMeets
    <3> QED
      BY <2>3, <3>1, <3>2 DEF DoneGuard
  <2>5. CASE sched # 0
    BY <2>1, <2>5, NotGuaranteed
  <2> QED
    BY <2>4, <2>5
<1>7. CASE LeastUtil \/ TakeCore
  <2>1. sched' # 0
    BY <1>7 DEF LeastUtil, TakeCore
  <2> QED
    BY <2>1, NotGuaranteed
<1>8. CASE LowPlaced
  <2>1. sched' = sched
    BY <1>8 DEF LowPlaced
  <2> QED
    BY <1>1, <1>8, <2>1, LowPlacedGuard, NotGuaranteed
<1>9. CASE BalanceFails
  <2>1. phase' = "failed"
    BY <1>9 DEF BalanceFails
  <2> QED
    BY <2>1 DEF HighMeets, LowGuard, DoneGuard
<1>10. CASE Move
  <2>1. LowGuard' /\ HighMeets'
    BY <1>1, <1>10, MoveGuard
  <2>2. phase' # "done"
    BY <1>10 DEF Move
  <2> QED
    BY <2>1, <2>2 DEF DoneGuard
<1>11. CASE Balanced
  BY <1>1, <1>11, BalancedGuard
<1> QED
  BY <1>2, <1>3, <1>4, <1>5, <1>6, <1>7, <1>8, <1>9, <1>10, <1>11 DEF PartitionStep

\* The order of the lines is not that of the deadlines.
LEMMA LinesMeet ==
  ASSUME NEW o \in Seq(Entry), AllMeetDeadlines(o)
  PROVE  AllMeetDeadlines(SortId(o))
<1> DEFINE t == SortId(o)
<1>1. \A e \in Entry : e.id \in Int
  BY DEF Entry
<1>2. Reorders(t, o)
  BY <1>1, SortIdSorts
<1> HIDE DEF t
<1>3. ToSet(t) = ToSet(o)
  BY <1>2, ReorderedSet
<1>4. (\A k \in DOMAIN t : \E i \in DOMAIN o : o[i] = t[k]) /\ \A i \in DOMAIN o : \E k \in DOMAIN t : t[k] = o[i]
  BY <1>3, InToSet
<1>5. \A e : Ahead(t, e) = Ahead(o, e)
  <2> TAKE e
  <2>1. \A x : x \in Ahead(t, e) => x \in Ahead(o, e)
    <3> SUFFICES ASSUME NEW k \in DOMAIN t, t[k].first = e.first, t[k].prio >= e.prio
                 PROVE  t[k].id \in Ahead(o, e)
      BY DEF Ahead
    <3>1. PICK i \in DOMAIN o : o[i] = t[k]
      BY <1>4
    <3> QED
      BY <3>1 DEF Ahead
  <2>2. \A x : x \in Ahead(o, e) => x \in Ahead(t, e)
    <3> SUFFICES ASSUME NEW k \in DOMAIN o, o[k].first = e.first, o[k].prio >= e.prio
                 PROVE  o[k].id \in Ahead(t, e)
      BY DEF Ahead
    <3>1. PICK i \in DOMAIN t : t[i] = o[k]
      BY <1>4
    <3> QED
      BY <3>1 DEF Ahead
  <2> QED
    BY <2>1, <2>2
<1>6. \A e : MeetsDeadline(t, e) <=> MeetsDeadline(o, e)
  BY <1>5 DEF MeetsDeadline
<1>7. AllMeetDeadlines(t)
  <2> SUFFICES ASSUME NEW k \in DOMAIN t PROVE MeetsDeadline(t, t[k])
    BY DEF AllMeetDeadlines
  <2>1. PICK i \in DOMAIN o : o[i] = t[k]
    BY <1>4
  <2>2. MeetsDeadline(o, o[i])
    BY DEF AllMeetDeadlines
  <2> QED
    BY <1>6, <2>1, <2>2
<1> QED
  BY <1>7 DEF t

\* Before a call nothing is placed.
LEMMA CallGuards ==
  ASSUME NEW opt, Call(opt)
  PROVE  HighMeets' /\ LowGuard' /\ DoneGuard'
<1>1. phase' = "high" /\ out' = <<>>
  BY DEF Call
<1>2. \A i \in DOMAIN out' : FALSE
  BY <1>1
<1> QED
  BY <1>1, <1>2 DEF HighMeets, HighFits, LowGuard, DoneGuard

\* Between two calls nothing is guarded but what has been kept.
LEMMA IdleGuards ==
  ASSUME phase' \in {"idle", "returned", "ended", "failed"}
  PROVE  HighMeets' /\ LowGuard' /\ DoneGuard'
  BY DEF HighMeets, LowGuard, DoneGuard

\* utility_test writes no schedule.
LEMMA UtilityGuards ==
  ASSUME program[1] # "cluster", program' = program, rtps' = rtps, FileGuard
  PROVE  KeptGuard' /\ FileGuard'
  BY DEF KeptGuard, FileGuard

\* Nothing is guarded before the first call.
LEMMA GuardsStart == ClusterInit => Guards
<1> SUFFICES ASSUME ClusterInit PROVE Guards
  OBVIOUS
<1>1. phase = "idle" /\ rtps.options = 2
  BY DEF ClusterInit, Idle, NoFile
<1> QED
  BY <1>1 DEF Guards, HighMeets, LowGuard, DoneGuard, KeptGuard, FileGuard

\* A verdict is kept only with the partition that it is about (lib_cluster.py:785-805).
LEMMA GuardsStay ==
  ASSUME AllInv, Guards, [ClusterNext]_cvars
  PROVE  Guards'
<1>1. TaskInv /\ ClusterInv /\ KeptInv /\ TypeInv /\ HighMeets /\ LowGuard /\ DoneGuard /\ KeptGuard /\ FileGuard
  BY DEF AllInv, ClusterInv, Guards
<1> SUFFICES HighMeets' /\ LowGuard' /\ DoneGuard' /\ KeptGuard' /\ FileGuard'
  BY DEF Guards
<1>2. CASE GenerateSet
  <2>1. phase' = "idle" /\ program[1] # "cluster" /\ program' = program /\ rtps' = rtps
    BY <1>2 DEF GenerateSet, IsCaller, calls
  <2> QED
    BY <1>1, <2>1, IdleGuards, UtilityGuards
<1>3. CASE ReadFails \/ SortFails
  <2>1. phase' \in {"ended", "failed"} /\ phase # "ended" /\ program' = program /\ rtps' = rtps
    BY <1>3 DEF ReadFails, SortFails, GoOn, NoNames, calls
  <2>2. KeptGuard' /\ FileGuard'
    BY <1>1, <2>1 DEF KeptGuard, FileGuard
  <2> QED
    BY <2>1, <2>2, IdleGuards
<1>4. CASE ReadInput
  <2>1. /\ phase = "idle" /\ Call(program[2]) /\ phase' = "high"
        /\ program' = program /\ rtps' = rtps /\ kept' = kept
    BY <1>4 DEF ReadInput, Call, calls
  <2>2. kept.sched = 2
    BY <1>1, <2>1 DEF KeptInv, NoResult
  <2>3. KeptGuard' /\ FileGuard'
    BY <1>1, <2>1, <2>2 DEF KeptGuard, FileGuard
  <2> QED
    BY <2>1, <2>3, CallGuards
<1>5. CASE AssignCore
  <2>1. Call(program[2]) /\ program[1] # "cluster" /\ program' = program /\ rtps' = rtps
    BY <1>5 DEF AssignCore, IsCaller, calls
  <2> QED
    BY <1>1, <2>1, CallGuards, UtilityGuards
<1>6. CASE PartitionGoesOn
  <2>1. PartitionStep /\ program' = program /\ rtps' = rtps /\ kept' = kept
    BY <1>6 DEF PartitionGoesOn, calls
  <2>2. phase \in {"high", "low", "balance"} /\ phase' \in {"high", "low", "balance", "done", "failed"}
    BY <2>1, StepOfCall, PhaseOfStep
  <2>3. KeptGuard' /\ FileGuard'
    BY <1>1, <2>1, <2>2 DEF KeptGuard, FileGuard
  <2> QED
    BY <1>1, <2>1, <2>3, PartitionGuards
<1>7. CASE Returned
  <2>1. /\ phase = "done" /\ phase' = "returned" /\ tasks' = tasks /\ option' = option
        /\ sched' = sched /\ rtps' = rtps /\ kept' = Kept /\ program' = program
    BY <1>7 DEF Returned, GoOn, input
  <2>2. Sound' = Sound /\ \A o : AllMeetDeadlines(o)' = AllMeetDeadlines(o)
    BY <2>1, SameGuards
  <2>3. KeptGuard'
    <3> SUFFICES ASSUME program[1] = "cluster", kept'.sched = 0
                 PROVE  sched = 0 /\ (Sound => AllMeetDeadlines(kept'.out))
      BY <2>1, <2>2 DEF KeptGuard
    <3>1. kept.sched # 0
      BY <1>1, <2>1 DEF KeptGuard
    <3>2. IsFirst
      BY <2>1, <3>1 DEF Kept
    <3>3. kept' = [sched |-> sched, out |-> out]
      BY <2>1, <3>2 DEF Kept
    <3>4. sched = 0 /\ kept'.out = out
      BY <3>3
    <3> QED
      BY <1>1, <2>1, <3>4 DEF DoneGuard
  <2>4. FileGuard'
    BY <1>1, <2>1 DEF FileGuard
  <2> QED
    BY <2>1, <2>3, <2>4, IdleGuards
<1>8. CASE TryNext
  <2>1. /\ phase = "returned" /\ NextOption # 0 /\ Call(NextOption) /\ phase' = "high"
        /\ rtps' = rtps /\ kept' = kept /\ program' = program
    BY <1>8 DEF TryNext, Call, calls
  <2>2. sched # 0
    BY <2>1 DEF NextOption
  <2>3. KeptGuard' /\ FileGuard'
    BY <1>1, <2>1, <2>2 DEF KeptGuard, FileGuard
  <2> QED
    BY <2>1, <2>3, CallGuards
<1>9. CASE WriteSchedule
  <2>1. /\ phase = "returned" /\ phase' = "ended" /\ tasks' = tasks /\ option' = option
        /\ program[1] = "cluster" /\ program' = program
        /\ rtps' = [options |-> IF kept.sched = 2 \/ kept.out = <<>> THEN 2 ELSE kept.sched,
                    lines |-> SortId(kept.out)]
    BY <1>9 DEF WriteSchedule, GoOn, input, IsCaller
  <2>2. Sound' = Sound /\ \A o : AllMeetDeadlines(o)' = AllMeetDeadlines(o)
    BY <2>1, SameGuards
  <2>3. FileGuard'
    <3> SUFFICES ASSUME rtps'.options = 0, Sound PROVE AllMeetDeadlines(rtps'.lines)
      BY <2>1, <2>2 DEF FileGuard
    <3>1. kept.sched = 0 /\ rtps'.lines = SortId(kept.out)
      BY <2>1
    <3>2. AllMeetDeadlines(kept.out)
      BY <1>1, <2>1, <3>1 DEF KeptGuard
    <3>3. kept.out \in Seq(Entry)
      BY <1>1, <2>1 DEF KeptInv, Result
    <3> QED
      BY <3>1, <3>2, <3>3, LinesMeet
  <2>4. KeptGuard'
    BY <2>1 DEF KeptGuard
  <2> QED
    BY <2>1, <2>3, <2>4, IdleGuards
<1>10. CASE CountFive
  <2>1. Call(6) /\ program[1] # "cluster" /\ program' = program /\ rtps' = rtps
    BY <1>10 DEF CountFive, IsCaller
  <2> QED
    BY <1>1, <2>1, CallGuards, UtilityGuards
<1>11. CASE CountSix
  <2>1. phase' = "ended" /\ program[1] # "cluster" /\ program' = program /\ rtps' = rtps
    BY <1>11 DEF CountSix, IsCaller, GoOn
  <2> QED
    BY <1>1, <2>1, IdleGuards, UtilityGuards
<1>12. CASE UNCHANGED cvars
  <2>1. /\ phase' = phase /\ tasks' = tasks /\ option' = option /\ out' = out /\ stat' = stat
        /\ low' = low /\ moved' = moved /\ sched' = sched /\ rtps' = rtps /\ kept' = kept /\ program' = program
    BY <1>12 DEF cvars, placing, input, lows, calls
  <2>2. /\ Ids' = Ids /\ Highs' = Highs /\ Sound' = Sound
        /\ Close(Ids \ Highs)' = Close(Ids \ Highs)
        /\ (\A id : IsHigh(id)' = IsHigh(id))
        /\ (\A A : CoreFeasible(A)' = CoreFeasible(A))
        /\ (\A o : HighFits(o)' = HighFits(o)) /\ (\A o : RateOn(o)' = RateOn(o))
        /\ (\A s : Ascending(s)' = Ascending(s))
        /\ (\A o : AllMeetDeadlines(o)' = AllMeetDeadlines(o))
        /\ (\A o, c : LowIn(o, c)' = LowIn(o, c))
    BY <2>1, SameGuards
  <2>3. HighMeets' /\ DoneGuard' /\ KeptGuard' /\ FileGuard'
    BY <1>1, <2>1, <2>2 DEF HighMeets, Parallel, DoneGuard, KeptGuard, FileGuard
  <2>4. \A c : Counted(c)' = Counted(c)
    BY <2>1, <2>2 DEF Counted, ToSet
  <2>5. LeastKnown' = LeastKnown /\ Waiting' = Waiting /\ MovedApart' = MovedApart /\ RateOn(out)' = RateOn(out)
    BY <2>1, <2>2, <2>4 DEF LeastKnown, Waiting, MovedApart
  <2>6. LowGuard'
    BY <1>1, <2>1, <2>2, <2>4, <2>5 DEF LowGuard
  <2> QED
    BY <2>3, <2>6
<1> QED
  BY <1>2, <1>3, <1>4, <1>5, <1>6, <1>7, <1>8, <1>9, <1>10, <1>11, <1>12 DEF ClusterNext, ProgramStep

\* It says what the types of the variables are.
LEMMA AllInvIsTyped == AllInv => ClusterTypeOK
<1> SUFFICES ASSUME AllInv PROVE ClusterTypeOK
  OBVIOUS
<1>1. TypeInv /\ CountInv
  BY DEF AllInv, ClusterInv
<1>2. \A i \in DOMAIN lowcore : lowcore[i] \in Cores
  BY <1>1, SeqIsFunction DEF TypeInv
<1>3. Len(counted) <= 2
  BY <1>1, SeqIsFunction DEF CountInv
<1> QED
  BY <1>1, <1>2, <1>3 DEF ClusterTypeOK, TypeInv, CountInv, Ids

\* The variables of the clustering keep their types through all options, moves and calls.
THEOREM ClusterTyped == ClusterSpec => []ClusterTypeOK
  BY ClusterInductive, AllInvIsTyped, PTL

\* No other task is ever given a core of a high task, unless a fit into sockets has changed the
\* order of the tasks; and what low tasks take from it leaves the floor of what it needs, and two.
THEOREM CoresAreKept == ClusterSpec => []HighTasksKeepCores
<1>1. AllInv => HighTasksKeepCores
  BY OwnInvIsOwnCores, FloorInvIsFloor DEF AllInv, HighTasksKeepCores
<1> QED
  BY <1>1, ClusterInductive, PTL

\* A schedule that is written has each task of the set once, in the order of the set, and comes
\* with the verdict of a partition, whatever calls it was chosen from.
THEOREM SchedulesAreComplete == ClusterSpec => []ScheduleIsComplete
<1>1. AllInv => ScheduleIsComplete
  BY DEF AllInv, KeptInv, ScheduleIsComplete
<1> QED
  BY <1>1, ClusterInductive, PTL

\* What the verdict 0 rests on holds throughout both programs: the clusters are large enough, the
\* low tasks of each core feasible in the order of their periods, which is that of their priorities,
\* and the verdict that is kept that of the partition beside it.
THEOREM GuardsInductive == ClusterSpec => [](AllInv /\ Guards)
<1>1. ClusterInit => AllInv /\ Guards
  BY AllInvStarts, GuardsStart
<1>2. AllInv /\ Guards /\ [ClusterNext]_cvars => AllInv' /\ Guards'
  BY AllInvStays, GuardsStay
<1> QED
  BY <1>1, <1>2, PTL DEF ClusterSpec

\* The number of low tasks and the utilisation that loadbalance and the placement keep beside
\* the lists of tasks are always those of the tasks on the core (lib_cluster.py:378), and the period
\* there is none that is longer than one of theirs, if periods are close and the verdict is 0.
THEOREM StatisticsAreExact == ClusterSpec => []StatIsExact
<1>1. ASSUME AllInv, Guards PROVE StatIsExact
  <2>1. \A core : LowOn(core) \cup ToSet(moved[core]) = Counted(core)
    BY DEF LowOn, LowIn, Counted
  <2>2. ASSUME NEW core \in Cores, phase \in {"low", "balance"}, sched = 0, Close(DOMAIN tasks \ Highs)
        PROVE  \A id \in Counted(core) : stat[core].mint <= tasks[id].period
    BY <1>1, <2>2 DEF Guards, LowGuard, LeastKnown, Ids
  <2> QED
    BY <1>1, <2>1, <2>2 DEF AllInv, ClusterInv, StatInv, StatIsExact, Load
<1> QED
  BY <1>1, GuardsInductive, PTL

\* The verdict 0 is a guarantee: every task then meets its deadlines, in the partition that is
\* returned and, after up to three calls, in the schedule that is written.
THEOREM GuaranteesHold == ClusterSpec => []GuaranteeHolds
<1>1. Guards => GuaranteeHolds
  BY DEF Guards, DoneGuard, FileGuard, GuaranteeHolds, Sound
<1> QED
  BY <1>1, GuardsInductive, PTL

\* A schedule is complete, and right in what it guarantees.
THEOREM SchedulesAreRight == ClusterSpec => []ScheduleIsRight
<1>1. GuaranteeHolds /\ ScheduleIsComplete => ScheduleIsRight
  BY DEF ScheduleIsRight
<1> QED
  BY <1>1, GuaranteesHold, SchedulesAreComplete, PTL

-------------------------------------------------------------------------------
(* A core that is simulated. *)

\* A partition as a list of entries with ids, priorities and cores, each task once.
IsList(p) ==
  /\ Len(p) \in Nat /\ DOMAIN p = 1 .. Len(p) /\ DistinctIds(p)
  /\ \A i \in DOMAIN p : p[i].id \in Ids /\ p[i].prio \in Int

\* A task has time for its work and what comes before it on its core.
HasTime(p, e) == \E len \in 1 .. tasks[e.id].period : Demand(Ahead(p, e), len) <= len

\* The list of a core: every entry that starts there, once.
LEMMA CoreList ==
  ASSUME NEW p, IsList(p), NEW core, NEW on, on = OnCore(p, core)
  PROVE  /\ Len(on) \in Nat /\ DOMAIN on = 1 .. Len(on) /\ Len(on) = Cardinality(At(p, core))
         /\ \A k \in 1 .. Len(on) : \E i \in At(p, core) : on[k] = p[i]
         /\ \A i \in At(p, core) : \E k \in 1 .. Len(on) : on[k] = p[i]
         /\ \A k, l \in 1 .. Len(on) : on[k].id = on[l].id => k = l
         /\ Len(on) = 0 <=> At(p, core) = {}
<1> DEFINE D == At(p, core)
           at == InTurn(D)
<1>1. D \in SUBSET Nat /\ IsFiniteSet(D)
  <2>1. IsFiniteSet(1 .. Len(p))
    BY FS_Interval DEF IsList
  <2> QED
    BY <2>1, FS_Subset DEF IsList, At
<1>2. on = [k \in DOMAIN at |-> p[at[k]]]
  BY DEF OnCore, At
<1>3. \A i \in D : i \in DOMAIN p
  BY DEF At
<1> HIDE DEF D, at
<1>4. /\ Len(on) \in Nat /\ DOMAIN on = 1 .. Len(on) /\ Len(on) = Cardinality(D)
      /\ \A k \in 1 .. Len(on) : at[k] \in D /\ on[k] = p[at[k]]
      /\ \A i \in D : \E k \in 1 .. Len(on) : at[k] = i
      /\ \A k, l \in 1 .. Len(on) : at[k] = at[l] => k = l
      /\ Len(on) = 0 <=> D = {}
  <2>1. at = InTurn(D)
    BY DEF at
  <2>2. \A k, l \in 1 .. Len(on) : at[k] = at[l] => k = l
    BY ONLY <1>1, <1>2, <2>1, ListInTurn
  <2>3. /\ Len(on) \in Nat /\ DOMAIN on = 1 .. Len(on) /\ Len(on) = Cardinality(D)
        /\ \A k \in 1 .. Len(on) : at[k] \in D /\ on[k] = p[at[k]]
        /\ Len(on) = 0 <=> D = {}
    BY ONLY <1>1, <1>2, <2>1, ListInTurn
  <2>4. \A i \in D : \E k \in 1 .. Cardinality(D) : at[k] = i
    BY ONLY <1>1, <2>1, InTurnIs
  <2> QED
    BY <2>2, <2>3, <2>4
<1>5. \A k, l \in 1 .. Len(on) : on[k].id = on[l].id => k = l
  BY <1>3, <1>4 DEF IsList, DistinctIds
<1>6. \A i \in D : \E k \in 1 .. Len(on) : on[k] = p[i]
  BY <1>4
<1> QED
  BY <1>4, <1>5, <1>6 DEF D

\* Their periods, work and priorities, and what they request.
PeriodOn(on) == [i \in 1 .. Len(on) |-> tasks[on[i].id].period]
WorkOn(on) == [i \in 1 .. Len(on) |-> tasks[on[i].id].work]
PrioOn(on) == [i \in 1 .. Len(on) |-> on[i].prio]

RequestedOn(on, q, x) == Requested(Len(on), PeriodOn(on), WorkOn(on), PrioOn(on), q, x)

\* The run of the core in the code is the service of its tasks.
LEMMA CoreService ==
  ASSUME TaskInv, NEW on, Len(on) \in Nat \ {0}, DOMAIN on = 1 .. Len(on),
         \A i \in 1 .. Len(on) : on[i].id \in Ids /\ on[i].prio \in Int,
         \A id \in Ids : tasks[id].work > 0, Harmonic(Ids),
         \A i, j \in 1 .. Len(on) :
            on[i].prio >= on[j].prio => tasks[on[i].id].period <= tasks[on[j].id].period
  PROVE  /\ Periodic(Len(on), PeriodOn(on), WorkOn(on), PrioOn(on))
         /\ SingleSimu(on) =
              IF \E j \in 1 .. Len(on) : RequestedOn(on, PrioOn(on)[j], PeriodOn(on)[j]) > PeriodOn(on)[j]
                THEN 1 ELSE 0
<1> DEFINE n == Len(on)
           P == PeriodOn(on)
           C == WorkOn(on)
           Q == PrioOn(on)
<1>0. /\ n \in Nat \ {0} /\ DOMAIN on = 1 .. n
      /\ (\A i \in 1 .. n : on[i].id \in Ids /\ on[i].prio \in Int)
      /\ (\A i, j \in 1 .. n : on[i].prio >= on[j].prio => tasks[on[i].id].period <= tasks[on[j].id].period)
      /\ P = [i \in 1 .. n |-> tasks[on[i].id].period]
      /\ C = [i \in 1 .. n |-> tasks[on[i].id].work] /\ Q = [i \in 1 .. n |-> on[i].prio]
  BY DEF PeriodOn, WorkOn, PrioOn
<1> HIDE DEF n, P, C, Q
<1>1. \A i \in 1 .. n : /\ P[i] = tasks[on[i].id].period /\ C[i] = tasks[on[i].id].work /\ Q[i] = on[i].prio
                        /\ P[i] \in Nat \ {0} /\ C[i] \in Nat /\ C[i] > 0 /\ Q[i] \in Int
  BY <1>0, TaskTypes
<1>2. Periodic(n, P, C, Q)
  BY <1>0, <1>1 DEF Periodic
<1>3. \A i, j \in 1 .. n : P[i] <= P[j] => P[j] % P[i] = 0
  BY <1>0, <1>1 DEF Harmonic
<1>4. \A i, j \in 1 .. n : Q[i] >= Q[j] => P[j] % P[i] = 0
  BY <1>0, <1>1, <1>3
<1> DEFINE H == HyperOf(on)
           T == {t \in 0 .. H - 1 : \E i \in DOMAIN on : IsReleased(on[i], H, t)}
           at == Append(Releases(on, H), H)
           N == Len(at) - 1
           D == [k \in 1 .. N |-> {i \in DOMAIN on : IsReleased(on[i], H, at[k])}]
           due == [k \in 1 .. N |-> InTurn(D[k])]
           rel == [k \in 1 .. N |-> Released(on, H, at[k])]
           F(g) == [k \in 0 .. Len(at) - 1 |->
                      IF k = 0 THEN [wait |-> <<>>, late |-> FALSE]
                      ELSE Serving(on, H, g[k - 1], at[k], at[k + 1])]
           Z == CHOOSE g : g = F(g)
<1>5. H \in Nat \ {0} /\ \A i \in 1 .. n : H % P[i] = 0
  <2> DEFINE B == {P[i] : i \in 1 .. n}
  <2>1. {tasks[on[i].id].period : i \in DOMAIN on} = B
    BY <1>0, <1>1
  <2>2. H = Max(B)
    BY <2>1 DEF HyperOf
  <2>3. IsFiniteSet(B)
    <3>1. IsFiniteSet(1 .. n)
      BY <1>0, FS_Interval
    <3> QED
      BY ONLY <3>1, ImageIsFinite
  <2>4. B # {} /\ B \subseteq Int
    BY <1>0, <1>1
  <2> HIDE DEF B, H
  <2>5. H \in B /\ \A b \in B : b <= H
    BY ONLY <2>2, <2>3, <2>4, MaxFinite
  <2>6. PICK m \in 1 .. n : H = P[m]
    BY <2>5 DEF B
  <2>7. \A i \in 1 .. n : P[i] <= P[m]
    BY <2>5, <2>6 DEF B
  <2> QED
    BY <1>1, <1>3, <2>6, <2>7
<1> HIDE DEF H
<1>6. \A i \in 1 .. n : \A t \in Nat : t < H => (IsReleased(on[i], H, t) <=> t % P[i] = 0)
  <2> TAKE i \in 1 .. n
  <2> TAKE t \in Nat
  <2> HAVE t < H
  <2>1. P[i] \in Nat \ {0} /\ H % P[i] = 0
    BY <1>1, <1>5
  <2>2. t \div P[i] < H \div P[i]
    BY ONLY <1>5, <2>1, t \in Nat, t < H, ReleasedBeforeEnd
  <2>3. IsReleased(on[i], H, t) <=> t % P[i] = 0 /\ t \div P[i] < H \div P[i]
    BY ONLY <1>1, i \in 1 .. n DEF IsReleased
  <2> QED
    BY <2>2, <2>3
<1>7. \A t : t \in T <=> t \in 0 .. H - 1 /\ \E i \in 1 .. n : t % P[i] = 0
  <2>1. \A t \in 0 .. H - 1 : t \in Nat /\ t < H
    BY <1>5
  <2>2. \A t \in 0 .. H - 1 : (\E i \in DOMAIN on : IsReleased(on[i], H, t)) <=> \E i \in 1 .. n : t % P[i] = 0
    BY ONLY <1>0, <1>6, <2>1
  <2> QED
    BY <2>2
<1>8. at = Append(InTurn(T), H)
  BY DEF Releases
<1> HIDE DEF T, at
<1>9. /\ CoreTimes(n, P, H, N, at) /\ N \in Nat /\ \A k \in 1 .. N : at[k] \in T
  <2>1. n > 0 /\ N = Len(at) - 1
    BY <1>0
  <2> HIDE DEF N
  <2>2. H \in Nat \ {0}
    BY <1>5
  <2>3. /\ CoreTimes(n, P, H, Len(at) - 1, at) /\ Len(at) - 1 \in Nat
        /\ \A k \in 1 .. Len(at) - 1 : at[k] \in T
    BY ONLY <1>2, <1>7, <1>8, <2>1, <2>2, TimesInTurn
  <2> QED
    BY ONLY <2>1, <2>3
<1> HIDE DEF N
<1>10. \A k \in 1 .. N : at[k] \in Nat /\ at[k] < H
  BY <1>5, <1>9 DEF T
<1>11. \A k \in 1 .. N : \A i : i \in D[k] <=> i \in 1 .. n /\ at[k] % P[i] = 0
  BY <1>0, <1>6, <1>10
<1>12. \A k \in 1 .. N : due[k] = InTurn(D[k])
  OBVIOUS
<1>13. \A k \in 1 .. N :
         rel[k] = [l \in DOMAIN due[k] |-> [prio |-> Q[due[k][l]], left |-> C[due[k][l]],
                                           deadline |-> at[k] + P[due[k][l]]]]
  <2> TAKE k \in 1 .. N
  <2> DEFINE d == due[k]
             E == {i \in DOMAIN on : IsReleased(on[i], H, at[k])}
  <2>1. d = InTurn(E) /\ E = D[k]
    OBVIOUS
  <2>2. E \in SUBSET (1 .. n) /\ E \in SUBSET Nat /\ IsFiniteSet(E)
    <3>1. IsFiniteSet(1 .. n)
      BY <1>0, FS_Interval
    <3>2. E \in SUBSET (1 .. n)
      BY <1>11, <2>1
    <3> HIDE DEF E
    <3> QED
      <4>1. IsFiniteSet(E)
        BY ONLY <3>1, <3>2, FS_Subset
      <4> QED
        BY <1>0, <3>2, <4>1
  <2> DEFINE m == Cardinality(E)
  <2>3. d \in [1 .. m -> E] /\ DOMAIN d = 1 .. m
    <3> HIDE DEF E, d
    <3> QED
      BY ONLY <2>1, <2>2, InTurnIs
  <2>4. Released(on, H, at[k]) =
          [l \in DOMAIN d |-> [prio |-> on[d[l]].prio, left |-> tasks[on[d[l]].id].work,
                               deadline |-> at[k] + tasks[on[d[l]].id].period]]
    BY DEF Released
  <2>5. rel[k] = Released(on, H, at[k])
    OBVIOUS
  <2> HIDE DEF E, m, d
  <2>6. \A l \in DOMAIN d : d[l] \in 1 .. n
    BY <2>2, <2>3
  <2>7. \A l \in DOMAIN d : /\ on[d[l]].prio = Q[d[l]] /\ tasks[on[d[l]].id].work = C[d[l]]
                            /\ tasks[on[d[l]].id].period = P[d[l]]
    BY ONLY <1>1, <2>6
  <2>8. rel[k] = [l \in DOMAIN d |-> [prio |-> Q[d[l]], left |-> C[d[l]], deadline |-> at[k] + P[d[l]]]]
    BY ONLY <2>4, <2>5, <2>7
  <2> QED
    BY ONLY <2>8 DEF d
<1>14. /\ \E g : g = ServedBetween(N, at, rel, g)
       /\ \A g : g = ServedBetween(N, at, rel, g) =>
            (g[N].late \/ g[N].wait # <<>> <=> \E j \in 1 .. n : Requested(n, P, C, Q, Q[j], P[j]) > P[j])
  <2>1. n > 0
    BY <1>0
  <2>2. H \in Nat \ {0}
    BY <1>5
  <2>3. \A i \in 1 .. n : H % P[i] = 0
    BY <1>5
  <2>4. \A k \in 1 .. N : ReleaseOf(n, P, C, Q, rel[k], at[k])
    <3> TAKE k \in 1 .. N
    <3> DEFINE t == at[k]
               r == rel[k]
               E == D[k]
               d == due[k]
    <3>1. d = InTurn(E) /\ t \in Nat
      BY <1>10, <1>12
    <3>2. \A i : i \in E <=> i \in 1 .. n /\ t % P[i] = 0
      BY <1>11
    <3>3. r = [l \in DOMAIN d |-> [prio |-> Q[d[l]], left |-> C[d[l]], deadline |-> t + P[d[l]]]]
      BY <1>13
    <3>4. \A i \in 1 .. n : C[i] > 0
      BY <1>1
    <3> HIDE DEF t, r, E, d
    <3>5. ReleaseOf(n, P, C, Q, r, t)
      BY ONLY <1>2, <3>1, <3>2, <3>3, <3>4, ReleasedInTurn
    <3> QED
      BY <3>5 DEF t, r
  <2>5. CoreTimes(n, P, H, N, at)
    BY <1>9
  <2> HIDE DEF D, due, rel
  <2> QED
    BY ONLY <1>2, <1>4, <2>1, <2>2, <2>3, <2>4, <2>5, CoreVerdict
<1>15. \A g : F(g) = ServedBetween(N, at, rel, g)
  <2> TAKE g
  <2>1. Len(at) - 1 = N
    BY DEF N
  <2>2. \A k \in 1 .. N : Serving(on, H, g[k - 1], at[k], at[k + 1]) =
           Served(ByPriority(g[k - 1].wait \o rel[k]), at[k], at[k + 1], g[k - 1].late)
    BY DEF Serving
  <2>3. \A k \in 0 .. N : k = 0 \/ k \in 1 .. N
    BY <1>9
  <2> HIDE DEF rel
  <2> QED
    BY ONLY <2>1, <2>2, <2>3 DEF ServedBetween, F
<1>16. SingleSimu(on) = IF Z[Len(at) - 1].late \/ Z[Len(at) - 1].wait # <<>> THEN 1 ELSE 0
  BY DEF SingleSimu, H, at
<1>17. Z = F(Z)
  <2>1. PICK g : g = F(g)
    <3> HIDE DEF F, rel
    <3> QED
      BY ONLY <1>14, <1>15
  <2> HIDE DEF F
  <2> QED
    BY ONLY <2>1 DEF Z
<1>18. Len(at) - 1 = N
  BY DEF N
<1> HIDE DEF F, Z, rel, D, due
<1> QED
  <2>1. SingleSimu(on) = IF \E j \in 1 .. n : Requested(n, P, C, Q, Q[j], P[j]) > P[j] THEN 1 ELSE 0
    BY ONLY <1>14, <1>15, <1>16, <1>17, <1>18
  <2> QED
    BY ONLY <1>2, <2>1 DEF RequestedOn, n, P, C, Q

\* What the tasks on a core demand is what they request.
LEMMA DemandIsRequested ==
  ASSUME TaskInv, NEW p, IsList(p), NEW core, NEW on, on = OnCore(p, core),
         NEW j \in 1 .. Len(on), NEW len \in Nat
  PROVE  Demand(Ahead(p, on[j]), len) = RequestedOn(on, PrioOn(on)[j], len)
<1> DEFINE n == Len(on)
           P == PeriodOn(on)
           C == WorkOn(on)
           Q == PrioOn(on)
           D == At(p, core)
           g == [i \in 1 .. n |-> on[i].id]
           A == {g[i] : i \in {k \in 1 .. n : Q[k] >= Q[j]}}
           f == [id \in A |-> CeilDiv(len, tasks[id].period) * tasks[id].work]
<1>1. /\ n \in Nat /\ DOMAIN on = 1 .. n
      /\ \A k \in 1 .. n : \E i \in D : on[k] = p[i]
      /\ \A i \in D : \E k \in 1 .. n : on[k] = p[i]
      /\ \A k, l \in 1 .. n : on[k].id = on[l].id => k = l
  <2>1. IsList(p) /\ on = OnCore(p, core) /\ n = Len(on) /\ D = At(p, core)
    OBVIOUS
  <2>3. \A k, l \in 1 .. Len(on) : on[k].id = on[l].id => k = l
    BY ONLY <2>1, CoreList
  <2>4. \A k, l \in 1 .. n : on[k].id = on[l].id => k = l
    BY ONLY <2>1, <2>3
  <2> HIDE DEF n, D
  <2>2. /\ n \in Nat /\ DOMAIN on = 1 .. n
        /\ \A k \in 1 .. n : \E i \in D : on[k] = p[i]
        /\ \A i \in D : \E k \in 1 .. n : on[k] = p[i]
    BY ONLY <2>1, CoreList
  <2> QED
    BY <2>2, <2>4
<1>2. \A k \in 1 .. n : on[k].id \in Ids /\ on[k].prio \in Int /\ on[k].first = core
  BY <1>1 DEF IsList, At
<1>3. Ahead(p, on[j]) = A
  <2>1. on[j].first = core
    BY <1>2
  <2>2. ASSUME NEW i \in DOMAIN p, p[i].first = on[j].first, p[i].prio >= on[j].prio PROVE p[i].id \in A
    <3>1. PICK k \in 1 .. n : on[k] = p[i]
      BY <1>1, <2>1, <2>2 DEF At
    <3>2. Q[k] >= Q[j] /\ g[k] = p[i].id
      BY <2>2, <3>1 DEF PrioOn
    <3> QED
      BY <3>2
  <2>3. ASSUME NEW k \in 1 .. n, Q[k] >= Q[j] PROVE g[k] \in Ahead(p, on[j])
    <3>1. PICK i \in D : on[k] = p[i]
      BY <1>1
    <3>2. p[i].first = on[j].first /\ p[i].prio >= on[j].prio /\ g[k] = p[i].id
      BY <1>2, <2>1, <2>3, <3>1 DEF PrioOn, At
    <3>3. i \in DOMAIN p
      BY DEF At
    <3> QED
      BY <3>2, <3>3 DEF Ahead
  <2> HIDE DEF g
  <2> QED
    BY <2>2, <2>3 DEF Ahead
<1>4. Periodic(n, P, C, Q)
  <2>1. \A k \in 1 .. n : tasks[on[k].id].period \in Nat \ {0} /\ tasks[on[k].id].work \in Nat
    BY <1>2, TaskTypes
  <2> QED
    BY <1>1, <1>2, <2>1 DEF Periodic, PeriodOn, WorkOn, PrioOn
<1>5. Q[j] \in Int
  BY <1>2 DEF PrioOn
<1>6. \A i, k \in 1 .. n : g[i] = g[k] => i = k
  BY <1>1
<1>7. \A i \in 1 .. n : Q[i] >= Q[j] => f[g[i]] = CeilDiv(len, P[i]) * C[i]
  <2> TAKE i \in 1 .. n
  <2> HAVE Q[i] >= Q[j]
  <2>1. g[i] \in A
    OBVIOUS
  <2>2. f[g[i]] = CeilDiv(len, tasks[g[i]].period) * tasks[g[i]].work
    <3> HIDE DEF A, g
    <3> QED
      BY <2>1
  <2> QED
    BY <2>2 DEF PeriodOn, WorkOn
<1>8. Demand(A, len) = SumFunctionOnSet(f, A)
  BY DEF Demand
<1> HIDE DEF f, g
<1> DEFINE q == Q[j]
<1>9. q \in Int /\ \A i \in 1 .. n : Q[i] >= q => f[g[i]] = CeilDiv(len, P[i]) * C[i]
  BY <1>5, <1>7
<1>10. A = {g[i] : i \in {k \in 1 .. n : Q[k] >= q}}
  OBVIOUS
<1> HIDE DEF q, A
<1>11. SumFunctionOnSet(f, {g[i] : i \in {k \in 1 .. n : Q[k] >= q}}) = Requested(n, P, C, Q, q, len)
  BY ONLY <1>4, <1>6, <1>9, len \in Nat, RequestedByName
<1> QED
  BY <1>3, <1>8, <1>10, <1>11 DEF q, RequestedOn

(***************************************************************************)
(* The simulation of a core passes if and only if all tasks there have     *)
(* time, and that is decided by what they demand in a whole period.        *)
(***************************************************************************)
LEMMA CoreAgrees ==
  ASSUME TaskInv, NEW p, IsList(p), NEW core, NEW D, D = At(p, core), D # {},
         \A id \in Ids : tasks[id].work > 0, Harmonic(Ids),
         \A i, j \in D : p[i].prio >= p[j].prio => tasks[p[i].id].period <= tasks[p[j].id].period
  PROVE  SingleSimu(OnCore(p, core)) = IF \A i \in D : HasTime(p, p[i]) THEN 0 ELSE 1
<1> DEFINE on == OnCore(p, core)
           n == Len(on)
           P == PeriodOn(on)
           C == WorkOn(on)
           Q == PrioOn(on)
<1> HIDE DEF on
<1>1. /\ n \in Nat \ {0} /\ DOMAIN on = 1 .. n
      /\ \A k \in 1 .. n : \E i \in D : on[k] = p[i]
      /\ \A i \in D : \E k \in 1 .. n : on[k] = p[i]
  <2>1. IsList(p) /\ on = OnCore(p, core) /\ n = Len(on) /\ D = At(p, core) /\ D # {}
    BY DEF on
  <2> HIDE DEF n
  <2> QED
    BY ONLY <2>1, CoreList
<1>2. \A k \in 1 .. n : on[k].id \in Ids /\ on[k].prio \in Int
  BY <1>1 DEF IsList, At
<1>3. \A i, j \in 1 .. n : on[i].prio >= on[j].prio => tasks[on[i].id].period <= tasks[on[j].id].period
  BY <1>1
<1> HIDE DEF n
<1>4. /\ Periodic(n, P, C, Q)
      /\ SingleSimu(on) = IF \E j \in 1 .. n : Requested(n, P, C, Q, Q[j], P[j]) > P[j] THEN 1 ELSE 0
  <2>1. Len(on) = n
    BY DEF n
  <2>2. \A id \in Ids : tasks[id].work > 0
    OBVIOUS
  <2>3. TaskInv /\ Harmonic(Ids)
    OBVIOUS
  <2>4. n \in Nat \ {0} /\ DOMAIN on = 1 .. n
    BY <1>1
  <2> QED
    BY ONLY <1>2, <1>3, <2>1, <2>2, <2>3, <2>4, CoreService DEF RequestedOn
<1>5. ASSUME NEW j \in 1 .. n
      PROVE  /\ P[j] \in Nat \ {0} /\ Requested(n, P, C, Q, Q[j], P[j]) \in Nat
             /\ HasTime(p, on[j]) <=> Requested(n, P, C, Q, Q[j], P[j]) <= P[j]
  <2> DEFINE q == Q[j]
             S == P[j]
             R(x) == Requested(n, P, C, Q, q, x)
  <2>1. q \in Int /\ S \in Nat \ {0} /\ S = tasks[on[j].id].period
    BY <1>4 DEF Periodic, PeriodOn, n
  <2>2. \A x \in Nat : Demand(Ahead(p, on[j]), x) = R(x)
    <3>1. on = OnCore(p, core) /\ n = Len(on)
      BY DEF on, n
    <3>2. IsList(p) /\ TaskInv /\ j \in 1 .. n
      OBVIOUS
    <3> QED
      BY ONLY <3>1, <3>2, DemandIsRequested DEF RequestedOn
  <2>3. \A x \in Nat : R(x) \in Nat
    <3> HIDE DEF P, C, Q, q
    <3> QED
      BY ONLY <1>4, <2>1, RequestedNat
  <2>4. \A i \in 1 .. n : Q[i] >= q => S % P[i] = 0
    <3> TAKE i \in 1 .. n
    <3> HAVE Q[i] >= q
    <3>1. tasks[on[i].id].period <= tasks[on[j].id].period
      BY <1>3 DEF PrioOn, n
    <3> QED
      BY <1>2, <3>1 DEF Harmonic, PeriodOn, n
  <2> HIDE DEF P, C, Q, q, S
  <2>5. (\E len \in 1 .. S : R(len) <= len) <=> R(S) <= S
    BY ONLY <1>4, <2>1, <2>4, RequestedFits
  <2>6. HasTime(p, on[j]) <=> \E len \in 1 .. S : R(len) <= len
    <3>1. HasTime(p, on[j]) <=> \E len \in 1 .. S : Demand(Ahead(p, on[j]), len) <= len
      BY <2>1 DEF HasTime
    <3>2. \A len \in 1 .. S : Demand(Ahead(p, on[j]), len) = R(len)
      BY <2>1, <2>2
    <3> QED
      BY <3>1, <3>2
  <2>7. HasTime(p, on[j]) <=> R(S) <= S
    BY <2>5, <2>6
  <2> QED
    BY <2>1, <2>3, <2>7 DEF q, S
<1> HIDE DEF P, C, Q
<1>6. \A j \in 1 .. n : Requested(n, P, C, Q, Q[j], P[j]) > P[j] <=> ~ HasTime(p, on[j])
  BY <1>5
<1>7. (\A i \in D : HasTime(p, p[i])) <=> \A j \in 1 .. n : HasTime(p, on[j])
  BY <1>1
<1>8. SingleSimu(on) = IF \E j \in 1 .. n : ~ HasTime(p, on[j]) THEN 1 ELSE 0
  BY <1>4, <1>6
<1> QED
  BY <1>7, <1>8 DEF on

\* A cluster that is large enough for the work beside the critical path is so for its segments in turn.
LEMMA ExeTimeFits ==
  ASSUME TaskInv, Segmented, NEW id \in Ids, NEW n \in Nat \ {0},
         tasks[id].work - tasks[id].span <= n * (tasks[id].period - tasks[id].span)
  PROVE  ~ (ExeTime(tasks[id], n) > tasks[id].period)
<1> DEFINE t == tasks[id]
           S == DOMAIN t.segs
           count == [i \in S |-> t.segs[i].count]
           len == [i \in S |-> t.segs[i].len]
           w == [i \in S |-> count[i] * len[i]]
           l == [i \in S |-> len[i]]
           f == [i \in S |-> CeilDiv(count[i], n) * len[i]]
<1>1. t.segs \in Seq([count : Nat, len : Nat]) /\ t.period \in Nat
  <2>1. tasks \in Seq(Task)
    BY DEF TaskInv
  <2>2. t \in Task
    BY <2>1, SeqIsFunction DEF Ids
  <2> QED
    BY <2>2 DEF Task
<1>2. IsFiniteSet(S) /\ \A i \in S : count[i] \in Nat /\ len[i] \in Nat
  <2>1. S = 1 .. Len(t.segs) /\ Len(t.segs) \in Nat /\ \A i \in S : t.segs[i] \in [count : Nat, len : Nat]
    BY <1>1, SeqIsFunction
  <2>2. IsFiniteSet(1 .. Len(t.segs))
    BY <2>1, FS_Interval
  <2> QED
    BY <2>1, <2>2
<1>3. /\ w = [i \in S |-> t.segs[i].count * t.segs[i].len] /\ l = [i \in S |-> t.segs[i].len]
      /\ f = [i \in S |-> CeilDiv(t.segs[i].count, n) * t.segs[i].len]
  OBVIOUS
<1>4. t.work = SumFunctionOnSet(w, S) /\ t.span = SumFunctionOnSet(l, S) /\ ExeTime(t, n) = SumFunctionOnSet(f, S)
  BY <1>3 DEF Segmented, ExeTime, SumFunction, Ids
<1> HIDE DEF S, count, len
<1>5. SumFunctionOnSet(w, S) - SumFunctionOnSet(l, S) <= n * (t.period - SumFunctionOnSet(l, S))
  BY <1>4
<1> DEFINE T == t.period
<1>6. T \in Nat /\ SumFunctionOnSet(w, S) - SumFunctionOnSet(l, S) <= n * (T - SumFunctionOnSet(l, S))
  BY <1>1, <1>5
<1> HIDE DEF T
<1>7. SumFunctionOnSet(f, S) <= T
  BY <1>2, <1>6, TurnsFit
<1>8. SumFunctionOnSet(f, S) \in Nat
  <2>1. \A i \in S : f[i] \in Nat
    <3>1. \A c \in Nat : CeilDiv(c, n) \in Nat
      BY CeilRange
    <3> QED
      BY <1>2, <3>1
  <2> HIDE DEF f
  <2> QED
    BY <1>2, <2>1, SumNat
<1> QED
  BY <1>4, <1>6, <1>7, <1>8 DEF T

-------------------------------------------------------------------------------
(* The order of service, and the first cores of clusters. *)

\* The low tasks of a core are served in the order of their periods, whatever the verdict.
RankGuard == (phase = "low" => RateOn(out) /\ Waiting) /\ (phase = "done" => Ranking(out))

\* After a fit into sockets no task is put on the first core of a cluster, even where a task that
\* had no such core to spare was made smaller.
FirstGuard ==
  Parallel /\ fit = "refit" /\ (phase = "low" \/ (phase = "done" /\ sched = 1)) =>
    \A i \in DOMAIN out : IsHigh(out[i].id) =>
      /\ \A j \in DOMAIN out : j # i => out[j].first # out[i].first
      /\ phase = "low" => /\ \A c \in ToSet(lowcore) : c # out[i].first
                          /\ \A k \in DOMAIN possible : possible[k].core # out[i].first

\* A fit leaves every cluster a first core that it does not offer.
LEMMA FirstStarts ==
  ASSUME TaskInv, TypeInv, PhaseInv, HighClusters, StartLow, TypeInv', OwnInv', HighMeets'
  PROVE  FirstGuard'
<1>1. /\ phase = "high" /\ phase' = "low" /\ tasks' = tasks /\ option' = option /\ sched' = sched
      /\ (fit' = "refit" => fit = "refit" \/ (Crossing /\ FitsSockets))
  BY DEF StartLow, LowIsNext, input
<1>2. HighPhase /\ sched = 0 /\ fit = "none"
  BY <1>1 DEF PhaseInv, HighPhase
<1>3. /\ (\A id : IsHigh(id)' = IsHigh(id)) /\ (\A p : HighFits(p)' = HighFits(p))
      /\ Parallel' = Parallel
  BY <1>1, SameGuards DEF Parallel
<1>4. /\ DOMAIN out = 1 .. Len(out) /\ (\A i \in 1 .. Len(out) : IsHigh(out[i].id))
      /\ (Crossing /\ FitsSockets => Fitted)
  BY <1>1, <1>2, HighList
<1> SUFFICES ASSUME Parallel, fit' = "refit", NEW i \in DOMAIN out'
             PROVE  /\ \A j \in DOMAIN out' : j # i => out'[j].first # out'[i].first
                    /\ \A c \in ToSet(lowcore') : c # out'[i].first
                    /\ \A k \in DOMAIN possible' : possible'[k].core # out'[i].first
  BY <1>1, <1>3 DEF FirstGuard, ToSet
<1>5. /\ Crossing /\ FitsSockets
      /\ out' = Refitted /\ possible' = SortPossible(Offers)
  BY <1>1, <1>2 DEF StartLow, Offers
<1>6. /\ DOMAIN out' = 1 .. Len(out) /\ out' \in Seq(Entry)
      /\ \A k \in DOMAIN out' : IsHigh(out'[k].id)
  BY <1>4, <1>5, RefittedSeq
<1>7. \A k \in DOMAIN out' : out'[k].first \in Int /\ out'[k].last \in Int
  <2>1. \A k \in DOMAIN out' : out'[k] \in Entry
    BY <1>6, SeqIsFunction
  <2> QED
    BY <2>1, Constants DEF Entry, Cores
<1>8. \A k \in DOMAIN out' : out'[k].last > out'[k].first
  <2> TAKE k \in DOMAIN out'
  <2>1. HighFits(out')
    BY <1>1, <1>2, <1>3 DEF HighMeets
  <2>2. Size(out'[k]) >= 2
    BY <1>6, <2>1 DEF HighFits
  <2> QED
    BY <1>7, <2>2 DEF Size
<1>9. /\ \A k, l \in DOMAIN out' : k # l => Apart(out'[k], out'[l])
      /\ \A c \in ToSet(lowcore') : c < out'[i].first \/ out'[i].last < c
  <2>1. sched' # 1 /\ phase' \in {"low", "balance"}
    BY <1>1, <1>2
  <2> QED
    BY <1>3, <1>6, <2>1 DEF OwnInv, Apart, ToSet
<1>10. \A j \in DOMAIN out' : j # i => out'[j].first # out'[i].first /\ out'[j].last # out'[i].first
  <2> TAKE j \in DOMAIN out'
  <2> HAVE j # i
  <2>1. Apart(out'[i], out'[j])
    BY <1>9
  <2> QED
    BY <1>7, <1>8, <2>1 DEF Apart
<1>11. \A c \in ToSet(lowcore') : c # out'[i].first
  <2> TAKE c \in ToSet(lowcore')
  <2>1. c < out'[i].first \/ out'[i].last < c
    BY <1>9
  <2>2. out'[i].last > out'[i].first /\ out'[i].last \in Int /\ out'[i].first \in Int
    BY <1>7, <1>8
  <2> QED
    BY <2>1, <2>2
<1>12. \A k \in DOMAIN possible' : possible'[k].core # out'[i].first
  <2> TAKE k \in DOMAIN possible'
  <2>1. /\ Offers \in Seq(Lent) /\ DOMAIN Offers = 1 .. Len(out)
        /\ (\A m, l \in DOMAIN Offers : Offers[m].index = Offers[l].index => m = l)
        /\ \A m \in 1 .. Len(out) : Offers[m].core = Refitted[m].last
    BY <1>1, <1>2, <1>5, OffersAreLent
  <2>2. PICK j \in DOMAIN Offers : possible'[k] = Offers[j]
    BY <1>5, <2>1, OffersSorted
  <2>3. j \in DOMAIN out' /\ possible'[k].core = out'[j].last
    BY <1>5, <1>6, <2>1, <2>2
  <2> QED
    BY <1>7, <1>8, <1>10, <2>3
<1> QED
  BY <1>10, <1>11, <1>12

\* A low task on one core more leaves the clusters their first cores.
LEMMA PutFirst ==
  ASSUME TaskInv, TypeInv, PhaseInv, StatInv, FirstGuard, phase = "low", low # <<>>,
         NEW core \in Cores, NEW o, Shortened(o), Put(core, Head(low), o),
         tasks' = tasks, option' = option, moved' = moved, fit' = fit, phase' = phase,
         core \in ToSet(lowcore) \/ \E k \in DOMAIN possible : possible[k].core = core,
         \A c \in ToSet(lowcore') : c \in ToSet(lowcore) \/ c = core,
         \A k \in DOMAIN possible' : \E l \in DOMAIN possible : possible'[k] = possible[l]
  PROVE  FirstGuard'
<1>1. LowPhase
  BY DEF PhaseInv
<1>2. /\ (\A id : IsHigh(id)' = IsHigh(id)) /\ Parallel' = Parallel
  BY SameGuards DEF Parallel
<1> DEFINE N == Len(out)
<1>3. /\ ~ IsHigh(out'[N + 1].id) /\ DOMAIN out' = 1 .. N + 1 /\ DOMAIN out = 1 .. N /\ N \in Nat
      /\ out'[N + 1].first = core
      /\ \A i \in 1 .. N : out'[i].id = out[i].id /\ out'[i].first = out[i].first
  <2>1. /\ ~ IsHigh(Head(low)) /\ DOMAIN out' = 1 .. Len(out) + 1
        /\ DOMAIN out = 1 .. Len(out) /\ Len(out) \in Nat /\ (\A i \in 1 .. Len(out) : out'[i] = o[i])
        /\ out'[Len(out) + 1].id = Head(low) /\ out'[Len(out) + 1].first = core
    BY <1>1, PutIsRight
  <2> QED
    BY <2>1 DEF Shortened
<1> HIDE DEF N
<1> SUFFICES ASSUME Parallel, fit = "refit", NEW i \in DOMAIN out', IsHigh(out'[i].id)
             PROVE  /\ \A j \in DOMAIN out' : j # i => out'[j].first # out'[i].first
                    /\ \A c \in ToSet(lowcore') : c # out'[i].first
                    /\ \A k \in DOMAIN possible' : possible'[k].core # out'[i].first
  BY <1>2 DEF FirstGuard, ToSet
<1>4. i \in 1 .. N
  BY <1>3
<1>5. /\ \A j \in 1 .. N : j # i => out[j].first # out[i].first
      /\ \A c \in ToSet(lowcore) : c # out[i].first
      /\ \A k \in DOMAIN possible : possible[k].core # out[i].first
  BY <1>3, <1>4 DEF FirstGuard
<1>6. core # out'[i].first
  BY <1>3, <1>4, <1>5
<1>7. \A j \in DOMAIN out' : j # i => out'[j].first # out'[i].first
  BY <1>3, <1>4, <1>5, <1>6
<1> QED
  BY <1>3, <1>4, <1>5, <1>6, <1>7

\* Every step of cluster_partition keeps the order of the low tasks and the first cores.
LEMMA RanksStay ==
  ASSUME TaskInv, ClusterInv, HighMeets, LowGuard, RankGuard, FirstGuard, PartitionStep
  PROVE  RankGuard' /\ FirstGuard'
<1>1. /\ TypeInv /\ PhaseInv /\ StatInv
      /\ HighClusters /\ LendInv /\ OwnInv /\ LowInv /\ FloorInv
  BY DEF ClusterInv
<1>2. CASE PlaceHigh \/ BalanceFails \/ Move
  <2>1. phase' \notin {"low", "done"}
    BY <1>2 DEF PlaceHigh, NextIsHigh, BalanceFails, Move
  <2> QED
    BY <2>1 DEF RankGuard, FirstGuard
<1>3. CASE NoCoreForHigh \/ NoLowCore \/ NoCoreForLow
  <2>1. sched' = 2 /\ phase' = "done" /\ out' = <<>>
    BY <1>3 DEF NoCoreForHigh, NoLowCore, NoCoreForLow, NoPartition
  <2>2. Ranking(out)'
    BY <2>1 DEF Ranking, RateOn
  <2> QED
    BY <2>1, <2>2 DEF RankGuard, FirstGuard
<1>4. CASE AllHigh
  <2>1. sched' = 0 /\ phase' = "done"
    BY <1>4 DEF AllHigh
  <2>2. Ranking(out)'
    BY <1>1, <1>4, AllHighGuard
  <2> QED
    BY <2>1, <2>2 DEF RankGuard, FirstGuard
<1>5. CASE StartLow
  <2>1. sched' = sched /\ phase' = "low" /\ phase = "high"
    BY <1>5 DEF StartLow, LowIsNext
  <2>2. sched = 0
    BY <1>1, <2>1 DEF PhaseInv, HighPhase
  <2>3. LowGuard' /\ HighMeets'
    BY <1>1, <1>5, StartLowGuard
  <2>4. RateOn(out)' /\ Waiting'
    BY <2>1, <2>2, <2>3 DEF LowGuard
  <2>5. TypeInv' /\ OwnInv'
    BY <1>1, <1>5, StartLowStep
  <2>6. FirstGuard'
    BY <1>1, <1>5, <2>3, <2>5, FirstStarts
  <2> QED
    BY <2>1, <2>4, <2>6 DEF RankGuard
<1>6. ASSUME NEW core, NEW o, phase = "low", low # <<>>, core \in Cores, Shortened(o), Put(core, Head(low), o),
             tasks' = tasks, option' = option, moved' = moved, fit' = fit, phase' = phase,
             core \in ToSet(lowcore) \/ \E k \in DOMAIN possible : possible[k].core = core,
             \A c \in ToSet(lowcore') : c \in ToSet(lowcore) \/ c = core,
             \A k \in DOMAIN possible' : \E l \in DOMAIN possible : possible'[k] = possible[l]
      PROVE  RankGuard' /\ FirstGuard'
  <2>1. RateOn(out) /\ Waiting
    BY <1>6 DEF RankGuard
  <2>2. RateOn(out)' /\ Waiting'
    BY <1>1, <1>6, <2>1, PutRanks
  <2>3. FirstGuard'
    BY <1>1, <1>6, PutFirst
  <2> QED
    BY <1>6, <2>2, <2>3 DEF RankGuard
<1>7. CASE FirstAdmitting \/ WorstFit \/ LeastUtil
  <2>1. \E i \in DOMAIN lowcore : PutOn(i)
    BY <1>1, <1>7, FirstAdmittingRoom, WorstFitRoom, LeastUtilPuts
  <2>2. PICK i \in DOMAIN lowcore : PutOn(i)
    BY <2>1
  <2>3. lowcore[i] \in Cores /\ lowcore[i] \in ToSet(lowcore)
    BY <1>1, SeqIsFunction, InToSet DEF TypeInv
  <2>4. Shortened(out)
    BY <1>1 DEF Shortened, TypeInv
  <2>5. /\ phase = "low" /\ low # <<>> /\ Put(lowcore[i], Head(low), out)
        /\ tasks' = tasks /\ option' = option /\ moved' = moved /\ fit' = fit /\ phase' = phase
        /\ lowcore' = lowcore /\ possible' = possible
    BY <2>2 DEF PutOn
  <2> QED
    BY <1>6, <2>3, <2>4, <2>5
<1>8. CASE TakeCore
  <2> DEFINE core == Head(possible).core
  <2>1. /\ phase = "low" /\ low # <<>> /\ possible # <<>>
        /\ tasks' = tasks /\ option' = option /\ moved' = moved /\ fit' = fit /\ phase' = phase
        /\ lowcore' = Append(lowcore, core) /\ possible' = Tail(possible)
    BY <1>8 DEF TakeCore, NoneFits, input
  <2>2. core \in Cores /\ \E o : Shortened(o) /\ Put(core, Head(low), o)
    BY <1>1, <1>8, TakeCoreStep
  <2>3. PICK o : Shortened(o) /\ Put(core, Head(low), o)
    BY <2>2
  <2>4. /\ Len(possible) \in Nat \ {0} /\ DOMAIN possible = 1 .. Len(possible) /\ Head(possible) = possible[1]
        /\ DOMAIN possible' = 1 .. Len(possible) - 1
        /\ \A k \in 1 .. Len(possible) - 1 : possible'[k] = possible[k + 1]
    <3>1. possible \in Seq(Lent)
      BY <1>1 DEF TypeInv
    <3> QED
      BY <2>1, <3>1, TailSeq
  <2>5. /\ 1 \in DOMAIN possible /\ possible[1].core = core
        /\ \A k \in DOMAIN possible' : k + 1 \in DOMAIN possible /\ possible'[k] = possible[k + 1]
    BY <2>4
  <2>6. \A c \in ToSet(lowcore') : c \in ToSet(lowcore) \/ c = core
    <3>1. lowcore \in Seq(Cores)
      BY <1>1 DEF TypeInv
    <3>2. /\ DOMAIN lowcore' = 1 .. Len(lowcore) + 1 /\ DOMAIN lowcore = 1 .. Len(lowcore) /\ Len(lowcore) \in Nat
          /\ (\A i \in 1 .. Len(lowcore) : lowcore'[i] = lowcore[i]) /\ lowcore'[Len(lowcore) + 1] = core
      BY <2>1, <2>2, <3>1, AppendSeq
    <3> HIDE DEF core
    <3> QED
      BY <3>2, InToSet
  <2> HIDE DEF core
  <2> QED
    BY <1>6, <2>1, <2>2, <2>3, <2>5, <2>6
<1>9. CASE LowPlaced
  <2>1. /\ phase = "low" /\ phase' \in {"balance", "done"} /\ sched' = sched /\ fit' = fit
        /\ out' = out /\ tasks' = tasks /\ option' = option
    BY <1>9 DEF LowPlaced, input, highs
  <2>2. (\A id : IsHigh(id)' = IsHigh(id)) /\ Parallel' = Parallel /\ \A o : RateOn(o)' = RateOn(o)
    BY <2>1, SameGuards DEF Parallel
  <2>3. Ranking(out)'
    BY <1>1, <2>1, <2>2 DEF Ranking, RankGuard, LowInv
  <2>4. FirstGuard'
    BY <2>1, <2>2 DEF FirstGuard
  <2> QED
    BY <2>1, <2>3, <2>4 DEF RankGuard
<1>10. CASE Balanced
  <2>1. phase = "balance" /\ phase' = "done" /\ sched' = sched
    BY <1>10 DEF Balanced
  <2>2. sched = 0
    BY <1>1, <2>1 DEF PhaseInv, BalancePhase
  <2>3. Ranking(out)'
    BY <1>1, <1>10, BalancedGuard
  <2> QED
    BY <2>1, <2>2, <2>3 DEF RankGuard, FirstGuard
<1> QED
  BY <1>2, <1>3, <1>4, <1>5, <1>7, <1>8, <1>9, <1>10 DEF PartitionStep

-------------------------------------------------------------------------------
(* What the partition leaves on each core. *)

\* A task that has time for its work needs no more than a core.
LEMMA TimeIsEnough ==
  ASSUME TaskInv, NEW A \in SUBSET Ids, NEW a \in A, Feasible(A, a)
  PROVE  tasks[a].util <= Hyper
<1> DEFINE p == tasks[a].period
           w == tasks[a].work
           u == tasks[a].util
<1>1. a \in Ids /\ p \in Nat \ {0} /\ w \in Nat /\ u \in Nat /\ Hyper \in Nat \ {0} /\ u * p = w * Hyper
  BY TaskTypes, Constants DEF TaskInv, Regular
<1>2. PICK len \in 1 .. p : Demand(A, len) <= len
  BY DEF Feasible
<1> HIDE DEF p, w, u
<1>3. len \in Nat \ {0} /\ len <= p
  BY <1>1, <1>2
<1> DEFINE f == [id \in Ids |-> Due(id, len)]
<1>4. Demand(A, len) = SumFunctionOnSet(f, A) /\ Demand(A, len) \in Nat /\ IsFiniteSet(A)
  BY <1>3, DemandIsSum
<1>5. Due(a, len) \in Nat /\ f[a] = Due(a, len) /\ \A x \in A : f[x] \in Nat
  BY <1>1, <1>3, DueBounds
<1> HIDE DEF f
<1>6. f[a] <= SumFunctionOnSet(f, A)
  BY <1>4, <1>5, SumTerm
<1>7. Due(a, len) >= w
  <2> DEFINE c == CeilDiv(len, p)
  <2>1. c \in Nat /\ c >= 1
    BY <1>1, <1>3, CeilDivBounds
  <2>2. Due(a, len) = c * w
    BY DEF Due, p, w
  <2> HIDE DEF c
  <2>3. 1 * w <= c * w
    BY <1>1, <2>1, TimesGrows
  <2> QED
    BY <1>1, <2>2, <2>3
<1>8. w <= p
  BY <1>1, <1>2, <1>3, <1>4, <1>5, <1>6, <1>7
<1>9. ASSUME u > Hyper PROVE FALSE
  <2>1. p * u > p * Hyper
    BY <1>1, <1>9
  <2>2. Hyper * w <= Hyper * p
    BY <1>1, <1>8, TimesGrows
  <2> QED
    BY <1>1, <2>1, <2>2
<1> QED
  BY <1>1, <1>9 DEF u

\* What holds when a call is done.
Finished == phase = "done" /\ TaskInv /\ ClusterInv /\ RankGuard /\ FirstGuard /\ DoneGuard

\* The entries of a partition that is returned.
LEMMA Entries ==
  ASSUME Finished, out # <<>>
  PROVE  /\ IsList(out) /\ sched \in {0, 1} /\ Ranking(out)
         /\ \A i \in DOMAIN out : /\ out[i].id \in Ids /\ out[i].first \in Cores /\ out[i].first \in Int
                                  /\ out[i].last \in Int /\ Size(out[i]) \in Int
<1>1. TypeInv /\ PhaseInv /\ Ranking(out)
  BY DEF Finished, ClusterInv, RankGuard
<1>2. sched \in {0, 1} /\ DistinctIds(out)
  BY <1>1 DEF Finished, PhaseInv, DonePhase, TypeInv, Whole
<1>3. out \in Seq(Entry) /\ (\A i \in DOMAIN out : out[i].id \in Ids) /\ Len(out) \in Nat /\ DOMAIN out = 1 .. Len(out)
  BY <1>1, SeqIsFunction DEF TypeInv
<1>4. \A i \in DOMAIN out : out[i] \in Entry
  BY <1>3, SeqIsFunction
<1>5. \A i \in DOMAIN out : out[i].prio \in Int /\ out[i].first \in Cores /\ out[i].first \in Int /\ out[i].last \in Int
  BY <1>4, Constants DEF Entry, Cores
<1> QED
  BY <1>1, <1>2, <1>3, <1>5 DEF IsList, Size

\* The guarantee is one for harmonic periods.
LEMMA HarmonicIsSound == ASSUME Parallel, Harmonic(Ids) PROVE Sound
  BY DEF Sound, SoundPeriods, Harmonic, Ids

\* A high task is alone where it starts.
LEMMA FirstsDiffer ==
  ASSUME Finished, Sound, NEW i \in DOMAIN out, IsHigh(out[i].id), NEW j \in DOMAIN out, j # i
  PROVE  out[j].first # out[i].first
<1>1. out # <<>>
  OBVIOUS
<1>2. /\ sched \in {0, 1} /\ Ranking(out)
      /\ \A k \in DOMAIN out : out[k].first \in Int /\ out[k].last \in Int
  BY <1>1, Entries
<1>3. OwnInv /\ FloorInv /\ fit \in {"none", "refit"}
  BY DEF Finished, ClusterInv, TypeInv
<1>4. CASE fit = "refit" /\ sched = 1
  BY <1>4 DEF FirstGuard, Finished, Sound
<1>5. CASE fit = "none" \/ sched = 0
  <2>1. Apart(out[i], out[j])
    BY <1>3, <1>5 DEF OwnInv
  <2>2. \A k \in DOMAIN out : Size(out[k]) >= 1
    <3>1. CASE fit = "none"
      <4>1. \A k \in DOMAIN out : IsHigh(out[k].id) => Size(out[k]) >= 2 /\ Size(out[k]) \in Int
        BY <1>2, <1>3, <3>1 DEF FloorInv, Floor, Sound, Size
      <4>2. \A k \in DOMAIN out : ~ IsHigh(out[k].id) => Size(out[k]) = 1
        BY <1>2 DEF Ranking, Size
      <4> QED
        BY <4>1, <4>2
    <3>2. CASE sched = 0
      <4>1. \A k \in DOMAIN out : MeetsDeadline(out, out[k])
        BY <3>2 DEF DoneGuard, Finished, AllMeetDeadlines
      <4>2. \A k \in DOMAIN out : Size(out[k]) \in Int
        BY <1>2 DEF Size
      <4> QED
        BY <4>1, <4>2 DEF MeetsDeadline
    <3> QED
      BY <1>5, <3>1, <3>2
  <2>3. out[i].last >= out[i].first /\ out[j].last >= out[j].first
    BY <1>2, <2>2 DEF Size
  <2> QED
    BY <1>2, <2>1, <2>3 DEF Apart
<1> QED
  BY <1>2, <1>3, <1>4, <1>5

\* A core has one task, or several low ones, whose run is the simulation of the core.
LEMMA OnOneCore ==
  ASSUME Finished, Sound, Harmonic(Ids), Segmented, out # <<>>, NEW core, NEW D, D = At(out, core)
  PROVE  \/ D = {} /\ OnCore(out, core) = <<>> /\ ~ Alone(out, core)
         \/ \E i \in D : D = {i} /\ Alone(out, core) /\ OnCore(out, core) # <<>> /\ OnCore(out, core)[1] = out[i]
         \/ /\ ~ Alone(out, core) /\ OnCore(out, core) # <<>>
            /\ \A i \in D : Size(out[i]) = 1
            /\ SingleSimu(OnCore(out, core)) = IF \A i \in D : HasTime(out, out[i]) THEN 0 ELSE 1
<1> DEFINE on == OnCore(out, core)
           n == Len(on)
<1>1. /\ IsList(out) /\ Ranking(out)
      /\ \A i \in DOMAIN out : out[i].first \in Int
  BY Entries
<1>2. TaskInv
  BY DEF Finished
<1>3. /\ n \in Nat /\ DOMAIN on = 1 .. n /\ n = Cardinality(D)
      /\ \A k \in 1 .. n : \E i \in D : on[k] = out[i]
      /\ \A i \in D : \E k \in 1 .. n : on[k] = out[i]
      /\ \A k, l \in 1 .. n : on[k].id = on[l].id => k = l
      /\ n = 0 <=> D = {}
  BY <1>1, CoreList
<1>4. Alone(out, core) <=> n = 1
  BY DEF Alone
<1>5. \A i \in D : i \in DOMAIN out /\ out[i].first = core
  BY DEF At
<1>6. n = 0 <=> on = <<>>
  <2>1. ASSUME n = 0 PROVE on = <<>>
    <3>1. on = [k \in 1 .. n |-> on[k]]
      <4>1. on = [k \in DOMAIN on |-> on[k]]
        BY DEF OnCore
      <4> HIDE DEF on
      <4> QED
        BY <1>3, <4>1
    <3> HIDE DEF on
    <3> QED
      BY <1>3, <2>1, <3>1
  <2> HIDE DEF on
  <2> QED
    BY <2>1
<1> HIDE DEF on
<1>7. CASE n = 0
  BY <1>3, <1>4, <1>6, <1>7 DEF on
<1>8. CASE n = 1
  <2>1. PICK i \in D : on[1] = out[i]
    BY <1>3, <1>8
  <2>2. \A j \in D : j = i
    <3> TAKE j \in D
    <3>1. PICK k \in 1 .. n : on[k] = out[j]
      BY <1>3
    <3>2. k = 1
      BY <1>8, <3>1
    <3> QED
      BY <1>1, <1>5, <2>1, <3>1, <3>2 DEF IsList, DistinctIds
  <2>3. D = {i}
    BY <2>2
  <2> QED
    BY <1>4, <1>6, <1>8, <2>1, <2>3 DEF on
<1>9. CASE n > 1
  <2>1. \A i \in D : ~ IsHigh(out[i].id)
    <3> SUFFICES ASSUME NEW i \in D, IsHigh(out[i].id) PROVE FALSE
      OBVIOUS
    <3>1. PICK k \in 1 .. n : on[k] = out[i]
      BY <1>3
    <3>2. PICK l \in 1 .. n : l # k
      BY <1>3, <1>9
    <3>3. PICK j \in D : on[l] = out[j]
      BY <1>3
    <3>4. j # i
      BY <1>3, <3>1, <3>2, <3>3
    <3> QED
      BY <1>5, <3>4, FirstsDiffer
  <2>2. \A i \in D : Size(out[i]) = 1
    BY <1>1, <1>5, <2>1 DEF Ranking, Size
  <2>3. \A i, j \in D : out[i].prio >= out[j].prio => tasks[out[i].id].period <= tasks[out[j].id].period
    BY <1>1, <1>5, <2>1 DEF Ranking, RateOn
  <2>4. D # {} /\ n # 0 /\ n # 1
    BY <1>3, <1>9
  <2>6. \A id \in Ids : tasks[id].work > 0
    BY DEF Segmented, Ids
  <2>5. SingleSimu(on) = IF \A i \in D : HasTime(out, out[i]) THEN 0 ELSE 1
    BY <1>1, <1>2, <2>3, <2>4, <2>6, CoreAgrees DEF on
  <2> QED
    BY <1>4, <1>6, <2>2, <2>4, <2>5 DEF on
<1> QED
  BY <1>3, <1>7, <1>8, <1>9

-------------------------------------------------------------------------------
(* The simulation of a partition. *)

\* Whether a core fails, case by case.
LEMMA FailsOnCore ==
  ASSUME NEW core
  PROVE  /\ OnCore(out, core) = <<>> => ~ CoreFails(out, core)
         /\ \A e : OnCore(out, core) # <<>> /\ Alone(out, core) /\ OnCore(out, core)[1] = e
                     /\ e.first \in Int /\ e.last \in Int =>
              /\ e.first = e.last => ~ CoreFails(out, core)
              /\ e.first < e.last =>
                   (CoreFails(out, core) <=> ExeTime(tasks[e.id], Size(e)) > tasks[e.id].period)
         /\ OnCore(out, core) # <<>> /\ ~ Alone(out, core) =>
              (CoreFails(out, core) <=> SingleSimu(OnCore(out, core)) = 1)
<1> DEFINE on == OnCore(out, core)
<1>1. CoreFails(out, core) =
        CASE on = <<>> -> FALSE
          [] Alone(out, core) /\ on[1].first = on[1].last -> FALSE
          [] IsCluster(out, core) -> Overruns(out, core)
          [] OTHER -> SingleSimu(on) = 1
  BY DEF CoreFails
<1>2. IsCluster(out, core) <=> Alone(out, core) /\ on[1].first < on[1].last
  BY DEF IsCluster
<1>3. Overruns(out, core) <=> ExeTime(tasks[on[1].id], Size(on[1])) > tasks[on[1].id].period
  BY DEF Overruns
<1>4. Alone(out, core) <=> Len(on) = 1
  BY DEF Alone
<1> HIDE DEF on
<1>5. on = <<>> => ~ Alone(out, core)
  BY <1>4
<1>6. on = <<>> => ~ CoreFails(out, core)
  BY <1>1, <1>2, <1>5
<1>7. ASSUME NEW e, on # <<>>, Alone(out, core), on[1] = e, e.first \in Int, e.last \in Int
      PROVE  /\ e.first = e.last => ~ CoreFails(out, core)
             /\ e.first < e.last =>
                  (CoreFails(out, core) <=> ExeTime(tasks[e.id], Size(e)) > tasks[e.id].period)
  <2>1. ASSUME e.first = e.last PROVE ~ CoreFails(out, core)
    BY <1>1, <1>2, <1>7, <2>1
  <2>2. ASSUME e.first < e.last
        PROVE  CoreFails(out, core) <=> ExeTime(tasks[e.id], Size(e)) > tasks[e.id].period
    <3>1. e.first # e.last
      BY <1>7, <2>2
    <3>2. CoreFails(out, core) <=> Overruns(out, core)
      BY <1>1, <1>2, <1>7, <2>2, <3>1
    <3> QED
      BY <1>3, <1>7, <3>2
  <2> QED
    BY <2>1, <2>2
<1>8. on # <<>> /\ ~ Alone(out, core) => (CoreFails(out, core) <=> SingleSimu(on) = 1)
  BY <1>1, <1>2
<1> QED
  BY <1>6, <1>7, <1>8 DEF on

\* What meets its deadlines passes.
LEMMA SimulationPasses ==
  ASSUME Finished, Sound, Harmonic(Ids), Segmented, out # <<>>, AllMeetDeadlines(out)
  PROVE  Simulation(out) = 0
<1> SUFFICES ASSUME NEW core \in Cores PROVE ~ CoreFails(out, core)
  BY DEF Simulation
<1> DEFINE D == At(out, core)
<1>1. /\ TaskInv
      /\ \A i \in DOMAIN out : out[i].id \in Ids /\ out[i].first \in Int /\ out[i].last \in Int /\ Size(out[i]) \in Int
  BY Entries DEF Finished
<1>2. \A i \in D : i \in DOMAIN out
  BY DEF At
<1>3. \/ D = {} /\ OnCore(out, core) = <<>> /\ ~ Alone(out, core)
      \/ \E i \in D : D = {i} /\ Alone(out, core) /\ OnCore(out, core) # <<>> /\ OnCore(out, core)[1] = out[i]
      \/ /\ ~ Alone(out, core) /\ OnCore(out, core) # <<>>
         /\ \A i \in D : Size(out[i]) = 1
         /\ SingleSimu(OnCore(out, core)) = IF \A i \in D : HasTime(out, out[i]) THEN 0 ELSE 1
  BY OnOneCore
<1> HIDE DEF D
<1>4. CASE OnCore(out, core) = <<>>
  BY <1>4, FailsOnCore
<1>5. ASSUME NEW i \in D, Alone(out, core), OnCore(out, core) # <<>>, OnCore(out, core)[1] = out[i]
      PROVE  ~ CoreFails(out, core)
  <2> DEFINE e == out[i]
             t == tasks[e.id]
             n == Size(e)
  <2>1. e.id \in Ids /\ e.first \in Int /\ e.last \in Int /\ n \in Int /\ n = e.last - e.first + 1
    BY <1>1, <1>2 DEF Size
  <2>2. n = 1 \/ (n > 1 /\ t.work - t.span <= n * (t.period - t.span))
    <3>1. MeetsDeadline(out, out[i])
      BY <1>2 DEF AllMeetDeadlines
    <3> QED
      BY <3>1 DEF MeetsDeadline
  <2>3. CASE n = 1
    <3>1. e.first = e.last
      BY <2>1, <2>3
    <3> QED
      BY <1>5, <2>1, <3>1, FailsOnCore
  <2>4. CASE n > 1 /\ t.work - t.span <= n * (t.period - t.span)
    <3>1. e.first < e.last /\ n \in Nat \ {0}
      BY <2>1, <2>4
    <3>2. ~ (ExeTime(tasks[e.id], n) > tasks[e.id].period)
      BY <1>1, <2>1, <2>4, <3>1, ExeTimeFits
    <3> QED
      BY <1>5, <2>1, <3>1, <3>2, FailsOnCore
  <2> QED
    BY <2>2, <2>3, <2>4
<1>6. ASSUME ~ Alone(out, core), OnCore(out, core) # <<>>, \A i \in D : Size(out[i]) = 1,
             SingleSimu(OnCore(out, core)) = IF \A i \in D : HasTime(out, out[i]) THEN 0 ELSE 1
      PROVE  ~ CoreFails(out, core)
  <2>1. \A i \in D : HasTime(out, out[i])
    BY <1>2, <1>6 DEF AllMeetDeadlines, MeetsDeadline, HasTime
  <2>2. SingleSimu(OnCore(out, core)) = 0
    BY <1>6, <2>1
  <2> QED
    BY <1>6, <2>2, FailsOnCore
<1> QED
  BY <1>3, <1>4, <1>5, <1>6

\* The tasks of a verdict that a cluster has not been cut for.
LEMMA LowOrMeets ==
  ASSUME Finished, Sound, out # <<>>, NoClusterCut
  PROVE  \/ AllMeetDeadlines(out)
         \/ \A i \in DOMAIN out : Size(out[i]) = 1 => ~ IsHigh(out[i].id)
<1>1. CASE sched = 0
  BY <1>1 DEF Finished, DoneGuard
<1>2. CASE fit = "none"
  <2>1. FloorInv /\ Parallel
    BY DEF Finished, ClusterInv, Sound
  <2> QED
    BY <1>2, <2>1 DEF FloorInv, Floor
<1> QED
  BY <1>1, <1>2 DEF NoClusterCut

\* What passes meets its deadlines, as far as it is on a single core.
LEMMA SimulationMeets ==
  ASSUME Finished, Sound, Harmonic(Ids), Segmented, out # <<>>, NoClusterCut, Simulation(out) = 0,
         NEW i \in DOMAIN out, Size(out[i]) = 1
  PROVE  MeetsDeadline(out, out[i])
<1> DEFINE e == out[i]
           core == e.first
           D == At(out, core)
           H == Ahead(out, e)
<1>1. /\ TaskInv
      /\ e.id \in Ids /\ core \in Cores /\ e.first \in Int /\ e.last \in Int
  BY Entries DEF Finished
<1>2. i \in D /\ \A j \in D : j \in DOMAIN out
  BY DEF At
<1>3. ~ CoreFails(out, core)
  BY <1>1 DEF Simulation
<1>4. MeetsDeadline(out, e) <=> HasTime(out, e)
  BY DEF MeetsDeadline, HasTime
<1>5. CASE AllMeetDeadlines(out)
  BY <1>5 DEF AllMeetDeadlines
<1>6. CASE ~ IsHigh(e.id)
  <2>1. \/ D = {} /\ OnCore(out, core) = <<>> /\ ~ Alone(out, core)
        \/ \E j \in D : D = {j} /\ Alone(out, core) /\ OnCore(out, core) # <<>> /\ OnCore(out, core)[1] = out[j]
        \/ /\ ~ Alone(out, core) /\ OnCore(out, core) # <<>>
           /\ \A j \in D : Size(out[j]) = 1
           /\ SingleSimu(OnCore(out, core)) = IF \A j \in D : HasTime(out, out[j]) THEN 0 ELSE 1
    BY OnOneCore
  <2>2. CASE D = {i}
    <3>1. H \in SUBSET {e.id}
      <4> SUFFICES ASSUME NEW k \in DOMAIN out, out[k].first = core PROVE out[k].id = e.id
        BY DEF Ahead
      <4>1. k \in D
        BY DEF At
      <4> QED
        BY <2>2, <4>1
    <3>2. tasks[e.id].util <= Hyper
      <4>1. tasks[e.id].util < Hyper /\ tasks[e.id].util \in Nat /\ Hyper \in Nat
        BY <1>1, <1>6, LowIsSmall
      <4> QED
        BY <4>1
    <3>3. CoreFeasible({e.id})
      BY <1>1, <3>2, OneIsFeasible
    <3> HIDE DEF H
    <3>4. Feasible({y \in {e.id} : tasks[y].period <= tasks[e.id].period}, e.id)
      BY <3>3 DEF CoreFeasible
    <3>5. tasks[e.id].period \in Nat
      BY <1>1, TaskTypes
    <3>6. {y \in {e.id} : tasks[y].period <= tasks[e.id].period} = {e.id}
      BY <3>5
    <3>7. {e.id} \in SUBSET Ids
      BY <1>1
    <3>8. Feasible(H, e.id)
      BY <1>1, <3>1, <3>4, <3>6, <3>7, FeasibleWithLess
    <3>9. HasTime(out, e)
      BY <3>8 DEF Feasible, HasTime, H
    <3> QED
      BY <1>4, <3>9
  <2>3. CASE ~ Alone(out, core) /\ OnCore(out, core) # <<>>
             /\ SingleSimu(OnCore(out, core)) = IF \A j \in D : HasTime(out, out[j]) THEN 0 ELSE 1
    <3>1. SingleSimu(OnCore(out, core)) # 1
      BY <1>3, <2>3, FailsOnCore
    <3>2. \A j \in D : HasTime(out, out[j])
      BY <2>3, <3>1
    <3> QED
      BY <1>2, <1>4, <3>2
  <2> HIDE DEF D
  <2>4. \A j \in D : D = {j} => j = i
    BY <1>2
  <2> QED
    BY <1>2, <2>1, <2>2, <2>3, <2>4
<1> QED
  BY <1>5, <1>6, LowOrMeets

\* The cases that the simulation prints as impossible do not happen.
LEMMA NothingImpossible ==
  ASSUME Finished, Sound, Harmonic(Ids), Segmented, out # <<>>, NoClusterCut, NEW core
  PROVE  ~ Impossible(out, core)
<1> SUFFICES ASSUME Impossible(out, core) PROVE FALSE
  OBVIOUS
<1> DEFINE on == OnCore(out, core)
           D == At(out, core)
<1>1. /\ Alone(out, core)
      /\ \/ on[1].first = on[1].last /\ tasks[on[1].id].util > Hyper
         \/ /\ on[1].first < on[1].last
            /\ ExeTime(tasks[on[1].id], Size(on[1])) > tasks[on[1].id].period
            /\ CeilDiv(tasks[on[1].id].work - tasks[on[1].id].span, tasks[on[1].id].period - tasks[on[1].id].span)
                 <= Size(on[1])
  BY DEF Impossible, IsCluster, Overruns
<1>2. PICK i \in D : on[1] = out[i]
  BY <1>1, OnOneCore
<1> DEFINE e == out[i]
           t == tasks[e.id]
           n == Size(e)
<1>3. /\ TaskInv /\ i \in DOMAIN out /\ e.id \in Ids
      /\ e.first \in Int /\ e.last \in Int /\ n \in Int /\ n = e.last - e.first + 1
  BY <1>2, Entries DEF Finished, At, Size
<1>4. /\ t.period \in Nat /\ t.work \in Nat /\ t.span \in Nat /\ t.util \in Nat
      /\ t.span <= t.work /\ t.span < t.period /\ Hyper \in Nat
  BY <1>3, TaskTypes, Constants DEF Finished, Called
<1> HIDE DEF on
<1>5. CASE e.first = e.last /\ t.util > Hyper
  <2>1. n = 1
    BY <1>3, <1>5
  <2>2. CASE MeetsDeadline(out, e)
    <3> DEFINE A == Ahead(out, e)
    <3>1. Feasible(A, e.id)
      BY <2>1, <2>2 DEF MeetsDeadline, Feasible
    <3>2. A \in SUBSET Ids
      BY Entries DEF Ahead
    <3>3. e.id \in A
      <4>1. e.prio \in Int
        BY <1>3, Entries DEF IsList
      <4> QED
        BY <1>3, <4>1 DEF Ahead
    <3> HIDE DEF A
    <3>4. t.util <= Hyper
      BY <1>3, <3>1, <3>2, <3>3, TimeIsEnough
    <3> QED
      BY <1>4, <1>5, <3>4
  <2>3. CASE ~ IsHigh(e.id)
    <3>1. t.util < Hyper
      BY <1>3, <2>3, LowIsSmall
    <3> QED
      BY <1>4, <1>5, <3>1
  <2> QED
    BY <1>3, <2>1, <2>2, <2>3, LowOrMeets DEF AllMeetDeadlines
<1>6. CASE /\ e.first < e.last /\ ExeTime(t, n) > t.period
           /\ CeilDiv(t.work - t.span, t.period - t.span) <= n
  <2> DEFINE a == t.work - t.span
             b == t.period - t.span
             c == CeilDiv(a, b)
  <2>1. a \in Nat /\ b \in Nat \ {0} /\ n \in Nat \ {0}
    <3> HIDE DEF t, n
    <3>1. n > 1
      BY <1>3, <1>6
    <3>2. a \in Nat /\ b \in Nat \ {0}
      BY <1>4
    <3> QED
      BY <1>3, <3>1, <3>2
  <2> HIDE DEF a, b
  <2>2. c \in Nat /\ c * b >= a
    BY <2>1, CeilDivBounds
  <2>3. c <= n
    BY <1>6 DEF a, b
  <2> HIDE DEF c, n
  <2>4. b * c <= b * n
    BY <2>1, <2>2, <2>3, TimesGrows
  <2>5. a <= n * b
    BY <2>1, <2>2, <2>4
  <2>6. ~ (ExeTime(t, n) > t.period)
    BY <1>3, <2>1, <2>5, ExeTimeFits DEF a, b
  <2> QED
    BY <1>6, <2>6
<1> QED
  BY <1>1, <1>2, <1>5, <1>6

\* The simulation is right about what a call returns.
LEMMA SimulationHolds ==
  ASSUME TaskInv, ClusterInv, RankGuard, FirstGuard, DoneGuard
  PROVE  SimulationIsRight
<1> SUFFICES ASSUME phase = "done", Parallel, Harmonic(Ids), Segmented, out # <<>>
             PROVE  /\ AllMeetDeadlines(out) => Simulation(out) = 0
                    /\ NoClusterCut =>
                         /\ Simulation(out) = 0 =>
                              \A i \in DOMAIN out : Size(out[i]) = 1 => MeetsDeadline(out, out[i])
                         /\ \A core \in Cores : ~ Impossible(out, core)
  BY DEF SimulationIsRight, Ids
<1>1. Finished /\ Sound
  BY HarmonicIsSound DEF Finished
<1> QED
  BY <1>1, SimulationPasses, SimulationMeets, NothingImpossible

\* The simulation depends on the tasks and the partition alone.
LEMMA SameSimulation ==
  ASSUME tasks' = tasks
  PROVE  \A p : Simulation(p)' = Simulation(p)
<1>1. \A on : SingleSimu(on)' = SingleSimu(on)
  BY DEF SingleSimu, HyperOf, Releases, Serving, Released, IsReleased
<1>2. \A p, c : /\ OnCore(p, c)' = OnCore(p, c) /\ Alone(p, c)' = Alone(p, c)
                /\ IsCluster(p, c)' = IsCluster(p, c)
  BY DEF OnCore, Alone, IsCluster
<1>3. \A p, c : Overruns(p, c)' = Overruns(p, c)
  BY DEF Overruns, OnCore, Size, ExeTime
<1>4. \A p, c : CoreFails(p, c)' = CoreFails(p, c)
  BY <1>1, <1>2, <1>3 DEF CoreFails
<1> QED
  BY <1>4 DEF Simulation, Cores

-------------------------------------------------------------------------------
(* The task sets that are drawn. *)

\* A program that was drawn: its segments summed up, on a critical path of half a period at most.
Drawn(t) ==
  /\ t.period \in Periods /\ t = Summed(t.period, t.segs)
  /\ t.work > 0 /\ 2 * t.span <= t.period

\* The task set of utility_test is made of such programs, and is not empty.
DrawnInv ==
  program[1] # "cluster" =>
    /\ \A id \in Ids : Drawn(tasks[id])
    /\ \A i \in DOMAIN draft.segs : draft.segs[i].len > 0
    /\ gen \in {"grow", "judge"} => 2 * draft.exctime <= draft.period
    /\ gen = "judge" => draft.segs # <<>>
    /\ gen = "generated" => tasks # <<>>
    /\ phase # "idle" => gen = "generated"

\* A program with a segment has work to do.
LEMMA SomethingToDo ==
  ASSUME NEW segs \in Seq(Segment), segs # <<>>, \A i \in DOMAIN segs : segs[i].len > 0, NEW period
  PROVE  Summed(period, segs).work > 0
<1> DEFINE n == Len(segs)
           w == [i \in 1 .. n |-> segs[i].count * segs[i].len]
<1>1. n \in Nat /\ DOMAIN segs = 1 .. n /\ n # 0
  BY SeqIsFunction, EmptySeq
<1>2. \A i \in 1 .. n : segs[i].count \in Nat \ {0} /\ segs[i].len \in Nat \ {0}
  <2>1. \A i \in 1 .. n : segs[i] \in Segment /\ segs[i].len > 0
    BY <1>1, SeqIsFunction
  <2> QED
    BY <2>1 DEF Segment
<1>3. \A i \in 1 .. n : segs[i].count * segs[i].len \in Nat /\ segs[i].count * segs[i].len >= 1
  <2>1. \A a, b \in Nat \ {0} : a * b \in Nat /\ a * b >= 1
    OBVIOUS
  <2> QED
    BY <1>2, <2>1
<1>4. Summed(period, segs).work = SumFunctionOnSet(w, 1 .. n)
  <2>1. Summed(period, segs).work = SumFunction(w) /\ DOMAIN w = 1 .. n
    BY <1>1 DEF Summed
  <2> HIDE DEF w
  <2> QED
    BY <2>1 DEF SumFunction
<1>5. (\A i \in 1 .. n : w[i] \in Nat) /\ w[1] >= 1 /\ 1 \in 1 .. n /\ IsFiniteSet(1 .. n)
  BY <1>1, <1>3, FS_Interval
<1> HIDE DEF w, n
<1>6. w[1] <= SumFunctionOnSet(w, 1 .. n) /\ SumFunctionOnSet(w, 1 .. n) \in Nat /\ w[1] \in Nat
  BY <1>5, SumTerm, SumNat
<1> QED
  BY <1>4, <1>5, <1>6

\* A task set without a task has no utilisation.
LEMMA NoUtilisation == UtilOf(<<>>) = 0
<1> DEFINE f == [id \in DOMAIN <<>> |-> (<<>>)[id].util]
<1>1. DOMAIN f = {}
  OBVIOUS
<1>2. UtilOf(<<>>) = SumFunction(f)
  BY DEF UtilOf
<1> HIDE DEF f
<1> QED
  BY <1>1, <1>2, SumEmpty DEF SumFunction

\* Nothing is drawn yet.
LEMMA DrawnStarts == ClusterInit => DrawnInv
<1> SUFFICES ASSUME ClusterInit, program[1] # "cluster"
             PROVE  Ids = {} /\ DOMAIN draft.segs = {} /\ gen = "draw" /\ phase = "idle"
  BY DEF DrawnInv
<1>1. /\ tasks = <<>> /\ draft = NoDraft /\ gen = "draw" /\ phase = "idle"
  BY DEF ClusterInit, Idle, NothingGenerated
<1>2. draft.segs = <<>>
  BY <1>1 DEF NoDraft
<1> QED
  BY <1>1, <1>2 DEF Ids

\* While tasks and generation stay, no call is made without a task set.
LEMMA DrawnRests ==
  ASSUME DrawnInv, tasks' = tasks, program' = program, gvars' = gvars,
         program[1] # "cluster" /\ phase' # "idle" => phase # "idle" \/ gen = "generated"
  PROVE  DrawnInv'
<1>1. Ids' = Ids /\ gen' = gen /\ draft' = draft
  BY DEF Ids, gvars
<1>2. \A id : Drawn(tasks[id])' = Drawn(tasks[id])
  BY DEF Drawn
<1> QED
  BY <1>1, <1>2 DEF DrawnInv

\* A step of the generation draws a program, segment by segment, and adds it.
LEMMA DrawnGrows ==
  ASSUME TaskInv, DrawnInv, GenerateSet
  PROVE  DrawnInv'
<1>1. /\ phase = "idle" /\ phase' = "idle" /\ program' = program /\ program[1] # "cluster"
      /\ DrawPeriod \/ AddSegment \/ EndProgram \/ Complete \/ DrawAgain \/ AddProgram
  BY DEF GenerateSet, IsCaller, calls, GenerateStep
<1>2. (\A t : Drawn(t)' = Drawn(t)) /\ \A id \in Ids : Drawn(tasks[id])
  BY <1>1 DEF Drawn, DrawnInv
<1> SUFFICES /\ \A id \in Ids' : Drawn(tasks'[id])
             /\ \A i \in DOMAIN draft'.segs : draft'.segs[i].len > 0
             /\ gen' \in {"grow", "judge"} => 2 * draft'.exctime <= draft'.period
             /\ gen' = "judge" => draft'.segs # <<>>
             /\ gen' = "generated" => tasks' # <<>>
  BY <1>1, <1>2 DEF DrawnInv, Drawn
<1>3. tasks' = tasks => Ids' = Ids /\ \A id \in Ids' : Drawn(tasks'[id])
  BY <1>2 DEF Ids
<1>4. CASE DrawPeriod
  <2>1. PICK period \in Periods, part \in Parts :
          draft' = [period |-> period, exctime |-> period \div part, segs |-> <<>>]
    BY <1>4 DEF DrawPeriod
  <2>2. draft'.period = period /\ draft'.exctime = period \div part /\ draft'.segs = <<>>
    BY <2>1
  <2>3. period \in Nat /\ part \in Nat \ {0, 1}
    BY Constants
  <2>4. gen' = "grow" /\ tasks' = tasks
    BY <1>4 DEF DrawPeriod
  <2>5. \A i \in DOMAIN draft'.segs : FALSE
    BY <2>2
  <2>6. 2 * draft'.exctime <= draft'.period
    BY <2>2, <2>3, HalfAtMost
  <2> QED
    BY <1>3, <2>4, <2>5, <2>6
<1>5. CASE AddSegment
  <2>1. PICK len \in Lengths, count \in Counts :
          draft' = [draft EXCEPT !.segs = Append(@, [count |-> count, len |-> len])]
    BY <1>5 DEF AddSegment
  <2> DEFINE s == [count |-> count, len |-> len]
  <2>2. /\ gen = "grow" /\ gen' = "grow" /\ tasks' = tasks /\ draft.segs \in Seq(Segment)
        /\ DOMAIN draft = {"period", "exctime", "segs"}
    BY <1>5 DEF AddSegment, TaskInv
  <2>3. draft'.period = draft.period /\ draft'.exctime = draft.exctime /\ draft'.segs = Append(draft.segs, s)
    BY <2>1, <2>2
  <2>4. s \in Segment /\ s.len > 0
    BY Constants DEF Segment
  <2> HIDE DEF s
  <2>5. /\ DOMAIN draft'.segs = 1 .. Len(draft.segs) + 1 /\ DOMAIN draft.segs = 1 .. Len(draft.segs)
        /\ Len(draft.segs) \in Nat /\ draft'.segs[Len(draft.segs) + 1] = s
        /\ \A i \in 1 .. Len(draft.segs) : draft'.segs[i] = draft.segs[i]
    BY <2>2, <2>3, <2>4, AppendSeq
  <2>6. \A i \in DOMAIN draft'.segs : draft'.segs[i].len > 0
    <3> TAKE i \in DOMAIN draft'.segs
    <3>1. i \in 1 .. Len(draft.segs) \/ i = Len(draft.segs) + 1
      BY <2>5
    <3> QED
      BY <1>1, <2>4, <2>5, <3>1 DEF DrawnInv
  <2> QED
    BY <1>1, <1>3, <2>2, <2>3, <2>6 DEF DrawnInv
<1>6. CASE EndProgram
  BY <1>1, <1>3, <1>6 DEF EndProgram, DrawnInv
<1>7. draft' = NoDraft => \A i \in DOMAIN draft'.segs : FALSE
  BY DEF NoDraft
<1>8. CASE Complete \/ DrawAgain
  <2>1. gen' \in {"draw", "generated"} /\ draft' = NoDraft /\ tasks' = tasks
    BY <1>8 DEF Complete, DrawAgain
  <2>2. gen' = "generated" => tasks # <<>>
    <3> SUFFICES ASSUME Complete, tasks = <<>> PROVE FALSE
      BY <1>8, <2>1 DEF DrawAgain
    <3>1. 0 >= TotalUtil - Tolerance
      BY NoUtilisation DEF Complete
    <3> QED
      BY <3>1, GenerateSize, HarmonicSets
  <2> QED
    BY <1>3, <1>7, <2>1, <2>2
<1>9. CASE AddProgram
  <2>1. gen = "judge" /\ gen' = "draw" /\ draft' = NoDraft /\ tasks' = Append(tasks, Drafted)
    BY <1>9 DEF AddProgram
  <2>2. /\ draft.period \in Periods /\ draft.segs \in Seq(Segment) /\ draft.segs # <<>>
        /\ SumTime(draft.segs) <= draft.exctime /\ draft.exctime \in Nat
        /\ 2 * draft.exctime <= draft.period
        /\ \A i \in DOMAIN draft.segs : draft.segs[i].len > 0
    BY <1>1, <2>1 DEF TaskInv, DrawnInv
  <2>3. Drafted \in Task /\ Drafted.span = SumTime(draft.segs) /\ Drafted.period = draft.period
    BY <2>2, SummedIsTask DEF Drafted
  <2>4. Drawn(Drafted)
    <3>1. Drafted.work > 0
      BY <2>2, SomethingToDo DEF Drafted
    <3>2. 2 * Drafted.span <= Drafted.period
      <4>1. Drafted.span \in Nat /\ Drafted.period \in Nat
        BY <2>3 DEF Task
      <4> QED
        BY <2>2, <2>3, <4>1
    <3>3. Drafted.segs = draft.segs /\ Drafted.period = draft.period
      BY DEF Drafted, Summed
    <3>4. Drafted = Summed(Drafted.period, Drafted.segs)
      BY <3>3 DEF Drafted
    <3> QED
      BY <2>2, <2>3, <3>1, <3>2, <3>4 DEF Drawn
  <2>5. tasks \in Seq(Task)
    BY DEF TaskInv
  <2> HIDE DEF Drafted
  <2>6. /\ DOMAIN tasks' = 1 .. Len(tasks) + 1 /\ DOMAIN tasks = 1 .. Len(tasks) /\ Len(tasks) \in Nat
        /\ (\A id \in 1 .. Len(tasks) : tasks'[id] = tasks[id]) /\ tasks'[Len(tasks) + 1] = Drafted
    BY <2>1, <2>3, <2>5, AppendSeq
  <2>7. \A id \in Ids' : Drawn(tasks'[id])
    <3> SUFFICES ASSUME NEW id \in DOMAIN tasks' PROVE Drawn(tasks'[id])
      BY DEF Ids
    <3>1. id \in 1 .. Len(tasks) \/ id = Len(tasks) + 1
      BY <2>6
    <3> QED
      BY <1>2, <2>4, <2>6, <3>1 DEF Ids
  <2> QED
    BY <1>7, <2>1, <2>7
<1> QED
  BY <1>1, <1>4, <1>5, <1>6, <1>8, <1>9

-------------------------------------------------------------------------------
(* The verdicts agree. *)

\* A drawn task set is one that the simulation is right about.
LEMMA DrawnIsSound ==
  ASSUME TaskInv, DrawnInv, program[1] # "cluster"
  PROVE  Sound /\ Harmonic(Ids) /\ Segmented
<1>1. \A id \in Ids : Drawn(tasks[id])
  BY DEF DrawnInv
<1>2. Parallel
  <2> SUFFICES ASSUME NEW id \in Ids, 20 * tasks[id].util >= 18 * Hyper, ~ (tasks[id].work > tasks[id].span)
               PROVE  FALSE
    BY DEF Parallel, Ids
  <2> DEFINE u == tasks[id].util
             p == tasks[id].period
             w == tasks[id].work
             h == Hyper
  <2>1. /\ u \in Nat /\ p \in Nat /\ w \in Nat \ {0} /\ h \in Nat \ {0}
        /\ u * p = w * h /\ 2 * w <= p /\ 18 * h <= 20 * u
    <3>1. tasks[id].span \in Nat /\ tasks[id].work \in Nat /\ tasks[id].period \in Nat /\ tasks[id].util \in Nat
      BY TaskTypes
    <3>2. 2 * tasks[id].span <= tasks[id].period /\ tasks[id].work > 0
      BY <1>1 DEF Drawn
    <3>3. tasks[id].util * tasks[id].period = tasks[id].work * Hyper
      BY DEF TaskInv, Regular
    <3> QED
      BY <3>1, <3>2, <3>3, Constants
  <2> HIDE DEF u, p, w, h
  <2>2. p * (18 * h) <= p * (20 * u)
    BY <2>1, TimesGrows
  <2>3. h * (2 * w) <= h * p
    BY <2>1, TimesGrows
  <2>4. w * 1 <= w * h
    BY <2>1, TimesGrows
  <2> DEFINE x == w * h
             y == h * p
  <2>5. p * (18 * h) = 18 * y /\ h * (2 * w) = 2 * x /\ y \in Int /\ x \in Int
    BY <2>1
  <2>6. p * (20 * u) = 20 * x
    <3>1. p * (20 * u) = 20 * (u * p)
      BY <2>1
    <3> QED
      BY <2>1, <3>1
  <2> HIDE DEF x
  <2>7. x >= 1
    BY <2>1, <2>4 DEF x
  <2> HIDE DEF y
  <2>8. 18 * y <= 20 * x /\ 2 * x <= y
    BY <2>2, <2>3, <2>5, <2>6 DEF y
  <2> QED
    BY ONLY <2>5, <2>7, <2>8
<1>3. Harmonic(Ids)
  BY <1>1, HarmonicSets DEF Harmonic, Drawn
<1>4. Segmented
  <2> SUFFICES ASSUME NEW id \in Ids
               PROVE  LET t == tasks[id]
                      IN  /\ t.work > 0
                          /\ t.work = SumFunction([i \in DOMAIN t.segs |-> t.segs[i].count * t.segs[i].len])
                          /\ t.span = SumFunction([i \in DOMAIN t.segs |-> t.segs[i].len])
    BY DEF Segmented, Ids
  <2> DEFINE t == tasks[id]
             s == Summed(t.period, t.segs)
  <2>1. t = s /\ t.work > 0
    BY <1>1 DEF Drawn
  <2>2. /\ s.work = SumFunction([i \in DOMAIN t.segs |-> t.segs[i].count * t.segs[i].len])
        /\ s.span = SumFunction([i \in DOMAIN t.segs |-> t.segs[i].len])
    BY DEF Summed
  <2> HIDE DEF s
  <2> QED
    BY <2>1, <2>2
<1> QED
  BY <1>2, <1>3, <1>4, HarmonicIsSound

\* What utility_test keeps passes the simulation if it is guaranteed; in the calls after the first one
\* there was no guarantee.
WhatInv ==
  /\ program[1] # "cluster" =>
       /\ phase = "returned" /\ kept.sched = 0 => Simulation(kept.out) = 0
       /\ phase = "returned" /\ option = 3 => kept.sched = sched
       /\ phase # "idle" /\ option \notin {3, 6} => kept.sched # 0
  /\ NoWhat

\* A guaranteed partition of a drawn task set passes the simulation.
LEMMA DrawnPasses ==
  ASSUME AllInv, DoneGuard, RankGuard, FirstGuard, DrawnInv,
         program[1] # "cluster", phase = "done", sched = 0
  PROVE  Simulation(out) = 0
<1>1. TaskInv /\ ClusterInv /\ PhaseInv
  BY DEF AllInv, ClusterInv
<1>2. Sound /\ Harmonic(Ids) /\ Segmented
  BY <1>1, DrawnIsSound
<1>3. Finished
  BY <1>1 DEF Finished
<1>4. AllMeetDeadlines(out)
  BY <1>2 DEF DoneGuard
<1>5. out # <<>>
  <2>1. tasks # <<>> /\ tasks \in Seq(Task)
    BY <1>1 DEF DrawnInv, TaskInv
  <2>2. Ids # {}
    BY <2>1, SeqIsFunction, EmptySeq DEF Ids
  <2>3. \A id \in Ids : \E i \in DOMAIN out : out[i].id = id
    BY <1>1 DEF PhaseInv, DonePhase, Whole
  <2> QED
    BY <2>2, <2>3
<1> QED
  BY <1>2, <1>3, <1>4, <1>5, SimulationPasses

\* Every step of both programs keeps it.
LEMMA WhatStays ==
  ASSUME AllInv, DoneGuard, RankGuard, FirstGuard, DrawnInv, WhatInv, [ClusterNext]_cvars
  PROVE  WhatInv'
<1>1. program[1] = "cluster" => WhatInv'
  <2>1. program' = program
    BY DEF ClusterNext, ProgramStep, GenerateSet, ReadFails, ReadInput, AssignCore, SortFails, PartitionGoesOn,
           Returned, TryNext, WriteSchedule, CountFive, CountSix, cvars, calls
  <2>2. program[1] = "cluster" => counted' = counted
    BY DEF ClusterNext, ProgramStep, GenerateSet, ReadFails, ReadInput, AssignCore, SortFails, PartitionGoesOn,
           Returned, TryNext, WriteSchedule, CountFive, CountSix, IsCaller, cvars, calls
  <2> QED
    BY <2>1, <2>2 DEF WhatInv, NoWhat
<1> SUFFICES ASSUME program[1] # "cluster" PROVE WhatInv'
  BY <1>1
<1>2. /\ program[2] = 3 /\ counted \in Seq(Pair)
      /\ phase = "returned" /\ kept.sched = 0 => Simulation(kept.out) = 0
      /\ phase = "returned" /\ option = 3 => kept.sched = sched
      /\ phase # "idle" /\ option \notin {3, 6} => kept.sched # 0
      /\ NoWhat
  <2>1. program \in Programs
    BY DEF AllInv, TaskInv
  <2> QED
    BY <2>1, ClusterRuns DEF AllInv, CountInv, WhatInv
<1>3. counted' = counted => NoWhat'
  BY <1>2 DEF NoWhat
<1>4. CASE GenerateSet
  <2>1. phase' = "idle" /\ counted' = counted
    BY <1>4 DEF GenerateSet, calls
  <2> QED
    BY <1>3, <2>1 DEF WhatInv
<1>5. CASE ReadFails \/ ReadInput \/ WriteSchedule
  BY <1>5 DEF ReadFails, ReadInput, WriteSchedule, IsCaller
<1>6. CASE AssignCore
  <2>1. phase' = "high" /\ option' = 3 /\ counted' = counted
    BY <1>2, <1>6 DEF AssignCore, Call, calls
  <2> QED
    BY <1>3, <2>1 DEF WhatInv
<1>7. CASE SortFails \/ PartitionGoesOn
  <2>1. /\ phase' \notin {"idle", "returned"} /\ phase # "idle"
        /\ option' = option /\ kept' = kept /\ counted' = counted
    BY <1>7, StepOfCall, PhaseOfStep DEF SortFails, NoNames, GoOn, PartitionGoesOn, calls, input
  <2> QED
    BY <1>2, <1>3, <2>1 DEF WhatInv
<1>8. CASE Returned
  <2>1. /\ phase = "done" /\ phase' = "returned" /\ tasks' = tasks /\ option' = option
        /\ sched' = sched /\ kept' = Kept /\ counted' = counted
    BY <1>8 DEF Returned, GoOn, input
  <2>2. kept'.sched = 0 => kept'.out = out /\ Simulation(out) = 0
    <3> SUFFICES ASSUME kept'.sched = 0 PROVE kept'.out = out /\ Simulation(out) = 0
      OBVIOUS
    <3>1. IsFirst
      <4> SUFFICES ASSUME ~ IsFirst PROVE FALSE
        OBVIOUS
      <4>1. kept' = [sched |-> 1, out |-> out] \/ kept' = kept
        BY <2>1 DEF Kept
      <4>2. kept.sched = 0
        BY <4>1
      <4>3. option \notin {3, 6}
        BY DEF IsFirst, InChain
      <4> QED
        BY <1>2, <2>1, <4>2, <4>3
    <3>2. kept' = [sched |-> sched, out |-> out]
      BY <2>1, <3>1 DEF Kept
    <3>3. sched = 0 /\ kept'.out = out
      BY <3>2
    <3> QED
      BY <2>1, <3>3, DrawnPasses
  <2>3. option = 3 => kept'.sched = sched'
    BY <2>1 DEF Kept, IsFirst
  <2>4. option \notin {3, 6} => kept'.sched # 0
    BY <1>2, <2>1 DEF Kept, IsFirst, InChain
  <2>5. \A p : Simulation(p)' = Simulation(p)
    BY <2>1, SameSimulation
  <2> QED
    BY <1>3, <2>1, <2>2, <2>3, <2>4, <2>5 DEF WhatInv
<1>9. CASE TryNext
  <2>1. /\ phase = "returned" /\ NextOption # 0 /\ phase' = "high" /\ option' = NextOption
        /\ kept' = kept /\ counted' = counted
    BY <1>9 DEF TryNext, Call, calls
  <2>2. kept.sched # 0
    BY <1>2, <2>1 DEF NextOption
  <2> QED
    BY <1>3, <2>1, <2>2 DEF WhatInv
<1> DEFINE pair == [sche |-> kept.sched, simu |-> Simulation(kept.out)]
<1>10. CASE CountFive
  <2>1. phase = "returned" /\ phase' = "high" /\ option' = 6 /\ counted' = <<pair>>
    BY <1>10 DEF CountFive, Call
  <2>2. pair.sche = 0 => pair.simu = 0
    BY <1>2, <2>1
  <2> HIDE DEF pair
  <2>3. \A i \in DOMAIN counted' : counted'[i] = pair
    BY <2>1
  <2> QED
    BY <2>1, <2>2, <2>3 DEF WhatInv, NoWhat
<1>11. CASE CountSix
  <2>1. phase = "returned" /\ phase' = "ended" /\ option = 6 /\ option' = option /\ counted' = Append(counted, pair)
    BY <1>11 DEF CountSix, GoOn, input
  <2>2. (pair.sche = 0 => pair.simu = 0) /\ pair \in Pair
    <3>1. kept.sched \in 0 .. 2
      BY <2>1 DEF AllInv, KeptInv, Result
    <3>2. Simulation(kept.out) \in {0, 1}
      BY DEF Simulation
    <3> QED
      BY <1>2, <2>1, <3>1, <3>2 DEF Pair
  <2> HIDE DEF pair
  <2>3. /\ DOMAIN counted' = 1 .. Len(counted) + 1 /\ DOMAIN counted = 1 .. Len(counted) /\ Len(counted) \in Nat
        /\ (\A i \in 1 .. Len(counted) : counted'[i] = counted[i]) /\ counted'[Len(counted) + 1] = pair
    BY <1>2, <2>1, <2>2, AppendSeq
  <2>4. NoWhat'
    <3> SUFFICES ASSUME NEW i \in DOMAIN counted', counted'[i].sche = 0 PROVE counted'[i].simu = 0
      BY DEF NoWhat
    <3>1. i \in 1 .. Len(counted) \/ i = Len(counted) + 1
      BY <2>3
    <3> QED
      BY <1>2, <2>2, <2>3, <3>1 DEF NoWhat
  <2> QED
    BY <2>1, <2>4 DEF WhatInv
<1>12. CASE UNCHANGED cvars
  <2>1. /\ phase' = phase /\ tasks' = tasks /\ option' = option /\ sched' = sched
        /\ kept' = kept /\ counted' = counted
    BY <1>12 DEF cvars, placing, input, calls
  <2>2. Simulation(kept.out)' = Simulation(kept.out)
    BY <2>1, SameSimulation
  <2> QED
    BY <1>2, <1>3, <2>1, <2>2 DEF WhatInv
<1> QED
  BY <1>4, <1>5, <1>6, <1>7, <1>8, <1>9, <1>10, <1>11, <1>12 DEF ClusterNext, ProgramStep

\* So do the order of the low tasks and the first cores of the clusters ...
LEMMA RanksKept ==
  ASSUME AllInv, Guards, RankGuard, FirstGuard, [ClusterNext]_cvars
  PROVE  RankGuard' /\ FirstGuard'
<1>1. CASE PartitionGoesOn
  BY <1>1, RanksStay DEF PartitionGoesOn, AllInv, Guards
<1>2. CASE UNCHANGED cvars
  <2>1. /\ phase' = phase /\ tasks' = tasks /\ option' = option /\ out' = out /\ low' = low
        /\ sched' = sched /\ fit' = fit /\ lowcore' = lowcore /\ possible' = possible /\ stat' = stat
    BY <1>2 DEF cvars, placing, input, lows, highs
  <2>2. /\ \A id : IsHigh(id)' = IsHigh(id)
        /\ \A o : RateOn(o)' = RateOn(o)
        /\ \A s : Ascending(s)' = Ascending(s)
    BY <2>1, SameGuards
  <2>3. RateOn(out)' = RateOn(out) /\ Waiting' = Waiting
    BY <2>1, <2>2 DEF Waiting
  <2>4. Ranking(out)' = Ranking(out)
    BY <2>1, <2>2, <2>3 DEF Ranking
  <2>5. Parallel' = Parallel
    BY <2>1 DEF Parallel
  <2> QED
    BY <2>1, <2>2, <2>3, <2>4, <2>5 DEF RankGuard, FirstGuard, ToSet
<1>3. CASE GenerateSet \/ (ProgramStep /\ ~ PartitionGoesOn)
  <2>1. phase' \notin {"low", "done"}
    BY <1>3 DEF GenerateSet, ProgramStep, ReadFails, ReadInput, AssignCore, SortFails, Returned, TryNext,
                WriteSchedule, CountFive, CountSix, Call, GoOn
  <2> QED
    BY <2>1 DEF RankGuard, FirstGuard
<1> QED
  BY <1>1, <1>2, <1>3 DEF ClusterNext

\* ... and what is drawn.
LEMMA DrawnStays ==
  ASSUME AllInv, DrawnInv, [ClusterNext]_cvars
  PROVE  DrawnInv'
<1>1. CASE GenerateSet
  BY <1>1, DrawnGrows DEF AllInv
<1>2. CASE ~ GenerateSet
  <2>1. tasks' = tasks /\ program' = program /\ gvars' = gvars
    <3>1. CASE PartitionGoesOn
      BY <3>1, StepOfCall DEF PartitionGoesOn, calls
    <3>2. CASE ~ PartitionGoesOn
      BY <1>2, <3>2 DEF ClusterNext, ProgramStep, ReadFails, ReadInput, AssignCore, SortFails, Returned, TryNext,
           WriteSchedule, CountFive, CountSix, Call, GoOn, cvars, calls, placing, input
    <3> QED
      BY <3>1, <3>2
  <2>2. program[1] # "cluster" /\ phase' # "idle" => phase # "idle" \/ gen = "generated"
    <3>1. CASE PartitionGoesOn
      BY <3>1, StepOfCall DEF PartitionGoesOn
    <3>2. CASE ~ PartitionGoesOn
      BY <1>2, <3>2 DEF ClusterNext, ProgramStep, ReadFails, ReadInput, AssignCore, SortFails, NoNames, Returned,
           TryNext, WriteSchedule, CountFive, CountSix, IsCaller, cvars, placing
    <3> QED
      BY <3>1, <3>2
  <2> QED
    BY <2>1, <2>2, DrawnRests
<1> QED
  BY <1>1, <1>2

\* What the simulation and its agreement with the verdict rest on.
SimulationInv == RankGuard /\ FirstGuard /\ DrawnInv /\ WhatInv

LEMMA SimulationStarts == ClusterInit => SimulationInv
<1> SUFFICES ASSUME ClusterInit PROVE SimulationInv
  OBVIOUS
<1>1. phase = "idle" /\ counted = <<>>
  BY DEF ClusterInit, Idle
<1>2. NoWhat
  BY <1>1 DEF NoWhat
<1> QED
  BY <1>1, <1>2, DrawnStarts DEF SimulationInv, RankGuard, FirstGuard, WhatInv

\* The simulation passes a partition whose tasks meet their deadlines, for harmonic periods and tasks
\* made of segments; unless a fit into sockets has cut a cluster without a guarantee, it fails one where
\* a task on a single core does not, and meets no case that is said to be impossible.  And utility_test,
\* whatever it draws, never sees a guaranteed task set fail in the simulation (taskgenerate.py:526-527).
THEOREM SimulationsAgree == ClusterSpec => []SimulationAgrees
<1>1. ClusterInit => AllInv /\ Guards /\ SimulationInv
  BY AllInvStarts, GuardsStart, SimulationStarts
<1>2. AllInv /\ Guards /\ SimulationInv /\ [ClusterNext]_cvars => AllInv' /\ Guards' /\ SimulationInv'
  <2> SUFFICES ASSUME AllInv, Guards, SimulationInv, [ClusterNext]_cvars
               PROVE  AllInv' /\ Guards' /\ SimulationInv'
    OBVIOUS
  <2>1. DoneGuard /\ RankGuard /\ FirstGuard /\ DrawnInv /\ WhatInv
    BY DEF Guards, SimulationInv
  <2>2. RankGuard' /\ FirstGuard' /\ DrawnInv' /\ WhatInv'
    BY <2>1, RanksKept, DrawnStays, WhatStays
  <2> QED
    BY <2>2, AllInvStays, GuardsStay DEF SimulationInv
<1>3. AllInv /\ Guards /\ SimulationInv => SimulationAgrees
  <2> SUFFICES ASSUME AllInv, Guards, SimulationInv PROVE SimulationAgrees
    OBVIOUS
  <2>1. TaskInv /\ ClusterInv /\ DoneGuard /\ RankGuard /\ FirstGuard /\ WhatInv
    BY DEF AllInv, Guards, SimulationInv
  <2>2. SimulationIsRight
    BY <2>1, SimulationHolds
  <2> QED
    BY <2>1, <2>2 DEF SimulationAgrees, WhatInv
<1> QED
  BY <1>1, <1>2, <1>3, PTL DEF ClusterSpec

===============================================================================
