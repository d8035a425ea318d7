--------------------------- MODULE ClusterPartition ---------------------------
(***************************************************************************)
(* cluster_partition of lib_cluster.py: the assignment of cores to the     *)
(* tasks of a set, for clustered scheduling.  A task of high utilisation   *)
(* gets cores of its own; the others are put on single cores, in the order *)
(* of their periods, as long as a bound on the utilisation of the core     *)
(* holds, and may then be moved to cores that were left empty.             *)
(*                                                                         *)
(* A task is a record of period, work, span and util, its utilisation in   *)
(* units of 1/Hyper; the code has doubles.  Lists of tasks are sequences   *)
(* of their ids.  corestr, the lists of what runs on each core, is not a   *)
(* variable: the list of a core is the part of out that starts there.      *)
(* Option 7, which no program passes, is left out.                         *)
(***************************************************************************)
EXTENDS ClusterTools

CONSTANTS CoreNum,      \* corenum, the number of cores
          SocketCores,  \* the cores of a socket, 12 in the code
          Hyper         \* a common multiple of all periods

ASSUME ClusterSize ==
  /\ CoreNum \in Nat \ {0}
  /\ SocketCores \in Nat \ {0}
  /\ Hyper \in Nat \ {0}

\* A task, with the parallel segments that it is made of.
Task == [period : Nat \ {0}, segs : Seq([count : Nat, len : Nat]),
         work : Nat, span : Nat, util : Nat]

VARIABLES phase,     \* what cluster_partition does next
          option,    \* its argument
          tasks,     \* the task set, a sequence; its indices are the ids
          info,      \* the ids in the order of decreasing utilisation
          out,       \* outinfo: id, priority, first and last core of each task
          stat,      \* corestat: number, utilisation and period of low tasks
          parted,    \* partedcore + 1, the cores given to high tasks so far
          possible,  \* the cores that high tasks could do without
          fit,       \* fitsocket: whether high tasks were moved to sockets
          lowcore,   \* the cores of low tasks
          low,       \* the low tasks not yet placed, by period
          cur,       \* curcore, an index of lowcore
          moved,     \* availablestr: the tasks moved to each core
          sched      \* the result: 0 guaranteed, 1 may try, 2 no partition

input == <<option, tasks, info>>
highs == <<parted, possible, fit>>
lows == <<lowcore, low, cur>>
placing == <<phase, input, out, stat, highs, lows, moved, sched>>

Cores == 0 .. CoreNum - 1

SortUtil(ids) == SortOn(ids, [i \in DOMAIN ids |-> - tasks[ids[i]].util])
SortPeriod(ids) == SortOn(ids, [i \in DOMAIN ids |-> tasks[ids[i]].period])

(***************************************************************************)
(* A task is high from a threshold on, here in twentieths.                 *)
(***************************************************************************)
Threshold(opt) == IF opt \in {3, 5, 6} THEN 18 ELSE IF opt = 4 THEN 19 ELSE 20

IsHigh(id) == 20 * tasks[id].util >= Threshold(option) * Hyper

Highs == {id \in DOMAIN tasks : IsHigh(id)}

\* (C - L) / (P - L) cores, rounded up, and two where that gives one.
Cluster(task) ==
  LET n == CeilDiv(task.work - task.span, task.period - task.span)
  IN  IF n = 1 THEN 2 ELSE n

\* The part of n cores that the task does not need, times its P - L.
Spare(task, n) == n * (task.period - task.span) - (task.work - task.span)

\* On sockets a task whose last core would be nearly full gets one more.
NumCore(task) ==
  LET n == Cluster(task)
  IN  IF option = 6 /\ 50 * Spare(task, n) <= (4 + n) * (task.period - task.span)
        THEN n + 1
        ELSE n

(***************************************************************************)
(* The periods of low tasks are mapped to the range from tmin to 2 tmin,   *)
(* linearly, if they do not lie in it.  The code divides by tmax - tmin;   *)
(* only quotients of two of these are used.                                *)
(***************************************************************************)
Scaled(id) ==
  LET periods == {tasks[x].period : x \in DOMAIN tasks \ Highs}
      tmin == Min(periods)
      tmax == Max(periods)
  IN  IF tmax >= 2 * tmin THEN tasks[id].period - 2 * tmin + tmax ELSE tasks[id].period

(***************************************************************************)
(* sumutil <= np (rp^(1/np) - 1) + 2/rp - 1 with rp = a/b: the root is     *)
(* taken to the other side, and the denominators to both.  The bound is    *)
(* at most 1, since rp is between 1 and 2.                                 *)
(***************************************************************************)
WithinBound(sumutil, np, a, b) ==
  LET d == Max({x \in 1 .. b : a % x = 0 /\ b % x = 0})
      p == a \div d
      q == b \div d
      need == sumutil * p + Hyper * (1 + np) * p - 2 * Hyper * q
  IN  /\ sumutil <= Hyper
      /\ need <= 0 \/ Power(need, np) * q <= Power(np * Hyper * p, np) * p

-------------------------------------------------------------------------------
NoTask == [np |-> 0, sumutil |-> 0, mint |-> 0]

Idle ==
  /\ phase = "idle"
  /\ option = 0 /\ info = <<>>
  /\ out = <<>> /\ stat = [c \in Cores |-> NoTask]
  /\ parted = 0 /\ possible = <<>> /\ fit = "none"
  /\ lowcore = <<>> /\ low = <<>> /\ cur = 1
  /\ moved = [c \in Cores |-> <<>>] /\ sched = 0

(***************************************************************************)
(* A call: the tasks are sorted and nothing is placed.                     *)
(***************************************************************************)
Call(opt) ==
  /\ phase' = "high"
  /\ option' = opt
  /\ info' = SortUtil([id \in DOMAIN tasks |-> id])
  /\ out' = <<>> /\ stat' = [c \in Cores |-> NoTask]
  /\ parted' = 0 /\ possible' = <<>> /\ fit' = "none"
  /\ lowcore' = <<>> /\ low' = <<>> /\ cur' = 1
  /\ moved' = [c \in Cores |-> <<>>] /\ sched' = 0
  /\ UNCHANGED tasks

\* return 2, [], []
NoPartition ==
  /\ phase' = "done" /\ sched' = 2 /\ out' = <<>>
  /\ UNCHANGED <<input, stat, highs, lows, moved>>

(***************************************************************************)
(* The next high task gets the next cores.  If it got more than it needs   *)
(* its last core may be taken back later.                                  *)
(***************************************************************************)
NextIsHigh == phase = "high" /\ Len(out) < Len(info) /\ IsHigh(info[Len(out) + 1])

\* Mutant: a task of two cores may lose one of them.
PlaceHighLendsAny ==
  /\ NextIsHigh
  /\ LET id   == info[Len(out) + 1]
         task == tasks[id]
         n    == NumCore(task)
     IN  /\ parted < CoreNum /\ parted + n <= CoreNum
         /\ parted' = parted + n
         /\ possible' = IF Spare(task, n) > 0
              THEN Append(possible, [core |-> parted + n - 1, index |-> Len(out) + 1,
                                     num |-> Spare(task, n), den |-> task.period - task.span])
              ELSE possible
         /\ out' = Append(out, [id |-> id, prio |-> 97,
                                first |-> parted, last |-> parted + n - 1])
  /\ UNCHANGED <<phase, input, stat, fit, lows, moved, sched>>

PlaceHigh ==
  /\ NextIsHigh
  /\ LET id   == info[Len(out) + 1]
         task == tasks[id]
         n    == NumCore(task)
     IN  /\ parted < CoreNum /\ parted + n <= CoreNum
         /\ parted' = parted + n
         /\ possible' = IF Spare(task, n) > 0 /\ n > 2
              THEN Append(possible, [core |-> parted + n - 1, index |-> Len(out) + 1,
                                     num |-> Spare(task, n), den |-> task.period - task.span])
              ELSE possible
         /\ out' = Append(out, [id |-> id, prio |-> 97,
                                first |-> parted, last |-> parted + n - 1])
  /\ UNCHANGED <<phase, input, stat, fit, lows, moved, sched>>

NoCoreForHigh ==
  /\ NextIsHigh
  /\ parted = CoreNum \/ parted + NumCore(tasks[info[Len(out) + 1]]) > CoreNum
  /\ NoPartition

-------------------------------------------------------------------------------
(***************************************************************************)
(* On three sockets, high tasks whose cores cross the end of a socket are  *)
(* fitted into the sockets, all of them, the one with most cores first.    *)
(***************************************************************************)
SocketOf(core) == core \div SocketCores

Crossing ==
  /\ option = 6 /\ CoreNum = 3 * SocketCores
  /\ \E i \in DOMAIN out : SocketOf(out[i].first) < SocketOf(out[i].last)

Size(e) == e.last - e.first + 1

BySize == SortOn(out, [i \in DOMAIN out |-> - Size(out[i])])

\* The first socket with room for e, or 3, and what n of them use of each.
FirstFit(used, e) ==
  LET room == {s \in 0 .. 2 : used[s] + Size(e) <= SocketCores}
  IN  IF room = {} THEN 3 ELSE Min(room)

Used[n \in 0 .. Len(out)] ==
  IF n = 0 THEN [s \in 0 .. 2 |-> 0]
  ELSE LET e == BySize[n]
       IN  [s \in 0 .. 2 |-> Used[n - 1][s] + IF s = FirstFit(Used[n - 1], e) THEN Size(e) ELSE 0]

FitsSockets == \A i \in DOMAIN out : FirstFit(Used[i - 1], BySize[i]) # 3

Refitted ==
  [i \in DOMAIN out |->
     LET e == BySize[i]
         s == FirstFit(Used[i - 1], e)
         f == s * SocketCores + Used[i - 1][s]
     IN  [e EXCEPT !.first = f, !.last = f + Size(e) - 1]]

\* All tasks are high: their clusters are the result.
AllHigh ==
  /\ phase = "high" /\ Len(out) = Len(info)
  /\ phase' = "done" /\ sched' = 0
  /\ out' = IF Crossing /\ FitsSockets THEN Refitted ELSE out
  /\ UNCHANGED <<input, stat, highs, lows, moved>>

-------------------------------------------------------------------------------
LowIsNext == phase = "high" /\ Len(out) < Len(info) /\ ~ IsHigh(info[Len(out) + 1])

NoLowCore == LowIsNext /\ parted = CoreNum /\ NoPartition

SortPossible(poss) == StableSort(poss, LAMBDA x, y : x.num * y.den > y.num * x.den)

(***************************************************************************)
(* The rest of the tasks are low.  If the high tasks are refitted, any of  *)
(* them may lose its last core, the one of highest utilisation first, and  *)
(* the low tasks get what is left at the end of each socket.               *)
(***************************************************************************)
StartLow ==
  /\ LowIsNext /\ parted < CoreNum
  /\ phase' = "low"
  /\ low' = SortPeriod(SubSeq(info, Len(out) + 1, Len(info)))
  /\ IF Crossing /\ FitsSockets
       THEN /\ fit' = "refit"
            /\ out' = Refitted
            /\ possible' = SortPossible(
                 [i \in DOMAIN out |->
                    [core |-> Refitted[i].last,
                     index |-> CHOOSE k \in DOMAIN info : info[k] = Refitted[i].id,
                     num |-> tasks[Refitted[i].id].util, den |-> Hyper]])
            /\ LET end(s) == s * SocketCores + Used[Len(out)][s]
               IN  lowcore' = From(end(0), SocketCores) \o From(end(1), 2 * SocketCores)
                                \o From(end(2), 3 * SocketCores)
       ELSE /\ lowcore' = From(parted, CoreNum)
            /\ possible' = SortPossible(possible)
            /\ UNCHANGED <<fit, out>>
  /\ UNCHANGED <<input, stat, parted, cur, moved, sched>>

-------------------------------------------------------------------------------
(***************************************************************************)
(* The low tasks go round the cores.  Ring is the order from curcore on.   *)
(***************************************************************************)
Ring == [k \in DOMAIN lowcore |-> ((cur + k - 2) % Len(lowcore)) + 1]

SumUtil(i) == stat[lowcore[i]].sumutil

IsEmpty(i) == stat[lowcore[i]].np = 0

Bounded(i, id) ==
  LET s == stat[lowcore[i]]
  IN  WithinBound(s.sumutil + tasks[id].util, s.np + 1, Scaled(id), s.mint)

\* Mutant: only the threshold is tested.
AdmitsUnbounded(i, id) ==
  IsEmpty(i) \/ 20 * (SumUtil(i) + tasks[id].util) < Threshold(option) * Hyper

\* Where original stops: at an empty core, or where threshold and bound hold.
Admits(i, id) ==
  \/ IsEmpty(i)
  \/ /\ 20 * (SumUtil(i) + tasks[id].util) < Threshold(option) * Hyper
     /\ Bounded(i, id)

\* The first of the cores of the ring up to length n with the least utilisation.
LeastLoaded(n) ==
  LET least == Min({SumUtil(Ring[k]) : k \in 1 .. n})
  IN  Ring[Min({k \in 1 .. n : SumUtil(Ring[k]) = least})]

\* One more low task on the core; an empty core takes over its period.
Added(s, id) ==
  [np |-> s.np + 1, sumutil |-> s.sumutil + tasks[id].util,
   mint |-> IF s.np = 0 THEN Scaled(id) ELSE s.mint]

Put(core, id, outinfo) ==
  /\ stat' = [stat EXCEPT ![core] = Added(@, id)]
  /\ out' = Append(outinfo, [id |-> id, prio |-> 97 - stat[core].np,
                             first |-> core, last |-> core])
  /\ low' = Tail(low)

NoCoreAdmits == low # <<>> /\ \A i \in DOMAIN lowcore : ~ Admits(i, Head(low))

FirstAdmitting ==
  /\ phase = "low" /\ option # 1 /\ low # <<>> /\ ~ NoCoreAdmits
  /\ LET k == Min({j \in DOMAIN lowcore : Admits(Ring[j], Head(low))})
     IN  cur' = Ring[k] /\ Put(lowcore[Ring[k]], Head(low), out)
  /\ UNCHANGED <<phase, input, highs, lowcore, moved, sched>>

(***************************************************************************)
(* worstfit: an empty core, or else the core of least utilisation if there *)
(* is any core that accepts the task.                                      *)
(***************************************************************************)
NoCoreBounded ==
  \A i \in DOMAIN lowcore : ~ IsEmpty(i) /\ ~ Bounded(i, Head(low))

WorstFit ==
  /\ phase = "low" /\ option = 1 /\ low # <<>> /\ ~ NoCoreBounded
  /\ LET empty == {j \in DOMAIN lowcore : IsEmpty(Ring[j])}
         i == IF empty = {} THEN LeastLoaded(Len(lowcore)) ELSE Ring[Min(empty)]
     IN  /\ cur' = IF empty = {} THEN cur ELSE i
         /\ Put(lowcore[i], Head(low), out)
  /\ UNCHANGED <<phase, input, highs, lowcore, moved, sched>>

(***************************************************************************)
(* Nothing is guaranteed from here on: the task goes to the core of least  *)
(* utilisation, or to one that a high task could do without, or nowhere.   *)
(***************************************************************************)
NoneFits == phase = "low" /\ low # <<>> /\ IF option = 1 THEN NoCoreBounded ELSE NoCoreAdmits

Overloads == SumUtil(LeastLoaded(Len(lowcore))) + tasks[Head(low)].util >= Hyper

LeastUtil ==
  /\ NoneFits /\ ~ Overloads
  /\ sched' = 1
  /\ Put(lowcore[LeastLoaded(Len(lowcore))], Head(low), out)
  /\ UNCHANGED <<phase, input, highs, lowcore, cur, moved>>

TakeCore ==
  /\ NoneFits /\ Overloads /\ possible # <<>>
  /\ sched' = 1
  /\ LET core == Head(possible).core
     IN  /\ lowcore' = Append(lowcore, core)
         /\ Put(core, Head(low), [out EXCEPT ![Head(possible).index].last = core - 1])
  /\ possible' = Tail(possible)
  /\ UNCHANGED <<phase, input, parted, fit, cur, moved>>

NoCoreForLow == NoneFits /\ Overloads /\ possible = <<>> /\ NoPartition

LowPlaced ==
  /\ phase = "low" /\ low = <<>>
  /\ phase' = IF option \in {2, 3, 4, 6} /\ sched = 0 THEN "balance" ELSE "done"
  /\ UNCHANGED <<input, out, stat, highs, lows, moved, sched>>

-------------------------------------------------------------------------------
(***************************************************************************)
(* loadbalance: tasks go from the core of highest utilisation to the one   *)
(* of lowest among those that were left empty.                             *)
(***************************************************************************)
At(outinfo, core) == {i \in DOMAIN outinfo : outinfo[i].first = core}

Positions(used) == {i \in DOMAIN lowcore : used = (At(out, lowcore[i]) # {})}

Sources == {i \in Positions(TRUE) : stat[lowcore[i]].np > 1 /\ SumUtil(i) > 0}

CoreMax ==
  LET most == Max({SumUtil(i) : i \in Sources})
  IN  lowcore[Min({i \in Sources : SumUtil(i) = most})]

CoreMin ==
  LET least == Min({SumUtil(i) : i \in Positions(FALSE)})
  IN  lowcore[Min({i \in Positions(FALSE) : SumUtil(i) = least})]

Unbalanced ==
  /\ Positions(FALSE) # {} /\ Sources # {}
  /\ stat[CoreMin].sumutil < stat[CoreMax].sumutil

\* The tasks of the fullest core, the one of most utilisation first.
Candidates ==
  LET at == At(out, CoreMax)
      Place(i) == Cardinality({j \in at : j <= i})
  IN  SortUtil([k \in 1 .. Cardinality(at) |-> out[CHOOSE i \in at : Place(i) = k].id])

\* The period of the receiving core once the first n candidates were tried.
MintAfter(n) ==
  LET periods == {Scaled(Candidates[i]) : i \in 1 .. n}
      s == stat[CoreMin]
  IN  IF s.np = 0 THEN Scaled(Candidates[1]) ELSE Min(periods \cup {s.mint})

(***************************************************************************)
(* The n-th candidate among the tasks moved before, in the order of        *)
(* periods: for it and each one after it, the tasks up to there are within *)
(* the bound and use less than the fullest core does.                      *)
(***************************************************************************)
Joined(n) == SortPeriod(<<Candidates[n]>> \o moved[CoreMin])

CanAdd(n) ==
  LET ids == Joined(n)
      own == CHOOSE i \in DOMAIN ids : ids[i] = Candidates[n]
      Upto(i) == SumFunctionOnSet([j \in DOMAIN ids |-> tasks[ids[j]].util], 1 .. i)
  IN  \/ stat[CoreMin].np = 0
      \/ \A i \in own .. Len(ids) :
           /\ Upto(i) < stat[CoreMax].sumutil
           /\ WithinBound(Upto(i), i, Scaled(ids[i]), MintAfter(n))

Movable == {n \in DOMAIN Candidates : CanAdd(n)}

(***************************************************************************)
(* The code reads the scaled period of each candidate, which a high task   *)
(* does not have: one without cores of its own is listed on a low core.    *)
(***************************************************************************)
NoPeriod == \E n \in DOMAIN Candidates : IsHigh(Candidates[n])

BalanceFails ==
  /\ phase = "balance" /\ Unbalanced /\ NoPeriod
  /\ phase' = "failed"
  /\ UNCHANGED <<input, out, stat, highs, lows, moved, sched>>

\* One task less on the core that it is taken from.
Removed(s, id) == [s EXCEPT !.np = @ - 1, !.sumutil = @ - tasks[id].util]

\* Mutant: the utilisation of the fullest core stays what it was.
MoveKeepsStat ==
  /\ phase = "balance" /\ Unbalanced /\ ~ NoPeriod /\ Movable # {}
  /\ LET n  == Min(Movable)
         id == Candidates[n]
     IN  /\ stat' = [stat EXCEPT
              ![CoreMin] = [np |-> @.np + 1, sumutil |-> @.sumutil + tasks[id].util,
                            mint |-> MintAfter(n)],
              ![CoreMax] = [@ EXCEPT !.np = @ - 1]]
         /\ moved' = [moved EXCEPT ![CoreMin] = SortPeriod(Append(@, id))]
         /\ out' = RemoveAt(out, CHOOSE i \in DOMAIN out : out[i].id = id)
  /\ UNCHANGED <<phase, input, highs, lows, sched>>

Move ==
  /\ phase = "balance" /\ Unbalanced /\ ~ NoPeriod /\ Movable # {}
  /\ LET n  == Min(Movable)
         id == Candidates[n]
     IN  /\ stat' = [stat EXCEPT
              ![CoreMin] = [np |-> @.np + 1, sumutil |-> @.sumutil + tasks[id].util,
                            mint |-> MintAfter(n)],
              ![CoreMax] = Removed(@, id)]
         /\ moved' = [moved EXCEPT ![CoreMin] = SortPeriod(Append(@, id))]
         /\ out' = RemoveAt(out, CHOOSE i \in DOMAIN out : out[i].id = id)
  /\ UNCHANGED <<phase, input, highs, lows, sched>>

\* Moved tasks are appended core by core, with priorities by their periods.
Settled(core) ==
  [i \in DOMAIN moved[core] |->
     [id |-> moved[core][i], prio |-> 98 - i, first |-> core, last |-> core]]

Balanced ==
  /\ phase = "balance"
  /\ Unbalanced => ~ NoPeriod /\ Movable = {}
  /\ phase' = "done"
  /\ out' = out \o FlattenSeq([k \in DOMAIN lowcore |-> Settled(lowcore[k])])
  /\ UNCHANGED <<input, stat, highs, lows, moved, sched>>

PartitionStep ==
  \/ PlaceHigh \/ NoCoreForHigh \/ AllHigh \/ NoLowCore \/ StartLow
  \/ FirstAdmitting \/ WorstFit \/ LeastUtil \/ TakeCore \/ NoCoreForLow \/ LowPlaced
  \/ BalanceFails \/ Move \/ Balanced
===============================================================================
