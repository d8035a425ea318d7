-------------------------- MODULE ClusterSimulation --------------------------
(***************************************************************************)
(* cluster_simulation of lib_cluster.py, which runs a partition through    *)
(* one hyperperiod, and what it is meant to decide: whether every task     *)
(* meets its deadlines on the cores that it was given.                     *)
(*                                                                         *)
(* p is a partition, the list outinfo.  A task has segs besides, the       *)
(* parallel segments it is made of: count strands of length len each.      *)
(* work and span are their sums.                                           *)
(***************************************************************************)
EXTENDS ClusterPartition

OnCore(p, core) ==
  LET at == InTurn({i \in DOMAIN p : p[i].first = core})
  IN  [k \in DOMAIN at |-> p[at[k]]]

\* The subtasks of a task summed up, as cluster_assign_core does.
Summed(period, segs) ==
  LET work == SumFunction([i \in DOMAIN segs |-> segs[i].count * segs[i].len])
  IN  [period |-> period, segs |-> segs, work |-> work,
       span |-> SumFunction([i \in DOMAIN segs |-> segs[i].len]),
       util |-> work * (Hyper \div period)]

-------------------------------------------------------------------------------
(***************************************************************************)
(* single_simu: the jobs of on, the tasks on one core, up to the largest   *)
(* of their periods.  Between two releases the waiting jobs are served.    *)
(***************************************************************************)
HyperOf(on) == Max({tasks[on[i].id].period : i \in DOMAIN on})

IsReleased(e, hyper, time) ==
  LET t == tasks[e.id].period
  IN  time % t = 0 /\ time \div t < hyper \div t

Released(on, hyper, time) ==
  LET due == InTurn({i \in DOMAIN on : IsReleased(on[i], hyper, time)})
  IN  [k \in DOMAIN due |->
         LET e == on[due[k]]
         IN  [prio |-> e.prio, left |-> tasks[e.id].work, deadline |-> time + tasks[e.id].period]]

Releases(on, hyper) ==
  InTurn({t \in 0 .. hyper - 1 : \E i \in DOMAIN on : IsReleased(on[i], hyper, t)})

\* Mutant: jobs are served in the order of their releases.
ServingInOrder(on, hyper, waiting, time, next) ==
  Served(waiting.wait \o Released(on, hyper, time), time, next, waiting.late)

\* From a release up to the time of the next one.
Serving(on, hyper, waiting, time, next) ==
  Served(ByPriority(waiting.wait \o Released(on, hyper, time)), time, next, waiting.late)

SingleSimu(on) ==
  LET hyper == HyperOf(on)
      at    == Append(Releases(on, hyper), hyper)
      Upto[k \in 0 .. Len(at) - 1] ==
        IF k = 0 THEN [wait |-> <<>>, late |-> FALSE]
        ELSE Serving(on, hyper, Upto[k - 1], at[k], at[k + 1])
      last  == Upto[Len(at) - 1]
  IN  IF last.late \/ last.wait # <<>> THEN 1 ELSE 0

\* The time a cluster of n cores takes when the segments run one after another.
ExeTime(task, n) ==
  SumFunction([i \in DOMAIN task.segs |-> CeilDiv(task.segs[i].count, n) * task.segs[i].len])

Alone(p, core) == Len(OnCore(p, core)) = 1

IsCluster(p, core) == Alone(p, core) /\ OnCore(p, core)[1].first < OnCore(p, core)[1].last

Overruns(p, core) ==
  LET e == OnCore(p, core)[1]
  IN  ExeTime(tasks[e.id], Size(e)) > tasks[e.id].period

CoreFails(p, core) ==
  CASE OnCore(p, core) = <<>> -> FALSE
    [] Alone(p, core) /\ OnCore(p, core)[1].first = OnCore(p, core)[1].last -> FALSE
    [] IsCluster(p, core) -> Overruns(p, core)
    [] OTHER -> SingleSimu(OnCore(p, core)) = 1

Simulation(p) == IF p = <<>> \/ \E c \in Cores : CoreFails(p, c) THEN 1 ELSE 0

\* What it prints as "!!!impossible".
Impossible(p, core) ==
  \/ /\ Alone(p, core) /\ OnCore(p, core)[1].first = OnCore(p, core)[1].last
     /\ tasks[OnCore(p, core)[1].id].util > Hyper
  \/ /\ IsCluster(p, core) /\ Overruns(p, core)
     /\ LET e == OnCore(p, core)[1]
            t == tasks[e.id]
        IN  CeilDiv(t.work - t.span, t.period - t.span) <= Size(e)

-------------------------------------------------------------------------------
(***************************************************************************)
(* What counts: a task on a single core has time for its work and that of  *)
(* all tasks of no lower priority there before its deadline, if all are    *)
(* released at once; a cluster is large enough for the work beside the     *)
(* critical path.                                                          *)
(***************************************************************************)
Ahead(p, e) == {p[i].id : i \in {k \in DOMAIN p : p[k].first = e.first /\ p[k].prio >= e.prio}}

Demand(ids, len) ==
  SumFunctionOnSet([id \in ids |-> CeilDiv(len, tasks[id].period) * tasks[id].work], ids)

MeetsDeadline(p, e) ==
  LET t == tasks[e.id]
  IN  IF Size(e) = 1
        THEN \E len \in 1 .. t.period : Demand(Ahead(p, e), len) <= len
        ELSE Size(e) > 1 /\ t.work - t.span <= Size(e) * (t.period - t.span)

AllMeetDeadlines(p) == \A i \in DOMAIN p : MeetsDeadline(p, p[i])
===============================================================================
