---------------------------- MODULE BlockingBounds ----------------------------
(***************************************************************************)
(* The bounds on blocking that the schedulability test of                  *)
(* blocking_analysis.cpp computes: how long a task can be held up by spin  *)
(* locks on one of its processors (Critical...), and all its processors    *)
(* together (Whole...), and the processors it then needs.                  *)
(*                                                                         *)
(* Every operator takes the task set ts, the allocation proc of processors *)
(* and the locking priorities prio (a smaller number is a higher           *)
(* priority).  A task is a record of period (its deadline too), span,      *)
(* wcet, and per resource the number req of its requests and the length cs *)
(* of its critical section; it has the resources with req > 0.  Its        *)
(* response_time_ is its period wherever the bounds read it: the test sets *)
(* it so before the first round.  Rounding of doubles is left out.         *)
(***************************************************************************)
EXTENDS Integers, FiniteSets, FiniteSetsExt, Functions

CONSTANTS Tasks,      \* the task ids, from 1 on
          Resources,  \* the ids of the resources
          LongMod,    \* 2^64, the modulus of unsigned long
          DivByZero   \* what the build makes of a division by zero when the
                      \* quotient is cast to unsigned int (0 on x86-64)

ASSUME BoundsConstants ==
  /\ IsFiniteSet(Tasks) /\ Tasks = 1 .. Cardinality(Tasks)
  /\ IsFiniteSet(Resources)
  /\ LongMod \in Nat \ {0} /\ DivByZero \in Nat

\* a - b of two unsigned long values.
LongMinus(a, b) == (a - b) % LongMod

\* alloc_proc: the processors a task needs when it is held up for at most
\* single on one of them and whole on all.
AllocProc(task, whole, single) ==
  LET work  == LongMinus(task.wcet + whole, task.span + single)
      slack == LongMinus(task.period, task.span + single)
  IN  IF slack = 0 THEN DivByZero ELSE (work + slack - 1) \div slack

\* njobs: the jobs of a task in an interval of length len.  The division is of
\* integers, so the ceil around it does nothing.
NJobs(task, len) == (len + task.period) \div task.period

\* interferences_: the other tasks that use r.
Interfering(ts, t, r) == {x \in Tasks \ {t} : ts[x].req[r] > 0}

\* The keys of my_resources_, and those of the map x_data of calc_interfere,
\* which has no entry for a resource that nobody else uses.
Own(ts, t)    == {r \in Resources : ts[t].req[r] > 0}
Shared(ts, t) == {r \in Own(ts, t) : Interfering(ts, t, r) # {}}

\* request_num of CSData: the requests of x for r while a job of t is pending.
Pending(ts, t, x, r) == NJobs(ts[x], ts[t].period) * ts[x].req[r]

Higher(ts, prio, t, r) == {x \in Interfering(ts, t, r) : prio[x] < prio[t]}
Lower(ts, prio, t, r)  == {x \in Interfering(ts, t, r) : prio[x] > prio[t]}
Equal(ts, prio, t, r)  == {x \in Interfering(ts, t, r) : prio[x] = prio[t]}

\* The waiting for the task's own other processors, when i of its requests for
\* r are on the critical path.
SelfWait(ts, proc, t, r, i) ==
  Min({(proc[t] - 1) * i, ts[t].req[r] - i}) * ts[t].cs[r]

\* The waiting for the own processors added up over all of them.
SelfWork(ts, proc, t, r) ==
  LET n == ts[t].req[r]
      p == proc[t]
  IN  (IF n < p THEN (n * (n - 1)) \div 2
                ELSE (p - 1) * (n - p) + (p * (p - 1)) \div 2) * ts[t].cs[r]

-------------------------------------------------------------------------------
(* Locks in FIFO order. *)

CriticalPathFifo(ts, proc, t) ==
  LET At(r, i) == SelfWait(ts, proc, t, r, i)
                  + SumFunction([x \in Interfering(ts, t, r) |->
                                   Min({proc[x] * i, Pending(ts, t, x, r)}) * ts[x].cs[r]])
  IN  SumFunction([r \in Shared(ts, t) |-> Max({At(r, i) : i \in 0 .. ts[t].req[r]})])

WorkFifo(ts, proc, t) ==
  SumFunction([r \in Shared(ts, t) |->
    SelfWork(ts, proc, t, r)
    + SumFunction([x \in Interfering(ts, t, r) |->
                     Min({proc[t] * Pending(ts, t, x, r), proc[x] * ts[t].req[r]})
                     * ts[x].cs[r]])])

-------------------------------------------------------------------------------
(* Locks in priority order, FIFO among equals. *)

\* One evaluation of the recurrence of delay_per_request, from the delay d.
NextDelay(ts, prio, proc, t, r, d) ==
  LET LowCS == {ts[x].cs[r] : x \in Lower(ts, prio, t, r)}
      High(x)   == NJobs(ts[x], d) * ts[x].req[r] * ts[x].cs[r]
      Same(x)   == Min({proc[x], Pending(ts, t, x, r)}) * ts[x].cs[r]
  IN  Max(LowCS \cup {0})
      + SumFunction([x \in Higher(ts, prio, t, r) |-> High(x)])
      + SumFunction([x \in Equal(ts, prio, t, r) |-> Same(x)])
      + Min({proc[t] - 1, ts[t].req[r] - 1}) * ts[t].cs[r]

\* delay_per_request: how long one request for r waits at most.  The loop starts
\* from 0 and goes on until the delay stays as it is or exceeds the period.
DelayPerRequest(ts, prio, proc, t, r) ==
  LET delay[d \in 0 .. ts[t].period] ==
        LET next == NextDelay(ts, prio, proc, t, r, d)
        IN  IF next = d \/ next > ts[t].period THEN next ELSE delay[next]
  IN  delay[0]

\* The result of calc_dpr_task: FALSE if the task set is to be given up.
DelaysBounded(ts, prio, proc, t) ==
  \A r \in Own(ts, t) : DelayPerRequest(ts, prio, proc, t, r) <= ts[t].period

\* sort_by_cslen and the loop after it: the longest n critical sections that
\* the tasks of lower priority have for r.
LongestLower(ts, prio, t, r, n) ==
  LET low == Lower(ts, prio, t, r)
      Before(x) == {y \in low : \/ ts[y].cs[r] > ts[x].cs[r]
                                \/ ts[y].cs[r] = ts[x].cs[r] /\ y > x}
      Left(x) == n - SumFunction([y \in Before(x) |-> Pending(ts, t, y, r)])
  IN  SumFunction([x \in low |-> Max({0, Min({Left(x), Pending(ts, t, x, r)})}) * ts[x].cs[r]])

\* req_inside_dpr: the requests of x that one request of t meets in its delay.
InsideDelay(ts, x, r, delay) == NJobs(ts[x], delay) * ts[x].req[r]

CriticalPathPrio(ts, prio, proc, t) ==
  LET Same(x, r, i) == Min({proc[x] * i, Pending(ts, t, x, r)}) * ts[x].cs[r]
      High(x, r, i, delay) == Min({InsideDelay(ts, x, r, delay) * i, Pending(ts, t, x, r)})
                              * ts[x].cs[r]
      At(r, i, delay) ==
        SelfWait(ts, proc, t, r, i)
        + LongestLower(ts, prio, t, r, i)
        + SumFunction([x \in Equal(ts, prio, t, r) |-> Same(x, r, i)])
        + SumFunction([x \in Higher(ts, prio, t, r) |-> High(x, r, i, delay)])
      Worst(r) == LET delay == DelayPerRequest(ts, prio, proc, t, r)
                  IN  Max({At(r, i, delay) : i \in 0 .. ts[t].req[r]})
  IN  SumFunction([r \in Shared(ts, t) |-> Worst(r)])

WorkPrio(ts, prio, proc, t) ==
  LET Same(x, r) == Min({proc[x] * ts[t].req[r], Pending(ts, t, x, r) * proc[t]})
                    * ts[x].cs[r]
      High(x, r, delay) == Min({InsideDelay(ts, x, r, delay) * ts[t].req[r],
                                Pending(ts, t, x, r) * proc[t]}) * ts[x].cs[r]
      Whole(r) ==
        LET delay == DelayPerRequest(ts, prio, proc, t, r)
        IN  SelfWork(ts, proc, t, r)
            + LongestLower(ts, prio, t, r, ts[t].req[r])
            + SumFunction([x \in Equal(ts, prio, t, r) |-> Same(x, r)])
            + SumFunction([x \in Higher(ts, prio, t, r) |-> High(x, r, delay)])
  IN  SumFunction([r \in Shared(ts, t) |-> Whole(r)])

-------------------------------------------------------------------------------
(* The bound for a lock type, "fifo" or "prio". *)

CriticalPathBlocking(ts, lock, prio, proc, t) ==
  IF lock = "fifo" THEN CriticalPathFifo(ts, proc, t) ELSE CriticalPathPrio(ts, prio, proc, t)

WorkBlocking(ts, lock, prio, proc, t) ==
  IF lock = "fifo" THEN WorkFifo(ts, proc, t) ELSE WorkPrio(ts, prio, proc, t)

\* The two reasons to give up the task set on account of t.
Hopeless(ts, lock, prio, proc, t) ==
  \/ lock = "prio" /\ ~ DelaysBounded(ts, prio, proc, t)
  \/ ts[t].period < ts[t].span + CriticalPathBlocking(ts, lock, prio, proc, t)

\* The processors that t needs when the allocation is proc.
Need(ts, lock, prio, proc, t) ==
  AllocProc(ts[t], WorkBlocking(ts, lock, prio, proc, t),
            CriticalPathBlocking(ts, lock, prio, proc, t))
===============================================================================
