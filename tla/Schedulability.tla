---------------------------- MODULE Schedulability ----------------------------
(***************************************************************************)
(* The schedulability test that partition_random.cpp runs on a task set:   *)
(* it gives every task processors, bounds the blocking under that          *)
(* allocation, gives more processors to the tasks that need more, and goes *)
(* on until nothing changes or there is no hope.  Under locks in priority  *)
(* order it searches for locking priorities as well: deadline monotonic    *)
(* ones only ("dm"), all permutations ("opt"), or simulated annealing      *)
(* ("sim").                                                                *)
(*                                                                         *)
(* The program is sequential.  A step is one round of the loop of          *)
(* is_schedulable_common or annealing_cost, or one choice of priorities.   *)
(***************************************************************************)
EXTENDS BlockingBounds, FiniteSets, Functions

CONSTANTS TaskSets,   \* the task sets that the program may be given
          M,          \* number of processors of the system
          CostMax,    \* UINT_MAX, the cost of priorities without hope
          MaxTries    \* bound on the neighbours tried, 110 * 100 in the code

ASSUME SystemSize ==
  /\ M \in Nat \ {0} /\ CostMax \in Nat /\ CostMax > M
  /\ MaxTries \in Nat

\* What the requests and the critical sections of the others, on M processors at
\* most, and those of the task itself amount to for the resource r.
WorkLimit(set, t, r) ==
  set[t].req[r] * set[t].req[r] * set[t].cs[r]
  + SumFunction([x \in Tasks \ {t} |-> M * Pending(set, t, x, r) * set[x].cs[r]])

\* The task sets are those of the generators, where a task has more work than its
\* span and a longer period, and are far from the limit of unsigned long.
ASSUME GeneratedTaskSets ==
  \A set \in TaskSets, t \in Tasks :
    /\ set[t].period \in Nat /\ set[t].span \in Nat /\ set[t].wcet \in Nat
    /\ set[t].span < set[t].period /\ set[t].span < set[t].wcet
    /\ \A r \in Resources : set[t].req[r] \in Nat /\ set[t].cs[r] \in Nat
    /\ set[t].period < LongMod
    /\ set[t].wcet + SumFunction([r \in Resources |-> WorkLimit(set, t, r)]) < LongMod

VARIABLES ts,         \* the task set that was read
          mode,       \* "fifo", or prio_assign for locks in priority order
          prio,       \* priority_ of each task, 1 is the highest
          proc,       \* proc_num_
          newProc,    \* new_proc_num_
          converged,  \* converged_
          single,     \* blocking_on_single_
          whole,      \* blocking_whole_job_
          status,     \* schedulability_status
          pc,         \* what the test does next
          cost,       \* the result of the last annealing_cost
          old,        \* old_solution and old_cost of the annealing
          tries,      \* the neighbours tried so far
          tick        \* not in the code: changes with every step, so that a
                      \* round that changes nothing else is a step too

tvars == <<ts, mode>>
pvars == <<proc, newProc, converged, single, whole>>
svars == <<cost, old, tries>>
vars == <<tvars, prio, pvars, status, pc, svars, tick>>

Lock == IF mode = "fifo" THEN "fifo" ELSE "prio"

Total(f) == SumFunction(f)

Assignments == Bijection(Tasks, Tasks)

\* init_taskset: std::sort leaves the order of equal periods open.
DeadlineMonotonic ==
  {f \in Assignments : \A x, y \in Tasks : ts[x].period < ts[y].period => f[x] < f[y]}

InitialProc == [t \in Tasks |-> AllocProc(ts[t], 0, 0)]

\* Mutant: the permutations start from the allocation of the one before.
FreshTasksKeepsProc ==
  /\ proc' = IF mode = "opt" /\ pc = "permute" THEN newProc ELSE InitialProc
  /\ newProc' = proc'
  /\ converged' = [t \in Tasks |-> FALSE]
  /\ single' = [t \in Tasks |-> 0] /\ whole' = [t \in Tasks |-> 0]

\* init_iteration, reset_taskset and the first lines of the test: the state of
\* all tasks before the first round.
FreshTasks ==
  /\ proc' = InitialProc /\ newProc' = InitialProc
  /\ converged' = [t \in Tasks |-> FALSE]
  /\ single' = [t \in Tasks |-> 0] /\ whole' = [t \in Tasks |-> 0]

Init ==
  /\ ts \in TaskSets
  /\ mode \in {"fifo", "dm", "opt", "sim"}
  /\ prio = [t \in Tasks |-> 0]
  /\ proc = [t \in Tasks |-> 0] /\ newProc = proc
  /\ converged = [t \in Tasks |-> FALSE]
  /\ single = [t \in Tasks |-> 0] /\ whole = single
  /\ status = 0 /\ pc = "start"
  /\ cost = CostMax /\ old = [prio |-> prio, cost |-> CostMax] /\ tries = 0
  /\ tick = 0

\* startup_taskset, the check of is_schedulable and its choice of a test.  The
\* first permutation of "opt" is the one in the order of the task ids.
Start ==
  /\ pc = "start"
  /\ FreshTasks
  /\ IF Total(InitialProc) > M
     THEN /\ prio' \in DeadlineMonotonic
          /\ status' = 2 /\ pc' = "done"
     ELSE /\ IF mode = "opt" THEN prio' = [t \in Tasks |-> t]
                             ELSE prio' \in DeadlineMonotonic
          /\ pc' = "round" /\ UNCHANGED status
  /\ UNCHANGED <<tvars, svars>>

\* What the test does when it has found that the priorities are no good.
Reject ==
  IF mode = "opt" THEN /\ status' = 1 /\ pc' = "permute" /\ UNCHANGED cost
  ELSE IF mode = "sim" THEN /\ cost' = CostMax /\ pc' = "judge" /\ UNCHANGED status
  ELSE /\ status' = 1 /\ pc' = "done" /\ UNCHANGED cost

\* Mutant: the new numbers of processors are never copied.
CopiedNever == [t \in Tasks |-> proc[t]]

\* The allocation of this round: tasks that had converged keep theirs.
Copied == [t \in Tasks |-> IF converged[t] THEN proc[t] ELSE newProc[t]]

\* Mutant: a task that has converged once stays converged.
EvaluateOnce(S) ==
  LET needs == [t \in S |-> Need(ts, Lock, prio, Copied, t)]
      grows == {t \in S : needs[t] > Copied[t]}
  IN  /\ proc' = Copied
      /\ newProc' = [t \in Tasks |-> IF t \in grows THEN needs[t] ELSE newProc[t]]
      /\ converged' = [t \in Tasks |-> converged[t] \/ t \in S \ grows]
      /\ single' = [t \in Tasks |-> IF t \in S
                      THEN CriticalPathBlocking(ts, Lock, prio, Copied, t) ELSE single[t]]
      /\ whole' = [t \in Tasks |-> IF t \in S
                      THEN WorkBlocking(ts, Lock, prio, Copied, t) ELSE whole[t]]

\* The loop body for the tasks in S, which all have the blocking bounded.
Evaluate(S) ==
  LET needs == [t \in S |-> Need(ts, Lock, prio, Copied, t)]
      grows == {t \in S : needs[t] > Copied[t]}
  IN  /\ proc' = Copied
      /\ newProc' = [t \in Tasks |-> IF t \in grows THEN needs[t] ELSE newProc[t]]
      /\ converged' = [t \in Tasks |-> IF t \in S THEN t \notin grows ELSE converged[t]]
      /\ single' = [t \in Tasks |-> IF t \in S
                      THEN CriticalPathBlocking(ts, Lock, prio, Copied, t) ELSE single[t]]
      /\ whole' = [t \in Tasks |-> IF t \in S
                      THEN WorkBlocking(ts, Lock, prio, Copied, t) ELSE whole[t]]

HopelessTasks == {t \in Tasks : Hopeless(ts, Lock, prio, Copied, t)}

\* A round that meets a task without hope ends there: the tasks after it are
\* not looked at.
GiveUp ==
  /\ pc = "round" /\ HopelessTasks # {}
  /\ Evaluate({t \in Tasks : \A x \in HopelessTasks : t < x})
  /\ Reject
  /\ UNCHANGED <<tvars, prio, old, tries>>

\* A full round.  Only the test itself looks whether the processors suffice;
\* annealing_cost goes on until nothing changes.
Round ==
  /\ pc = "round" /\ HopelessTasks = {}
  /\ Evaluate(Tasks)
  /\ IF mode # "sim" /\ Total(newProc') > M THEN Reject
     ELSE IF \E t \in Tasks : ~ converged'[t] THEN UNCHANGED <<status, pc, cost>>
     ELSE IF mode = "sim"
          THEN /\ cost' = Total(newProc') /\ pc' = "judge" /\ UNCHANGED status
          ELSE /\ status' = 0 /\ pc' = "done" /\ UNCHANGED cost
  /\ UNCHANGED <<tvars, prio, old, tries>>

-------------------------------------------------------------------------------
(* The search of is_schedulable_prio. *)

\* The order of next_permutation.
Precedes(f, g) == \E t \in Tasks : f[t] < g[t] /\ \A x \in Tasks : x < t => f[x] = g[x]

Later == {g \in Assignments : Precedes(prio, g)}

NextPermutation ==
  /\ pc = "permute" /\ Later # {}
  /\ prio' \in {g \in Later : \A h \in Later : ~ Precedes(h, g)}
  /\ FreshTasks /\ pc' = "round"
  /\ UNCHANGED <<tvars, status, svars>>

LastPermutation ==
  /\ pc = "permute" /\ Later = {}
  /\ pc' = "done"
  /\ UNCHANGED <<tvars, prio, pvars, status, svars>>

-------------------------------------------------------------------------------
(* The search of is_schedulable_prio_anneal. *)

\* neighbor: two priorities that are next to each other, or the last and the
\* first one, change places.
Neighbor(f, t) ==
  LET u == IF t + 1 \in Tasks THEN t + 1 ELSE 1
  IN  [f EXCEPT ![t] = f[u], ![u] = f[t]]

\* acceptance_probability > random(): the difference of the costs is unsigned,
\* so exp is at least 1 and the probability always 1; random() is 0 (draw = 0)
\* or a positive integer.
Accepts(draw) == 1 > draw

Satisfied ==
  /\ pc = "judge" /\ ~ (cost > M)
  /\ status' = 0 /\ pc' = "done"
  /\ UNCHANGED <<tvars, prio, pvars, svars>>

\* The first cost is that of the deadline monotonic priorities.
FirstCost ==
  /\ pc = "judge" /\ cost > M /\ tries = 0
  /\ old' = [prio |-> prio, cost |-> cost] /\ pc' = "anneal"
  /\ UNCHANGED <<tvars, prio, pvars, status, cost, tries>>

Judge ==
  /\ pc = "judge" /\ cost > M /\ tries > 0
  /\ \E draw \in {0, 1} :
       old' = IF Accepts(draw) THEN [prio |-> prio, cost |-> cost] ELSE old
  /\ pc' = "anneal"
  /\ UNCHANGED <<tvars, prio, pvars, status, cost, tries>>

TryNeighbor ==
  /\ pc = "anneal" /\ tries < MaxTries
  /\ \E t \in Tasks : prio' = Neighbor(old.prio, t)
  /\ FreshTasks /\ tries' = tries + 1 /\ pc' = "round"
  /\ UNCHANGED <<tvars, status, cost, old>>

Cooled ==
  /\ pc = "anneal" /\ tries = MaxTries
  /\ status' = 1 /\ pc' = "done"
  /\ UNCHANGED <<tvars, prio, pvars, svars>>

Step ==
  /\ \/ Start \/ GiveUp \/ Round
     \/ NextPermutation \/ LastPermutation
     \/ Satisfied \/ FirstCost \/ Judge \/ TryNeighbor \/ Cooled
  /\ tick' = 1 - tick

\* The program goes on to write its files.
Finished == pc = "done" /\ UNCHANGED vars

Next == Step \/ Finished

Spec == Init /\ [][Next]_vars

-------------------------------------------------------------------------------
(* Correctness. *)

\* The numbers of processors and the locking priorities are what the code can
\* produce; the rest of the state by its kind.
TypeOK ==
  /\ ts \in TaskSets /\ mode \in {"fifo", "dm", "opt", "sim"}
  /\ prio \in [Tasks -> 0 .. Cardinality(Tasks)]
  /\ proc \in [Tasks -> Nat] /\ newProc \in [Tasks -> Nat]
  /\ converged \in [Tasks -> BOOLEAN]
  /\ single \in [Tasks -> Nat] /\ whole \in [Tasks -> Nat]
  /\ status \in 0 .. 2
  /\ pc \in {"start", "round", "permute", "judge", "anneal", "done"}
  /\ cost \in Nat /\ tries \in 0 .. MaxTries /\ tick \in {0, 1}

\* The deadline leaves room for more than the span and the waiting along it.
HasSlack(f, a, t) ==
  ts[t].period > ts[t].span + CriticalPathBlocking(ts, Lock, f, a, t)

\* An allocation that no task has a reason to leave.
SelfSupporting(f, a) ==
  \A t \in Tasks : ~ Hopeless(ts, Lock, f, a, t) /\ ~ (Need(ts, Lock, f, a, t) > a[t])

\* A task set that is called schedulable has an allocation on at most M
\* processors that supports itself, and the blocking bounds that are written
\* out with it are those of this very allocation and these priorities, not of
\* an earlier round or assignment (is_schedulable and what it calls).
VerdictSupported ==
  pc = "done" /\ status = 0 =>
    /\ ~ (Total(proc) > M)
    /\ SelfSupporting(prio, proc)
    /\ \A t \in Tasks : /\ single[t] = CriticalPathBlocking(ts, Lock, prio, proc, t)
                        /\ whole[t] = WorkBlocking(ts, Lock, prio, proc, t)

\* The allocations of M processors that support themselves without a division
\* by zero.
Feasible(f) ==
  {a \in [Tasks -> 1 .. M] : /\ Total(a) <= M
                            /\ \A t \in Tasks : a[t] >= InitialProc[t] /\ HasSlack(f, a, t)
                            /\ SelfSupporting(f, a)}

\* The rounds stop at the least feasible allocation, and give up only where
\* there is none: under the priorities of the test for "fifo" and "dm", under
\* any priorities for "opt" (is_schedulable_common, is_schedulable_prio).
LeastAllocation ==
  pc = "done" =>
    /\ status = 0 /\ (\A t \in Tasks : HasSlack(prio, proc, t)) =>
         \A a \in Feasible(prio), t \in Tasks : proc[t] <= a[t]
    /\ status = 1 /\ mode \in {"fifo", "dm"} => Feasible(prio) = {}
    /\ status = 1 /\ mode = "opt" => \A f \in Assignments : Feasible(f) = {}

\* The unsigned difference in alloc_proc never wraps: the bound on the work is
\* never so far below the bound on the critical path that work and span meet.
DemandNeverWraps ==
  \A t \in Tasks : ts[t].span + single[t] <= ts[t].wcet + whole[t]

\* The test ends: rounds, permutations and neighbours run out.
Terminates == <>(pc = "done")

-------------------------------------------------------------------------------
(* What the documents of the code say of it. *)

\* saved_taskset.h: status 0 "if the task set is schedulable".  The work of
\* every task, with the blocking, fits on its processors between the end of
\* its critical path and its deadline.
SchedulableMeetsDeadline ==
  pc = "done" /\ status = 0 =>
    \A t \in Tasks : LET path == ts[t].span + single[t]
                     IN  ts[t].wcet + whole[t] - path <= proc[t] * (ts[t].period - path)
===============================================================================
