----------------------------- MODULE ClusterTools -----------------------------
(***************************************************************************)
(* What lib_cluster.py does with lists and numbers, apart from any task    *)
(* set: sorting, rounding up, roots, and the service of jobs on one core.  *)
(***************************************************************************)
EXTENDS Integers, FiniteSets, SequencesExt, FiniteSetsExt, Functions

(***************************************************************************)
(* list.sort, which is stable, by a number that each place has, the least  *)
(* first, or by a comparison of the elements.                              *)
(***************************************************************************)
SortOn(s, key) ==
  LET Rank(i) == Cardinality({j \in DOMAIN s : key[j] < key[i] \/ (key[j] = key[i] /\ j <= i)})
  IN  [k \in DOMAIN s |-> s[CHOOSE i \in DOMAIN s : Rank(i) = k]]

StableSort(s, Before(_, _)) ==
  LET NotAfter(j, i) == Before(s[j], s[i]) \/ (~ Before(s[i], s[j]) /\ j <= i)
      Rank(i) == Cardinality({j \in DOMAIN s : NotAfter(j, i)})
  IN  [k \in DOMAIN s |-> s[CHOOSE i \in DOMAIN s : Rank(i) = k]]

\* The numbers of a finite set, in turn.
InTurn(ns) ==
  [k \in 1 .. Cardinality(ns) |-> CHOOSE i \in ns : Cardinality({j \in ns : j <= i}) = k]

\* The numbers from first on, below limit.
From(first, limit) == [i \in 1 .. limit - first |-> first + i - 1]

\* math.ceil of a quotient.
CeilDiv(a, b) == (a + b - 1) \div b

\* x ** n.
Power(x, n) ==
  LET Upto[k \in 0 .. n] == IF k = 0 THEN 1 ELSE x * Upto[k - 1]
  IN  Upto[n]

-------------------------------------------------------------------------------
(***************************************************************************)
(* single_simu, between two releases: the jobs that wait get the core in   *)
(* the order of their priorities.  A job is a record of prio, left, what   *)
(* it still has to run, and deadline.                                      *)
(***************************************************************************)
ByPriority(jobs) == SortOn(jobs, [i \in DOMAIN jobs |-> - jobs[i].prio])

\* One job gets what the jobs before it have left of the time to the next release.
Serve(acc, job) ==
  IF acc.room = 0
    THEN [acc EXCEPT !.wait = Append(@, job)]
    ELSE IF job.left <= acc.room
           THEN [acc EXCEPT !.room = @ - job.left, !.time = @ + job.left,
                            !.late = @ \/ job.deadline < acc.time + job.left]
           ELSE [acc EXCEPT !.room = 0,
                            !.wait = Append(@, [job EXCEPT !.left = @ - acc.room])]

\* All of them, from time on up to next: who still waits, and whether a job was late.
Served(jobs, time, next, late) ==
  LET After[k \in 0 .. Len(jobs)] ==
        IF k = 0 THEN [room |-> next - time, time |-> time, wait |-> <<>>, late |-> late]
        ELSE Serve(After[k - 1], jobs[k])
  IN  [wait |-> After[Len(jobs)].wait, late |-> After[Len(jobs)].late]
===============================================================================
