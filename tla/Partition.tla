------------------------------- MODULE Partition -------------------------------
(***************************************************************************)
(* The partition that partition_random.cpp writes once the test is done,   *)
(* whatever its outcome: every task gets the next proc_num_ cores, and     *)
(* moves on to the next socket when its cores would lie on two.            *)
(***************************************************************************)
EXTENDS Schedulability

CONSTANTS FirstCore,    \* system_first_core
          LastCores     \* kLastCoresList, the last core of every socket

ASSUME CoreNumbers ==
  /\ FirstCore \in Nat
  /\ LastCores \subseteq Nat /\ IsFiniteSet(LastCores) /\ LastCores # {}

VARIABLES written,      \* the tasks written to the .rtps file so far
          nextCore,     \* current_first_core
          cores         \* the first and the last core of each task

wvars == <<written, nextCore, cores>>

PartitionInit ==
  /\ Init
  /\ written = {} /\ nextCore = FirstCore
  /\ cores = [t \in Tasks |-> [first |-> 0, last |-> 0]]

\* The last cores of the sockets that the cores from first on would cross.
Crossed(first, n) == {c \in LastCores : first <= c /\ c < first + n - 1}

\* Where a task of n processors starts.  Only one socket is looked at.
Placed(first, n) ==
  IF Crossed(first, n) = {} THEN first ELSE Min(Crossed(first, n)) + 1

\* One round of the loop that writes the tasks in the order of their ids.
WriteTask ==
  /\ pc = "done"
  /\ \E t \in Tasks \ written :
       /\ \A x \in Tasks : x < t => x \in written
       /\ LET first == Placed(nextCore, proc[t])
          IN  /\ cores' = [cores EXCEPT ![t] = [first |-> first, last |-> first + proc[t] - 1]]
              /\ nextCore' = first + proc[t]
       /\ written' = written \cup {t}
  /\ UNCHANGED vars

AllWritten == written = Tasks /\ UNCHANGED <<vars, wvars>>

PartitionNext ==
  \/ Step /\ UNCHANGED wvars
  \/ WriteTask
  \/ AllWritten

PartitionSpec == PartitionInit /\ [][PartitionNext]_<<vars, wvars>>

\* The program is a single thread that is scheduled: as long as the test has a
\* next step the program takes it.  This is weak fairness of Step, which is
\* enabled until the test is done.
PartitionFairSpec == PartitionSpec /\ ([]<>(pc = "done") \/ []<><<Step>>_vars)

-------------------------------------------------------------------------------
(* Correctness. *)

CoresOf(t) == cores[t].first .. cores[t].last

\* The number of sockets before that of core c.
Socket(c) == Cardinality({l \in LastCores : l < c})

SocketSizes == {Cardinality({c \in 0 .. Max(LastCores) : Socket(c) = k}) :
                  k \in 0 .. Cardinality(LastCores) - 1}

\* No core is given to two tasks, every task has the processors that the test
\* counted with, and one that fits on a socket is on one socket (the loop that
\* writes the partition).
PlacementInv ==
  /\ \A t, x \in written : t # x => CoresOf(t) \cap CoresOf(x) = {}
  /\ \A t \in written :
       /\ Cardinality(CoresOf(t)) = proc[t]
       /\ proc[t] <= Min(SocketSizes) => Socket(cores[t].first) = Socket(cores[t].last)

\* The allocation that the test leaves is the least one, its unsigned arithmetic
\* never wraps, and the cores written are those of that allocation.
AllocationIsRight == LeastAllocation /\ DemandNeverWraps /\ PlacementInv
===============================================================================
