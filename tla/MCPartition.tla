----------------------------- MODULE MCPartition -----------------------------
(***************************************************************************)
(* Three tasks that share two resources, on a few processors.  A task is   *)
(* one of a few shapes and uses the resources in one of a few ways; some   *)
(* combinations are schedulable at once, some after more rounds, some only *)
(* under other priorities and some never.                                  *)
(***************************************************************************)
EXTENDS Partition

MCTasks == {1, 2, 3}

MCResources == {1, 2}

\* Much more work than a processor does in a period, less than that, and hardly
\* more than the span; always more than the span, as the generators make them.
\* cs is 0 where there is no request.
MCCandidates ==
  {[period |-> 8,  span |-> 2, wcet |-> 22, req |-> <<1, 0>>, cs |-> <<2, 0>>],
   [period |-> 20, span |-> 1, wcet |-> 2,  req |-> <<2, 6>>, cs |-> <<1, 2>>],
   [period |-> 10, span |-> 1, wcet |-> 4,  req |-> <<4, 1>>, cs |-> <<1, 2>>],
   [period |-> 16, span |-> 2, wcet |-> 8,  req |-> <<1, 1>>, cs |-> <<2, 1>>]}

MCTaskSets == [MCTasks -> MCCandidates]

\* All deadlines are met with room to spare or not at all, but for one: under
\* FIFO order its critical path with the blocking ends at the deadline.
MCTightSets ==
  {<<[period |-> 16, span |-> 3, wcet |-> 16, req |-> <<0, 1>>, cs |-> <<0, 2>>],
     [period |-> 12, span |-> 3, wcet |-> 10, req |-> <<0, 3>>, cs |-> <<0, 1>>],
     [period |-> 8,  span |-> 2, wcet |-> 6,  req |-> <<0, 3>>, cs |-> <<0, 1>>]>>}

\* Sockets of three cores.
MCLastCores == {2, 5, 8, 11, 14}
===============================================================================
