# TLA+ models of the spin lock and clustering code

This directory holds TLA+ specifications of the concurrent core of the
repository and of the analysis, the clustering and the generators around it, TLC
configurations that check them on small instances, and TLAPS
proofs of the properties that matter most for every size. All paths below are
relative to the root of the repository.

## 1. The system

A task set of parallel real-time tasks that share resources is generated
(`taskgen*.py`, `.rtpt` files), partitioned and analysed (`partition*.cpp`,
`saved_taskset.cpp`, `blocking_analysis.cpp`, `.rtps` files) and then executed:
a *clustering launcher* forks one process per task, each of them a *task
manager* with a *synthetic task* whose OpenMP threads take spin locks in shared
memory. The launcher waits for the processes and reports misses of deadlines or
waiting times. Task sets without locks take another way: `taskgenerate.py`
draws and prints them, `synthetic_rtpt_generator.py` converts them, `cluster.py`
assigns cores. Scripts (`gather_*.py`) count what the experiments have left in
folders. The theory is about how long a request can wait for a lock; so the
locks, the life of a launch and the schedulability test came first here, then
the clustering, the generators and the scripts.

### Components, their state and their operations

| component | state | operations | talks to |
|---|---|---|---|
| ticket lock, `ticket_locks.c`, `atomic.h` | two 16-bit counters in one 32-bit word | lock, unlock, trylock, lockable | its threads, through that word |
| MCS list lock, `tpds/mcs_locks.c` | a tail pointer, one node per processor with `next` and `spin` | lock, unlock | its threads, each of which spins on its own node |
| priority lock with a bit set, `priority_locks.c` | `owner`, `waiters` (64 bits), a FIFO lock per task | plock_lock, plock_unlock | the local lock of each task |
| priority lock with an array of lists, `tpds/priority_queue_locks.c` | `owner`, an MCS list per priority | lock_prio, unlock_prio | the lists |
| single use barrier, `single_use_barrier.cpp` | a named shared counter | init, await, destroy | launcher and tasks, through a name |
| shared memory of locks, `spinlocks_util.cpp`, `tpds/spinlocks_util.cpp` | a named region with all locks | init, map, destroy | launcher (init, destroy) and tasks (map) |
| statistics, `statistics.cpp`, `statistics.h` | a named region with a log of arrivals and completions per resource | get, init, destroy; record_in and record_out in the task | launcher and tasks |
| fast launcher and task manager, `tpds/clustering_launcher_wlocks_fast.cpp`, `tpds/task_manager_fast.cpp` | list of children, verdict; per task the job, the count of misses, the exit status | init of objects, fork, wait, kill, result, destroy; bind, init, barrier, jobs, finalize | signals, exit statuses, shared memory |
| the other launchers and task managers, `clustering_launcher_wlocks{,2,3}.cpp`, `tpds/clustering_launcher_wlocks.cpp`, `task_manager.cpp` | as above, and the statistics | as above, except that a late job goes on | as above |
| synthetic task, `synthetic_task.cpp`, `tpds/synthetic_task.cpp` | segments, strands and sections of a program | init, run, finalize, lock and unlock wrappers | the locks, the statistics |
| blocking analysis, `blocking_analysis.cpp` | response times, numbers of processors, blocking times, priorities | is_schedulable, blocking under FIFO and priority order, annealing of priorities | the partitioning |
| partitioning, `partition.cpp`, `partition_random.cpp`, `saved_taskset.cpp` | the assignment of processors to tasks | read, iterate, write | the analysis |
| Python clustering, `cluster.py`, `lib_cluster.py` | the result list, the numbers of each core, lists of high and low tasks and of spare cores | place high tasks, fit into sockets, place low tasks, take a spare core, balance, simulate, chain of options | files; called by `taskgenerate.py` |
| generators with locks, `taskgen_wlocks*.py`, `tpds/taskgen_wlocks_base*.py` | utilisations, base task set, requests, strands | draw, spread requests over tasks, place them in strands, write | `.rtpt` files |
| generator and converter without locks, `taskgenerate.py`, `synthetic_rtpt_generator.py` | task set; files of programs | draw, print, convert, utility test | files, the clustering |
| gathering scripts, `gather_*.py`, `tpds/gather_*.py` | counts per type of lock, number of valid task sets | read a folder, count, discard, print | result files |
| time arithmetic, `timespec_functions.cpp`, `time_utils.c` | none | sum, difference, comparison, sleep, busy work | task managers |
| benchmarks and shell scripts | none that lasts | measurement, loops over files | files |

### What is hard here

* **Interleavings on one word.** The unlock of the ticket lock is a load and a
  store beside fetch-and-add and compare-and-swap of the same word; the MCS
  unlock looks at a link that a new request has not written yet; the priority
  lock looks at `waiters` and compares `owner` in two steps; the array-based
  lock scans up to 63 slots one by one.
* **Counters at their limits.** The ticket counters wrap at 2^16, the barrier
  counter is unsigned, the event log has room for `MAX_EVENTS` only.
* **Names that outlive processes.** Barrier, locks and statistics are found by
  name, every process opens with `O_CREAT`, all tasks unlink the barrier, and a
  launch that is killed leaves names and contents to the next one.
* **Processes that die in the middle.** A late task makes the launcher kill all
  others, wherever they are: with the lock, in the queue behind a dead holder,
  or before they report a miss of their own.
* **Failures of one step of several**: of an init, a fork, a binding, a set-up,
  a job, the result file.
* **Arithmetic of the analysis**: integer division, unsigned differences,
  recursions that must end.
* **State kept twice.** The clustering keeps the number of tasks, their
  utilisation and the shortest period of each core beside the list of tasks, and
  changes them in five places; verdict and partition of up to three attempts are
  mixed.
* **Files between programs**: what one program writes is exactly what the next
  one takes for granted (sections in order, work beyond the span, a whole task
  set), and a reading that ends half way must not be counted as a whole.

### What makes each component correct

* *Ticket and MCS lock*: they are one FIFO lock (mutual exclusion and order of
  requests), nobody starves, a word or a node that is reused does no harm.
* *Priority locks*: mutual exclusion; a waiting request is seen; a lower task
  overtakes it a bounded number of times (the bound that the blocking analysis
  accounts for); threads of one task are served in order; the highest task is
  served.
* *Barrier*: nobody passes early, all tasks of a launch use one object that the
  launcher has set, the unlinking is harmless, the launch goes on.
* *Launch*: it ends, with the right verdict, with nothing left behind, and it
  never uses what an earlier launch left.
* *Statistics*: each lock has an arrival before its completion and the queue
  length recorded never drifts. *Synthetic task*: locks are taken and released
  in pairs, the sections of a segment add up to its length. *Analysis and
  partitioning*: the recursion ends at a fixed point or at the deadline,
  processors assigned are disjoint and no more than there are, the bound is not
  less than what a lock model can show.
* *Clustering*: a verdict 0 is a guarantee, after every option, balance and mix of
  attempts; high tasks have cores of their own, and enough; of the numbers beside
  the lists, count and utilisation are exact and the shortest period is not too long;
  the simulation agrees. *Generators*: tasks have the work
  they were drawn for, sections do not overlap nor outlast their strand, no
  request is lost. *Scripts*: what is printed is what there was.

## 2. Modules

| module | models | checked by | proved in |
|---|---|---|---|
| `FifoLock` | the abstract FIFO lock: who has requested before whom, who holds | (abstract) | |
| `TicketLock` | `ticket_locks.c` | `MCTicketLock` | `Counters_proofs` |
| `McsLock` | `tpds/mcs_locks.c` | `MCMcsLock` | `McsLaunch_proofs` |
| `PrioLock` | `priority_locks.c` and `overhead_measurements/priority_wo_fifo_locks.c` | `MCPrioLock` | `PrioLock_proofs` |
| `PrioQueueLock` | `tpds/priority_queue_locks.c` | `MCPrioQueueLock` | `PrioQueueLock_proofs` |
| `Barrier` | `single_use_barrier.cpp`, over several launches | `MCBarrier` | `Counters_proofs` |
| `BlockingBounds` | the bounds on blocking of `blocking_analysis.cpp`, as pure operators | with `Schedulability` | `Partition_proofs` |
| `Schedulability` | the schedulability test of `blocking_analysis.cpp`, started as in `saved_taskset.cpp` and `partition_random.cpp` | `MCPartition` | `Partition_proofs` |
| `Partition` | the cores that `partition_random.cpp` writes after the test | `MCPartition` | `Partition_proofs` |
| `Launch` | `tpds/clustering_launcher_wlocks_fast.cpp`, `tpds/task_manager_fast.cpp`, init and destroy of the shared objects | `MCLaunch` | `McsLaunch_proofs` |
| `ClusterTools` | what `lib_cluster.py` does with lists and numbers: sorting, rounding up, and the service of jobs on a core between two releases in `single_simu` | with `Cluster` | `SumTheorems` |
| `ClusterPartition` | `cluster_partition` of `lib_cluster.py` with the functions it calls | with `Cluster` | `Cluster_proofs` |
| `ClusterSimulation` | `cluster_simulation` and `single_simu`, and what they are meant to decide | with `Cluster` | `Cluster_proofs` |
| `TaskGenerate` | the generation of a task set in `taskgenerate.py` | with `Cluster` | `Cluster_proofs` |
| `Cluster` | the programs around: `cluster.py` and `utility_test` | `MCCluster` | `Cluster_proofs` |
| `LockTaskSets` | the five versions of `taskgen_wlocks` | with `Experiment` | `Experiment_proofs` |
| `RtptGenerator` | `print_taskset` of `taskgenerate.py` and `synthetic_rtpt_generator.py` | with `Experiment` | `Experiment_proofs` |
| `GatherData` | the scripts that gather results | with `Experiment` | `Experiment_proofs` |
| `SyntheticTask` | `synthetic_task.cpp` of all tasks of a launch, with the log of `statistics.h` and the file that `clustering_launcher_wlocks.cpp` writes of it | with `Experiment` | `Experiment_proofs` |
| `Experiment` | one of these four programs, each alone | `MCExperiment` | `Experiment_proofs` |
| `SumTheorems` | (the laws of sums over sets and sequences, of maxima, of lists that are sorted or joined, of functions that are defined along the numbers, of utilisation bounds and of jobs that a core serves by priority: lemmas that three of the proofs rest on) | | `SumTheorems` |

Composition goes through abstractions. `TicketLock` and `McsLock` implement
`FifoLock`; the local locks of `PrioLock` and the lists of `PrioQueueLock` *are*
such abstract locks (an instance per task, checked by the runs), so they stand
for either implementation, as in `overhead_measurements/priority_ticket_locks.c`
and `priority_mcs_locks.c`. `Launch` uses the barrier and a lock by what the
modules of these promise. `Schedulability` extends `BlockingBounds`, and
`Partition` goes on where `Schedulability` is done. `Cluster` extends the
generation, the simulation and the partition, which call each other in one
program. `Experiment` puts four programs that never run together into one
specification: a behaviour is one run of one of them. What lies between them in
an experiment, the test and the end of the launches, is any content of the folder
there. `SyntheticTask` uses the locks by what their modules promise: they are
granted in the order of the requests, or of those of one task.

### How the models correspond to the code

* A step is one access to shared memory, or a stretch of code of one thread
  that touches nothing shared. `pc` names the next step (`at` in `Launch`). Fetch-and-add,
  compare-and-swap and exchange are one step each, a load and a store are two.
* `TicketLock`: `ticket`, `users` are the two halves of the word, `me` the local
  variable, `reg` the register between the load and the store of `ticket++`.
  The width is the constant `W`. `Lockable` models the read-only
  `ticket_lockable`. Init is the state `init_spinlocks` makes.
* `McsLock`: `m` is the tail, `next` and `spin` the node of each processor. There
  is one node per processor, as in `tpds/spinlocks_util.cpp`, and it is used
  again for each request. `tail` and `ahead` are auxiliary: the local variable
  that the exchange returned, and the order of requests for the refinement.
* `PrioLock`: `owner` holds the priority, `waiters` is the set of bits, so "is
  there a higher bit" is `waiters \cap Higher(p) = {}`. `LocalFifo = FALSE` is
  the variant without local locks. `passed` is a history variable that counts
  acquisitions by lower tasks, up to 2, which is all the property asks.
* `PrioQueueLock`: `slot` is the `i` of the scan. A slot of the array is empty
  exactly when its list has no requests, which is `ListInv` of `McsLock`.
* `Barrier`: `objects`, `name` and `value` are the shared memory objects, what
  the name stands for and the counters; `obj` is the mapping of each task.
  Launches follow each other, and each may be killed (`kill(0, SIGTERM)`) at any
  step, which leaves name and counter as they are.
* `Launch`: `children` is the list of process ids without those that the loop
  over it has passed; `status` is how a task ended; `queue` is the one lock all
  jobs take; `late` is `deadlines_missed > 0` of each task. An error path that
  calls `kill(0, SIGTERM)` is `KillGroup`, one that just returns ends the task
  or the launcher alone.
* `BlockingBounds`: an operator per function of the analysis, over the task set
  `ts`, the allocation `proc` and the priorities `prio`. `x_data` of
  `calc_interfere` is not a variable: its keys are `Shared`, its request numbers
  `Pending`. The loop of `delay_per_request` is a recursive function of the delay
  so far, which grows with each round until it stays or exceeds the period.
  `LongMod` is the modulus of `unsigned long`, and `DivByZero` what casting an
  infinite quotient to `unsigned int` gives (undefined in C++; 0 on x86-64).
  Doubles are exact; the values of the code, up to about 2^40, are exact there
  too, and only the quotient is rounded.
* `Schedulability`: a step is a round of the loop in `is_schedulable_common` or
  in `annealing_cost` (the two loops are the same but for what they do at their
  end), or a choice of priorities. `GiveUp` is a round that ends at the first
  task without hope and so updates only those before it. The order of tasks with
  equal periods after `std::sort`, the position that `neighbor` draws and the
  result of `random()` are free choices. `Later` is the order of
  `next_permutation`. `tick` is auxiliary: it changes with every step, so that a
  round that repeats itself for good is a behaviour and no stutter.
* `Partition`: `nextCore` is `current_first_core`; the partition is written
  whatever the verdict, as in the code.
* `ClusterPartition`: a step is one task placed, moved or refused. `out` is
  `outinfo`, `stat` is `corestat`, and `corestr` is not a variable since it is
  what `out` has on a core (`OnCore`). Utilisations are in units of `1/Hyper`,
  exactly; the code has doubles. The bound of `n` tasks whose periods are within a
  factor, `n * (r^(1/n) - 1) + 2/r - 1`, is compared by powers of integers.
  A row of the code in which a core is first added to the low ones and then
  chosen is one step. `fit` tells which of the two fits into sockets was made.
* `Cluster`: `Returned`, `TryNext` and `Kept` are the chain of up to three calls
  that `cluster.py` ("balance") and option 5 of `cluster_assign_core` have in
  common. `ReadFails` is an input that is malformed; nothing is written then. What is
  read is `Regular`: the critical path is part of the work, which the code takes for
  granted, and the utilisation is exact in units of `1/Hyper`.
* `LockTaskSets`: `version` picks one of five files that have most of their text
  in common; `map` names each file for some of the definitions. A draw that is
  repeated is no step. `Timespec` is `convert_nsec_to_timespec` as it is.
* `GatherData`: a file of a task is what its first line tells: `ok`, `missed`,
  `empty`, `unbound`. `Passes` are the readings of a folder that a script makes.
* `RtptGenerator`: `printing` is `progid`, `period` and `task` of the loop in
  `print_taskset`. The subtasks come as `sort(sortprog)` leaves them, by program; that
  function is in a library outside the repository. The files come in the order of
  `sorted(glob(...))`, which is that of names, with `task10` before `task2`: `NameRank`
  is that order. `broken` is the place where one of the files is malformed, or
  none is; the exception ends the program there, with what it has written.
* `SyntheticTask`: `code` is `program` of each task, a section without a resource
  has `res` 0 as in the code, `nextStrand` is the shared index of the parallel loop
  (`omp_sched_dynamic` with chunks of 1). The records are three steps: the spinlock,
  the number, and its count with the release of the spinlock. `ran` is auxiliary, the
  time that `busy_work` has been asked for. A program is one that the generators write
  (`GeneratedPrograms`, which is what `RequestsArePlaced` promises of them), so that no subtraction
  of `init` is negative. Failures, bindings and the barrier are
  in `Launch`; here all tasks are set up before one starts a job. `data` has numbers
  where the code has a `char`: threads are fewer than the 127 it can count.

## 3. Runs

| run | instance | asks |
|---|---|---|
| `ticket_lock` | 3 threads, `W = 4` | Do lock, trylock and unlock implement the FIFO lock across wraps (`ImplementsFifo`); are the numbers of outstanding requests those from `ticket` to `users` (`QueueInv`); does `ticket_lockable` tell a free lock (`LockableIffFree`); is every ticket served (`StarvationFree`)? |
| `mcs_lock` | 3 processors | Are the nodes one queue at every step (`ListInv`), is a node without a request never written by a neighbour (`IdleNodeUntouched`), is the FIFO lock implemented, is everybody served? |
| `prio_lock` | 4 threads of 3 tasks, 2 of them of the highest one | Mutual exclusion, visibility of an announced request, no bit left behind (`NoStaleBit`), at most one overtaking per lower task, local locks used as FIFO locks, service of the highest task. |
| `prio_queue_lock` | 4 threads of 3 tasks | As `prio_lock`, for the scan of the array. |
| `barrier` | 3 tasks, 3 launches, counter of width 6 | Nobody leaves early, one object per launch, unlink of one's own object only, the launch ends. |
| `launch` | 3 tasks, 2 jobs, 2 launches; tasks may die by a fault of their own anywhere | Without such a fault: right verdict, nobody left behind a dead holder, nothing left, every launch ends. With one too: no inherited requests (`QueueIsLive`), objects outlive the tasks that may use them. |
| `launch_verdict` | 2 tasks, 1 launch | *Violation.* "schedulable" is written for a task set that has not run, because a task could not be bound. |
| `schedulability` | 64 task sets of three tasks of four shapes, two resources, 7 processors, sockets of 3 cores; FIFO, dm, opt, sim | Does a verdict rest on the allocation, priorities and bounds that are written with it (`VerdictSupported`); does the test end (`Terminates`)? Is that the least feasible allocation, and is there none after a refusal, does the unsigned work ever wrap, and are the cores written disjoint, as many as counted, and on one socket if they fit (`AllocationIsRight`)? |
| `sched_deadline` | one tight task set | *Violation.* A task with no room left before its deadline is schedulable, by a division by zero. |
| `cluster` | `cluster.py` with options 0 to 3, 5 and 6 on 1,733 task sets of up to 7 tasks, 9 cores in sockets of 3; `utility_test` on the task sets it generates | Does verdict 0 mean that every deadline is met, and has the schedule each task once (`ScheduleIsRight`); have high tasks cores of their own, and enough (`HighTasksKeepCores`); are the number of tasks and the utilisation of each core exact, and its shortest period no longer than theirs (`StatIsExact`); does the simulation decide right and agree with the test (`SimulationAgrees`); do the programs end (`ProgramsEnd`)? |
| `cluster_guarantee` | option 3 on the same task sets | *Violation.* A sequential task of high utilisation is guaranteed on no core. |
| `experiment` | five generators with 2 or 3 tasks, variants of 1 and 4 requests or of 1 and 2 resources; folders of two task sets for 7 scripts; 85 printed task sets, one of them of ten programs, each with any one of its files malformed; two task sets of two tasks with 3 threads in all, each for both types of locks, 2 jobs, a log of 5 events | Do tasks have the work, span and releases that they were drawn for (`WorkFollowsUtil`); do sections fit, and is no request lost (`RequestsArePlaced`); is the log of a lock exact, however the threads of the tasks interleave (`LogIsExact`); are the counts, the converted lines, the statistics written and the work that a job runs right (`OutputsAreRight`)? |

**Why the bounds are enough to be interesting.** `W = 4` with three threads
wraps after four requests and is the least width with `Cardinality(Procs) < W`;
three threads give a holder, a successor that has not linked itself and a third
one behind it. Three tasks with two threads in one of them have a task that is
both lower and higher than another, a shared bit, and a next head of a list
during a release. Three launches give a launch that follows a killed one that
followed a killed one; three tasks in `Launch` give one that is late, one with
the lock and one behind it. `Jobs = 2` is the first value with a job whose
deadline counts. `MaxLaunches`, `MaxTries` and the capped history `passed` are the only
artificial bounds. Nothing is capped that a property talks about: the theorems
in section 4 hold for all values. The task sets of `schedulability` are chosen
so that all of these happen: status 0, 1 and 2; a task that converges and needs
more again after another one has grown; a set that only a later permutation
makes schedulable; a task with hardly more work than span, for which the
unsigned difference is closest to wrapping. `MaxTries` is 2 instead of 11,000:
every neighbour starts from fresh tasks, so that more of them repeat the same
step from other priorities, which `opt` goes through in full. `LeastAllocation`, a
part of `AllocationIsRight`, compares with all allocations of `M` processors, by enumeration, and leaves out
the tasks of `sched_deadline` that have no room before the deadline.

In `cluster`, nine cores in sockets of three and high tasks of 2, 3, 4 and 7
cores make all of these happen: a task larger than a socket, a fit into
sockets of high tasks with and without low ones, a last core that a fit has taken
from a high task and that gets a low one, a balance of one move and of two, a
chain of one call, of two and of three, with a partition at the end of each, and
one without any. The periods 4, 6, 8 and 12 are harmonic in part, so that the
conditions of the properties are met and missed. In `experiment` lengths of 3 and 5 with a
distance of 2 leave a rest in every strand, a strand takes two requests, and with
four requests to one resource some find no strand with room; folders have each
status with each kind of first line, so that scripts end with figures and with an
error; those of the complete ones have sets without a miss, with one at the end, with a task
that was not bound at the start and, but for tpds, after a miss. Of its logs some overflow and some do not, with 4, 8 and 12 events for a
room of 5. TLC was asked for a state that shows each of these, and found one.

**Deadlock** is checked for the locks, and for the test and the partition, the
clustering and the programs of `Experiment`, whose last states loop. `Barrier` and `Launch` stop after
`MaxLaunches`, so it is off there, and `LaunchEnds` asks the question instead.

**Fairness.** Lock modules: a thread inside lock or unlock keeps running, since
every thread has a processor of its own and spins; a critical section ends. No
thread has to make a request. Nothing is assumed about who wins a race:
fairness is weak, per thread, on the disjunction of its steps. `Barrier` and
`Launch`: launcher and tasks keep running, a pending `SIGTERM` is delivered (no
handler is installed and nothing blocks it); failures and crashes are never
required. `LaunchEnds` is about launches in which no task dies by a fault
of its own (`NoFault`): one that does so before the barrier lets all others
wait, and the code has no answer to that.

The test is one thread that runs as long as it has a step: weak fairness of
`Step`. `PartitionFairSpec` writes it without `ENABLED`, as "done infinitely often, or
infinitely many steps", which is the same since `Step` is enabled exactly until
the test is done; TLC evaluates `ENABLED` of these rounds too slowly.

`ClusterFairSpec` of `Cluster` is weak fairness of the steps of the program in the same
form: it is enabled except after the end, which the absence of deadlocks shows,
and while `utility_test` draws a task set, which need not come to an end.
`Experiment` has no property of liveness: the draws of a generator may go on for
ever, that locks are granted is asked of their own modules, and the other
programs are loops over finite lists.

Every property is paired, in `PROJECT.json`, with a mutated definition in the
module (after a comment *Mutant*): a plausible slip in the code under which TLC finds
that property violated.

## 4. Proofs

All proofs are checked by TLAPS to the last leaf and hold for every value of the
constants that satisfies the named assumptions (`PrioTyping`, `LaunchSize`, ...).

* `Counters_proofs`, the ticket lock: typing, mutual exclusion, `QueueInv`,
  `LockableIffFree` and the refinement of `FifoLock`. The inductive invariant says
  that the number of a request is its distance from `ticket`, modulo `W`, and that
  distances are distinct; it needs fewer threads than `W`, which is where a 16-bit
  counter enters. Mutual exclusion alone is not inductive. The barrier:
  `NobodyLeavesEarly`, `OneBarrier`, `NameBelongsToLaunch`, `NameIsGone`. The
  counter of the one object is the number of tasks that have yet to arrive, a fact
  on cardinalities.
* `McsLaunch_proofs`, the lock: `ListInv`, mutual exclusion, `IdleNodeUntouched` and the
  refinement. The invariant relates the tail, the predecessor each thread got
  from the exchange, and the link that it has or has not written: a queue in
  which every request but the first has one predecessor and none has two
  successors.
* `PrioLock_proofs` - mutual exclusion and `NoStaleBit` with and without local
  locks; with local locks `AnnouncedIsVisible` and `OvertakenOncePerTask`. The
  argument for the last: when a lower task has overtaken a request, none of its
  threads is between look and compare-and-swap (`OvertakeInv`), since the local
  lock lets one thread of a task compete and a new look finds the bit.
  `LocalLocksAreFifo`: for every task, what its threads do is a step of
  `FifoLock`, and what those of other tasks do is a stutter.
* `PrioQueueLock_proofs` - mutual exclusion, one head per list,
  `OvertakenOncePerTask`: a lower task that has overtaken has no head that is
  past the slot in its scan. `ListsAreFifo`, as above.
* `McsLaunch_proofs`, the launch: `ObjectsOutliveTasks` and `QueueIsLive` whatever happens, and
  `VerdictIsRight`, `NobodyIsLeftBehind` and `NothingLeft`, which ask for `NoFault`. Four
  invariants build on each other: in which phase there are tasks (`PhaseInv`),
  who has been signalled (`SignalInv`), what a miss leads to (`VerdictInv`), and
  what the queue holds (`QueueInv`).
* `Partition_proofs` - `VerdictSupported` and `AllocationIsRight`, in four layers.
  *Bookkeeping* (`Inv`), with opaque bounds: a task that has converged has nothing
  left to copy (`NothingLeftToCopy`), so that a round in which all converge has
  bounded the blocking under the very allocation it leaves; a satisfactory cost is
  the total of a supported allocation (`CostIsSupported`); priorities that were
  given up leave a status other than 0 (`GivenUp`).
  *Types and bounds*: blocking times are natural numbers, and more processors never
  make them smaller (`BlockingMonotone`), which goes through every function of the
  analysis: the recurrence of the delay, pending requests, interference, the choice
  of the worst resource, `alloc_proc`. This is where sums and maxima enter.
  *Least allocation*: every allocation that supports itself is at least the
  one that the rounds have reached (`LeastInv`), so that a task that has no hope now
  has none under any of them; for the optimal search the priorities that have been given
  up are those before the present ones in the order of `next_permutation`, and
  its end is the last of them. The unsigned work never wraps (`DemandIsExact`),
  since response time and critical path are below the period.
  *Cores written* (`WrittenInv`): the tasks written so far have intervals
  below `nextCore`, as long as counted, and on one socket if they fit.
  Of the assumptions, `BoundsConstants`, `SystemSize` and `CoreNumbers` are about numbers;
  `GeneratedTaskSets` is what the generators write and `saved_taskset.cpp` reads:
  a critical path below the period and below the work, and periods, and works with all that
  requests can add, below the modulus of `unsigned long`
  (`taskgen_wlocks.py:167-237`, `254-260`; `WorkFollowsUtil` of `LockTaskSets` is the
  property of the generators that it rests on.)
* `Experiment_proofs` - `RequestsArePlaced`, for all lengths, distances, numbers of
  requests and resources, under the assumption that no critical section is longer
  than the distance, as in the code, which takes the longest length for it. The
  invariant says that the offset of a section is the distance times the number of
  those before it in its strand, and that a strand takes another one only if it
  has room for the whole distance. That the requests of all tasks add up to what
  a variant asks for comes from the draw and is kept by every later step.
  `LogIsExact`, for every number of tasks, threads and resources: the invariant
  (`LogInv`) says that a thread between its look at the log and the count of its event
  has the spinlock, so that at most one number is under way; that this number is the
  one before it plus or minus one; and that the last one that counts is the
  cardinality of the set of requests under way, as long as there is room. That a
  completion finds an event follows: its own arrival is in that set.
  `WorkFollowsUtil` (`WorkInv`), for every base task set: what has been drawn so far
  and what is left add up (`UtilInv`), segments add up to work and span
  (`BaseInv`, `DraftInv`), and the lines of a file say the same (`FileInv`);
  `LockTaskSetsSize` is about the units of time and utilisation.
  `CountsAreRight`, the part of `OutputsAreRight` on the scripts (`GatherInv`): in the middle of a pass a counter
  is what the files say of the task sets before the present one, and the results of the passes that are
  complete are those of all; no pass changes the folder. It is proved for every number of task
  sets and all that a folder may hold of them, with the two types of locks that there are, for the
  folders that `Complete` describes. At the end of the reading by the functions of tpds it needs that
  the first file of a task that was not bound has no miss before it (`NoneStops`).
  `WorkIsRun` and `FileIsComplete`, two more parts of `OutputsAreRight` (`RunInv`), for
  every program that the generators write and any number of threads. A strand is a walk from 0 to its
  length, and each section ends where the next one begins (`SectionsAre`), which rests on
  critical sections that neither overlap nor outlast the strand; so what has been run and what is left
  of the strands under way are what has been handed out (`RanInv`). The log is counted by a
  set: an event is a request of a job with its arrival or completion, `Happened` are those
  that the threads are past, each count of an event adds one to it and every other step
  leaves it alone (`CountedInv`); after the last job it has all of them.
  `ConversionIsRight` (`ConvInv`), for every task set that is sorted by program and any
  order of names: the subtasks of a program are an interval of the list, and a file has
  the part of it that the loop has passed (`PrintInv`); the files that have been read
  come before all others (`OrderInv`), and a malformed place is in none of them (`BrokenInv`).
  With it `OutputsAreRight` is proved as a whole (`OutputsFollow`).
* `Cluster_proofs` - `StatIsExact`, `HighTasksKeepCores`, the types, `ScheduleIsRight` and
  `SimulationAgrees`: for every task set, every
  number of cores and size of sockets, and every option and chain of calls. None of
  them is inductive; `AllInv /\ Guards` is, and TLC has looked at it in the states of `cluster` before.
  `PhaseInv` says for each phase of the partition which tasks have been placed, which
  wait and which have been moved, each of them once: with it the sets of tasks that the
  statistics of a core count are disjoint, so that one task more or less is one
  summand more or less (`StatInv`). What `StatIsExact` says of the
  shortest period comes from `LeastKnown` below. `HighClusters` has the clusters of high tasks one
  behind the other, with the sum of their sizes as the next free core; since a fit into
  sockets places the same sizes, what it leaves is free too. `LendInv` says that a
  last core is offered at most once, by a cluster of at least three that is tight, so
  that taking it leaves the floor (`FloorInv`), and that after a fit which keeps the
  order it is still the last core of the cluster that is named. Then
  `OwnInv` follows at each step: low tasks go to low cores (`LowInv`), and those are in no cluster
  of a high task. `KeptInv` and `CountInv` carry the result through
  the chain of calls to the file. The lemmas below it are about sorting (it keeps each
  element once), removal from a list, the first element of a list that passes a test,
  the search of balance over pairs of cores, and the recursion (`Used`) that tells how many
  cores the sockets take.

  *The guarantee* (`GuaranteeHolds`, a part of `ScheduleIsRight`) is a fact about response
  times: on each core there is for each task a time up to its period in which all that
  may be released before it is done (`Feasible`). `BoundIsEnough` derives it from
  the test of the code, `sumutil <= n (r^(1/n) - 1) + 2/r - 1`. If there were no such
  time, then each period would be shorter than what is demanded in it, one inequality for each
  task (`Overloaded`); summed up they give a product of ratios that is too large, by the inequality of
  the arithmetic and the geometric mean, which is proved here for integers
  (`MeanOfRatios` in `SumTheorems`, from `Bernoulli`, by induction over prefixes). For harmonic
  periods the utilisation is enough (`HarmonicIsEnough`). `Guards` is what each step
  has to keep for it: the tasks of every core, moved ones included, are feasible in the order of
  periods (`LowGuard`); the period in the statistics of a core is that of a low task, and
  no longer than that of any task on the core, which is what the test needs (`LeastKnown`, for close periods); the tasks that wait have longer periods than
  those placed (`Waiting`); moved tasks are on cores that were empty (`MovedApart`), so that the list
  that balance tests is the whole core; high tasks have all the cores they ask for as long as the
  verdict is 0 (`HighMeets`). A move is the hard step: a task joins in the middle of the order, the
  code tests the bound from there on only, and the tasks before it keep theirs
  (`TargetIsFeasible`); the core that loses it keeps its own (`CoreWithLess`). `KeptGuard` and `FileGuard`
  carry the verdict with its partition through the chain.

  *The simulation* (`SimulationAgrees`) compares two computations: `single_simu` runs the jobs of a
  core from release to release, while `MeetsDeadline` asks whether what is demanded fits before the
  deadline of each task. `CoreAgrees` has that they say the same on a core with harmonic periods. Both
  come down to one number. The simulation passes if and only if the time that is left between the
  releases is, for each priority, enough for what was released so far: after each release the jobs that wait
  are exactly the remainder (`CoreService`, by induction over the releases; one job after another
  in the lemmas of `SumTheorems` on jobs). And a time that is enough exists if and
  only if the whole period of the lowest task is one, since the demand grows no faster than in
  proportion at a common multiple (`ExeTimeFits`, from `RequestedRate`). Around it, the partition has to be what the
  simulation takes it for. Low tasks are ranked by period on each core, whatever the verdict
  (`RankGuard`); no two entries start on the first core of a cluster, also after
  a fit into sockets that gave up a core (`FirstGuard`), so that a cluster is alone on its list; and a
  task that is alone needs no more than a core, but for the case of `NoClusterCut`
  (`TimeIsEnough`). That `utility_test` never counts a task set which was guaranteed and fails (`NoWhat`)
  needs that the sets it draws are harmonic, made of segments (`Segmented`) and not empty (`DrawnInv`), which the
  antecedent of the other parts asks for; `WhatInv` carries it through the calls with options 5 and 6.

  The assumptions are `ClusterSize`, `GenerateSize`, `HarmonicSets`, `ClusterRuns` and `InputsRead`.
  `HarmonicSets` is the choice of periods in `taskgenerate.py`, powers of two, and that a task set may fall
  short of the utilisation asked for by less than all of it.
* `SumTheorems` - sums of a function over its domain or a part of it (`SumFunction`,
  `SumFunctionOnSet`), least and greatest elements: one more element, one changed
  value, another order, monotonicity, bounds. The community modules define them by folds whose
  step is a parameter; each lemma is proved for the sum alone, by induction
  over subsets of the domain (a set of subsets that contains the empty set and is closed
  under one more element is all of them), which is first-order. Then lists: sorted by rank, joined,
  with one element less; and chains, the functions `f[n]` that are defined from `f[n - 1]`, of which powers are one.
  The last part is about numbers alone: the inequality of means and the bound that follows from it, quotients
  rounded up, and periodic jobs that are served in the order of their priorities.

**Only model-checked.** Liveness (`StarvationFree`, `HighestIsServed`,
`LaunchEnds`, `Terminates`, `ProgramsEnd`): fairness is out of the prover's reach. Every other
property of a passing run is stated by a theorem.

## 5. What the violations show

1. The launcher reports "schedulable" when a task ended with an error
   (`launch_verdict`).
2. The test accepts a task with no time left between the end of its critical
   path and its deadline: it tests `<` where the next step divides by the
   difference (`sched_deadline`).
3. `cluster.py` guarantees a task on no core (`cluster_guarantee`). The number of
   cores of a task of high utilisation is `ceil((C - L) / (P - L))`; for a
   sequential one, where `C = L`, it is 0, and only 1 is raised to 2
   (`lib_cluster.py:503`). `ScheduleIsRight` and `HighTasksKeepCores` leave such
   task sets out (`Parallel`).

Other disagreements between code and comments, which follow from the models but
have no run of their own:

* A head of the array-based lock attempts "when all higher priority slots are
  empty" (`tpds/priority_queue_locks.c:10`), but the scan is not atomic: a
  request that joins after its slot was scanned is overtaken. The models bound
  this: once per lower task, not once in all, where `max_cslen_lp` of the
  analysis accounts for one.
* "Kill the other children" (`tpds/clustering_launcher_wlocks_fast.cpp:516`)
  also sends signals to process ids that have been reaped: `SendTerm` goes
  through all tasks.
* `njobs` is the "maximum number of jobs" that can be pending
  (`blocking_analysis.h:38`), but its integer division rounds down: 1 for an
  interval of 8 and a period of 20, where two jobs can be pending.
* A resource that only one task uses adds nothing to its blocking (`Shared`),
  although its processors wait for each other there.
* A schedulable task set may get cores that the machine does not have, which
  `inspect_partition.cpp:50` calls invalid: the test does not count the cores
  that are left free at the end of a socket.

* The annealing is meant to move by a probability (`blocking_analysis.cpp:945`), but
  it compares one with the integer of `random()` (998), which is nearly always
  larger: it stays at its first priorities and tries their neighbours. The model
  has a free choice there.

In the clustering:

* The mapping of periods (`Scaled`) is linear, so that periods that are neither harmonic
  nor within a factor of two keep no order that the bound on the utilisation rests
  on: verdict 0 can then go with a miss (periods 8, 12 and 96, works of 4 and 5).
  `SoundPeriods` leaves them out.
* With option 1 (`worstfit`) the bound is tested core by core, but if any core accepts the
  task it goes to the one of least utilisation (`lib_cluster.py:247-252`), whose own bound it
  need not keep; the verdict stays 0. With a high task on seven of nine cores and low
  ones of periods 8, 12, 12 and works 5, 8, 4 a deadline is missed then. For harmonic periods this does no harm,
  since the least loaded core has room if any has; for others `SoundPeriods` leaves option 1 out. The proof
  of the guarantee found this: it could not show that the core that gets the task keeps its bound.
* After a fit into sockets a high task of two cores can lose one of them to a low task
  (`possible` has all clusters then, where it else has only those of three cores or more). It stays with a utilisation above 1 on
  a single core, with verdict 1, and `cluster_simulation` prints "!!!impossible: high on single
  core" (`lib_cluster.py:883`) and goes on to pass it, since it does not simulate a task that is
  alone. `NoClusterCut` leaves that case out of two parts of
  `SimulationAgrees`. Four low tasks that overload three cores are enough for it.
* After a fit into sockets the high tasks are in another order, and the task that
  loses a core is found by its old place: `outinfo[progid][-1]`
  (`lib_cluster.py:124`). Another task is made smaller then, and core and task are
  shared, with verdict 1. `OwnCores` leaves out that case.
* A schedule that is guaranteed by the second or third call of the chain is written
  as 1, may try (`lib_cluster.py`, option 5, and `cluster.py`).
* The comments at `cluster.py:166` and 167 give 1 and 0 the opposite meaning of
  those at 151 to 154, which is what is written.
* When an input is refused, the schedule of an earlier run stays beside it.
* `loadbalance` sorts by the number in the name of a task, which the tasks of
  `utility_test` do not have: it ends when two of them reach the balance
  (`SortFails`). It also fails on a high task without cores (`BalanceFails`).
* `waitcount` of `single_simu` is never increased, so that the test for 0 in its loop
  tells nothing.

In the generators:

* A length of exactly one second is written as 0 seconds and 10^9 nanoseconds
  (`Timespec`); `TimingIsRight` allows for it, the readers add it up.
* Requests for which no strand has room are dropped without a word, so that a task set
  can have fewer than it was made for.
* `generate_tasks_utils` draws for ever if the utilisation is too small for two tasks
  and large enough to pass its first test.
* The versions that vary the number of resources draw as many lengths of critical
  sections as that list is long, which is enough because the list counts from 1.
* The converter ends at a malformed file with the lines before it written: its output
  reads like a whole, smaller task set. The programs come in the order of
  the names of their files, so that the tenth is the second one.

In the scripts:

* An output file with an empty first line is read over, like one without a miss, and
  its task set stays valid, where the comment says that such a task set is
  discarded (`gather_data_36cores.py:65-66`). `CountsAreRight` says what the comment says, and `EmptyIsKept`
  names the folders with such a file, which `Complete` leaves out.
* `gather_exper_data` of tpds stops at the first file that tells of a miss (`tpds/gather_data_base_36cores.py:109`).
  A task set with a task that was not bound after it stays valid, where the comment says that
  it is not (193) and the branch for it means to take it off (102). `MissHidesUnbound`
  names these folders, which `Complete` leaves out as well. Without either of the two exclusions TLC finds
  `OutputsAreRight` violated.
* The number of tasks is computed from the number of files under two types of lock. In
  the folder of optimal priorities there is one only, so that half of the tasks are
  looked at; with one lock missing elsewhere, a file is not found or tasks are left
  out. `Complete` leaves these folders out.
* What the analysis accepts is counted also for task sets that are discarded, so that
  a share can exceed one.
* `tpds/gather_data_base_36cores.py:102` decrements a variable that is never set and
  ends there (`NoSuchVariable`).
* `gather_data_base_36cores.py` has everything but one count in a comment and prints
  zeros for the others.

In the statistics:

* `synthetic_task_wlocks.cpp` looks whether there is room for arrivals only, and before
  it has the spinlock (58), and it keeps the spinlock when it warns of a completion
  without arrival (80). `synthetic_task.cpp` does neither.
* The launchers read the statistics even if they could not map them
  (`clustering_launcher_wlocks.cpp:491`).
* `process_statistics.cpp` reads the events of the first resource only.

## 6. What is not modelled

* Weak memory. The code is for x86 with locked instructions and volatile
  accesses; models are sequentially consistent.
* The layout of the shared region and the addresses of mappings in
  `tpds/spinlocks_util.cpp`. Priority locks hold pointers to nodes that are
  valid in one process only, and are used with one process per list.
* Reading of `.rtps` files and arguments, beyond the fact that it can fail.
* Real time. Whether a job is late is a free choice, except for the first one,
  which the code does not judge.
* Bounds for `PRIO_UNORDERED` locks: `is_schedulable` takes `FIFO` and
  `PRIO_FIFO` only. Response times: they are reset to the period before the first
  round and otherwise only reported. Tasks without work beyond their span, which
  no generator makes and for which `response_time` divides by zero. Rounding of
  doubles.
* The percentages that `process_statistics.cpp` prints, and the older
  `synthetic_task_wlocks.cpp`.
* The copy of saved task sets in the programs that compare types of locks
  (`saved_taskset.cpp:95`), and their files of response times.
* Time arithmetic (`timespec_functions.cpp`, `time_utils.c`): it has no state.
* Distributions: a draw is any value of its range. Two generators that write into one
  folder at the same time may choose the same number of file
  (`taskgen_wlocks_base.py:724`); a generator is modelled alone.
* Option 7 of `cluster_partition`, functions of generators and scripts that nothing
  calls, and the schedules that `best_assign_core` draws for a plot.
* Benchmarks and shell scripts: measurements, and loops over files. Text: parsing
  and formatting, beyond whether a file is well formed.

## 7. Plan

Done: every component of section 2, model-checked; and, with proofs, the locks and their
refinements, the barrier, the launch, the verdict of the schedulability test, the
clustering with its guarantee and its simulation, the placement of requests, the work of the generated
tasks and what is run of it, the log of the statistics and its file, the converted
programs and the counts of the scripts. What is left, in the order of its worth:

1. `LaunchStat`: the launchers that go on after a miss, with their times of response
   and the end of a launch in which a task has failed.
2. `TaskSetCopy`, `TimeArithmetic`: the copy of saved task sets; sum, difference and
   comparison of timespecs, with widths.
