-------------------------------- MODULE Barrier --------------------------------
(***************************************************************************)
(* The barrier of single_use_barrier.cpp, at which the tasks of a task set *)
(* wait for each other before their first job.  It is one unsigned counter *)
(* in a shared memory object that is found by its name; every call opens   *)
(* the name with O_CREAT, and every task unlinks the name when it leaves.  *)
(* A mapping outlives the name, so a name and the objects that processes   *)
(* have mapped are different things here.                                  *)
(*                                                                         *)
(* The launcher sets the counter before it forks the tasks and starts the  *)
(* next task set only when no task is left.  kill(0, SIGTERM), the answer  *)
(* of launcher and tasks to most errors, ends the whole process group and  *)
(* leaves the object behind as it is.                                      *)
(***************************************************************************)
EXTENDS Integers, FiniteSets

CONSTANTS Tasks,        \* the tasks of the task set
          Width,            \* number of values of an unsigned int, 2^32
          MaxLaunches   \* bound on the number of launches

ASSUME BarrierSize ==
  /\ Width \in Nat /\ MaxLaunches \in Nat
  /\ IsFiniteSet(Tasks) /\ Tasks # {}
  /\ Cardinality(Tasks) < Width

VARIABLES objects,      \* number of objects created so far
          name,         \* the object the name refers to, or 0
          value,        \* [1..objects -> 0..Width-1], barrier->value of each
          obj,          \* [Tasks -> Nat], the object a task has mapped, or 0
          lobj,         \* the object the launcher has mapped, or 0
          at,           \* what each task does next
          launcher,     \* what the launcher does next
          launches      \* number of launches so far

bvars == <<objects, name, value, obj, lobj, at, launcher, launches>>

N == Cardinality(Tasks)
shm == <<objects, name, value>>

BarrierInit ==
  /\ objects = 0
  /\ name = 0
  /\ value = [o \in 1 .. 0 |-> 0]
  /\ obj = [t \in Tasks |-> 0]
  /\ lobj = 0
  /\ at = [t \in Tasks |-> "off"]
  /\ launcher = "idle"
  /\ launches = 0

Moves(t, from, to) ==
  /\ at[t] = from
  /\ at' = [at EXCEPT ![t] = to]

(***************************************************************************)
(* get_barrier: open the object that has the name, or create one, whose    *)
(* bytes ftruncate makes zero, and map it: name' is what the caller maps.  *)
(***************************************************************************)
GetBarrier ==
  IF name = 0
    THEN /\ objects' = objects + 1
         /\ name' = objects + 1
         /\ value' = [o \in 1 .. objects + 1 |->
                        IF o = objects + 1 THEN 0 ELSE value[o]]
    ELSE UNCHANGED shm

(***************************************************************************)
(* init_single_use_barrier, then fork of every task.                       *)
(***************************************************************************)
NoTaskLeft == \A t \in Tasks : at[t] \in {"off", "gone"}

InitOpen ==
  /\ launcher = "idle"
  /\ NoTaskLeft
  /\ launches < MaxLaunches
  /\ GetBarrier
  /\ lobj' = name'
  /\ launches' = launches + 1
  /\ launcher' = "store"
  /\ at' = [t \in Tasks |-> "off"]
  /\ UNCHANGED obj

\* Mutants: the launcher does not count one of the tasks, or adds the tasks
\* to what the object holds.
InitStoreShort ==
  /\ launcher = "store"
  /\ value' = [value EXCEPT ![lobj] = N - 1]
  /\ launcher' = "fork"
  /\ UNCHANGED <<objects, name, obj, lobj, at, launches>>

InitStoreAdds ==
  /\ launcher = "store"
  /\ value' = [value EXCEPT ![lobj] = @ + N]
  /\ launcher' = "fork"
  /\ UNCHANGED <<objects, name, obj, lobj, at, launches>>

InitStore ==
  /\ launcher = "store"
  /\ value' = [value EXCEPT ![lobj] = N]
  /\ launcher' = "fork"
  /\ UNCHANGED <<objects, name, obj, lobj, at, launches>>

Fork(t) ==
  /\ launcher = "fork"
  /\ Moves(t, "off", "open")
  /\ UNCHANGED <<shm, obj, lobj, launcher, launches>>

(***************************************************************************)
(* await_single_use_barrier                                                *)
(***************************************************************************)
Open(t) ==
  /\ Moves(t, "open", "arrive")
  /\ GetBarrier
  /\ obj' = [obj EXCEPT ![t] = name']
  /\ UNCHANGED <<lobj, launcher, launches>>

\* Mutant: the task unlinks the name too soon.
ArriveUnlinks(t) ==
  /\ Moves(t, "arrive", "wait")
  /\ value' = [value EXCEPT ![obj[t]] = IF @ = 0 THEN Width - 1 ELSE @ - 1]
  /\ name' = 0
  /\ UNCHANGED <<objects, obj, lobj, launcher, launches>>

Arrive(t) ==
  /\ Moves(t, "arrive", "wait")
  /\ value' = [value EXCEPT ![obj[t]] = IF @ = 0 THEN Width - 1 ELSE @ - 1]
  /\ UNCHANGED <<objects, name, obj, lobj, launcher, launches>>

\* Mutant: the counter is compared with one.
PassOnOne(t) ==
  /\ at[t] = "wait"
  /\ value[obj[t]] <= 1
  /\ Moves(t, "wait", "passed")
  /\ UNCHANGED <<shm, obj, lobj, launcher, launches>>

Pass(t) ==
  /\ at[t] = "wait"
  /\ value[obj[t]] = 0
  /\ Moves(t, "wait", "passed")
  /\ UNCHANGED <<shm, obj, lobj, launcher, launches>>

(***************************************************************************)
(* destroy_barrier: a name that is already gone is no error.  Then the     *)
(* task runs its jobs and exits, which the launcher waits for.             *)
(***************************************************************************)
Unlink(t) ==
  /\ Moves(t, "passed", "run")
  /\ name' = 0
  /\ UNCHANGED <<objects, value, obj, lobj, launcher, launches>>

Exit(t) ==
  /\ Moves(t, "run", "gone")
  /\ UNCHANGED <<shm, obj, lobj, launcher, launches>>

(***************************************************************************)
(* The launcher of task_manager_fast.cpp's tasks: once one of them has     *)
(* exited for a missed deadline, each of the others may get a SIGTERM,     *)
(* wherever it is.                                                         *)
(***************************************************************************)
KillOne(t) ==
  /\ launcher = "fork"
  /\ \E u \in Tasks : at[u] = "gone"
  /\ at[t] \notin {"off", "gone"}
  /\ at' = [at EXCEPT ![t] = "gone"]
  /\ UNCHANGED <<shm, obj, lobj, launcher, launches>>

AllReaped ==
  /\ launcher = "fork"
  /\ \A t \in Tasks : at[t] = "gone"
  /\ launcher' = "idle"
  /\ UNCHANGED <<shm, obj, lobj, at, launches>>

KillGroup ==
  /\ launcher = "fork"
  /\ launcher' = "idle"
  /\ at' = [t \in Tasks |-> "gone"]
  /\ UNCHANGED <<shm, obj, lobj, launches>>

Launcher == InitOpen \/ InitStore \/ AllReaped
Await(t) == Open(t) \/ Arrive(t) \/ Pass(t) \/ Unlink(t)

BarrierNext ==
  \/ Launcher
  \/ \E t \in Tasks : Fork(t) \/ Await(t) \/ Exit(t) \/ KillOne(t)
  \/ KillGroup

BarrierSpec == BarrierInit /\ [][BarrierNext]_bvars

(***************************************************************************)
(* The launcher forks every task, tasks run on processors of their own and *)
(* have a given number of jobs.  Nobody has to be killed or start anew.    *)
(***************************************************************************)
BarrierFairness ==
  /\ WF_bvars(InitStore)
  /\ WF_bvars(AllReaped)
  /\ \A t \in Tasks : WF_bvars(Fork(t)) /\ WF_bvars(Await(t)) /\ WF_bvars(Exit(t))

BarrierFairSpec == BarrierSpec /\ BarrierFairness

-------------------------------------------------------------------------------
(***************************************************************************)
(* Names and mappings refer to objects that were created.                  *)
(***************************************************************************)
BarrierTypeOK ==
  /\ objects \in Nat
  /\ name \in 0 .. objects
  /\ value \in [1 .. objects -> 0 .. Width - 1]
  /\ obj \in [Tasks -> 0 .. objects]
  /\ lobj \in 0 .. objects
  /\ at \in [Tasks -> {"off", "open", "arrive", "wait", "passed", "run", "gone"}]
  /\ launcher \in {"idle", "store", "fork"}
  /\ launches \in 0 .. MaxLaunches

Arrived == {t \in Tasks : at[t] \in {"wait", "passed", "run", "gone"}}
Mapped == {t \in Tasks : at[t] \in {"arrive", "wait", "passed"}}

(***************************************************************************)
(* No task starts its jobs before every task of the task set has arrived.  *)
(***************************************************************************)
NobodyLeavesEarly ==
  launcher = "fork" =>
    ((\E t \in Tasks : at[t] \in {"passed", "run", "gone"}) => Arrived = Tasks)

(***************************************************************************)
(* "Processes race to destroy the barrier.  The race is semantically       *)
(* harmless": the tasks of a launch all count down the object that their   *)
(* launcher has set, none of them one that a late open has created, and    *)
(* its counter is the number of tasks that have yet to arrive.             *)
(***************************************************************************)
OneBarrier ==
  launcher = "fork" =>
    /\ \A t \in Mapped : obj[t] = lobj
    /\ \A t \in Tasks : at[t] \in {"off", "open"} => name = lobj
    /\ lobj # 0
    /\ value[lobj] = N - Cardinality(Arrived)

(***************************************************************************)
(* No task removes the name that a later launch has made: it unlinks the   *)
(* object that it waited on, or nothing.                                   *)
(***************************************************************************)
NameBelongsToLaunch ==
  [][\A t \in Tasks : Unlink(t) /\ name # 0 => name = obj[t]]_bvars

(***************************************************************************)
(* When the launcher has reaped all tasks the name is gone, although a     *)
(* task may have been killed before it came to unlink it.                  *)
(***************************************************************************)
NameIsGone == [][AllReaped => name = 0]_bvars

(***************************************************************************)
(* The tasks of a launch that is not killed are all let through, also      *)
(* after a launch that was killed with tasks at the barrier.               *)
(***************************************************************************)
LaunchEnds == launcher = "fork" ~> launcher = "idle"
===============================================================================
