-------------------------------- MODULE Launch --------------------------------
(***************************************************************************)
(* One run after another of a task set under the clustering launcher       *)
(* (tpds/clustering_launcher_wlocks_fast.cpp) and the task manager that is *)
(* the main program of every task (tpds/task_manager_fast.cpp).  The       *)
(* launcher makes three shared memory objects, forks the tasks, reaps them *)
(* and writes whether the task set was schedulable.                        *)
(*                                                                         *)
(* The barrier and the locks are the ones whose own modules are Barrier    *)
(* and McsLock, here by what these are shown to promise: a counter that    *)
(* holds everybody back, and a queue that is served in order.  The queue   *)
(* is shared memory: it keeps the requests of a task that has died, and of *)
(* a launch that was killed, until somebody clears it.                     *)
(*                                                                         *)
(* A task has one request at a time; its threads are those of McsLock.     *)
(***************************************************************************)
EXTENDS Integers, Sequences, FiniteSets

CONSTANTS Tasks,        \* the tasks of the task set
          Jobs,         \* num_iters, the jobs that each task runs
          MayCrash,     \* whether a task may be ended by a fault of its own
          MaxLaunches   \* bound on the number of launches

ASSUME LaunchSize ==
  /\ IsFiniteSet(Tasks) /\ Tasks # {}
  /\ Jobs \in Nat \ {0}
  /\ MayCrash \in BOOLEAN
  /\ MaxLaunches \in Nat

VARIABLES launcher,     \* what the launcher does next
          children,     \* the list of process ids, less those it has signalled
          schedulable,  \* the local variable of the launcher
          verdict,      \* what it has written to the result file
          names,        \* the shared memory objects that have a name
          barrier,      \* the tasks that the barrier still waits for
          queue,        \* Seq(Tasks), the requests for the lock, its holder first
          at,           \* what each task does next
          job,          \* the job that each task is in, i of the loop
          late,         \* the tasks whose deadlines_missed is positive
          status,       \* how each task ends
          signalled,    \* the tasks that have a SIGTERM pending
          launches      \* number of launches so far

lvars == <<launcher, children, schedulable, verdict, launches>>
tvars == <<at, job, late, status, signalled>>
shm == <<names, barrier, queue>>
launchvars == <<lvars, tvars, shm>>

Alive == {t \in Tasks : at[t] \notin {"off", "zombie", "reaped"}}

NewTasks ==
  /\ at' = [t \in Tasks |-> "off"]
  /\ job' = [t \in Tasks |-> 0]
  /\ status' = [t \in Tasks |-> "success"]
  /\ late' = {}
  /\ signalled' = {}

LaunchInit ==
  /\ launcher = "idle" /\ children = {} /\ schedulable = TRUE /\ verdict = "none"
  /\ launches = 0
  /\ names = {} /\ barrier = 0 /\ queue = <<>>
  /\ at = [t \in Tasks |-> "off"]
  /\ job = [t \in Tasks |-> 0]
  /\ status = [t \in Tasks |-> "success"]
  /\ late = {} /\ signalled = {}

(***************************************************************************)
(* The launcher makes the objects.  Each init opens the object if its name *)
(* is still there and sets all of it.                                      *)
(***************************************************************************)
InitBarrier ==
  /\ launcher = "idle" /\ launches < MaxLaunches /\ Alive = {}
  /\ launcher' = "locks"
  /\ launches' = launches + 1
  /\ schedulable' = TRUE /\ verdict' = "none" /\ children' = {}
  /\ names' = names \cup {"barrier"}
  /\ barrier' = Cardinality(Tasks)
  /\ NewTasks
  /\ UNCHANGED queue

\* Mutant: an object that is still there is used as it is.
InitSpinlocksKeeps ==
  /\ launcher = "locks"
  /\ launcher' = "stat"
  /\ names' = names \cup {"locks"}
  /\ UNCHANGED <<children, schedulable, verdict, launches, tvars, barrier, queue>>

InitSpinlocks ==
  /\ launcher = "locks"
  /\ launcher' = "stat"
  /\ names' = names \cup {"locks"}
  /\ queue' = <<>>
  /\ UNCHANGED <<children, schedulable, verdict, launches, tvars, barrier>>

InitStatMem ==
  /\ launcher = "stat"
  /\ launcher' = "fork"
  /\ names' = names \cup {"stat"}
  /\ UNCHANGED <<children, schedulable, verdict, launches, tvars, barrier, queue>>

(***************************************************************************)
(* An error of the schedule file or of an init: nothing is taken back.     *)
(***************************************************************************)
InitFails ==
  /\ launcher \in {"locks", "stat"}
  /\ launcher' = "idle"
  /\ UNCHANGED <<children, schedulable, verdict, launches, tvars, shm>>

Fork(t) ==
  /\ launcher = "fork" /\ at[t] = "off"
  /\ at' = [at EXCEPT ![t] = "start"]
  /\ children' = children \cup {t}
  /\ launcher' = IF children' = Tasks THEN "wait" ELSE "fork"
  /\ UNCHANGED <<schedulable, verdict, launches, job, late, status, signalled, shm>>

(***************************************************************************)
(* kill(0, SIGTERM): all processes of the group end, the launcher with the *)
(* tasks, and the shared memory stays.                                     *)
(***************************************************************************)
KillGroup ==
  /\ launcher' = "idle"
  /\ children' = {}
  /\ NewTasks
  /\ UNCHANGED <<schedulable, verdict, launches, shm>>

ForkFails == launcher = "fork" /\ KillGroup

SetupFails(t) == at[t] \in {"start", "arrive"} /\ KillGroup

-------------------------------------------------------------------------------
Goes(t, from, to) ==
  /\ at[t] = from
  /\ at' = [at EXCEPT ![t] = to]

(***************************************************************************)
(* A task that cannot be bound to its processors still goes to the barrier *)
(* "since other children tasks are waiting", and ends after it.            *)
(***************************************************************************)
SetUp(t) ==
  /\ Goes(t, "start", "arrive")
  /\ UNCHANGED <<lvars, job, late, status, signalled, shm>>

\* Mutant: the task ends at once.
BindFailsAtOnce(t) ==
  /\ Goes(t, "start", "zombie")
  /\ status' = [status EXCEPT ![t] = "bind"]
  /\ UNCHANGED <<lvars, job, late, signalled, shm>>

BindFails(t) ==
  /\ Goes(t, "start", "arrive")
  /\ status' = [status EXCEPT ![t] = "bind"]
  /\ UNCHANGED <<lvars, job, late, signalled, shm>>

Arrive(t) ==
  /\ Goes(t, "arrive", "wait")
  /\ barrier' = barrier - 1
  /\ UNCHANGED <<lvars, job, late, status, signalled, names, queue>>

\* Mutant: nobody destroys the barrier.
LeaveKeepsName(t) ==
  /\ barrier = 0
  /\ Goes(t, "wait", IF status[t] = "bind" THEN "zombie" ELSE "ready")
  /\ UNCHANGED <<lvars, job, late, status, signalled, shm>>

Leave(t) ==
  /\ barrier = 0
  /\ Goes(t, "wait", IF status[t] = "bind" THEN "zombie" ELSE "ready")
  /\ names' = names \ {"barrier"}
  /\ UNCHANGED <<lvars, job, late, status, signalled, barrier, queue>>

(***************************************************************************)
(* A job: a request, the critical section, and the end of the job, where   *)
(* the first job is not held against its deadline.  A late job ends the    *)
(* loop; a job that fails ends the task.                                   *)
(***************************************************************************)
Request(t) ==
  /\ Goes(t, "ready", "spin")
  /\ queue' = Append(queue, t)
  /\ UNCHANGED <<lvars, job, late, status, signalled, names, barrier>>

Enter(t) ==
  /\ Goes(t, "spin", "critical")
  /\ Head(queue) = t
  /\ UNCHANGED <<lvars, job, late, status, signalled, shm>>

Release(t) ==
  /\ Goes(t, "critical", "ran")
  /\ queue' = Tail(queue)
  /\ UNCHANGED <<lvars, job, late, status, signalled, names, barrier>>

InTime(t) ==
  /\ Goes(t, "ran", IF job[t] + 1 = Jobs THEN "finalize" ELSE "ready")
  /\ job' = [job EXCEPT ![t] = @ + 1]
  /\ UNCHANGED <<lvars, late, status, signalled, shm>>

Missed(t) ==
  /\ job[t] # 0
  /\ Goes(t, "ran", "finalize")
  /\ late' = late \cup {t}
  /\ UNCHANGED <<lvars, job, status, signalled, shm>>

RunFails(t) ==
  /\ Goes(t, "ran", "zombie")
  /\ status' = [status EXCEPT ![t] = "run"]
  /\ UNCHANGED <<lvars, job, late, signalled, shm>>

Finalize(t) ==
  /\ Goes(t, "finalize", "zombie")
  /\ status' = [status EXCEPT ![t] = IF t \in late THEN "missed" ELSE "success"]
  /\ UNCHANGED <<lvars, job, late, signalled, shm>>

(***************************************************************************)
(* A signal ends a task wherever it is, with the lock or in the queue: the *)
(* SIGTERM of the launcher, or one for a fault of its own.                 *)
(***************************************************************************)
EndBySignal(t, ending) ==
  /\ t \in Alive
  /\ at' = [at EXCEPT ![t] = "zombie"]
  /\ status' = [status EXCEPT ![t] = ending]
  /\ UNCHANGED <<lvars, job, late, signalled, shm>>

Terminate(t) == t \in signalled /\ EndBySignal(t, "signal")

Crash(t) == MayCrash /\ EndBySignal(t, "fault")

-------------------------------------------------------------------------------
\* Mutant: the last child to be reaped decides.
ReapLast(t) ==
  /\ launcher = "wait"
  /\ Goes(t, "zombie", "reaped")
  /\ schedulable' = (status[t] # "missed")
  /\ IF status[t] = "missed"
       THEN children' = children \ {t} /\ launcher' = "kill"
       ELSE UNCHANGED <<children, launcher>>
  /\ UNCHANGED <<verdict, launches, job, late, status, signalled, shm>>

(***************************************************************************)
(* The launcher waits until it has no child left.  When a task has ended   *)
(* for a missed deadline it goes through its list and sends a signal to    *)
(* all the others, those that it has reaped before included.               *)
(***************************************************************************)
Reap(t) ==
  /\ launcher = "wait"
  /\ Goes(t, "zombie", "reaped")
  /\ IF status[t] = "missed"
       THEN /\ schedulable' = FALSE
            /\ children' = children \ {t}
            /\ launcher' = "kill"
       ELSE UNCHANGED <<schedulable, children, launcher>>
  /\ UNCHANGED <<verdict, launches, job, late, status, signalled, shm>>

SendTerm(t) ==
  /\ launcher = "kill"
  /\ t \in children
  /\ children' = children \ {t}
  /\ signalled' = IF t \in Alive THEN signalled \cup {t} ELSE signalled
  /\ UNCHANGED <<launcher, schedulable, verdict, launches, at, job, late, status, shm>>

\* Mutant: the loop over the list may end before the end of the list.
AllSentEarly ==
  /\ launcher = "kill"
  /\ launcher' = "wait"
  /\ UNCHANGED <<children, schedulable, verdict, launches, tvars, shm>>

AllSent ==
  /\ launcher = "kill" /\ children = {}
  /\ launcher' = "wait"
  /\ UNCHANGED <<children, schedulable, verdict, launches, tvars, shm>>

\* Mutant: the launcher waits for one child.
NoChildAfterOne ==
  /\ launcher = "wait"
  /\ \E t \in Tasks : at[t] = "reaped"
  /\ launcher' = "result"
  /\ UNCHANGED <<children, schedulable, verdict, launches, tvars, shm>>

NoChild ==
  /\ launcher = "wait"
  /\ \A t \in Tasks : at[t] = "reaped"
  /\ launcher' = "result"
  /\ UNCHANGED <<children, schedulable, verdict, launches, tvars, shm>>

WriteResult ==
  /\ launcher = "result"
  /\ verdict' = IF schedulable THEN "schedulable" ELSE "unschedulable"
  /\ launcher' = "destroy"
  /\ UNCHANGED <<children, schedulable, launches, tvars, shm>>

ResultFails ==
  /\ launcher = "result"
  /\ launcher' = "idle"
  /\ UNCHANGED <<children, schedulable, verdict, launches, tvars, shm>>

Destroy ==
  /\ launcher = "destroy"
  /\ launcher' = "idle"
  /\ names' = names \ {"locks", "stat"}
  /\ queue' = <<>>
  /\ UNCHANGED <<children, schedulable, verdict, launches, tvars, barrier>>

Launcher ==
  \/ InitSpinlocks \/ InitStatMem \/ InitFails \/ AllSent
  \/ NoChild \/ WriteResult \/ ResultFails \/ Destroy
  \/ \E t \in Tasks : Fork(t) \/ Reap(t) \/ SendTerm(t)

Task(t) ==
  \/ SetUp(t) \/ BindFails(t) \/ Arrive(t) \/ Leave(t)
  \/ Request(t) \/ Enter(t) \/ Release(t)
  \/ InTime(t) \/ Missed(t) \/ RunFails(t) \/ Finalize(t)

LaunchNext ==
  \/ InitBarrier \/ Launcher \/ ForkFails
  \/ \E t \in Tasks : Task(t) \/ Terminate(t) \/ Crash(t) \/ SetupFails(t)

LaunchSpec == LaunchInit /\ [][LaunchNext]_launchvars

(***************************************************************************)
(* Every task has processors of its own and finitely many jobs, the        *)
(* launcher goes on while a child or a file lets it, and a pending signal  *)
(* is delivered.                                                           *)
(***************************************************************************)
LaunchFairSpec ==
  /\ LaunchSpec
  /\ WF_launchvars(Launcher)
  /\ \A t \in Tasks : WF_launchvars(Task(t)) /\ WF_launchvars(Terminate(t))

-------------------------------------------------------------------------------
(***************************************************************************)
(* The types of the variables.                                             *)
(***************************************************************************)
LaunchTypeOK ==
  /\ launcher \in {"idle", "locks", "stat", "fork", "wait", "kill", "result", "destroy"}
  /\ children \subseteq Tasks
  /\ schedulable \in BOOLEAN
  /\ verdict \in {"none", "schedulable", "unschedulable"}
  /\ names \subseteq {"barrier", "locks", "stat"}
  /\ barrier \in 0 .. Cardinality(Tasks)
  /\ queue \in Seq(Tasks)
  /\ at \in [Tasks -> {"off", "start", "arrive", "wait", "ready", "spin", "critical",
                       "ran", "finalize", "zombie", "reaped"}]
  /\ job \in [Tasks -> 0 .. Jobs]
  /\ late \subseteq Tasks
  /\ status \in [Tasks -> {"success", "bind", "run", "missed", "signal", "fault"}]
  /\ signalled \subseteq Tasks
  /\ launches \in 0 .. MaxLaunches

(***************************************************************************)
(* No task of the launch under way has ended by a fault of its own.        *)
(***************************************************************************)
NoFault == \A t \in Tasks : status[t] # "fault"

(***************************************************************************)
(* As long as no task dies by its own fault, the result file says          *)
(* "schedulable" exactly when no task has counted a missed deadline,       *)
(* although a task that has may be killed, for another one's miss, before  *)
(* it can tell.                                                            *)
(***************************************************************************)
VerdictIsRight ==
  NoFault =>
    /\ verdict = "schedulable" => late = {}
    /\ verdict = "unschedulable" => late # {}

(***************************************************************************)
(* A task finds in the lock the requests of its own launch only: as long   *)
(* as no task of this launch was ended by a signal, each request is that   *)
(* of a task that spins or is in its critical section, also after a launch *)
(* that was killed, or came to nothing, with requests in the queue.        *)
(***************************************************************************)
QueueIsLive ==
  /\ launcher \in {"fork", "wait"}
  /\ \A t \in Tasks : status[t] \notin {"signal", "fault"}
  =>
    /\ \A i \in DOMAIN queue : at[queue[i]] \in {"spin", "critical"}
    /\ \A t \in Tasks : at[t] \in {"spin", "critical"} =>
         \E i \in DOMAIN queue : queue[i] = t

(***************************************************************************)
(* A task whose request is behind that of a dead task, and so never served,*)
(* is sent a SIGTERM as well, unless a task has died by its own fault.     *)
(***************************************************************************)
NobodyIsLeftBehind ==
  \A t \in Tasks :
    /\ NoFault
    /\ at[t] = "spin"
    /\ \E i \in DOMAIN queue : at[queue[i]] \in {"zombie", "reaped"}
    => t \in signalled \/ (launcher = "kill" /\ t \in children)

(***************************************************************************)
(* The locks and the statistics keep their names, and the locks their      *)
(* contents, as long as there is a task that may map or use them, after    *)
(* faults too.                                                             *)
(***************************************************************************)
ObjectsOutliveTasks ==
  (\E t \in Tasks : at[t] \notin {"off", "reaped"}) => {"locks", "stat"} \subseteq names

(***************************************************************************)
(* A launch that ends well, without a fault, leaves no name behind, that   *)
(* of the barrier, for which it relies on the tasks, included.             *)
(***************************************************************************)
NothingLeft == [][Destroy /\ NoFault => names' = {}]_launchvars

(***************************************************************************)
(* "Write the schedulability result of the task set": a task set that is   *)
(* reported to be schedulable has run, every job of every task.            *)
(***************************************************************************)
SchedulableHasRun ==
  verdict = "schedulable" => \A t \in Tasks : job[t] = Jobs

(***************************************************************************)
(* Every launch ends, whichever of its tasks cannot be bound, fail, or are *)
(* killed with the lock or in the queue, unless one of them dies by its    *)
(* own fault.                                                              *)
(***************************************************************************)
LaunchEnds == launcher # "idle" ~> launcher = "idle" \/ ~ NoFault
===============================================================================
