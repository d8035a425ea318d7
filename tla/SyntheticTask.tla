---------------------------- MODULE SyntheticTask ----------------------------
(***************************************************************************)
(* The synthetic tasks of a launch, from their set-up to their end, and    *)
(* the statistics of waiting requests that they keep: synthetic_task.cpp,  *)
(* called as in task_manager.cpp, and what clustering_launcher_wlocks.cpp  *)
(* writes at the end.  The OpenMP threads of a task share the strands of   *)
(* one segment at a time; a critical section is between the two wrappers,  *)
(* which record a request that arrives and one that finishes.              *)
(*                                                                         *)
(* A lock is what the modules of the locks promise: it is granted in the   *)
(* order of the requests, or, if locks_type is "prio", of those of one     *)
(* task.  Errors and the barrier of the launch are another module.         *)
(***************************************************************************)
EXTENDS Integers, Sequences, SequencesExt, FiniteSets

CONSTANTS TaskPrograms,  \* task sets: a sequence of programs, each a sequence of segments
          NumThreads,    \* omp_get_num_procs(), of each task
          NumJobs,       \* num_iters
          ResourcesNum,  \* resources_num
          MaxEvents,     \* MAX_EVENTS
          LongMod        \* the modulus of unsigned long

ASSUME SyntheticTaskSize ==
  /\ NumThreads \in Seq(Nat \ {0})
  /\ ResourcesNum \in Nat \ {0} /\ NumJobs \in Nat
  /\ MaxEvents \in Nat \ {0} /\ LongMod \in Nat \ {0}
  /\ \A ts \in TaskPrograms : DOMAIN ts = DOMAIN NumThreads /\ \A t \in DOMAIN ts : ts[t] # <<>>

TaskIds == DOMAIN NumThreads

ThreadsOf(t) == {t} \X (1 .. NumThreads[t])

Threads == UNION {ThreadsOf(t) : t \in TaskIds}

ResourceIds == 1 .. ResourcesNum

Nobody == <<0, 0>>

\* Where the k-th request of a strand ends, or the strand begins.
RequestEnd(requests, k) == IF k = 0 THEN 0 ELSE requests[k].offset + requests[k].len

\* Critical sections do not overlap and do not outlast their strand.
SectionsInOrder(requests, length) ==
  /\ \A k \in DOMAIN requests : RequestEnd(requests, k - 1) <= requests[k].offset
  /\ RequestEnd(requests, Len(requests)) <= length

CriticalSection == [offset : Nat, res : ResourceIds, len : Nat]

ParallelSegment == [len : 0 .. LongMod - 1, strands : Seq(Seq(CriticalSection))]

\* What the generators write: RequestsArePlaced of LockTaskSets.
ASSUME GeneratedPrograms ==
  \A ts \in TaskPrograms : \A t \in DOMAIN ts :
    /\ ts[t] \in Seq(ParallelSegment)
    /\ \A i \in DOMAIN ts[t] : \A j \in DOMAIN ts[t][i].strands :
         SectionsInOrder(ts[t][i].strands[j], ts[t][i].len)

VARIABLES locksType,   \* locks_type
          requested,   \* the task set, as segments of a length and of strands with requests
          code,        \* the sections of each strand that init has made of it
          jobs,        \* the jobs that each task has run
          segment,     \* the segment that it runs, or 0
          nextStrand,  \* the first strand of it that no thread has taken
          pc,          \* what each thread does next
          strand,      \* the strand that it runs
          section,     \* the section there
          resource,    \* the argument of the wrappers
          waiting,     \* of each lock, the requests in their order
          holder,      \* and the thread that has it
          spinlock,    \* of the statistics of each resource: the thread that has the spinlock
          data,        \* the numbers of requests
          nextEvent,   \* next_event
          ran,         \* auxiliary: how long the threads of a task have run in this job
          statFile     \* the file of statistics, of each resource

taskvars == <<locksType, requested, code, jobs, segment, nextStrand, ran>>
threadvars == <<pc, strand, section, resource>>
lockvars == <<waiting, holder>>
statvars == <<spinlock, data, nextEvent>>
execvars == <<taskvars, threadvars, lockvars, statvars, statFile>>

\* init_stat_mem has set everything to 0 before the tasks are forked.
ExecutionInit ==
  /\ locksType \in {"fifo", "prio"}
  /\ requested \in TaskPrograms
  /\ code = [t \in TaskIds |-> <<>>]
  /\ jobs = [t \in TaskIds |-> 0] /\ segment = [t \in TaskIds |-> 0]
  /\ nextStrand = [t \in TaskIds |-> 1] /\ ran = [t \in TaskIds |-> 0]
  /\ pc = [p \in Threads |-> "idle"] /\ strand = [p \in Threads |-> 0]
  /\ section = [p \in Threads |-> 0] /\ resource = [p \in Threads |-> 0]
  /\ waiting = [r \in ResourceIds |-> <<>>] /\ holder = [r \in ResourceIds |-> Nobody]
  /\ spinlock = [r \in ResourceIds |-> Nobody]
  /\ data = [r \in ResourceIds |-> [k \in 0 .. MaxEvents |-> 0]]
  /\ nextEvent = [r \in ResourceIds |-> 0]
  /\ statFile = <<>>

-------------------------------------------------------------------------------
(***************************************************************************)
(* init: a strand of n requests has a normal section before each critical  *)
(* one, and one at the end.  Their lengths are unsigned differences.       *)
(***************************************************************************)
Normal(length) == [res |-> 0, len |-> length % LongMod]

Sections(requests, length) ==
  LET n == Len(requests)
  IN  [k \in 1 .. 2 * n + 1 |->
         IF k % 2 = 0 THEN [res |-> requests[k \div 2].res, len |-> requests[k \div 2].len]
         ELSE IF k = 2 * n + 1 THEN Normal(length - RequestEnd(requests, n))
         ELSE Normal(requests[(k + 1) \div 2].offset - RequestEnd(requests, k \div 2))]

InitTask(t) ==
  /\ code[t] = <<>>
  /\ code' = [code EXCEPT ![t] =
       [i \in DOMAIN requested[t] |->
          [j \in DOMAIN requested[t][i].strands |->
             Sections(requested[t][i].strands[j], requested[t][i].len)]]]
  /\ UNCHANGED <<locksType, requested, jobs, segment, nextStrand, ran,
                 threadvars, lockvars, statvars, statFile>>

(***************************************************************************)
(* run, once for each job, after all tasks have come to the barrier.       *)
(***************************************************************************)
StartJob(t) ==
  /\ \A u \in TaskIds : code[u] # <<>>
  /\ segment[t] = 0 /\ jobs[t] < NumJobs
  /\ segment' = [segment EXCEPT ![t] = 1]
  /\ nextStrand' = [nextStrand EXCEPT ![t] = 1]
  /\ ran' = [ran EXCEPT ![t] = 0]
  /\ UNCHANGED <<locksType, requested, code, jobs, threadvars, lockvars, statvars, statFile>>

\* All strands are taken, and all threads have come to the end of the loop.
SegmentDone(t) ==
  /\ segment[t] # 0 /\ nextStrand[t] > Len(code[t][segment[t]])
  /\ \A p \in ThreadsOf(t) : pc[p] = "idle"

EndSegment(t) ==
  /\ SegmentDone(t)
  /\ LET last == segment[t] = Len(code[t])
     IN  /\ segment' = [segment EXCEPT ![t] = IF last THEN 0 ELSE @ + 1]
         /\ jobs' = [jobs EXCEPT ![t] = IF last THEN @ + 1 ELSE @]
  /\ nextStrand' = [nextStrand EXCEPT ![t] = 1]
  /\ UNCHANGED <<locksType, requested, code, ran, threadvars, lockvars, statvars, statFile>>

-------------------------------------------------------------------------------
(***************************************************************************)
(* The parallel loop hands out the strands one by one (omp_sched_dynamic,  *)
(* 1); a thread runs the sections of its strand in their order.            *)
(***************************************************************************)
Task(p) == p[1]

Strand(p) == code[Task(p)][segment[Task(p)]][strand[p]]

\* What p runs next if it comes to section k of the strand s.
Enter(p, s, k) ==
  /\ section' = [section EXCEPT ![p] = IF k \in DOMAIN s THEN k ELSE 0]
  /\ resource' = [resource EXCEPT ![p] = IF k \in DOMAIN s THEN s[k].res ELSE 0]
  /\ pc' = [pc EXCEPT ![p] =
       IF k \notin DOMAIN s THEN "idle" ELSE IF s[k].res = 0 THEN "run" ELSE "in"]

TakeStrand(p) ==
  LET t == Task(p)
  IN  /\ pc[p] = "idle" /\ segment[t] # 0 /\ nextStrand[t] \in DOMAIN code[t][segment[t]]
      /\ nextStrand' = [nextStrand EXCEPT ![t] = @ + 1]
      /\ strand' = [strand EXCEPT ![p] = nextStrand[t]]
      /\ Enter(p, code[t][segment[t]][nextStrand[t]], 1)
  /\ UNCHANGED <<locksType, requested, code, jobs, segment, ran, lockvars, statvars, statFile>>

\* busy_work.
BusyWork(p) == ran' = [ran EXCEPT ![Task(p)] = @ + Strand(p)[section[p]].len]

RunSection(p) ==
  /\ pc[p] = "run"
  /\ BusyWork(p)
  /\ Enter(p, Strand(p), section[p] + 1)
  /\ UNCHANGED <<locksType, requested, code, jobs, segment, nextStrand, strand,
                 lockvars, statvars, statFile>>

-------------------------------------------------------------------------------
(***************************************************************************)
(* record_in_request and record_out_request: under the spinlock, the next  *)
(* number is written and counted, unless the log is full.                  *)
(***************************************************************************)
Goto(p, next) == pc' = [pc EXCEPT ![p] = next]

Arriving(p) == pc[p] \in {"in", "in_look", "in_count"}

\* Mutant: the spinlock is not waited for.
SpinLockAtOnce(p) ==
  /\ pc[p] \in {"in", "out"}
  /\ spinlock' = [spinlock EXCEPT ![resource[p]] = p]
  /\ Goto(p, IF pc[p] = "in" THEN "in_look" ELSE "out_look")
  /\ UNCHANGED <<taskvars, strand, section, resource, lockvars, data, nextEvent, statFile>>

SpinLock(p) ==
  /\ pc[p] \in {"in", "out"}
  /\ spinlock[resource[p]] = Nobody
  /\ spinlock' = [spinlock EXCEPT ![resource[p]] = p]
  /\ Goto(p, IF pc[p] = "in" THEN "in_look" ELSE "out_look")
  /\ UNCHANGED <<taskvars, strand, section, resource, lockvars, data, nextEvent, statFile>>

\* A finishing request that finds no event is told of, and not recorded.
NotRecorded(p) ==
  LET r == resource[p]
  IN  nextEvent[r] >= MaxEvents \/ (pc[p] = "out_look" /\ nextEvent[r] = 0)

SpinUnlock(p) ==
  /\ spinlock' = [spinlock EXCEPT ![resource[p]] = Nobody]
  /\ Goto(p, IF Arriving(p) THEN "request" ELSE "release")

DropEvent(p) ==
  /\ pc[p] \in {"in_look", "out_look"} /\ NotRecorded(p)
  /\ SpinUnlock(p)
  /\ UNCHANGED <<taskvars, strand, section, resource, lockvars, data, nextEvent, statFile>>

WriteEvent(p) ==
  /\ pc[p] \in {"in_look", "out_look"} /\ ~ NotRecorded(p)
  /\ LET r == resource[p]
         n == nextEvent[r]
         before == IF n = 0 THEN data[r][n] ELSE data[r][n - 1]
     IN  data' = [data EXCEPT ![r][n] = IF Arriving(p) THEN before + 1 ELSE before - 1]
  /\ Goto(p, IF Arriving(p) THEN "in_count" ELSE "out_count")
  /\ UNCHANGED <<taskvars, strand, section, resource, lockvars, spinlock, nextEvent, statFile>>

CountEvent(p) ==
  /\ pc[p] \in {"in_count", "out_count"}
  /\ nextEvent' = [nextEvent EXCEPT ![resource[p]] = @ + 1]
  /\ SpinUnlock(p)
  /\ UNCHANGED <<taskvars, strand, section, resource, lockvars, data, statFile>>

-------------------------------------------------------------------------------
(***************************************************************************)
(* The lock itself, between the two records.                               *)
(***************************************************************************)
Request(p) ==
  /\ pc[p] = "request"
  /\ waiting' = [waiting EXCEPT ![resource[p]] = Append(@, p)]
  /\ Goto(p, "wait")
  /\ UNCHANGED <<taskvars, strand, section, resource, holder, statvars, statFile>>

IsFirst(p, queue) ==
  IF locksType = "fifo" THEN Head(queue) = p
  ELSE SelectSeq(queue, LAMBDA q : Task(q) = Task(p))[1] = p

Granted(p) ==
  LET r == resource[p]
  IN  /\ pc[p] = "wait" /\ holder[r] = Nobody /\ IsFirst(p, waiting[r])
      /\ holder' = [holder EXCEPT ![r] = p]
      /\ waiting' = [waiting EXCEPT ![r] = SelectSeq(@, LAMBDA q : q # p)]
  /\ Goto(p, "busy")
  /\ UNCHANGED <<taskvars, strand, section, resource, statvars, statFile>>

RunCritical(p) ==
  /\ pc[p] = "busy"
  /\ BusyWork(p)
  /\ Goto(p, "out")
  /\ UNCHANGED <<locksType, requested, code, jobs, segment, nextStrand,
                 strand, section, resource, lockvars, statvars, statFile>>

Unlock(p) ==
  /\ pc[p] = "release"
  /\ holder' = [holder EXCEPT ![resource[p]] = Nobody]
  /\ Enter(p, Strand(p), section[p] + 1)
  /\ UNCHANGED <<taskvars, strand, waiting, statvars, statFile>>

-------------------------------------------------------------------------------
(***************************************************************************)
(* All tasks have ended: the launcher ends the numbers of each resource    *)
(* with a zero, and writes them.                                           *)
(***************************************************************************)
AllJobsDone == \A t \in TaskIds : segment[t] = 0 /\ jobs[t] = NumJobs

WriteStatistics ==
  /\ statFile = <<>> /\ \A t \in TaskIds : code[t] # <<>>
  /\ AllJobsDone
  /\ data' = [r \in ResourceIds |-> [data[r] EXCEPT ![nextEvent[r]] = 0]]
  /\ statFile' = [r \in ResourceIds |-> [k \in 1 .. nextEvent[r] |-> data[r][k - 1]]]
  /\ UNCHANGED <<taskvars, threadvars, lockvars, spinlock, nextEvent>>

ThreadStep(p) ==
  \/ TakeStrand(p) \/ RunSection(p)
  \/ SpinLock(p) \/ DropEvent(p) \/ WriteEvent(p) \/ CountEvent(p)
  \/ Request(p) \/ Granted(p) \/ RunCritical(p) \/ Unlock(p)

ExecutionStep ==
  \/ \E t \in TaskIds : InitTask(t) \/ StartJob(t) \/ EndSegment(t)
  \/ \E p \in Threads : ThreadStep(p)
  \/ WriteStatistics

-------------------------------------------------------------------------------
(***************************************************************************)
(* The log of a resource is a history of its queue, up to where it is      *)
(* full: each number differs by one from the one before, none is negative, *)
(* and as long as there is room the last one is the number of requests     *)
(* that have arrived and not finished.  No request finishes before one has *)
(* arrived, which the code would warn of.                                  *)
(***************************************************************************)
Arrived(r) ==
  {p \in Threads : resource[p] = r /\
     pc[p] \in {"request", "wait", "busy", "out", "out_look", "out_count"}}

LastNumber(r) == IF nextEvent[r] = 0 THEN 0 ELSE data[r][nextEvent[r] - 1]

LogIsExact ==
  \A r \in DOMAIN nextEvent :
    /\ nextEvent[r] <= MaxEvents
    /\ nextEvent[r] < MaxEvents => LastNumber(r) = Cardinality(Arrived(r))
    /\ \A k \in 0 .. nextEvent[r] - 1 :
         /\ data[r][k] >= 0
         /\ IF k = 0 THEN data[r][k] = 1 ELSE data[r][k] - data[r][k - 1] \in {-1, 1}
    /\ \A p \in Threads : resource[p] = r /\ pc[p] = "out_look" => nextEvent[r] > 0

(***************************************************************************)
(* The threads of a task run all of its strands, each for the length of    *)
(* its segment, and those of one segment before any of the next; so a job  *)
(* has the work that the file says of the task.                            *)
(***************************************************************************)
WorkUpTo(t, i) ==
  SumFunction([k \in 1 .. i |-> requested[t][k].len * Len(requested[t][k].strands)])

WorkIsRun == \A t \in DOMAIN segment : SegmentDone(t) => ran[t] = WorkUpTo(t, segment[t])

(***************************************************************************)
(* Every request of every job is in the file, with its arrival and its     *)
(* completion, until the log is full.                                      *)
(***************************************************************************)
SegmentsRequested == UNION {{t} \X DOMAIN requested[t] : t \in TaskIds}

StrandsRequested ==
  UNION {{s} \X DOMAIN requested[s[1]][s[2]].strands : s \in SegmentsRequested}

RequestsOf(s) == requested[s[1][1]][s[1][2]].strands[s[2]]

AllRequests == UNION {{s} \X DOMAIN RequestsOf(s) : s \in StrandsRequested}

RequestsTo(r) == {q \in AllRequests : RequestsOf(q[1])[q[2]].res = r}

FileIsComplete ==
  \A r \in DOMAIN statFile :
    LET events == 2 * NumJobs * Cardinality(RequestsTo(r))
    IN  IF events < MaxEvents
          THEN Len(statFile[r]) = events /\ (events > 0 => statFile[r][events] = 0)
          ELSE Len(statFile[r]) = MaxEvents
===============================================================================
