---------------------------- MODULE RtptGenerator ----------------------------
(***************************************************************************)
(* The way of a task set from taskgenerate.py to the programs that         *)
(* schedule it.  print_taskset writes a file of each program, and          *)
(* synthetic_rtpt_generator.py writes from these the one file of the task  *)
(* set: for each task its segments, then its work, span and period and how *)
(* often it is released.  A file that is malformed ends the generator.     *)
(* The subtasks come in the order of their programs, as sort(sortprog)     *)
(* leaves them, the files in that of their names, where task10 is before   *)
(* task2.                                                                  *)
(***************************************************************************)
EXTENDS Integers, Sequences, Functions, FiniteSetsExt

CONSTANTS SubtaskLists,  \* the task sets that are printed
          NameRank,      \* the place of task<n>.txt in the order of names, for each program n
          TotalTime,     \* the argument totalTime, in units of a period
          Second         \* nsecPerSec

SubtaskOf == [prog : Nat \ {0}, period : Nat \ {0}, count : Nat, len : Nat]

ASSUME RtptSize ==
  /\ TotalTime \in Nat /\ Second \in Nat \ {0}
  /\ \A subs \in SubtaskLists :
       /\ subs \in Seq(SubtaskOf) /\ subs # <<>>
       /\ \A j, k \in DOMAIN subs :
            /\ j <= k => subs[j].prog <= subs[k].prog
            /\ subs[j].prog = subs[k].prog => subs[j].period = subs[k].period
            /\ subs[j].prog # subs[k].prog => NameRank[subs[j].prog] # NameRank[subs[k].prog]
            /\ NameRank[subs[j].prog] \in Nat

VARIABLES subtasks,   \* the task set
          printed,    \* how many of them the loop of print_taskset has passed
          printing,   \* the program that it collects: progid, period and task
          taskfiles,  \* the files, by program
          broken,     \* where one is malformed: program and segment (0 is the first line), or <<>>
          convert,    \* what is done next
          converted,  \* the programs whose files have been read
          segments,   \* what has been written of the line of the next one
          rtpt        \* the lines that are complete

printvars == <<subtasks, printed, printing>>

rtptvars == <<printvars, taskfiles, broken, convert, converted, segments, rtpt>>

NoProgram == [prog |-> 0, period |-> 0, segs |-> <<>>]

RtptInit ==
  /\ subtasks \in SubtaskLists
  /\ printed = 0 /\ printing = NoProgram
  /\ taskfiles = <<>> /\ broken = <<>>
  /\ convert = "print" /\ converted = <<>> /\ segments = <<>> /\ rtpt = <<>>

-------------------------------------------------------------------------------
(***************************************************************************)
(* print_taskset: a program is printed when the next one begins, the last  *)
(* one after the loop.  Then any one of the files may be damaged.          *)
(***************************************************************************)
NextSub == subtasks[printed + 1]

SegmentLine(s) == [count |-> s.count, len |-> s.len]

PrintTask ==
  taskfiles' = [id \in DOMAIN taskfiles \cup {printing.prog} |->
                  IF id = printing.prog THEN [period |-> printing.period, segs |-> printing.segs]
                  ELSE taskfiles[id]]

SameProgram ==
  /\ convert = "print" /\ printed < Len(subtasks) /\ printing.prog = NextSub.prog
  /\ printing' = [printing EXCEPT !.segs = Append(@, SegmentLine(NextSub))]
  /\ printed' = printed + 1
  /\ UNCHANGED <<subtasks, taskfiles, broken, convert, converted, segments, rtpt>>

NextProgram ==
  /\ convert = "print" /\ printed < Len(subtasks) /\ printing.prog # NextSub.prog
  /\ IF printing.prog # 0 THEN PrintTask ELSE UNCHANGED taskfiles
  /\ printing' = [prog |-> NextSub.prog, period |-> NextSub.period, segs |-> <<SegmentLine(NextSub)>>]
  /\ printed' = printed + 1
  /\ UNCHANGED <<subtasks, broken, convert, converted, segments, rtpt>>

LastProgram ==
  /\ convert = "print" /\ printed = Len(subtasks)
  /\ PrintTask
  /\ broken' \in {<<>>} \cup
       UNION {{<<f, k>> : k \in 0 .. Len(taskfiles'[f].segs)} : f \in DOMAIN taskfiles'}
  /\ convert' = "file"
  /\ UNCHANGED <<printvars, converted, segments, rtpt>>

-------------------------------------------------------------------------------
(***************************************************************************)
(* The output is emptied at the start, and a line is there as far as it    *)
(* has been written when the generator ends with an exception.             *)
(***************************************************************************)
Unread == DOMAIN taskfiles \ Range(converted)

FirstFile(files) == CHOOSE f \in files : \A g \in files : NameRank[f] <= NameRank[g]

TaskFile == FirstFile(Unread)

InFile == convert = "file" /\ Unread # {}

Bad == broken = <<TaskFile, IF convert = "file" THEN 0 ELSE Len(segments) + 1>>

BadTaskFile ==
  /\ InFile \/ convert = "segments"
  /\ Bad
  /\ convert' = "failed"
  /\ UNCHANGED <<printvars, taskfiles, broken, converted, segments, rtpt>>

ReadPeriod ==
  /\ InFile /\ ~ Bad
  /\ convert' = "segments"
  /\ UNCHANGED <<printvars, taskfiles, broken, converted, segments, rtpt>>

WriteSegment ==
  /\ convert = "segments" /\ ~ Bad
  /\ Len(segments) < Len(taskfiles[TaskFile].segs)
  /\ segments' = Append(segments, taskfiles[TaskFile].segs[Len(segments) + 1])
  /\ UNCHANGED <<printvars, taskfiles, broken, convert, converted, rtpt>>

ToTimespec(time) == <<time \div Second, time % Second>>

Timing(segs, period) ==
  [segs   |-> segs,
   work   |-> ToTimespec(SumFunction([k \in DOMAIN segs |-> segs[k].count * segs[k].len])),
   span   |-> ToTimespec(SumFunction([k \in DOMAIN segs |-> segs[k].len])),
   period |-> ToTimespec(period),
   iters  |-> TotalTime \div period]

WriteTiming ==
  /\ convert = "segments" /\ Len(segments) = Len(taskfiles[TaskFile].segs)
  /\ rtpt' = Append(rtpt, Timing(segments, taskfiles[TaskFile].period))
  /\ converted' = Append(converted, TaskFile) /\ segments' = <<>>
  /\ convert' = "file"
  /\ UNCHANGED <<printvars, taskfiles, broken>>

EndOutput ==
  /\ convert = "file" /\ Unread = {}
  /\ convert' = "done"
  /\ UNCHANGED <<printvars, taskfiles, broken, converted, segments, rtpt>>

RtptStep ==
  \/ SameProgram \/ NextProgram \/ LastProgram
  \/ BadTaskFile \/ ReadPeriod \/ WriteSegment \/ WriteTiming \/ EndOutput

-------------------------------------------------------------------------------
(***************************************************************************)
(* Every complete line is a program of the task set: all its segments and  *)
(* no other, in their order, its work, span and period in normal form, and *)
(* as many releases as begin and end within the time.  The lines come in   *)
(* the order of the names, no program twice.  All programs are there       *)
(* unless a file was malformed; then those of the files before it.         *)
(***************************************************************************)
Programs == {subtasks[k].prog : k \in DOMAIN subtasks}

SubtasksOf(id) ==
  LET places == {k \in DOMAIN subtasks : subtasks[k].prog = id}
  IN  SubSeq(subtasks, Min(places), Max(places))

Stands(time, length) == time[1] * Second + time[2] = length /\ time[2] \in 0 .. Second - 1

LineIsRight(line, subs) ==
  /\ line.segs = [k \in DOMAIN subs |-> SegmentLine(subs[k])]
  /\ Stands(line.work, SumFunction([k \in DOMAIN subs |-> subs[k].count * subs[k].len]))
  /\ Stands(line.span, SumFunction([k \in DOMAIN subs |-> subs[k].len]))
  /\ Stands(line.period, subs[1].period)
  /\ line.iters * subs[1].period <= TotalTime /\ (line.iters + 1) * subs[1].period > TotalTime

LinesAreRight ==
  /\ Len(rtpt) = Len(converted)
  /\ \A k \in DOMAIN rtpt : LineIsRight(rtpt[k], SubtasksOf(converted[k]))
  /\ \A j, k \in DOMAIN converted : j < k => NameRank[converted[j]] < NameRank[converted[k]]

ConversionIsRight ==
  /\ LinesAreRight
  /\ convert = "done" => Range(converted) = Programs /\ broken = <<>>
  /\ convert = "failed" =>
       Range(converted) = {id \in Programs : NameRank[id] < NameRank[broken[1]]}
===============================================================================
