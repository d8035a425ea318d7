------------------------------- MODULE Cluster -------------------------------
(***************************************************************************)
(* The two programs that call cluster_partition.  cluster.py reads a task  *)
(* set (.rtpt) and writes its schedule (.rtps), with the verdict in the    *)
(* first line; with "balance" it tries up to three thresholds.             *)
(* utility_test of taskgenerate.py generates task sets, tries the three    *)
(* thresholds through cluster_assign_core, then option 6, and counts how   *)
(* often the test and a simulation agree; this is one turn of its loop.    *)
(***************************************************************************)
EXTENDS TaskGenerate

CONSTANTS Inputs,   \* the task sets that cluster.py reads
          Programs    \* the programs that are run, with their options

ASSUME ClusterRuns ==
  Programs \subseteq ({"cluster"} \X {0, 1, 2, 3, 5, 6}) \cup {<<"utility_test", 3>>}

\* What readinput makes of a file: the critical path is part of the work.
Regular(t) == t.span <= t.work /\ t.util * t.period = t.work * Hyper

ASSUME InputsRead ==
  /\ Inputs \subseteq Seq(Task)
  /\ \A set \in Inputs : \A id \in DOMAIN set : Regular(set[id])

VARIABLES program,   \* the program and its option
          earlier,   \* sched of the first call of a chain of up to three
          kept,      \* the result that is kept: sched and outinfo
          rtps,      \* the schedule file: verdict and partition
          counted    \* verdict and simulation of option 5 and of option 6

calls == <<program, earlier, kept, rtps, counted>>
cvars == <<placing, gvars, calls>>

NoResult == [sched |-> 2, out |-> <<>>]

NoFile == [options |-> 2, lines |-> <<>>]

ClusterInit ==
  /\ program \in Programs
  /\ Idle /\ NothingGenerated
  /\ IF program[1] = "cluster" THEN tasks \in Inputs ELSE tasks = <<>>
  /\ earlier = 0 /\ kept = NoResult /\ rtps = NoFile /\ counted = <<>>

IsCaller(name) == program[1] = name

GoOn(next) ==
  /\ phase' = next
  /\ UNCHANGED <<input, out, stat, highs, lows, moved, sched, gvars>>

\* What readinput refuses, if the utilisation is at least 1.
TooLong(t) == t.util >= Hyper /\ 2 * t.span > t.period

(***************************************************************************)
(* An input that is refused, or malformed: nothing is written, and a file  *)
(* from an earlier run stays what it is.                                   *)
(***************************************************************************)
ReadFails ==
  /\ IsCaller("cluster") /\ phase = "idle"
  /\ GoOn("ended")
  /\ UNCHANGED calls

ReadInput ==
  /\ IsCaller("cluster") /\ phase = "idle"
  /\ \A id \in DOMAIN tasks : ~ TooLong(tasks[id])
  /\ Call(program[2])
  /\ UNCHANGED <<gvars, calls>>

GenerateSet ==
  /\ IsCaller("utility_test") /\ phase = "idle"
  /\ GenerateStep
  /\ UNCHANGED <<phase, option, info, out, stat, highs, lows, moved, sched, calls>>

AssignCore ==
  /\ IsCaller("utility_test") /\ phase = "idle" /\ gen = "generated"
  /\ Call(program[2])
  /\ UNCHANGED <<gvars, calls>>

(***************************************************************************)
(* loadbalance reads the number of a task from its name.  cluster.py names *)
(* its tasks so; those of utility_test are numbers, and to sort more than  *)
(* one by name ends the program.                                           *)
(***************************************************************************)
NoNames == IsCaller("utility_test") /\ phase = "balance" /\ Cardinality(DOMAIN tasks) > 1

SortFails ==
  /\ NoNames
  /\ GoOn("failed")
  /\ UNCHANGED calls

PartitionGoesOn ==
  /\ ~ NoNames
  /\ PartitionStep
  /\ UNCHANGED <<gvars, calls>>

-------------------------------------------------------------------------------
(***************************************************************************)
(* The chain of option 3 and, unless its verdict is 0, option 4 and then   *)
(* 2.  A partition is kept instead of the first one if it is guaranteed,   *)
(* or if the first call had none; a verdict 2 becomes 1 then, and 1 stays. *)
(***************************************************************************)
InChain == program[2] = 3 /\ option # 6

IsFirst == ~ InChain \/ option = 3

Prefers == sched = 0 \/ (earlier = 2 /\ sched = 1)

Kept ==
  IF IsFirst THEN [sched |-> sched, out |-> out]
  ELSE IF Prefers THEN [sched |-> 1, out |-> out]
  ELSE kept

\* Mutant: after option 2 comes option 4 again.
NextOptionTurns ==
  CASE InChain /\ option # 4 /\ sched # 0 -> 4
    [] InChain /\ option = 4 /\ sched = 2 -> 2
    [] OTHER -> 0

NextOption ==
  CASE InChain /\ option = 3 /\ sched # 0 -> 4
    [] InChain /\ option = 4 /\ sched = 2 -> 2
    [] OTHER -> 0

Returned ==
  /\ phase = "done"
  /\ GoOn("returned")
  /\ kept' = Kept
  /\ earlier' = IF IsFirst THEN sched ELSE earlier
  /\ UNCHANGED <<program, rtps, counted>>

TryNext ==
  /\ phase = "returned" /\ NextOption # 0
  /\ Call(NextOption)
  /\ UNCHANGED <<gvars, calls>>

(***************************************************************************)
(* The end of partition in cluster.py, and the rest of the loop in         *)
(* utility_test.                                                           *)
(***************************************************************************)
SortId(lines) == SortOn(lines, [i \in DOMAIN lines |-> lines[i].id])

WriteSchedule ==
  /\ IsCaller("cluster") /\ phase = "returned" /\ NextOption = 0
  /\ GoOn("ended")
  /\ rtps' = [options |-> IF kept.sched = 2 \/ kept.out = <<>> THEN 2 ELSE kept.sched,
              lines |-> SortId(kept.out)]
  /\ UNCHANGED <<program, earlier, kept, counted>>

CountFive ==
  /\ IsCaller("utility_test") /\ phase = "returned" /\ NextOption = 0 /\ option # 6
  /\ counted' = <<[sche |-> kept.sched, simu |-> Simulation(kept.out)]>>
  /\ Call(6)
  /\ UNCHANGED <<gvars, program, earlier, kept, rtps>>

CountSix ==
  /\ IsCaller("utility_test") /\ phase = "returned" /\ option = 6
  /\ counted' = Append(counted, [sche |-> kept.sched, simu |-> Simulation(kept.out)])
  /\ GoOn("ended")
  /\ UNCHANGED <<program, earlier, kept, rtps>>

ProgramStep ==
  \/ ReadFails \/ ReadInput \/ AssignCore \/ SortFails \/ PartitionGoesOn
  \/ Returned \/ TryNext \/ WriteSchedule \/ CountFive \/ CountSix

Ended == phase \in {"ended", "failed"}

ClusterNext ==
  \/ GenerateSet
  \/ ProgramStep
  \/ Ended /\ UNCHANGED cvars

ClusterSpec == ClusterInit /\ [][ClusterNext]_cvars

(***************************************************************************)
(* Neither program waits for anything but the draws of a task set, which   *)
(* may go on for ever.  This is weak fairness of ProgramStep with its      *)
(* enabling condition written out, which takes TLC too long to find; that  *)
(* a step is enabled there is the absence of deadlocks.                    *)
(***************************************************************************)
Drawing == phase = "idle" /\ IsCaller("utility_test")

ClusterFairSpec == ClusterSpec /\ ([]<>(Ended \/ Drawing) \/ []<><<ProgramStep>>_cvars)

-------------------------------------------------------------------------------
(***************************************************************************)
(* The types of the variables.                                             *)
(***************************************************************************)
ClusterTypeOK ==
  /\ phase \in {"idle", "high", "low", "balance", "done", "returned", "ended", "failed"}
  /\ option \in 0 .. 6
  /\ info \in Seq(DOMAIN tasks)
  /\ \A i \in DOMAIN out : out[i].id \in DOMAIN tasks
  /\ DOMAIN stat = Cores
  /\ parted \in 0 .. CoreNum
  /\ fit \in {"none", "refit"}
  /\ low \in Seq(DOMAIN tasks)
  /\ \A i \in DOMAIN lowcore : lowcore[i] \in Cores
  /\ sched \in 0 .. 2 /\ earlier \in 0 .. 2
  /\ rtps.options \in 0 .. 2
  /\ Len(counted) <= 2

(***************************************************************************)
(* What the properties ask of a task set.  A task whose work is all on its *)
(* critical path gets a cluster of no core.  The mapping of periods is     *)
(* sound for periods that are harmonic or close to each other; with option *)
(* 1, for close ones, the core whose bound is tested need not be the one   *)
(* that gets the task.                                                     *)
(***************************************************************************)
Parallel == \A id \in DOMAIN tasks : 20 * tasks[id].util >= 18 * Hyper => tasks[id].work > tasks[id].span

Harmonic(ids) ==
  \A a, b \in ids : tasks[a].period <= tasks[b].period => tasks[b].period % tasks[a].period = 0

Close(ids) == \A a, b \in ids : tasks[a].period < 2 * tasks[b].period

\* There is something to do, and it is what the segments sum up to, as in cluster_assign_core.
Segmented ==
  \A id \in DOMAIN tasks :
    LET t == tasks[id]
    IN  /\ t.work > 0
        /\ t.work = SumFunction([i \in DOMAIN t.segs |-> t.segs[i].count * t.segs[i].len])
        /\ t.span = SumFunction([i \in DOMAIN t.segs |-> t.segs[i].len])

SoundPeriods ==
  \/ Harmonic(DOMAIN tasks \ Highs)
  \/ Close(DOMAIN tasks \ Highs) /\ option # 1

(***************************************************************************)
(* The cores of a high task are its own and enough, through the placement, *)
(* the fit into sockets, the loss of a last core and the balance: what low *)
(* tasks take from it is less than one core, so that it keeps the floor of *)
(* (C - L) / (P - L), and two.  A fit into sockets lets any task lose a    *)
(* core; and if it changes the order of the tasks, another task than the   *)
(* one that owns the core is made smaller.                                 *)
(***************************************************************************)
InOrder == \A i \in DOMAIN out : IsHigh(out[i].id) => out[i].id = info[i]

CoresIn(e) == e.first .. e.last

OwnCores ==
  InOrder \/ sched # 1 =>
    \A i, j \in DOMAIN out :
      i # j /\ IsHigh(out[i].id) => CoresIn(out[i]) \cap CoresIn(out[j]) = {}

HighKeepsFloor ==
  Parallel /\ fit = "none" =>
    \A i \in DOMAIN out :
      LET t == tasks[out[i].id]
      IN  IsHigh(out[i].id) =>
            /\ Size(out[i]) >= 2
            /\ (Size(out[i]) + 1) * (t.period - t.span) > t.work - t.span

HighTasksKeepCores == OwnCores /\ HighKeepsFloor

(***************************************************************************)
(* The statistics, on which every decision rests, are those of the low     *)
(* tasks on the core, with the tasks that are moved there later.  Number   *)
(* and utilisation are exact.  The shortest period may be less than that   *)
(* of any task on the core, after one that was only tried for it or has    *)
(* left it, but for close periods and a guarantee it is never more.        *)
(***************************************************************************)
LowOn(core) == {out[i].id : i \in {k \in DOMAIN out : out[k].first = core /\ ~ IsHigh(out[k].id)}}

StatIsExact ==
  \A core \in Cores :
    LET ids == LowOn(core) \cup ToSet(moved[core])
    IN  phase \in {"low", "balance"} =>
          /\ stat[core].np = Cardinality(ids)
          /\ stat[core].sumutil = SumFunctionOnSet([id \in ids |-> tasks[id].util], ids)
          /\ sched = 0 /\ Close(DOMAIN tasks \ Highs) =>
               \A id \in ids : stat[core].mint <= tasks[id].period

(***************************************************************************)
(* 0 is a guarantee: every task meets its deadlines, also after a balance. *)
(* What is written after up to three calls has each task once, or says     *)
(* that there is no partition, and keeps the guarantee that it states.     *)
(***************************************************************************)
GuaranteeHolds ==
  Parallel /\ SoundPeriods =>
    /\ phase = "done" /\ sched = 0 => AllMeetDeadlines(out)
    /\ phase = "ended" /\ rtps.options = 0 => AllMeetDeadlines(rtps.lines)

ScheduleIsComplete ==
  rtps.lines # <<>> =>
    /\ rtps.options < 2
    /\ [i \in DOMAIN rtps.lines |-> rtps.lines[i].id] = [i \in DOMAIN tasks |-> i]

ScheduleIsRight == GuaranteeHolds /\ ScheduleIsComplete

(***************************************************************************)
(* The comment on the result, "#0: Guaranteed schedulable.", without those *)
(* conditions.                                                             *)
(***************************************************************************)
GuaranteedMeetsDeadlines == rtps.options = 0 => AllMeetDeadlines(rtps.lines)

(***************************************************************************)
(* For harmonic periods, and tasks made of segments, which is what the     *)
(* simulation is called with, it passes what meets its deadlines,          *)
(* fails where a task on a single core does not, and never meets the cases *)
(* that it prints as impossible; and utility_test does not print "what",   *)
(* that a task set was guaranteed and fails in the simulation.             *)
(*                                                                         *)
(* After a fit into sockets a task of two cores may lose one of them, and  *)
(* the simulation takes a single task on a single core for granted: the    *)
(* last two hold unless that has happened.                                 *)
(***************************************************************************)
NoClusterCut == fit = "none" \/ sched = 0

SimulationIsRight ==
  phase = "done" /\ Parallel /\ Harmonic(DOMAIN tasks) /\ Segmented /\ out # <<>> =>
    /\ AllMeetDeadlines(out) => Simulation(out) = 0
    /\ NoClusterCut =>
         /\ Simulation(out) = 0 => \A i \in DOMAIN out : Size(out[i]) = 1 => MeetsDeadline(out, out[i])
         /\ \A core \in Cores : ~ Impossible(out, core)

NoWhat == \A i \in DOMAIN counted : counted[i].sche = 0 => counted[i].simu = 0

SimulationAgrees == SimulationIsRight /\ NoWhat

(***************************************************************************)
(* Each program comes to an end, unless it draws programs for ever.        *)
(***************************************************************************)
ProgramsEnd == ~ Drawing ~> Ended
===============================================================================
