------------------------------ MODULE GatherData ------------------------------
(***************************************************************************)
(* The scripts that gather results.  A folder holds, for each task set and *)
(* type of lock, the status that the analysis wrote and, if it has been    *)
(* launched, a file of each task and one of statistics.  The scripts find  *)
(* out the number of tasks from the number of files, and count task sets:  *)
(* those the analysis accepts, those without a miss, those that are valid. *)
(* This is what a script does for one folder; a list of folders repeats    *)
(* it.  The priorities that gather_analysis_only tells apart are counted   *)
(* in the same way; one type stands for them.                              *)
(***************************************************************************)
EXTENDS Integers, Sequences, FiniteSets

CONSTANTS Scripts,      \* the scripts that are run
          NumTasksets,  \* num_tasksets
          Contents      \* what a folder may hold of a task set

Locks == {"fifo", "prio"}

Outcomes == {"ok", "missed", "empty", "unbound"}

(***************************************************************************)
(* A task set with status 2 has no cores and is not launched.  Priorities  *)
(* that are optimal are in a folder of their own, with no other lock.      *)
(***************************************************************************)
ASSUME GatherSize ==
  /\ Scripts \subseteq {"36cores", "12cores", "base_12cores", "base_36cores", "tpds", "tpds_opt", "analysis_only"}
  /\ NumTasksets \in Nat
  /\ \A set \in Contents :
       /\ DOMAIN set.status = Locks /\ DOMAIN set.out = Locks
       /\ \A lock \in Locks :
            set.status[lock] \in 0 .. 2 /\ set.out[lock] \in Seq(Outcomes)
              /\ (set.status[lock] = 2 => set.out[lock] = <<>>)

VARIABLES script,   \* the script
          folder,   \* what there is of each task set
          pass,     \* the reading of the folder that is under way
          i,        \* the next task set
          tally,    \* the counts: analysis, experiment, valid task sets
          results,  \* the counts of the passes that are complete
          end,      \* how the script has ended, or "no", or "shares" before it prints
          shown     \* the figures that are printed: count and number of valid task sets

gathervars == <<script, folder, pass, i, tally, results, end, shown>>

NoTally ==
  [ana |-> [lock \in Locks |-> 0], exp |-> [lock \in Locks |-> 0], valid |-> NumTasksets]

\* In the folder of optimal priorities only the priority lock has been launched.
Here(set) == IF script = "tpds_opt" THEN [set EXCEPT !.out["fifo"] = <<>>] ELSE set

GatherInit ==
  /\ script \in Scripts
  /\ folder \in {[k \in DOMAIN f |-> Here(f[k])] : f \in [1 .. NumTasksets -> Contents]}
  /\ pass = 1 /\ i = 1 /\ tally = NoTally /\ results = <<>> /\ end = "no" /\ shown = {}

(***************************************************************************)
(* The passes over the folder.  Most scripts read all in one; those of     *)
(* tpds call a function for each lock, for the analysis and then for the   *)
(* experiment.                                                             *)
(***************************************************************************)
Passes ==
  CASE script = "tpds" ->
         <<<<"analysis", {"fifo"}>>, <<"analysis", {"prio"}>>, <<"exper", {"fifo"}>>, <<"exper", {"prio"}>>>>
    [] script = "tpds_opt" -> <<<<"analysis", {"prio"}>>, <<"exper", {"prio"}>>>>
    [] script \in {"12cores", "analysis_only"} -> <<<<"accepted", Locks>>>>
    [] script = "base_36cores" -> <<<<"prio_only", Locks>>>>
    [] OTHER -> <<<<"data", Locks>>>>

Pass(name) == end = "no" /\ pass \in DOMAIN Passes /\ i <= NumTasksets /\ Passes[pass][1] = name

Set == folder[i]

ToNext(new) ==
  /\ tally' = new
  /\ i' = i + 1
  /\ UNCHANGED <<script, folder, pass, results, end, shown>>

Fail ==
  /\ end' = "error"
  /\ UNCHANGED <<script, folder, pass, i, tally, results, shown>>

-------------------------------------------------------------------------------
(***************************************************************************)
(* Two of the files are not of a task, and there are two files of each.    *)
(***************************************************************************)
FilesOf(set, lock) == IF set.out[lock] = <<>> THEN 0 ELSE Len(set.out[lock]) + 1

NumTasks(set) == (FilesOf(set, "fifo") + FilesOf(set, "prio") - 2) \div 2

Some(set, lock, outcome) == \E j \in 1 .. NumTasks(set) : set.out[lock][j] = outcome

(***************************************************************************)
(* gather_data reads the files of a task with either lock, then those of   *)
(* the next one.  A task that was not bound ends the reading and discards  *)
(* the task set; an empty file counts like one without a miss.  A file     *)
(* that is not there ends the script.                                      *)
(***************************************************************************)
Absent(set) ==
  /\ NumTasks(set) >= 1
  /\ set.out["fifo"] = <<>> \/ (set.out["prio"] = <<>> /\ set.out["fifo"][1] # "unbound")

Unbound(set) ==
  NumTasks(set) >= 1 /\ \E lock \in Locks : set.out[lock] # <<>> /\ Some(set, lock, "unbound")

Plus(counts, locks) == [lock \in Locks |-> counts[lock] + (IF lock \in locks THEN 1 ELSE 0)]

Accepted == {lock \in Locks : Set.status[lock] = 0}

\* Versions for one base task set leave out what the analysis rejects.
Eligible(lock) == script = "base_12cores" => Set.status[lock] # 2

Succeeded ==
  {lock \in Locks : Eligible(lock) /\ ~ Unbound(Set) /\ ~ Some(Set, lock, "missed")}

\* Mutant: the reading goes on after a task that was not bound.
GatherTaskSetTwice ==
  /\ Pass("data") /\ ~ Absent(Set)
  /\ ToNext([ana |-> Plus(tally.ana, Accepted), exp |-> Plus(tally.exp, Succeeded),
             valid |-> tally.valid -
               Cardinality({lock \in Locks : Set.out[lock] # <<>> /\ Some(Set, lock, "unbound")})])

GatherTaskSet ==
  /\ Pass("data") /\ ~ Absent(Set)
  /\ ToNext([ana |-> Plus(tally.ana, Accepted), exp |-> Plus(tally.exp, Succeeded),
             valid |-> tally.valid - (IF Unbound(Set) THEN 1 ELSE 0)])

FileIsAbsent == Pass("data") /\ Absent(Set) /\ Fail

(***************************************************************************)
(* gather_analysis_data and gather_analysis_only count statuses 0 of all   *)
(* types at once.  In gather_data_base_36cores all but the status of the   *)
(* priority lock is a comment: no task set counts as a success there.      *)
(***************************************************************************)
GatherAccepted ==
  /\ Pass("accepted")
  /\ ToNext([tally EXCEPT !.ana = Plus(@, Accepted)])

GatherPrioOnly ==
  /\ Pass("prio_only")
  /\ ToNext([tally EXCEPT !.ana = Plus(@, Accepted \cap {"prio"})])

(***************************************************************************)
(* The functions of tpds for one lock.  What status 2 rejects is not       *)
(* valid.  gather_exper_data then reads files until one tells of a miss;   *)
(* at one of a task that was not bound it counts with a variable that does *)
(* not exist, and ends.                                                    *)
(***************************************************************************)
Lock == CHOOSE lock \in Passes[pass][2] : TRUE

Rejected == Set.status[Lock] = 2

GatherAnalysis ==
  /\ Pass("analysis")
  /\ ToNext(IF Rejected THEN [tally EXCEPT !.valid = @ - 1]
            ELSE IF Lock \in Accepted THEN [tally EXCEPT !.ana[Lock] = @ + 1]
            ELSE tally)

\* The first file that is not read over.
Stops(j) == Set.out[Lock][j] \in {"unbound", "missed"}

StopsUnbound ==
  ~ Rejected /\ \E j \in 1 .. NumTasks(Set) : Set.out[Lock][j] = "unbound" /\ \A k \in 1 .. j - 1 : ~ Stops(k)

GatherExper ==
  /\ Pass("exper") /\ ~ StopsUnbound
  /\ ToNext(IF Rejected THEN [tally EXCEPT !.valid = @ - 1]
            ELSE IF Some(Set, Lock, "missed") THEN tally
            ELSE [tally EXCEPT !.exp[Lock] = @ + 1])

NoSuchVariable == Pass("exper") /\ StopsUnbound /\ Fail

-------------------------------------------------------------------------------
(***************************************************************************)
(* A complete pass, and a share of the valid task sets for each count,     *)
(* unless no task set was valid.                                           *)
(***************************************************************************)
EndPass ==
  /\ end = "no" /\ pass \in DOMAIN Passes /\ i > NumTasksets
  /\ results' = Append(results, tally)
  /\ pass' = pass + 1 /\ i' = 1 /\ tally' = NoTally
  /\ UNCHANGED <<script, folder, end, shown>>

WriteShares ==
  /\ end = "no" /\ pass \notin DOMAIN Passes
  /\ end' = IF \E p \in DOMAIN results : results[p].valid = 0 THEN "error" ELSE "shares"
  /\ UNCHANGED <<script, folder, pass, i, tally, results, shown>>

(***************************************************************************)
(* What main prints: everything, or the figures of the analysis, or those  *)
(* of the experiment.                                                      *)
(***************************************************************************)
Figures(p, what) ==
  {[what |-> what, lock |-> lock, valid |-> results[p].valid,
    count |-> IF what = "ana" THEN results[p].ana[lock] ELSE results[p].exp[lock]] :
      lock \in Passes[p][2]}

Show(figures) ==
  /\ shown' = figures
  /\ end' = "done"
  /\ UNCHANGED <<script, folder, pass, i, tally, results>>

PrintAllAtOnce ==
  /\ end = "shares" /\ script \in {"36cores", "base_12cores", "base_36cores"}
  /\ Show(Figures(1, "ana") \cup Figures(1, "exp"))

PrintAnalysisData ==
  /\ end = "shares" /\ script \in {"12cores", "analysis_only"}
  /\ Show(Figures(1, "ana"))

PrintExperData ==
  /\ end = "shares" /\ script \in {"tpds", "tpds_opt"}
  /\ Show(UNION {Figures(p, "exp") : p \in {q \in DOMAIN Passes : Passes[q][1] = "exper"}})

GatherStep ==
  \/ GatherTaskSet \/ FileIsAbsent \/ GatherAccepted \/ GatherPrioOnly
  \/ GatherAnalysis \/ GatherExper \/ NoSuchVariable
  \/ EndPass \/ WriteShares \/ PrintAllAtOnce \/ PrintAnalysisData \/ PrintExperData
===============================================================================
