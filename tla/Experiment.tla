------------------------------ MODULE Experiment ------------------------------
(***************************************************************************)
(* The programs of an experiment: a generator of task sets with shared     *)
(* resources, the conversion of task sets without, the tasks of a launch   *)
(* that keeps statistics, and a script that gathers what analysis and      *)
(* launches have left in a folder.  Between them are the test and the life *)
(* of a launch, which other modules describe; here they are any content of *)
(* the folder.  Each program runs alone.                                   *)
(***************************************************************************)
EXTENDS LockTaskSets, GatherData, RtptGenerator, SyntheticTask

VARIABLE program  \* which of the four is run

vars == <<program, lvars, gathervars, rtptvars, execvars>>

NoGenerator ==
  /\ version = "" /\ stage = "ended" /\ remain = 0 /\ utils = <<>> /\ draft = NoDraft
  /\ base = <<>> /\ lengths = <<>> /\ variant = 1 /\ asked = <<>> /\ current = 1
  /\ strands = <<>> /\ file = <<>>

NoScript ==
  /\ script = "" /\ folder = <<>> /\ pass = 0 /\ i = 0 /\ tally = NoTally /\ results = <<>>
  /\ end = "done" /\ shown = {}

NoConversion ==
  /\ subtasks = <<>> /\ printed = 0 /\ printing = NoProgram /\ taskfiles = <<>> /\ broken = <<>>
  /\ convert = "done" /\ converted = <<>> /\ segments = <<>> /\ rtpt = <<>>

NoExecution ==
  /\ locksType = "" /\ requested = <<>> /\ code = <<>> /\ jobs = <<>> /\ segment = <<>>
  /\ nextStrand = <<>> /\ ran = <<>> /\ pc = <<>> /\ strand = <<>> /\ section = <<>>
  /\ resource = <<>> /\ waiting = <<>> /\ holder = <<>> /\ spinlock = <<>> /\ data = <<>>
  /\ nextEvent = <<>> /\ statFile = <<>>

Init ==
  \/ program = "generate" /\ GeneratorInit /\ NoScript /\ NoConversion /\ NoExecution
  \/ program = "gather" /\ NoGenerator /\ GatherInit /\ NoConversion /\ NoExecution
  \/ program = "convert" /\ NoGenerator /\ NoScript /\ RtptInit /\ NoExecution
  \/ program = "execute" /\ NoGenerator /\ NoScript /\ NoConversion /\ ExecutionInit

Generate == program = "generate" /\ GeneratorStep /\ UNCHANGED <<program, gathervars, rtptvars, execvars>>

Gather == program = "gather" /\ GatherStep /\ UNCHANGED <<program, lvars, rtptvars, execvars>>

Convert == program = "convert" /\ RtptStep /\ UNCHANGED <<program, lvars, gathervars, execvars>>

Execute == program = "execute" /\ ExecutionStep /\ UNCHANGED <<program, lvars, gathervars, rtptvars>>

Ended ==
  /\ stage = "ended" /\ end \in {"done", "error"} /\ convert \in {"done", "failed"}
  /\ program = "execute" => statFile # <<>>

Next == Generate \/ Gather \/ Convert \/ Execute \/ (Ended /\ UNCHANGED vars)

Spec == Init /\ [][Next]_vars

-------------------------------------------------------------------------------
(***************************************************************************)
(* The types of the variables.                                             *)
(***************************************************************************)
TypeOK ==
  /\ stage \in {"main", "utils", "program", "segments", "strands", "lengths", "requests",
                "distribute", "ended"}
  /\ remain \in Nat /\ \A t \in DOMAIN utils : utils[t] \in MinUtil .. MaxUtil
  /\ Len(base) <= Len(utils)
  /\ end \in {"no", "shares", "done", "error"}
  /\ tally.valid \in 0 .. NumTasksets
  /\ \A lock \in Locks : tally.ana[lock] \in 0 .. NumTasksets /\ tally.exp[lock] \in 0 .. NumTasksets

(***************************************************************************)
(* The counts of a script that comes to an end are right.  A task set      *)
(* counts as a success if no task tells of a miss; one with a file that is *)
(* empty or of a task that was not bound is discarded, once, as the        *)
(* comments of the scripts say (gather_data_36cores.py:65, line 193 of     *)
(* gather_data_base_36cores.py of tpds): by the functions of tpds for that *)
(* lock, by the others for both.  What is printed is right but for         *)
(* gather_data_base_36cores, which prints counts that it has not made.     *)
(*                                                                         *)
(* This is so for complete folders.  The number of files tells the number  *)
(* of tasks: both locks have been launched, or neither and the script      *)
(* leaves out what the analysis rejects.  And it is not a folder of which  *)
(* the scripts keep what the comments discard: they read over a file that  *)
(* is empty, and those of tpds stop at a miss, before they find that a     *)
(* later task was not bound.                                               *)
(***************************************************************************)
Has(set, outcome, lock) == outcome \in {set.out[lock][j] : j \in DOMAIN set.out[lock]}

EmptyIsKept(set) ==
  script \in {"36cores", "base_12cores", "tpds"} /\ \E lock \in Locks : Has(set, "empty", lock)

MissHidesUnbound(set) ==
  script = "tpds" /\ \E lock \in Locks : \E j, k \in DOMAIN set.out[lock] :
    j < k /\ set.out[lock][j] = "missed" /\ set.out[lock][k] = "unbound"

Complete(set) ==
  /\ \/ (\A lock \in Locks : set.status[lock] # 2) /\ Len(set.out["fifo"]) = Len(set.out["prio"])
     \/ script \in {"base_12cores", "tpds"} /\ \A lock \in Locks : set.status[lock] = 2
  /\ ~ EmptyIsKept(set) /\ ~ MissHidesUnbound(set)

Discarded(set, lock) ==
  \E read \in IF script = "tpds" THEN {lock} ELSE Locks :
    Has(set, "unbound", read) \/ Has(set, "empty", read)

Clean(set, lock) == set.status[lock] # 2 /\ ~ Discarded(set, lock) /\ ~ Has(set, "missed", lock)

HowMany(Ok(_)) == Cardinality({k \in 1 .. NumTasksets : Ok(folder[k])})

CountsOf(lock, counts, analysed, launched) ==
  /\ analysed => counts.ana[lock] = HowMany(LAMBDA set : set.status[lock] = 0)
  /\ launched => counts.exp[lock] = HowMany(LAMBDA set : Clean(set, lock))

ValidOf(p) ==
  CASE Passes[p][1] = "data" -> HowMany(LAMBDA set : \A lock \in Locks : ~ Discarded(set, lock))
    [] Passes[p][1] = "analysis" ->
         HowMany(LAMBDA set : \A lock \in Passes[p][2] : set.status[lock] # 2)
    [] Passes[p][1] = "exper" ->
         HowMany(LAMBDA set : \A lock \in Passes[p][2] : set.status[lock] # 2 /\ ~ Discarded(set, lock))
    [] OTHER -> NumTasksets

FigureIsRight(f) ==
  f.count = HowMany(LAMBDA set : IF f.what = "ana" THEN set.status[f.lock] = 0 ELSE Clean(set, f.lock))

CountsAreRight ==
  program = "gather" /\ end = "done" /\ script # "tpds_opt"
    /\ (\A k \in 1 .. NumTasksets : Complete(folder[k])) =>
    /\ script # "base_36cores" => \A f \in shown : FigureIsRight(f)
    /\ \A p \in DOMAIN results :
         /\ results[p].valid = ValidOf(p)
         /\ \A lock \in Passes[p][2] :
              CountsOf(lock, results[p],
                    Passes[p][1] \in {"analysis", "data", "accepted"} \/ (Passes[p][1] = "prio_only" /\ lock = "prio"),
                    Passes[p][1] \in {"exper", "data"})

(***************************************************************************)
(* What the programs put out is what there was: figures of the folders,    *)
(* lines of the converted file, of which none is of half a program, and    *)
(* statistics of every request; and a job runs the work of its task.       *)
(***************************************************************************)
OutputsAreRight == CountsAreRight /\ ConversionIsRight /\ WorkIsRun /\ FileIsComplete
===============================================================================
