----------------------------- MODULE LockTaskSets -----------------------------
(***************************************************************************)
(* The generators of task sets with shared resources: the five versions of *)
(* taskgen_wlocks.  A run draws a base task set (utilisations, then for    *)
(* each task a program of that utilisation) and lengths of critical        *)
(* sections; then, for each variant, it spreads requests over the tasks    *)
(* and over the strands of each task, and writes a file.  The versions     *)
(* differ in how they draw utilisations and in what they vary.  Lengths    *)
(* are in units of a draw, utilisations in units of 1 / UtilUnit.  A value *)
(* that is drawn again because it does not fit is no step.  Of the file    *)
(* there are the timing lines; the critical sections in it are what        *)
(* strands holds when the requests of a task have been distributed.        *)
(***************************************************************************)
EXTENDS Integers, Sequences, FiniteSets, FiniteSetsExt, Functions

CONSTANTS Versions,        \* the generators that are run
          TotalUtil,       \* fraction * m, of each version
          MinUtil,         \* 1.25
          MaxUtil,         \* math.sqrt(m)
          UtilUnit,        \* the utilisation of one processor
          TaskCounts,      \* the argument num_tasks of the versions of tpds
          Periods,         \* what period_generate draws
          Shares,          \* 1 / excp_generate
          Lengths,         \* what threadtype_generate draws, but 0
          Requests,        \* the argument for requests to each resource
          RequestCounts,   \* critical_sections_per_resource
          Resources,       \* the argument num_resources
          ResourceCounts,  \* num_shared_resources
          SectionLengths,  \* what short_cs_generate or mod_cs_generate draws
          Distance,        \* align_distance
          PerSecond,       \* nsec_per_sec
          HyperPeriods     \* num_hyper_period

\* With room for one task there is room for two, or the draws never end.
ASSUME LockTaskSetsSize ==
  /\ Versions \subseteq {"wlocks", "base", "base2", "tpds_base", "tpds_base2"}
  /\ UtilUnit \in Nat \ {0} /\ MinUtil \in Nat /\ MaxUtil \in Nat
  /\ MinUtil > UtilUnit /\ MaxUtil >= 2 * MinUtil
  /\ \A v \in Versions : TotalUtil[v] \in Nat /\ TotalUtil[v] >= 2 * MinUtil
  /\ TaskCounts \subseteq Nat
  /\ Periods \subseteq Nat \ {0} /\ Shares \subseteq Nat \ {0, 1}
  /\ \A p, q \in Periods : p <= q => q % p = 0  \* powers of two
  /\ PerSecond \in Nat \ {0} /\ HyperPeriods \in Nat \ {0}
  /\ Lengths \subseteq Nat \ {0}
  /\ Distance \in Nat \ {0} /\ SectionLengths \subseteq 1 .. Distance
  /\ Resources \in Nat
  /\ RequestCounts \in Seq(Nat) /\ RequestCounts # <<>>
  /\ ResourceCounts \in Seq(1 .. Len(ResourceCounts)) /\ ResourceCounts # <<>>  \* 1, 2, ...

VARIABLES version,  \* the generator
          stage,    \* what it does next
          remain,   \* the utilisation that no task has yet
          utils,    \* utils_list
          draft,    \* the program under way: period, expected span and work, segments
          base,     \* the base task set
          lengths,  \* critsec_lengths, of each task and resource
          variant,  \* the number of the variant under way
          asked,    \* the requests of each task to each resource in this variant
          current,  \* the task to whose strands they are assigned
          strands,  \* the critical sections of these, by segment and strand
          file      \* the timing line of each task in the file written last

lvars ==
  <<version, stage, remain, utils, draft, base, lengths, variant, asked, current, strands, file>>

NoDraft == [period |-> 0, span |-> 0, work |-> 0, segs |-> <<>>]

GeneratorInit ==
  /\ version \in Versions
  /\ stage = "main"
  /\ remain = TotalUtil[version]
  /\ utils = <<>> /\ draft = NoDraft /\ base = <<>> /\ lengths = <<>>
  /\ variant = 1 /\ asked = <<>> /\ current = 1 /\ strands = <<>> /\ file = <<>>

FixesCount == version \in {"tpds_base", "tpds_base2"}

(***************************************************************************)
(* What each version varies, with one base task set.                       *)
(***************************************************************************)
Variants ==
  CASE version = "wlocks" -> <<[res |-> Resources, req |-> Requests]>>
    [] version \in {"base", "tpds_base"} ->
         [i \in DOMAIN RequestCounts |-> [res |-> Resources, req |-> RequestCounts[i]]]
    [] OTHER -> [i \in DOMAIN ResourceCounts |-> [res |-> ResourceCounts[i], req |-> Requests]]

\* How many lengths of critical sections are drawn for each task: where the
\* number of resources varies, as many as there are such numbers.
MostResources == IF version \in {"base2", "tpds_base2"} THEN Len(ResourceCounts) ELSE Resources

-------------------------------------------------------------------------------
(***************************************************************************)
(* generate_tasks_utils: utilisations are drawn until what remains fits    *)
(* one more task.                                                          *)
(***************************************************************************)
StartUtils ==
  /\ stage = "main" /\ ~ FixesCount
  /\ stage' = "utils"
  /\ UNCHANGED <<version, remain, utils, draft, base, lengths, variant, asked, current, strands, file>>

DrawUtil ==
  /\ stage = "utils"
  /\ \E util \in MinUtil .. MaxUtil :
       /\ remain - util > MaxUtil
       /\ utils' = Append(utils, util) /\ remain' = remain - util
  /\ UNCHANGED <<version, stage, draft, base, lengths, variant, asked, current, strands, file>>

DrawLastUtils ==
  /\ stage = "utils"
  /\ \E util \in MinUtil .. MaxUtil :
       /\ remain - util \in MinUtil .. MaxUtil
       /\ utils' = utils \o <<util, remain - util>> /\ remain' = 0
  /\ stage' = "program"
  /\ UNCHANGED <<version, draft, base, lengths, variant, asked, current, strands, file>>

(***************************************************************************)
(* The versions of tpds are told how many tasks to make, refuse a number   *)
(* for which there are no utilisations, and draw them with a fixed sum.    *)
(***************************************************************************)
ValidCount(n) == n * MinUtil <= TotalUtil[version] /\ n * MaxUtil >= TotalUtil[version]

RefuseCount ==
  /\ stage = "main" /\ FixesCount
  /\ \E n \in TaskCounts : ~ ValidCount(n)
  /\ stage' = "ended"
  /\ UNCHANGED <<version, remain, utils, draft, base, lengths, variant, asked, current, strands, file>>

FixedSum(n) == {f \in [1 .. n -> MinUtil .. MaxUtil] : SumFunction(f) = TotalUtil[version]}

DrawFixedSum ==
  /\ stage = "main" /\ FixesCount
  /\ \E n \in TaskCounts : ValidCount(n) /\ utils' \in FixedSum(n)
  /\ remain' = 0
  /\ stage' = "program"
  /\ UNCHANGED <<version, draft, base, lengths, variant, asked, current, strands, file>>

-------------------------------------------------------------------------------
(***************************************************************************)
(* program_generate2: a period, segments that make up the span, and        *)
(* strands until the work is what the utilisation asks for.                *)
(***************************************************************************)
Span(segs) == SumFunction([i \in DOMAIN segs |-> segs[i].len])

Work(segs) == SumFunction([i \in DOMAIN segs |-> segs[i].len * segs[i].count])

Longest(segs) == Max({segs[i].len : i \in DOMAIN segs})

DrawPeriod ==
  /\ stage = "program"
  /\ \E period \in Periods, share \in Shares :
       draft' = [period |-> period, span |-> period \div share,
                 work |-> (period * utils[Len(base) + 1]) \div UtilUnit, segs |-> <<>>]
  /\ stage' = "segments"
  /\ UNCHANGED <<version, remain, utils, base, lengths, variant, asked, current, strands, file>>

AddSegment ==
  /\ stage = "segments" /\ Span(draft.segs) < draft.span
  /\ \E len \in Lengths :
       /\ Span(draft.segs) + len <= draft.span
       /\ draft' = [draft EXCEPT !.segs = Append(@, [count |-> 1, len |-> len])]
  /\ UNCHANGED <<version, stage, remain, utils, base, lengths, variant, asked, current, strands, file>>

EndSegments ==
  /\ stage = "segments" /\ draft.segs # <<>>
  /\ Span(draft.segs) = draft.span \/ \E len \in Lengths : Span(draft.segs) + len > draft.span
  /\ stage' = "strands"
  /\ UNCHANGED <<version, remain, utils, draft, base, lengths, variant, asked, current, strands, file>>

Missing == draft.work - Work(draft.segs)

Thicker(i) == [draft.segs EXCEPT ![i].count = @ + 1]

AddStrand ==
  /\ stage = "strands"
  /\ \E i \in DOMAIN draft.segs :
       draft.segs[i].len <= Missing /\ draft' = [draft EXCEPT !.segs = Thicker(i)]
  /\ UNCHANGED <<version, stage, remain, utils, base, lengths, variant, asked, current, strands, file>>

(***************************************************************************)
(* When a segment is drawn that is too long, one strand is added to the    *)
(* longest segment that still fits, the last of those in the program, if   *)
(* there is one.                                                           *)
(***************************************************************************)
Fitting == {i \in DOMAIN draft.segs : draft.segs[i].len <= Missing}

LastSegment ==
  Max({i \in Fitting : \A j \in Fitting : draft.segs[j].len <= draft.segs[i].len})

Completed == IF Fitting = {} THEN draft.segs ELSE Thicker(LastSegment)

Drafted(segs) ==
  /\ base' = Append(base, [period |-> draft.period, segs |-> segs])
  /\ draft' = NoDraft
  /\ stage' = IF Len(base') = Len(utils) THEN "lengths" ELSE "program"

\* Mutant: the segment that was drawn gets the last strand.
LastStrandAny ==
  /\ stage = "strands" /\ Missing > 0
  /\ \E i \in DOMAIN draft.segs : draft.segs[i].len > Missing /\ Drafted(Thicker(i))
  /\ UNCHANGED <<version, remain, utils, lengths, variant, asked, current, strands, file>>

LastStrand ==
  /\ stage = "strands" /\ Missing > 0
  /\ \E i \in DOMAIN draft.segs : draft.segs[i].len > Missing
  /\ Drafted(Completed)
  /\ UNCHANGED <<version, remain, utils, lengths, variant, asked, current, strands, file>>

WorkReached ==
  /\ stage = "strands" /\ Missing <= 0
  /\ Drafted(draft.segs)
  /\ UNCHANGED <<version, remain, utils, lengths, variant, asked, current, strands, file>>

-------------------------------------------------------------------------------
(***************************************************************************)
(* The lengths of critical sections are drawn once for all variants; by    *)
(* taskgen_wlocks.py, which has one variant, when the requests are, and    *)
(* only for the resources that a task uses.                                *)
(***************************************************************************)
SharesLengths == version # "wlocks"

DrawLengths ==
  /\ stage = "lengths" /\ SharesLengths
  /\ lengths' \in [DOMAIN base -> [1 .. MostResources -> SectionLengths]]
  /\ stage' = "requests"
  /\ UNCHANGED <<version, remain, utils, draft, base, variant, asked, current, strands, file>>

(***************************************************************************)
(* resources_generate_random on a copy of the base task set: each request  *)
(* to each resource goes to a random task.                                 *)
(***************************************************************************)
Spread(v) ==
  {f \in [DOMAIN base -> [1 .. v.res -> 0 .. v.req]] :
     \A r \in 1 .. v.res : SumFunction([t \in DOMAIN base |-> f[t][r]]) = v.req}

EmptyStrands(t) == [i \in DOMAIN base[t].segs |-> [j \in 1 .. base[t].segs[i].count |-> <<>>]]

NextVariant ==
  /\ variant' = variant + 1
  /\ stage' = IF variant' \in DOMAIN Variants THEN "requests" ELSE "ended"

GenerateAll ==
  /\ stage = "lengths" /\ ~ SharesLengths
  /\ asked' \in Spread(Variants[variant])
  /\ lengths' \in [DOMAIN base -> [1 .. MostResources -> SectionLengths \cup {0}]]
  /\ \A t \in DOMAIN base : \A r \in 1 .. MostResources : lengths'[t][r] = 0 <=> asked'[t][r] = 0
  /\ stage' = "distribute"
  /\ current' = 1 /\ strands' = EmptyStrands(1)
  /\ UNCHANGED <<version, remain, utils, draft, base, variant, file>>

GenerateResources ==
  /\ stage = "requests"
  /\ asked' \in Spread(Variants[variant])
  /\ stage' = "distribute"
  /\ current' = 1 /\ strands' = EmptyStrands(1)
  /\ UNCHANGED <<version, remain, utils, draft, base, lengths, variant, file>>

-------------------------------------------------------------------------------
(***************************************************************************)
(* distribute_resources_task_random: the requests of a task, resource by   *)
(* resource, each to a random strand that has room, at the next multiple   *)
(* of the distance; when no strand has room, the rest are dropped.         *)
(***************************************************************************)
\* Mutant: rounded up.
MaxRequestsRounded(i) == (base[current].segs[i].len + Distance - 1) \div Distance

MaxRequests(i) == base[current].segs[i].len \div Distance

Available ==
  UNION {{<<i, j>> : j \in {k \in DOMAIN strands[i] : Len(strands[i][k]) < MaxRequests(i)}} :
           i \in DOMAIN strands}

Assigned(r) ==
  SumFunction([i \in DOMAIN strands |-> SumFunction([j \in DOMAIN strands[i] |->
    Cardinality({k \in DOMAIN strands[i][j] : strands[i][j][k].res = r})])])

Open == {r \in DOMAIN asked[current] : Assigned(r) < asked[current][r]}

PlaceRequest ==
  /\ stage = "distribute" /\ Open # {}
  /\ \E s \in Available :
       LET request == [offset |-> Distance * Len(strands[s[1]][s[2]]),
                       res |-> Min(Open), len |-> lengths[current][Min(Open)]]
       IN  strands' = [strands EXCEPT ![s[1]][s[2]] = Append(@, request)]
  /\ UNCHANGED <<version, stage, remain, utils, draft, base, lengths, variant, asked, current, file>>

Distributed == stage = "distribute" /\ (Open = {} \/ Available = {})

NextTask ==
  /\ Distributed /\ current < Len(base)
  /\ current' = current + 1
  /\ strands' = EmptyStrands(current + 1)
  /\ UNCHANGED <<version, stage, remain, utils, draft, base, lengths, variant, asked, file>>

(***************************************************************************)
(* write_to_rtpt_random_2: work, span and period of a task in seconds and  *)
(* nanoseconds, and how often it is released in so many hyperperiods.      *)
(* Periods divide each other, so that the longest is the hyperperiod.      *)
(***************************************************************************)
Timespec(length) ==
  IF length > PerSecond THEN <<length \div PerSecond, length % PerSecond>> ELSE <<0, length>>

Hyperperiod == Max({base[t].period : t \in DOMAIN base})

Iterations(t) == HyperPeriods * (Hyperperiod \div base[t].period)

TimingLine(t) ==
  [work |-> Timespec(Work(base[t].segs)), span |-> Timespec(Span(base[t].segs)),
   period |-> Timespec(base[t].period), iters |-> Iterations(t)]

WriteFile ==
  /\ Distributed /\ current = Len(base)
  /\ file' = [t \in DOMAIN base |-> TimingLine(t)]
  /\ NextVariant
  /\ UNCHANGED <<version, remain, utils, draft, base, lengths, asked, current, strands>>

GeneratorEnded == stage = "ended"

GeneratorStep ==
  \/ StartUtils \/ DrawUtil \/ DrawLastUtils \/ RefuseCount \/ DrawFixedSum
  \/ DrawPeriod \/ AddSegment \/ EndSegments \/ AddStrand \/ LastStrand \/ WorkReached
  \/ DrawLengths \/ GenerateAll \/ GenerateResources \/ PlaceRequest \/ NextTask \/ WriteFile

-------------------------------------------------------------------------------
(***************************************************************************)
(* A base task has the utilisation that was drawn for it, but for less     *)
(* than one strand, and these add up to what was asked for.  Its span is   *)
(* within its share, and it has work beyond its span: without, the         *)
(* analysis would give it no processor and divide by that number.  The     *)
(* file has these numbers, and releases that last equally long.            *)
(***************************************************************************)
FollowsUtil(task, util) ==
  LET missing == (task.period * util) \div UtilUnit - Work(task.segs)
  IN  /\ missing >= 0 /\ missing < Longest(task.segs)
      /\ \E share \in Shares : Span(task.segs) <= task.period \div share
      /\ Work(task.segs) > Span(task.segs)

Value(time) == time[1] * PerSecond + time[2]

TimingIsRight ==
  \A t \in DOMAIN file :
    /\ Value(file[t].work) = Work(base[t].segs) /\ Value(file[t].span) = Span(base[t].segs)
    /\ file[t].period[2] <= PerSecond
    /\ file[t].iters * Value(file[t].period) = HyperPeriods * Hyperperiod

WorkFollowsUtil ==
  /\ TimingIsRight
  /\ \A t \in DOMAIN base : FollowsUtil(base[t], utils[t])
  /\ stage \notin {"main", "utils", "ended"} =>
       SumFunction(utils) = TotalUtil[version] /\ \A t \in DOMAIN utils : utils[t] \in MinUtil .. MaxUtil

(***************************************************************************)
(* The critical sections of a strand follow each other without overlap     *)
(* and end before the strand does.  synthetic_task.cpp subtracts their     *)
(* ends and offsets as unsigned numbers.                                   *)
(***************************************************************************)
SectionsFit ==
  stage = "distribute" =>
    \A i \in DOMAIN strands : \A j \in DOMAIN strands[i] :
      LET cs == strands[i][j]
          End(k) == cs[k].offset + cs[k].len
      IN  \A k \in DOMAIN cs :
            End(k) <= (IF k < Len(cs) THEN cs[k + 1].offset ELSE base[current].segs[i].len)

(***************************************************************************)
(* Of each variant every request goes to a task, whatever the variants     *)
(* before it were, and is dropped there only if no strand has the room of  *)
(* one more distance.                                                      *)
(***************************************************************************)
RequestsKept ==
  stage = "distribute" =>
    /\ \A r \in 1 .. Variants[variant].res :
         SumFunction([t \in DOMAIN base |-> asked[t][r]]) = Variants[variant].req
    /\ Distributed /\ Open # {} =>
         \A i \in DOMAIN strands : \A j \in DOMAIN strands[i] :
           (Len(strands[i][j]) + 1) * Distance > base[current].segs[i].len

RequestsArePlaced == SectionsFit /\ RequestsKept
===============================================================================
