----------------------------- MODULE TaskGenerate -----------------------------
(***************************************************************************)
(* The generation of a task set in taskgenerate.py: programs of random     *)
(* segments are added until their utilisation is close enough to what is   *)
(* asked for.  Lengths of segments are in units of a draw; utilisations    *)
(* are those of tasks, in units of 1/Hyper (the code divides by corenum).  *)
(***************************************************************************)
EXTENDS ClusterSimulation

CONSTANTS Periods,    \* what period_generate draws
          Parts,      \* 1 / excp_generate: a span is at most period \div part
          Lengths,    \* what threadtype_generate draws
          Counts,     \* what numthread_generate draws
          TotalUtil,  \* totalutil * corenum
          Tolerance,  \* 0.02 * corenum
          MinPart     \* the longest span is period \div MinPart, 4 in the code

ASSUME GenerateSize ==
  /\ Periods \subseteq Nat \ {0} /\ Parts \subseteq Nat \ {0}
  /\ Lengths \subseteq Nat \ {0} /\ Counts \subseteq Nat \ {0}
  /\ TotalUtil \in Nat /\ Tolerance \in Nat
  /\ MinPart \in Nat \ {0, 1} /\ \A part \in Parts : part >= MinPart
  /\ \A period \in Periods : Hyper % period = 0

\* The periods are powers of two, and the utilisation asked for exceeds what it may fall short by.
ASSUME HarmonicSets ==
  /\ \A p, q \in Periods : p <= q => q % p = 0
  /\ Tolerance < TotalUtil

VARIABLES gen,    \* what the generation does next
          draft   \* the program under way: period, exctime and segments

gvars == <<gen, draft>>

NoDraft == [period |-> 0, exctime |-> 0, segs |-> <<>>]

NothingGenerated == gen = "draw" /\ draft = NoDraft

SumTime(segs) == SumFunction([i \in DOMAIN segs |-> segs[i].len])

(***************************************************************************)
(* program_generate: a period, the share of it that the critical path may  *)
(* take, and segments until one is drawn that is too long.  A first one    *)
(* that is too long is drawn again, which is no step here.                 *)
(***************************************************************************)
DrawPeriod ==
  /\ gen = "draw"
  /\ \E period \in Periods, part \in Parts :
       draft' = [period |-> period, exctime |-> period \div part, segs |-> <<>>]
  /\ gen' = "grow"
  /\ UNCHANGED tasks

AddSegment ==
  /\ gen = "grow"
  /\ \E len \in Lengths, count \in Counts :
       /\ SumTime(draft.segs) + len <= draft.exctime
       /\ draft' = [draft EXCEPT !.segs = Append(@, [count |-> count, len |-> len])]
  /\ UNCHANGED <<gen, tasks>>

EndProgram ==
  /\ gen = "grow" /\ draft.segs # <<>>
  /\ \E len \in Lengths : SumTime(draft.segs) + len > draft.exctime
  /\ gen' = "judge"
  /\ UNCHANGED <<draft, tasks>>

(***************************************************************************)
(* addprogram: the task set is complete, or the program takes it too far   *)
(* and others are drawn until one does not, or it is added.                *)
(***************************************************************************)
Drafted == Summed(draft.period, draft.segs)

UtilOf(ts) == SumFunction([id \in DOMAIN ts |-> ts[id].util])

Complete ==
  /\ gen = "judge" /\ UtilOf(tasks) >= TotalUtil - Tolerance
  /\ gen' = "generated"
  /\ draft' = NoDraft
  /\ UNCHANGED tasks

DrawAgain ==
  /\ gen = "judge" /\ UtilOf(tasks) < TotalUtil - Tolerance
  /\ UtilOf(tasks) + Drafted.util >= TotalUtil
  /\ gen' = "draw"
  /\ draft' = NoDraft
  /\ UNCHANGED tasks

AddProgram ==
  /\ gen = "judge" /\ UtilOf(tasks) < TotalUtil - Tolerance
  /\ UtilOf(tasks) + Drafted.util < TotalUtil
  /\ tasks' = Append(tasks, Drafted)
  /\ gen' = "draw"
  /\ draft' = NoDraft

GenerateStep ==
  DrawPeriod \/ AddSegment \/ EndProgram \/ Complete \/ DrawAgain \/ AddProgram
===============================================================================
