---------------------------- MODULE MCExperiment ----------------------------
EXTENDS Experiment

MCVersions == {"wlocks", "base", "base2", "tpds_base", "tpds_base2"}

\* Three tasks for one version, two for the others.
MCTotalUtil ==
  [wlocks |-> 16, base |-> 10, base2 |-> 11, tpds_base |-> 11, tpds_base2 |-> 10]

MCOneTwo == <<1, 2>>

\* More requests than the strands of the smallest task have room for.
MCOneFour == <<1, 4>>

MCScripts ==
  {"36cores", "12cores", "base_12cores", "base_36cores", "tpds", "tpds_opt", "analysis_only"}

\* Outputs of three tasks: clean, with a miss, and with a task that was not
\* bound, at the start or at the end after a miss; or with an empty file.
Outputs == {<<"ok", "ok", "ok">>, <<"ok", "ok", "missed">>, <<"unbound", "ok", "ok">>, <<"ok", "missed", "unbound">>}

WithEmpty == <<"empty", "ok", "missed">>

Launched(status, out) == [lock \in Locks |-> IF status[lock] = 2 THEN <<>> ELSE out[lock]]

MCContents ==
  {[status |-> status, out |-> Launched(status, out)] :
     status \in [Locks -> 0 .. 2],
     out \in {f \in [Locks -> Outputs \cup {WithEmpty}] : f["fifo"] # WithEmpty}}

Sub(prog, count, len) == [prog |-> prog, period |-> 8 * prog, count |-> count, len |-> len]

\* Task sets of one to three programs of one or two segments.
Programmed(n) ==
  {FlattenSeq([p \in 1 .. n |-> [k \in DOMAIN shape[p] |-> Sub(p, shape[p][k], 2 * k + p)]]) :
     shape \in [1 .. n -> {<<1>>, <<4>>, <<3, 2>>, <<2, 5>>}]}

\* Ten programs, so that names have another order than numbers.
TenPrograms == [n \in 1 .. 10 |-> Sub(n, 1 + (n % 3), n)]

MCSubtaskLists == {TenPrograms} \cup UNION {Programmed(n) : n \in 1 .. 3}

MCNameRank == [n \in 1 .. 10 |-> IF n = 10 THEN 2 ELSE IF n = 1 THEN 1 ELSE n + 1]

Strand1(res) == <<[offset |-> 2, res |-> res, len |-> 1]>>

\* A task of two threads with two segments, and one of a single thread that
\* asks for the same lock, or for each of two.
Pair(first, second) ==
  << <<[len |-> 5, strands |-> <<Strand1(1), first>>], [len |-> 3, strands |-> <<<<>>>>]>>,
     <<[len |-> 5, strands |-> <<second>>]>> >>

MCTaskPrograms ==
  {Pair(Strand1(1), Strand1(1)),
   Pair(<<>>, <<[offset |-> 0, res |-> 1, len |-> 2], [offset |-> 2, res |-> 2, len |-> 3]>>)}

MCNumThreads == <<2, 1>>
===============================================================================
