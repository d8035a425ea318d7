------------------------------ MODULE MCCluster ------------------------------
EXTENDS Cluster

MCPrograms == ({"cluster"} \X {0, 1, 2, 3, 5, 6}) \cup {<<"utility_test", 3>>}
MCBalance == {<<"cluster", 3>>}

Seg(count, len) == [count |-> count, len |-> len]

\* Sequential and parallel tasks of low utilisation, of periods 4, 6, 8 and 12.
Low == <<Summed(4, <<Seg(1, 2)>>), Summed(4, <<Seg(3, 1)>>), Summed(6, <<Seg(1, 2)>>),
         Summed(6, <<Seg(2, 2)>>), Summed(12, <<Seg(1, 5)>>), Summed(12, <<Seg(2, 4)>>),
         Summed(8, <<Seg(1, 3), Seg(1, 2)>>), Summed(12, <<Seg(1, 4)>>)>>

(***************************************************************************)
(* Tasks of high utilisation.  The first five need 2, 2, 3, 4 and 7 cores; *)
(* the first and the sequential one after them are high for a threshold of *)
(* 0.9 only.  Of the next two, the one of lower utilisation needs more.    *)
(* The last one is low for a threshold of 1, and high for all others.      *)
(***************************************************************************)
High == <<Summed(12, <<Seg(5, 2), Seg(1, 1)>>), Summed(6, <<Seg(7, 1)>>),
          Summed(4, <<Seg(8, 1)>>), Summed(4, <<Seg(5, 1), Seg(3, 1)>>), Summed(4, <<Seg(20, 1)>>),
          Summed(12, <<Seg(1, 11)>>),
          Summed(12, <<Seg(20, 1)>>), Summed(12, <<Seg(1, 3), Seg(5, 2), Seg(6, 1)>>),
          Summed(24, <<Seg(1, 21), Seg(2, 1)>>)>>

Pick(pool, ids) == [i \in DOMAIN ids |-> pool[ids[i]]]

Sorted(ids) == \A i, j \in DOMAIN ids : i < j => ids[i] <= ids[j]

Lows == {Pick(Low, ids) : ids \in {x \in UNION {[1 .. n -> DOMAIN Low] : n \in 0 .. 3} : Sorted(x)}}

Highs2 == {<<>>, <<1>>, <<3>>, <<5>>, <<6>>, <<2, 5>>, <<1, 5>>, <<5, 9>>, <<2, 2, 2>>, <<2, 7, 8>>}

\* Small tasks of one period, which all go to one core before the balance.
Small == [i \in 1 .. 4 |-> Summed(12, <<Seg(1, i)>>)]

Smalls == {Pick(Small, ids) : ids \in {x \in UNION {[1 .. n -> DOMAIN Small] : n \in 3 .. 4} : Sorted(x)}}

\* Tasks that leave no room for another one on the cores that a fit into sockets leaves.
Large == <<Summed(6, <<Seg(1, 3)>>), Summed(12, <<Seg(2, 4)>>), Summed(12, <<Seg(1, 9)>>)>>

Larges == {Pick(Large, ids) : ids \in {x \in [1 .. 4 -> DOMAIN Large] : Sorted(x)}}

MCInputs ==
  ({Pick(High, h) \o l : h \in Highs2, l \in Lows} \ {<<>>})
    \cup {Pick(High, <<5>>) \o l : l \in Smalls}
    \cup {Pick(High, h) \o l : h \in {<<2, 2, 2>>, <<2, 7, 8>>}, l \in Larges}
===============================================================================
