--------------------------- MODULE Experiment_proofs ---------------------------
(***************************************************************************)
(* Six proofs about the programs of an experiment.                        *)
(*                                                                         *)
(* The generators place every request, and place it so that critical       *)
(* sections neither overlap nor outlast their strand, for all programs,    *)
(* numbers of requests and distances, and whatever is drawn: what is       *)
(* printed of a section is its offset and its length, the offset is the    *)
(* number of sections before it times the distance, which no section is    *)
(* longer than, and a strand takes one more only as long as it has room    *)
(* for a whole distance.                                                   *)
(*                                                                         *)
(* The log of a lock is a history of its queue, for all numbers of tasks   *)
(* and threads: who writes has the spinlock, so that the number before is  *)
(* that of the requests under way, until the log is full.                  *)
(*                                                                         *)
(* The work of a generated task is what its utilisation asks for, for all  *)
(* base task sets and draws: a strand is cut into pieces around its        *)
(* sections, and what is printed of pieces and sections adds up to it.     *)
(*                                                                         *)
(* The scripts count right, for all numbers of task sets and all complete  *)
(* folders: no pass changes the folder, and each adds up what the files    *)
(* say of the task sets that it has read.                                  *)
(*                                                                         *)
(* The threads of a task run its program: a strand is a walk through its   *)
(* sections, and what is left of the strands under way, with what has been *)
(* run, is what has been handed out. The requests of all jobs are events   *)
(* of a finite set, of which a thread adds the next one to those that have *)
(* happened: the log counts them, up to its limit.                         *)
(*                                                                         *)
(* The converted file has the programs of the task set, for all task sets  *)
(* and orders of names: print_taskset cuts the list of subtasks into       *)
(* programs where the next one begins, and the reader takes the first of   *)
(* the files that it has not read.                                         *)
(***************************************************************************)
EXTENDS Experiment, SumTheorems, TLAPS, SequenceTheorems, WellFoundedInduction, FiniteSetTheorems

Seg == [count : Nat, len : Nat]

Segs == Seq(Seg)

Section == [offset : Nat, res : Nat, len : 0 .. Distance]

\* A base task set of at least one task, and lengths no longer than the distance.
BaseType ==
  /\ draft = [period |-> draft.period, span |-> draft.span, work |-> draft.work, segs |-> draft.segs]
  /\ draft.segs \in Segs
  /\ base \in Seq([period : Nat, segs : Segs])
  /\ draft.period \in Nat

LengthsInv ==
  /\ stage \in {"lengths", "requests", "distribute"} => base # <<>>
  /\ stage \in {"requests", "distribute"} =>
       lengths \in [DOMAIN base -> [1 .. MostResources -> 0 .. Distance]]

\* The requests of the variant under way.
RequestsInv ==
  /\ stage # "ended" => version \in Versions /\ variant \in DOMAIN Variants
  /\ stage = "distribute" =>
       /\ asked \in Spread(Variants[variant])
       /\ current \in DOMAIN base

\* The sections of one strand, of a segment of length len.
StrandFits(cs, len) ==
  /\ cs \in Seq(Section)
  /\ Len(cs) * Distance <= len
  /\ \A k \in DOMAIN cs : cs[k].offset = Distance * (k - 1)

StrandsInv ==
  stage = "distribute" =>
    /\ DOMAIN strands = DOMAIN base[current].segs
    /\ \A s \in DOMAIN strands : \E n \in Nat :
         /\ DOMAIN strands[s] = 1 .. n
         /\ \A j \in 1 .. n : StrandFits(strands[s][j], base[current].segs[s].len)

Inv == BaseType /\ LengthsInv /\ RequestsInv /\ StrandsInv

-------------------------------------------------------------------------------
\* A whole number of distances that is less than the quotient leaves room.
LEMMA RoomForOne ==
  ASSUME NEW len \in Nat, NEW n \in Nat
  PROVE  /\ n < len \div Distance => (n + 1) * Distance <= len
         /\ ~ (n < len \div Distance) => (n + 1) * Distance > len
<1> DEFINE q == len \div Distance
<1>1. Distance \in Nat \ {0}
  BY LockTaskSetsSize
<1>2. q \in Nat /\ q * Distance <= len /\ len < (q + 1) * Distance
  BY <1>1
<1>3. n < q => (n + 1) * Distance <= q * Distance
  BY <1>1, <1>2
<1>4. ~ (n < q) => (q + 1) * Distance <= (n + 1) * Distance
  BY <1>1, <1>2
<1>5. q * Distance \in Nat /\ (q + 1) * Distance \in Nat /\ (n + 1) * Distance \in Nat
  BY <1>1, <1>2
<1> HIDE DEF q
<1> QED
  BY <1>2, <1>3, <1>4, <1>5 DEF q

\* Sections that follow each other at the distance do not overlap.
LEMMA SectionsFollow ==
  ASSUME NEW cs, NEW len \in Nat, StrandFits(cs, len), NEW k \in DOMAIN cs
  PROVE  cs[k].offset + cs[k].len <= (IF k < Len(cs) THEN cs[k + 1].offset ELSE len)
<1>1. /\ Distance \in Nat \ {0} /\ k \in Nat /\ k <= Len(cs) /\ Len(cs) \in Nat
      /\ cs[k] \in Section
  BY SMTT(30), LockTaskSetsSize DEF StrandFits
<1>2. cs[k].offset + cs[k].len <= Distance * k
  <2>1. cs[k].offset = Distance * (k - 1) /\ cs[k].len \in 0 .. Distance
    BY <1>1 DEF StrandFits, Section
  <2>2. Distance * (k - 1) + Distance = Distance * k
    BY <1>1
  <2>3. Distance * (k - 1) \in Int /\ Distance * k \in Int
    BY <1>1
  <2> QED
    BY SMTT(30), <1>1, <2>1, <2>2, <2>3
<1>3. CASE k < Len(cs)
  <2>1. k + 1 \in DOMAIN cs
    BY <1>1, <1>3 DEF StrandFits
  <2>2. cs[k + 1].offset = Distance * ((k + 1) - 1)
    BY <2>1 DEF StrandFits
  <2>3. (k + 1) - 1 = k
    BY <1>1
  <2> QED
    BY <1>2, <1>3, <2>2, <2>3
<1>4. CASE ~ (k < Len(cs))
  <2>1. k = Len(cs)
    BY <1>1, <1>4
  <2>2. Distance * k = Len(cs) * Distance
    BY <1>1, <2>1
  <2>3. Len(cs) * Distance <= len
    BY DEF StrandFits
  <2>4. Len(cs) * Distance \in Int /\ cs[k].offset + cs[k].len \in Int
    BY <1>1 DEF Section
  <2>5. cs[k].offset + cs[k].len <= len
    BY <1>2, <2>2, <2>3, <2>4
  <2> QED
    BY <1>4, <2>5
<1> QED
  BY <1>3, <1>4

\* A section that is added at the end of a strand with room.
LEMMA StrandGrows ==
  ASSUME NEW cs, NEW len \in Nat, StrandFits(cs, len), Len(cs) < len \div Distance,
         NEW s \in Section, s.offset = Distance * Len(cs)
  PROVE  StrandFits(Append(cs, s), len)
<1>1. Len(cs) \in Nat /\ cs \in Seq(Section)
  BY DEF StrandFits
<1>2. Append(cs, s) \in Seq(Section) /\ Len(Append(cs, s)) = Len(cs) + 1
  BY <1>1
<1>3. (Len(cs) + 1) * Distance <= len
  BY <1>1, RoomForOne
<1>4. ASSUME NEW k \in DOMAIN Append(cs, s)
      PROVE  Append(cs, s)[k].offset = Distance * (k - 1)
  <2>1. k \in 1 .. Len(cs) + 1
    BY <1>1, <1>2, <1>4
  <2>2. CASE k = Len(cs) + 1
    <3>1. k - 1 = Len(cs) /\ Append(cs, s)[k] = s
      BY <1>1, <2>2
    <3> QED
      BY <3>1
  <2>3. CASE k \in 1 .. Len(cs)
    <3>1. k \in DOMAIN cs /\ Append(cs, s)[k] = cs[k]
      BY <1>1, <2>3
    <3> QED
      BY <3>1 DEF StrandFits
  <2> QED
    BY <1>1, <2>1, <2>2, <2>3
<1> QED
  BY <1>2, <1>3, <1>4 DEF StrandFits

\* The strands of a task without sections.
LEMMA EmptyFits ==
  ASSUME base \in Seq([period : Nat, segs : Segs]), NEW t \in DOMAIN base
  PROVE  /\ DOMAIN EmptyStrands(t) = DOMAIN base[t].segs
         /\ \A s \in DOMAIN EmptyStrands(t) : \E n \in Nat :
              /\ DOMAIN EmptyStrands(t)[s] = 1 .. n
              /\ \A j \in 1 .. n : StrandFits(EmptyStrands(t)[s][j], base[t].segs[s].len)
<1>1. DOMAIN EmptyStrands(t) = DOMAIN base[t].segs
  BY DEF EmptyStrands
<1>2. ASSUME NEW s \in DOMAIN base[t].segs
      PROVE  \E n \in Nat :
               /\ DOMAIN EmptyStrands(t)[s] = 1 .. n
               /\ \A j \in 1 .. n : StrandFits(EmptyStrands(t)[s][j], base[t].segs[s].len)
  <2>1. base[t].segs \in Seq(Seg)
    <3>1. t \in 1 .. Len(base)
      BY LenProperties
    <3>2. base[t] \in [period : Nat, segs : Segs]
      BY <3>1, ElementOfSeq
    <3> QED
      BY <3>2 DEF Segs
  <2>2. base[t].segs[s] \in Seg
    BY <2>1, <1>2
  <2>3. EmptyStrands(t)[s] = [j \in 1 .. base[t].segs[s].count |-> <<>>]
    BY <1>2 DEF EmptyStrands
  <2>4. StrandFits(<<>>, base[t].segs[s].len)
    <3>1. <<>> \in Seq(Section) /\ Len(<<>>) = 0 /\ DOMAIN <<>> = {}
      OBVIOUS
    <3>2. 0 * Distance = 0
      BY LockTaskSetsSize
    <3> QED
      BY <2>2, <3>1, <3>2 DEF StrandFits, Seg
  <2> QED
    BY <2>2, <2>3, <2>4 DEF Seg
<1> QED
  BY <1>1, <1>2

\* Variants has a first one, and none needs more lengths than are drawn.
LEMMA VariantsFit ==
  ASSUME version \in Versions
  PROVE  /\ 1 \in DOMAIN Variants
         /\ \A v \in DOMAIN Variants : Variants[v].res \in Nat /\ Variants[v].res <= MostResources
<1>1. /\ Resources \in Nat /\ Versions \subseteq {"wlocks", "base", "base2", "tpds_base", "tpds_base2"}
      /\ RequestCounts \in Seq(Nat) /\ RequestCounts # <<>>
      /\ ResourceCounts \in Seq(1 .. Len(ResourceCounts)) /\ ResourceCounts # <<>>
  BY LockTaskSetsSize
<1>2. 1 \in DOMAIN RequestCounts /\ 1 \in DOMAIN ResourceCounts
  BY <1>1
<1>3. CASE version = "wlocks"
  <2>1. Variants = <<[res |-> Resources, req |-> Requests]>> /\ MostResources = Resources
    BY <1>3 DEF Variants, MostResources
  <2> QED
    BY <1>1, <2>1
<1>4. CASE version \in {"base", "tpds_base"}
  <2>1. /\ Variants = [v \in DOMAIN RequestCounts |-> [res |-> Resources, req |-> RequestCounts[v]]]
        /\ MostResources = Resources
    BY <1>4 DEF Variants, MostResources
  <2> QED
    BY <1>1, <1>2, <2>1
<1>5. CASE version \in {"base2", "tpds_base2"}
  <2>1. /\ Variants = [v \in DOMAIN ResourceCounts |-> [res |-> ResourceCounts[v], req |-> Requests]]
        /\ MostResources = Len(ResourceCounts)
    BY <1>5 DEF Variants, MostResources
  <2> QED
    BY SMTT(30), <1>1, <1>2, <2>1
<1> QED
  BY <1>1, <1>3, <1>4, <1>5

\* The least of a set of numbers is in it.
LEMMA LeastInSet ==
  ASSUME NEW S \in SUBSET Nat, S # {}
  PROVE  Min(S) \in S
<1>1. IsWellFoundedOn(OpToRel(<, Nat), Nat)
  BY NatLessThanWellFounded
<1>2. PICK x \in S : \A y \in S : <<y, x>> \notin OpToRel(<, Nat)
  BY <1>1, WFMin
<1>3. ASSUME NEW y \in S
      PROVE  x <= y
  <2>1. ~ (y < x)
    BY <1>2 DEF OpToRel
  <2> QED
    BY <2>1
<1> QED
  BY <1>3 DEF Min

-------------------------------------------------------------------------------
LEMMA InitInv == Init => Inv
<1> SUFFICES ASSUME Init PROVE Inv
  OBVIOUS
<1>1. NoDraft = [period |-> 0, span |-> 0, work |-> 0, segs |-> <<>>]
  BY DEF NoDraft
<1>2. <<>> \in Segs /\ <<>> \in Seq([period : Nat, segs : Segs])
  BY DEF Segs
<1>3. CASE GeneratorInit
  BY <1>1, <1>2, <1>3, VariantsFit DEF GeneratorInit, Inv, BaseType, LengthsInv, RequestsInv, StrandsInv
<1>4. CASE NoGenerator
  BY <1>1, <1>2, <1>4 DEF NoGenerator, Inv, BaseType, LengthsInv, RequestsInv, StrandsInv
<1> QED
  BY <1>3, <1>4 DEF Init

\* One more strand of a segment, or of none.
LEMMA ThickerType ==
  ASSUME BaseType, NEW s
  PROVE  Thicker(s) \in Segs
<1>1. draft.segs \in Seq(Seg)
  BY DEF BaseType, Segs
<1>2. CASE s \in DOMAIN draft.segs
  <2>1. draft.segs[s] \in Seg
    BY <1>1, <1>2
  <2>2. [draft.segs[s] EXCEPT !.count = @ + 1] \in Seg
    BY <2>1 DEF Seg
  <2>3. Thicker(s) = [draft.segs EXCEPT ![s] = [draft.segs[s] EXCEPT !.count = @ + 1]]
    BY DEF Thicker
  <2> QED
    BY <1>1, <1>2, <2>2, <2>3, ExceptSeq DEF Segs
<1>3. CASE s \notin DOMAIN draft.segs
  <2>1. draft.segs = [k \in DOMAIN draft.segs |-> draft.segs[k]]
    BY <1>1
  <2>2. Thicker(s) = draft.segs
    BY <1>3, <2>1 DEF Thicker
  <2> QED
    BY <1>1, <2>2 DEF Segs
<1> QED
  BY <1>2, <1>3

\* A program that is complete joins the base task set.
LEMMA DraftedInv ==
  ASSUME Inv, NEW segs \in Segs, Drafted(segs), stage = "strands", UNCHANGED <<version, variant>>
  PROVE  Inv'
<1>1. BaseType'
  <2>1. [period |-> draft.period, segs |-> segs] \in [period : Nat, segs : Segs]
    BY DEF Inv, BaseType
  <2>2. base' \in Seq([period : Nat, segs : Segs])
    BY <2>1 DEF Drafted, Inv, BaseType
  <2>3. draft' = [period |-> 0, span |-> 0, work |-> 0, segs |-> <<>>]
    BY DEF Drafted, NoDraft
  <2>4. <<>> \in Segs
    BY DEF Segs
  <2> QED
    BY <2>2, <2>3, <2>4 DEF BaseType
<1>2. stage' \in {"lengths", "program"} /\ base' # <<>>
  BY DEF Drafted, Inv, BaseType
<1>3. Variants' = Variants
  BY DEF Variants
<1> QED
  BY <1>1, <1>2, <1>3 DEF Inv, LengthsInv, RequestsInv, StrandsInv

\* The draws that come before the lengths of the critical sections.
Drawing ==
  \/ StartUtils \/ DrawUtil \/ DrawLastUtils \/ RefuseCount \/ DrawFixedSum
  \/ DrawPeriod \/ AddSegment \/ EndSegments \/ AddStrand

LEMMA DrawingType == ASSUME BaseType, Drawing PROVE BaseType'
<1>1. CASE StartUtils \/ DrawUtil \/ DrawLastUtils \/ RefuseCount \/ DrawFixedSum \/ EndSegments
  <2>1. draft' = draft /\ base' = base
    BY <1>1 DEF StartUtils, DrawUtil, DrawLastUtils, RefuseCount, DrawFixedSum, EndSegments
  <2> QED
    BY <2>1 DEF BaseType
<1>2. CASE DrawPeriod
  <2>1. PICK period \in Periods, share \in Shares :
          draft' = [period |-> period, span |-> period \div share,
                    work |-> (period * utils[Len(base) + 1]) \div UtilUnit, segs |-> <<>>]
    BY <1>2 DEF DrawPeriod
  <2>2. <<>> \in Segs
    BY DEF Segs
  <2>3. period \in Nat
    BY LockTaskSetsSize
  <2>4. base' = base
    BY <1>2 DEF DrawPeriod
  <2> QED
    BY <2>1, <2>2, <2>3, <2>4 DEF BaseType
<1>3. CASE AddSegment
  <2>1. PICK len \in Lengths :
          draft' = [draft EXCEPT !.segs = Append(@, [count |-> 1, len |-> len])]
    BY <1>3 DEF AddSegment
  <2>2. [count |-> 1, len |-> len] \in Seg
    BY LockTaskSetsSize DEF Seg
  <2>3. PICK segs \in Segs : draft' = [draft EXCEPT !.segs = segs]
    <3>1. Append(draft.segs, [count |-> 1, len |-> len]) \in Segs
      BY <2>2 DEF BaseType, Segs
    <3>2. draft' = [draft EXCEPT !.segs = Append(draft.segs, [count |-> 1, len |-> len])]
      BY <2>1 DEF BaseType
    <3> QED
      BY <3>1, <3>2
  <2>4. base' = base
    BY <1>3 DEF AddSegment
  <2> QED
    BY <2>3, <2>4 DEF BaseType
<1>4. CASE AddStrand
  <2>1. PICK s \in DOMAIN draft.segs : draft' = [draft EXCEPT !.segs = Thicker(s)]
    BY <1>4 DEF AddStrand
  <2>2. Thicker(s) \in Segs
    BY ThickerType
  <2> QED
    BY <1>4, <2>1, <2>2 DEF AddStrand, BaseType
<1> QED
  BY <1>1, <1>2, <1>3, <1>4 DEF Drawing

LEMMA DrawingInv == ASSUME Inv, Drawing PROVE Inv'
<1>1. BaseType'
  BY DrawingType DEF Inv
<1>2. /\ stage' \notin {"lengths", "requests", "distribute"}
      /\ stage # "ended" /\ version' = version /\ variant' = variant
  BY DEF Drawing, StartUtils, DrawUtil, DrawLastUtils, RefuseCount, DrawFixedSum, EndSegments,
         DrawPeriod, AddSegment, AddStrand
<1>3. Variants' = Variants
  BY <1>2 DEF Variants
<1> QED
  BY <1>1, <1>2, <1>3 DEF Inv, LengthsInv, RequestsInv, StrandsInv

LEMMA CompleteProgramInv == ASSUME Inv, LastStrand \/ WorkReached PROVE Inv'
<1>1. draft.segs \in Segs /\ Completed \in Segs
  BY ThickerType DEF Inv, BaseType, Completed
<1>2. CASE LastStrand
  BY <1>1, <1>2, DraftedInv DEF LastStrand
<1>3. CASE WorkReached
  BY <1>1, <1>3, DraftedInv DEF WorkReached
<1> QED
  BY <1>2, <1>3

\* The lengths and the requests of a variant are drawn.
LEMMA DrawLengthsInv == ASSUME Inv, DrawLengths PROVE Inv'
<1>1. /\ UNCHANGED <<version, draft, base, variant>> /\ stage' = "requests" /\ stage = "lengths"
      /\ lengths' \in [DOMAIN base -> [1 .. MostResources -> SectionLengths]]
  BY DEF DrawLengths
<1>2. MostResources' = MostResources /\ Variants' = Variants
  BY <1>1 DEF MostResources, Variants
<1>3. SectionLengths \subseteq 0 .. Distance
  BY LockTaskSetsSize
<1>4. lengths' \in [DOMAIN base -> [1 .. MostResources -> 0 .. Distance]]
  BY <1>1, <1>3
<1> QED
  BY <1>1, <1>2, <1>4 DEF Inv, BaseType, LengthsInv, RequestsInv, StrandsInv

\* The first task of a variant has no sections yet.
LEMMA FirstTaskInv ==
  ASSUME Inv, stage \in {"lengths", "requests"}, stage' = "distribute",
         UNCHANGED <<version, draft, base, variant>>,
         asked' \in Spread(Variants[variant]), current' = 1, strands' = EmptyStrands(1),
         lengths' \in [DOMAIN base -> [1 .. MostResources -> 0 .. Distance]]
  PROVE  Inv'
<1>1. base # <<>> /\ base \in Seq([period : Nat, segs : Segs])
  BY DEF Inv, BaseType, LengthsInv
<1>2. 1 \in DOMAIN base
  BY <1>1
<1>3. MostResources' = MostResources /\ Variants' = Variants /\ Spread(Variants[variant])' = Spread(Variants[variant])
  BY DEF MostResources, Variants, Spread
<1>4. BaseType' /\ LengthsInv' /\ RequestsInv'
  BY <1>1, <1>2, <1>3 DEF Inv, BaseType, LengthsInv, RequestsInv
<1>5. StrandsInv'
  BY <1>1, <1>2, EmptyFits DEF StrandsInv
<1> QED
  BY <1>4, <1>5 DEF Inv

LEMMA GenerateInv == ASSUME Inv, GenerateAll \/ GenerateResources PROVE Inv'
<1>1. CASE GenerateAll
  <2>1. SectionLengths \cup {0} \subseteq 0 .. Distance
    BY LockTaskSetsSize
  <2>2. lengths' \in [DOMAIN base -> [1 .. MostResources -> 0 .. Distance]]
    BY <1>1, <2>1 DEF GenerateAll
  <2> QED
    BY <1>1, <2>2, FirstTaskInv DEF GenerateAll
<1>2. CASE GenerateResources
  <2>1. lengths' \in [DOMAIN base -> [1 .. MostResources -> 0 .. Distance]]
    BY <1>2 DEF GenerateResources, Inv, LengthsInv
  <2> QED
    BY <1>2, <2>1, FirstTaskInv DEF GenerateResources
<1> QED
  BY <1>1, <1>2

\* A request that is placed is a section of the right length at the next offset.
LEMMA RequestIsSection ==
  ASSUME Inv, stage = "distribute", Open # {}, NEW n \in Nat
  PROVE  [offset |-> Distance * n, res |-> Min(Open), len |-> lengths[current][Min(Open)]] \in Section
<1>1. /\ asked \in Spread(Variants[variant]) /\ current \in DOMAIN base
      /\ lengths \in [DOMAIN base -> [1 .. MostResources -> 0 .. Distance]]
      /\ version \in Versions /\ variant \in DOMAIN Variants
  BY DEF Inv, LengthsInv, RequestsInv
<1>2. DOMAIN asked[current] = 1 .. Variants[variant].res
  BY <1>1 DEF Spread
<1>3. Variants[variant].res \in Nat /\ Variants[variant].res <= MostResources
  BY <1>1, VariantsFit
<1>4. Open \in SUBSET Nat /\ Open \subseteq 1 .. Variants[variant].res
  BY <1>2, <1>3 DEF Open
<1>5. Min(Open) \in 1 .. Variants[variant].res
  BY <1>4, LeastInSet
<1>6. MostResources \in Int
  BY <1>1, LockTaskSetsSize DEF MostResources
<1>7. Min(Open) \in 1 .. MostResources /\ Min(Open) \in Nat
  BY <1>3, <1>5, <1>6
<1>8. lengths[current][Min(Open)] \in 0 .. Distance
  BY <1>1, <1>7
<1>9. Distance * n \in Nat
  BY LockTaskSetsSize
<1> QED
  BY <1>7, <1>8, <1>9 DEF Section

LEMMA PlaceRequestInv == ASSUME Inv, PlaceRequest PROVE Inv'
<1>1. /\ UNCHANGED <<version, stage, draft, base, lengths, variant, asked, current>>
      /\ stage = "distribute" /\ Open # {}
  BY DEF PlaceRequest
<1>2. MostResources' = MostResources /\ Variants' = Variants /\ Spread(Variants[variant])' = Spread(Variants[variant])
  BY <1>1 DEF MostResources, Variants, Spread
<1>3. PICK a \in DOMAIN strands : \E b \in DOMAIN strands[a] :
        /\ Len(strands[a][b]) < MaxRequests(a)
        /\ strands' = [strands EXCEPT ![a][b] = Append(@,
             [offset |-> Distance * Len(strands[a][b]), res |-> Min(Open),
              len |-> lengths[current][Min(Open)]])]
  <2>1. PICK s \in Available :
          strands' = [strands EXCEPT ![s[1]][s[2]] = Append(@,
            [offset |-> Distance * Len(strands[s[1]][s[2]]), res |-> Min(Open),
             len |-> lengths[current][Min(Open)]])]
    BY DEF PlaceRequest
  <2>2. PICK a \in DOMAIN strands : \E b \in DOMAIN strands[a] :
          s = <<a, b>> /\ Len(strands[a][b]) < MaxRequests(a)
    BY DEF Available
  <2>3. PICK b \in DOMAIN strands[a] : s = <<a, b>> /\ Len(strands[a][b]) < MaxRequests(a)
    BY <2>2
  <2>4. s[1] = a /\ s[2] = b
    BY <2>3
  <2>5. strands' = [strands EXCEPT ![a][b] = Append(@,
          [offset |-> Distance * Len(strands[a][b]), res |-> Min(Open),
           len |-> lengths[current][Min(Open)]])]
    BY <2>1, <2>4
  <2> QED
    BY <2>3, <2>5
<1>4. PICK b \in DOMAIN strands[a] :
        /\ Len(strands[a][b]) < MaxRequests(a)
        /\ strands' = [strands EXCEPT ![a][b] = Append(@,
             [offset |-> Distance * Len(strands[a][b]), res |-> Min(Open),
              len |-> lengths[current][Min(Open)]])]
  BY <1>3
<1> DEFINE request == [offset |-> Distance * Len(strands[a][b]), res |-> Min(Open),
                       len |-> lengths[current][Min(Open)]]
           Room(s) == base[current].segs[s].len
<1>5. /\ DOMAIN strands = DOMAIN base[current].segs
      /\ \A s \in DOMAIN strands : \E n \in Nat :
           /\ DOMAIN strands[s] = 1 .. n
           /\ \A j \in 1 .. n : StrandFits(strands[s][j], Room(s))
  BY <1>1 DEF Inv, StrandsInv
<1>6. StrandFits(strands[a][b], Room(a)) /\ Room(a) \in Nat
  <2>1. base \in Seq([period : Nat, segs : Segs]) /\ current \in DOMAIN base
    BY <1>1 DEF Inv, BaseType, RequestsInv
  <2>2. current \in 1 .. Len(base)
    BY <2>1, LenProperties
  <2>3. base[current] \in [period : Nat, segs : Segs]
    BY <2>1, <2>2, ElementOfSeq
  <2>4. base[current].segs \in Seq(Seg)
    BY <2>3 DEF Segs
  <2>5. base[current].segs[a] \in Seg
    BY <1>5, <2>4
  <2> QED
    BY <1>5, <2>5 DEF Seg
<1>7. StrandFits(Append(strands[a][b], request), Room(a))
  <2>1. Len(strands[a][b]) \in Nat
    BY <1>6 DEF StrandFits
  <2>2. request \in Section /\ request.offset = Distance * Len(strands[a][b])
    BY <1>1, <2>1, RequestIsSection
  <2>3. Len(strands[a][b]) < Room(a) \div Distance
    BY <1>4 DEF MaxRequests
  <2> HIDE DEF request
  <2> QED
    BY <1>6, <2>2, <2>3, StrandGrows
<1>8. /\ DOMAIN strands' = DOMAIN strands
      /\ \A s \in DOMAIN strands : DOMAIN strands'[s] = DOMAIN strands[s]
      /\ \A s \in DOMAIN strands : \A j \in DOMAIN strands[s] :
           strands'[s][j] = IF s = a /\ j = b THEN Append(strands[a][b], request) ELSE strands[s][j]
  <2>1. strands' = [strands EXCEPT ![a] = [strands[a] EXCEPT ![b] = Append(strands[a][b], request)]]
    BY <1>4
  <2> HIDE DEF request
  <2> QED
    BY <2>1
<1>9. StrandsInv'
  <2> HIDE DEF request
  <2>1. ASSUME NEW s \in DOMAIN strands
        PROVE  \E n \in Nat : /\ DOMAIN strands'[s] = 1 .. n
                              /\ \A j \in 1 .. n : StrandFits(strands'[s][j], Room(s))
    <3>1. PICK n \in Nat : /\ DOMAIN strands[s] = 1 .. n
                           /\ \A j \in 1 .. n : StrandFits(strands[s][j], Room(s))
      BY <1>5
    <3>2. ASSUME NEW j \in 1 .. n PROVE StrandFits(strands'[s][j], Room(s))
      BY <1>7, <1>8, <3>1
    <3> QED
      BY <1>8, <3>1, <3>2
  <2> QED
    BY <1>1, <1>5, <1>8, <2>1 DEF StrandsInv
<1> QED
  BY <1>1, <1>2, <1>9 DEF Inv, BaseType, LengthsInv, RequestsInv

LEMMA NextTaskInv == ASSUME Inv, NextTask PROVE Inv'
<1>1. /\ UNCHANGED <<version, stage, draft, base, lengths, variant, asked>>
      /\ stage = "distribute" /\ current' = current + 1 /\ current < Len(base)
      /\ strands' = EmptyStrands(current + 1)
  BY DEF NextTask, Distributed
<1>2. MostResources' = MostResources /\ Variants' = Variants /\ Spread(Variants[variant])' = Spread(Variants[variant])
  BY <1>1 DEF MostResources, Variants, Spread
<1>3. base \in Seq([period : Nat, segs : Segs]) /\ current \in DOMAIN base
  BY <1>1 DEF Inv, BaseType, RequestsInv
<1>4. current + 1 \in DOMAIN base
  BY <1>1, <1>3
<1>5. BaseType' /\ LengthsInv' /\ RequestsInv'
  BY <1>1, <1>2, <1>4 DEF Inv, BaseType, LengthsInv, RequestsInv
<1>6. StrandsInv'
  BY <1>1, <1>3, <1>4, EmptyFits DEF StrandsInv
<1> QED
  BY <1>5, <1>6 DEF Inv

LEMMA WriteFileInv == ASSUME Inv, WriteFile PROVE Inv'
<1>1. /\ UNCHANGED <<version, draft, base, lengths>> /\ stage = "distribute"
      /\ variant' = variant + 1
      /\ stage' = IF variant' \in DOMAIN Variants' THEN "requests" ELSE "ended"
  BY DEF WriteFile, Distributed, NextVariant, Variants
<1>2. MostResources' = MostResources
  BY <1>1 DEF MostResources
<1>3. BaseType' /\ LengthsInv' /\ RequestsInv' /\ StrandsInv'
  BY <1>1, <1>2 DEF Inv, BaseType, LengthsInv, RequestsInv, StrandsInv
<1> QED
  BY <1>3 DEF Inv

-------------------------------------------------------------------------------
\* One case per group of actions; the other programs change nothing here.
LEMMA StepInv == ASSUME Inv, [Next]_vars PROVE Inv'
<1>1. CASE GeneratorStep
  BY <1>1, DrawingInv, CompleteProgramInv, DrawLengthsInv, GenerateInv, PlaceRequestInv,
     NextTaskInv, WriteFileInv DEF GeneratorStep, Drawing
<1>2. CASE UNCHANGED lvars
  <2>1. MostResources' = MostResources /\ Variants' = Variants /\ Spread(Variants[variant])' = Spread(Variants[variant])
    BY <1>2 DEF MostResources, Variants, Spread, lvars
  <2> QED
    BY <1>2, <2>1 DEF Inv, BaseType, LengthsInv, RequestsInv, StrandsInv, lvars
<1> QED
  BY <1>1, <1>2 DEF Next, Generate, Gather, Convert, Execute, vars

\* What the invariant says of sections and requests.
LEMMA InvPlaces == ASSUME Inv PROVE RequestsArePlaced
<1> SUFFICES ASSUME stage = "distribute" PROVE RequestsArePlaced
  BY DEF RequestsArePlaced, SectionsFit, RequestsKept
<1> DEFINE Room(s) == base[current].segs[s].len
<1>1. /\ DOMAIN strands = DOMAIN base[current].segs
      /\ \A s \in DOMAIN strands : \A j \in DOMAIN strands[s] : StrandFits(strands[s][j], Room(s))
  BY DEF Inv, StrandsInv
<1>2. \A s \in DOMAIN strands : Room(s) \in Nat
  <2>1. base \in Seq([period : Nat, segs : Segs]) /\ current \in DOMAIN base
    BY DEF Inv, BaseType, RequestsInv
  <2>2. current \in 1 .. Len(base)
    BY <2>1, LenProperties
  <2>3. base[current] \in [period : Nat, segs : Segs]
    BY <2>1, <2>2, ElementOfSeq
  <2>4. base[current].segs \in Seq(Seg)
    BY <2>3 DEF Segs
  <2>5. ASSUME NEW s \in DOMAIN strands PROVE base[current].segs[s] \in Seg
    BY <1>1, <2>4
  <2> QED
    BY <2>5 DEF Seg
<1>3. SectionsFit
  BY <1>1, <1>2, SectionsFollow DEF SectionsFit
<1>4. ASSUME NEW r \in 1 .. Variants[variant].res
      PROVE  SumFunction([t \in DOMAIN base |-> asked[t][r]]) = Variants[variant].req
  BY <1>4 DEF Inv, RequestsInv, Spread
<1>5. ASSUME Distributed, Open # {}, NEW s \in DOMAIN strands, NEW j \in DOMAIN strands[s]
      PROVE  (Len(strands[s][j]) + 1) * Distance > Room(s)
  <2>1. <<s, j>> \notin Available
    BY <1>5 DEF Distributed
  <2>2. ~ (Len(strands[s][j]) < Room(s) \div Distance)
    BY <2>1 DEF Available, MaxRequests
  <2>3. Len(strands[s][j]) \in Nat
    BY <1>1 DEF StrandFits
  <2> QED
    BY <1>2, <2>2, <2>3, RoomForOne
<1>6. RequestsKept
  BY <1>4, <1>5 DEF RequestsKept
<1> QED
  BY <1>3, <1>6 DEF RequestsArePlaced

(***************************************************************************)
(* What is done to generate a file (distribute_resources_task_random and   *)
(* resources_generate_random of the five versions): sections fit into      *)
(* their strand, and no request is lost while there is room for it.        *)
(***************************************************************************)
THEOREM GeneratedRequestsArePlaced == Spec => []RequestsArePlaced
<1>1. Init => Inv
  BY InitInv
<1>2. Inv /\ [Next]_vars => Inv'
  BY StepInv
<1>3. Inv => RequestsArePlaced
  BY InvPlaces
<1> QED
  BY <1>1, <1>2, <1>3, PTL DEF Spec

-------------------------------------------------------------------------------
(***************************************************************************)
(* The log of each resource.  A thread that looks at the log or has        *)
(* written an event that is not counted yet has the spinlock; so at most   *)
(* one event is under way, and the numbers before it are those of the      *)
(* queue.                                                                  *)
(***************************************************************************)
Locked == {"in_look", "in_count", "out_look", "out_count"}

Queued == {"request", "wait", "busy", "out", "out_look", "out_count"}

Places == {"idle", "run", "in", "release"} \cup Locked \cup Queued

ThreadType ==
  /\ pc \in [Threads -> Places] /\ resource = [p \in Threads |-> resource[p]]
  /\ DOMAIN segment = TaskIds
  /\ \A p \in Threads : pc[p] # "idle" => segment[Task(p)] # 0

LogType ==
  /\ nextEvent \in [ResourceIds -> 0 .. MaxEvents]
  /\ data \in [ResourceIds -> [0 .. MaxEvents -> Int]]
  /\ DOMAIN spinlock = ResourceIds

\* What thread p does to the log of r at the time.
WriterInv(r, p) ==
  resource[p] = r =>
    /\ pc[p] \in Locked => spinlock[r] = p
    /\ pc[p] = "in_count" =>
         nextEvent[r] < MaxEvents /\ data[r][nextEvent[r]] = LastNumber(r) + 1
    /\ pc[p] = "out_count" =>
         /\ nextEvent[r] < MaxEvents /\ nextEvent[r] > 0
         /\ data[r][nextEvent[r]] = LastNumber(r) - 1

\* The numbers so far, and the first one before it is written.
History(r) ==
  \A k \in 0 .. nextEvent[r] - 1 :
    /\ data[r][k] >= 0
    /\ IF k = 0 THEN data[r][k] = 1 ELSE data[r][k] - data[r][k - 1] \in {-1, 1}

FirstInv(r) ==
  nextEvent[r] = 0 =>
    data[r][0] = 0 \/ \E p \in Threads : resource[p] = r /\ pc[p] = "in_count"

LogInv(r) ==
  /\ nextEvent[r] < MaxEvents => LastNumber(r) = Cardinality(Arrived(r))
  /\ History(r)
  /\ \A p \in Threads : WriterInv(r, p)
  /\ FirstInv(r)

ExecInv ==
  IF program = "execute" THEN ThreadType /\ LogType /\ \A r \in ResourceIds : LogInv(r)
  ELSE nextEvent = <<>>

LEMMA ThreadsFinite == IsFiniteSet(Threads)
<1>1. NumThreads \in Seq(Nat \ {0})
  BY SyntheticTaskSize
<1>2. IsFiniteSet(TaskIds)
  BY <1>1, FS_Interval DEF TaskIds
<1>3. ASSUME NEW t \in TaskIds PROVE IsFiniteSet(ThreadsOf(t))
  <2>1. NumThreads[t] \in Nat
    BY <1>1 DEF TaskIds
  <2>2. IsFiniteSet({t})
    BY FS_Singleton
  <2>3. IsFiniteSet(1 .. NumThreads[t])
    BY <2>1, FS_Interval
  <2> QED
    BY <2>2, <2>3, FS_Product DEF ThreadsOf
<1> DEFINE all == {ThreadsOf(t) : t \in TaskIds}
           f == [t \in TaskIds |-> ThreadsOf(t)]
<1>4. IsFiniteSet(all)
  <2>1. f \in Surjection(TaskIds, all)
    BY DEF Surjection
  <2> QED
    BY <1>2, <2>1, FS_Surjection
<1>5. IsFiniteSet(UNION all)
  BY <1>3, <1>4, FS_UNION
<1> QED
  BY <1>5 DEF Threads

LEMMA ThreadHasTask ==
  ASSUME NEW p \in Threads
  PROVE  Task(p) \in TaskIds /\ p \in ThreadsOf(Task(p)) /\ p # Nobody
<1>1. PICK t \in TaskIds : p \in ThreadsOf(t)
  BY DEF Threads
<1>2. PICK n \in 1 .. NumThreads[t] : p = <<t, n>>
  BY <1>1 DEF ThreadsOf
<1>3. t # 0
  BY SyntheticTaskSize DEF TaskIds
<1> QED
  BY <1>1, <1>2, <1>3 DEF Task, Nobody

LEMMA ArrivedCount ==
  ASSUME NEW r
  PROVE  IsFiniteSet(Arrived(r)) /\ Cardinality(Arrived(r)) \in Nat
<1>1. Arrived(r) \subseteq Threads
  BY DEF Arrived
<1> QED
  BY <1>1, ThreadsFinite, FS_Subset, FS_CardinalityType

\* One thread at a time is under way in a log.
LEMMA OneWriter ==
  ASSUME NEW r, \A p \in Threads : WriterInv(r, p),
         NEW p \in Threads, NEW q \in Threads, resource[p] = r, resource[q] = r,
         pc[p] \in Locked, pc[q] \in Locked
  PROVE  p = q
BY DEF WriterInv

\* A thread that is about to record its completion finds its arrival.
LEMMA OutFindsEvent ==
  ASSUME LogType, NEW r \in ResourceIds, LogInv(r), NEW p \in Threads,
         resource[p] = r, pc[p] \in Queued
  PROVE  nextEvent[r] > 0 /\ Cardinality(Arrived(r)) > 0
<1>1. p \in Arrived(r)
  BY DEF Arrived, Queued
<1>2. Cardinality(Arrived(r)) > 0
  BY <1>1, ArrivedCount, FS_EmptySet
<1>3. nextEvent[r] \in 0 .. MaxEvents /\ MaxEvents \in Nat \ {0}
  BY SyntheticTaskSize DEF LogType
<1>4. CASE nextEvent[r] = 0
  <2>1. LastNumber(r) = Cardinality(Arrived(r)) /\ LastNumber(r) = 0
    BY <1>3, <1>4 DEF LogInv, LastNumber
  <2> QED
    BY <1>2, <2>1
<1> QED
  BY <1>2, <1>3, <1>4

LEMMA InvIsExact == ASSUME ExecInv PROVE LogIsExact
<1>1. CASE program = "execute"
  <2> SUFFICES ASSUME NEW r \in ResourceIds
               PROVE  /\ nextEvent[r] <= MaxEvents
                      /\ nextEvent[r] < MaxEvents => LastNumber(r) = Cardinality(Arrived(r))
                      /\ History(r)
                      /\ \A p \in Threads : resource[p] = r /\ pc[p] = "out_look" => nextEvent[r] > 0
    BY <1>1 DEF ExecInv, LogType, LogIsExact, History
  <2>1. LogType /\ LogInv(r)
    BY <1>1 DEF ExecInv
  <2>2. nextEvent[r] <= MaxEvents
    BY <2>1, SyntheticTaskSize DEF LogType
  <2>3. \A p \in Threads : resource[p] = r /\ pc[p] = "out_look" => nextEvent[r] > 0
    BY <2>1, OutFindsEvent DEF Queued
  <2> QED
    BY <2>1, <2>2, <2>3 DEF LogInv
<1>2. CASE program # "execute"
  BY <1>2 DEF ExecInv, LogIsExact
<1> QED
  BY <1>1, <1>2

-------------------------------------------------------------------------------
LEMMA InitExecInv == Init => ExecInv
<1>1. ASSUME program = "execute", ExecutionInit PROVE ExecInv
  <2>1. ThreadType
    <3> "idle" \in Places
      BY DEF Places
    <3>1. pc = [p \in Threads |-> "idle"] /\ resource = [p \in Threads |-> 0]
      BY <1>1 DEF ExecutionInit
    <3>2. segment = [t \in TaskIds |-> 0]
      BY <1>1 DEF ExecutionInit
    <3>3. pc \in [Threads -> Places]
      BY <3>1
    <3>4. resource = [p \in Threads |-> resource[p]] /\ DOMAIN segment = TaskIds
      BY <3>1, <3>2
    <3>5. \A p \in Threads : pc[p] = "idle"
      BY <3>1
    <3> QED
      BY <3>3, <3>4, <3>5 DEF ThreadType
  <2>2. LogType
    <3>1. 0 \in 0 .. MaxEvents
      BY SyntheticTaskSize
    <3>2. [k \in 0 .. MaxEvents |-> 0] \in [0 .. MaxEvents -> Int]
      OBVIOUS
    <3> QED
      BY <1>1, <3>1, <3>2 DEF ExecutionInit, LogType
  <2>3. ASSUME NEW r \in ResourceIds PROVE LogInv(r)
    <3>1. nextEvent[r] = 0 /\ data[r][0] = 0 /\ \A p \in Threads : pc[p] = "idle"
      BY <1>1, SyntheticTaskSize DEF ExecutionInit
    <3>2. Arrived(r) = {}
      BY <3>1 DEF Arrived
    <3> QED
      BY <3>1, <3>2, FS_EmptySet DEF LogInv, History, WriterInv, FirstInv, LastNumber, Locked
  <2> QED
    BY <1>1, <2>1, <2>2, <2>3 DEF ExecInv
<1>2. ASSUME program # "execute", NoExecution PROVE ExecInv
  BY <1>2 DEF NoExecution, ExecInv
<1> QED
  BY <1>1, <1>2 DEF Init

Running == program = "execute" /\ ThreadType /\ LogType /\ \A r \in ResourceIds : LogInv(r)

\* A step of p that neither looks at a log nor changes who waits.
LEMMA QuietStep ==
  ASSUME Running, NEW p \in Threads, UNCHANGED statvars, NEW next, NEW res,
         pc' = [pc EXCEPT ![p] = next], resource' = [resource EXCEPT ![p] = res],
         pc[p] \notin Locked, next \notin Locked,
         \/ pc[p] \notin Queued /\ next \notin Queued
         \/ pc[p] \in Queued /\ next \in Queued /\ res = resource[p],
         NEW r \in ResourceIds
  PROVE  LogInv(r)'
<1>1. \A q \in Threads \ {p} : pc'[q] = pc[q] /\ resource'[q] = resource[q]
  BY DEF Running, ThreadType
<1>2. pc'[p] = next /\ resource'[p] = res
  BY DEF Running, ThreadType
<1>3. Arrived(r)' = Arrived(r)
  BY <1>1, <1>2 DEF Arrived, Queued
<1>4. LastNumber(r)' = LastNumber(r) /\ History(r)' /\ nextEvent' = nextEvent
  BY DEF LastNumber, History, Running, LogInv, statvars
<1>5. ASSUME NEW q \in Threads PROVE WriterInv(r, q)'
  <2>1. WriterInv(r, q) /\ data' = data /\ spinlock' = spinlock
    BY DEF Running, LogInv, statvars
  <2>2. CASE q = p
    BY <1>2, <2>2 DEF WriterInv, Locked
  <2>3. CASE q # p
    BY <1>1, <1>4, <2>1, <2>3 DEF WriterInv
  <2> QED
    BY <2>2, <2>3
<1>6. FirstInv(r)'
  <2>1. p \in Threads /\ pc[p] # "in_count"
    BY DEF Locked
  <2> QED
    BY <1>1, <1>4, <2>1 DEF FirstInv, Running, LogInv, statvars
<1> QED
  BY <1>3, <1>4, <1>5, <1>6 DEF LogInv, Running

\* A step at the log of another resource.
LEMMA OtherLog ==
  ASSUME Running, NEW p \in Threads, NEW next, NEW r \in ResourceIds, resource[p] # r,
         pc' = [pc EXCEPT ![p] = next], resource' = resource,
         spinlock'[r] = spinlock[r], data'[r] = data[r], nextEvent'[r] = nextEvent[r]
  PROVE  LogInv(r)'
<1>1. \A q \in Threads : resource[q] = r => pc'[q] = pc[q]
  BY DEF Running, ThreadType
<1>2. Arrived(r)' = Arrived(r)
  BY <1>1 DEF Arrived
<1>3. LastNumber(r)' = LastNumber(r) /\ History(r)'
  BY DEF LastNumber, History, Running, LogInv
<1>4. ASSUME NEW q \in Threads PROVE WriterInv(r, q)'
  BY <1>1, <1>3 DEF WriterInv, Running, LogInv
<1>5. FirstInv(r)'
  BY <1>1 DEF FirstInv, Running, LogInv
<1> QED
  BY <1>2, <1>3, <1>4, <1>5 DEF LogInv, Running

\* What p changes of itself at the log, and what the others do there.
LEMMA LogMove ==
  ASSUME Running, NEW p \in Threads, NEW next, pc' = [pc EXCEPT ![p] = next],
         resource' = resource
  PROVE  /\ pc'[p] = next
         /\ \A q \in Threads \ {p} : pc'[q] = pc[q]
         /\ \A q \in Threads \ {p} :
              pc[p] \in Locked /\ resource[p] \in ResourceIds /\ resource[q] = resource[p] =>
                pc[q] \notin Locked
<1>1. pc'[p] = next /\ \A q \in Threads \ {p} : pc'[q] = pc[q]
  BY DEF Running, ThreadType
<1>2. ASSUME NEW q \in Threads \ {p}, pc[p] \in Locked, resource[p] \in ResourceIds,
             resource[q] = resource[p], pc[q] \in Locked
      PROVE  FALSE
  <2>1. \A t \in Threads : WriterInv(resource[p], t)
    BY <1>2 DEF Running, LogInv
  <2> QED
    BY <1>2, <2>1, OneWriter
<1> QED
  BY <1>1, <1>2

LEMMA SpinLockInv ==
  ASSUME Running, NEW p \in Threads, SpinLock(p), NEW r \in ResourceIds
  PROVE  LogInv(r)'
<1> DEFINE next == IF pc[p] = "in" THEN "in_look" ELSE "out_look"
<1>1. /\ pc[p] \in {"in", "out"} /\ pc' = [pc EXCEPT ![p] = next] /\ resource' = resource
      /\ spinlock[resource[p]] = Nobody /\ spinlock' = [spinlock EXCEPT ![resource[p]] = p]
      /\ data' = data /\ nextEvent' = nextEvent
  BY DEF SpinLock, Goto
<1>2. CASE resource[p] # r
  <2>1. spinlock'[r] = spinlock[r]
    BY <1>1, <1>2 DEF Running, LogType
  <2> QED
    BY <1>1, <1>2, <2>1, OtherLog
<1>3. CASE resource[p] = r
  <2>1. pc'[p] = next /\ \A q \in Threads \ {p} : pc'[q] = pc[q]
    BY <1>1, LogMove
  <2>2. spinlock'[r] = p
    BY <1>1, <1>3 DEF Running, LogType
  <2>3. \A q \in Threads : resource[q] = r => pc[q] \notin Locked
    BY <1>1, <1>3, ThreadHasTask DEF Running, LogInv, WriterInv
  <2>4. Arrived(r)' = Arrived(r)
    BY <1>1, <2>1 DEF Arrived
  <2>5. LastNumber(r)' = LastNumber(r) /\ History(r)'
    BY <1>1 DEF LastNumber, History, Running, LogInv
  <2>6. ASSUME NEW q \in Threads PROVE WriterInv(r, q)'
    BY <1>1, <2>1, <2>2, <2>3 DEF WriterInv, Locked
  <2>7. FirstInv(r)'
    <3>1. nextEvent[r] = 0 => data[r][0] = 0
      BY <2>3 DEF FirstInv, Running, LogInv, Locked
    <3> QED
      BY <1>1, <3>1 DEF FirstInv
  <2> QED
    BY <1>1, <2>4, <2>5, <2>6, <2>7 DEF LogInv, Running
<1> QED
  BY <1>2, <1>3

LEMMA DropEventInv ==
  ASSUME Running, NEW p \in Threads, DropEvent(p), NEW r \in ResourceIds
  PROVE  LogInv(r)'
<1> DEFINE next == IF Arriving(p) THEN "request" ELSE "release"
<1>1. /\ pc[p] \in {"in_look", "out_look"} /\ NotRecorded(p)
      /\ pc' = [pc EXCEPT ![p] = next] /\ resource' = resource
      /\ spinlock' = [spinlock EXCEPT ![resource[p]] = Nobody]
      /\ data' = data /\ nextEvent' = nextEvent
  BY DEF DropEvent, SpinUnlock, Goto
<1>2. CASE resource[p] # r
  <2>1. spinlock'[r] = spinlock[r]
    BY <1>1, <1>2 DEF Running, LogType
  <2> QED
    BY <1>1, <1>2, <2>1, OtherLog
<1>3. CASE resource[p] = r
  <2>1. pc'[p] = next /\ \A q \in Threads \ {p} : pc'[q] = pc[q]
    BY <1>1, LogMove
  <2>2. \A q \in Threads \ {p} : resource[q] = r => pc[q] \notin Locked
    BY <1>1, <1>3, LogMove DEF Locked
  <2>3. ~ (nextEvent[r] < MaxEvents) /\ nextEvent[r] # 0
    <3>1. nextEvent[r] \in Nat /\ MaxEvents \in Nat \ {0}
      BY SyntheticTaskSize DEF Running, LogType
    <3>2. pc[p] = "out_look" => nextEvent[r] > 0
      BY <1>3, OutFindsEvent DEF Running, Queued
    <3> QED
      BY <1>1, <1>3, <3>1, <3>2 DEF NotRecorded
  <2>4. History(r)'
    BY <1>1 DEF History, Running, LogInv
  <2>5. ASSUME NEW q \in Threads PROVE WriterInv(r, q)'
    BY <1>1, <2>1, <2>2 DEF WriterInv, Locked
  <2>6. FirstInv(r)'
    BY <1>1, <2>3 DEF FirstInv
  <2> QED
    BY <1>1, <2>3, <2>4, <2>5, <2>6 DEF LogInv
<1> QED
  BY <1>2, <1>3

LEMMA WriteEventInv ==
  ASSUME Running, NEW p \in Threads, WriteEvent(p), NEW r \in ResourceIds
  PROVE  LogInv(r)'
<1> DEFINE next == IF Arriving(p) THEN "in_count" ELSE "out_count"
           n == nextEvent[resource[p]]
           before == IF n = 0 THEN data[resource[p]][n] ELSE data[resource[p]][n - 1]
           number == IF Arriving(p) THEN before + 1 ELSE before - 1
<1>1. /\ pc[p] \in {"in_look", "out_look"} /\ ~ NotRecorded(p)
      /\ pc' = [pc EXCEPT ![p] = next] /\ resource' = resource
      /\ data' = [data EXCEPT ![resource[p]][n] = number]
      /\ spinlock' = spinlock /\ nextEvent' = nextEvent
  BY DEF WriteEvent, Goto
<1>2. CASE resource[p] # r
  <2>1. data'[r] = data[r]
    BY <1>1, <1>2 DEF Running, LogType
  <2> QED
    BY <1>1, <1>2, <2>1, OtherLog
<1>3. CASE resource[p] = r
  <2>1. pc'[p] = next /\ \A q \in Threads \ {p} : pc'[q] = pc[q]
    BY <1>1, LogMove
  <2>2. \A q \in Threads \ {p} : resource[q] = r => pc[q] \notin Locked
    BY <1>1, <1>3, LogMove DEF Locked
  <2>3. /\ n = nextEvent[r] /\ n \in Nat /\ n < MaxEvents /\ MaxEvents \in Nat
        /\ pc[p] = "out_look" => n > 0
    <3>1. nextEvent[r] \in Nat /\ MaxEvents \in Nat
      BY SyntheticTaskSize DEF Running, LogType
    <3> QED
      BY <1>1, <1>3, <3>1 DEF NotRecorded
  <2>4. /\ data'[r][n] = number
        /\ \A k \in 0 .. n - 1 : data'[r][k] = data[r][k]
    <3>1. data[r] \in [0 .. MaxEvents -> Int] /\ DOMAIN data = ResourceIds
      BY DEF Running, LogType
    <3>2. data'[r] = [data[r] EXCEPT ![n] = number]
      BY <1>1, <1>3, <3>1
    <3> HIDE DEF number
    <3> QED
      BY <2>3, <3>1, <3>2
  <2>5. before = LastNumber(r)
    <3>1. CASE n = 0
      <4>1. data[r][0] = 0
        BY <1>1, <2>2, <2>3, <3>1 DEF Running, LogInv, FirstInv, Locked
      <4> QED
        BY <1>3, <3>1, <4>1 DEF LastNumber
    <3>2. CASE n # 0
      BY <1>3, <3>2 DEF LastNumber
    <3> QED
      BY <3>1, <3>2
  <2>6. LastNumber(r)' = LastNumber(r)
    BY <1>1, <2>3, <2>4 DEF LastNumber
  <2>7. History(r)'
    <3>1. History(r)
      BY DEF Running, LogInv
    <3> HIDE DEF number
    <3> QED
      BY <1>1, <2>3, <2>4, <3>1 DEF History
  <2>8. Arrived(r)' = Arrived(r)
    BY <1>1, <2>1 DEF Arrived, Arriving
  <2>9. WriterInv(r, p)'
    <3>1. spinlock[r] = p
      BY <1>1, <1>3 DEF Running, LogInv, WriterInv, Locked
    <3>2. nextEvent'[r] = n /\ resource'[p] = r
      BY <1>1, <1>3
    <3>3. CASE pc[p] = "in_look"
      BY <1>1, <2>1, <2>3, <2>4, <2>5, <2>6, <3>1, <3>2, <3>3 DEF WriterInv, Arriving
    <3>4. CASE pc[p] = "out_look"
      BY <1>1, <2>1, <2>3, <2>4, <2>5, <2>6, <3>1, <3>2, <3>4 DEF WriterInv, Arriving
    <3> QED
      BY <1>1, <3>3, <3>4
  <2>10. ASSUME NEW q \in Threads \ {p} PROVE WriterInv(r, q)'
    BY <1>1, <2>1, <2>2 DEF WriterInv, Locked
  <2>11. FirstInv(r)'
    BY <1>1, <1>3, <2>1, <2>3 DEF FirstInv, Arriving
  <2>12. nextEvent'[r] < MaxEvents => LastNumber(r)' = Cardinality(Arrived(r)')
    BY <1>1, <2>6, <2>8 DEF Running, LogInv
  <2> QED
    BY <2>7, <2>9, <2>10, <2>11, <2>12 DEF LogInv
<1> QED
  BY <1>2, <1>3

LEMMA CountEventInv ==
  ASSUME Running, NEW p \in Threads, CountEvent(p), NEW r \in ResourceIds
  PROVE  LogInv(r)' /\ nextEvent'[r] \in 0 .. MaxEvents
<1> DEFINE next == IF Arriving(p) THEN "request" ELSE "release"
<1>1. /\ pc[p] \in {"in_count", "out_count"}
      /\ pc' = [pc EXCEPT ![p] = next] /\ resource' = resource
      /\ spinlock' = [spinlock EXCEPT ![resource[p]] = Nobody]
      /\ data' = data /\ nextEvent' = [nextEvent EXCEPT ![resource[p]] = @ + 1]
  BY DEF CountEvent, SpinUnlock, Goto
<1>2. nextEvent[r] \in 0 .. MaxEvents /\ MaxEvents \in Nat \ {0}
  BY SyntheticTaskSize DEF Running, LogType
<1>3. CASE resource[p] # r
  <2>1. spinlock'[r] = spinlock[r] /\ nextEvent'[r] = nextEvent[r]
    BY <1>1, <1>3 DEF Running, LogType
  <2> QED
    BY <1>1, <1>2, <1>3, <2>1, OtherLog
<1>4. CASE resource[p] = r
  <2> DEFINE n == nextEvent[r]
  <2>1. pc'[p] = next /\ \A q \in Threads \ {p} : pc'[q] = pc[q]
    BY <1>1, LogMove
  <2>2. \A q \in Threads \ {p} : resource[q] = r => pc[q] \notin Locked
    BY <1>1, <1>4, LogMove DEF Locked
  <2>3. /\ n \in Nat /\ n < MaxEvents
        /\ pc[p] = "in_count" => data[r][n] = LastNumber(r) + 1
        /\ pc[p] = "out_count" => n > 0 /\ data[r][n] = LastNumber(r) - 1
    BY <1>1, <1>2, <1>4 DEF Running, LogInv, WriterInv
  <2>4. nextEvent'[r] = n + 1
    BY <1>1, <1>4 DEF Running, LogType
  <2>5. LastNumber(r)' = data[r][n]
    <3>1. n + 1 # 0 /\ (n + 1) - 1 = n
      BY <2>3
    <3> QED
      BY <1>1, <2>4, <3>1 DEF LastNumber
  <2>6. LastNumber(r) = Cardinality(Arrived(r)) /\ Cardinality(Arrived(r)) \in Nat
    BY <2>3, ArrivedCount DEF Running, LogInv
  <2>7. data[r][n] = Cardinality(Arrived(r)') /\ data[r][n] >= 0
    <3>1. CASE pc[p] = "in_count"
      <4>1. Arrived(r)' = Arrived(r) \cup {p} /\ p \notin Arrived(r)
        BY <1>1, <1>4, <2>1, <3>1 DEF Arrived, Arriving
      <4>2. Cardinality(Arrived(r) \cup {p}) = Cardinality(Arrived(r)) + 1
        BY <4>1, ArrivedCount, FS_AddElement
      <4> QED
        BY <2>3, <2>6, <3>1, <4>1, <4>2
    <3>2. CASE pc[p] = "out_count"
      <4>1. Arrived(r)' = Arrived(r) \ {p} /\ p \in Arrived(r)
        BY <1>1, <1>4, <2>1, <3>2 DEF Arrived, Arriving
      <4>2. Cardinality(Arrived(r) \ {p}) = Cardinality(Arrived(r)) - 1
        BY <4>1, ArrivedCount, FS_RemoveElement
      <4>3. Cardinality(Arrived(r)) > 0
        BY <1>4, <3>2, OutFindsEvent DEF Running, Queued
      <4> QED
        BY <2>3, <2>6, <3>2, <4>1, <4>2, <4>3
    <3> QED
      BY <1>1, <3>1, <3>2
  <2>8. History(r)'
    <3>1. History(r)
      BY DEF Running, LogInv
    <3>2. IF n = 0 THEN data[r][n] = 1 ELSE data[r][n] - data[r][n - 1] \in {-1, 1}
      BY <1>1, <2>3, <2>6 DEF LastNumber
    <3>3. ASSUME NEW k \in 0 .. n
          PROVE  /\ data[r][k] >= 0
                 /\ IF k = 0 THEN data[r][k] = 1 ELSE data[r][k] - data[r][k - 1] \in {-1, 1}
      <4>1. CASE k = n
        BY <2>7, <3>2, <4>1
      <4>2. CASE k # n
        <5>1. k \in 0 .. n - 1
          BY <2>3, <4>2
        <5> QED
          BY <3>1, <5>1 DEF History
      <4> QED
        BY <4>1, <4>2
    <3>4. (n + 1) - 1 = n
      BY <2>3
    <3> QED
      BY <1>1, <2>4, <3>3, <3>4 DEF History
  <2>9. ASSUME NEW q \in Threads PROVE WriterInv(r, q)'
    BY <1>1, <2>1, <2>2 DEF WriterInv, Locked
  <2>10. FirstInv(r)'
    BY <2>3, <2>4 DEF FirstInv
  <2>11. nextEvent'[r] \in 0 .. MaxEvents
    BY <1>2, <2>3, <2>4
  <2> QED
    BY <2>5, <2>7, <2>8, <2>9, <2>10, <2>11 DEF LogInv
<1> QED
  BY <1>3, <1>4

-------------------------------------------------------------------------------
\* What each step does to the threads.
Steps(p) ==
  /\ pc[p] # "idle" \/ segment[Task(p)] # 0
  /\ segment' = segment
  /\ \E next \in Places : \E res :
       pc' = [pc EXCEPT ![p] = next] /\ resource' = [resource EXCEPT ![p] = res]

LEMMA StepsType == ASSUME ThreadType, NEW p \in Threads, Steps(p) PROVE ThreadType'
<1>0. PICK next \in Places : \E res :
        pc' = [pc EXCEPT ![p] = next] /\ resource' = [resource EXCEPT ![p] = res]
  BY DEF Steps
<1>1. PICK res : pc' = [pc EXCEPT ![p] = next] /\ resource' = [resource EXCEPT ![p] = res]
  BY <1>0
<1>2. pc' \in [Threads -> Places] /\ resource' = [q \in Threads |-> resource'[q]]
  BY <1>1 DEF ThreadType
<1>3. \A q \in Threads \ {p} : pc'[q] = pc[q]
  BY <1>1 DEF ThreadType
<1>4. segment[Task(p)] # 0 /\ segment' = segment
  BY DEF Steps, ThreadType
<1> QED
  BY <1>2, <1>3, <1>4 DEF ThreadType, Task

\* Where a thread goes when it enters a section.
LEMMA EnterQuiet ==
  ASSUME NEW p, NEW s, NEW k, Enter(p, s, k)
  PROVE  \E next \in {"idle", "run", "in"} : \E res :
           pc' = [pc EXCEPT ![p] = next] /\ resource' = [resource EXCEPT ![p] = res]
BY DEF Enter

LEMMA SameResource ==
  ASSUME ThreadType, resource' = resource, NEW p \in Threads
  PROVE  resource' = [resource EXCEPT ![p] = resource[p]]
BY DEF ThreadType

LEMMA QuietThread ==
  ASSUME Running, NEW p \in Threads,
         TakeStrand(p) \/ RunSection(p) \/ Request(p) \/ Granted(p) \/ RunCritical(p) \/ Unlock(p)
  PROVE  Steps(p) /\ UNCHANGED statvars /\ \A r \in ResourceIds : LogInv(r)'
<1>1. CASE TakeStrand(p) \/ RunSection(p) \/ Unlock(p)
  <2>1. /\ pc[p] \in {"idle", "run", "release"} /\ segment' = segment
        /\ pc[p] # "idle" \/ segment[Task(p)] # 0
        /\ spinlock' = spinlock /\ data' = data /\ nextEvent' = nextEvent
    BY <1>1 DEF TakeStrand, RunSection, Unlock, taskvars, statvars
  <2>0. PICK next \in {"idle", "run", "in"} : \E res :
          pc' = [pc EXCEPT ![p] = next] /\ resource' = [resource EXCEPT ![p] = res]
    BY <1>1, EnterQuiet DEF TakeStrand, RunSection, Unlock
  <2>2. PICK res : pc' = [pc EXCEPT ![p] = next] /\ resource' = [resource EXCEPT ![p] = res]
    BY <2>0
  <2>3. next \in Places /\ next \notin Locked /\ next \notin Queued
    BY DEF Places, Locked, Queued
  <2>4. pc[p] \notin Locked /\ pc[p] \notin Queued
    BY <2>1 DEF Locked, Queued
  <2>5. UNCHANGED statvars
    BY <2>1 DEF statvars
  <2>6. \A r \in ResourceIds : LogInv(r)'
    BY <2>2, <2>3, <2>4, <2>5, QuietStep
  <2> QED
    BY <2>1, <2>2, <2>3, <2>5, <2>6 DEF Steps
<1>2. CASE Request(p) \/ Granted(p) \/ RunCritical(p)
  <2>1. /\ pc[p] \in {"request", "wait", "busy"} /\ segment' = segment
        /\ spinlock' = spinlock /\ data' = data /\ nextEvent' = nextEvent
        /\ resource' = resource
        /\ \E next \in {"wait", "busy", "out"} : pc' = [pc EXCEPT ![p] = next]
    BY <1>2 DEF Request, Granted, RunCritical, Goto, taskvars, statvars
  <2>2. PICK next \in {"wait", "busy", "out"} : pc' = [pc EXCEPT ![p] = next]
    BY <2>1
  <2>3. next \in Places /\ next \notin Locked /\ next \in Queued
    BY DEF Places, Locked, Queued
  <2>4. pc[p] \notin Locked /\ pc[p] \in Queued /\ pc[p] # "idle"
    BY <2>1 DEF Locked, Queued
  <2>5. UNCHANGED statvars
    BY <2>1 DEF statvars
  <2>6. resource' = [resource EXCEPT ![p] = resource[p]]
    BY <2>1, SameResource DEF Running
  <2>7. \A r \in ResourceIds : LogInv(r)'
    BY <2>2, <2>3, <2>4, <2>5, <2>6, QuietStep
  <2> QED
    BY <2>1, <2>2, <2>3, <2>4, <2>5, <2>6, <2>7 DEF Steps
<1> QED
  BY <1>1, <1>2

LEMMA LogStep ==
  ASSUME Running, NEW p \in Threads,
         SpinLock(p) \/ DropEvent(p) \/ WriteEvent(p) \/ CountEvent(p)
  PROVE  Steps(p) /\ LogType' /\ \A r \in ResourceIds : LogInv(r)'
<1>1. \A r \in ResourceIds : LogInv(r)'
  BY SpinLockInv, DropEventInv, WriteEventInv, CountEventInv
<1>2. Steps(p)
  <2>1. /\ segment' = segment /\ resource' = resource /\ pc[p] # "idle"
        /\ \E next \in Locked \cup {"request", "release"} : pc' = [pc EXCEPT ![p] = next]
    BY DEF SpinLock, DropEvent, WriteEvent, CountEvent, SpinUnlock, Goto, Locked, taskvars
  <2>2. resource' = [resource EXCEPT ![p] = resource[p]]
    BY <2>1, SameResource DEF Running
  <2>3. Locked \cup {"request", "release"} \subseteq Places
    BY DEF Places, Queued
  <2> QED
    BY <2>1, <2>2, <2>3 DEF Steps
<1>3. DOMAIN spinlock' = ResourceIds
  <2>1. spinlock' = spinlock \/ \E x : spinlock' = [spinlock EXCEPT ![resource[p]] = x]
    BY DEF SpinLock, DropEvent, WriteEvent, CountEvent, SpinUnlock
  <2> QED
    BY <2>1 DEF Running, LogType
<1>4. nextEvent' \in [ResourceIds -> 0 .. MaxEvents]
  <2>1. CASE CountEvent(p)
    <3>1. nextEvent' = [nextEvent EXCEPT ![resource[p]] = nextEvent[resource[p]] + 1]
      BY <2>1 DEF CountEvent
    <3>2. \A r \in ResourceIds : nextEvent'[r] \in 0 .. MaxEvents
      BY <2>1, CountEventInv
    <3> QED
      BY <3>1, <3>2 DEF Running, LogType
  <2>2. CASE ~ CountEvent(p)
    BY <2>2 DEF SpinLock, DropEvent, WriteEvent, Running, LogType
  <2> QED
    BY <2>1, <2>2
<1>5. data' \in [ResourceIds -> [0 .. MaxEvents -> Int]]
  <2>1. CASE WriteEvent(p)
    <3> DEFINE r == resource[p]
               n == nextEvent[r]
               before == IF n = 0 THEN data[r][n] ELSE data[r][n - 1]
               number == IF Arriving(p) THEN before + 1 ELSE before - 1
    <3>1. data' = [data EXCEPT ![r][n] = number]
      BY <2>1 DEF WriteEvent
    <3>2. CASE r \in ResourceIds
      <4>1. data[r] \in [0 .. MaxEvents -> Int] /\ n \in 0 .. MaxEvents /\ MaxEvents \in Nat
        BY <3>2, SyntheticTaskSize DEF Running, LogType
      <4>2. before \in Int
        BY SMTT(30), <4>1
      <4>3. number \in Int
        BY <4>2
      <4>4. [data[r] EXCEPT ![n] = number] \in [0 .. MaxEvents -> Int]
        BY <4>1, <4>3
      <4> HIDE DEF number
      <4> QED
        BY <3>1, <4>4 DEF Running, LogType
    <3>3. CASE r \notin ResourceIds
      BY <3>1, <3>3 DEF Running, LogType
    <3> QED
      BY <3>2, <3>3
  <2>2. CASE ~ WriteEvent(p)
    BY <2>2 DEF SpinLock, DropEvent, CountEvent, Running, LogType
  <2> QED
    BY <2>1, <2>2
<1> QED
  BY <1>1, <1>2, <1>3, <1>4, <1>5 DEF LogType

\* No thread is under way when the file is written.
LEMMA WriteStatisticsInv ==
  ASSUME Running, WriteStatistics
  PROVE  ThreadType' /\ LogType' /\ \A r \in ResourceIds : LogInv(r)'
<1>1. /\ UNCHANGED <<pc, resource, segment, spinlock, nextEvent>>
      /\ data' = [r \in ResourceIds |-> [data[r] EXCEPT ![nextEvent[r]] = 0]]
  BY DEF WriteStatistics, taskvars, threadvars
<1>2. \A p \in Threads : pc[p] = "idle"
  <2>1. \A t \in TaskIds : segment[t] = 0
    BY DEF WriteStatistics, AllJobsDone
  <2> QED
    BY <2>1, ThreadHasTask DEF Running, ThreadType
<1>3. ASSUME NEW r \in ResourceIds
      PROVE  /\ data'[r] \in [0 .. MaxEvents -> Int]
             /\ \A k \in 0 .. nextEvent[r] - 1 : data'[r][k] = data[r][k]
             /\ nextEvent[r] = 0 => data'[r][0] = 0
             /\ nextEvent[r] \in Nat
  <2>1. data[r] \in [0 .. MaxEvents -> Int] /\ nextEvent[r] \in 0 .. MaxEvents /\ MaxEvents \in Nat
    BY SyntheticTaskSize DEF Running, LogType
  <2>2. data'[r] = [data[r] EXCEPT ![nextEvent[r]] = 0]
    BY <1>1
  <2> QED
    BY <2>1, <2>2
<1>4. LogType'
  BY <1>1, <1>3 DEF Running, LogType
<1>5. ThreadType'
  BY <1>1 DEF Running, ThreadType
<1>6. ASSUME NEW r \in ResourceIds PROVE LogInv(r)'
  <2>1. Arrived(r)' = Arrived(r)
    BY <1>1 DEF Arrived
  <2>2. LastNumber(r)' = LastNumber(r)
    BY <1>1, <1>3 DEF LastNumber
  <2>3. History(r)'
    <3>1. History(r)
      BY DEF Running, LogInv
    <3> QED
      BY <1>1, <1>3, <3>1 DEF History
  <2>4. ASSUME NEW q \in Threads PROVE WriterInv(r, q)'
    BY <1>1, <1>2 DEF WriterInv, Locked
  <2>5. FirstInv(r)'
    BY <1>1, <1>3 DEF FirstInv
  <2> QED
    BY <1>1, <2>1, <2>2, <2>3, <2>4, <2>5 DEF LogInv, Running
<1> QED
  BY <1>4, <1>5, <1>6

\* A task is set up, starts a job or goes on to its next segment.
LEMMA TaskStepInv ==
  ASSUME Running, NEW t \in TaskIds, InitTask(t) \/ StartJob(t) \/ EndSegment(t)
  PROVE  ThreadType' /\ LogType' /\ \A r \in ResourceIds : LogInv(r)'
<1>1. UNCHANGED <<pc, resource, spinlock, data, nextEvent>>
  <2>1. UNCHANGED <<threadvars, statvars>>
    BY DEF InitTask, StartJob, EndSegment
  <2> QED
    BY <2>1 DEF threadvars, statvars
<1>2. LogType' /\ \A r \in ResourceIds : LogInv(r)'
  <2>1. LogType'
    BY <1>1 DEF Running, LogType
  <2>2. ASSUME NEW r \in ResourceIds PROVE LogInv(r)'
    <3>1. LogInv(r)
      BY DEF Running
    <3> QED
      BY <1>1, <3>1 DEF LogInv, LastNumber, Arrived, History, WriterInv, FirstInv
  <2> QED
    BY <2>1, <2>2
<1>3. \/ segment' = segment
      \/ \E x : segment' = [segment EXCEPT ![t] = x] /\ x # 0
      \/ /\ \E x : segment' = [segment EXCEPT ![t] = x]
         /\ \A p \in ThreadsOf(t) : pc[p] = "idle"
  <2>1. CASE InitTask(t)
    BY <2>1 DEF InitTask
  <2>2. CASE StartJob(t)
    <3>1. segment' = [segment EXCEPT ![t] = 1] /\ 1 # 0
      BY <2>2 DEF StartJob
    <3> QED
      BY <3>1
  <2>3. CASE EndSegment(t)
    <3>1. \A p \in ThreadsOf(t) : pc[p] = "idle"
      BY <2>3 DEF EndSegment, SegmentDone
    <3>2. \E x : segment' = [segment EXCEPT ![t] = x]
      BY <2>3 DEF EndSegment
    <3> QED
      BY <3>1, <3>2
  <2> QED
    BY <2>1, <2>2, <2>3
<1>4. ASSUME NEW p \in Threads, pc[p] # "idle" PROVE segment'[Task(p)] # 0
  BY <1>3, <1>4, ThreadHasTask DEF Running, ThreadType
<1>5. DOMAIN segment' = TaskIds
  BY <1>3 DEF Running, ThreadType
<1> QED
  BY <1>1, <1>2, <1>4, <1>5 DEF Running, ThreadType

LEMMA ExecStepInv == ASSUME ExecInv, [Next]_vars PROVE ExecInv'
<1>1. CASE program = "execute" /\ ExecutionStep /\ program' = program
  <2>1. Running
    BY <1>1 DEF ExecInv, Running
  <2>2. ASSUME NEW p \in Threads, ThreadStep(p)
        PROVE  ThreadType' /\ LogType' /\ \A r \in ResourceIds : LogInv(r)'
    <3>1. CASE SpinLock(p) \/ DropEvent(p) \/ WriteEvent(p) \/ CountEvent(p)
      BY <2>1, <3>1, LogStep, StepsType DEF Running
    <3>2. CASE ~ (SpinLock(p) \/ DropEvent(p) \/ WriteEvent(p) \/ CountEvent(p))
      <4>1. Steps(p) /\ UNCHANGED statvars /\ \A r \in ResourceIds : LogInv(r)'
        BY <2>1, <2>2, <3>2, QuietThread DEF ThreadStep
      <4>2. LogType'
        BY <2>1, <4>1 DEF Running, LogType, statvars
      <4> QED
        BY <2>1, <4>1, <4>2, StepsType DEF Running
    <3> QED
      BY <3>1, <3>2
  <2>3. ThreadType' /\ LogType' /\ \A r \in ResourceIds : LogInv(r)'
    BY <1>1, <2>1, <2>2, TaskStepInv, WriteStatisticsInv DEF ExecutionStep
  <2> QED
    BY <1>1, <2>3 DEF ExecInv
<1>2. CASE program' = program /\ UNCHANGED execvars
  <2>1. UNCHANGED <<pc, resource, segment, spinlock, data, nextEvent>>
    BY <1>2 DEF execvars, taskvars, threadvars, statvars
  <2>2. CASE program = "execute"
    <3>1. ThreadType' /\ LogType'
      BY <2>1, <2>2 DEF ExecInv, ThreadType, LogType
    <3>2. \A r \in ResourceIds : LogInv(r)'
      BY <2>1, <2>2 DEF ExecInv, LogInv, LastNumber, Arrived, History, WriterInv, FirstInv
    <3> QED
      BY <1>2, <2>2, <3>1, <3>2 DEF ExecInv
  <2>3. CASE program # "execute"
    BY <1>2, <2>1, <2>3 DEF ExecInv
  <2> QED
    BY <2>2, <2>3
<1> QED
  BY <1>1, <1>2 DEF Next, Generate, Gather, Convert, Execute, vars

(***************************************************************************)
(* What record_in_request and record_out_request write of a resource is a  *)
(* history of its queue, up to where the log is full, for every number of  *)
(* tasks, threads and resources and every interleaving of their steps.     *)
(***************************************************************************)
THEOREM LogIsAHistory == Spec => []LogIsExact
<1>1. Init => ExecInv
  BY InitExecInv
<1>2. ExecInv /\ [Next]_vars => ExecInv'
  BY ExecStepInv
<1>3. ExecInv => LogIsExact
  BY InvIsExact
<1> QED
  BY <1>1, <1>2, <1>3, PTL DEF Spec

-------------------------------------------------------------------------------
(***************************************************************************)
(* The utilisations of a base task set and the work of its programs.       *)
(***************************************************************************)
Piece == [count : Nat, len : Nat \ {0}]

Program == Seq(Piece)

\* Span and work of a program are natural numbers.
LEMMA ProgramNat ==
  ASSUME NEW segs \in Program
  PROVE  /\ Span(segs) \in Nat /\ Work(segs) \in Nat
         /\ [k \in DOMAIN segs |-> segs[k].len] \in [1 .. Len(segs) -> Nat]
         /\ [k \in DOMAIN segs |-> segs[k].len * segs[k].count] \in [1 .. Len(segs) -> Nat]
         /\ DOMAIN segs = 1 .. Len(segs) /\ Len(segs) \in Nat /\ IsFiniteSet(1 .. Len(segs))
<1>1. DOMAIN segs = 1 .. Len(segs) /\ Len(segs) \in Nat
  BY DEF Program
<1>2. ASSUME NEW k \in 1 .. Len(segs)
      PROVE  segs[k].len \in Nat /\ segs[k].len * segs[k].count \in Nat
  <2>1. segs[k] \in Piece
    BY ElementOfSeq DEF Program
  <2>2. segs[k].len \in Nat /\ segs[k].count \in Nat
    BY <2>1 DEF Piece
  <2> QED
    BY <2>2
<1>3. IsFiniteSet(1 .. Len(segs))
  BY <1>1, FS_Interval
<1>4. /\ [k \in DOMAIN segs |-> segs[k].len] \in [1 .. Len(segs) -> Nat]
      /\ [k \in DOMAIN segs |-> segs[k].len * segs[k].count] \in [1 .. Len(segs) -> Nat]
  BY <1>1, <1>2
<1>5. Span(segs) \in Nat /\ Work(segs) \in Nat
  BY <1>3, <1>4, FunSumNat DEF Span, Work
<1> QED
  BY <1>1, <1>3, <1>4, <1>5

\* A new segment adds its length to both.
LEMMA AppendSegment ==
  ASSUME NEW segs \in Program, NEW len \in Nat \ {0}, NEW new,
         new = Append(segs, [count |-> 1, len |-> len])
  PROVE  /\ new \in Program /\ new # <<>>
         /\ Span(new) = Span(segs) + len /\ Work(new) = Work(segs) + len
<1> DEFINE n == Len(segs)
           e == [count |-> 1, len |-> len]
<1>1. e \in Piece
  BY DEF Piece
<1>2. new \in Program /\ new # <<>>
  BY <1>1 DEF Program
<1>3. n \in Nat /\ Len(new) = n + 1 /\ DOMAIN segs = 1 .. n /\ DOMAIN new = 1 .. n + 1
  BY <1>2 DEF Program
<1>4. new[n + 1] = e /\ \A k \in 1 .. n : new[k] = segs[k]
  BY DEF Program
<1> DEFINE f == [k \in DOMAIN segs |-> segs[k].len]
           g == [k \in DOMAIN new |-> new[k].len]
           u == [k \in DOMAIN segs |-> segs[k].len * segs[k].count]
           v == [k \in DOMAIN new |-> new[k].len * new[k].count]
<1>5. f \in [1 .. n -> Int] /\ u \in [1 .. n -> Int]
  BY ProgramNat
<1>6. g \in [1 .. n + 1 -> Int] /\ v \in [1 .. n + 1 -> Int]
  <2>1. g \in [1 .. Len(new) -> Nat] /\ v \in [1 .. Len(new) -> Nat]
    BY <1>2, ProgramNat
  <2> QED
    BY <1>3, <2>1
<1>7. n + 1 \in 1 .. n + 1 /\ \A k \in 1 .. n : k \in 1 .. n + 1
  BY <1>3
<1>8. (\A k \in 1 .. n : g[k] = f[k] /\ v[k] = u[k]) /\ g[n + 1] = len /\ v[n + 1] = len * 1
  BY <1>3, <1>4, <1>7
<1>9. Span(segs) = SumFunction(f) /\ Span(new) = SumFunction(g)
      /\ Work(segs) = SumFunction(u) /\ Work(new) = SumFunction(v)
  BY DEF Span, Work
<1> HIDE DEF f, g, u, v, n
<1>10. SumFunction(g) = SumFunction(f) + g[n + 1]
  BY <1>3, <1>5, <1>6, <1>8, SumAppend
<1>11. SumFunction(v) = SumFunction(u) + v[n + 1]
  BY <1>3, <1>5, <1>6, <1>8, SumAppend
<1>12. len * 1 = len
  OBVIOUS
<1> QED
  BY <1>2, <1>8, <1>9, <1>10, <1>11, <1>12

\* One more strand of a segment adds its length to the work alone.
LEMMA ThickerProgram ==
  ASSUME NEW segs \in Program, NEW s \in DOMAIN segs, NEW new,
         new = [segs EXCEPT ![s].count = @ + 1]
  PROVE  /\ new \in Program /\ DOMAIN new = DOMAIN segs
         /\ \A k \in DOMAIN segs : new[k].len = segs[k].len
         /\ Span(new) = Span(segs) /\ Work(new) = Work(segs) + segs[s].len
<1> DEFINE n == Len(segs)
<1>1. n \in Nat /\ DOMAIN segs = 1 .. n
  BY DEF Program
<1>2. segs[s] \in Piece /\ segs[s].len \in Nat /\ segs[s].count \in Nat
  <2>1. segs[s] \in Piece
    BY <1>1, ElementOfSeq DEF Program
  <2> QED
    BY <2>1 DEF Piece
<1> DEFINE e == [segs[s] EXCEPT !.count = @ + 1]
<1>3. e \in Piece /\ e.len = segs[s].len /\ e.count = segs[s].count + 1
  BY <1>2 DEF Piece
<1>4. new = [segs EXCEPT ![s] = e]
  OBVIOUS
<1> HIDE DEF e
<1>5. /\ new \in Program /\ DOMAIN new = DOMAIN segs /\ new[s] = e
      /\ \A k \in DOMAIN segs \ {s} : new[k] = segs[k]
  BY <1>1, <1>3, <1>4, ExceptSeq DEF Program
<1>6. \A k \in DOMAIN segs : new[k].len = segs[k].len
  BY <1>3, <1>5
<1>7. Span(new) = Span(segs)
  <2>1. [k \in DOMAIN new |-> new[k].len] = [k \in DOMAIN segs |-> segs[k].len]
    BY <1>5, <1>6
  <2> QED
    BY <2>1 DEF Span
<1> DEFINE u == [k \in DOMAIN segs |-> segs[k].len * segs[k].count]
           v == [k \in DOMAIN new |-> new[k].len * new[k].count]
<1>8. u \in [1 .. n -> Int] /\ v \in [1 .. n -> Int] /\ IsFiniteSet(1 .. n)
  <2>1. v \in [1 .. Len(new) -> Nat] /\ DOMAIN new = 1 .. Len(new)
    BY <1>5, ProgramNat
  <2>2. u \in [1 .. n -> Nat] /\ IsFiniteSet(1 .. n)
    BY ProgramNat
  <2>3. v \in [1 .. n -> Nat]
    BY <1>1, <1>5, <2>1
  <2> QED
    BY <2>2, <2>3
<1>9. \A k \in (1 .. n) \ {s} : v[k] = u[k]
  BY <1>1, <1>5
<1>10. v[s] = u[s] + segs[s].len
  <2>1. u[s] = segs[s].len * segs[s].count
    BY <1>1
  <2>2. v[s] = segs[s].len * (segs[s].count + 1)
    BY <1>1, <1>3, <1>5
  <2>3. segs[s].len \in Nat /\ segs[s].count \in Nat
    BY <1>2
  <2>4. \A x, y \in Nat : x * (y + 1) = x * y + x
    OBVIOUS
  <2> QED
    BY <2>1, <2>2, <2>3, <2>4
<1>11. Work(segs) = SumFunction(u) /\ Work(new) = SumFunction(v)
  BY DEF Work
<1>12. s \in 1 .. n
  BY <1>1
<1> HIDE DEF u, v, n
<1>13. SumFunction(v) = SumFunction(u) - u[s] + v[s]
  BY <1>8, <1>9, <1>12, FunSumChange
<1>14. SumFunction(u) \in Int /\ u[s] \in Int /\ segs[s].len \in Int
  <2>1. SumFunction(u) \in Int
    BY <1>8, FunSumInt
  <2> QED
    BY <1>2, <1>8, <1>12, <2>1
<1> QED
  BY <1>5, <1>6, <1>7, <1>10, <1>11, <1>13, <1>14

\* The longest segment is no longer than the span.
LEMMA LongestSegment ==
  ASSUME NEW segs \in Program, segs # <<>>
  PROVE  /\ Longest(segs) \in Nat \ {0} /\ Longest(segs) <= Span(segs)
         /\ \A k \in DOMAIN segs : segs[k].len <= Longest(segs)
<1> DEFINE n == Len(segs)
           f == [k \in DOMAIN segs |-> segs[k].len]
           T == {f[k] : k \in 1 .. n}
<1>1. /\ n \in Nat /\ DOMAIN segs = 1 .. n /\ IsFiniteSet(1 .. n) /\ f \in [1 .. n -> Nat]
  BY ProgramNat
<1>2. 1 \in 1 .. n
  BY <1>1 DEF Program
<1>3. Longest(segs) = Max(T)
  BY <1>1 DEF Longest
<1>4. \A k \in 1 .. n : f[k] \in Nat \ {0} /\ f[k] = segs[k].len
  <2> TAKE k \in 1 .. n
  <2>1. segs[k] \in Piece
    BY ElementOfSeq DEF Program
  <2> QED
    BY <1>1, <2>1 DEF Piece
<1>5. Span(segs) = SumFunctionOnSet(f, 1 .. n)
  BY <1>1 DEF Span, SumFunction
<1> HIDE DEF f, n
<1>6. IsFiniteSet(T)
  BY <1>1, ImageIsFinite
<1>7. T \subseteq Int /\ T # {}
  BY <1>2, <1>4
<1>8. Max(T) \in T /\ \A x \in T : x <= Max(T)
  <2> HIDE DEF T
  <2> QED
    BY <1>6, <1>7, MaxFinite
<1>9. PICK m \in 1 .. n : Max(T) = f[m]
  BY <1>8
<1>10. f[m] <= SumFunctionOnSet(f, 1 .. n)
  BY <1>1, <1>4, SumTerm
<1> QED
  BY <1>1, <1>3, <1>4, <1>5, <1>8, <1>9, <1>10

\* A utilisation above one asks for more work than a period has.
LEMMA WorkOfUtil ==
  ASSUME NEW period \in Nat \ {0}, NEW util \in MinUtil .. MaxUtil
  PROVE  (period * util) \div UtilUnit \in Nat /\ (period * util) \div UtilUnit >= period
<1>1. util \in Nat /\ UtilUnit \in Nat \ {0} /\ util >= UtilUnit
  BY LockTaskSetsSize
<1>2. \A p, v, w \in Nat : v >= w => p * v >= p * w
  OBVIOUS
<1>3. period * util >= period * UtilUnit /\ period * util \in Nat /\ period * UtilUnit \in Nat
  BY <1>1, <1>2
<1>4. \A a, p \in Nat, b \in Nat \ {0} : a >= p * b => a \div b >= p /\ a \div b \in Nat
  OBVIOUS
<1> QED
  BY <1>1, <1>3, <1>4

\* A share of the period is half of it at most.
LEMMA ShareOfPeriod ==
  ASSUME NEW period \in Nat, NEW share \in Shares
  PROVE  period \div share \in Nat /\ 2 * (period \div share) <= period
<1>1. share \in Nat /\ share >= 2
  BY LockTaskSetsSize
<1>2. \A a, b \in Nat : b >= 2 => a \div b \in Nat /\ b * (a \div b) <= a
  OBVIOUS
<1>3. \A q, b \in Nat : b >= 2 => 2 * q <= b * q
  OBVIOUS
<1>4. period \div share \in Nat /\ share * (period \div share) <= period
  BY <1>1, <1>2
<1>5. 2 * (period \div share) <= share * (period \div share)
  BY <1>1, <1>3, <1>4
<1>6. share * (period \div share) \in Nat
  BY <1>1, <1>4
<1> QED
  BY <1>4, <1>5, <1>6

\* A program that lacks less than one strand has work beyond its span.
LEMMA ProgramFollows ==
  ASSUME NEW segs \in Program, segs # <<>>, NEW period \in Periods, NEW util \in MinUtil .. MaxUtil,
         NEW share \in Shares, Span(segs) <= period \div share, NEW missing,
         missing = (period * util) \div UtilUnit - Work(segs),
         missing >= 0, missing < Longest(segs)
  PROVE  FollowsUtil([period |-> period, segs |-> segs], util)
<1>1. period \in Nat \ {0}
  BY LockTaskSetsSize
<1> DEFINE target == (period * util) \div UtilUnit
           part   == period \div share
<1>2. target \in Nat /\ target >= period
  BY <1>1, WorkOfUtil
<1>3. part \in Nat /\ 2 * part <= period
  BY <1>1, ShareOfPeriod
<1>4. Span(segs) \in Nat /\ Work(segs) \in Nat /\ Longest(segs) \in Nat /\ Longest(segs) <= Span(segs)
  BY ProgramNat, LongestSegment
<1>5. missing = target - Work(segs) /\ Span(segs) <= part
  OBVIOUS
<1> HIDE DEF target, part
<1>6. Work(segs) > Span(segs)
  BY <1>1, <1>2, <1>3, <1>4, <1>5
<1> QED
  BY <1>6 DEF FollowsUtil

\* A sequence is a function into any larger set.
LEMMA SeqInto ==
  ASSUME NEW S, NEW T, S \subseteq T, NEW seq \in Seq(S)
  PROVE  seq \in [1 .. Len(seq) -> T] /\ Len(seq) \in Nat
<1>1. seq \in [1 .. Len(seq) -> S] /\ Len(seq) \in Nat
  BY LenProperties
<1> QED
  BY <1>1

\* The program under way has the span and lacks the work that were drawn.
DraftInv ==
  /\ stage \in {"segments", "strands"} =>
       /\ draft.period \in Periods
       /\ \E share \in Shares : draft.span = draft.period \div share
       /\ draft.work = (draft.period * utils[Len(base) + 1]) \div UtilUnit
       /\ draft.segs \in Program
       /\ Span(draft.segs) <= draft.span
  /\ stage = "segments" => Work(draft.segs) = Span(draft.segs)
  /\ stage = "strands" => draft.segs # <<>> /\ Missing >= 0

\* What has been drawn so far adds up, with the rest, to what was asked for.
UtilInv ==
  /\ utils \in Seq(MinUtil .. MaxUtil) /\ remain \in Int
  /\ stage \in {"main", "utils"} =>
       SumFunction(utils) + remain = TotalUtil[version] /\ base = <<>>
  /\ stage \notin {"main", "utils", "ended"} => SumFunction(utils) = TotalUtil[version]
  /\ stage \in {"program", "segments", "strands"} => Len(base) < Len(utils)

BaseInv ==
  /\ Len(base) <= Len(utils)
  /\ \A t \in DOMAIN base :
       /\ base[t].period \in Periods /\ base[t].segs \in Program
       /\ FollowsUtil(base[t], utils[t])

FileInv ==
  /\ stage \notin {"requests", "distribute", "ended"} => file = <<>>
  /\ TimingIsRight

WorkInv == UtilInv /\ BaseInv /\ DraftInv /\ FileInv

-------------------------------------------------------------------------------
\* The last segment that fits is one that fits, if there is one.
LEMMA LastFits ==
  ASSUME draft.segs \in Program, Fitting # {}
  PROVE  LastSegment \in Fitting
<1> DEFINE n == Len(draft.segs)
           f == [k \in 1 .. n |-> draft.segs[k].len]
           T == {f[k] : k \in Fitting}
           L == {k \in Fitting : \A j \in Fitting : draft.segs[j].len <= draft.segs[k].len}
<1>1. n \in Nat /\ DOMAIN draft.segs = 1 .. n /\ IsFiniteSet(1 .. n)
  BY ProgramNat
<1>2. Fitting \in SUBSET (1 .. n)
  BY <1>1 DEF Fitting
<1>3. IsFiniteSet(Fitting)
  BY <1>1, <1>2, FS_Subset
<1>4. \A k \in 1 .. n : f[k] = draft.segs[k].len /\ f[k] \in Nat
  <2> TAKE k \in 1 .. n
  <2>1. draft.segs[k] \in Piece
    BY ElementOfSeq DEF Program
  <2> QED
    BY <1>1, <2>1 DEF Piece
<1> HIDE DEF f
<1>5. IsFiniteSet(T) /\ T \subseteq Int /\ T # {}
  <2>1. IsFiniteSet(T)
    BY <1>3, ImageIsFinite
  <2>2. \A k \in Fitting : f[k] \in Int
    BY <1>2, <1>4
  <2> QED
    BY <2>1, <2>2
<1>6. Max(T) \in T /\ \A x \in T : x <= Max(T)
  <2> HIDE DEF T
  <2> QED
    BY <1>5, MaxFinite
<1>7. L # {}
  <2>1. PICK k \in Fitting : Max(T) = f[k]
    BY <1>6
  <2>2. \A j \in Fitting : f[j] <= f[k]
    BY <1>6, <2>1
  <2>3. k \in L
    BY <1>2, <1>4, <2>2
  <2> QED
    BY <2>3
<1>8. IsFiniteSet(L) /\ L \subseteq Int
  <2>1. L \in SUBSET Fitting
    OBVIOUS
  <2>2. IsFiniteSet(L)
    BY <1>3, <2>1, FS_Subset
  <2>3. 1 .. n \subseteq Int
    OBVIOUS
  <2> QED
    BY <1>2, <2>1, <2>2, <2>3
<1>9. Max(L) \in L
  <2> HIDE DEF L
  <2> QED
    BY <1>7, <1>8, MaxFinite
<1>10. LastSegment = Max(L)
  BY DEF LastSegment
<1> QED
  BY <1>9, <1>10

LEMMA InitWork == Init => WorkInv
<1> SUFFICES ASSUME Init PROVE WorkInv
  OBVIOUS
<1>1. utils = <<>> /\ base = <<>> /\ file = <<>> /\ stage \in {"main", "ended"} /\ remain \in Int
      /\ (stage = "main" => version \in Versions /\ remain = TotalUtil[version])
  <2>1. CASE GeneratorInit
    <3>1. version \in Versions /\ remain = TotalUtil[version]
      BY <2>1 DEF GeneratorInit
    <3>2. TotalUtil[version] \in Int
      BY <3>1, LockTaskSetsSize
    <3> QED
      BY <2>1, <3>1, <3>2 DEF GeneratorInit
  <2>2. CASE NoGenerator
    <3>1. utils = <<>> /\ base = <<>> /\ file = <<>> /\ stage = "ended" /\ remain = 0
      BY <2>2, Zenon DEF NoGenerator
    <3> QED
      BY <3>1
  <2> QED
    BY <2>1, <2>2 DEF Init
<1>2. SumFunction(utils) = 0
  BY <1>1, SumEmpty DEF SumFunction
<1>3. stage = "main" => 0 + remain = remain
  BY <1>1, LockTaskSetsSize
<1>4. utils \in Seq(MinUtil .. MaxUtil)
  BY <1>1
<1>5. UtilInv
  BY <1>1, <1>2, <1>3, <1>4 DEF UtilInv
<1>6. BaseInv
  BY <1>1 DEF BaseInv
<1>7. DraftInv /\ FileInv
  BY <1>1 DEF DraftInv, FileInv, TimingIsRight
<1> QED
  BY <1>5, <1>6, <1>7 DEF WorkInv

-------------------------------------------------------------------------------
(* The utilisations. *)

LEMMA DrawUtilWork == ASSUME WorkInv, DrawUtil PROVE WorkInv'
<1>1. PICK util \in MinUtil .. MaxUtil : utils' = Append(utils, util) /\ remain' = remain - util
  BY DEF DrawUtil
<1>2. stage = "utils" /\ UNCHANGED <<version, stage, draft, base, file>>
  BY DEF DrawUtil
<1>3. utils \in Seq(MinUtil .. MaxUtil) /\ remain \in Int /\ util \in Int
      /\ SumFunction(utils) + remain = TotalUtil[version] /\ base = <<>>
  BY <1>2, LockTaskSetsSize DEF WorkInv, UtilInv
<1>4. utils' \in Seq(MinUtil .. MaxUtil)
  BY <1>1, <1>3
<1>5. SumFunction(utils') = SumFunction(utils) + util /\ SumFunction(utils) \in Int
  <2> DEFINE n == Len(utils)
  <2>1. n \in Nat /\ utils \in [1 .. n -> Int] /\ utils' \in [1 .. n + 1 -> Int]
        /\ utils'[n + 1] = util /\ (\A k \in 1 .. n : utils'[k] = utils[k])
    <3>1. MinUtil .. MaxUtil \subseteq Int /\ Len(utils') = n + 1
      BY <1>1, <1>3
    <3>3. utils \in [1 .. n -> Int] /\ utils' \in [1 .. n + 1 -> Int] /\ n \in Nat
      BY <1>3, <1>4, <3>1, SeqInto
    <3> QED
      BY <1>1, <1>3, <3>3
  <2> HIDE DEF n
  <2>2. IsFiniteSet(1 .. n)
    BY <2>1, FS_Interval
  <2>3. SumFunction(utils) \in Int
    BY <2>1, <2>2, FunSumInt
  <2> QED
    BY <2>1, <2>3, SumAppend
<1>6. SumFunction(utils') + remain' = TotalUtil[version]
  BY <1>1, <1>3, <1>5
<1>7. UtilInv'
  BY <1>1, <1>2, <1>3, <1>4, <1>6 DEF UtilInv
<1>8. BaseInv'
  <2>1. Len(utils') \in Nat
    BY <1>4
  <2> QED
    BY <1>2, <1>3, <2>1 DEF BaseInv
<1>9. DraftInv' /\ FileInv'
  BY <1>2, <1>3 DEF WorkInv, DraftInv, FileInv, TimingIsRight
<1> QED
  BY <1>7, <1>8, <1>9 DEF WorkInv

\* The last two utilisations take all that remains.
LEMMA DrawLastUtilsWork == ASSUME WorkInv, DrawLastUtils PROVE WorkInv'
<1>1. PICK util \in MinUtil .. MaxUtil :
        /\ remain - util \in MinUtil .. MaxUtil
        /\ utils' = utils \o <<util, remain - util>> /\ remain' = 0
  BY DEF DrawLastUtils
<1>2. stage = "utils" /\ stage' = "program" /\ UNCHANGED <<version, draft, base, file>>
  BY DEF DrawLastUtils
<1>3. utils \in Seq(MinUtil .. MaxUtil) /\ remain \in Int /\ util \in Int
      /\ SumFunction(utils) + remain = TotalUtil[version] /\ base = <<>>
  BY <1>2, LockTaskSetsSize DEF WorkInv, UtilInv
<1> DEFINE last == remain - util
           mid  == Append(utils, util)
           n    == Len(utils)
<1>4. /\ mid \in Seq(MinUtil .. MaxUtil) /\ utils' \in Seq(MinUtil .. MaxUtil)
      /\ n \in Nat /\ Len(mid) = n + 1 /\ Len(utils') = n + 2
      /\ (\A k \in 1 .. n : mid[k] = utils[k]) /\ mid[n + 1] = util
      /\ (\A k \in 1 .. n + 1 : utils'[k] = mid[k]) /\ utils'[n + 2] = last
  <2>1. <<util, last>> \in Seq(MinUtil .. MaxUtil) /\ Len(<<util, last>>) = 2
    BY <1>1
  <2>2. utils' \in Seq(MinUtil .. MaxUtil) /\ Len(utils') = n + 2 /\ n \in Nat
    BY <1>1, <1>3, <2>1
  <2>3. mid \in Seq(MinUtil .. MaxUtil) /\ Len(mid) = n + 1
        /\ (\A k \in 1 .. n : mid[k] = utils[k]) /\ mid[n + 1] = util
    BY <1>3
  <2>4. (\A k \in 1 .. n : utils'[k] = utils[k]) /\ utils'[n + 1] = util /\ utils'[n + 2] = last
    BY <1>1, <1>3, <2>1, <2>2
  <2>5. \A k \in 1 .. n + 1 : k \in 1 .. n \/ k = n + 1
    BY <2>2
  <2> QED
    BY <2>2, <2>3, <2>4, <2>5
<1>5. n + 1 + 1 = n + 2 /\ n + 1 \in Nat
  BY <1>4
<1>6. /\ utils \in [1 .. n -> Int] /\ mid \in [1 .. n + 1 -> Int] /\ utils' \in [1 .. n + 1 + 1 -> Int]
  <2>1. MinUtil .. MaxUtil \subseteq Int
    OBVIOUS
  <2> HIDE DEF mid
  <2> QED
    BY <1>3, <1>4, <1>5, <2>1, SeqInto
<1> HIDE DEF mid, n, last
<1>7. SumFunction(mid) = SumFunction(utils) + mid[n + 1]
  BY <1>4, <1>6, SumAppend
<1>8. SumFunction(utils') = SumFunction(mid) + utils'[n + 1 + 1]
  BY <1>4, <1>5, <1>6, SumAppend
<1>9. SumFunction(utils) \in Int
  <2>1. IsFiniteSet(1 .. n)
    BY <1>4, FS_Interval
  <2> QED
    BY <1>6, <2>1, FunSumInt
<1>10. SumFunction(utils') = TotalUtil[version]
  BY <1>3, <1>4, <1>5, <1>7, <1>8, <1>9 DEF last
<1>11. UtilInv'
  BY <1>1, <1>2, <1>3, <1>4, <1>10 DEF UtilInv
<1>12. BaseInv'
  BY <1>2, <1>3, <1>4 DEF BaseInv
<1>13. DraftInv' /\ FileInv'
  BY <1>2, <1>3 DEF WorkInv, DraftInv, FileInv, TimingIsRight
<1> QED
  BY <1>11, <1>12, <1>13 DEF WorkInv

LEMMA DrawFixedSumWork == ASSUME Inv, WorkInv, DrawFixedSum PROVE WorkInv'
<1>1. PICK n \in TaskCounts : ValidCount(n) /\ utils' \in FixedSum(n)
  BY DEF DrawFixedSum
<1>2. stage = "main" /\ stage' = "program" /\ remain' = 0 /\ UNCHANGED <<version, draft, base, file>>
  BY DEF DrawFixedSum
<1>3. utils' \in [1 .. n -> MinUtil .. MaxUtil] /\ SumFunction(utils') = TotalUtil[version]
  BY <1>1 DEF FixedSum
<1>4. n \in Nat /\ n # 0
  <2>1. n \in Nat /\ n * MaxUtil >= TotalUtil[version] /\ version \in Versions
    BY <1>1, <1>2, LockTaskSetsSize DEF ValidCount, Inv, RequestsInv
  <2>2. TotalUtil[version] \in Nat /\ TotalUtil[version] >= 2 * MinUtil /\ MinUtil > 0
        /\ MaxUtil \in Nat /\ MinUtil \in Nat
    BY <2>1, LockTaskSetsSize
  <2>3. TotalUtil[version] > 0
    BY <2>2
  <2>4. n = 0 => n * MaxUtil = 0
    BY <2>2
  <2> QED
    BY <2>1, <2>2, <2>3, <2>4
<1>5. utils' \in Seq(MinUtil .. MaxUtil) /\ Len(utils') = n
  BY <1>3, <1>4, FunctionIsSeq
<1>6. base = <<>>
  BY <1>2 DEF WorkInv, UtilInv
<1>7. UtilInv'
  BY <1>2, <1>3, <1>4, <1>5, <1>6 DEF UtilInv
<1>8. BaseInv'
  BY <1>2, <1>4, <1>5, <1>6 DEF BaseInv
<1>9. DraftInv' /\ FileInv'
  BY <1>2, <1>6 DEF WorkInv, DraftInv, FileInv, TimingIsRight
<1> QED
  BY <1>7, <1>8, <1>9 DEF WorkInv

-------------------------------------------------------------------------------
\* Steps that leave the base task set, its draft and the file alone.
LEMMA QuietWork ==
  ASSUME WorkInv, UNCHANGED <<version, remain, utils, draft, base, file>>,
         stage = "main" => stage' \in {"utils", "ended"},
         stage # "main" => stage \in {"lengths", "requests", "distribute"}
                           /\ stage' \in {"requests", "distribute", "ended"}
  PROVE  WorkInv'
<1>1. UtilInv'
  BY DEF WorkInv, UtilInv
<1>2. BaseInv'
  BY DEF WorkInv, BaseInv
<1>3. DraftInv'
  BY DEF DraftInv
<1>4. Hyperperiod' = Hyperperiod
  BY DEF Hyperperiod
<1>5. TimingIsRight'
  BY <1>4 DEF WorkInv, FileInv, TimingIsRight
<1>6. FileInv'
  BY <1>5 DEF WorkInv, FileInv
<1> QED
  BY <1>1, <1>2, <1>3, <1>6 DEF WorkInv

LEMMA StutterWork == ASSUME WorkInv, UNCHANGED lvars PROVE WorkInv'
<1> USE DEF lvars
<1>1. UtilInv' /\ BaseInv'
  BY DEF WorkInv, UtilInv, BaseInv
<1>2. Missing' = Missing
  BY DEF Missing
<1>3. DraftInv'
  BY <1>2 DEF WorkInv, DraftInv
<1>4. Hyperperiod' = Hyperperiod
  BY DEF Hyperperiod
<1>5. FileInv'
  BY <1>4 DEF WorkInv, FileInv, TimingIsRight
<1> QED
  BY <1>1, <1>3, <1>5 DEF WorkInv

-------------------------------------------------------------------------------
\* Steps that only change the draft.
LEMMA OtherWork ==
  ASSUME WorkInv, UNCHANGED <<version, remain, utils, base, file>>,
         stage \in {"program", "segments", "strands"}, stage' \in {"segments", "strands"}
  PROVE  UtilInv' /\ BaseInv' /\ FileInv'
<1>1. UtilInv' /\ BaseInv'
  BY DEF WorkInv, UtilInv, BaseInv
<1>2. file' = <<>>
  BY DEF WorkInv, FileInv
<1> QED
  BY <1>1, <1>2 DEF FileInv, TimingIsRight

LEMMA DrawPeriodWork == ASSUME WorkInv, DrawPeriod PROVE WorkInv'
<1>1. stage = "program" /\ stage' = "segments" /\ UNCHANGED <<version, remain, utils, base, file>>
  BY DEF DrawPeriod
<1>2. PICK period \in Periods, share \in Shares :
        draft' = [period |-> period, span |-> period \div share,
                  work |-> (period * utils[Len(base) + 1]) \div UtilUnit, segs |-> <<>>]
  BY DEF DrawPeriod
<1>3. <<>> \in Program
  BY DEF Program
<1>4. Span(<<>>) = 0 /\ Work(<<>>) = 0
  <2>1. DOMAIN [k \in DOMAIN <<>> |-> <<>>[k].len] = {}
        /\ DOMAIN [k \in DOMAIN <<>> |-> <<>>[k].len * <<>>[k].count] = {}
    OBVIOUS
  <2> QED
    BY <2>1, SumEmpty DEF Span, Work, SumFunction
<1>5. period \div share \in Nat
  <2>1. period \in Nat
    BY LockTaskSetsSize
  <2> QED
    BY <2>1, ShareOfPeriod
<1>6. DraftInv'
  BY <1>1, <1>2, <1>3, <1>4, <1>5 DEF DraftInv
<1>7. UtilInv' /\ BaseInv' /\ FileInv'
  BY <1>1, OtherWork
<1> QED
  BY <1>6, <1>7 DEF WorkInv

LEMMA AddSegmentWork == ASSUME Inv, WorkInv, AddSegment PROVE WorkInv'
<1>1. stage = "segments" /\ stage' = "segments" /\ UNCHANGED <<version, remain, utils, base, file>>
  BY DEF AddSegment
<1>2. PICK len \in Lengths :
        /\ Span(draft.segs) + len <= draft.span
        /\ draft' = [draft EXCEPT !.segs = Append(@, [count |-> 1, len |-> len])]
  BY DEF AddSegment
<1>3. /\ draft'.segs = Append(draft.segs, [count |-> 1, len |-> len])
      /\ draft'.period = draft.period /\ draft'.span = draft.span /\ draft'.work = draft.work
  BY <1>2 DEF Inv, BaseType
<1>4. draft.segs \in Program /\ Work(draft.segs) = Span(draft.segs)
  BY <1>1 DEF WorkInv, DraftInv
<1>5. len \in Nat \ {0}
  BY LockTaskSetsSize
<1>6. /\ draft'.segs \in Program
      /\ Span(draft'.segs) = Span(draft.segs) + len /\ Work(draft'.segs) = Work(draft.segs) + len
  BY <1>3, <1>4, <1>5, AppendSegment
<1>7. DraftInv'
  <2>1. /\ draft.period \in Periods /\ \E share \in Shares : draft.span = draft.period \div share
        /\ draft.work = (draft.period * utils[Len(base) + 1]) \div UtilUnit
    BY <1>1 DEF WorkInv, DraftInv
  <2>2. Span(draft'.segs) <= draft'.span /\ Work(draft'.segs) = Span(draft'.segs)
    BY <1>2, <1>3, <1>4, <1>6
  <2> QED
    BY <1>1, <1>3, <1>6, <2>1, <2>2 DEF DraftInv
<1>8. UtilInv' /\ BaseInv' /\ FileInv'
  BY <1>1, OtherWork
<1> QED
  BY <1>7, <1>8 DEF WorkInv

\* The next utilisation, and what it asks of the program under way.
LEMMA DraftWork ==
  ASSUME Inv, WorkInv, stage \in {"segments", "strands"}
  PROVE  /\ utils[Len(base) + 1] \in MinUtil .. MaxUtil /\ Len(base) \in Nat
         /\ draft.work \in Nat /\ draft.span \in Nat /\ draft.span <= draft.work
         /\ Work(draft.segs) \in Nat /\ Span(draft.segs) \in Nat
<1>1. utils \in Seq(MinUtil .. MaxUtil) /\ Len(base) < Len(utils)
  BY DEF WorkInv, UtilInv
<1>2. Len(base) \in Nat /\ Len(utils) \in Nat
  BY <1>1 DEF Inv, BaseType
<1>3. Len(base) + 1 \in 1 .. Len(utils)
  BY <1>1, <1>2
<1>4. utils[Len(base) + 1] \in MinUtil .. MaxUtil
  BY <1>1, <1>3, ElementOfSeq
<1>5. draft.period \in Periods /\ draft.period \in Nat \ {0}
  BY LockTaskSetsSize DEF WorkInv, DraftInv
<1>6. PICK share \in Shares : draft.span = draft.period \div share
  BY DEF WorkInv, DraftInv
<1>7. draft.span \in Nat /\ 2 * draft.span <= draft.period
  BY <1>5, <1>6, ShareOfPeriod
<1>8. draft.work \in Nat /\ draft.work >= draft.period
  <2>1. draft.work = (draft.period * utils[Len(base) + 1]) \div UtilUnit
    BY DEF WorkInv, DraftInv
  <2> QED
    BY <1>4, <1>5, <2>1, WorkOfUtil
<1>9. Work(draft.segs) \in Nat /\ Span(draft.segs) \in Nat
  BY ProgramNat DEF WorkInv, DraftInv
<1> QED
  BY <1>2, <1>4, <1>5, <1>7, <1>8, <1>9

LEMMA EndSegmentsWork == ASSUME Inv, WorkInv, EndSegments PROVE WorkInv'
<1>1. stage = "segments" /\ stage' = "strands" /\ draft.segs # <<>>
      /\ UNCHANGED <<version, remain, utils, draft, base, file>>
  BY DEF EndSegments
<1>2. Work(draft.segs) = Span(draft.segs) /\ Span(draft.segs) <= draft.span
  BY <1>1 DEF WorkInv, DraftInv
<1>3. Missing >= 0 /\ Missing' = Missing
  BY <1>1, <1>2, DraftWork DEF Missing
<1>4. DraftInv'
  BY <1>1, <1>3 DEF WorkInv, DraftInv
<1>5. UtilInv' /\ BaseInv' /\ FileInv'
  BY <1>1, OtherWork
<1> QED
  BY <1>4, <1>5 DEF WorkInv

LEMMA AddStrandWork == ASSUME Inv, WorkInv, AddStrand PROVE WorkInv'
<1>1. stage = "strands" /\ stage' = "strands" /\ UNCHANGED <<version, remain, utils, base, file>>
  BY DEF AddStrand
<1>2. PICK s \in DOMAIN draft.segs :
        draft.segs[s].len <= Missing /\ draft' = [draft EXCEPT !.segs = Thicker(s)]
  BY DEF AddStrand
<1>3. /\ draft'.segs = Thicker(s)
      /\ draft'.period = draft.period /\ draft'.span = draft.span /\ draft'.work = draft.work
  BY <1>2 DEF Inv, BaseType
<1>4. draft.segs \in Program /\ draft.segs # <<>> /\ Span(draft.segs) <= draft.span
  BY <1>1 DEF WorkInv, DraftInv
<1>5. /\ draft'.segs \in Program /\ DOMAIN draft'.segs = DOMAIN draft.segs
      /\ Span(draft'.segs) = Span(draft.segs) /\ Work(draft'.segs) = Work(draft.segs) + draft.segs[s].len
  BY <1>3, <1>4, ThickerProgram DEF Thicker
<1>6. draft'.segs # <<>>
  BY <1>2, <1>5
<1>7. draft.segs[s].len \in Nat
  <2>1. draft.segs[s] \in Piece
    BY <1>2, <1>4, ElementOfSeq DEF Program
  <2> QED
    BY <2>1 DEF Piece
<1>8. Missing' >= 0
  <2>1. draft.work \in Nat /\ Work(draft.segs) \in Nat
    BY <1>1, DraftWork
  <2>2. Missing' = draft.work - (Work(draft.segs) + draft.segs[s].len)
    BY <1>3, <1>5 DEF Missing
  <2>3. Missing = draft.work - Work(draft.segs)
    BY DEF Missing
  <2> QED
    BY <1>2, <1>7, <2>1, <2>2, <2>3
<1>9. DraftInv'
  <2>1. /\ draft.period \in Periods /\ \E share \in Shares : draft.span = draft.period \div share
        /\ draft.work = (draft.period * utils[Len(base) + 1]) \div UtilUnit
    BY <1>1 DEF WorkInv, DraftInv
  <2> QED
    BY <1>1, <1>3, <1>4, <1>5, <1>6, <1>8, <2>1 DEF DraftInv
<1>10. UtilInv' /\ BaseInv' /\ FileInv'
  BY <1>1, OtherWork
<1> QED
  BY <1>9, <1>10 DEF WorkInv

-------------------------------------------------------------------------------
\* A finished program joins the base task set.
LEMMA DraftedWork ==
  ASSUME Inv, WorkInv, stage = "strands", UNCHANGED <<version, remain, utils, file>>,
         NEW segs \in Program, segs # <<>>, Span(segs) <= draft.span,
         draft.work - Work(segs) >= 0, draft.work - Work(segs) < Longest(segs), Drafted(segs)
  PROVE  WorkInv'
<1> DEFINE task == [period |-> draft.period, segs |-> segs]
           n    == Len(base)
<1>1. draft.period \in Periods /\ draft.work = (draft.period * utils[n + 1]) \div UtilUnit
  BY DEF WorkInv, DraftInv
<1>2. PICK share \in Shares : draft.span = draft.period \div share
  BY DEF WorkInv, DraftInv
<1>3. utils[n + 1] \in MinUtil .. MaxUtil /\ n \in Nat
  BY DraftWork
<1>4. FollowsUtil(task, utils[n + 1])
  BY <1>1, <1>2, <1>3, ProgramFollows
<1>5. base' = Append(base, task) /\ stage' = IF Len(base') = Len(utils) THEN "lengths" ELSE "program"
  BY DEF Drafted
<1>6. DOMAIN base = 1 .. n /\ DOMAIN base' = 1 .. n + 1 /\ Len(base') = n + 1
      /\ base'[n + 1] = task /\ \A t \in 1 .. n : base'[t] = base[t]
  BY <1>5 DEF Inv, BaseType
<1>7. n < Len(utils) /\ utils \in Seq(MinUtil .. MaxUtil) /\ Len(utils) \in Nat
      /\ SumFunction(utils) = TotalUtil[version] /\ remain \in Int
  BY DEF WorkInv, UtilInv
<1>8. Len(base') <= Len(utils) /\ (stage' = "program" => Len(base') < Len(utils))
      /\ stage' \in {"lengths", "program"}
  BY <1>3, <1>5, <1>6, <1>7
<1>9. UtilInv'
  BY <1>7, <1>8 DEF UtilInv
<1>10. BaseInv'
  <2>1. ASSUME NEW t \in 1 .. n + 1
        PROVE  /\ base'[t].period \in Periods /\ base'[t].segs \in Program
               /\ FollowsUtil(base'[t], utils[t])
    <3>1. CASE t = n + 1
      BY <1>1, <1>4, <1>6, <3>1
    <3>2. CASE t # n + 1
      <4>1. t \in 1 .. n
        BY <1>3, <3>2
      <4> QED
        BY <1>6, <4>1 DEF WorkInv, BaseInv
    <3> QED
      BY <3>1, <3>2
  <2> QED
    BY <1>6, <1>8, <2>1 DEF BaseInv
<1>11. DraftInv'
  BY <1>8 DEF DraftInv
<1>12. FileInv'
  BY DEF WorkInv, FileInv, TimingIsRight
<1> QED
  BY <1>9, <1>10, <1>11, <1>12 DEF WorkInv

LEMMA WorkReachedWork == ASSUME Inv, WorkInv, WorkReached PROVE WorkInv'
<1>1. stage = "strands" /\ Missing <= 0 /\ Drafted(draft.segs)
      /\ UNCHANGED <<version, remain, utils, file>>
  BY DEF WorkReached
<1>2. draft.segs \in Program /\ draft.segs # <<>> /\ Span(draft.segs) <= draft.span /\ Missing >= 0
  BY <1>1 DEF WorkInv, DraftInv
<1>3. draft.work \in Nat /\ Work(draft.segs) \in Nat
  BY <1>1, DraftWork
<1>4. Longest(draft.segs) \in Nat \ {0}
  BY <1>2, LongestSegment
<1>5. draft.work - Work(draft.segs) >= 0 /\ draft.work - Work(draft.segs) < Longest(draft.segs)
  BY <1>1, <1>2, <1>3, <1>4 DEF Missing
<1> QED
  BY <1>1, <1>2, <1>5, DraftedWork

\* The last strand goes to the longest segment that fits: what is missing
\* then is less than the longest segment of all.
LEMMA LastStrandWork == ASSUME Inv, WorkInv, LastStrand PROVE WorkInv'
<1>1. stage = "strands" /\ Drafted(Completed) /\ UNCHANGED <<version, remain, utils, file>>
  BY DEF LastStrand
<1>2. PICK long \in DOMAIN draft.segs : draft.segs[long].len > Missing
  BY DEF LastStrand
<1>3. draft.segs \in Program /\ draft.segs # <<>> /\ Span(draft.segs) <= draft.span /\ Missing >= 0
  BY <1>1 DEF WorkInv, DraftInv
<1>4. draft.work \in Nat /\ Work(draft.segs) \in Nat /\ Missing = draft.work - Work(draft.segs)
  BY <1>1, DraftWork DEF Missing
<1>5. \A s \in DOMAIN draft.segs : draft.segs[s].len \in Nat \ {0}
  <2> TAKE s \in DOMAIN draft.segs
  <2>1. draft.segs[s] \in Piece
    BY <1>3, ElementOfSeq DEF Program
  <2> QED
    BY <2>1 DEF Piece
<1>6. Longest(draft.segs) \in Nat /\ draft.segs[long].len <= Longest(draft.segs)
  BY <1>2, <1>3, LongestSegment
<1>7. CASE Fitting = {}
  <2>1. Completed = draft.segs
    BY <1>7 DEF Completed
  <2>2. Missing < Longest(draft.segs)
    BY <1>2, <1>4, <1>5, <1>6
  <2> QED
    BY <1>1, <1>3, <1>4, <2>1, <2>2, DraftedWork
<1>8. CASE Fitting # {}
  <2> DEFINE s == LastSegment
             new == Thicker(s)
  <2>1. s \in DOMAIN draft.segs /\ draft.segs[s].len <= Missing
    BY <1>3, <1>8, LastFits DEF Fitting
  <2>2. Completed = new
    BY <1>8 DEF Completed
  <2>3. /\ new \in Program /\ DOMAIN new = DOMAIN draft.segs
        /\ \A k \in DOMAIN draft.segs : new[k].len = draft.segs[k].len
        /\ Span(new) = Span(draft.segs) /\ Work(new) = Work(draft.segs) + draft.segs[s].len
    BY <1>3, <2>1, ThickerProgram DEF Thicker
  <2> HIDE DEF new, s
  <2>4. new # <<>>
    BY <2>1, <2>3
  <2>5. Longest(new) \in Nat /\ new[long].len <= Longest(new)
    BY <1>2, <2>3, <2>4, LongestSegment
  <2>6. draft.work - Work(new) >= 0 /\ draft.work - Work(new) < Longest(new)
    <3>1. draft.segs[s].len \in Nat \ {0} /\ draft.segs[long].len \in Nat /\ new[long].len = draft.segs[long].len
      BY <1>2, <1>5, <2>1, <2>3
    <3> QED
      BY <1>2, <1>3, <1>4, <2>1, <2>3, <2>5, <3>1
  <2>7. Span(new) <= draft.span
    BY <1>3, <2>3
  <2> QED
    BY <1>1, <2>2, <2>3, <2>4, <2>6, <2>7, DraftedWork
<1> QED
  BY <1>7, <1>8

-------------------------------------------------------------------------------
\* Seconds and nanoseconds of a length, and back.
LEMMA TimespecValue ==
  ASSUME NEW length \in Nat
  PROVE  Value(Timespec(length)) = length /\ Timespec(length)[2] <= PerSecond
<1>1. PerSecond \in Nat \ {0}
  BY LockTaskSetsSize
<1>2. \A a \in Nat, b \in Nat \ {0} : (a \div b) * b + (a % b) = a /\ a % b <= b
  OBVIOUS
<1>3. CASE length > PerSecond
  <2>1. Timespec(length)[1] = length \div PerSecond /\ Timespec(length)[2] = length % PerSecond
    BY <1>3 DEF Timespec
  <2> QED
    BY <1>1, <1>2, <2>1 DEF Value
<1>4. CASE ~ (length > PerSecond)
  <2>1. Timespec(length)[1] = 0 /\ Timespec(length)[2] = length
    BY <1>4 DEF Timespec
  <2>2. 0 * PerSecond + length = length
    BY <1>1
  <2> QED
    BY <1>1, <1>4, <2>1, <2>2 DEF Value
<1> QED
  BY <1>3, <1>4

\* The longest period is a multiple of each.
LEMMA LongestPeriod ==
  ASSUME Inv, WorkInv, NEW t \in DOMAIN base
  PROVE  /\ Hyperperiod \in Nat /\ base[t].period \in Nat \ {0}
         /\ Hyperperiod % base[t].period = 0
<1> DEFINE n == Len(base)
           f == [k \in 1 .. n |-> base[k].period]
           T == {f[k] : k \in 1 .. n}
<1>1. n \in Nat /\ DOMAIN base = 1 .. n
  BY DEF Inv, BaseType
<1>2. \A k \in 1 .. n : f[k] \in Periods /\ f[k] = base[k].period
  BY <1>1 DEF WorkInv, BaseInv
<1>3. Hyperperiod = Max(T)
  <2>1. {base[k].period : k \in DOMAIN base} = T
    BY <1>1, <1>2
  <2> HIDE DEF T
  <2> QED
    BY <2>1 DEF Hyperperiod
<1> HIDE DEF f
<1>4. IsFiniteSet(1 .. n)
  BY <1>1, FS_Interval
<1>5. IsFiniteSet(T)
  BY <1>4, ImageIsFinite
<1>6. T \subseteq Int /\ T \subseteq Periods /\ f[t] \in T
  <2>1. Periods \subseteq Int
    BY LockTaskSetsSize
  <2>2. t \in 1 .. n
    BY <1>1
  <2> QED
    BY <1>2, <2>1, <2>2
<1> HIDE DEF T
<1>7. Max(T) \in T /\ f[t] <= Max(T)
  BY <1>5, <1>6, MaxFinite
<1>8. Max(T) % f[t] = 0
  BY <1>1, <1>2, <1>6, <1>7, LockTaskSetsSize
<1> QED
  BY <1>1, <1>2, <1>3, <1>6, <1>7, <1>8, LockTaskSetsSize

\* The iterations of a task last the hyperperiods that were asked for.
LEMMA IterationsLast ==
  ASSUME Inv, WorkInv, NEW t \in DOMAIN base
  PROVE  Iterations(t) * base[t].period = HyperPeriods * Hyperperiod
<1>1. HyperPeriods \in Nat
  BY LockTaskSetsSize
<1>2. \A a \in Nat, p \in Nat \ {0} : a % p = 0 => (a \div p) * p = a /\ a \div p \in Nat
  OBVIOUS
<1>3. \A a, q, p \in Nat : (a * q) * p = a * (q * p)
  OBVIOUS
<1> DEFINE h == Hyperperiod
           p == base[t].period
<1>4. h \in Nat /\ p \in Nat \ {0} /\ h % p = 0
  BY LongestPeriod
<1>5. (h \div p) * p = h /\ h \div p \in Nat
  BY <1>2, <1>4
<1>6. (HyperPeriods * (h \div p)) * p = HyperPeriods * ((h \div p) * p)
  BY <1>1, <1>3, <1>4, <1>5
<1> QED
  BY <1>5, <1>6 DEF Iterations

LEMMA WriteFileWork == ASSUME Inv, WorkInv, WriteFile PROVE WorkInv'
<1>1. /\ file' = [t \in DOMAIN base |-> TimingLine(t)]
      /\ stage = "distribute" /\ stage' \in {"requests", "ended"}
      /\ UNCHANGED <<version, remain, utils, draft, base>>
  BY DEF WriteFile, NextVariant, Distributed
<1>2. UtilInv' /\ BaseInv'
  BY <1>1 DEF WorkInv, UtilInv, BaseInv
<1>3. DraftInv'
  BY <1>1 DEF DraftInv
<1>4. Hyperperiod' = Hyperperiod
  BY <1>1 DEF Hyperperiod
<1>5. ASSUME NEW t \in DOMAIN base
      PROVE  /\ Value(file'[t].work) = Work(base[t].segs) /\ Value(file'[t].span) = Span(base[t].segs)
             /\ file'[t].period[2] <= PerSecond
             /\ file'[t].iters * Value(file'[t].period) = HyperPeriods * Hyperperiod
  <2>1. base[t].segs \in Program
    BY DEF WorkInv, BaseInv
  <2>2. Work(base[t].segs) \in Nat /\ Span(base[t].segs) \in Nat
    BY <2>1, ProgramNat
  <2>3. base[t].period \in Nat
    BY LongestPeriod
  <2>4. /\ file'[t].work = Timespec(Work(base[t].segs)) /\ file'[t].span = Timespec(Span(base[t].segs))
        /\ file'[t].period = Timespec(base[t].period) /\ file'[t].iters = Iterations(t)
    BY <1>1 DEF TimingLine
  <2> QED
    BY <2>2, <2>3, <2>4, TimespecValue, IterationsLast
<1>6. TimingIsRight'
  <2>1. DOMAIN file' = DOMAIN base
    BY <1>1
  <2> QED
    BY <1>1, <1>4, <1>5, <2>1 DEF TimingIsRight
<1>7. FileInv'
  BY <1>1, <1>6 DEF FileInv
<1> QED
  BY <1>2, <1>3, <1>7 DEF WorkInv

-------------------------------------------------------------------------------
LEMMA StepWork == ASSUME Inv, WorkInv, [Next]_vars PROVE WorkInv'
<1>1. CASE GeneratorStep
  <2>1. CASE StartUtils \/ RefuseCount
    <3>1. stage = "main" /\ stage' \in {"utils", "ended"}
          /\ UNCHANGED <<version, remain, utils, draft, base, file>>
      BY <2>1 DEF StartUtils, RefuseCount
    <3> QED
      BY <3>1, QuietWork
  <2>2. CASE DrawLengths \/ GenerateAll \/ GenerateResources \/ PlaceRequest \/ NextTask
    <3>1. /\ stage \in {"lengths", "requests", "distribute"}
          /\ stage' \in {"requests", "distribute", "ended"}
          /\ UNCHANGED <<version, remain, utils, draft, base, file>>
      BY <2>2 DEF DrawLengths, GenerateAll, GenerateResources, PlaceRequest, NextTask, Distributed
    <3> QED
      BY SMTT(30), <3>1, QuietWork
  <2> QED
    BY <1>1, <2>1, <2>2, DrawUtilWork, DrawLastUtilsWork, DrawFixedSumWork, DrawPeriodWork,
       AddSegmentWork, EndSegmentsWork, AddStrandWork, LastStrandWork, WorkReachedWork,
       WriteFileWork DEF GeneratorStep
<1>2. CASE UNCHANGED lvars
  BY <1>2, StutterWork
<1> QED
  BY <1>1, <1>2 DEF Next, Generate, Gather, Convert, Execute, vars

\* WorkFollowsUtil: a base task has the utilisation that was drawn for it but
\* for less than a strand, the utilisations add up to what was asked for, and
\* the timing lines of the file written last have these numbers.
THEOREM GeneratedWorkFollowsUtil == Spec => []WorkFollowsUtil
<1>1. Init => Inv /\ WorkInv
  BY InitInv, InitWork
<1>2. Inv /\ WorkInv /\ [Next]_vars => Inv' /\ WorkInv'
  BY StepInv, StepWork
<1>3. WorkInv => WorkFollowsUtil
  <2> SUFFICES ASSUME WorkInv PROVE WorkFollowsUtil
    OBVIOUS
  <2>1. \A t \in DOMAIN utils : utils[t] \in MinUtil .. MaxUtil
    <3>1. utils \in Seq(MinUtil .. MaxUtil)
      BY DEF WorkInv, UtilInv
    <3> QED
      BY <3>1, LenProperties, ElementOfSeq
  <2> QED
    BY <2>1 DEF WorkInv, UtilInv, BaseInv, FileInv, WorkFollowsUtil
<1> QED
  BY <1>1, <1>2, <1>3, PTL DEF Spec

-------------------------------------------------------------------------------
(***************************************************************************)
(* The counts of a script.                                                 *)
(***************************************************************************)
Numbers == 1 .. NumTasksets

AnaSet(lock) == {k \in Numbers : folder[k].status[lock] = 0}

ExpSet(lock) == {k \in Numbers : Clean(folder[k], lock)}

ValidSet(p) ==
  CASE Passes[p][1] = "data" -> {k \in Numbers : \A lock \in Locks : ~ Discarded(folder[k], lock)}
    [] Passes[p][1] = "analysis" ->
         {k \in Numbers : \A lock \in Passes[p][2] : folder[k].status[lock] # 2}
    [] Passes[p][1] = "exper" ->
         {k \in Numbers : \A lock \in Passes[p][2] :
            folder[k].status[lock] # 2 /\ ~ Discarded(folder[k], lock)}
    [] OTHER -> Numbers

\* How many of the first n task sets.
Upto(S, n) == Cardinality(S \cap (1 .. n))

Analysed(p, lock) ==
  Passes[p][1] \in {"analysis", "data", "accepted"} \/ (Passes[p][1] = "prio_only" /\ lock = "prio")

Launched(p) == Passes[p][1] \in {"exper", "data"}

\* What pass p has counted when it has read n task sets.
Counted(counts, p, n) ==
  /\ counts.valid = NumTasksets - n + Upto(ValidSet(p), n)
  /\ \A lock \in Passes[p][2] :
       /\ Analysed(p, lock) => counts.ana[lock] = Upto(AnaSet(lock), n)
       /\ Launched(p) => counts.exp[lock] = Upto(ExpSet(lock), n)

FigureCounted(f) == f.count = Cardinality(IF f.what = "ana" THEN AnaSet(f.lock) ELSE ExpSet(f.lock))

CompleteFolder == script # "tpds_opt" /\ \A k \in Numbers : Complete(folder[k])

Tallies == [ana : [Locks -> Int], exp : [Locks -> Int], valid : Int]

FolderType ==
  /\ script \in Scripts
  /\ \A k \in Numbers : \E set \in Contents : folder[k] = Here(set)
  /\ pass \in 1 .. Len(Passes) + 1 /\ i \in 1 .. NumTasksets + 1
  /\ tally \in Tallies
  /\ results \in Seq(Tallies) /\ Len(results) = pass - 1

CountInv ==
  /\ end = "no" /\ pass \in DOMAIN Passes => Counted(tally, pass, i - 1)
  /\ \A p \in DOMAIN results : Counted(results[p], p, NumTasksets)
  /\ end \in {"shares", "done"} => pass \notin DOMAIN Passes
  /\ end = "done" /\ script # "base_36cores" => \A f \in shown : FigureCounted(f)

GatherInv == program = "gather" => FolderType /\ (CompleteFolder => CountInv)

-------------------------------------------------------------------------------
\* The next number is in a set or not.
LEMMA UptoNext ==
  ASSUME NEW S, NEW n \in Nat
  PROVE  /\ Upto(S, n) \in Nat
         /\ Upto(S, n + 1) = IF n + 1 \in S THEN Upto(S, n) + 1 ELSE Upto(S, n)
<1> DEFINE A == S \cap (1 .. n)
           B == S \cap (1 .. n + 1)
<1>1. IsFiniteSet(1 .. n)
  BY FS_Interval
<1>2. IsFiniteSet(A) /\ Cardinality(A) \in Nat
  BY <1>1, FS_Intersection, FS_CardinalityType
<1>3. n + 1 \notin A
  OBVIOUS
<1>4. CASE n + 1 \in S
  <2>1. B = A \cup {n + 1}
    BY <1>4
  <2> HIDE DEF A, B
  <2>2. Cardinality(B) = Cardinality(A) + 1
    BY <1>2, <1>3, <2>1, FS_AddElement
  <2> QED
    BY <1>2, <1>4, <2>2 DEF Upto, A, B
<1>5. CASE n + 1 \notin S
  <2>1. B = A
    BY <1>5
  <2> QED
    BY <1>2, <1>5, <2>1 DEF Upto
<1> QED
  BY <1>4, <1>5

LEMMA UptoNone == \A S : Upto(S, 0) = 0
<1> TAKE S
<1>1. S \cap (1 .. 0) = {}
  OBVIOUS
<1> QED
  BY <1>1, FS_EmptySet DEF Upto

LEMMA UptoAll == \A S \in SUBSET Numbers : Upto(S, NumTasksets) = Cardinality(S)
<1> TAKE S \in SUBSET Numbers
<1>1. S \cap (1 .. NumTasksets) = S
  BY DEF Numbers
<1> QED
  BY <1>1 DEF Upto

\* What the passes of each script are.
LEMMA PassKinds ==
  ASSUME script \in Scripts, script # "tpds_opt"
  PROVE  /\ Passes \in Seq({"analysis", "exper", "accepted", "prio_only", "data"} \X SUBSET Locks)
         /\ \A p \in DOMAIN Passes :
              /\ Passes[p][1] = "data" => script \in {"36cores", "base_12cores"} /\ Passes[p][2] = Locks
              /\ Passes[p][1] \in {"analysis", "exper"} =>
                   script = "tpds" /\ \E lock \in Locks : Passes[p][2] = {lock}
              /\ Passes[p][1] = "accepted" => script \in {"12cores", "analysis_only"} /\ Passes[p][2] = Locks
              /\ Passes[p][1] = "prio_only" => script = "base_36cores" /\ Passes[p][2] = Locks
<1>1. CASE script = "tpds"
  BY <1>1 DEF Passes, Locks
<1>2. CASE script \in {"12cores", "analysis_only"}
  <2>1. Passes = <<<<"accepted", Locks>>>>
    BY <1>2 DEF Passes
  <2> QED
    BY <1>2, <2>1 DEF Locks
<1>3. CASE script = "base_36cores"
  BY <1>3 DEF Passes, Locks
<1>4. CASE script \in {"36cores", "base_12cores"}
  BY <1>4 DEF Passes, Locks
<1> QED
  BY <1>1, <1>2, <1>3, <1>4, GatherSize

-------------------------------------------------------------------------------
\* The outcomes of a task set that both locks have been launched for, or none.
LEMMA FolderSet ==
  ASSUME FolderType, NEW k \in Numbers
  PROVE  \A lock \in Locks :
           /\ folder[k].status[lock] \in 0 .. 2
           /\ folder[k].out[lock] \in Seq(Outcomes)
           /\ script # "tpds_opt" /\ folder[k].status[lock] = 2 => folder[k].out[lock] = <<>>
<1>1. PICK set \in Contents : folder[k] = Here(set)
  BY DEF FolderType
<1>2. \A lock \in Locks :
        /\ set.status[lock] \in 0 .. 2
        /\ set.out[lock] \in Seq(Outcomes)
        /\ set.status[lock] = 2 => set.out[lock] = <<>>
  BY GatherSize
<1>3. CASE script # "tpds_opt"
  BY <1>1, <1>2, <1>3 DEF Here
<1>4. CASE script = "tpds_opt"
  <2>1. Here(set) = [set EXCEPT !.out["fifo"] = <<>>]
    BY <1>4 DEF Here
  <2> QED
    BY <1>1, <1>2, <1>4, <2>1
<1> QED
  BY <1>3, <1>4

\* There are as many files of each lock as there are tasks.
LEMMA TasksOfSet ==
  ASSUME FolderType, script # "tpds_opt", NEW k \in Numbers, Complete(folder[k])
  PROVE  LET set == folder[k]
         IN  \/ /\ \A lock \in Locks : set.status[lock] # 2 /\ Len(set.out[lock]) \in Nat
                     /\ DOMAIN set.out[lock] = 1 .. Len(set.out[lock])
                     /\ 1 .. NumTasks(set) = 1 .. Len(set.out[lock])
                /\ Len(set.out["fifo"]) = Len(set.out["prio"])
             \/ /\ script \in {"base_12cores", "tpds"}
                /\ \A lock \in Locks : set.status[lock] = 2 /\ set.out[lock] = <<>>
                /\ 1 .. NumTasks(set) = {}
<1> DEFINE set == folder[k]
           fifo == set.out["fifo"]
           prio == set.out["prio"]
<1>1. fifo \in Seq(Outcomes) /\ prio \in Seq(Outcomes)
  BY FolderSet DEF Locks
<1>2. Len(fifo) \in Nat /\ Len(prio) \in Nat /\ DOMAIN fifo = 1 .. Len(fifo) /\ DOMAIN prio = 1 .. Len(prio)
  BY <1>1, LenProperties
<1>3. fifo = <<>> <=> Len(fifo) = 0
  BY <1>1, EmptySeq
<1>4. prio = <<>> <=> Len(prio) = 0
  BY <1>1, EmptySeq
<1>5. /\ NumTasks(set) = (FilesOf(set, "fifo") + FilesOf(set, "prio") - 2) \div 2
      /\ FilesOf(set, "fifo") = (IF fifo = <<>> THEN 0 ELSE Len(fifo) + 1)
      /\ FilesOf(set, "prio") = (IF prio = <<>> THEN 0 ELSE Len(prio) + 1)
  BY DEF NumTasks, FilesOf
<1>6. CASE (\A lock \in Locks : set.status[lock] # 2) /\ Len(fifo) = Len(prio)
  <2>1. CASE Len(fifo) = 0
    <3>1. NumTasks(set) = (0 + 0 - 2) \div 2
      BY <1>3, <1>4, <1>5, <1>6, <2>1
    <3>2. 1 .. NumTasks(set) = {}
      BY <3>1
    <3>3. 1 .. Len(fifo) = {} /\ 1 .. Len(prio) = {}
      BY <1>6, <2>1
    <3>4. \A lock \in Locks : 1 .. Len(set.out[lock]) = {}
      BY <3>3 DEF Locks
    <3> QED
      BY <1>2, <1>6, <3>2, <3>4 DEF Locks
  <2>2. CASE Len(fifo) # 0
    <3>1. NumTasks(set) = (Len(fifo) + 1 + (Len(fifo) + 1) - 2) \div 2
      BY <1>3, <1>4, <1>5, <1>6, <2>2
    <3>2. \A n \in Nat : (n + 1 + (n + 1) - 2) \div 2 = n
      OBVIOUS
    <3>3. NumTasks(set) = Len(fifo)
      BY <1>2, <3>1, <3>2
    <3> QED
      BY <1>2, <1>6, <3>3 DEF Locks
  <2> QED
    BY <2>1, <2>2
<1>7. CASE script \in {"base_12cores", "tpds"} /\ \A lock \in Locks : set.status[lock] = 2
  <2>1. \A lock \in Locks : set.out[lock] = <<>>
    BY <1>7, FolderSet
  <2>2. NumTasks(set) = (0 + 0 - 2) \div 2
    BY <1>5, <2>1 DEF Locks
  <2>3. 1 .. NumTasks(set) = {}
    BY <2>2
  <2> QED
    BY <1>7, <2>1, <2>3
<1> QED
  BY <1>6, <1>7 DEF Complete

\* What the script finds in the files that it counts is what there is.
LEMMA SomeIsHas ==
  ASSUME FolderType, script # "tpds_opt", NEW k \in Numbers, Complete(folder[k]),
         NEW lock \in Locks, NEW outcome
  PROVE  Some(folder[k], lock, outcome) <=> Has(folder[k], outcome, lock)
<1> DEFINE set == folder[k]
<1>1. CASE DOMAIN set.out[lock] = 1 .. NumTasks(set)
  BY <1>1 DEF Some, Has
<1>2. CASE set.out[lock] = <<>> /\ 1 .. NumTasks(set) = {}
  BY <1>2 DEF Some, Has
<1> QED
  BY <1>1, <1>2, TasksOfSet

LEMMA UnboundIsDiscarded ==
  ASSUME FolderType, script \in {"36cores", "base_12cores"}, NEW k \in Numbers, Complete(folder[k]),
         NEW lock \in Locks
  PROVE  Unbound(folder[k]) <=> Discarded(folder[k], lock)
<1> DEFINE set == folder[k]
<1>1. Discarded(set, lock) <=> \E read \in Locks : Has(set, "unbound", read)
  BY DEF Discarded, Complete, EmptyIsKept
<1>2. ASSUME NEW read \in Locks, Has(set, "unbound", read)
      PROVE  NumTasks(set) >= 1 /\ set.out[read] # <<>>
  <2>1. PICK j \in DOMAIN set.out[read] : TRUE
    BY <1>2 DEF Has
  <2>2. set.out[read] # <<>>
    BY <2>1
  <2>3. j \in 1 .. NumTasks(set)
    BY <2>1, <2>2, TasksOfSet
  <2>4. NumTasks(set) \in Int
    <3>1. set.out["fifo"] \in Seq(Outcomes) /\ set.out["prio"] \in Seq(Outcomes)
      BY FolderSet DEF Locks
    <3>2. Len(set.out["fifo"]) \in Nat /\ Len(set.out["prio"]) \in Nat
      BY <3>1, LenProperties
    <3> QED
      BY <3>2 DEF NumTasks, FilesOf
  <2> QED
    BY <2>2, <2>3, <2>4
<1>3. \A read \in Locks : Some(set, read, "unbound") <=> Has(set, "unbound", read)
  BY SomeIsHas
<1> QED
  BY <1>1, <1>2, <1>3 DEF Unbound

-------------------------------------------------------------------------------
LEMMA PassLen == Len(Passes) \in 1 .. 4 /\ DOMAIN Passes = 1 .. Len(Passes)
<1>1. CASE script = "tpds"
  BY <1>1 DEF Passes
<1>2. CASE script = "tpds_opt"
  BY <1>2 DEF Passes
<1>3. CASE script \in {"12cores", "analysis_only"}
  <2>1. Passes = <<<<"accepted", Locks>>>>
    BY <1>3 DEF Passes
  <2> QED
    BY <2>1
<1>4. CASE script = "base_36cores"
  BY <1>4 DEF Passes
<1>5. CASE script \notin {"tpds", "tpds_opt", "12cores", "analysis_only", "base_36cores"}
  <2>1. Passes = <<<<"data", Locks>>>>
    BY <1>5 DEF Passes
  <2> QED
    BY <2>1
<1> QED
  BY <1>1, <1>2, <1>3, <1>4, <1>5

LEMMA EmptyTally ==
  ASSUME script \in Scripts, script # "tpds_opt", NEW p \in DOMAIN Passes
  PROVE  Counted(NoTally, p, 0)
<1>1. NumTasksets \in Nat
  BY GatherSize
<1>2. \A lock \in Locks : NoTally.ana[lock] = 0 /\ NoTally.exp[lock] = 0
  BY DEF NoTally
<1>3. Passes[p][2] \subseteq Locks
  BY PassKinds
<1> QED
  BY <1>1, <1>2, <1>3, UptoNone DEF Counted, NoTally

LEMMA InitGather == Init => GatherInv
<1> SUFFICES ASSUME Init, program = "gather" PROVE FolderType /\ (CompleteFolder => CountInv)
  BY DEF GatherInv
<1>1. GatherInit
  BY DEF Init
<1>2. /\ pass = 1 /\ i = 1 /\ tally = NoTally /\ results = <<>> /\ script \in Scripts
      /\ end = "no" /\ NumTasksets \in Nat
  BY <1>1, GatherSize DEF GatherInit
<1>3. FolderType
  <2>1. PICK f \in [1 .. NumTasksets -> Contents] : folder = [k \in DOMAIN f |-> Here(f[k])]
    BY <1>1 DEF GatherInit
  <2>2. \A k \in Numbers : \E set \in Contents : folder[k] = Here(set)
    BY <2>1 DEF Numbers
  <2>3. NoTally \in Tallies
    BY <1>2 DEF NoTally, Tallies
  <2> QED
    BY <1>2, <2>2, <2>3, PassLen DEF FolderType
<1>4. ASSUME CompleteFolder PROVE CountInv
  BY <1>2, <1>4, EmptyTally DEF CountInv, CompleteFolder
<1> QED
  BY <1>3, <1>4

-------------------------------------------------------------------------------
\* No step changes what is in the folder.
LEMMA FolderKept ==
  ASSUME UNCHANGED <<script, folder>>
  PROVE  /\ Passes' = Passes /\ CompleteFolder' = CompleteFolder
         /\ \A p, counts, n : Counted(counts, p, n)' <=> Counted(counts, p, n)
         /\ \A f : FigureCounted(f)' <=> FigureCounted(f)
         /\ (\A k \in Numbers : \E set \in Contents : folder[k] = Here(set)) =>
              (\A k \in Numbers : \E set \in Contents : folder'[k] = Here(set)')
<1>1. Passes' = Passes
  BY DEF Passes
<1>2. \A set : Complete(set)' <=> Complete(set)
  BY DEF Complete, EmptyIsKept, MissHidesUnbound
<1>3. CompleteFolder' = CompleteFolder
  BY <1>2 DEF CompleteFolder
<1>4. \A set, lock : Discarded(set, lock)' <=> Discarded(set, lock)
  BY DEF Discarded
<1>5. \A set, lock : Clean(set, lock)' <=> Clean(set, lock)
  BY <1>4 DEF Clean
<1>6. \A lock : AnaSet(lock)' = AnaSet(lock)
  BY DEF AnaSet
<1>7. \A lock : ExpSet(lock)' = ExpSet(lock)
  BY <1>5 DEF ExpSet
<1>8. \A p : ValidSet(p)' = ValidSet(p)
  BY <1>1, <1>4 DEF ValidSet
<1>9. \A p, counts, n : Counted(counts, p, n)' <=> Counted(counts, p, n)
  BY <1>1, <1>6, <1>7, <1>8 DEF Counted, Analysed, Launched
<1>10. \A f : FigureCounted(f)' <=> FigureCounted(f)
  BY <1>6, <1>7 DEF FigureCounted
<1>11. \A set : Here(set)' = Here(set)
  BY DEF Here
<1> QED
  BY <1>1, <1>3, <1>9, <1>10, <1>11

\* The reading of one task set.
LEMMA ToNextGather ==
  ASSUME program = "gather", FolderType, end = "no", pass \in DOMAIN Passes, i <= NumTasksets,
         NEW new \in Tallies, ToNext(new), program' = program,
         CompleteFolder /\ CountInv => Counted(new, pass, i)
  PROVE  (CompleteFolder => CountInv) => GatherInv'
<1> SUFFICES ASSUME CompleteFolder => CountInv PROVE FolderType' /\ (CompleteFolder' => CountInv')
  BY DEF GatherInv
<1>1. tally' = new /\ i' = i + 1 /\ UNCHANGED <<script, folder, pass, results, end, shown>>
  BY DEF ToNext
<1>2. FolderType'
  <2>1. i' \in 1 .. NumTasksets + 1
    BY <1>1, GatherSize DEF FolderType
  <2> QED
    BY <1>1, <2>1, FolderKept DEF FolderType
<1>3. ASSUME CompleteFolder PROVE CountInv'
  <2>1. i' - 1 = i
    BY <1>1 DEF FolderType
  <2>2. Counted(tally, pass, i - 1)'
    BY <1>1, <1>3, <2>1, FolderKept
  <2>3. (\A p \in DOMAIN results : Counted(results[p], p, NumTasksets))'
    BY <1>1, <1>3, FolderKept DEF CountInv
  <2> QED
    BY <1>1, <2>2, <2>3 DEF CountInv
<1> QED
  BY <1>1, <1>2, <1>3, FolderKept

\* Reading is in the middle of a pass over the folder.
LEMMA Reading ==
  ASSUME FolderType, NEW name, Pass(name)
  PROVE  /\ end = "no" /\ pass \in DOMAIN Passes /\ i <= NumTasksets /\ Passes[pass][1] = name
         /\ i \in Numbers /\ i - 1 \in Nat /\ i - 1 + 1 = i /\ NumTasksets \in Nat
         /\ tally.valid \in Int /\ tally.ana \in [Locks -> Int] /\ tally.exp \in [Locks -> Int]
<1>1. end = "no" /\ pass \in DOMAIN Passes /\ i <= NumTasksets /\ Passes[pass][1] = name
  BY DEF Pass
<1>2. NumTasksets \in Nat /\ i \in Nat \ {0} /\ i - 1 \in Nat /\ i - 1 + 1 = i
  BY GatherSize DEF FolderType
<1>3. i \in Numbers
  BY <1>1, <1>2 DEF Numbers
<1>4. tally.valid \in Int /\ tally.ana \in [Locks -> Int] /\ tally.exp \in [Locks -> Int]
  BY DEF FolderType, Tallies
<1> QED
  BY <1>1, <1>2, <1>3, <1>4

\* The counts of one pass after one task set more.
LEMMA CountedNext ==
  ASSUME NEW p, NEW n \in Nat, NumTasksets \in Nat, NEW old, NEW new, Counted(old, p, n),
         old.valid \in Int, \A lock \in Passes[p][2] : old.ana[lock] \in Int /\ old.exp[lock] \in Int,
         new.valid = IF n + 1 \in ValidSet(p) THEN old.valid ELSE old.valid - 1,
         \A lock \in Passes[p][2] :
           /\ Analysed(p, lock) =>
                new.ana[lock] = IF n + 1 \in AnaSet(lock) THEN old.ana[lock] + 1 ELSE old.ana[lock]
           /\ Launched(p) =>
                new.exp[lock] = IF n + 1 \in ExpSet(lock) THEN old.exp[lock] + 1 ELSE old.exp[lock]
  PROVE  Counted(new, p, n + 1)
<1>1. \A S : Upto(S, n) \in Nat /\ Upto(S, n + 1) = IF n + 1 \in S THEN Upto(S, n) + 1 ELSE Upto(S, n)
  BY UptoNext
<1>2. new.valid = NumTasksets - (n + 1) + Upto(ValidSet(p), n + 1)
  BY <1>1 DEF Counted
<1>3. ASSUME NEW lock \in Passes[p][2]
      PROVE  /\ Analysed(p, lock) => new.ana[lock] = Upto(AnaSet(lock), n + 1)
             /\ Launched(p) => new.exp[lock] = Upto(ExpSet(lock), n + 1)
  BY <1>1 DEF Counted
<1> QED
  BY <1>2, <1>3 DEF Counted

LEMMA PlusType ==
  ASSUME NEW counts \in [Locks -> Int], NEW locks
  PROVE  /\ Plus(counts, locks) \in [Locks -> Int]
         /\ \A lock \in Locks : Plus(counts, locks)[lock] = IF lock \in locks THEN counts[lock] + 1 ELSE counts[lock]
BY DEF Plus

-------------------------------------------------------------------------------
\* gather_data.
LEMMA GatherTaskSetCounts ==
  ASSUME program = "gather", FolderType, CompleteFolder => CountInv, GatherTaskSet, program' = program
  PROVE  GatherInv'
<1> DEFINE new == [ana |-> Plus(tally.ana, Accepted), exp |-> Plus(tally.exp, Succeeded),
                   valid |-> tally.valid - (IF Unbound(Set) THEN 1 ELSE 0)]
<1>1. Pass("data") /\ ToNext(new)
  BY DEF GatherTaskSet
<1>2. /\ end = "no" /\ pass \in DOMAIN Passes /\ i <= NumTasksets /\ Passes[pass][1] = "data"
      /\ i \in Numbers /\ i - 1 \in Nat /\ i - 1 + 1 = i /\ NumTasksets \in Nat
      /\ tally.valid \in Int /\ tally.ana \in [Locks -> Int] /\ tally.exp \in [Locks -> Int]
  BY <1>1, Reading
<1>3. new \in Tallies
  BY <1>2, PlusType DEF Tallies
<1>4. ASSUME CompleteFolder, CountInv PROVE Counted(new, pass, i)
  <2>1. script \in {"36cores", "base_12cores"} /\ Passes[pass][2] = Locks
    BY <1>2, <1>4, PassKinds DEF FolderType, CompleteFolder
  <2>2. Counted(tally, pass, i - 1) /\ Complete(Set)
    BY <1>2, <1>4 DEF CountInv, CompleteFolder, Set
  <2>3. Unbound(Set) <=> i \notin ValidSet(pass)
    <3>1. \A lock \in Locks : Unbound(Set) <=> Discarded(Set, lock)
      BY <1>2, <2>1, <2>2, UnboundIsDiscarded DEF Set
    <3>2. ValidSet(pass) = {k \in Numbers : \A lock \in Locks : ~ Discarded(folder[k], lock)}
      BY <1>2 DEF ValidSet
    <3> QED
      BY <1>2, <3>1, <3>2 DEF Set, Locks
  <2>4. ASSUME NEW lock \in Locks
        PROVE  /\ lock \in Accepted <=> i \in AnaSet(lock)
               /\ lock \in Succeeded <=> i \in ExpSet(lock)
    <3>1. lock \in Accepted <=> i \in AnaSet(lock)
      BY <1>2 DEF Accepted, AnaSet, Set
    <3>2. Unbound(Set) <=> Discarded(Set, lock)
      BY <1>2, <2>1, <2>2, UnboundIsDiscarded DEF Set
    <3>3. Some(Set, lock, "missed") <=> Has(Set, "missed", lock)
      BY <1>2, <2>1, <2>2, SomeIsHas DEF Set
    <3>4. Eligible(lock) <=> Set.status[lock] # 2
      BY <1>2, <2>1, <2>2, TasksOfSet DEF Eligible, Set
    <3>5. i \in ExpSet(lock) <=> Clean(Set, lock)
      BY <1>2 DEF ExpSet, Set
    <3> QED
      BY <3>1, <3>2, <3>3, <3>4, <3>5 DEF Succeeded, Clean
  <2>5. /\ new.valid = IF i \in ValidSet(pass) THEN tally.valid ELSE tally.valid - 1
        /\ \A lock \in Passes[pass][2] :
             /\ new.ana[lock] = IF i \in AnaSet(lock) THEN tally.ana[lock] + 1 ELSE tally.ana[lock]
             /\ new.exp[lock] = IF i \in ExpSet(lock) THEN tally.exp[lock] + 1 ELSE tally.exp[lock]
    BY <1>2, <2>1, <2>3, <2>4, PlusType
  <2> HIDE DEF new
  <2> QED
    BY <1>2, <2>1, <2>2, <2>5, CountedNext
<1> HIDE DEF new
<1> QED
  BY <1>1, <1>2, <1>3, <1>4, ToNextGather

\* gather_analysis_data and gather_analysis_only.
LEMMA GatherAcceptedCounts ==
  ASSUME program = "gather", FolderType, CompleteFolder => CountInv, program' = program,
         GatherAccepted \/ GatherPrioOnly
  PROVE  GatherInv'
<1> DEFINE locks == IF GatherAccepted THEN Accepted ELSE Accepted \cap {"prio"}
           name  == IF GatherAccepted THEN "accepted" ELSE "prio_only"
           new   == [tally EXCEPT !.ana = Plus(@, locks)]
<1>1. Pass(name) /\ ToNext(new)
  BY DEF GatherAccepted, GatherPrioOnly
<1>2. /\ end = "no" /\ pass \in DOMAIN Passes /\ i <= NumTasksets /\ Passes[pass][1] = name
      /\ i \in Numbers /\ i - 1 \in Nat /\ i - 1 + 1 = i /\ NumTasksets \in Nat
      /\ tally.valid \in Int /\ tally.ana \in [Locks -> Int] /\ tally.exp \in [Locks -> Int]
  BY <1>1, Reading
<1>3. new.valid = tally.valid /\ new.ana = Plus(tally.ana, locks) /\ new.exp = tally.exp /\ new \in Tallies
  BY ZenonT(40), <1>2, PlusType DEF FolderType, Tallies
<1>4. ASSUME CompleteFolder, CountInv PROVE Counted(new, pass, i)
  <2>1. Passes[pass][2] = Locks
    BY <1>2, <1>4, PassKinds DEF FolderType, CompleteFolder
  <2>2. Counted(tally, pass, i - 1)
    BY <1>2, <1>4 DEF CountInv
  <2>3. i \in ValidSet(pass)
    BY <1>2 DEF ValidSet
  <2>4. \A lock \in Locks : lock \in Accepted <=> i \in AnaSet(lock)
    BY <1>2 DEF Accepted, AnaSet, Set
  <2>5. \A lock \in Locks : Analysed(pass, lock) => (lock \in locks <=> i \in AnaSet(lock))
    BY <1>2, <2>4 DEF Analysed
  <2>6. ~ Launched(pass)
    BY <1>2 DEF Launched
  <2>7. /\ new.valid = IF i \in ValidSet(pass) THEN tally.valid ELSE tally.valid - 1
        /\ \A lock \in Passes[pass][2] : Analysed(pass, lock) =>
             new.ana[lock] = IF i \in AnaSet(lock) THEN tally.ana[lock] + 1 ELSE tally.ana[lock]
    BY <1>2, <1>3, <2>1, <2>3, <2>5, PlusType
  <2> HIDE DEF new
  <2> QED
    BY <1>2, <2>1, <2>2, <2>6, <2>7, CountedNext
<1> HIDE DEF new
<1> QED
  BY <1>1, <1>2, <1>3, <1>4, ToNextGather

-------------------------------------------------------------------------------
\* The functions of tpds read for one lock.
LEMMA OneLock ==
  ASSUME script \in Scripts, pass \in DOMAIN Passes, Passes[pass][1] \in {"analysis", "exper"}
  PROVE  Lock \in Locks /\ Passes[pass][2] = {Lock}
<1>1. \E lock \in Locks : Passes[pass][2] = {lock}
  <2>1. CASE script = "tpds_opt"
    BY <2>1 DEF Passes, Locks
  <2>2. CASE script # "tpds_opt"
    BY <2>2, PassKinds
  <2> QED
    BY <2>1, <2>2
<1> QED
  BY <1>1 DEF Lock

LessValid(old) == [old EXCEPT !.valid = @ - 1]

MoreAna(old, lock) == [old EXCEPT !.ana[lock] = @ + 1]

MoreExp(old, lock) == [old EXCEPT !.exp[lock] = @ + 1]

LEMMA TallyChanges ==
  ASSUME NEW old \in Tallies, NEW lock \in Locks
  PROVE  /\ LessValid(old) \in Tallies /\ LessValid(old).valid = old.valid - 1
         /\ LessValid(old).ana = old.ana /\ LessValid(old).exp = old.exp
         /\ MoreAna(old, lock) \in Tallies /\ MoreAna(old, lock).valid = old.valid
         /\ MoreAna(old, lock).ana[lock] = old.ana[lock] + 1
         /\ MoreExp(old, lock) \in Tallies /\ MoreExp(old, lock).valid = old.valid
         /\ MoreExp(old, lock).exp[lock] = old.exp[lock] + 1
<1>1. /\ old = [ana |-> old.ana, exp |-> old.exp, valid |-> old.valid] /\ old.valid \in Int
      /\ old.ana \in [Locks -> Int] /\ old.exp \in [Locks -> Int]
  BY DEF Tallies
<1>2. LessValid(old) = [ana |-> old.ana, exp |-> old.exp, valid |-> old.valid - 1]
  BY <1>1 DEF LessValid
<1>3. MoreAna(old, lock) =
        [ana |-> [old.ana EXCEPT ![lock] = @ + 1], exp |-> old.exp, valid |-> old.valid]
  BY <1>1 DEF MoreAna
<1>4. MoreExp(old, lock) =
        [ana |-> old.ana, exp |-> [old.exp EXCEPT ![lock] = @ + 1], valid |-> old.valid]
  BY <1>1 DEF MoreExp
<1>5. /\ [old.ana EXCEPT ![lock] = @ + 1] \in [Locks -> Int]
      /\ [old.ana EXCEPT ![lock] = @ + 1][lock] = old.ana[lock] + 1
      /\ [old.exp EXCEPT ![lock] = @ + 1] \in [Locks -> Int]
      /\ [old.exp EXCEPT ![lock] = @ + 1][lock] = old.exp[lock] + 1
  BY <1>1
<1> QED
  BY <1>1, <1>2, <1>3, <1>4, <1>5 DEF Tallies

LEMMA GatherAnalysisCounts ==
  ASSUME program = "gather", FolderType, CompleteFolder => CountInv, GatherAnalysis, program' = program
  PROVE  GatherInv'
<1> DEFINE new == IF Rejected THEN LessValid(tally)
                  ELSE IF Lock \in Accepted THEN MoreAna(tally, Lock)
                  ELSE tally
<1>1. Pass("analysis") /\ ToNext(new)
  BY DEF GatherAnalysis, LessValid, MoreAna
<1>2. /\ end = "no" /\ pass \in DOMAIN Passes /\ i <= NumTasksets /\ Passes[pass][1] = "analysis"
      /\ i \in Numbers /\ i - 1 \in Nat /\ i - 1 + 1 = i /\ NumTasksets \in Nat
      /\ tally.valid \in Int /\ tally.ana \in [Locks -> Int] /\ tally.exp \in [Locks -> Int]
  BY <1>1, Reading
<1>3. Lock \in Locks /\ Passes[pass][2] = {Lock}
  BY <1>2, OneLock DEF FolderType
<1>4. /\ new \in Tallies
      /\ new.valid = IF Rejected THEN tally.valid - 1 ELSE tally.valid
      /\ new.ana[Lock] = IF ~ Rejected /\ Lock \in Accepted THEN tally.ana[Lock] + 1 ELSE tally.ana[Lock]
  <2>1. tally \in Tallies
    BY DEF FolderType
  <2>2. CASE Rejected
    BY <1>3, <2>1, <2>2, TallyChanges
  <2>3. CASE ~ Rejected
    BY <1>3, <2>1, <2>3, TallyChanges
  <2> QED
    BY <2>2, <2>3
<1>5. ASSUME CompleteFolder, CountInv PROVE Counted(new, pass, i)
  <2>1. Counted(tally, pass, i - 1)
    BY <1>2, <1>5 DEF CountInv
  <2>2. Rejected <=> i \notin ValidSet(pass)
    BY <1>2, <1>3 DEF ValidSet, Rejected, Set
  <2>3. i \in AnaSet(Lock) <=> ~ Rejected /\ Lock \in Accepted
    BY <1>2, <1>3 DEF AnaSet, Accepted, Rejected, Set
  <2>4. ~ Launched(pass)
    BY <1>2 DEF Launched
  <2> HIDE DEF new
  <2>5. /\ new.valid = IF i \in ValidSet(pass) THEN tally.valid ELSE tally.valid - 1
        /\ new.ana[Lock] = IF i \in AnaSet(Lock) THEN tally.ana[Lock] + 1 ELSE tally.ana[Lock]
    BY <1>4, <2>2, <2>3
  <2> QED
    BY <1>2, <1>3, <2>1, <2>4, <2>5, CountedNext
<1> HIDE DEF new
<1> QED
  BY <1>1, <1>2, <1>4, <1>5, ToNextGather

LEMMA NumTasksInt ==
  ASSUME FolderType, NEW k \in Numbers
  PROVE  NumTasks(folder[k]) \in Int
<1>1. folder[k].out["fifo"] \in Seq(Outcomes) /\ folder[k].out["prio"] \in Seq(Outcomes)
  BY FolderSet DEF Locks
<1>2. Len(folder[k].out["fifo"]) \in Nat /\ Len(folder[k].out["prio"]) \in Nat
  BY <1>1, LenProperties
<1> QED
  BY <1>2 DEF NumTasks, FilesOf

\* Where no miss comes before a task that was not bound, the first file of
\* such a task stops the reading.
LEMMA NoneStops ==
  ASSUME FolderType, i \in Numbers, ~ Rejected, ~ StopsUnbound,
         \A j, k \in 1 .. NumTasks(Set) :
           ~ (j < k /\ Set.out[Lock][j] = "missed" /\ Set.out[Lock][k] = "unbound")
  PROVE  ~ Some(Set, Lock, "unbound")
<1> SUFFICES ASSUME Some(Set, Lock, "unbound") PROVE FALSE
  OBVIOUS
<1> DEFINE T == {j \in 1 .. NumTasks(Set) : Set.out[Lock][j] = "unbound"}
<1>1. T \subseteq Nat /\ T # {}
  BY DEF Some
<1>2. PICK j \in T : \A k \in T : j <= k
  <2> HIDE DEF T
  <2> QED
    BY <1>1, NatLeast
<1>3. ASSUME NEW k \in 1 .. j - 1 PROVE ~ Stops(k)
  <2>1. k \in 1 .. NumTasks(Set) /\ k < j /\ ~ (j <= k)
    BY <1>1, <1>2, NumTasksInt DEF Set
  <2> QED
    BY <1>2, <2>1 DEF Stops
<1> QED
  BY <1>2, <1>3 DEF StopsUnbound

LEMMA GatherExperCounts ==
  ASSUME program = "gather", FolderType, CompleteFolder => CountInv, GatherExper, program' = program
  PROVE  GatherInv'
<1> DEFINE missed == Some(Set, Lock, "missed")
           new == IF Rejected THEN LessValid(tally)
                  ELSE IF missed THEN tally
                  ELSE MoreExp(tally, Lock)
<1>1. Pass("exper") /\ ~ StopsUnbound /\ ToNext(new)
  BY DEF GatherExper, LessValid, MoreExp
<1>2. /\ end = "no" /\ pass \in DOMAIN Passes /\ i <= NumTasksets /\ Passes[pass][1] = "exper"
      /\ i \in Numbers /\ i - 1 \in Nat /\ i - 1 + 1 = i /\ NumTasksets \in Nat
      /\ tally.valid \in Int /\ tally.ana \in [Locks -> Int] /\ tally.exp \in [Locks -> Int]
  BY <1>1, Reading
<1>3. Lock \in Locks /\ Passes[pass][2] = {Lock}
  BY <1>2, OneLock DEF FolderType
<1>4. /\ new \in Tallies
      /\ new.valid = IF Rejected THEN tally.valid - 1 ELSE tally.valid
      /\ new.exp[Lock] = IF ~ Rejected /\ ~ missed THEN tally.exp[Lock] + 1 ELSE tally.exp[Lock]
  <2>1. tally \in Tallies
    BY DEF FolderType
  <2>2. CASE Rejected
    BY <1>3, <2>1, <2>2, TallyChanges
  <2>3. CASE ~ Rejected
    BY <1>3, <2>1, <2>3, TallyChanges
  <2> QED
    BY <2>2, <2>3
<1>5. ASSUME CompleteFolder, CountInv PROVE Counted(new, pass, i)
  <2>1. Counted(tally, pass, i - 1) /\ Complete(Set) /\ script = "tpds"
    BY <1>2, <1>5, PassKinds DEF CountInv, CompleteFolder, FolderType, Set
  <2>2. ~ Rejected => ~ Discarded(Set, Lock)
    <3> SUFFICES ASSUME ~ Rejected PROVE ~ Discarded(Set, Lock)
      OBVIOUS
    <3>1. 1 .. NumTasks(Set) = DOMAIN Set.out[Lock]
      BY <1>2, <1>3, <2>1, TasksOfSet DEF Rejected, Set
    <3>2. \A j, k \in 1 .. NumTasks(Set) :
            ~ (j < k /\ Set.out[Lock][j] = "missed" /\ Set.out[Lock][k] = "unbound")
      BY <1>3, <2>1, <3>1 DEF Complete, MissHidesUnbound
    <3>3. ~ Has(Set, "unbound", Lock)
      BY <1>1, <1>2, <1>3, <2>1, <3>2, NoneStops, SomeIsHas DEF Set
    <3>4. ~ Has(Set, "empty", Lock)
      BY <1>3, <2>1 DEF Complete, EmptyIsKept
    <3> QED
      BY <2>1, <3>3, <3>4 DEF Discarded
  <2>3. i \in ExpSet(Lock) <=> ~ Rejected /\ ~ missed
    <3>1. missed <=> Has(Set, "missed", Lock)
      BY <1>2, <1>3, <2>1, SomeIsHas DEF Set
    <3>2. i \in ExpSet(Lock) <=> ~ Rejected /\ ~ Discarded(Set, Lock) /\ ~ Has(Set, "missed", Lock)
      BY <1>2 DEF ExpSet, Clean, Rejected, Set
    <3> QED
      BY <2>2, <3>1, <3>2
  <2>4. ~ Analysed(pass, Lock)
    BY <1>2 DEF Analysed
  <2>5. Rejected <=> i \notin ValidSet(pass)
    BY <1>2, <1>3, <2>2 DEF ValidSet, Rejected, Set
  <2> HIDE DEF new, missed
  <2>6. /\ new.valid = IF i \in ValidSet(pass) THEN tally.valid ELSE tally.valid - 1
        /\ new.exp[Lock] = IF i \in ExpSet(Lock) THEN tally.exp[Lock] + 1 ELSE tally.exp[Lock]
    BY <1>4, <2>3, <2>5
  <2> QED
    BY <1>2, <1>3, <2>1, <2>4, <2>6, CountedNext
<1> HIDE DEF new
<1> QED
  BY <1>1, <1>2, <1>4, <1>5, ToNextGather

-------------------------------------------------------------------------------
\* The end of a pass, of the reading and of the script.
LEMMA EndPassCounts ==
  ASSUME program = "gather", FolderType, CompleteFolder => CountInv, EndPass, program' = program
  PROVE  GatherInv'
<1> SUFFICES FolderType' /\ (CompleteFolder' => CountInv')
  BY DEF GatherInv
<1>1. /\ end = "no" /\ pass \in DOMAIN Passes /\ i > NumTasksets
      /\ results' = Append(results, tally) /\ pass' = pass + 1 /\ i' = 1 /\ tally' = NoTally
      /\ UNCHANGED <<script, folder, end, shown>>
  BY DEF EndPass
<1>2. /\ NumTasksets \in Nat /\ i - 1 = NumTasksets /\ pass \in Nat /\ pass \in 1 .. Len(Passes)
      /\ results \in Seq(Tallies) /\ Len(results) = pass - 1 /\ tally \in Tallies
  BY <1>1, GatherSize, PassLen DEF FolderType
<1>3. NoTally \in Tallies
  BY <1>2 DEF NoTally, Tallies
<1>4. /\ results' \in Seq(Tallies) /\ Len(results') = pass /\ DOMAIN results' = 1 .. pass
      /\ results'[pass] = tally /\ \A p \in 1 .. pass - 1 : results'[p] = results[p]
      /\ DOMAIN results = 1 .. pass - 1
  BY <1>1, <1>2
<1>5. FolderType'
  <2>1. pass' \in 1 .. Len(Passes) + 1 /\ i' \in 1 .. NumTasksets + 1
    BY <1>1, <1>2, PassLen
  <2>2. Len(results') = pass' - 1
    BY <1>1, <1>2, <1>4
  <2> QED
    BY <1>1, <1>3, <1>4, <2>1, <2>2, FolderKept DEF FolderType
<1>6. ASSUME CompleteFolder PROVE CountInv'
  <2>1. Counted(tally, pass, NumTasksets)
    BY <1>1, <1>2, <1>6 DEF CountInv
  <2>2. ASSUME NEW p \in 1 .. pass PROVE Counted(results'[p], p, NumTasksets)
    <3>1. CASE p = pass
      BY <1>4, <2>1, <3>1
    <3>2. CASE p # pass
      <4>1. p \in 1 .. pass - 1
        BY <1>2, <3>2
      <4> QED
        BY <1>4, <1>6, <4>1 DEF CountInv
    <3> QED
      BY <3>1, <3>2
  <2>3. (\A p \in DOMAIN results : Counted(results[p], p, NumTasksets))'
    BY <1>1, <1>4, <2>2, FolderKept
  <2>4. (end = "no" /\ pass \in DOMAIN Passes => Counted(tally, pass, i - 1))'
    <3>1. ASSUME pass' \in DOMAIN Passes PROVE Counted(NoTally, pass', 0)
      BY <1>6, <3>1, EmptyTally DEF CompleteFolder, FolderType
    <3>2. i' - 1 = 0
      BY <1>1
    <3> QED
      BY <1>1, <3>1, <3>2, FolderKept
  <2> QED
    BY <1>1, <2>3, <2>4 DEF CountInv
<1> QED
  BY <1>1, <1>5, <1>6, FolderKept

LEMMA EndCounts ==
  ASSUME program = "gather", FolderType, CompleteFolder => CountInv, program' = program,
         UNCHANGED <<script, folder, pass, i, tally, results>>,
         CompleteFolder /\ CountInv /\ end' \in {"shares", "done"} => pass \notin DOMAIN Passes,
         end' \notin {"no", "done"} \/ UNCHANGED <<end, shown>>
           \/ (end' = "done" /\ (CompleteFolder /\ CountInv /\ script # "base_36cores" =>
                                   \A f \in shown' : FigureCounted(f)))
  PROVE  GatherInv'
<1> SUFFICES FolderType' /\ (CompleteFolder' => CountInv')
  BY DEF GatherInv
<1>1. FolderType'
  BY FolderKept DEF FolderType
<1>2. ASSUME CompleteFolder PROVE CountInv'
  <2>1. (\A p \in DOMAIN results : Counted(results[p], p, NumTasksets))'
    BY <1>2, FolderKept DEF CountInv
  <2>2. (end = "no" /\ pass \in DOMAIN Passes => Counted(tally, pass, i - 1))'
    BY <1>2, FolderKept DEF CountInv
  <2>3. (end \in {"shares", "done"} => pass \notin DOMAIN Passes)'
    BY <1>2, FolderKept
  <2>4. (end = "done" /\ script # "base_36cores" => \A f \in shown : FigureCounted(f))'
    BY <1>2, FolderKept DEF CountInv
  <2> QED
    BY <2>1, <2>2, <2>3, <2>4 DEF CountInv
<1> QED
  BY <1>1, <1>2, FolderKept

\* What is printed are the counts of complete passes.
LEMMA ShownCounts ==
  ASSUME FolderType, CompleteFolder, CountInv, end = "shares", script # "base_36cores",
         PrintAllAtOnce \/ PrintAnalysisData \/ PrintExperData
  PROVE  \A f \in shown' : FigureCounted(f)
<1>1. pass \notin DOMAIN Passes /\ DOMAIN results = DOMAIN Passes
  <2>1. pass \notin DOMAIN Passes
    BY DEF CountInv
  <2>2. pass = Len(Passes) + 1
    BY <2>1, PassLen DEF FolderType
  <2>3. Len(results) = Len(Passes) /\ results \in Seq(Tallies)
    BY <2>2, PassLen DEF FolderType
  <2> QED
    BY <2>1, <2>3, PassLen, LenProperties
<1>2. ASSUME NEW p \in DOMAIN Passes, NEW what,
             IF what = "ana" THEN \A lock \in Passes[p][2] : Analysed(p, lock) ELSE Launched(p),
             NEW f \in Figures(p, what)
      PROVE  FigureCounted(f)
  <2>1. PICK lock \in Passes[p][2] :
          f = [what |-> what, lock |-> lock, valid |-> results[p].valid,
               count |-> IF what = "ana" THEN results[p].ana[lock] ELSE results[p].exp[lock]]
    BY <1>2 DEF Figures
  <2>2. Counted(results[p], p, NumTasksets)
    BY <1>1, <1>2 DEF CountInv
  <2>3. f.what = what /\ f.lock = lock
        /\ f.count = IF what = "ana" THEN results[p].ana[lock] ELSE results[p].exp[lock]
    BY <2>1
  <2>4. AnaSet(lock) \in SUBSET Numbers /\ ExpSet(lock) \in SUBSET Numbers
    BY DEF AnaSet, ExpSet
  <2>5. Upto(AnaSet(lock), NumTasksets) = Cardinality(AnaSet(lock))
        /\ Upto(ExpSet(lock), NumTasksets) = Cardinality(ExpSet(lock))
    BY <2>4, UptoAll
  <2> QED
    BY <1>2, <2>1, <2>2, <2>3, <2>5 DEF Counted, FigureCounted
<1>3. CASE PrintAllAtOnce
  <2>1. shown' = Figures(1, "ana") \cup Figures(1, "exp") /\ script \in {"36cores", "base_12cores"}
    BY <1>3 DEF PrintAllAtOnce, Show
  <2>2. Passes = <<<<"data", Locks>>>>
    BY <2>1 DEF Passes
  <2>3. 1 \in DOMAIN Passes /\ Launched(1) /\ \A lock : Analysed(1, lock)
    BY <2>2 DEF Launched, Analysed
  <2> QED
    BY <1>2, <2>1, <2>3
<1>4. CASE PrintAnalysisData
  <2>1. shown' = Figures(1, "ana") /\ script \in {"12cores", "analysis_only"}
    BY <1>4 DEF PrintAnalysisData, Show
  <2>2. Passes = <<<<"accepted", Locks>>>>
    BY <2>1 DEF Passes
  <2>3. 1 \in DOMAIN Passes /\ \A lock : Analysed(1, lock)
    BY <2>2 DEF Analysed
  <2> QED
    BY <1>2, <2>1, <2>3
<1>5. CASE PrintExperData
  <2>1. shown' = UNION {Figures(p, "exp") : p \in {q \in DOMAIN Passes : Passes[q][1] = "exper"}}
    BY <1>5 DEF PrintExperData, Show
  <2>2. \A p \in DOMAIN Passes : Passes[p][1] = "exper" => Launched(p)
    BY DEF Launched
  <2>3. ASSUME NEW f \in shown' PROVE FigureCounted(f)
    <3>1. PICK p \in DOMAIN Passes : Passes[p][1] = "exper" /\ f \in Figures(p, "exp")
      BY <2>1, <2>3
    <3>2. "exp" # "ana"
      OBVIOUS
    <3> QED
      BY <1>2, <2>2, <3>1, <3>2
  <2> QED
    BY <2>3
<1> QED
  BY <1>3, <1>4, <1>5

LEMMA StepGather == ASSUME GatherInv, [Next]_vars PROVE GatherInv'
<1>1. program' = program
  BY DEF Next, Generate, Gather, Convert, Execute, vars
<1>2. CASE program # "gather"
  BY <1>1, <1>2 DEF GatherInv
<1>3. CASE program = "gather"
  <2>1. FolderType /\ (CompleteFolder => CountInv)
    BY <1>3 DEF GatherInv
  <2>2. CASE UNCHANGED gathervars
    <3>1. UNCHANGED <<script, folder, pass, i, tally, results, end, shown>>
      BY <2>2 DEF gathervars
    <3>2. CompleteFolder => (end \in {"shares", "done"} => pass \notin DOMAIN Passes)
      BY <2>1 DEF CountInv
    <3>3. FolderType'
      BY <2>1, <3>1, FolderKept DEF FolderType
    <3>4. ASSUME CompleteFolder PROVE CountInv'
      <4>1. (\A p \in DOMAIN results : Counted(results[p], p, NumTasksets))'
        BY <2>1, <3>1, <3>4, FolderKept DEF CountInv
      <4>2. (end = "no" /\ pass \in DOMAIN Passes => Counted(tally, pass, i - 1))'
        BY <2>1, <3>1, <3>4, FolderKept DEF CountInv
      <4>3. (end \in {"shares", "done"} => pass \notin DOMAIN Passes)'
        BY <3>1, <3>2, <3>4, FolderKept
      <4>4. (end = "done" /\ script # "base_36cores" => \A f \in shown : FigureCounted(f))'
        BY <2>1, <3>1, <3>4, FolderKept DEF CountInv
      <4> QED
        BY <4>1, <4>2, <4>3, <4>4 DEF CountInv
    <3> QED
      BY <3>1, <3>3, <3>4, FolderKept DEF GatherInv
  <2>3. CASE GatherStep
    <3>1. CASE GatherTaskSet \/ GatherAccepted \/ GatherPrioOnly \/ GatherAnalysis \/ GatherExper \/ EndPass
      BY <1>1, <1>3, <2>1, <3>1, GatherTaskSetCounts, GatherAcceptedCounts, GatherAnalysisCounts,
         GatherExperCounts, EndPassCounts
    <3>2. CASE FileIsAbsent \/ NoSuchVariable \/ WriteShares
      <4>1. UNCHANGED <<script, folder, pass, i, tally, results>> /\ end' \in {"error", "shares"}
            /\ (end' = "shares" => pass \notin DOMAIN Passes)
        BY <3>2 DEF FileIsAbsent, NoSuchVariable, Fail, WriteShares
      <4> QED
        BY <1>1, <1>3, <2>1, <4>1, EndCounts
    <3>3. CASE PrintAllAtOnce \/ PrintAnalysisData \/ PrintExperData
      <4>1. UNCHANGED <<script, folder, pass, i, tally, results>> /\ end' = "done" /\ end = "shares"
        BY <3>3 DEF PrintAllAtOnce, PrintAnalysisData, PrintExperData, Show
      <4>2. CompleteFolder /\ CountInv /\ script # "base_36cores" => \A f \in shown' : FigureCounted(f)
        BY <2>1, <3>3, <4>1, ShownCounts
      <4>3. CompleteFolder /\ CountInv => pass \notin DOMAIN Passes
        BY <4>1 DEF CountInv
      <4> QED
        BY <1>1, <1>3, <2>1, <4>1, <4>2, <4>3, EndCounts
    <3> QED
      BY <2>3, <3>1, <3>2, <3>3 DEF GatherStep
  <2> QED
    BY <1>3, <2>2, <2>3 DEF Next, Generate, Gather, Convert, Execute, vars
<1> QED
  BY <1>2, <1>3

LEMMA UptoNat == \A S, n : n \in Nat => Upto(S, n) \in Nat
  BY UptoNext

LEMMA CountsFollow == ASSUME GatherInv PROVE CountsAreRight
<1> SUFFICES ASSUME program = "gather", end = "done", script # "tpds_opt",
                    \A k \in 1 .. NumTasksets : Complete(folder[k])
             PROVE  /\ script # "base_36cores" => \A f \in shown : FigureIsRight(f)
                    /\ \A p \in DOMAIN results :
                         /\ results[p].valid = ValidOf(p)
                         /\ \A lock \in Passes[p][2] :
                              CountsOf(lock, results[p],
                                Passes[p][1] \in {"analysis", "data", "accepted"} \/ (Passes[p][1] = "prio_only" /\ lock = "prio"),
                                Passes[p][1] \in {"exper", "data"})
  BY Zenon DEF CountsAreRight
<1>1. FolderType /\ CompleteFolder /\ CountInv
  BY DEF GatherInv, CompleteFolder, Numbers
<1>2. \A lock : HowMany(LAMBDA set : set.status[lock] = 0) = Cardinality(AnaSet(lock))
  BY DEF HowMany, AnaSet, Numbers
<1>3. \A lock : HowMany(LAMBDA set : Clean(set, lock)) = Cardinality(ExpSet(lock))
  BY DEF HowMany, ExpSet, Numbers
<1>4. ASSUME NEW f PROVE FigureIsRight(f) <=> FigureCounted(f)
  BY DEF FigureIsRight, FigureCounted, HowMany, AnaSet, ExpSet, Numbers
<1>5. \A S \in SUBSET Numbers : Upto(S, NumTasksets) = Cardinality(S)
  BY UptoAll
<1>6. \A lock : AnaSet(lock) \in SUBSET Numbers /\ ExpSet(lock) \in SUBSET Numbers
  BY DEF AnaSet, ExpSet
<1>7. ASSUME NEW p \in DOMAIN results
      PROVE  /\ results[p].valid = ValidOf(p)
             /\ \A lock \in Passes[p][2] :
                  /\ Analysed(p, lock) => results[p].ana[lock] = Cardinality(AnaSet(lock))
                  /\ Launched(p) => results[p].exp[lock] = Cardinality(ExpSet(lock))
  <2>1. Counted(results[p], p, NumTasksets)
    BY <1>1 DEF CountInv
  <2>2. NumTasksets \in Nat
    BY GatherSize
  <2>3. ValidSet(p) \in SUBSET Numbers
    BY DEF ValidSet
  <2>4. results[p].valid = Cardinality(ValidSet(p))
    <3>1. NumTasksets - NumTasksets + Upto(ValidSet(p), NumTasksets) = Upto(ValidSet(p), NumTasksets)
      BY <2>2, UptoNat
    <3> QED
      BY <1>5, <2>1, <2>3, <3>1 DEF Counted
  <2>5. ValidOf(p) = Cardinality(ValidSet(p))
    <3>1. CASE Passes[p][1] = "data"
      BY <3>1 DEF ValidOf, ValidSet, HowMany, Numbers
    <3>2. CASE Passes[p][1] \in {"analysis", "exper"}
      BY <3>2 DEF ValidOf, ValidSet, HowMany, Numbers
    <3>3. CASE Passes[p][1] \notin {"data", "analysis", "exper"}
      <4>1. ValidSet(p) = Numbers
        BY <3>3 DEF ValidSet
      <4>2. ValidOf(p) = NumTasksets
        BY <3>3 DEF ValidOf
      <4>3. Cardinality(Numbers) = NumTasksets
        <5>1. NumTasksets - 1 + 1 = NumTasksets
          BY <2>2
        <5> QED
          BY <2>2, <5>1, FS_Interval DEF Numbers
      <4> QED
        BY <4>1, <4>2, <4>3
    <3> QED
      BY <3>1, <3>2, <3>3
  <2> QED
    BY <1>5, <1>6, <2>1, <2>4, <2>5 DEF Counted
<1>8. ASSUME NEW p \in DOMAIN results, NEW lock \in Passes[p][2]
      PROVE  CountsOf(lock, results[p],
               Passes[p][1] \in {"analysis", "data", "accepted"} \/ (Passes[p][1] = "prio_only" /\ lock = "prio"),
               Passes[p][1] \in {"exper", "data"})
  BY <1>2, <1>3, <1>7 DEF CountsOf, Analysed, Launched
<1>9. script # "base_36cores" => \A f \in shown : FigureIsRight(f)
  BY <1>1, <1>4 DEF CountInv
<1> QED
  BY <1>7, <1>8, <1>9

(***************************************************************************)
(* The counts that a script has made and prints when it comes to an end    *)
(* are those of the folder, for every number of task sets and whatever the *)
(* analysis and the launches have left of each, as long as the folder is   *)
(* complete: CountsAreRight, the first part of OutputsAreRight.            *)
(***************************************************************************)
THEOREM ScriptsCountRight == Spec => []CountsAreRight
<1>1. GatherInv /\ [Next]_vars => GatherInv'
  BY StepGather
<1> QED
  BY <1>1, InitGather, CountsFollow, PTL DEF Spec

-------------------------------------------------------------------------------
(***************************************************************************)
(* The walk of the threads through the programs of their tasks.            *)
(***************************************************************************)
\* What InitTask reads of the program of a task.
CodeOf(t) ==
  [g \in DOMAIN requested[t] |->
     [j \in DOMAIN requested[t][g].strands |->
        Sections(requested[t][g].strands[j], requested[t][g].len)]]

\* The segment that a task runs, and the requests of the strand of a thread.
SegmentOf(t) == requested[t][segment[t]]

Asked(p) == SegmentOf(Task(p)).strands[strand[p]]

Tables ==
  /\ requested \in TaskPrograms
  /\ code = [t \in TaskIds |-> code[t]] /\ jobs = [t \in TaskIds |-> jobs[t]]
  /\ segment = [t \in TaskIds |-> segment[t]] /\ nextStrand = [t \in TaskIds |-> nextStrand[t]]
  /\ ran = [t \in TaskIds |-> ran[t]]
  /\ strand = [p \in Threads |-> strand[p]] /\ section = [p \in Threads |-> section[p]]

TaskWalk(t) ==
  /\ code[t] = <<>> \/ code[t] = CodeOf(t)
  /\ segment[t] \in 0 .. Len(requested[t]) /\ jobs[t] \in 0 .. NumJobs
  /\ segment[t] # 0 =>
       /\ code[t] = CodeOf(t) /\ jobs[t] < NumJobs
       /\ nextStrand[t] \in 1 .. Len(SegmentOf(t).strands) + 1

ThreadWalk(p) ==
  pc[p] # "idle" =>
    /\ strand[p] \in 1 .. nextStrand[Task(p)] - 1
    /\ section[p] \in 1 .. 2 * Len(Asked(p)) + 1
    /\ IF section[p] % 2 = 0 THEN resource[p] = Asked(p)[section[p] \div 2].res /\ pc[p] # "run"
       ELSE resource[p] = 0 /\ pc[p] = "run"

OneEach ==
  \A p, q \in Threads :
    p # q /\ Task(p) = Task(q) /\ pc[p] # "idle" /\ pc[q] # "idle" => strand[p] # strand[q]

WalkInv ==
  /\ Tables
  /\ \A t \in TaskIds : TaskWalk(t)
  /\ \A p \in Threads : ThreadWalk(p)
  /\ OneEach

\* Where section k of a strand begins.
Position(requests, length, k) ==
  IF k = 2 * Len(requests) + 2 THEN length
  ELSE IF k % 2 = 0 THEN requests[k \div 2].offset ELSE RequestEnd(requests, k \div 2)

AfterWork == {"out", "out_look", "out_count", "release"}

\* What a thread has yet to run of its strand.
Remaining(p) ==
  IF pc[p] = "idle" THEN 0
  ELSE SegmentOf(Task(p)).len -
       Position(Asked(p), SegmentOf(Task(p)).len, section[p] + (IF pc[p] \in AfterWork THEN 1 ELSE 0))

Rest(t) == SumFunction([p \in ThreadsOf(t) |-> Remaining(p)])

RanInv(t) ==
  /\ ran[t] \in Int
  /\ segment[t] # 0 =>
       ran[t] + Rest(t) = WorkUpTo(t, segment[t] - 1) + (nextStrand[t] - 1) * SegmentOf(t).len

\* Events: a request of a job, and its arrival or its completion.
Events(r) == (RequestsTo(r) \X (1 .. NumJobs)) \X {"in", "out"}

\* Thread p is past event x of request k of its strand.
Behind(p, k, x) ==
  \/ section[p] > 2 * k
  \/ section[p] = 2 * k /\ pc[p] \in IF x = "in" THEN Queued \cup {"release"} ELSE {"release"}

Past(t, g, j, k, n, x) ==
  \/ n <= jobs[t]
  \/ /\ n = jobs[t] + 1 /\ segment[t] # 0
     /\ \/ g < segment[t]
        \/ /\ g = segment[t] /\ j < nextStrand[t]
           /\ \A p \in ThreadsOf(t) : pc[p] # "idle" /\ strand[p] = j => Behind(p, k, x)

Happened(r) ==
  {e \in Events(r) : LET q == e[1][1] IN Past(q[1][1][1], q[1][1][2], q[1][2], q[2], e[1][2], e[2])}

CountedInv(r) ==
  nextEvent[r] = IF Cardinality(Happened(r)) < MaxEvents THEN Cardinality(Happened(r)) ELSE MaxEvents

StatFileInv ==
  statFile # <<>> => AllJobsDone /\ (\A t \in TaskIds : code[t] # <<>>) /\ FileIsComplete

RunInv ==
  IF program = "execute"
    THEN WalkInv /\ (\A t \in TaskIds : RanInv(t)) /\ (\A r \in ResourceIds : CountedInv(r)) /\ StatFileInv
    ELSE segment = <<>> /\ statFile = <<>>

-------------------------------------------------------------------------------
\* What the programs of a launch are.
LEMMA ProgramTyped ==
  ASSUME Tables, NEW t \in TaskIds
  PROVE  requested[t] \in Seq(ParallelSegment) /\ requested[t] # <<>>
BY SyntheticTaskSize, GeneratedPrograms DEF Tables, TaskIds

LEMMA SegmentTyped ==
  ASSUME Tables, NEW t \in TaskIds, NEW g \in 1 .. Len(requested[t])
  PROVE  /\ g \in DOMAIN requested[t]
         /\ requested[t][g].len \in 0 .. LongMod - 1
         /\ requested[t][g].strands \in Seq(Seq(CriticalSection))
<1>1. requested[t] \in Seq(ParallelSegment)
  BY ProgramTyped
<1>2. g \in DOMAIN requested[t] /\ requested[t][g] \in ParallelSegment
  BY <1>1
<1> QED
  BY <1>2 DEF ParallelSegment

LEMMA StrandTyped ==
  ASSUME Tables, NEW t \in TaskIds, NEW g \in 1 .. Len(requested[t]),
         NEW j \in 1 .. Len(requested[t][g].strands)
  PROVE  /\ j \in DOMAIN requested[t][g].strands
         /\ requested[t][g].strands[j] \in Seq(CriticalSection)
         /\ SectionsInOrder(requested[t][g].strands[j], requested[t][g].len)
<1>1. g \in DOMAIN requested[t] /\ requested[t][g].strands \in Seq(Seq(CriticalSection))
  BY SegmentTyped
<1>2. j \in DOMAIN requested[t][g].strands
  BY <1>1
<1>3. SectionsInOrder(requested[t][g].strands[j], requested[t][g].len)
  BY <1>1, <1>2, GeneratedPrograms, SyntheticTaskSize DEF Tables, TaskIds
<1> QED
  BY <1>1, <1>2, <1>3

\* The code of a task has a list of sections for each strand.
LEMMA CodeTyped ==
  ASSUME Tables, NEW t \in TaskIds, NEW g \in 1 .. Len(requested[t])
  PROVE  /\ g \in DOMAIN CodeOf(t) /\ Len(CodeOf(t)) = Len(requested[t])
         /\ Len(CodeOf(t)[g]) = Len(requested[t][g].strands)
         /\ DOMAIN CodeOf(t)[g] = 1 .. Len(requested[t][g].strands)
         /\ \A j \in 1 .. Len(requested[t][g].strands) :
              CodeOf(t)[g][j] = Sections(requested[t][g].strands[j], requested[t][g].len)
<1> DEFINE n == Len(requested[t])
           m == Len(requested[t][g].strands)
           D(h) == [j \in DOMAIN requested[t][h].strands |->
                      Sections(requested[t][h].strands[j], requested[t][h].len)]
<1>1. requested[t] \in Seq(ParallelSegment) /\ requested[t][g].strands \in Seq(Seq(CriticalSection))
  BY ProgramTyped, SegmentTyped
<1>2. n \in Nat /\ DOMAIN requested[t] = 1 .. n /\ m \in Nat /\ DOMAIN requested[t][g].strands = 1 .. m
  BY <1>1
<1>3. CodeOf(t) = [h \in 1 .. n |-> D(h)]
  BY <1>2 DEF CodeOf
<1>4. D(g) = [j \in 1 .. m |-> Sections(requested[t][g].strands[j], requested[t][g].len)]
  BY <1>2
<1> HIDE DEF D
<1>5. Len(CodeOf(t)) = n /\ g \in DOMAIN CodeOf(t) /\ CodeOf(t)[g] = D(g)
  BY <1>2, <1>3
<1>6. Len(D(g)) = m /\ DOMAIN D(g) = 1 .. m
  BY <1>2, <1>4
<1> QED
  BY <1>4, <1>5, <1>6

\* Half of an odd number.
LEMMA Halves == \A x \in Nat : (2 * x + 1) \div 2 = x /\ (2 * x) \div 2 = x /\ (2 * x) % 2 = 0
OBVIOUS

\* A section lasts from where it begins to where the next one does.
LEMMA SectionsAre ==
  ASSUME NEW requests \in Seq(CriticalSection), NEW length \in 0 .. LongMod - 1,
         SectionsInOrder(requests, length), NEW k \in 1 .. 2 * Len(requests) + 1
  PROVE  /\ DOMAIN Sections(requests, length) = 1 .. 2 * Len(requests) + 1
         /\ Sections(requests, length)[k].res = IF k % 2 = 0 THEN requests[k \div 2].res ELSE 0
         /\ Sections(requests, length)[k].len =
              Position(requests, length, k + 1) - Position(requests, length, k)
         /\ Position(requests, length, k) \in Int /\ Position(requests, length, k + 1) \in Int
         /\ k % 2 = 0 => k \div 2 \in DOMAIN requests /\ requests[k \div 2].res \in ResourceIds
<1> DEFINE n == Len(requests)
<1>1. n \in Nat /\ DOMAIN requests = 1 .. n
  OBVIOUS
<1>2. \A m \in 1 .. n : requests[m].offset \in Nat /\ requests[m].len \in Nat /\ requests[m].res \in ResourceIds
  <2>1. \A m \in 1 .. n : requests[m] \in CriticalSection
    OBVIOUS
  <2> QED
    BY <2>1 DEF CriticalSection
<1>3. \A m \in 0 .. n : RequestEnd(requests, m) \in Nat
  BY <1>1, <1>2 DEF RequestEnd
<1>4. \A m \in 1 .. n : RequestEnd(requests, m - 1) <= requests[m].offset
  BY <1>1 DEF SectionsInOrder
<1>5. RequestEnd(requests, n) <= length
  BY DEF SectionsInOrder
<1>6. \A m \in 1 .. n : RequestEnd(requests, m) = requests[m].offset + requests[m].len
  BY <1>1 DEF RequestEnd
<1>10. LongMod \in Nat \ {0}
  BY SyntheticTaskSize
<1>7. CASE k % 2 = 0
  <2>1. k \div 2 \in 1 .. n /\ (k + 1) \div 2 = k \div 2 /\ (k + 1) % 2 = 1 /\ k # 2 * n + 2 /\ k + 1 # 2 * n + 2
    BY <1>1, <1>7
  <2>2. Sections(requests, length)[k] = [res |-> requests[k \div 2].res, len |-> requests[k \div 2].len]
    BY <1>7 DEF Sections
  <2>3. Position(requests, length, k) = requests[k \div 2].offset
    BY <1>7, <2>1 DEF Position
  <2>4. Position(requests, length, k + 1) = RequestEnd(requests, k \div 2)
    BY <2>1 DEF Position
  <2>5. DOMAIN Sections(requests, length) = 1 .. 2 * n + 1
    BY DEF Sections
  <2>6. LET m == k \div 2
        IN  /\ requests[m].offset \in Nat /\ requests[m].len \in Nat /\ requests[m].res \in ResourceIds
            /\ RequestEnd(requests, m) = requests[m].offset + requests[m].len
    BY <1>2, <1>6, <2>1
  <2>7. Position(requests, length, k + 1) - Position(requests, length, k) = requests[k \div 2].len
    BY SMTT(30), <2>3, <2>4, <2>6
  <2> QED
    BY <1>1, <1>7, <2>1, <2>2, <2>3, <2>4, <2>5, <2>6, <2>7
<1>8. CASE k % 2 # 0 /\ k = 2 * n + 1
  <2>0. (2 * n + 1) \div 2 = n
    BY <1>1, Halves
  <2> HIDE DEF n
  <2>1. k \div 2 = n /\ k # 2 * n + 2 /\ k + 1 = 2 * n + 2
    <3>1. k = 2 * n + 1 /\ n \in Nat
      BY <1>1, <1>8
    <3> QED
      BY <2>0, <3>1
  <2> USE DEF n
  <2>2. Sections(requests, length)[k] = Normal(length - RequestEnd(requests, n))
    BY <1>8 DEF Sections
  <2>3. Position(requests, length, k) = RequestEnd(requests, n) /\ Position(requests, length, k + 1) = length
    BY <1>8, <2>1 DEF Position
  <2>4. RequestEnd(requests, n) \in Nat
    BY <1>1, <1>3
  <2>5. length - RequestEnd(requests, n) \in 0 .. LongMod - 1
    BY <1>5, <1>10, <2>4
  <2>6. (length - RequestEnd(requests, n)) % LongMod = length - RequestEnd(requests, n)
    BY <1>10, <2>5
  <2>7. Sections(requests, length)[k] = [res |-> 0, len |-> length - RequestEnd(requests, n)]
    BY <2>2, <2>6 DEF Normal
  <2>8. DOMAIN Sections(requests, length) = 1 .. 2 * n + 1
    BY DEF Sections
  <2> QED
    BY <1>8, <2>3, <2>4, <2>7, <2>8
<1>9. CASE k % 2 # 0 /\ k # 2 * n + 1
  <2> DEFINE m == (k + 1) \div 2
  <2>1. m \in 1 .. n /\ k \div 2 = m - 1 /\ k # 2 * n + 2 /\ k + 1 # 2 * n + 2 /\ (k + 1) % 2 = 0
    BY <1>1, <1>9
  <2> HIDE DEF m
  <2>2. Sections(requests, length)[k] = Normal(requests[m].offset - RequestEnd(requests, m - 1))
    BY <1>9, <2>1 DEF Sections, m
  <2>3. Position(requests, length, k) = RequestEnd(requests, m - 1)
    BY <1>9, <2>1 DEF Position
  <2>4. Position(requests, length, k + 1) = requests[m].offset
    BY <1>9, <2>1 DEF Position, m
  <2>5. RequestEnd(requests, m - 1) \in Nat /\ requests[m].offset \in Nat
    BY <1>1, <1>2, <1>3, <2>1
  <2>6. requests[m].offset <= length
    <3>1. \A a \in 1 .. n : requests[a].offset <= length
      <4> DEFINE S == {a \in Nat : a < n => requests[n - a].offset <= length}
      <4>1. 0 \in S
        BY <1>1, <1>2, <1>5, <1>6
      <4>2. ASSUME NEW a \in Nat, a \in S PROVE a + 1 \in S
        <5> SUFFICES ASSUME a + 1 < n PROVE requests[n - (a + 1)].offset <= length
          OBVIOUS
        <5>1. requests[n - a].offset <= length
          BY <1>1, <4>2
        <5>2. n - a \in 1 .. n /\ n - (a + 1) \in 1 .. n /\ (n - a) - 1 = n - (a + 1)
          BY <1>1
        <5> DEFINE b == n - (a + 1)
                   c == n - a
        <5>3. b \in 1 .. n /\ c \in 1 .. n /\ c - 1 = b /\ requests[c].offset <= length
          BY <5>1, <5>2
        <5> HIDE DEF b, c
        <5>4. RequestEnd(requests, b) <= requests[c].offset
          BY <1>4, <5>3
        <5>5. RequestEnd(requests, b) = requests[b].offset + requests[b].len
          BY <1>6, <5>3
        <5>6. requests[b].offset \in Nat /\ requests[b].len \in Nat /\ requests[c].offset \in Nat
          BY <1>2, <5>3
        <5>7. requests[b].offset <= length
          <6> length \in Int
            BY <1>10
          <6> QED
            BY SMTT(30), <5>3, <5>4, <5>5, <5>6
        <5> QED
          BY <5>7 DEF b
      <4> HIDE DEF S
      <4>3. Nat \subseteq S
        BY <4>1, <4>2, SetInduction
      <4> SUFFICES ASSUME NEW a \in 1 .. n PROVE requests[a].offset <= length
        OBVIOUS
      <4>4. n - a \in S /\ n - a < n /\ n - (n - a) = a
        BY <1>1, <4>3
      <4> QED
        BY <4>4 DEF S
    <3> QED
      BY <2>1, <3>1
  <2>7. requests[m].offset - RequestEnd(requests, m - 1) \in 0 .. LongMod - 1
    BY SMTT(30), <1>4, <1>10, <2>1, <2>5, <2>6
  <2>8. (requests[m].offset - RequestEnd(requests, m - 1)) % LongMod = requests[m].offset - RequestEnd(requests, m - 1)
    BY SMTT(30), <1>10, <2>7
  <2> QED
    BY <1>9, <2>2, <2>3, <2>4, <2>5, <2>8 DEF Sections, Normal
<1> QED
  BY <1>7, <1>8, <1>9

\* A strand begins at 0 and ends at its length.
LEMMA PositionEnds ==
  ASSUME NEW requests \in Seq(CriticalSection), NEW length
  PROVE  /\ Position(requests, length, 1) = 0
         /\ Position(requests, length, 2 * Len(requests) + 2) = length
<1>1. Len(requests) \in Nat
  OBVIOUS
<1>2. 1 # 2 * Len(requests) + 2 /\ 1 % 2 = 1 /\ 1 \div 2 = 0
  BY <1>1
<1> QED
  BY <1>2 DEF Position, RequestEnd

-------------------------------------------------------------------------------
\* Where a thread is that runs a strand.
LEMMA Located ==
  ASSUME ThreadType, WalkInv, NEW p \in Threads, pc[p] # "idle"
  PROVE  /\ Task(p) \in TaskIds /\ p \in ThreadsOf(Task(p))
         /\ segment[Task(p)] \in 1 .. Len(requested[Task(p)])
         /\ SegmentOf(Task(p)).len \in 0 .. LongMod - 1
         /\ strand[p] \in 1 .. Len(SegmentOf(Task(p)).strands)
         /\ Asked(p) \in Seq(CriticalSection)
         /\ SectionsInOrder(Asked(p), SegmentOf(Task(p)).len)
         /\ Strand(p) = Sections(Asked(p), SegmentOf(Task(p)).len)
         /\ section[p] \in 1 .. 2 * Len(Asked(p)) + 1
<1> DEFINE t == Task(p)
           g == segment[t]
<1>1. t \in TaskIds /\ p \in ThreadsOf(t)
  BY ThreadHasTask
<1>2. Tables /\ TaskWalk(t) /\ ThreadWalk(p)
  BY <1>1 DEF WalkInv
<1>3. g # 0
  BY DEF ThreadType
<1>4. g \in 1 .. Len(requested[t]) /\ code[t] = CodeOf(t)
      /\ nextStrand[t] \in 1 .. Len(SegmentOf(t).strands) + 1
  <2>1. Len(requested[t]) \in Nat
    BY <1>1, <1>2, ProgramTyped
  <2> QED
    BY <1>2, <1>3, <2>1 DEF TaskWalk
<1>5. SegmentOf(t) = requested[t][g] /\ SegmentOf(t).strands \in Seq(Seq(CriticalSection))
      /\ SegmentOf(t).len \in 0 .. LongMod - 1
  BY <1>1, <1>2, <1>4, SegmentTyped DEF SegmentOf
<1>6. strand[p] \in 1 .. Len(SegmentOf(t).strands)
  <2>1. Len(SegmentOf(t).strands) \in Nat
    BY <1>5
  <2>2. strand[p] \in 1 .. nextStrand[t] - 1
    BY <1>2 DEF ThreadWalk
  <2> QED
    BY <1>4, <2>1, <2>2
<1>7. Asked(p) \in Seq(CriticalSection) /\ SectionsInOrder(Asked(p), SegmentOf(t).len)
  BY <1>1, <1>2, <1>4, <1>5, <1>6, StrandTyped DEF Asked
<1>8. Strand(p) = Sections(Asked(p), SegmentOf(t).len)
  BY <1>1, <1>2, <1>4, <1>5, <1>6, CodeTyped DEF Strand, Asked
<1>9. section[p] \in 1 .. 2 * Len(Asked(p)) + 1
  BY <1>2 DEF ThreadWalk
<1> QED
  BY <1>1, <1>4, <1>5, <1>6, <1>7, <1>8, <1>9

\* Where a thread is that comes to a section.
LEMMA EnterSection ==
  ASSUME ThreadType, Tables, NEW p \in Threads, NEW requests \in Seq(CriticalSection),
         NEW length \in 0 .. LongMod - 1, SectionsInOrder(requests, length),
         NEW k \in 1 .. 2 * Len(requests) + 2, Enter(p, Sections(requests, length), k)
  PROVE  /\ \A q \in Threads \ {p} :
              pc'[q] = pc[q] /\ section'[q] = section[q] /\ resource'[q] = resource[q]
         /\ section' = [q \in Threads |-> section'[q]]
         /\ k = 2 * Len(requests) + 2 => pc'[p] = "idle"
         /\ k # 2 * Len(requests) + 2 =>
              /\ section'[p] = k
              /\ IF k % 2 = 0 THEN resource'[p] = requests[k \div 2].res /\ pc'[p] = "in"
                 ELSE resource'[p] = 0 /\ pc'[p] = "run"
<1> DEFINE s == Sections(requests, length)
           n == Len(requests)
<1>1. n \in Nat /\ DOMAIN s = 1 .. 2 * n + 1
  BY DEF Sections
<1>2. /\ section' = [section EXCEPT ![p] = IF k \in DOMAIN s THEN k ELSE 0]
      /\ resource' = [resource EXCEPT ![p] = IF k \in DOMAIN s THEN s[k].res ELSE 0]
      /\ pc' = [pc EXCEPT ![p] =
           IF k \notin DOMAIN s THEN "idle" ELSE IF s[k].res = 0 THEN "run" ELSE "in"]
  BY DEF Enter
<1>3. /\ pc = [q \in Threads |-> pc[q]] /\ resource = [q \in Threads |-> resource[q]]
      /\ section = [q \in Threads |-> section[q]]
  BY DEF ThreadType, Tables
<1> HIDE DEF s
<1>4. \A q \in Threads \ {p} : pc'[q] = pc[q] /\ section'[q] = section[q] /\ resource'[q] = resource[q]
  BY <1>2, <1>3
<1>5. section' = [q \in Threads |-> section'[q]]
  BY <1>2, <1>3
<1>6. k = 2 * n + 2 => pc'[p] = "idle"
  BY <1>1, <1>2, <1>3
<1>7. ASSUME k # 2 * n + 2
      PROVE  /\ section'[p] = k
             /\ IF k % 2 = 0 THEN resource'[p] = requests[k \div 2].res /\ pc'[p] = "in"
                ELSE resource'[p] = 0 /\ pc'[p] = "run"
  <2>1. k \in 1 .. 2 * n + 1
    BY <1>1, <1>7
  <2>2. section'[p] = k /\ resource'[p] = s[k].res /\ pc'[p] = IF s[k].res = 0 THEN "run" ELSE "in"
    BY <1>1, <1>2, <1>3, <2>1
  <2>3. /\ s[k].res = IF k % 2 = 0 THEN requests[k \div 2].res ELSE 0
        /\ k % 2 = 0 => requests[k \div 2].res \in ResourceIds
    BY <2>1, SectionsAre DEF s
  <2>4. 0 \notin ResourceIds
    BY SyntheticTaskSize DEF ResourceIds
  <2> QED
    BY <2>2, <2>3, <2>4
<1> QED
  BY <1>4, <1>5, <1>6, <1>7

\* A thread takes the next strand of its segment.
LEMMA TakeStrandWalk ==
  ASSUME ThreadType, WalkInv, NEW p \in Threads, TakeStrand(p)
  PROVE  /\ WalkInv'
         /\ segment[Task(p)] \in 1 .. Len(requested[Task(p)])
         /\ nextStrand[Task(p)] \in 1 .. Len(SegmentOf(Task(p)).strands)
         /\ nextStrand' = [nextStrand EXCEPT ![Task(p)] = nextStrand[Task(p)] + 1]
         /\ strand' = [strand EXCEPT ![p] = nextStrand[Task(p)]]
         /\ pc'[p] # "idle" /\ section'[p] = 1 /\ pc'[p] = "run"
         /\ \A q \in Threads \ {p} :
              pc'[q] = pc[q] /\ section'[q] = section[q] /\ strand'[q] = strand[q] /\ resource'[q] = resource[q]
<1> DEFINE t == Task(p)
           g == segment[t]
           j == nextStrand[t]
<1>1. t \in TaskIds /\ p \in ThreadsOf(t)
  BY ThreadHasTask
<1>2. Tables /\ TaskWalk(t)
  BY <1>1 DEF WalkInv
<1>3. /\ pc[p] = "idle" /\ g # 0 /\ j \in DOMAIN code[t][g]
      /\ nextStrand' = [nextStrand EXCEPT ![t] = j + 1]
      /\ strand' = [strand EXCEPT ![p] = j]
      /\ Enter(p, code[t][g][j], 1)
      /\ UNCHANGED <<requested, code, jobs, segment, ran>>
  BY DEF TakeStrand
<1>4. g \in 1 .. Len(requested[t]) /\ code[t] = CodeOf(t) /\ jobs[t] < NumJobs
  <2>1. Len(requested[t]) \in Nat
    BY <1>1, <1>2, ProgramTyped
  <2> QED
    BY <1>2, <1>3, <2>1 DEF TaskWalk
<1>5. SegmentOf(t) = requested[t][g] /\ SegmentOf(t).strands \in Seq(Seq(CriticalSection))
      /\ SegmentOf(t).len \in 0 .. LongMod - 1
  BY <1>1, <1>2, <1>4, SegmentTyped DEF SegmentOf
<1>6. j \in 1 .. Len(SegmentOf(t).strands)
  BY <1>1, <1>2, <1>3, <1>4, <1>5, CodeTyped
<1> DEFINE requests == SegmentOf(t).strands[j]
           length == SegmentOf(t).len
<1>7. requests \in Seq(CriticalSection) /\ SectionsInOrder(requests, length) /\ length \in 0 .. LongMod - 1
  BY <1>1, <1>2, <1>4, <1>5, <1>6, StrandTyped
<1>8. code[t][g][j] = Sections(requests, length)
  BY ZenonT(40), <1>1, <1>2, <1>4, <1>5, <1>6, CodeTyped
<1>9. Len(requests) \in Nat /\ 1 \in 1 .. 2 * Len(requests) + 2 /\ 1 # 2 * Len(requests) + 2
  BY <1>7
<1> HIDE DEF requests, length
<1>10. /\ \A q \in Threads \ {p} :
            pc'[q] = pc[q] /\ section'[q] = section[q] /\ resource'[q] = resource[q]
       /\ section' = [q \in Threads |-> section'[q]]
       /\ section'[p] = 1 /\ resource'[p] = 0 /\ pc'[p] = "run"
  <2>1. Enter(p, Sections(requests, length), 1)
    BY <1>3, <1>8
  <2>2. 1 % 2 # 0
    OBVIOUS
  <2> QED
    BY <1>2, <1>7, <1>9, <2>1, <2>2, EnterSection
<1>11. /\ strand'[p] = j /\ \A q \in Threads \ {p} : strand'[q] = strand[q]
       /\ strand' = [q \in Threads |-> strand'[q]]
       /\ nextStrand'[t] = j + 1 /\ \A u \in TaskIds \ {t} : nextStrand'[u] = nextStrand[u]
       /\ nextStrand' = [u \in TaskIds |-> nextStrand'[u]]
  BY <1>1, <1>2, <1>3 DEF Tables
<1>12. Tables'
  BY <1>2, <1>3, <1>10, <1>11 DEF Tables
<1>13. ASSUME NEW u \in TaskIds PROVE TaskWalk(u)'
  <2>1. TaskWalk(u)
    BY DEF WalkInv
  <2>2. CodeOf(u)' = CodeOf(u) /\ SegmentOf(u)' = SegmentOf(u)
    BY <1>3 DEF CodeOf, SegmentOf
  <2>3. CASE u = t
    <3>1. j + 1 \in 1 .. Len(SegmentOf(t).strands) + 1
      BY SMTT(30), <1>5, <1>6
    <3> QED
      BY <1>3, <1>11, <2>1, <2>2, <2>3, <3>1 DEF TaskWalk
  <2>4. CASE u # t
    BY <1>3, <1>11, <2>1, <2>2, <2>4 DEF TaskWalk
  <2> QED
    BY <2>3, <2>4
<1>14. ASSUME NEW q \in Threads PROVE ThreadWalk(q)'
  <2>0. SegmentOf(Task(q))' = SegmentOf(Task(q))
    BY <1>3 DEF SegmentOf
  <2>1. CASE q = p
    <3>1. Asked(p)' = requests
      BY <1>11, <2>0, <2>1 DEF Asked, requests
    <3>2. j \in 1 .. nextStrand'[t] - 1 /\ 1 \in 1 .. 2 * Len(requests) + 1 /\ 1 % 2 # 0
      BY <1>5, <1>6, <1>9, <1>11
    <3> QED
      BY <1>10, <1>11, <2>1, <3>1, <3>2 DEF ThreadWalk
  <2>2. CASE q # p
    <3>1. ThreadWalk(q)
      BY DEF WalkInv
    <3>2. Asked(q)' = Asked(q)
      BY <1>11, <2>0, <2>2 DEF Asked
    <3>3. Task(q) \in TaskIds
      BY ThreadHasTask
    <3>4. ASSUME strand[q] \in 1 .. nextStrand[Task(q)] - 1 PROVE strand[q] \in 1 .. nextStrand'[Task(q)] - 1
      <4>1. CASE Task(q) = t
        BY <1>5, <1>6, <1>11, <3>4, <4>1
      <4>2. CASE Task(q) # t
        BY <1>11, <3>3, <3>4, <4>2
      <4> QED
        BY <4>1, <4>2
    <3> QED
      BY <1>10, <1>11, <2>2, <3>1, <3>2, <3>4 DEF ThreadWalk
  <2> QED
    BY <2>1, <2>2
<1>15. OneEach'
  <2> SUFFICES ASSUME NEW a \in Threads, NEW b \in Threads, a # b, Task(a) = Task(b),
                      pc'[a] # "idle", pc'[b] # "idle"
               PROVE  strand'[a] # strand'[b]
    BY DEF OneEach
  <2>1. \A q \in Threads \ {p} : Task(q) = t /\ pc[q] # "idle" => strand[q] # j
    <3> SUFFICES ASSUME NEW q \in Threads \ {p}, Task(q) = t, pc[q] # "idle" PROVE strand[q] # j
      OBVIOUS
    <3>1. strand[q] \in 1 .. j - 1
      BY DEF WalkInv, ThreadWalk
    <3> QED
      BY <1>5, <1>6, <3>1
  <2>2. CASE a = p
    BY <1>10, <1>11, <2>1, <2>2
  <2>3. CASE b = p
    BY <1>10, <1>11, <2>1, <2>3
  <2>4. CASE a # p /\ b # p
    BY <1>10, <1>11, <2>4 DEF WalkInv, OneEach
  <2> QED
    BY <2>2, <2>3, <2>4
<1>16. WalkInv'
  BY <1>12, <1>13, <1>14, <1>15 DEF WalkInv
<1> QED
  BY <1>3, <1>4, <1>6, <1>10, <1>11, <1>16

\* A thread goes on to the next section of its strand, or has come to its end.
LEMMA NextSectionWalk ==
  ASSUME ThreadType, WalkInv, NEW p \in Threads, pc[p] # "idle",
         Enter(p, Strand(p), section[p] + 1),
         UNCHANGED <<requested, code, jobs, segment, nextStrand, strand>>,
         ran' = [t \in TaskIds |-> ran'[t]]
  PROVE  /\ WalkInv'
         /\ \A q \in Threads \ {p} : pc'[q] = pc[q] /\ section'[q] = section[q] /\ resource'[q] = resource[q]
         /\ section[p] = 2 * Len(Asked(p)) + 1 => pc'[p] = "idle"
         /\ section[p] # 2 * Len(Asked(p)) + 1 =>
              section'[p] = section[p] + 1 /\ pc'[p] = IF (section[p] + 1) % 2 = 0 THEN "in" ELSE "run"
<1> DEFINE t == Task(p)
           requests == Asked(p)
           length == SegmentOf(t).len
           k == section[p] + 1
<1>1. /\ t \in TaskIds /\ requests \in Seq(CriticalSection) /\ length \in 0 .. LongMod - 1
      /\ SectionsInOrder(requests, length) /\ Strand(p) = Sections(requests, length)
      /\ section[p] \in 1 .. 2 * Len(requests) + 1
  BY Located
<1>2. Tables /\ ThreadWalk(p)
  BY DEF WalkInv
<1>3. Len(requests) \in Nat /\ k \in 1 .. 2 * Len(requests) + 2
  BY <1>1
<1> HIDE DEF k, requests, length
<1>4. /\ \A q \in Threads \ {p} :
           pc'[q] = pc[q] /\ section'[q] = section[q] /\ resource'[q] = resource[q]
      /\ section' = [q \in Threads |-> section'[q]]
      /\ k = 2 * Len(requests) + 2 => pc'[p] = "idle"
      /\ k # 2 * Len(requests) + 2 =>
           /\ section'[p] = k
           /\ IF k % 2 = 0 THEN resource'[p] = requests[k \div 2].res /\ pc'[p] = "in"
              ELSE resource'[p] = 0 /\ pc'[p] = "run"
  <2>1. Enter(p, Sections(requests, length), k)
    BY <1>1 DEF k
  <2> QED
    BY <1>1, <1>2, <1>3, <2>1, EnterSection
<1>5. Tables'
  BY <1>2, <1>4 DEF Tables
<1>6. ASSUME NEW u \in TaskIds PROVE TaskWalk(u)'
  <2>1. CodeOf(u)' = CodeOf(u) /\ SegmentOf(u)' = SegmentOf(u) /\ TaskWalk(u)
    BY DEF CodeOf, SegmentOf, WalkInv
  <2> QED
    BY <2>1 DEF TaskWalk
<1>7. \A q \in Threads : Asked(q)' = Asked(q)
  BY DEF Asked, SegmentOf
<1>8. ASSUME NEW q \in Threads PROVE ThreadWalk(q)'
  <2>1. CASE q = p
    <3> SUFFICES ASSUME pc'[p] # "idle" PROVE ThreadWalk(p)'
      BY <2>1 DEF ThreadWalk
    <3>1. k # 2 * Len(requests) + 2 /\ k \in 1 .. 2 * Len(requests) + 1
      BY <1>3, <1>4
    <3>2. strand[p] \in 1 .. nextStrand[t] - 1
      BY <1>2 DEF ThreadWalk
    <3>3. Asked(p)' = requests
      BY <1>7 DEF requests
    <3> QED
      BY <1>4, <3>1, <3>2, <3>3 DEF ThreadWalk
  <2>2. CASE q # p
    <3>1. ThreadWalk(q)
      BY DEF WalkInv
    <3> QED
      BY <1>4, <1>7, <2>2, <3>1 DEF ThreadWalk
  <2> QED
    BY <2>1, <2>2
<1>9. OneEach'
  <2>1. \A q \in Threads : pc'[q] # "idle" => pc[q] # "idle"
    BY <1>4
  <2> QED
    BY <2>1 DEF WalkInv, OneEach
<1>10. WalkInv'
  BY <1>5, <1>6, <1>8, <1>9 DEF WalkInv
<1>11. (section[p] = 2 * Len(requests) + 1 <=> k = 2 * Len(requests) + 2) /\ k = section[p] + 1
  BY <1>1, <1>3 DEF k
<1> QED
  BY <1>4, <1>10, <1>11 DEF requests

\* A thread goes on within its critical section.
LEMMA MoveWalk ==
  ASSUME ThreadType, WalkInv, NEW p \in Threads, NEW next,
         pc[p] \notin {"idle", "run"}, next \notin {"idle", "run"}, pc' = [pc EXCEPT ![p] = next],
         UNCHANGED <<requested, code, jobs, segment, nextStrand, strand, section, resource>>,
         ran' = [t \in TaskIds |-> ran'[t]]
  PROVE  WalkInv'
<1>1. Tables'
  BY DEF WalkInv, Tables
<1>2. ASSUME NEW u \in TaskIds PROVE TaskWalk(u)'
  <2>1. CodeOf(u)' = CodeOf(u) /\ SegmentOf(u)' = SegmentOf(u) /\ TaskWalk(u)
    BY DEF CodeOf, SegmentOf, WalkInv
  <2> QED
    BY <2>1 DEF TaskWalk
<1>3. pc'[p] = next /\ \A q \in Threads \ {p} : pc'[q] = pc[q]
  BY DEF ThreadType
<1>4. ASSUME NEW q \in Threads PROVE ThreadWalk(q)'
  <2>1. ThreadWalk(q) /\ Asked(q)' = Asked(q)
    BY DEF WalkInv, Asked, SegmentOf
  <2> QED
    BY <1>3, <2>1 DEF ThreadWalk
<1>5. OneEach'
  <2>1. \A q \in Threads : pc'[q] # "idle" => pc[q] # "idle"
    BY <1>3
  <2> QED
    BY <2>1 DEF WalkInv, OneEach
<1> QED
  BY <1>1, <1>2, <1>4, <1>5 DEF WalkInv

\* A task is set up.
LEMMA InitTaskWalk ==
  ASSUME ThreadType, WalkInv, NEW t \in TaskIds, InitTask(t)
  PROVE  WalkInv' /\ segment[t] = 0
<1>1. /\ code[t] = <<>> /\ code' = [code EXCEPT ![t] = CodeOf(t)]
      /\ UNCHANGED <<locksType, requested, jobs, segment, nextStrand, ran, threadvars>>
  BY DEF InitTask, CodeOf
<1>2. UNCHANGED <<pc, strand, section, resource>>
  BY <1>1 DEF threadvars
<1>3. Tables'
  BY <1>1, <1>2 DEF WalkInv, Tables
<1>4. segment[t] = 0
  <2>1. requested[t] \in Seq(ParallelSegment) /\ requested[t] # <<>> /\ TaskWalk(t)
    BY ProgramTyped DEF WalkInv
  <2>2. SUFFICES ASSUME segment[t] # 0 PROVE FALSE
    OBVIOUS
  <2>3. segment[t] \in 1 .. Len(requested[t]) /\ code[t] = CodeOf(t)
    BY <2>1, <2>2 DEF TaskWalk
  <2>4. Len(CodeOf(t)) = Len(requested[t])
    BY <2>3, CodeTyped DEF WalkInv
  <2>5. Len(requested[t]) > 0
    BY <2>1, <2>3
  <2> QED
    BY <1>1, <2>3, <2>4, <2>5
<1>5. ASSUME NEW u \in TaskIds PROVE TaskWalk(u)'
  <2>1. CodeOf(u)' = CodeOf(u) /\ SegmentOf(u)' = SegmentOf(u) /\ TaskWalk(u)
    BY <1>1 DEF CodeOf, SegmentOf, WalkInv
  <2>2. code'[u] = IF u = t THEN CodeOf(t) ELSE code[u]
    BY SMTT(30), <1>1 DEF WalkInv, Tables
  <2> QED
    BY <1>1, <1>4, <2>1, <2>2 DEF TaskWalk
<1>6. \A q \in Threads : ThreadWalk(q)'
  BY <1>1, <1>2 DEF WalkInv, ThreadWalk, Asked, SegmentOf
<1>7. OneEach'
  BY <1>2 DEF WalkInv, OneEach
<1> QED
  BY <1>3, <1>4, <1>5, <1>6, <1>7 DEF WalkInv

\* No thread runs while a task has no segment, or has come to the end of one.
LEMMA TaskAtRest ==
  ASSUME ThreadType, WalkInv, NEW t \in TaskIds, segment[t] = 0 \/ SegmentDone(t)
  PROVE  \A p \in ThreadsOf(t) : p \in Threads /\ Task(p) = t /\ pc[p] = "idle"
<1> SUFFICES ASSUME NEW p \in ThreadsOf(t) PROVE p \in Threads /\ Task(p) = t /\ pc[p] = "idle"
  OBVIOUS
<1>1. p \in Threads /\ Task(p) = t
  BY DEF Threads, ThreadsOf, Task
<1> QED
  BY <1>1 DEF ThreadType, SegmentDone

\* A task at rest starts a job, or goes on to its next segment.
LEMMA NextSegmentWalk ==
  ASSUME ThreadType, WalkInv, NEW t \in TaskIds, segment[t] = 0 \/ SegmentDone(t),
         NEW g \in 0 .. Len(requested[t]), NEW n \in 0 .. NumJobs, g # 0 => code[t] = CodeOf(t) /\ n < NumJobs,
         segment' = [segment EXCEPT ![t] = g], jobs' = [jobs EXCEPT ![t] = n],
         nextStrand' = [nextStrand EXCEPT ![t] = 1],
         UNCHANGED <<requested, code, pc, strand, section, resource>>,
         ran' = [u \in TaskIds |-> ran'[u]]
  PROVE  /\ WalkInv' /\ segment'[t] = g /\ jobs'[t] = n /\ nextStrand'[t] = 1
         /\ \A u \in TaskIds \ {t} :
              segment'[u] = segment[u] /\ jobs'[u] = jobs[u] /\ nextStrand'[u] = nextStrand[u]
<1>1. Tables
  BY DEF WalkInv
<1>2. /\ segment'[t] = g /\ jobs'[t] = n /\ nextStrand'[t] = 1
      /\ \A u \in TaskIds \ {t} :
           segment'[u] = segment[u] /\ jobs'[u] = jobs[u] /\ nextStrand'[u] = nextStrand[u]
      /\ segment' = [u \in TaskIds |-> segment'[u]] /\ jobs' = [u \in TaskIds |-> jobs'[u]]
      /\ nextStrand' = [u \in TaskIds |-> nextStrand'[u]]
  BY <1>1 DEF Tables
<1>3. Tables'
  BY <1>1, <1>2 DEF Tables
<1>4. ASSUME NEW u \in TaskIds PROVE TaskWalk(u)'
  <2>1. CodeOf(u)' = CodeOf(u) /\ TaskWalk(u)
    BY DEF CodeOf, WalkInv
  <2>2. CASE u = t
    <3>1. ASSUME g # 0 PROVE 1 \in 1 .. Len(requested[t][g].strands) + 1
      <4>1. Len(requested[t]) \in Nat
        BY <1>1, ProgramTyped
      <4>2. requested[t][g].strands \in Seq(Seq(CriticalSection))
        BY <1>1, <3>1, <4>1, SegmentTyped
      <4>3. Len(requested[t][g].strands) \in Nat
        BY <4>2
      <4> QED
        BY <4>3
    <3>2. SegmentOf(t)' = requested[t][g]
      BY <1>2 DEF SegmentOf
    <3> QED
      BY <1>2, <2>1, <2>2, <3>1, <3>2 DEF TaskWalk
  <2>3. CASE u # t
    <3>1. SegmentOf(u)' = SegmentOf(u)
      BY <1>2, <2>3 DEF SegmentOf
    <3> QED
      BY <1>2, <2>1, <2>3, <3>1 DEF TaskWalk
  <2> QED
    BY <2>2, <2>3
<1>5. ASSUME NEW q \in Threads PROVE ThreadWalk(q)'
  <2>1. Task(q) \in TaskIds /\ q \in ThreadsOf(Task(q)) /\ ThreadWalk(q)
    BY ThreadHasTask DEF WalkInv
  <2>2. CASE Task(q) = t
    BY <2>1, <2>2, TaskAtRest DEF ThreadWalk
  <2>3. CASE Task(q) # t
    <3>1. Asked(q)' = Asked(q) /\ nextStrand'[Task(q)] = nextStrand[Task(q)]
      BY <1>2, <2>1, <2>3 DEF Asked, SegmentOf
    <3> QED
      BY <2>1, <3>1 DEF ThreadWalk
  <2> QED
    BY <2>2, <2>3
<1>6. OneEach'
  BY DEF WalkInv, OneEach
<1> QED
  BY <1>2, <1>3, <1>4, <1>5, <1>6 DEF WalkInv

\* The first segment of a job.
LEMMA StartJobWalk ==
  ASSUME ThreadType, WalkInv, NEW t \in TaskIds, StartJob(t)
  PROVE  /\ WalkInv' /\ segment[t] = 0 /\ segment'[t] = 1 /\ nextStrand'[t] = 1 /\ jobs' = jobs /\ ran'[t] = 0
         /\ \A u \in TaskIds \ {t} :
              segment'[u] = segment[u] /\ nextStrand'[u] = nextStrand[u] /\ ran'[u] = ran[u]
         /\ UNCHANGED <<requested, code, pc, strand, section, resource>>
<1>1. /\ code[t] # <<>> /\ segment[t] = 0 /\ jobs[t] < NumJobs
      /\ segment' = [segment EXCEPT ![t] = 1] /\ nextStrand' = [nextStrand EXCEPT ![t] = 1]
      /\ ran' = [ran EXCEPT ![t] = 0]
      /\ UNCHANGED <<requested, code, jobs, pc, strand, section, resource>>
  BY DEF StartJob, threadvars
<1>2. Tables /\ TaskWalk(t)
  BY DEF WalkInv
<1>3. 1 \in 0 .. Len(requested[t])
  <2>1. requested[t] \in Seq(ParallelSegment) /\ requested[t] # <<>>
    BY <1>2, ProgramTyped
  <2> QED
    BY <2>1
<1>4. code[t] = CodeOf(t) /\ jobs[t] \in 0 .. NumJobs
  BY <1>1, <1>2 DEF TaskWalk
<1>5. jobs' = [jobs EXCEPT ![t] = jobs[t]]
  BY <1>1, <1>2 DEF Tables
<1>6. ran' = [u \in TaskIds |-> ran'[u]] /\ ran'[t] = 0 /\ \A u \in TaskIds \ {t} : ran'[u] = ran[u]
  BY <1>1, <1>2 DEF Tables
<1>7. /\ WalkInv' /\ segment'[t] = 1 /\ nextStrand'[t] = 1
      /\ \A u \in TaskIds \ {t} : segment'[u] = segment[u] /\ nextStrand'[u] = nextStrand[u]
  <2> DEFINE n == jobs[t]
             g == 1
  <2>1. jobs' = [jobs EXCEPT ![t] = n] /\ n \in 0 .. NumJobs /\ n < NumJobs
    BY <1>1, <1>4, <1>5
  <2>2. UNCHANGED <<requested, code, pc, strand, section, resource>>
    BY <1>1
  <2>3. g \in 0 .. Len(requested[t]) /\ segment' = [segment EXCEPT ![t] = g]
    BY <1>1, <1>3
  <2> HIDE DEF n, g
  <2>4. /\ WalkInv' /\ segment'[t] = g /\ nextStrand'[t] = 1
        /\ \A u \in TaskIds \ {t} : segment'[u] = segment[u] /\ nextStrand'[u] = nextStrand[u]
    <3>1. segment[t] = 0 \/ SegmentDone(t)
      BY <1>1
    <3>2. g # 0 => code[t] = CodeOf(t) /\ n < NumJobs
      BY <1>4, <2>1
    <3>3. nextStrand' = [nextStrand EXCEPT ![t] = 1] /\ jobs' = [jobs EXCEPT ![t] = n]
      BY <1>1, <2>1
    <3>4. ran' = [u \in TaskIds |-> ran'[u]] /\ n \in 0 .. NumJobs
      BY <1>6, <2>1
    <3> QED
      BY <2>2, <2>3, <3>1, <3>2, <3>3, <3>4, NextSegmentWalk
  <2> QED
    BY <2>4 DEF g
<1> QED
  BY <1>1, <1>6, <1>7

\* The next segment, or the end of the job after the last one.
LEMMA EndSegmentWalk ==
  ASSUME ThreadType, WalkInv, NEW t \in TaskIds, EndSegment(t)
  PROVE  /\ WalkInv' /\ segment[t] \in 1 .. Len(requested[t]) /\ nextStrand'[t] = 1
         /\ nextStrand[t] = Len(SegmentOf(t).strands) + 1
         /\ IF segment[t] = Len(requested[t]) THEN segment'[t] = 0 /\ jobs'[t] = jobs[t] + 1
            ELSE segment'[t] = segment[t] + 1 /\ jobs'[t] = jobs[t]
         /\ \A u \in TaskIds \ {t} :
              segment'[u] = segment[u] /\ jobs'[u] = jobs[u] /\ nextStrand'[u] = nextStrand[u]
         /\ UNCHANGED <<requested, code, pc, strand, section, resource, ran>>
<1> DEFINE last == segment[t] = Len(code[t])
           g == IF last THEN 0 ELSE segment[t] + 1
           n == IF last THEN jobs[t] + 1 ELSE jobs[t]
<1>1. /\ SegmentDone(t) /\ segment[t] # 0 /\ nextStrand[t] > Len(code[t][segment[t]])
      /\ segment' = [segment EXCEPT ![t] = g] /\ jobs' = [jobs EXCEPT ![t] = n]
      /\ nextStrand' = [nextStrand EXCEPT ![t] = 1]
      /\ UNCHANGED <<requested, code, ran, pc, strand, section, resource>>
  BY DEF EndSegment, SegmentDone, threadvars
<1>2. Tables /\ TaskWalk(t)
  BY DEF WalkInv
<1>3. /\ segment[t] \in 1 .. Len(requested[t]) /\ code[t] = CodeOf(t) /\ jobs[t] \in 0 .. NumJobs
      /\ jobs[t] < NumJobs /\ Len(requested[t]) \in Nat /\ NumJobs \in Nat
      /\ nextStrand[t] \in 1 .. Len(SegmentOf(t).strands) + 1
  <2>1. Len(requested[t]) \in Nat
    BY <1>2, ProgramTyped
  <2> QED
    BY <1>1, <1>2, <2>1, SyntheticTaskSize DEF TaskWalk
<1>4. Len(code[t]) = Len(requested[t]) /\ Len(code[t][segment[t]]) = Len(SegmentOf(t).strands)
  BY ZenonT(40), <1>2, <1>3, CodeTyped DEF SegmentOf
<1>5. nextStrand[t] = Len(SegmentOf(t).strands) + 1
  <2>1. SegmentOf(t).strands \in Seq(Seq(CriticalSection))
    BY <1>2, <1>3, SegmentTyped DEF SegmentOf
  <2>2. Len(SegmentOf(t).strands) \in Nat
    BY <2>1
  <2> QED
    BY <1>1, <1>3, <1>4, <2>2
<1>6. g \in 0 .. Len(requested[t]) /\ n \in 0 .. NumJobs /\ (g # 0 => n < NumJobs)
  BY SMTT(30), <1>3, <1>4
<1>7. ran' = [u \in TaskIds |-> ran'[u]]
  BY <1>1, <1>2 DEF Tables
<1> HIDE DEF g, n
<1>8. /\ WalkInv' /\ segment'[t] = g /\ jobs'[t] = n /\ nextStrand'[t] = 1
      /\ \A u \in TaskIds \ {t} :
           segment'[u] = segment[u] /\ jobs'[u] = jobs[u] /\ nextStrand'[u] = nextStrand[u]
  BY <1>1, <1>3, <1>6, <1>7, NextSegmentWalk
<1> QED
  BY <1>1, <1>3, <1>4, <1>5, <1>8 DEF g, n

-------------------------------------------------------------------------------
\* What the threads of a task have yet to run, when one of them or none goes on.
LEMMA RestStep ==
  ASSUME NEW t \in TaskIds, NEW p \in ThreadsOf(t),
         \A q \in ThreadsOf(t) : Remaining(q) \in Int, Remaining(p)' \in Int,
         \A q \in ThreadsOf(t) \ {p} : Remaining(q)' = Remaining(q)
  PROVE  Rest(t)' = Rest(t) - Remaining(p) + Remaining(p)'
<1> DEFINE D == ThreadsOf(t)
           f == [q \in D |-> Remaining(q)]
           h == [q \in D |-> Remaining(q)']
<1>1. IsFiniteSet(D)
  BY ThreadsFinite, FS_Subset DEF Threads
<1>2. f \in [D -> Int] /\ h \in [D -> Int] /\ p \in D /\ \A q \in D \ {p} : h[q] = f[q]
  OBVIOUS
<1>3. f[p] = Remaining(p) /\ h[p] = Remaining(p)'
  OBVIOUS
<1>4. Rest(t) = SumFunction(f) /\ Rest(t)' = SumFunction(h)
  BY DEF Rest
<1> HIDE DEF D, f, h
<1>5. SumFunction(h) = SumFunction(f) - f[p] + h[p]
  BY <1>1, <1>2, FunSumChange
<1> QED
  BY <1>3, <1>4, <1>5

LEMMA RestSame ==
  ASSUME NEW t, \A q \in ThreadsOf(t) : Remaining(q)' = Remaining(q)
  PROVE  Rest(t)' = Rest(t)
<1>1. [q \in ThreadsOf(t) |-> Remaining(q)'] = [q \in ThreadsOf(t) |-> Remaining(q)]
  OBVIOUS
<1> QED
  BY <1>1 DEF Rest

LEMMA RestInt ==
  ASSUME NEW t \in TaskIds, \A q \in ThreadsOf(t) : Remaining(q) \in Int
  PROVE  Rest(t) \in Int
<1>1. IsFiniteSet(ThreadsOf(t))
  BY ThreadsFinite, FS_Subset DEF Threads
<1>2. [q \in ThreadsOf(t) |-> Remaining(q)] \in [ThreadsOf(t) -> Int]
  OBVIOUS
<1> QED
  BY <1>1, <1>2, FunSumInt DEF Rest

\* A task at rest has nothing left of the strands that it has taken.
LEMMA RestZero ==
  ASSUME NEW t \in TaskIds, \A q \in ThreadsOf(t) : pc[q] = "idle"
  PROVE  Rest(t) = 0
<1> DEFINE f == [q \in ThreadsOf(t) |-> Remaining(q)]
<1>1. IsFiniteSet(ThreadsOf(t))
  BY ThreadsFinite, FS_Subset DEF Threads
<1>2. DOMAIN f = ThreadsOf(t) /\ Rest(t) = SumFunction(f) /\ \A q \in ThreadsOf(t) : f[q] = 0
  BY DEF Remaining, Rest
<1> HIDE DEF f
<1>3. SumFunctionOnSet(f, ThreadsOf(t)) = 0
  BY <1>1, <1>2, SumZero
<1> QED
  BY <1>2, <1>3 DEF SumFunction

LEMMA RemainingInt ==
  ASSUME ThreadType, WalkInv, NEW p \in Threads
  PROVE  Remaining(p) \in Int
<1>1. CASE pc[p] = "idle"
  BY <1>1 DEF Remaining
<1>2. CASE pc[p] # "idle"
  <2> DEFINE length == SegmentOf(Task(p)).len
             requests == Asked(p)
  <2>1. /\ length \in 0 .. LongMod - 1 /\ requests \in Seq(CriticalSection)
        /\ SectionsInOrder(requests, length) /\ section[p] \in 1 .. 2 * Len(requests) + 1
    BY <1>2, Located
  <2> HIDE DEF length, requests
  <2>2. /\ Position(requests, length, section[p]) \in Int
        /\ Position(requests, length, section[p] + 1) \in Int
    BY <2>1, SectionsAre
  <2>3. section[p] + 0 = section[p] /\ length \in Int
    BY <2>1, SyntheticTaskSize
  <2>4. Remaining(p) = length - Position(requests, length, section[p] + (IF pc[p] \in AfterWork THEN 1 ELSE 0))
    BY <1>2 DEF Remaining, length, requests
  <2>5. CASE pc[p] \in AfterWork
    BY <2>2, <2>3, <2>4, <2>5
  <2>6. CASE pc[p] \notin AfterWork
    BY <2>2, <2>3, <2>4, <2>6
  <2> QED
    BY <2>5, <2>6
<1> QED
  BY <1>1, <1>2

LEMMA RemainingSame ==
  ASSUME NEW q, requested' = requested, segment'[Task(q)] = segment[Task(q)], pc'[q] = pc[q],
         pc[q] # "idle" => strand'[q] = strand[q] /\ section'[q] = section[q]
  PROVE  Remaining(q)' = Remaining(q)
BY DEF Remaining, SegmentOf, Asked

\* The work of a segment is that of all its strands.
LEMMA WorkNext ==
  ASSUME Tables, NEW t \in TaskIds, NEW g \in 1 .. Len(requested[t])
  PROVE  /\ WorkUpTo(t, g - 1) \in Int
         /\ WorkUpTo(t, g) = WorkUpTo(t, g - 1) + requested[t][g].len * Len(requested[t][g].strands)
<1> DEFINE w(k) == requested[t][k].len * Len(requested[t][k].strands)
           f == [k \in 1 .. g - 1 |-> w(k)]
           h == [k \in 1 .. g |-> w(k)]
<1>1. Len(requested[t]) \in Nat /\ LongMod \in Nat
  BY ProgramTyped, SyntheticTaskSize
<1>2. \A k \in 1 .. Len(requested[t]) : w(k) \in Int
  <2> SUFFICES ASSUME NEW k \in 1 .. Len(requested[t]) PROVE w(k) \in Int
    OBVIOUS
  <2>1. requested[t][k].len \in Int /\ Len(requested[t][k].strands) \in Int
    BY <1>1, SegmentTyped
  <2> QED
    BY <2>1
<1>3. WorkUpTo(t, g - 1) = SumFunction(f) /\ WorkUpTo(t, g) = SumFunction(h)
  BY DEF WorkUpTo
<1> HIDE DEF w
<1>4. g - 1 \in Nat /\ (g - 1) + 1 = g
  BY <1>1
<1>5. f \in [1 .. g - 1 -> Int] /\ h \in [1 .. g -> Int] /\ h[g] = w(g) /\ \A k \in 1 .. g - 1 : h[k] = f[k]
  BY <1>1, <1>2
<1> HIDE DEF f, h
<1>6. h \in [1 .. (g - 1) + 1 -> Int] /\ h[(g - 1) + 1] = w(g)
  BY <1>4, <1>5
<1>7. SumFunction(h) = SumFunction(f) + h[(g - 1) + 1]
  BY <1>4, <1>5, <1>6, SumAppend
<1>8. SumFunction(f) \in Int
  BY <1>4, <1>5, FS_Interval, FunSumInt
<1> QED
  BY <1>3, <1>6, <1>7, <1>8 DEF w

LEMMA WorkNone == \A t : WorkUpTo(t, 0) = 0
<1> SUFFICES ASSUME NEW t PROVE WorkUpTo(t, 0) = 0
  OBVIOUS
<1> DEFINE f == [k \in 1 .. 0 |-> requested[t][k].len * Len(requested[t][k].strands)]
<1>1. DOMAIN f = {} /\ WorkUpTo(t, 0) = SumFunction(f)
  BY DEF WorkUpTo
<1> HIDE DEF f
<1> QED
  BY <1>1, SumEmpty DEF SumFunction

\* A task that does not go on.
LEMMA OtherRan ==
  ASSUME NEW u \in TaskIds, RanInv(u), requested' = requested, segment'[u] = segment[u],
         nextStrand'[u] = nextStrand[u], ran'[u] = ran[u],
         \A q \in ThreadsOf(u) : pc'[q] = pc[q] /\ strand'[q] = strand[q] /\ section'[q] = section[q]
  PROVE  RanInv(u)'
<1>1. \A q \in ThreadsOf(u) : Remaining(q)' = Remaining(q)
  <2>1. \A q \in ThreadsOf(u) : Task(q) = u
    BY DEF ThreadsOf, Task
  <2> QED
    BY <2>1, RemainingSame
<1>2. Rest(u)' = Rest(u)
  BY <1>1, RestSame
<1>3. SegmentOf(u)' = SegmentOf(u) /\ WorkUpTo(u, segment[u] - 1)' = WorkUpTo(u, segment[u] - 1)
  BY DEF SegmentOf, WorkUpTo
<1> QED
  BY <1>2, <1>3 DEF RanInv

\* Of a thread of the task, what it runs is what less remains.
LEMMA ThreadRan ==
  ASSUME ThreadType, WalkInv, NEW p \in Threads, RanInv(Task(p)), requested' = requested,
         segment' = segment, segment[Task(p)] # 0, NEW more \in Int, NEW taken \in {0, 1},
         ran'[Task(p)] = ran[Task(p)] + more,
         nextStrand'[Task(p)] = nextStrand[Task(p)] + taken,
         Remaining(p)' = Remaining(p) + taken * SegmentOf(Task(p)).len - more,
         \A q \in Threads \ {p} : pc'[q] = pc[q] /\ strand'[q] = strand[q] /\ section'[q] = section[q]
  PROVE  RanInv(Task(p))'
<1> DEFINE t == Task(p)
           length == SegmentOf(t).len
           before == WorkUpTo(t, segment[t] - 1)
           n == nextStrand[t]
<1>1. t \in TaskIds /\ p \in ThreadsOf(t) /\ ThreadsOf(t) \subseteq Threads
  BY ThreadHasTask DEF Threads
<1>2. Tables /\ TaskWalk(t)
  BY <1>1 DEF WalkInv
<1>3. segment[t] \in 1 .. Len(requested[t])
  <2>1. Len(requested[t]) \in Nat
    BY <1>1, <1>2, ProgramTyped
  <2> QED
    BY <1>2, <2>1 DEF TaskWalk
<1>4. length \in Int /\ n \in Int /\ before \in Int
  <2>1. length \in 0 .. LongMod - 1 /\ SegmentOf(t).strands \in Seq(Seq(CriticalSection))
    BY <1>1, <1>2, <1>3, SegmentTyped DEF SegmentOf
  <2>2. n \in 1 .. Len(SegmentOf(t).strands) + 1 /\ Len(SegmentOf(t).strands) \in Nat
    BY <1>2, <2>1 DEF TaskWalk
  <2>3. before \in Int
    BY <1>1, <1>2, <1>3, WorkNext
  <2> QED
    BY <2>1, <2>2, <2>3, SyntheticTaskSize
<1>5. \A q \in ThreadsOf(t) : Remaining(q) \in Int
  BY <1>1, RemainingInt
<1>6. \A q \in ThreadsOf(t) \ {p} : Remaining(q)' = Remaining(q)
  BY <1>1, RemainingSame
<1>7. Rest(t) \in Int
  BY <1>1, <1>5, RestInt
<1>8. Remaining(p) \in Int /\ taken * length \in Int
  BY <1>1, <1>4, <1>5
<1>9. Remaining(p)' \in Int
  BY <1>8
<1>10. Rest(t)' = Rest(t) - Remaining(p) + Remaining(p)'
  BY <1>1, <1>5, <1>6, <1>9, RestStep
<1>11. ran[t] + Rest(t) = before + (n - 1) * length
  BY DEF RanInv
<1>12. SegmentOf(t)' = SegmentOf(t) /\ WorkUpTo(t, segment[t] - 1)' = before
  BY DEF SegmentOf, WorkUpTo
<1>15. ran[t] \in Int /\ ran'[t] \in Int
  BY DEF RanInv
<1>13. ran'[t] + Rest(t)' = before + (nextStrand'[t] - 1) * length
  <2>1. ran'[t] + Rest(t)' = ran[t] + Rest(t) + taken * length
    BY <1>7, <1>8, <1>10, <1>15
  <2>2. CASE taken = 0
    BY <1>4, <1>11, <1>15, <2>1, <2>2
  <2>3. CASE taken = 1
    <3>1. (n + 1 - 1) * length = (n - 1) * length + length
      BY <1>4
    <3>2. (n - 1) * length \in Int
      BY <1>4
    <3> QED
      BY <1>4, <1>11, <2>1, <2>3, <3>1, <3>2
  <2> QED
    BY <2>2, <2>3
<1>14. segment'[t] = segment[t]
  OBVIOUS
<1> HIDE DEF before, length
<1> QED
  BY <1>12, <1>13, <1>14, <1>15 DEF RanInv, length

\* Where a thread within a critical section goes.
LEMMA Moves ==
  ASSUME Running, NEW p \in Threads,
         SpinLock(p) \/ DropEvent(p) \/ WriteEvent(p) \/ CountEvent(p) \/ Request(p) \/ Granted(p) \/ RunCritical(p)
  PROVE  /\ pc[p] \notin {"idle", "run"}
         /\ \E next \in Places \ {"idle", "run"} :
              /\ pc' = [pc EXCEPT ![p] = next]
              /\ ~ RunCritical(p) => (next \in AfterWork <=> pc[p] \in AfterWork)
         /\ UNCHANGED <<requested, code, jobs, segment, nextStrand, strand, section, resource>>
         /\ ~ RunCritical(p) => ran' = ran
<1>1. UNCHANGED <<requested, code, jobs, segment, nextStrand, strand, section, resource>>
  BY DEF SpinLock, DropEvent, WriteEvent, CountEvent, Request, Granted, RunCritical, taskvars
<1>2. ~ RunCritical(p) => ran' = ran
  BY DEF SpinLock, DropEvent, WriteEvent, CountEvent, Request, Granted, taskvars
<1>3. /\ pc[p] \notin {"idle", "run"}
      /\ \E next \in Places \ {"idle", "run"} :
           /\ pc' = [pc EXCEPT ![p] = next]
           /\ ~ RunCritical(p) => (next \in AfterWork <=> pc[p] \in AfterWork)
  <2> DEFINE Goes(from, to) == pc[p] = from /\ pc' = [pc EXCEPT ![p] = to]
  <2>1. \/ Goes("in", "in_look") \/ Goes("out", "out_look")
        \/ Goes("in_look", "request") \/ Goes("out_look", "release")
        \/ Goes("in_look", "in_count") \/ Goes("out_look", "out_count")
        \/ Goes("in_count", "request") \/ Goes("out_count", "release")
        \/ Goes("request", "wait") \/ Goes("wait", "busy")
        \/ RunCritical(p) /\ Goes("busy", "out")
    BY DEF SpinLock, DropEvent, WriteEvent, CountEvent, Request, Granted, RunCritical, SpinUnlock, Arriving, Goto
  <2>2. Places = {"idle", "run", "in", "release", "in_look", "in_count", "out_look", "out_count",
                  "request", "wait", "busy", "out"}
    BY DEF Places, Locked, Queued
  <2>3. ASSUME NEW from, NEW to, Goes(from, to), from \notin {"idle", "run"}, to \in Places \ {"idle", "run"},
               RunCritical(p) \/ (to \in AfterWork <=> from \in AfterWork)
        PROVE  /\ pc[p] \notin {"idle", "run"}
               /\ \E next \in Places \ {"idle", "run"} :
                    /\ pc' = [pc EXCEPT ![p] = next]
                    /\ ~ RunCritical(p) => (next \in AfterWork <=> pc[p] \in AfterWork)
    BY <2>3
  <2> HIDE DEF Goes
  <2> QED
    BY <2>1, <2>2, <2>3 DEF AfterWork
<1> QED
  BY <1>1, <1>2, <1>3

\* What the work is after a step of a thread.
LEMMA RunSectionRan ==
  ASSUME ThreadType, WalkInv, NEW p \in Threads, RanInv(Task(p)), RunSection(p)
  PROVE  WalkInv' /\ RanInv(Task(p))'
<1> DEFINE t == Task(p)
           length == SegmentOf(t).len
           requests == Asked(p)
           k == section[p]
           more == Strand(p)[k].len
<1>1. /\ pc[p] = "run" /\ ran' = [ran EXCEPT ![t] = ran[t] + more]
      /\ Enter(p, Strand(p), k + 1)
      /\ UNCHANGED <<requested, code, jobs, segment, nextStrand, strand>>
  BY DEF RunSection, BusyWork
<1>2. /\ t \in TaskIds /\ segment[t] \in 1 .. Len(requested[t]) /\ length \in 0 .. LongMod - 1
      /\ requests \in Seq(CriticalSection) /\ SectionsInOrder(requests, length)
      /\ Strand(p) = Sections(requests, length) /\ k \in 1 .. 2 * Len(requests) + 1
  BY <1>1, Located
<1>3. Tables /\ ran = [u \in TaskIds |-> ran[u]] /\ ThreadWalk(p)
  BY DEF WalkInv, Tables
<1>4. ran' = [u \in TaskIds |-> ran'[u]] /\ ran'[t] = ran[t] + more
  BY <1>1, <1>2, <1>3
<1>5. /\ WalkInv'
      /\ \A q \in Threads \ {p} : pc'[q] = pc[q] /\ section'[q] = section[q]
      /\ k = 2 * Len(requests) + 1 => pc'[p] = "idle"
      /\ k # 2 * Len(requests) + 1 =>
           section'[p] = k + 1 /\ pc'[p] = IF (k + 1) % 2 = 0 THEN "in" ELSE "run"
  BY <1>1, <1>4, NextSectionWalk
<1>6. /\ more = Position(requests, length, k + 1) - Position(requests, length, k)
      /\ Position(requests, length, k) \in Int /\ Position(requests, length, k + 1) \in Int
  BY SMTT(30), <1>2, SectionsAre
<1>7. Asked(p)' = requests /\ SegmentOf(t)' = SegmentOf(t)
  BY <1>1 DEF Asked, SegmentOf
<1>8. length \in Int /\ k \in Int /\ Len(requests) \in Nat
  BY <1>2, SyntheticTaskSize
<1>9. Remaining(p) = length - Position(requests, length, k)
  <2>1. "run" \notin AfterWork
    BY DEF AfterWork
  <2> QED
    BY <1>1, <1>8, <2>1 DEF Remaining
<1>10. Remaining(p)' = length - Position(requests, length, k + 1)
  <2>1. CASE k = 2 * Len(requests) + 1
    <3>1. Position(requests, length, k + 1) = length
      BY <1>2, <1>8, <2>1, PositionEnds
    <3>2. Remaining(p)' = 0
      BY <1>5, <2>1 DEF Remaining
    <3> QED
      BY <1>8, <3>1, <3>2
  <2>2. CASE k # 2 * Len(requests) + 1
    <3>1. pc'[p] \notin AfterWork /\ pc'[p] # "idle"
      BY <1>5, <2>2 DEF AfterWork
    <3>2. (k + 1) + 0 = k + 1
      BY <1>8
    <3> QED
      BY <1>5, <1>7, <2>2, <3>1, <3>2 DEF Remaining
  <2> QED
    BY <2>1, <2>2
<1> HIDE DEF length, requests, k, more
<1>11. more \in Int /\ Remaining(p)' = Remaining(p) + 0 * length - more
  BY <1>6, <1>8, <1>9, <1>10
<1>12. nextStrand'[t] = nextStrand[t] + 0
  <2>1. nextStrand[t] \in Int
    <3>1. SegmentOf(t).strands \in Seq(Seq(CriticalSection))
      BY <1>2, <1>3, SegmentTyped DEF SegmentOf
    <3>2. Len(SegmentOf(t).strands) \in Nat
      BY <3>1
    <3>3. nextStrand[t] \in 1 .. Len(SegmentOf(t).strands) + 1
      BY <1>1, <1>2 DEF WalkInv, TaskWalk, ThreadType
    <3> QED
      BY <3>2, <3>3
  <2> QED
    BY <1>1, <2>1
<1>13. RanInv(t)'
  <2>1. ran'[t] = ran[t] + more /\ requested' = requested /\ segment' = segment
    BY <1>1, <1>4
  <2>2. segment[t] # 0
    BY <1>2
  <2>3. \A q \in Threads \ {p} : pc'[q] = pc[q] /\ strand'[q] = strand[q] /\ section'[q] = section[q]
    BY <1>1, <1>5
  <2> QED
    BY <1>11, <1>12, <2>1, <2>2, <2>3, ThreadRan DEF length
<1> QED
  BY <1>5, <1>13

LEMMA NextStrandInt ==
  ASSUME ThreadType, WalkInv, NEW t \in TaskIds, segment[t] # 0
  PROVE  nextStrand[t] \in Int /\ segment[t] \in 1 .. Len(requested[t]) /\ SegmentOf(t).len \in Int
<1>1. Tables /\ TaskWalk(t)
  BY DEF WalkInv
<1>2. segment[t] \in 1 .. Len(requested[t])
  <2>1. Len(requested[t]) \in Nat
    BY <1>1, ProgramTyped
  <2> QED
    BY <1>1, <2>1 DEF TaskWalk
<1>3. SegmentOf(t).strands \in Seq(Seq(CriticalSection)) /\ SegmentOf(t).len \in 0 .. LongMod - 1
  BY <1>1, <1>2, SegmentTyped DEF SegmentOf
<1>4. Len(SegmentOf(t).strands) \in Nat
  BY <1>3
<1>5. nextStrand[t] \in 1 .. Len(SegmentOf(t).strands) + 1
  BY <1>1 DEF TaskWalk
<1> QED
  BY <1>2, <1>3, <1>4, <1>5, SyntheticTaskSize

LEMMA RunCriticalRan ==
  ASSUME Running, WalkInv, NEW p \in Threads, RanInv(Task(p)), RunCritical(p)
  PROVE  WalkInv' /\ RanInv(Task(p))'
<1> DEFINE t == Task(p)
           length == SegmentOf(t).len
           requests == Asked(p)
           k == section[p]
           more == Strand(p)[k].len
<1>1. /\ pc[p] = "busy" /\ ran' = [ran EXCEPT ![t] = ran[t] + more] /\ pc' = [pc EXCEPT ![p] = "out"]
      /\ UNCHANGED <<requested, code, jobs, segment, nextStrand, strand, section, resource>>
  BY DEF RunCritical, BusyWork, Goto
<1>0. ThreadType
  BY DEF Running
<1>2. /\ t \in TaskIds /\ segment[t] \in 1 .. Len(requested[t]) /\ length \in 0 .. LongMod - 1
      /\ requests \in Seq(CriticalSection) /\ SectionsInOrder(requests, length)
      /\ Strand(p) = Sections(requests, length) /\ k \in 1 .. 2 * Len(requests) + 1
  BY <1>0, <1>1, Located
<1>3. ran = [u \in TaskIds |-> ran[u]]
  BY DEF WalkInv, Tables
<1>4. ran' = [u \in TaskIds |-> ran'[u]] /\ ran'[t] = ran[t] + more
  BY <1>1, <1>2, <1>3
<1>5. WalkInv' /\ pc'[p] = "out" /\ \A q \in Threads \ {p} : pc'[q] = pc[q]
  <2>1. WalkInv'
    BY <1>0, <1>1, <1>4, MoveWalk
  <2> QED
    BY <1>0, <1>1, <2>1 DEF ThreadType
<1>6. /\ more = Position(requests, length, k + 1) - Position(requests, length, k)
      /\ Position(requests, length, k) \in Int /\ Position(requests, length, k + 1) \in Int
  BY <1>2, SectionsAre
<1>7. Asked(p)' = requests /\ SegmentOf(t)' = SegmentOf(t)
  BY <1>1 DEF Asked, SegmentOf
<1>8. length \in Int /\ k \in Int /\ k + 0 = k
  BY <1>2, SyntheticTaskSize
<1>9. Remaining(p) = length - Position(requests, length, k)
  <2>1. "busy" \notin AfterWork
    BY DEF AfterWork
  <2> QED
    BY <1>1, <1>8, <2>1 DEF Remaining
<1>10. Remaining(p)' = length - Position(requests, length, k + 1)
  <2>1. "out" \in AfterWork /\ section'[p] = k
    BY <1>1 DEF AfterWork
  <2> QED
    BY <1>5, <1>7, <2>1 DEF Remaining
<1> HIDE DEF length, requests, k, more
<1>11. more \in Int /\ Remaining(p)' = Remaining(p) + 0 * length - more
  BY <1>6, <1>8, <1>9, <1>10
<1>12. segment[t] # 0 /\ nextStrand'[t] = nextStrand[t] + 0
  BY <1>0, <1>1, <1>2, NextStrandInt
<1>13. \A q \in Threads \ {p} : pc'[q] = pc[q] /\ strand'[q] = strand[q] /\ section'[q] = section[q]
  BY <1>1, <1>5
<1>14. requested' = requested /\ segment' = segment
  BY <1>1
<1>15. RanInv(t)'
  BY <1>0, <1>4, <1>11, <1>12, <1>13, <1>14, ThreadRan DEF length
<1> QED
  BY <1>5, <1>15

LEMMA UnlockRan ==
  ASSUME ThreadType, WalkInv, NEW p \in Threads, RanInv(Task(p)), Unlock(p)
  PROVE  /\ WalkInv' /\ RanInv(Task(p))'
         /\ section[p] % 2 = 0 /\ pc'[p] = "run" /\ section'[p] = section[p] + 1
         /\ UNCHANGED <<requested, jobs, segment, nextStrand, strand>>
         /\ \A q \in Threads \ {p} : pc'[q] = pc[q] /\ section'[q] = section[q]
<1> DEFINE t == Task(p)
           length == SegmentOf(t).len
           requests == Asked(p)
           k == section[p]
<1>1. /\ pc[p] = "release" /\ Enter(p, Strand(p), k + 1)
      /\ UNCHANGED <<requested, code, jobs, segment, nextStrand, strand, ran>>
  BY DEF Unlock, taskvars
<1>2. /\ t \in TaskIds /\ segment[t] \in 1 .. Len(requested[t]) /\ length \in 0 .. LongMod - 1
      /\ requests \in Seq(CriticalSection) /\ SectionsInOrder(requests, length)
      /\ k \in 1 .. 2 * Len(requests) + 1
  BY <1>1, Located
<1>3. Tables /\ ThreadWalk(p)
  BY DEF WalkInv
<1>4. k % 2 = 0 /\ k # 2 * Len(requests) + 1 /\ (k + 1) % 2 # 0 /\ k \in Int
  <2>1. k % 2 = 0
    BY <1>1, <1>3 DEF ThreadWalk
  <2>2. Len(requests) \in Nat
    BY <1>2
  <2> QED
    BY <1>2, <2>1, <2>2
<1>5. /\ WalkInv'
      /\ \A q \in Threads \ {p} : pc'[q] = pc[q] /\ section'[q] = section[q]
      /\ section'[p] = k + 1 /\ pc'[p] = "run"
  <2>1. ran' = [u \in TaskIds |-> ran'[u]]
    BY <1>1, <1>3 DEF Tables
  <2> QED
    BY <1>1, <1>4, <2>1, NextSectionWalk
<1>6. Position(requests, length, k + 1) \in Int
  BY <1>2, SectionsAre
<1>7. Asked(p)' = requests /\ SegmentOf(t)' = SegmentOf(t)
  BY <1>1 DEF Asked, SegmentOf
<1>8. length \in Int /\ (k + 1) + 0 = k + 1
  BY <1>2, <1>4, SyntheticTaskSize
<1>9. Remaining(p) = length - Position(requests, length, k + 1)
  <2>1. "release" \in AfterWork
    BY DEF AfterWork
  <2> QED
    BY <1>1, <2>1 DEF Remaining
<1>10. Remaining(p)' = length - Position(requests, length, k + 1)
  <2>1. "run" \notin AfterWork
    BY DEF AfterWork
  <2> QED
    BY <1>5, <1>7, <1>8, <2>1 DEF Remaining
<1> HIDE DEF length, requests, k
<1>11. Remaining(p)' = Remaining(p) + 0 * length - 0
  BY <1>6, <1>8, <1>9, <1>10
<1>12. segment[t] # 0 /\ nextStrand'[t] = nextStrand[t] + 0 /\ ran'[t] = ran[t] + 0
  <2>1. ran[t] \in Int
    BY DEF RanInv
  <2> QED
    BY <1>1, <1>2, <2>1, NextStrandInt
<1>13. \A q \in Threads \ {p} : pc'[q] = pc[q] /\ strand'[q] = strand[q] /\ section'[q] = section[q]
  BY <1>1, <1>5
<1>14. requested' = requested /\ segment' = segment
  BY <1>1
<1>15. RanInv(t)'
  BY <1>11, <1>12, <1>13, <1>14, ThreadRan DEF length
<1> QED
  BY <1>1, <1>4, <1>5, <1>15 DEF k

LEMMA TakeStrandRan ==
  ASSUME ThreadType, WalkInv, NEW p \in Threads, RanInv(Task(p)), TakeStrand(p)
  PROVE  RanInv(Task(p))'
<1> DEFINE t == Task(p)
           length == SegmentOf(t).len
           j == nextStrand[t]
           requests == SegmentOf(t).strands[j]
<1>1. /\ pc[p] = "idle" /\ segment[t] # 0
      /\ UNCHANGED <<requested, code, jobs, segment, ran>>
  BY DEF TakeStrand
<1>2. /\ segment[t] \in 1 .. Len(requested[t]) /\ j \in 1 .. Len(SegmentOf(t).strands)
      /\ nextStrand' = [nextStrand EXCEPT ![t] = j + 1] /\ strand' = [strand EXCEPT ![p] = j]
      /\ section'[p] = 1 /\ pc'[p] = "run"
      /\ \A q \in Threads \ {p} : pc'[q] = pc[q] /\ section'[q] = section[q] /\ strand'[q] = strand[q]
  BY TakeStrandWalk
<1>3. Tables /\ t \in TaskIds
  BY ThreadHasTask DEF WalkInv
<1>4. requests \in Seq(CriticalSection) /\ length \in Int
  BY <1>1, <1>2, <1>3, StrandTyped, NextStrandInt DEF SegmentOf
<1>5. strand'[p] = j /\ nextStrand'[t] = j + 1
  BY <1>2, <1>3 DEF Tables
<1>6. Remaining(p) = 0
  BY <1>1 DEF Remaining
<1>7. Remaining(p)' = length
  <2>1. SegmentOf(t)' = SegmentOf(t)
    BY <1>1 DEF SegmentOf
  <2>2. Asked(p)' = requests
    BY <1>5, <2>1 DEF Asked
  <2>3. "run" \notin AfterWork
    BY DEF AfterWork
  <2>4. Remaining(p)' = length - Position(requests, length, 1)
    BY <1>2, <2>1, <2>2, <2>3 DEF Remaining
  <2>5. Position(requests, length, 1) = 0
    BY <1>4, PositionEnds
  <2> QED
    BY <1>4, <2>4, <2>5
<1> HIDE DEF length, requests, j
<1>8. Remaining(p)' = Remaining(p) + 1 * length - 0
  BY <1>4, <1>6, <1>7
<1>9. ran'[t] = ran[t] + 0
  BY <1>1 DEF RanInv
<1>10. nextStrand'[t] = nextStrand[t] + 1
  BY <1>5 DEF j
<1>11. \A q \in Threads \ {p} : pc'[q] = pc[q] /\ strand'[q] = strand[q] /\ section'[q] = section[q]
  BY <1>2
<1>12. segment[t] # 0 /\ requested' = requested /\ segment' = segment
  BY <1>1
<1> QED
  BY <1>8, <1>9, <1>10, <1>11, <1>12, ThreadRan DEF length

\* The other steps of a thread leave the work that is done and what remains.
LEMMA MoveRan ==
  ASSUME Running, WalkInv, NEW p \in Threads, RanInv(Task(p)),
         SpinLock(p) \/ DropEvent(p) \/ WriteEvent(p) \/ CountEvent(p) \/ Request(p) \/ Granted(p)
  PROVE  WalkInv' /\ RanInv(Task(p))' /\ ran' = ran
<1> DEFINE t == Task(p)
<1>1. ~ RunCritical(p)
  BY DEF RunCritical, SpinLock, DropEvent, WriteEvent, CountEvent, Request, Granted
<1>2. PICK next \in Places \ {"idle", "run"} :
        /\ pc' = [pc EXCEPT ![p] = next]
        /\ next \in AfterWork <=> pc[p] \in AfterWork
  BY <1>1, Moves
<1>3. /\ pc[p] \notin {"idle", "run"} /\ ran' = ran
      /\ UNCHANGED <<requested, code, jobs, segment, nextStrand, strand, section, resource>>
  BY <1>1, Moves
<1>4. WalkInv'
  <2>1. ran' = [u \in TaskIds |-> ran'[u]] /\ ThreadType
    BY <1>3 DEF WalkInv, Tables, Running
  <2> QED
    BY <1>2, <1>3, <2>1, MoveWalk
<1>5. pc'[p] = next /\ \A q \in Threads \ {p} : pc'[q] = pc[q]
  BY <1>2 DEF Running, ThreadType
<1>6. Remaining(p)' = Remaining(p)
  <2>1. Asked(p)' = Asked(p) /\ SegmentOf(t)' = SegmentOf(t)
    BY <1>3 DEF Asked, SegmentOf
  <2>2. (pc[p] \in AfterWork <=> pc'[p] \in AfterWork) /\ pc[p] # "idle" /\ pc'[p] # "idle"
    BY <1>2, <1>3, <1>5
  <2> QED
    BY <1>3, <2>1, <2>2 DEF Remaining
<1>7. Remaining(p) \in Int /\ SegmentOf(t).len \in Int /\ segment[t] # 0 /\ nextStrand[t] \in Int
  <2>1. t \in TaskIds /\ segment[t] # 0 /\ ThreadType
    BY <1>3, ThreadHasTask DEF Running, ThreadType
  <2> QED
    BY <2>1, RemainingInt, NextStrandInt
<1>8. Remaining(p)' = Remaining(p) + 0 * SegmentOf(t).len - 0 /\ nextStrand'[t] = nextStrand[t] + 0
  BY <1>3, <1>6, <1>7
<1>9. ran'[t] = ran[t] + 0
  BY <1>3 DEF RanInv
<1>10. \A q \in Threads \ {p} : pc'[q] = pc[q] /\ strand'[q] = strand[q] /\ section'[q] = section[q]
  BY <1>3, <1>5
<1>11. requested' = requested /\ segment' = segment /\ ThreadType
  BY <1>3 DEF Running
<1>12. RanInv(t)'
  BY <1>7, <1>8, <1>9, <1>10, <1>11, ThreadRan
<1> QED
  BY <1>3, <1>4, <1>12

\* Every step of a thread keeps where all threads are and what they have run.
LEMMA ThreadStepRan ==
  ASSUME Running, WalkInv, \A t \in TaskIds : RanInv(t), NEW p \in Threads, ThreadStep(p)
  PROVE  WalkInv' /\ \A t \in TaskIds : RanInv(t)'
<1>1. ThreadType /\ Task(p) \in TaskIds
  BY ThreadHasTask DEF Running
<1>2. WalkInv' /\ RanInv(Task(p))'
  <2>1. CASE TakeStrand(p)
    BY <1>1, <2>1, TakeStrandWalk, TakeStrandRan
  <2>2. CASE RunSection(p)
    BY <1>1, <2>2, RunSectionRan
  <2>3. CASE RunCritical(p)
    BY <1>1, <2>3, RunCriticalRan
  <2>4. CASE Unlock(p)
    BY <1>1, <2>4, UnlockRan
  <2>5. CASE SpinLock(p) \/ DropEvent(p) \/ WriteEvent(p) \/ CountEvent(p) \/ Request(p) \/ Granted(p)
    BY <1>1, <2>5, MoveRan
  <2> QED
    BY <2>1, <2>2, <2>3, <2>4, <2>5 DEF ThreadStep
<1>3. ASSUME NEW u \in TaskIds, u # Task(p) PROVE RanInv(u)'
  <2>1. \A q \in ThreadsOf(u) : q \in Threads /\ Task(q) = u
    BY DEF Threads, ThreadsOf, Task
  <2>2. \A q \in ThreadsOf(u) : q \in Threads \ {p}
    BY <1>3, <2>1
  <2>3. requested' = requested /\ segment' = segment /\ ran'[u] = ran[u] /\ nextStrand'[u] = nextStrand[u]
        /\ \A q \in Threads \ {p} : pc'[q] = pc[q] /\ strand'[q] = strand[q] /\ section'[q] = section[q]
    <3>0. Tables
      BY DEF WalkInv
    <3>1. CASE TakeStrand(p)
      <4>1. /\ nextStrand' = [nextStrand EXCEPT ![Task(p)] = nextStrand[Task(p)] + 1]
            /\ \A q \in Threads \ {p} : pc'[q] = pc[q] /\ section'[q] = section[q] /\ strand'[q] = strand[q]
        BY <1>1, <3>1, TakeStrandWalk
      <4>2. UNCHANGED <<requested, segment, ran>>
        BY <3>1 DEF TakeStrand
      <4> QED
        BY <1>1, <1>3, <3>0, <4>1, <4>2 DEF Tables
    <3>2. CASE RunSection(p) \/ Unlock(p)
      <4>1. /\ Enter(p, Strand(p), section[p] + 1)
            /\ UNCHANGED <<requested, segment, nextStrand, strand>>
            /\ ran' = ran \/ \E x : ran' = [ran EXCEPT ![Task(p)] = x]
        BY <3>2 DEF RunSection, Unlock, BusyWork, taskvars
      <4>2. \A q \in Threads \ {p} : pc'[q] = pc[q] /\ section'[q] = section[q]
        BY <1>1, <3>0, <4>1 DEF Enter, ThreadType, Tables
      <4>3. ran'[u] = ran[u]
        BY <1>3, <3>0, <4>1 DEF Tables
      <4> QED
        BY <4>1, <4>2, <4>3
    <3>3. CASE ~ (TakeStrand(p) \/ RunSection(p) \/ Unlock(p))
      <4>0. SpinLock(p) \/ DropEvent(p) \/ WriteEvent(p) \/ CountEvent(p) \/ Request(p) \/ Granted(p) \/ RunCritical(p)
        BY <3>3 DEF ThreadStep
      <4>1. /\ UNCHANGED <<requested, segment, nextStrand, strand, section>>
            /\ \E next : pc' = [pc EXCEPT ![p] = next]
        BY <4>0, Moves
      <4>2. \A q \in Threads \ {p} : pc'[q] = pc[q]
        BY <1>1, <4>1 DEF ThreadType
      <4>3. ran'[u] = ran[u]
        <5>1. CASE RunCritical(p)
          <6>1. \E x : ran' = [ran EXCEPT ![Task(p)] = x]
            BY <5>1 DEF RunCritical, BusyWork
          <6> QED
            BY <1>3, <3>0, <6>1 DEF Tables
        <5>2. CASE ~ RunCritical(p)
          BY <4>0, <5>2, Moves
        <5> QED
          BY <5>1, <5>2
      <4> QED
        BY <4>1, <4>2, <4>3
    <3> QED
      BY <3>1, <3>2, <3>3
  <2>4. RanInv(u)
    OBVIOUS
  <2>5. segment'[u] = segment[u]
    BY <2>3
  <2> QED
    BY <2>2, <2>3, <2>4, <2>5, OtherRan
<1> QED
  BY <1>2, <1>3

\* So does every step of a task.
LEMMA TaskStepRan ==
  ASSUME ThreadType, WalkInv, \A t \in TaskIds : RanInv(t), NEW t \in TaskIds,
         InitTask(t) \/ StartJob(t) \/ EndSegment(t)
  PROVE  WalkInv' /\ \A u \in TaskIds : RanInv(u)'
<1>1. CASE InitTask(t)
  <2>1. WalkInv'
    BY <1>1, InitTaskWalk
  <2>2. UNCHANGED <<requested, segment, nextStrand, ran, pc, strand, section>>
    BY <1>1 DEF InitTask, threadvars
  <2>3. \A u \in TaskIds : RanInv(u)'
    BY <2>2, OtherRan
  <2> QED
    BY <2>1, <2>3
<1>2. CASE StartJob(t)
  <2>1. /\ WalkInv' /\ segment[t] = 0 /\ segment'[t] = 1 /\ nextStrand'[t] = 1 /\ ran'[t] = 0
        /\ \A u \in TaskIds \ {t} :
             segment'[u] = segment[u] /\ nextStrand'[u] = nextStrand[u] /\ ran'[u] = ran[u]
        /\ UNCHANGED <<requested, code, pc, strand, section, resource>>
    BY <1>2, StartJobWalk
  <2>2. \A u \in TaskIds \ {t} : RanInv(u)'
    BY <2>1, OtherRan
  <2>3. RanInv(t)'
    <3>1. \A q \in ThreadsOf(t) : pc'[q] = "idle"
      BY <2>1, TaskAtRest
    <3>2. \A q \in ThreadsOf(t) : Remaining(q)' = 0
      BY <3>1 DEF Remaining
    <3>3. Rest(t)' = 0
      <4>1. Rest(t) = 0
        BY <2>1, TaskAtRest, RestZero
      <4>2. \A q \in ThreadsOf(t) : Remaining(q)' = Remaining(q)
        BY <2>1, <3>2, TaskAtRest DEF Remaining
      <4> QED
        BY <4>1, <4>2, RestSame
    <3>4. WorkUpTo(t, segment[t] - 1)' = 0
      <4>1. WorkUpTo(t, 0)' = WorkUpTo(t, 0)
        BY <2>1 DEF WorkUpTo
      <4>2. segment'[t] - 1 = 0
        BY <2>1
      <4>3. WorkUpTo(t, segment[t] - 1)' = WorkUpTo(t, 0)'
        BY <4>2 DEF WorkUpTo
      <4> QED
        BY <4>1, <4>3, WorkNone
    <3>5. SegmentOf(t)'.len \in Int
      <4>1. Tables /\ 1 \in 1 .. Len(requested[t])
        <5>1. requested[t] \in Seq(ParallelSegment) /\ requested[t] # <<>>
          BY ProgramTyped DEF WalkInv
        <5> QED
          BY <5>1 DEF WalkInv
      <4>2. SegmentOf(t)' = requested[t][1]
        BY <2>1 DEF SegmentOf
      <4> QED
        BY <4>1, <4>2, SegmentTyped, SyntheticTaskSize
    <3>6. 0 + Rest(t)' = 0 + (1 - 1) * SegmentOf(t)'.len
      BY <3>3, <3>5
    <3> QED
      BY <2>1, <3>4, <3>6 DEF RanInv
  <2> QED
    BY <2>1, <2>2, <2>3
<1>3. CASE EndSegment(t)
  <2>1. /\ WalkInv' /\ segment[t] \in 1 .. Len(requested[t]) /\ nextStrand'[t] = 1
        /\ nextStrand[t] = Len(SegmentOf(t).strands) + 1
        /\ IF segment[t] = Len(requested[t]) THEN segment'[t] = 0
           ELSE segment'[t] = segment[t] + 1
        /\ \A u \in TaskIds \ {t} :
             segment'[u] = segment[u] /\ nextStrand'[u] = nextStrand[u]
        /\ UNCHANGED <<requested, pc, strand, section, ran>>
    BY <1>3, EndSegmentWalk
  <2>2. \A u \in TaskIds \ {t} : RanInv(u)'
    BY <2>1, OtherRan
  <2>3. RanInv(t)'
    <3>1. CASE segment'[t] = 0
      BY <2>1, <3>1 DEF RanInv
    <3>2. CASE segment'[t] # 0
      <4> DEFINE g == segment[t]
                 n == Len(SegmentOf(t).strands)
                 length == SegmentOf(t).len
      <4>1. SegmentDone(t)
        BY <1>3 DEF EndSegment
      <4>2. Tables /\ g # 0 /\ segment'[t] = g + 1 /\ g + 1 \in 1 .. Len(requested[t])
        <5>1. Len(requested[t]) \in Nat /\ Tables
          BY ProgramTyped DEF WalkInv
        <5> QED
          BY <2>1, <3>2, <5>1
      <4>3. Rest(t) = 0
        BY <4>1, TaskAtRest, RestZero
      <4>4. \A q \in ThreadsOf(t) : pc[q] = "idle" /\ pc'[q] = "idle"
        BY <2>1, <4>1, TaskAtRest
      <4>5. \A q \in ThreadsOf(t) : Remaining(q)' = Remaining(q)
        BY <4>4 DEF Remaining
      <4>6. Rest(t)' = 0
        BY <4>3, <4>5, RestSame
      <4>7. /\ WorkUpTo(t, g - 1) \in Int
            /\ WorkUpTo(t, g) = WorkUpTo(t, g - 1) + length * n
        BY <2>1, <4>2, WorkNext DEF SegmentOf
      <4>8. length \in Int /\ n \in Nat
        <5>1. length \in 0 .. LongMod - 1 /\ SegmentOf(t).strands \in Seq(Seq(CriticalSection))
          BY <2>1, <4>2, SegmentTyped DEF SegmentOf
        <5> QED
          BY <5>1, SyntheticTaskSize
      <4>9. ran[t] \in Int /\ ran[t] + 0 = WorkUpTo(t, g - 1) + (n + 1 - 1) * length
        BY SMTT(30), <2>1, <4>2, <4>3 DEF RanInv
      <4>10. WorkUpTo(t, segment[t] - 1)' = WorkUpTo(t, g)
        <5>1. segment'[t] - 1 = g
          BY <2>1, <4>2
        <5> QED
          BY <2>1, <5>1 DEF WorkUpTo
      <4>11. SegmentOf(t)'.len \in Int
        <5>1. SegmentOf(t)' = requested[t][g + 1]
          BY <2>1, <4>2 DEF SegmentOf
        <5> QED
          BY <4>2, <5>1, SegmentTyped, SyntheticTaskSize
      <4>12. (1 - 1) * SegmentOf(t)'.len = 0
        BY <4>11
      <4> HIDE DEF g, n, length
      <4>13. ran[t] = WorkUpTo(t, g)
        <5>1. (n + 1 - 1) * length = length * n /\ length * n \in Int
          BY <4>8
        <5> QED
          BY <4>7, <4>9, <5>1
      <4>14. ran'[t] + Rest(t)' = WorkUpTo(t, g) + (1 - 1) * SegmentOf(t)'.len
        BY <2>1, <4>6, <4>9, <4>12, <4>13
      <4> QED
        BY <2>1, <4>9, <4>10, <4>14 DEF RanInv
    <3> QED
      BY <3>1, <3>2
  <2> QED
    BY <2>1, <2>2, <2>3
<1> QED
  BY <1>1, <1>2, <1>3

\* A segment that is done has been run in full.
LEMMA RanIsWork ==
  ASSUME ThreadType, WalkInv, \A t \in TaskIds : RanInv(t)
  PROVE  WorkIsRun
<1> SUFFICES ASSUME NEW t \in TaskIds, SegmentDone(t) PROVE ran[t] = WorkUpTo(t, segment[t])
  BY DEF WorkIsRun, ThreadType
<1> DEFINE g == segment[t]
           n == Len(SegmentOf(t).strands)
           length == SegmentOf(t).len
<1>1. Tables /\ TaskWalk(t) /\ g # 0 /\ nextStrand[t] > Len(code[t][g])
  BY DEF WalkInv, SegmentDone
<1>2. g \in 1 .. Len(requested[t]) /\ length \in Int
  BY <1>1, NextStrandInt
<1>3. n \in Nat
  <2>1. SegmentOf(t).strands \in Seq(Seq(CriticalSection))
    BY <1>1, <1>2, SegmentTyped DEF SegmentOf
  <2> QED
    BY <2>1
<1>4. nextStrand[t] = n + 1
  <2>1. code[t] = CodeOf(t) /\ nextStrand[t] \in 1 .. n + 1
    BY <1>1 DEF TaskWalk
  <2>2. Len(code[t][g]) = n
    BY <1>1, <1>2, <2>1, CodeTyped DEF SegmentOf
  <2> QED
    BY <1>1, <1>3, <2>1, <2>2
<1>5. Rest(t) = 0
  BY TaskAtRest, RestZero
<1>6. ran[t] \in Int /\ ran[t] + 0 = WorkUpTo(t, g - 1) + (n + 1 - 1) * length
  BY <1>1, <1>4, <1>5 DEF RanInv
<1>7. WorkUpTo(t, g - 1) \in Int /\ WorkUpTo(t, g) = WorkUpTo(t, g - 1) + length * n
  BY <1>1, <1>2, WorkNext DEF SegmentOf
<1> HIDE DEF g, n, length
<1>8. (n + 1 - 1) * length = length * n /\ length * n \in Int
  BY <1>2, <1>3
<1>9. ran[t] = WorkUpTo(t, g)
  BY <1>6, <1>7, <1>8
<1> QED
  BY <1>9 DEF g

-------------------------------------------------------------------------------
\* The requests that a launch makes, and what becomes of them.
EventOf(t, g, j, k, n, x) == <<<<<<<<<<t, g>>, j>>, k>>, n>>, x>>

LEMMA EventTyped ==
  ASSUME Tables, NEW r \in ResourceIds, NEW e \in Events(r)
  PROVE  \E t \in TaskIds : \E g \in 1 .. Len(requested[t]) :
           \E j \in 1 .. Len(requested[t][g].strands) :
             \E k \in 1 .. Len(requested[t][g].strands[j]) :
               \E n \in 1 .. NumJobs : \E x \in {"in", "out"} :
                 e = EventOf(t, g, j, k, n, x)
<1>1. PICK q \in RequestsTo(r) : \E n \in 1 .. NumJobs : \E x \in {"in", "out"} : e = <<<<q, n>>, x>>
  BY DEF Events
<1>2. PICK n \in 1 .. NumJobs : \E x \in {"in", "out"} : e = <<<<q, n>>, x>>
  BY <1>1
<1>3. PICK x \in {"in", "out"} : e = <<<<q, n>>, x>>
  BY <1>2
<1>4. q \in AllRequests
  BY DEF RequestsTo
<1>5. PICK s \in StrandsRequested : q \in {s} \X DOMAIN RequestsOf(s)
  BY <1>4 DEF AllRequests
<1>6. PICK k \in DOMAIN RequestsOf(s) : q = <<s, k>>
  BY <1>5
<1>7. PICK u \in SegmentsRequested : s \in {u} \X DOMAIN requested[u[1]][u[2]].strands
  BY DEF StrandsRequested
<1>8. PICK j \in DOMAIN requested[u[1]][u[2]].strands : s = <<u, j>>
  BY <1>7
<1>9. PICK t \in TaskIds : u \in {t} \X DOMAIN requested[t]
  BY DEF SegmentsRequested
<1>10. PICK g \in DOMAIN requested[t] : u = <<t, g>>
  BY <1>9
<1>11. j \in DOMAIN requested[t][g].strands /\ s = <<<<t, g>>, j>>
  BY <1>8, <1>10
<1>12. RequestsOf(s) = requested[t][g].strands[j]
  BY <1>11 DEF RequestsOf
<1>13. k \in DOMAIN requested[t][g].strands[j] /\ q = <<<<<<t, g>>, j>>, k>>
  BY <1>6, <1>11, <1>12
<1>15. g \in 1 .. Len(requested[t])
  <2>1. requested[t] \in Seq(ParallelSegment)
    BY ProgramTyped
  <2> QED
    BY <1>10, <2>1
<1>16. j \in 1 .. Len(requested[t][g].strands)
  <2>1. requested[t][g].strands \in Seq(Seq(CriticalSection))
    BY <1>15, SegmentTyped
  <2> QED
    BY <1>11, <2>1
<1>17. k \in 1 .. Len(requested[t][g].strands[j])
  <2>1. requested[t][g].strands[j] \in Seq(CriticalSection)
    BY <1>15, <1>16, StrandTyped
  <2> QED
    BY <1>13, <2>1
<1>18. e = EventOf(t, g, j, k, n, x)
  BY <1>3, <1>13 DEF EventOf
<1> QED
  BY <1>15, <1>16, <1>17, <1>18

LEMMA EventExists ==
  ASSUME Tables, NEW t \in TaskIds, NEW g \in 1 .. Len(requested[t]),
         NEW j \in 1 .. Len(requested[t][g].strands),
         NEW k \in 1 .. Len(requested[t][g].strands[j]),
         NEW n \in 1 .. NumJobs, NEW x \in {"in", "out"}, NEW r \in ResourceIds
  PROVE  EventOf(t, g, j, k, n, x) \in Events(r) <=> requested[t][g].strands[j][k].res = r
<1> DEFINE u == <<t, g>>
           s == <<u, j>>
           q == <<s, k>>
<1>1. u \in SegmentsRequested
  <2>1. g \in DOMAIN requested[t]
    BY SegmentTyped
  <2> QED
    BY <2>1 DEF SegmentsRequested
<1>2. s \in StrandsRequested
  <2>1. j \in DOMAIN requested[t][g].strands
    BY StrandTyped
  <2>2. s \in {u} \X DOMAIN requested[u[1]][u[2]].strands
    BY <2>1
  <2> HIDE DEF s, u
  <2> QED
    BY <1>1, <2>2 DEF StrandsRequested
<1>3. RequestsOf(s) = requested[t][g].strands[j]
  BY DEF RequestsOf
<1>4. q \in AllRequests
  <2>1. requested[t][g].strands[j] \in Seq(CriticalSection)
    BY StrandTyped
  <2>2. q \in {s} \X DOMAIN RequestsOf(s)
    BY <1>3, <2>1
  <2> HIDE DEF q, s
  <2> QED
    BY <1>2, <2>2 DEF AllRequests
<1>5. q \in RequestsTo(r) <=> requested[t][g].strands[j][k].res = r
  <2>1. q[1] = s /\ q[2] = k
    OBVIOUS
  <2> HIDE DEF q, s
  <2> QED
    BY <1>3, <1>4, <2>1 DEF RequestsTo
<1>6. EventOf(t, g, j, k, n, x) = <<<<q, n>>, x>>
  BY DEF EventOf
<1> HIDE DEF q
<1> QED
  BY <1>5, <1>6 DEF Events

LEMMA HappenedOf ==
  ASSUME NEW t, NEW g, NEW j, NEW k, NEW n, NEW x, NEW r
  PROVE  EventOf(t, g, j, k, n, x) \in Happened(r) <=>
           EventOf(t, g, j, k, n, x) \in Events(r) /\ Past(t, g, j, k, n, x)
BY DEF Happened, EventOf

LEMMA EventOfInjective ==
  ASSUME NEW t, NEW g, NEW j, NEW k, NEW n, NEW x, NEW t1, NEW g1, NEW j1, NEW k1, NEW n1, NEW x1
  PROVE  EventOf(t, g, j, k, n, x) = EventOf(t1, g1, j1, k1, n1, x1) <=>
           t = t1 /\ g = g1 /\ j = j1 /\ k = k1 /\ n = n1 /\ x = x1
BY DEF EventOf

LEMMA DomainFinite ==
  ASSUME NEW S, NEW q \in Seq(S)
  PROVE  IsFiniteSet(DOMAIN q)
<1>1. Len(q) \in Nat /\ DOMAIN q = 1 .. Len(q) /\ 1 \in Int
  OBVIOUS
<1>2. IsFiniteSet(1 .. Len(q))
  BY <1>1, FS_Interval
<1> QED
  BY <1>1, <1>2

\* The events of a resource are finite in number.
LEMMA EventsFinite ==
  ASSUME Tables, NEW r \in ResourceIds
  PROVE  /\ IsFiniteSet(Events(r)) /\ IsFiniteSet(RequestsTo(r))
         /\ Cardinality(Events(r)) = 2 * NumJobs * Cardinality(RequestsTo(r))
<1>1. IsFiniteSet(SegmentsRequested)
  <2>1. IsFiniteSet(TaskIds)
    BY SyntheticTaskSize, FS_Interval DEF TaskIds
  <2>2. ASSUME NEW t \in TaskIds PROVE IsFiniteSet({t} \X DOMAIN requested[t])
    <3>1. requested[t] \in Seq(ParallelSegment)
      BY ProgramTyped
    <3>2. IsFiniteSet(DOMAIN requested[t]) /\ IsFiniteSet({t})
      BY <3>1, DomainFinite, FS_Singleton
    <3> QED
      BY <3>2, FS_Product
  <2> DEFINE all == {{t} \X DOMAIN requested[t] : t \in TaskIds}
             f == [t \in TaskIds |-> {t} \X DOMAIN requested[t]]
  <2>3. IsFiniteSet(all)
    <3>1. f \in Surjection(TaskIds, all)
      BY DEF Surjection
    <3> QED
      BY <2>1, <3>1, FS_Surjection
  <2>4. IsFiniteSet(UNION all)
    BY <2>2, <2>3, FS_UNION
  <2> QED
    BY <2>4 DEF SegmentsRequested
<1>2. IsFiniteSet(StrandsRequested)
  <2> DEFINE D(s) == {s} \X DOMAIN requested[s[1]][s[2]].strands
             all == {D(s) : s \in SegmentsRequested}
             f == [s \in SegmentsRequested |-> D(s)]
  <2>1. ASSUME NEW s \in SegmentsRequested PROVE IsFiniteSet(D(s))
    <3>1. PICK t \in TaskIds : s \in {t} \X DOMAIN requested[t]
      BY DEF SegmentsRequested
    <3>2. s[1] = t /\ s[2] \in DOMAIN requested[t]
      BY <3>1
    <3>3. requested[t] \in Seq(ParallelSegment)
      BY ProgramTyped
    <3>4. s[2] \in 1 .. Len(requested[t])
      BY <3>2, <3>3
    <3>5. requested[t][s[2]].strands \in Seq(Seq(CriticalSection))
      BY <3>4, SegmentTyped
    <3>6. IsFiniteSet(DOMAIN requested[s[1]][s[2]].strands) /\ IsFiniteSet({s})
      BY <3>2, <3>5, DomainFinite, FS_Singleton
    <3> QED
      BY <3>6, FS_Product
  <2>2. IsFiniteSet(all)
    <3>1. f \in Surjection(SegmentsRequested, all)
      BY DEF Surjection
    <3> QED
      BY <1>1, <3>1, FS_Surjection
  <2>3. IsFiniteSet(UNION all)
    BY <2>1, <2>2, FS_UNION
  <2> QED
    BY <2>3 DEF StrandsRequested
<1>3. IsFiniteSet(AllRequests)
  <2> DEFINE D(s) == {s} \X DOMAIN RequestsOf(s)
             all == {D(s) : s \in StrandsRequested}
             f == [s \in StrandsRequested |-> D(s)]
  <2>1. ASSUME NEW s \in StrandsRequested PROVE IsFiniteSet(D(s))
    <3>1. PICK u \in SegmentsRequested : s \in {u} \X DOMAIN requested[u[1]][u[2]].strands
      BY DEF StrandsRequested
    <3>2. s[1] = u /\ s[2] \in DOMAIN requested[u[1]][u[2]].strands
      BY <3>1
    <3>3. PICK t \in TaskIds : u \in {t} \X DOMAIN requested[t]
      BY DEF SegmentsRequested
    <3>4. u[1] = t /\ u[2] \in DOMAIN requested[t]
      BY <3>3
    <3>5. requested[t] \in Seq(ParallelSegment)
      BY ProgramTyped
    <3>6. u[2] \in 1 .. Len(requested[t])
      BY <3>4, <3>5
    <3>7. requested[t][u[2]].strands \in Seq(Seq(CriticalSection))
      BY <3>6, SegmentTyped
    <3>8. s[2] \in 1 .. Len(requested[t][u[2]].strands)
      BY <3>2, <3>4, <3>7
    <3>9. requested[t][u[2]].strands[s[2]] \in Seq(CriticalSection)
      BY <3>6, <3>8, StrandTyped
    <3>10. RequestsOf(s) = requested[t][u[2]].strands[s[2]]
      BY <3>2, <3>4 DEF RequestsOf
    <3>11. IsFiniteSet(DOMAIN RequestsOf(s)) /\ IsFiniteSet({s})
      BY <3>9, <3>10, DomainFinite, FS_Singleton
    <3> QED
      BY <3>11, FS_Product
  <2>2. IsFiniteSet(all)
    <3>1. f \in Surjection(StrandsRequested, all)
      BY DEF Surjection
    <3> QED
      BY <1>2, <3>1, FS_Surjection
  <2>3. IsFiniteSet(UNION all)
    BY <2>1, <2>2, FS_UNION
  <2> QED
    BY <2>3 DEF AllRequests
<1>4. IsFiniteSet(RequestsTo(r))
  <2>1. RequestsTo(r) \subseteq AllRequests
    BY DEF RequestsTo
  <2> QED
    BY <1>3, <2>1, FS_Subset
<1>5. NumJobs \in Nat /\ IsFiniteSet(1 .. NumJobs) /\ Cardinality(1 .. NumJobs) = NumJobs
  BY SyntheticTaskSize, FS_Interval
<1>6. IsFiniteSet({"in", "out"}) /\ Cardinality({"in", "out"}) = 2
  <2>1. IsFiniteSet({"in"}) /\ Cardinality({"in"}) = 1
    BY FS_Singleton
  <2>2. {"in", "out"} = {"in"} \cup {"out"} /\ "out" \notin {"in"}
    OBVIOUS
  <2> QED
    BY <2>1, <2>2, FS_AddElement
<1>7. IsFiniteSet(RequestsTo(r) \X (1 .. NumJobs))
      /\ Cardinality(RequestsTo(r) \X (1 .. NumJobs)) = Cardinality(RequestsTo(r)) * NumJobs
  BY <1>4, <1>5, FS_Product
<1>8. IsFiniteSet(Events(r)) /\ Cardinality(Events(r)) = (Cardinality(RequestsTo(r)) * NumJobs) * 2
  BY <1>6, <1>7, FS_Product DEF Events
<1>9. Cardinality(RequestsTo(r)) \in Nat
  BY <1>4, FS_CardinalityType
<1>10. \A a, b \in Nat : (a * b) * 2 = 2 * b * a
  OBVIOUS
<1> QED
  BY <1>4, <1>5, <1>8, <1>9, <1>10

-------------------------------------------------------------------------------
\* What has happened stays the same if it does for every request.
SamePast(t) ==
  \A g \in 1 .. Len(requested[t]) : \A j \in 1 .. Len(requested[t][g].strands) :
    \A k \in 1 .. Len(requested[t][g].strands[j]) :
      \A n \in 1 .. NumJobs : \A x \in {"in", "out"} :
        Past(t, g, j, k, n, x)' <=> Past(t, g, j, k, n, x)

LEMMA EventsKept ==
  ASSUME requested' = requested, NEW r
  PROVE  RequestsTo(r)' = RequestsTo(r) /\ Events(r)' = Events(r)
BY DEF Events, RequestsTo, AllRequests, StrandsRequested, SegmentsRequested, RequestsOf

LEMMA HappenedKept ==
  ASSUME Tables, requested' = requested, \A t \in TaskIds : SamePast(t), NEW r \in ResourceIds
  PROVE  Happened(r)' = Happened(r)
<1>1. Events(r)' = Events(r)
  BY EventsKept
<1>2. ASSUME NEW e \in Events(r) PROVE e \in Happened(r)' <=> e \in Happened(r)
  <2>0. PICK t \in TaskIds : \E g \in 1 .. Len(requested[t]) :
          \E j \in 1 .. Len(requested[t][g].strands) :
             \E k \in 1 .. Len(requested[t][g].strands[j]) :
               \E n \in 1 .. NumJobs : \E x \in {"in", "out"} : e = EventOf(t, g, j, k, n, x)
    BY EventTyped
  <2>1. PICK g \in 1 .. Len(requested[t]) :
          \E j \in 1 .. Len(requested[t][g].strands) :
             \E k \in 1 .. Len(requested[t][g].strands[j]) :
               \E n \in 1 .. NumJobs : \E x \in {"in", "out"} : e = EventOf(t, g, j, k, n, x)
    BY <2>0
  <2>2. PICK j \in 1 .. Len(requested[t][g].strands) :
             \E k \in 1 .. Len(requested[t][g].strands[j]) :
               \E n \in 1 .. NumJobs : \E x \in {"in", "out"} : e = EventOf(t, g, j, k, n, x)
    BY <2>1
  <2>3. PICK k \in 1 .. Len(requested[t][g].strands[j]), n \in 1 .. NumJobs, x \in {"in", "out"} :
          e = EventOf(t, g, j, k, n, x)
    BY <2>2
  <2>4. Past(t, g, j, k, n, x)' <=> Past(t, g, j, k, n, x)
    BY DEF SamePast
  <2>5. e \in Happened(r) <=> Past(t, g, j, k, n, x)
    BY <2>3 DEF Happened, EventOf
  <2>6. e \in Happened(r)' <=> Past(t, g, j, k, n, x)'
    BY <1>1, <2>3 DEF Happened, EventOf
  <2> QED
    BY <2>4, <2>5, <2>6
<1>3. Happened(r) \subseteq Events(r) /\ Happened(r)' \subseteq Events(r)
  BY <1>1 DEF Happened
<1> QED
  BY <1>2, <1>3

\* A step of another task changes nothing of this one.
LEMMA OtherPast ==
  ASSUME NEW t \in TaskIds, jobs'[t] = jobs[t], segment'[t] = segment[t], nextStrand'[t] = nextStrand[t],
         \A q \in ThreadsOf(t) : pc'[q] = pc[q] /\ strand'[q] = strand[q] /\ section'[q] = section[q]
  PROVE  SamePast(t)
BY SMTT(30) DEF SamePast, Past, Behind

\* A thread that is not past a request is in the strand of it.
Clear(p, j, k, x) == pc[p] # "idle" /\ strand[p] = j => Behind(p, k, x)

\* What changes if one thread goes on, of what has happened.
LEMMA ThreadPast ==
  ASSUME NEW p \in Threads, jobs' = jobs, segment' = segment, nextStrand' = nextStrand, strand' = strand,
         \A q \in Threads \ {p} : pc'[q] = pc[q] /\ section'[q] = section[q],
         NEW g, NEW j, NEW k, NEW n, NEW x,
         Clear(p, j, k, x)' <=> Clear(p, j, k, x)
  PROVE  Past(Task(p), g, j, k, n, x)' <=> Past(Task(p), g, j, k, n, x)
<1>1. ASSUME NEW q \in ThreadsOf(Task(p)) PROVE Clear(q, j, k, x)' <=> Clear(q, j, k, x)
  <2>1. q \in Threads
    BY ThreadHasTask DEF Threads
  <2>2. CASE q = p
    BY <2>2
  <2>3. CASE q # p
    BY <2>1, <2>3 DEF Clear, Behind
  <2> QED
    BY <2>2, <2>3
<1> DEFINE all == \A q \in ThreadsOf(Task(p)) : Clear(q, j, k, x)
<1>2. Past(Task(p), g, j, k, n, x) <=>
        \/ n <= jobs[Task(p)]
        \/ /\ n = jobs[Task(p)] + 1 /\ segment[Task(p)] # 0
           /\ g < segment[Task(p)] \/ (g = segment[Task(p)] /\ j < nextStrand[Task(p)] /\ all)
  BY DEF Past, Clear
<1>3. Past(Task(p), g, j, k, n, x)' <=>
        \/ n <= jobs[Task(p)]
        \/ /\ n = jobs[Task(p)] + 1 /\ segment[Task(p)] # 0
           /\ g < segment[Task(p)] \/ (g = segment[Task(p)] /\ j < nextStrand[Task(p)] /\ all')
  BY DEF Past, Clear
<1>4. all' <=> all
  BY <1>1
<1> QED
  BY <1>2, <1>3, <1>4

\* Two numbers around an even one.
LEMMA AroundEven ==
  \A a, k \in Nat :
    /\ (a % 2 # 0 => (a > 2 * k <=> a + 1 > 2 * k) /\ a # 2 * k /\ (a + 1) % 2 = 0)
    /\ (a % 2 = 0 => (a >= 2 * k <=> a + 1 > 2 * k) /\ a + 1 # 2 * k)
OBVIOUS

\* A step into the next section passes no event.
LEMMA NextSectionPast ==
  ASSUME ThreadType, WalkInv, NEW p \in Threads, pc[p] # "idle",
         Enter(p, Strand(p), section[p] + 1), pc[p] \in {"run", "release"},
         UNCHANGED <<requested, code, jobs, segment, nextStrand, strand>>,
         ran' = [t \in TaskIds |-> ran'[t]]
  PROVE  SamePast(Task(p))
<1> DEFINE t == Task(p)
           a == section[p]
           m == Len(Asked(p))
<1>1. /\ \A q \in Threads \ {p} : pc'[q] = pc[q] /\ section'[q] = section[q]
      /\ a = 2 * m + 1 => pc'[p] = "idle"
      /\ a # 2 * m + 1 => section'[p] = a + 1 /\ pc'[p] = IF (a + 1) % 2 = 0 THEN "in" ELSE "run"
  BY NextSectionWalk
<1>2. a \in 1 .. 2 * m + 1 /\ m \in Nat
  <2>1. Asked(p) \in Seq(CriticalSection) /\ a \in 1 .. 2 * m + 1
    BY Located
  <2> QED
    BY <2>1
<1>3. IF a % 2 = 0 THEN pc[p] = "release" ELSE pc[p] = "run"
  <2>1. ThreadWalk(p)
    BY DEF WalkInv
  <2> QED
    BY <2>1 DEF ThreadWalk
<1>4. "in" \notin Queued /\ "run" \notin Queued /\ "release" \notin Queued
  BY DEF Queued
<1> SUFFICES ASSUME NEW g \in 1 .. Len(requested[t]), NEW j \in 1 .. Len(requested[t][g].strands),
                    NEW k \in 1 .. Len(requested[t][g].strands[j]), NEW n \in 1 .. NumJobs,
                    NEW x \in {"in", "out"}
             PROVE  Past(t, g, j, k, n, x)' <=> Past(t, g, j, k, n, x)
  BY DEF SamePast
<1>5. CASE g # segment[t]
  BY <1>5 DEF Past
<1>6. CASE g = segment[t] /\ j # strand[p]
  <2>1. Clear(p, j, k, x)' <=> Clear(p, j, k, x)
    BY <1>6 DEF Clear
  <2>2. UNCHANGED <<jobs, segment, nextStrand, strand>>
    OBVIOUS
  <2> HIDE DEF t
  <2> QED
    BY <1>1, <2>1, <2>2, ThreadPast DEF t
<1>7. CASE g = segment[t] /\ j = strand[p]
  <2>1. k \in 1 .. m
    BY <1>7 DEF Asked, SegmentOf
  <2>2. Behind(p, k, x) <=> IF a % 2 = 0 THEN a >= 2 * k ELSE a > 2 * k
    <3>1. CASE a % 2 = 0
      <4>1. pc[p] = "release"
        BY <1>3, <3>1
      <4>2. Behind(p, k, x) <=> a > 2 * k \/ a = 2 * k
        BY <4>1 DEF Behind
      <4> QED
        BY SMTT(30), <1>2, <2>1, <3>1, <4>2
    <3>2. CASE a % 2 # 0
      <4>1. a # 2 * k
        BY <1>2, <2>1, <3>2
      <4> QED
        BY <3>2, <4>1 DEF Behind
    <3> QED
      BY <3>1, <3>2
  <2>3. CASE a = 2 * m + 1
    <3>1. a % 2 # 0 /\ a > 2 * k
      BY <1>2, <2>1, <2>3
    <3>2. Behind(p, k, x)
      BY <2>2, <3>1
    <3>3. Clear(p, j, k, x)' /\ Clear(p, j, k, x)
      BY <1>1, <2>3, <3>2 DEF Clear
    <3> QED
      BY <1>1, <3>3, ThreadPast
  <2>4. CASE a # 2 * m + 1
    <3>1. section'[p] = a + 1 /\ pc'[p] = IF (a + 1) % 2 = 0 THEN "in" ELSE "run"
      BY <1>1, <2>4
    <3>2. pc'[p] \in {"in", "run"}
      BY <3>1
    <3>3. Behind(p, k, x)' <=> a + 1 > 2 * k
      BY <1>4, <3>1, <3>2 DEF Behind
    <3>4. a \in Nat /\ k \in Nat
      BY <1>2, <2>1
    <3> HIDE DEF a
    <3>5. Behind(p, k, x)' <=> Behind(p, k, x)
      BY <2>2, <3>3, <3>4, AroundEven
    <3>6. Clear(p, j, k, x)' <=> Clear(p, j, k, x)
      BY <3>2, <3>5 DEF Clear
    <3> QED
      BY <1>1, <3>6, ThreadPast
  <2> QED
    BY <2>3, <2>4
<1> QED
  BY <1>5, <1>6, <1>7

\* A thread that takes a strand is past none of its events.
LEMMA TakeStrandPast ==
  ASSUME ThreadType, WalkInv, NEW p \in Threads, TakeStrand(p)
  PROVE  SamePast(Task(p))
<1> DEFINE t == Task(p)
           next == nextStrand[t]
<1>1. /\ next \in 1 .. Len(SegmentOf(t).strands)
      /\ nextStrand' = [nextStrand EXCEPT ![t] = next + 1] /\ strand' = [strand EXCEPT ![p] = next]
      /\ pc'[p] = "run" /\ section'[p] = 1
      /\ \A q \in Threads \ {p} : pc'[q] = pc[q] /\ section'[q] = section[q] /\ strand'[q] = strand[q]
      /\ segment[t] \in 1 .. Len(requested[t])
  BY TakeStrandWalk
<1>2. pc[p] = "idle" /\ UNCHANGED <<jobs, segment>>
  BY DEF TakeStrand
<1>3. Tables /\ t \in TaskIds /\ p \in ThreadsOf(t)
  BY ThreadHasTask DEF WalkInv
<1>4. nextStrand'[t] = next + 1 /\ strand'[p] = next
  BY <1>1, <1>3 DEF Tables
<1>5. next \in Int
  <2>1. SegmentOf(t).strands \in Seq(Seq(CriticalSection))
    BY <1>1, <1>3, SegmentTyped DEF SegmentOf
  <2> QED
    BY <1>1, <2>1
<1> SUFFICES ASSUME NEW g \in 1 .. Len(requested[t]), NEW j \in 1 .. Len(requested[t][g].strands),
                    NEW k \in 1 .. Len(requested[t][g].strands[j]), NEW n \in 1 .. NumJobs,
                    NEW x \in {"in", "out"}
             PROVE  Past(t, g, j, k, n, x)' <=> Past(t, g, j, k, n, x)
  BY DEF SamePast
<1>6. CASE g # segment[t]
  BY <1>2, <1>6 DEF Past
<1>7. CASE g = segment[t]
  <2>1. j \in Int /\ k \in Int /\ k > 0
    <3>1. requested[t][g].strands \in Seq(Seq(CriticalSection))
      BY <1>3, SegmentTyped
    <3>2. requested[t][g].strands[j] \in Seq(CriticalSection)
      BY <1>3, StrandTyped
    <3> QED
      BY <3>1, <3>2
  <2>2. \A q \in ThreadsOf(t) : q \in Threads
    BY <1>3 DEF Threads
  <2> HIDE DEF t, next
  <2>3. CASE j = next
    <3>1. ~ Behind(p, k, x)'
      <4>1. section'[p] = 1 /\ ~ (1 > 2 * k) /\ 1 # 2 * k
        BY <1>1, <2>1
      <4> QED
        BY <4>1 DEF Behind
    <3>2. ~ (pc'[p] # "idle" /\ strand'[p] = j => Behind(p, k, x)')
      BY <1>1, <1>4, <2>3, <3>1
    <3>3. ~ (j < nextStrand[t])
      BY <1>5, <2>3 DEF next
    <3>4. Past(t, g, j, k, n, x) <=> n <= jobs[t]
      BY <1>7, <3>3 DEF Past
    <3>5. Past(t, g, j, k, n, x)' <=> n <= jobs'[t]
      BY <1>2, <1>3, <1>7, <3>2 DEF Past
    <3> QED
      BY <1>2, <3>4, <3>5
  <2>4. CASE j # next
    <3>1. j < nextStrand'[t] <=> j < nextStrand[t]
      BY <1>4, <1>5, <2>1, <2>4 DEF next
    <3>2. ASSUME NEW q \in ThreadsOf(t)
          PROVE  (pc'[q] # "idle" /\ strand'[q] = j => Behind(q, k, x)')
                   <=> (pc[q] # "idle" /\ strand[q] = j => Behind(q, k, x))
      <4>1. CASE q = p
        BY <1>2, <1>4, <2>4, <4>1
      <4>2. CASE q # p
        <5>1. pc'[q] = pc[q] /\ section'[q] = section[q] /\ strand'[q] = strand[q]
          BY <1>1, <2>2, <4>2
        <5> QED
          BY <5>1 DEF Behind
      <4> QED
        BY <4>1, <4>2
    <3> QED
      BY <1>2, <3>1, <3>2 DEF Past
  <2> QED
    BY <2>3, <2>4
<1> QED
  BY <1>6, <1>7

\* The steps of a task pass no event.
LEMMA TaskStepPast ==
  ASSUME ThreadType, WalkInv, NEW t \in TaskIds, InitTask(t) \/ StartJob(t) \/ EndSegment(t)
  PROVE  requested' = requested /\ \A u \in TaskIds : SamePast(u)
<1>0. Tables /\ TaskWalk(t) /\ NumJobs \in Nat
  BY SyntheticTaskSize DEF WalkInv
<1>4. Len(requested[t]) \in Nat
  BY <1>0, ProgramTyped
<1>5. \A g \in 1 .. Len(requested[t]) : \A j \in 1 .. Len(requested[t][g].strands) :
        j \in Nat /\ ~ (j < 1)
  <2> SUFFICES ASSUME NEW g \in 1 .. Len(requested[t]), NEW j \in 1 .. Len(requested[t][g].strands)
               PROVE  j \in Nat /\ ~ (j < 1)
    OBVIOUS
  <2>1. requested[t][g].strands \in Seq(Seq(CriticalSection))
    BY <1>0, SegmentTyped
  <2> QED
    BY <2>1
<1>6. jobs[t] \in Nat
  BY <1>0 DEF TaskWalk
<1>1. CASE InitTask(t)
  <2>1. UNCHANGED <<requested, jobs, segment, nextStrand, pc, strand, section>>
    BY <1>1 DEF InitTask, threadvars
  <2> QED
    BY <2>1, OtherPast
<1>2. CASE StartJob(t)
  <2>1. /\ segment[t] = 0 /\ segment'[t] = 1 /\ nextStrand'[t] = 1 /\ jobs' = jobs
        /\ \A u \in TaskIds \ {t} : segment'[u] = segment[u] /\ nextStrand'[u] = nextStrand[u]
        /\ UNCHANGED <<requested, pc, strand, section>>
    BY <1>2, StartJobWalk
  <2>2. \A u \in TaskIds \ {t} : SamePast(u)
    BY <2>1, OtherPast
  <2>3. SamePast(t)
    <3> SUFFICES ASSUME NEW g \in 1 .. Len(requested[t]), NEW j \in 1 .. Len(requested[t][g].strands),
                        NEW k \in 1 .. Len(requested[t][g].strands[j]), NEW n \in 1 .. NumJobs,
                        NEW x \in {"in", "out"}
                 PROVE  Past(t, g, j, k, n, x)' <=> Past(t, g, j, k, n, x)
      BY DEF SamePast
    <3>1. ~ (g < 1) /\ ~ (j < 1)
      BY <1>4, <1>5
    <3>2. Past(t, g, j, k, n, x) <=> n <= jobs[t]
      BY <2>1 DEF Past
    <3>3. Past(t, g, j, k, n, x)' <=> n <= jobs[t]
      BY <2>1, <3>1 DEF Past
    <3> QED
      BY <3>2, <3>3
  <2> QED
    BY <2>1, <2>2, <2>3
<1>3. CASE EndSegment(t)
  <2>1. /\ segment[t] \in 1 .. Len(requested[t]) /\ nextStrand'[t] = 1
        /\ nextStrand[t] = Len(SegmentOf(t).strands) + 1
        /\ IF segment[t] = Len(requested[t]) THEN segment'[t] = 0 /\ jobs'[t] = jobs[t] + 1
           ELSE segment'[t] = segment[t] + 1 /\ jobs'[t] = jobs[t]
        /\ \A u \in TaskIds \ {t} :
             segment'[u] = segment[u] /\ jobs'[u] = jobs[u] /\ nextStrand'[u] = nextStrand[u]
        /\ UNCHANGED <<requested, pc, strand, section>>
    BY <1>3, EndSegmentWalk
  <2>2. \A u \in TaskIds \ {t} : SamePast(u)
    BY <2>1, OtherPast
  <2>3. SamePast(t)
    <3> SUFFICES ASSUME NEW g \in 1 .. Len(requested[t]), NEW j \in 1 .. Len(requested[t][g].strands),
                        NEW k \in 1 .. Len(requested[t][g].strands[j]), NEW n \in 1 .. NumJobs,
                        NEW x \in {"in", "out"}
                 PROVE  Past(t, g, j, k, n, x)' <=> Past(t, g, j, k, n, x)
      BY DEF SamePast
    <3>1. segment[t] \in Nat /\ segment[t] # 0 /\ g \in Nat /\ g <= Len(requested[t]) /\ ~ (j < 1)
      BY <1>4, <1>5, <2>1
    <3>2. \A q \in ThreadsOf(t) : pc[q] = "idle"
      BY <1>3 DEF EndSegment, SegmentDone
    <3>3. g = segment[t] => j < nextStrand[t]
      <4>1. requested[t][g].strands \in Seq(Seq(CriticalSection))
        BY <1>0, SegmentTyped
      <4> QED
        BY <2>1, <4>1 DEF SegmentOf
    <3>4. Past(t, g, j, k, n, x) <=> n <= jobs[t] \/ (n = jobs[t] + 1 /\ g <= segment[t])
      BY <3>1, <3>2, <3>3 DEF Past
    <3>5. Past(t, g, j, k, n, x)' <=> n <= jobs'[t] \/ (n = jobs'[t] + 1 /\ segment'[t] # 0 /\ g < segment'[t])
      BY <2>1, <3>1 DEF Past
    <3>6. n \in Nat
      BY <1>0
    <3>7. CASE segment[t] = Len(requested[t])
      BY SMTT(30), <1>6, <2>1, <3>1, <3>4, <3>5, <3>6, <3>7
    <3>8. CASE segment[t] # Len(requested[t])
      BY <1>6, <2>1, <3>1, <3>4, <3>5, <3>6, <3>8
    <3> QED
      BY <3>7, <3>8
  <2> QED
    BY <2>1, <2>2, <2>3
<1> QED
  BY <1>1, <1>2, <1>3

\* The other steps of a thread pass an event only when its record is over.
LEMMA MovePast ==
  ASSUME Running, WalkInv, NEW p \in Threads,
         SpinLock(p) \/ WriteEvent(p) \/ Request(p) \/ Granted(p) \/ RunCritical(p)
  PROVE  SamePast(Task(p))
<1>1. /\ pc[p] \notin {"idle", "run"} /\ ThreadType
      /\ UNCHANGED <<requested, code, jobs, segment, nextStrand, strand, section, resource>>
  BY Moves DEF Running
<1>2. PICK next \in {"in_look", "out_look", "in_count", "out_count", "wait", "busy", "out"} :
        /\ pc' = [pc EXCEPT ![p] = next]
        /\ (next \in Queued <=> pc[p] \in Queued) /\ pc[p] # "release"
  BY DEF SpinLock, WriteEvent, Request, Granted, RunCritical, Goto, Queued, Arriving
<1>3. pc'[p] = next /\ \A q \in Threads \ {p} : pc'[q] = pc[q]
  BY <1>1, <1>2 DEF ThreadType
<1>4. ASSUME NEW k, NEW x PROVE Behind(p, k, x)' <=> Behind(p, k, x)
  BY <1>1, <1>2, <1>3 DEF Behind, Queued
<1>5. ASSUME NEW j, NEW k, NEW x PROVE Clear(p, j, k, x)' <=> Clear(p, j, k, x)
  BY <1>1, <1>3, <1>4 DEF Clear
<1>6. \A q \in Threads \ {p} : pc'[q] = pc[q] /\ section'[q] = section[q]
  BY <1>1, <1>3
<1>7. jobs' = jobs /\ segment' = segment /\ nextStrand' = nextStrand /\ strand' = strand
  BY <1>1
<1>8. ASSUME NEW g, NEW j, NEW k, NEW n, NEW x
      PROVE  Past(Task(p), g, j, k, n, x)' <=> Past(Task(p), g, j, k, n, x)
  BY <1>5, <1>6, <1>7, ThreadPast
<1> QED
  BY <1>8 DEF SamePast

\* The event that thread p records.
Recorded(p) ==
  EventOf(Task(p), segment[Task(p)], strand[p], section[p] \div 2, jobs[Task(p)] + 1,
          IF Arriving(p) THEN "in" ELSE "out")

\* A record passes one event more.
LEMMA RecordPast ==
  ASSUME Running, WalkInv, NEW p \in Threads, DropEvent(p) \/ CountEvent(p)
  PROVE  /\ resource[p] \in ResourceIds
         /\ \A r \in ResourceIds :
              IF r = resource[p]
                THEN /\ Recorded(p) \notin Happened(r)
                     /\ Happened(r)' = Happened(r) \cup {Recorded(p)}
                ELSE Happened(r)' = Happened(r)
<1> DEFINE t == Task(p)
           next == IF Arriving(p) THEN "request" ELSE "release"
<1>0. PICK s, b, m, h, y :
        /\ s = segment[t] /\ b = strand[p] /\ m = section[p] \div 2 /\ h = jobs[t] + 1
        /\ y = IF Arriving(p) THEN "in" ELSE "out"
  OBVIOUS
<1>1. /\ pc[p] \notin {"idle", "run"} /\ ThreadType
      /\ UNCHANGED <<requested, code, jobs, segment, nextStrand, strand, section, resource>>
  BY Moves DEF Running
<1>2. pc' = [pc EXCEPT ![p] = next] /\ pc[p] \in {"in_look", "out_look", "in_count", "out_count"}
  BY DEF DropEvent, CountEvent, SpinUnlock, Goto
<1>3. pc'[p] = next /\ \A q \in Threads \ {p} : pc'[q] = pc[q]
  BY <1>1, <1>2 DEF ThreadType
<1>4. /\ t \in TaskIds /\ p \in ThreadsOf(t) /\ s \in 1 .. Len(requested[t])
      /\ b \in 1 .. Len(SegmentOf(t).strands)
      /\ section[p] \in 1 .. 2 * Len(Asked(p)) + 1 /\ Asked(p) \in Seq(CriticalSection)
  BY <1>0, <1>1, Located
<1>5. Tables /\ TaskWalk(t) /\ ThreadWalk(p) /\ OneEach /\ NumJobs \in Nat
  BY <1>4, SyntheticTaskSize DEF WalkInv
<1>6. section[p] = 2 * m /\ m \in 1 .. Len(Asked(p)) /\ resource[p] = Asked(p)[m].res
  <2>1. section[p] % 2 = 0 /\ resource[p] = Asked(p)[m].res
    BY <1>0, <1>1, <1>5 DEF ThreadWalk
  <2>2. Len(Asked(p)) \in Nat
    BY <1>4
  <2> QED
    BY SMTT(30), <1>0, <1>4, <2>1, <2>2
<1>7. h \in 1 .. NumJobs /\ s # 0 /\ b < nextStrand[t] /\ jobs[t] \in Nat
  <2>1. jobs[t] \in 0 .. NumJobs /\ s # 0
    BY <1>0, <1>1, <1>5 DEF TaskWalk, ThreadType
  <2>2. jobs[t] < NumJobs
    BY <1>0, <1>5, <2>1 DEF TaskWalk
  <2>3. nextStrand[t] \in Int
    BY <1>0, <1>1, <1>4, <2>1, NextStrandInt DEF Running
  <2>4. b < nextStrand[t]
    BY <1>0, <1>1, <1>5, <2>3 DEF ThreadWalk
  <2> QED
    BY <1>0, <1>5, <2>1, <2>2, <2>4
<1>8. resource[p] \in ResourceIds
  <2>1. Asked(p)[m] \in CriticalSection
    BY <1>4, <1>6
  <2> QED
    BY <1>6, <2>1 DEF CriticalSection
<1>9. requested[t][s].strands[b] = Asked(p)
  BY <1>0 DEF Asked, SegmentOf
<1>10. y \in {"in", "out"}
  BY <1>0
<1>11. y = "in" => pc[p] \notin Queued
  BY <1>0, <1>2 DEF Arriving, Queued
<1>12. y = "in" => next = "request"
  BY <1>0
<1>13. y = "out" => pc[p] \in Queued /\ next = "release"
  BY <1>0, <1>2 DEF Arriving, Queued
<1>14. pc[p] # "release" /\ "request" \in Queued /\ next \in Queued \cup {"release"}
  BY <1>2 DEF Queued
<1>15. \A k \in Nat : (section[p] > 2 * k <=> m > k) /\ (section[p] = 2 * k <=> m = k)
  <2>1. Len(Asked(p)) \in Nat
    BY <1>4
  <2>2. m \in Nat /\ section[p] = 2 * m
    BY <1>6, <2>1
  <2> QED
    BY <2>2
<1>21. SegmentOf(t).strands = requested[t][s].strands
  BY <1>0 DEF SegmentOf
<1>22. t \in TaskIds /\ s \in 1 .. Len(requested[t]) /\ b \in 1 .. Len(requested[t][s].strands)
       /\ m \in 1 .. Len(requested[t][s].strands[b])
  BY <1>4, <1>6, <1>9, <1>21
<1>23. requested[t][s].strands[b][m].res = resource[p]
  BY <1>6, <1>9
<1>24. Recorded(p) = EventOf(t, s, b, m, h, y)
  BY <1>0 DEF Recorded
<1>25. section'[p] = section[p] /\ strand' = strand /\ section' = section
  BY <1>1
<1> HIDE DEF t, next
\* Where the event is of.
<1>16. EventOf(t, s, b, m, h, y) \in Events(resource[p])
  BY <1>5, <1>7, <1>8, <1>10, <1>22, <1>23, EventExists
<1>26. m \in Nat
  <2>1. Len(Asked(p)) \in Nat
    BY <1>4
  <2> QED
    BY <1>6, <2>1
<1>17. ~ Behind(p, m, y) /\ Behind(p, m, y)'
  <2>1. section[p] = 2 * m /\ ~ (section[p] > 2 * m)
    BY <1>6, <1>26
  <2>2. ~ Behind(p, m, y)
    BY <1>10, <1>11, <1>13, <1>14, <2>1 DEF Behind
  <2>3. pc'[p] \in IF y = "in" THEN Queued \cup {"release"} ELSE {"release"}
    BY <1>3, <1>10, <1>12, <1>13, <1>14
  <2>4. Behind(p, m, y)'
    BY <1>25, <2>1, <2>3 DEF Behind
  <2> QED
    BY <2>2, <2>4
<1>18. ASSUME NEW k \in Nat, NEW x \in {"in", "out"}, k # m \/ x # y
       PROVE  Behind(p, k, x)' <=> Behind(p, k, x)
  <2>1. CASE k # m
    <3>1. section[p] # 2 * k
      BY <1>15, <2>1
    <3> QED
      BY <1>25, <3>1 DEF Behind
  <2>2. CASE x # y
    <3>1. CASE y = "in"
      <4>1. x = "out" /\ next = "request"
        BY <1>12, <2>2, <3>1
      <4> QED
        BY <1>3, <1>14, <1>25, <4>1 DEF Behind
    <3>2. CASE y = "out"
      <4>1. x = "in" /\ next = "release" /\ pc[p] \in Queued
        BY <1>13, <2>2, <3>2
      <4> QED
        BY <1>3, <1>25, <4>1 DEF Behind
    <3> QED
      BY <1>10, <3>1, <3>2
  <2> QED
    BY <1>18, <2>1, <2>2
<1>19. ~ Past(t, s, b, m, h, y) /\ Past(t, s, b, m, h, y)'
  <2>1. ~ (h <= jobs[t]) /\ h = jobs[t] + 1 /\ s = segment[t] /\ ~ (s < segment[t])
    <3>1. s \in Nat
      <4>1. Len(requested[t]) \in Nat
        BY <1>5, <1>22, ProgramTyped
      <4> QED
        BY <1>22, <4>1
    <3> QED
      BY <1>0, <1>7, <3>1
  <2>2. ~ Past(t, s, b, m, h, y)
    <3>1. pc[p] # "idle" /\ strand[p] = b
      BY <1>0, <1>1
    <3> QED
      BY <1>4, <1>17, <2>1, <3>1 DEF Past
  <2>3. ASSUME NEW q \in ThreadsOf(t), pc'[q] # "idle", strand'[q] = b PROVE Behind(q, m, y)'
    <3>1. q \in Threads /\ Task(q) = Task(p)
      BY <1>22 DEF t, Threads, ThreadsOf, Task
    <3>2. CASE q = p
      BY <1>17, <3>2
    <3>3. CASE q # p
      <4>1. pc[q] # "idle" /\ strand[q] = strand[p]
        BY <1>0, <1>1, <1>3, <2>3, <3>1, <3>3
      <4> QED
        BY <1>1, <1>5, <3>1, <3>3, <4>1 DEF OneEach
    <3> QED
      BY <3>2, <3>3
  <2>4. Past(t, s, b, m, h, y)'
    <3>1. jobs'[t] = jobs[t] /\ segment'[t] = segment[t] /\ nextStrand'[t] = nextStrand[t]
      BY <1>1
    <3> QED
      BY <1>7, <2>1, <2>3, <3>1 DEF Past
  <2> QED
    BY <2>2, <2>4
<1>20. ASSUME NEW k \in Nat, NEW x \in {"in", "out"}, NEW g, NEW j, NEW n,
              ~ (g = s /\ j = b /\ k = m /\ n = h /\ x = y)
       PROVE  Past(t, g, j, k, n, x)' <=> Past(t, g, j, k, n, x)
  <2>1. CASE g # s \/ n # h
    BY <1>0, <1>1, <2>1 DEF Past, t
  <2>2. CASE j # b
    <3>1. Clear(p, j, k, x)' <=> Clear(p, j, k, x)
      BY <1>0, <1>1, <2>2 DEF Clear
    <3> QED
      BY <1>1, <1>3, <3>1, ThreadPast DEF t
  <2>3. CASE k # m \/ x # y
    <3>1. Behind(p, k, x)' <=> Behind(p, k, x)
      BY <1>18, <2>3
    <3>2. Clear(p, j, k, x)' <=> Clear(p, j, k, x)
      BY <1>1, <1>3, <1>14, <3>1 DEF Clear, Queued
    <3> QED
      BY <1>1, <1>3, <3>2, ThreadPast DEF t
  <2> QED
    BY <1>20, <2>1, <2>2, <2>3
<1>27. ASSUME NEW u \in TaskIds, u # t PROVE SamePast(u)
  <2>1. \A q \in ThreadsOf(u) : q \in Threads \ {p}
    BY <1>27 DEF t, Threads, ThreadsOf, Task
  <2> QED
    BY <1>1, <1>3, <2>1, OtherPast
<1>36. Tables
  BY <1>5
<1>28. ASSUME NEW r \in ResourceIds, NEW e \in Events(r)
       PROVE  e \in Happened(r)' <=> e \in Happened(r) \/ e = Recorded(p)
  <2>1. PICK u \in TaskIds : \E g \in 1 .. Len(requested[u]) :
          \E j \in 1 .. Len(requested[u][g].strands) :
             \E k \in 1 .. Len(requested[u][g].strands[j]) :
               \E n \in 1 .. NumJobs : \E x \in {"in", "out"} : e = EventOf(u, g, j, k, n, x)
    BY <1>36, EventTyped
  <2>2. PICK g \in 1 .. Len(requested[u]) :
          \E j \in 1 .. Len(requested[u][g].strands) :
             \E k \in 1 .. Len(requested[u][g].strands[j]) :
               \E n \in 1 .. NumJobs : \E x \in {"in", "out"} : e = EventOf(u, g, j, k, n, x)
    BY <2>1
  <2>3. PICK j \in 1 .. Len(requested[u][g].strands) :
             \E k \in 1 .. Len(requested[u][g].strands[j]) :
               \E n \in 1 .. NumJobs : \E x \in {"in", "out"} : e = EventOf(u, g, j, k, n, x)
    BY <2>2
  <2>4. PICK k \in 1 .. Len(requested[u][g].strands[j]), n \in 1 .. NumJobs, x \in {"in", "out"} :
          e = EventOf(u, g, j, k, n, x)
    BY <2>3
  <2>5. e \in Happened(r) <=> Past(u, g, j, k, n, x)
    BY <2>4 DEF Happened, EventOf
  <2>6. e \in Happened(r)' <=> Past(u, g, j, k, n, x)'
    <3>1. Events(r)' = Events(r)
      BY <1>1, EventsKept
    <3> QED
      BY <2>4, <3>1 DEF Happened, EventOf
  <2>7. CASE e = Recorded(p)
    <3>1. u = t /\ g = s /\ j = b /\ k = m /\ n = h /\ x = y
      <4>1. EventOf(u, g, j, k, n, x) = EventOf(t, s, b, m, h, y)
        BY <1>24, <2>4, <2>7
      <4> HIDE DEF t
      <4> QED
        BY <4>1, EventOfInjective
    <3>2. Past(u, g, j, k, n, x)'
      BY <1>19, <3>1
    <3> QED
      BY <2>6, <2>7, <3>2
  <2>8. CASE e # Recorded(p) /\ u # t
    <3>1. Past(u, g, j, k, n, x)' <=> Past(u, g, j, k, n, x)
      BY <1>27, <2>8 DEF SamePast
    <3> QED
      BY <2>5, <2>6, <2>8, <3>1
  <2>9. CASE e # Recorded(p) /\ u = t
    <3>1. ~ (g = s /\ j = b /\ k = m /\ n = h /\ x = y)
      BY <1>24, <2>4, <2>9
    <3>2. k \in Nat
      <4>1. requested[u][g].strands[j] \in Seq(CriticalSection)
        BY <1>5, StrandTyped
      <4> QED
        BY <4>1
    <3>3. Past(u, g, j, k, n, x)' <=> Past(u, g, j, k, n, x)
      BY <1>20, <2>9, <3>1, <3>2
    <3> QED
      BY <2>5, <2>6, <2>9, <3>3
  <2> QED
    BY <2>7, <2>8, <2>9
<1>29. ASSUME NEW r \in ResourceIds PROVE Happened(r) \subseteq Events(r) /\ Happened(r)' \subseteq Events(r)
  <2>1. Events(r)' = Events(r)
    BY <1>1, EventsKept
  <2> QED
    BY <2>1 DEF Happened
<1>30. Recorded(p) \notin Happened(resource[p])
  BY <1>19, <1>24 DEF Happened, EventOf
<1>31. Recorded(p) \in Events(resource[p])
  BY <1>16, <1>24
<1>32. ASSUME NEW r \in ResourceIds, r # resource[p] PROVE Recorded(p) \notin Events(r)
  BY <1>5, <1>7, <1>10, <1>22, <1>23, <1>24, <1>32, EventExists
<1>33. ASSUME NEW r \in ResourceIds, r = resource[p]
       PROVE  Recorded(p) \notin Happened(r) /\ Happened(r)' = Happened(r) \cup {Recorded(p)}
  <2>1. \A e \in Events(r) : e \in Happened(r)' <=> e \in Happened(r) \/ e = Recorded(p)
    BY <1>28
  <2>2. Happened(r) \subseteq Events(r) /\ Happened(r)' \subseteq Events(r)
    BY <1>29
  <2>3. Recorded(p) \in Events(r) /\ Recorded(p) \notin Happened(r)
    BY <1>30, <1>31, <1>33
  <2> QED
    BY <2>1, <2>2, <2>3
<1>34. ASSUME NEW r \in ResourceIds, r # resource[p] PROVE Happened(r)' = Happened(r)
  <2>1. \A e \in Events(r) : e \in Happened(r)' <=> e \in Happened(r) \/ e = Recorded(p)
    BY <1>28
  <2>2. Happened(r) \subseteq Events(r) /\ Happened(r)' \subseteq Events(r)
    BY <1>29
  <2>3. Recorded(p) \notin Events(r)
    BY <1>32, <1>34
  <2> QED
    BY <2>1, <2>2, <2>3
<1> QED
  BY <1>8, <1>33, <1>34

-------------------------------------------------------------------------------
\* The log counts what has happened.
LEMMA CountedKept ==
  ASSUME NEW r \in ResourceIds, CountedInv(r), Happened(r)' = Happened(r), nextEvent'[r] = nextEvent[r]
  PROVE  CountedInv(r)'
BY DEF CountedInv

LEMMA HappenedFinite ==
  ASSUME Tables, NEW r \in ResourceIds
  PROVE  IsFiniteSet(Happened(r)) /\ Cardinality(Happened(r)) \in Nat
<1>1. Happened(r) \subseteq Events(r)
  BY DEF Happened
<1> QED
  BY <1>1, EventsFinite, FS_Subset, FS_CardinalityType

LEMMA RecordCounted ==
  ASSUME Running, WalkInv, NEW p \in Threads, DropEvent(p) \/ CountEvent(p),
         \A r \in ResourceIds : CountedInv(r)
  PROVE  \A r \in ResourceIds : CountedInv(r)'
<1>1. /\ resource[p] \in ResourceIds
      /\ \A r \in ResourceIds :
           IF r = resource[p]
             THEN Recorded(p) \notin Happened(r) /\ Happened(r)' = Happened(r) \cup {Recorded(p)}
             ELSE Happened(r)' = Happened(r)
  BY RecordPast
<1>2. ASSUME NEW r \in ResourceIds, r # resource[p] PROVE CountedInv(r)'
  <2>1. nextEvent'[r] = nextEvent[r]
    BY <1>1, <1>2 DEF DropEvent, CountEvent, Running, LogType
  <2> QED
    BY <1>1, <1>2, <2>1, CountedKept
<1> SUFFICES ASSUME NEW r \in ResourceIds, r = resource[p] PROVE CountedInv(r)'
  BY <1>2
<1> DEFINE n == Cardinality(Happened(r))
<1>3. n \in Nat /\ Cardinality(Happened(r)') = n + 1
  <2>1. Tables
    BY DEF WalkInv
  <2>2. IsFiniteSet(Happened(r)) /\ n \in Nat
    BY <1>1, <2>1, HappenedFinite
  <2> QED
    BY <1>1, <2>2, FS_AddElement
<1>4. nextEvent[r] = IF n < MaxEvents THEN n ELSE MaxEvents
  BY <1>1 DEF CountedInv
<1>5. nextEvent[r] \in 0 .. MaxEvents /\ MaxEvents \in Nat \ {0}
  BY <1>1, SyntheticTaskSize DEF Running, LogType
<1>6. CountedInv(r)'
  <2>1. CASE DropEvent(p)
    <3>1. NotRecorded(p) /\ nextEvent' = nextEvent /\ pc[p] \in {"in_look", "out_look"} /\ resource' = resource
      BY <2>1 DEF DropEvent
    <3>2. nextEvent[r] # 0 \/ pc[p] # "out_look"
      BY <1>1, <1>5, OutFindsEvent DEF Running, Queued
    <3>3. ~ (nextEvent[r] < MaxEvents)
      BY <1>5, <3>1, <3>2 DEF NotRecorded
    <3>4. nextEvent[r] = MaxEvents /\ ~ (n + 1 < MaxEvents)
      BY <1>3, <1>4, <1>5, <3>3
    <3>5. nextEvent'[r] = IF Cardinality(Happened(r)') < MaxEvents THEN Cardinality(Happened(r)') ELSE MaxEvents
      BY <1>3, <3>1, <3>4
    <3> QED
      BY <3>1, <3>5 DEF CountedInv
  <2>2. CASE CountEvent(p)
    <3>1. /\ nextEvent' = [nextEvent EXCEPT ![r] = nextEvent[r] + 1] /\ resource' = resource
          /\ pc[p] \in {"in_count", "out_count"}
      BY <2>2 DEF CountEvent
    <3>2. nextEvent'[r] = nextEvent[r] + 1
      BY <1>1, <3>1 DEF Running, LogType
    <3>3. nextEvent[r] < MaxEvents
      BY <1>1, <3>1 DEF Running, LogInv, WriterInv
    <3>4. nextEvent'[r] = IF Cardinality(Happened(r)') < MaxEvents THEN Cardinality(Happened(r)') ELSE MaxEvents
      BY <1>3, <1>4, <1>5, <3>2, <3>3
    <3> QED
      BY <3>1, <3>4 DEF CountedInv
  <2> QED
    BY <2>1, <2>2
<1> QED
  BY <1>6

LEMMA ThreadStepCounted ==
  ASSUME Running, WalkInv, NEW p \in Threads, ThreadStep(p), \A r \in ResourceIds : CountedInv(r)
  PROVE  \A r \in ResourceIds : CountedInv(r)'
<1>0. ThreadType /\ Tables /\ Task(p) \in TaskIds
  BY ThreadHasTask DEF Running, WalkInv
<1>1. CASE DropEvent(p) \/ CountEvent(p)
  BY <1>1, RecordCounted
<1>2. CASE ~ (DropEvent(p) \/ CountEvent(p))
  <2>1. /\ SamePast(Task(p)) /\ requested' = requested /\ nextEvent' = nextEvent
        /\ jobs' = jobs /\ segment' = segment
        /\ \A u \in TaskIds \ {Task(p)} : nextStrand'[u] = nextStrand[u]
        /\ \A q \in Threads \ {p} : pc'[q] = pc[q] /\ section'[q] = section[q] /\ strand'[q] = strand[q]
    <3>1. CASE TakeStrand(p)
      <4>1. SamePast(Task(p))
        BY <1>0, <3>1, TakeStrandPast
      <4>2. /\ nextStrand' = [nextStrand EXCEPT ![Task(p)] = nextStrand[Task(p)] + 1]
            /\ \A q \in Threads \ {p} : pc'[q] = pc[q] /\ section'[q] = section[q] /\ strand'[q] = strand[q]
        BY <1>0, <3>1, TakeStrandWalk
      <4>3. UNCHANGED <<requested, nextEvent, jobs, segment>>
        BY <3>1 DEF TakeStrand, statvars
      <4>4. \A u \in TaskIds \ {Task(p)} : nextStrand'[u] = nextStrand[u]
        BY <1>0, <4>2 DEF Tables
      <4> QED
        BY <4>1, <4>2, <4>3, <4>4
    <3>2. CASE RunSection(p) \/ Unlock(p)
      <4>1. /\ Enter(p, Strand(p), section[p] + 1) /\ pc[p] \in {"run", "release"} /\ pc[p] # "idle"
            /\ UNCHANGED <<requested, code, jobs, segment, nextStrand, strand, nextEvent>>
            /\ ran' = ran \/ \E x : ran' = [ran EXCEPT ![Task(p)] = x]
        BY <3>2 DEF RunSection, Unlock, BusyWork, taskvars, statvars
      <4>2. ran' = [t \in TaskIds |-> ran'[t]]
        BY <1>0, <4>1 DEF Tables
      <4>3. SamePast(Task(p))
        BY <1>0, <4>1, <4>2, NextSectionPast
      <4>4. \A q \in Threads \ {p} : pc'[q] = pc[q] /\ section'[q] = section[q]
        BY <1>0, <4>1, <4>2, NextSectionWalk
      <4> QED
        BY <4>1, <4>3, <4>4
    <3>3. CASE ~ (TakeStrand(p) \/ RunSection(p) \/ Unlock(p))
      <4>0. SpinLock(p) \/ WriteEvent(p) \/ Request(p) \/ Granted(p) \/ RunCritical(p)
        BY <1>2, <3>3 DEF ThreadStep
      <4>1. SamePast(Task(p))
        BY <4>0, MovePast
      <4>2. /\ UNCHANGED <<requested, jobs, segment, nextStrand, strand, section>>
            /\ \E next : pc' = [pc EXCEPT ![p] = next]
        BY <4>0, Moves
      <4>3. nextEvent' = nextEvent
        BY <4>0 DEF SpinLock, WriteEvent, Request, Granted, RunCritical, statvars
      <4>4. \A q \in Threads \ {p} : pc'[q] = pc[q]
        BY <1>0, <4>2 DEF ThreadType
      <4> QED
        BY <4>1, <4>2, <4>3, <4>4
    <3> QED
      BY <3>1, <3>2, <3>3
  <2>2. ASSUME NEW u \in TaskIds PROVE SamePast(u)
    <3>1. CASE u = Task(p)
      BY <2>1, <3>1
    <3>2. CASE u # Task(p)
      <4>1. \A q \in ThreadsOf(u) : q \in Threads \ {p}
        BY <3>2 DEF Threads, ThreadsOf, Task
      <4>2. nextStrand'[u] = nextStrand[u] /\ jobs'[u] = jobs[u] /\ segment'[u] = segment[u]
        BY <2>1, <3>2
      <4>4. \A q \in Threads \ {p} : pc'[q] = pc[q] /\ section'[q] = section[q] /\ strand'[q] = strand[q]
        BY <2>1
      <4>3. \A q \in ThreadsOf(u) : pc'[q] = pc[q] /\ strand'[q] = strand[q] /\ section'[q] = section[q]
        BY <4>1, <4>4
      <4> QED
        BY <4>2, <4>3, OtherPast
    <3> QED
      BY <3>1, <3>2
  <2>3. requested' = requested /\ nextEvent' = nextEvent
    BY <2>1
  <2> QED
    BY <1>0, <2>2, <2>3, HappenedKept, CountedKept
<1> QED
  BY <1>1, <1>2

\* At the end, everything has happened, and nothing is left in a queue.
LEMMA AllHappened ==
  ASSUME ThreadType, WalkInv, AllJobsDone, NEW r \in ResourceIds
  PROVE  Happened(r) = Events(r) /\ Arrived(r) = {}
<1>1. Tables /\ NumJobs \in Nat
  BY SyntheticTaskSize DEF WalkInv
<1>2. ASSUME NEW e \in Events(r) PROVE e \in Happened(r)
  <2>1. PICK u \in TaskIds : \E g \in 1 .. Len(requested[u]) :
          \E j \in 1 .. Len(requested[u][g].strands) :
             \E k \in 1 .. Len(requested[u][g].strands[j]) :
               \E n \in 1 .. NumJobs : \E x \in {"in", "out"} : e = EventOf(u, g, j, k, n, x)
    BY <1>1, EventTyped
  <2>2. PICK g, j, k : \E n \in 1 .. NumJobs : \E x \in {"in", "out"} : e = EventOf(u, g, j, k, n, x)
    BY <2>1
  <2>3. PICK n \in 1 .. NumJobs, x \in {"in", "out"} : e = EventOf(u, g, j, k, n, x)
    BY <2>2
  <2>4. n <= jobs[u]
    BY <1>1 DEF AllJobsDone
  <2> QED
    BY <2>3, <2>4 DEF Happened, EventOf, Past
<1>3. \A p \in Threads : pc[p] = "idle"
  BY ThreadHasTask DEF ThreadType, AllJobsDone
<1>4. Arrived(r) = {}
  BY <1>3 DEF Arrived
<1> QED
  BY <1>2, <1>4 DEF Happened

\* The file has them all.
LEMMA WriteIsComplete ==
  ASSUME Running, WalkInv, \A r \in ResourceIds : CountedInv(r), WriteStatistics
  PROVE  FileIsComplete'
<1>1. /\ statFile' = [r \in ResourceIds |-> [k \in 1 .. nextEvent[r] |-> data[r][k - 1]]]
      /\ AllJobsDone /\ requested' = requested
  BY DEF WriteStatistics, taskvars
<1> SUFFICES ASSUME NEW r \in ResourceIds
             PROVE  LET events == 2 * NumJobs * Cardinality(RequestsTo(r))
                    IN  IF events < MaxEvents
                          THEN Len(statFile'[r]) = events /\ (events > 0 => statFile'[r][events] = 0)
                          ELSE Len(statFile'[r]) = MaxEvents
  <2>2. DOMAIN statFile' = ResourceIds
    BY <1>1
  <2>3. \A q \in ResourceIds : RequestsTo(q)' = RequestsTo(q)
    BY <1>1, EventsKept
  <2> QED
    BY <2>2, <2>3 DEF FileIsComplete
<1> DEFINE events == 2 * NumJobs * Cardinality(RequestsTo(r))
           n == nextEvent[r]
<1>2. Happened(r) = Events(r) /\ Arrived(r) = {}
  BY <1>1, AllHappened DEF Running
<1>3. events = Cardinality(Happened(r)) /\ events \in Nat
  <2>1. Tables
    BY DEF WalkInv
  <2> QED
    BY <1>2, <2>1, EventsFinite, FS_CardinalityType
<1>4. n = IF events < MaxEvents THEN events ELSE MaxEvents
  BY <1>3 DEF CountedInv
<1>5. n \in 0 .. MaxEvents /\ MaxEvents \in Nat \ {0}
  BY SyntheticTaskSize DEF Running, LogType
<1>6. statFile'[r] = [k \in 1 .. n |-> data[r][k - 1]]
  BY <1>1
<1> HIDE DEF events, n
<1>7. Len(statFile'[r]) = n
  BY <1>5, <1>6
<1>8. ASSUME n < MaxEvents, n > 0 PROVE statFile'[r][n] = 0
  <2>1. LastNumber(r) = Cardinality(Arrived(r))
    BY <1>8 DEF n, Running, LogInv
  <2>2. LastNumber(r) = data[r][n - 1]
    BY <1>8 DEF n, LastNumber
  <2>3. Cardinality(Arrived(r)) = 0
    BY <1>2, FS_EmptySet
  <2>4. n \in 1 .. n
    BY <1>5, <1>8
  <2> QED
    BY <1>6, <2>1, <2>2, <2>3, <2>4
<1>9. IF events < MaxEvents
        THEN Len(statFile'[r]) = events /\ (events > 0 => statFile'[r][events] = 0)
        ELSE Len(statFile'[r]) = MaxEvents
  BY <1>3, <1>4, <1>5, <1>7, <1>8
<1> QED
  BY <1>9 DEF events

-------------------------------------------------------------------------------
\* Once the file is written, no step is left.
LEMMA EndIsEnd ==
  ASSUME Running, StatFileInv, statFile # <<>>
  PROVE  ~ ExecutionStep
<1>1. /\ \A t \in TaskIds : segment[t] = 0 /\ jobs[t] = NumJobs /\ code[t] # <<>>
      /\ NumJobs \in Nat
  BY SyntheticTaskSize DEF StatFileInv, AllJobsDone
<1>2. \A p \in Threads : pc[p] = "idle" /\ Task(p) \in TaskIds
  BY <1>1, ThreadHasTask DEF Running, ThreadType
<1>3. \A t \in TaskIds : ~ (InitTask(t) \/ StartJob(t) \/ EndSegment(t))
  BY <1>1 DEF InitTask, StartJob, EndSegment, SegmentDone
<1>4. ASSUME NEW p \in Threads PROVE ~ ThreadStep(p)
  <2>1. pc[p] = "idle" /\ segment[Task(p)] = 0
    BY <1>1, <1>2
  <2>2. ~ TakeStrand(p)
    BY <2>1 DEF TakeStrand
  <2>3. ~ RunSection(p) /\ ~ Unlock(p) /\ ~ RunCritical(p) /\ ~ Request(p) /\ ~ Granted(p)
    BY <2>1 DEF RunSection, Unlock, RunCritical, Request, Granted
  <2>4. ~ SpinLock(p) /\ ~ DropEvent(p) /\ ~ WriteEvent(p) /\ ~ CountEvent(p)
    BY <2>1 DEF SpinLock, DropEvent, WriteEvent, CountEvent
  <2> QED
    BY <2>2, <2>3, <2>4 DEF ThreadStep
<1>5. ~ WriteStatistics
  BY DEF WriteStatistics
<1> QED
  BY <1>3, <1>4, <1>5 DEF ExecutionStep

LEMMA WalkKept ==
  ASSUME WalkInv, UNCHANGED <<requested, code, jobs, segment, nextStrand, ran, pc, strand, section, resource>>
  PROVE  WalkInv'
<1>1. Tables'
  BY DEF WalkInv, Tables
<1>2. ASSUME NEW t \in TaskIds PROVE TaskWalk(t)'
  <2>1. CodeOf(t)' = CodeOf(t) /\ SegmentOf(t)' = SegmentOf(t)
    BY DEF CodeOf, SegmentOf
  <2>2. TaskWalk(t)
    BY DEF WalkInv
  <2> QED
    BY <2>1, <2>2 DEF TaskWalk
<1>3. ASSUME NEW p \in Threads PROVE ThreadWalk(p)'
  <2>1. Asked(p)' = Asked(p)
    BY DEF Asked, SegmentOf
  <2>2. ThreadWalk(p)
    BY DEF WalkInv
  <2> QED
    BY <2>1, <2>2 DEF ThreadWalk
<1>4. OneEach'
  BY DEF WalkInv, OneEach
<1> QED
  BY <1>1, <1>2, <1>3, <1>4 DEF WalkInv

LEMMA WriteKeepsRun ==
  ASSUME Running, WalkInv, \A t \in TaskIds : RanInv(t), \A r \in ResourceIds : CountedInv(r), WriteStatistics
  PROVE  /\ WalkInv' /\ \A t \in TaskIds : RanInv(t)'
         /\ \A r \in ResourceIds : CountedInv(r)'
         /\ StatFileInv'
<1>1. /\ UNCHANGED <<requested, code, jobs, segment, nextStrand, ran, pc, strand, section, resource, nextEvent>>
      /\ AllJobsDone /\ \A t \in TaskIds : code[t] # <<>>
  BY DEF WriteStatistics, taskvars, threadvars
<1>2. FileIsComplete'
  BY WriteIsComplete
<1>3. StatFileInv'
  BY <1>1, <1>2 DEF StatFileInv, AllJobsDone
<1>4. WalkInv'
  BY <1>1, WalkKept
<1>5. \A t \in TaskIds : RanInv(t)'
  BY <1>1, OtherRan
<1>6. \A t \in TaskIds : SamePast(t)
  BY <1>1, OtherPast
<1>7. \A r \in ResourceIds : CountedInv(r)'
  BY <1>1, <1>6, HappenedKept, CountedKept DEF WalkInv
<1> QED
  BY <1>3, <1>4, <1>5, <1>7

LEMMA InitRun == Init => RunInv
<1>1. ASSUME program = "execute", ExecutionInit PROVE RunInv
  <2>0. /\ requested \in TaskPrograms /\ statFile = <<>>
        /\ code = [t \in TaskIds |-> <<>>] /\ jobs = [t \in TaskIds |-> 0] /\ segment = [t \in TaskIds |-> 0]
        /\ nextStrand = [t \in TaskIds |-> 1] /\ ran = [t \in TaskIds |-> 0]
        /\ pc = [p \in Threads |-> "idle"] /\ strand = [p \in Threads |-> 0]
        /\ section = [p \in Threads |-> 0] /\ nextEvent = [r \in ResourceIds |-> 0]
    BY <1>1 DEF ExecutionInit
  <2>1. /\ \A t \in TaskIds : code[t] = <<>> /\ jobs[t] = 0 /\ segment[t] = 0 /\ ran[t] = 0
        /\ \A p \in Threads : pc[p] = "idle"
        /\ \A r \in ResourceIds : nextEvent[r] = 0
    BY <2>0
  <2>2. Tables
    BY <2>0 DEF Tables
  <2>3. ASSUME NEW t \in TaskIds PROVE TaskWalk(t) /\ RanInv(t)
    <3>1. Len(requested[t]) \in Nat /\ NumJobs \in Nat
      BY <2>2, ProgramTyped, SyntheticTaskSize
    <3> QED
      BY <2>1, <3>1 DEF TaskWalk, RanInv
  <2>4. (\A p \in Threads : ThreadWalk(p)) /\ OneEach
    BY <2>1 DEF ThreadWalk, OneEach
  <2>5. ASSUME NEW r \in ResourceIds PROVE CountedInv(r)
    <3>1. ASSUME NEW e \in Happened(r) PROVE FALSE
      <4>1. PICK u \in TaskIds : \E g \in 1 .. Len(requested[u]) :
              \E j \in 1 .. Len(requested[u][g].strands) :
                 \E k \in 1 .. Len(requested[u][g].strands[j]) :
                   \E n \in 1 .. NumJobs : \E x \in {"in", "out"} : e = EventOf(u, g, j, k, n, x)
        BY <2>2, EventTyped DEF Happened
      <4>2. PICK g, j, k : \E n \in 1 .. NumJobs : \E x \in {"in", "out"} : e = EventOf(u, g, j, k, n, x)
        BY <4>1
      <4>3. PICK n \in 1 .. NumJobs, x \in {"in", "out"} : e = EventOf(u, g, j, k, n, x)
        BY <4>2
      <4>4. Past(u, g, j, k, n, x)
        BY <4>3 DEF Happened, EventOf
      <4> QED
        BY <2>1, <4>4, SyntheticTaskSize DEF Past
    <3>2. Happened(r) = {}
      BY <3>1
    <3>3. Cardinality(Happened(r)) = 0
      BY <3>2, FS_EmptySet
    <3> QED
      BY <2>1, <3>3, SyntheticTaskSize DEF CountedInv
  <2> QED
    BY <1>1, <2>0, <2>2, <2>3, <2>4, <2>5 DEF RunInv, WalkInv, StatFileInv
<1>2. ASSUME program # "execute", NoExecution PROVE RunInv
  BY <1>2 DEF NoExecution, RunInv
<1> QED
  BY <1>1, <1>2 DEF Init

LEMMA StepRun == ASSUME ExecInv, RunInv, [Next]_vars PROVE RunInv'
<1>1. CASE program = "execute" /\ ExecutionStep /\ program' = program
  <2>1. Running
    BY <1>1 DEF ExecInv, Running
  <2>2. WalkInv /\ (\A t \in TaskIds : RanInv(t)) /\ (\A r \in ResourceIds : CountedInv(r)) /\ StatFileInv
    BY <1>1 DEF RunInv
  <2>3. statFile = <<>> /\ Tables /\ ThreadType
    BY <1>1, <2>1, <2>2, EndIsEnd DEF WalkInv, Running
  <2>4. ASSUME NEW t \in TaskIds, InitTask(t) \/ StartJob(t) \/ EndSegment(t)
        PROVE  /\ WalkInv' /\ (\A u \in TaskIds : RanInv(u)') /\ (\A r \in ResourceIds : CountedInv(r)')
               /\ StatFileInv'
    <3>1. WalkInv' /\ \A u \in TaskIds : RanInv(u)'
      BY <2>2, <2>3, <2>4, TaskStepRan
    <3>2. UNCHANGED <<nextEvent, statFile>>
      BY <2>4 DEF InitTask, StartJob, EndSegment, statvars
    <3>3. requested' = requested /\ \A u \in TaskIds : SamePast(u)
      BY <2>2, <2>3, <2>4, TaskStepPast
    <3>4. \A r \in ResourceIds : CountedInv(r)'
      BY <2>2, <2>3, <3>2, <3>3, HappenedKept, CountedKept
    <3>5. StatFileInv'
      BY <2>3, <3>2 DEF StatFileInv
    <3> QED
      BY <3>1, <3>4, <3>5
  <2>5. ASSUME NEW p \in Threads, ThreadStep(p)
        PROVE  /\ WalkInv' /\ (\A u \in TaskIds : RanInv(u)') /\ (\A r \in ResourceIds : CountedInv(r)')
               /\ StatFileInv'
    <3>1. WalkInv' /\ \A u \in TaskIds : RanInv(u)'
      BY <2>1, <2>2, <2>5, ThreadStepRan
    <3>2. \A r \in ResourceIds : CountedInv(r)'
      BY <2>1, <2>2, <2>5, ThreadStepCounted
    <3>3. statFile' = statFile
      BY <2>5 DEF ThreadStep, TakeStrand, RunSection, SpinLock, DropEvent, WriteEvent, CountEvent,
                  Request, Granted, RunCritical, Unlock
    <3>4. StatFileInv'
      BY <2>3, <3>3 DEF StatFileInv
    <3> QED
      BY <3>1, <3>2, <3>4
  <2>6. /\ WalkInv' /\ (\A u \in TaskIds : RanInv(u)') /\ (\A r \in ResourceIds : CountedInv(r)')
        /\ StatFileInv'
    BY <1>1, <2>1, <2>2, <2>4, <2>5, WriteKeepsRun DEF ExecutionStep
  <2> QED
    BY <1>1, <2>6 DEF RunInv
<1>2. CASE program' = program /\ UNCHANGED execvars
  <2>1. UNCHANGED <<requested, code, jobs, segment, nextStrand, ran, pc, strand, section, resource, nextEvent, statFile>>
    BY <1>2 DEF execvars, taskvars, threadvars, statvars
  <2>2. CASE program = "execute"
    <3>1. WalkInv /\ (\A t \in TaskIds : RanInv(t)) /\ (\A r \in ResourceIds : CountedInv(r)) /\ StatFileInv
      BY <2>2 DEF RunInv
    <3>2. WalkInv'
      BY <2>1, <3>1, WalkKept
    <3>3. \A t \in TaskIds : RanInv(t)'
      BY <2>1, <3>1, OtherRan
    <3>4. \A t \in TaskIds : SamePast(t)
      BY <2>1, OtherPast
    <3>5. \A r \in ResourceIds : CountedInv(r)'
      BY <2>1, <3>1, <3>4, HappenedKept, CountedKept DEF WalkInv
    <3>6. FileIsComplete' <=> FileIsComplete
      BY <2>1 DEF FileIsComplete, RequestsTo, AllRequests, StrandsRequested, SegmentsRequested, RequestsOf
    <3>7. StatFileInv'
      BY <2>1, <3>1, <3>6 DEF StatFileInv, AllJobsDone
    <3> QED
      BY <1>2, <2>2, <3>2, <3>3, <3>5, <3>7 DEF RunInv
  <2>3. CASE program # "execute"
    BY <1>2, <2>1, <2>3 DEF RunInv
  <2> QED
    BY <2>2, <2>3
<1> QED
  BY <1>1, <1>2 DEF Next, Generate, Gather, Convert, Execute, vars

LEMMA RunFollows == ASSUME ExecInv, RunInv PROVE WorkIsRun /\ FileIsComplete
<1>1. CASE program = "execute"
  <2>1. ThreadType /\ WalkInv /\ (\A t \in TaskIds : RanInv(t)) /\ StatFileInv
    BY <1>1 DEF ExecInv, RunInv
  <2>2. WorkIsRun
    BY <2>1, RanIsWork
  <2>3. FileIsComplete
    <3>1. CASE statFile = <<>>
      BY <3>1 DEF FileIsComplete
    <3>2. CASE statFile # <<>>
      BY <2>1, <3>2 DEF StatFileInv
    <3> QED
      BY <3>1, <3>2
  <2> QED
    BY <2>2, <2>3
<1>2. CASE program # "execute"
  BY <1>2 DEF RunInv, WorkIsRun, FileIsComplete
<1> QED
  BY <1>1, <1>2

(***************************************************************************)
(* What the threads of a task have run of the strands it has handed out is *)
(* the work that was asked for, after each segment and each job; and when  *)
(* the launcher writes the statistics, the log of a lock has an arrival    *)
(* and a completion of each request of each job, or as many events as      *)
(* there is room for: WorkIsRun and FileIsComplete, the last parts of      *)
(* OutputsAreRight, for all programs of tasks and numbers of threads.      *)
(***************************************************************************)
THEOREM TasksRunTheirWork == Spec => [](WorkIsRun /\ FileIsComplete)
<1>1. Init => ExecInv /\ RunInv
  BY InitExecInv, InitRun
<1>2. ExecInv /\ RunInv /\ [Next]_vars => (ExecInv /\ RunInv)'
  BY ExecStepInv, StepRun
<1>3. ExecInv /\ RunInv => WorkIsRun /\ FileIsComplete
  BY RunFollows
<1> QED
  BY <1>1, <1>2, <1>3, PTL DEF Spec

-------------------------------------------------------------------------------
(***************************************************************************)
(* From a list of subtasks to the file of programs.                        *)
(***************************************************************************)
Lines == [count : Nat, len : Nat]

\* The first upto subtasks of a list have those of program id one behind the
\* other, and a task is made of them.
Holds(subs, task, id, upto) ==
  /\ task.segs \in Seq(Lines) /\ task.segs # <<>>
  /\ \E b \in 0 .. upto :
       /\ {k \in 1 .. upto : subs[k].prog = id} = b + 1 .. b + Len(task.segs)
       /\ task.period = subs[b + 1].period
       /\ \A k \in 1 .. Len(task.segs) : task.segs[k] = SegmentLine(subs[b + k])

ProgramsUpTo(n) == {subtasks[k].prog : k \in 1 .. n}

PrintInv ==
  convert = "print" =>
    /\ printed \in 0 .. Len(subtasks)
    /\ printing = [prog |-> printing.prog, period |-> printing.period, segs |-> printing.segs]
    /\ printed = 0 => printing.prog = 0 /\ DOMAIN taskfiles = {}
    /\ printed # 0 =>
         /\ printing.prog = subtasks[printed].prog
         /\ Holds(subtasks, printing, printing.prog, printed)
    /\ DOMAIN taskfiles = ProgramsUpTo(printed) \ {printing.prog}
    /\ \A id \in DOMAIN taskfiles : Holds(subtasks, taskfiles[id], id, printed)
    /\ broken = <<>> /\ converted = <<>> /\ segments = <<>> /\ rtpt = <<>>

FilesInv ==
  convert # "print" =>
    /\ DOMAIN taskfiles = Programs
    /\ \A id \in Programs : Holds(subtasks, taskfiles[id], id, Len(subtasks))

\* The files come in the order of their names.
OrderInv ==
  convert # "print" =>
    /\ converted \in Seq(Programs)
    /\ \A j, k \in DOMAIN converted : j < k => NameRank[converted[j]] < NameRank[converted[k]]
    /\ \A k \in DOMAIN converted : \A f \in Unread : NameRank[converted[k]] < NameRank[f]
    /\ convert = "done" => Unread = {}

LinesInv ==
  convert # "print" =>
    /\ rtpt = [k \in DOMAIN converted |->
                 Timing(taskfiles[converted[k]].segs, taskfiles[converted[k]].period)]
    /\ convert = "file" => segments = <<>>
    /\ convert = "segments" =>
         /\ Unread # {}
         /\ segments \in Seq(Lines) /\ Len(segments) <= Len(taskfiles[TaskFile].segs)
         /\ \A k \in 1 .. Len(segments) : segments[k] = taskfiles[TaskFile].segs[k]

\* A malformed place has not been passed.
BrokenInv ==
  convert # "print" =>
    /\ broken # <<>> =>
         /\ broken = <<broken[1], broken[2]>>
         /\ broken[1] \in Unread /\ broken[2] \in 0 .. Len(taskfiles[broken[1]].segs)
         /\ convert = "segments" /\ broken[1] = TaskFile => broken[2] > Len(segments)
    /\ convert = "failed" => broken # <<>> /\ broken[1] = TaskFile

ConvInv ==
  IF program = "convert"
    THEN subtasks \in SubtaskLists /\ PrintInv /\ FilesInv /\ OrderInv /\ LinesInv /\ BrokenInv
    ELSE subtasks = <<>> /\ converted = <<>> /\ rtpt = <<>> /\ broken = <<>> /\ convert = "done"

LEMMA SubsType ==
  ASSUME NEW subs \in SubtaskLists
  PROVE  /\ subs \in Seq(SubtaskOf) /\ Len(subs) \in Nat \ {0} /\ DOMAIN subs = 1 .. Len(subs)
         /\ \A k \in 1 .. Len(subs) :
              /\ subs[k] \in SubtaskOf /\ NameRank[subs[k].prog] \in Nat
              /\ subs[k].prog \in Nat \ {0} /\ subs[k].period \in Nat \ {0}
              /\ SegmentLine(subs[k]) \in Lines
         /\ \A j, k \in 1 .. Len(subs) :
              /\ j <= k => subs[j].prog <= subs[k].prog
              /\ subs[j].prog = subs[k].prog => subs[j].period = subs[k].period
              /\ subs[j].prog # subs[k].prog => NameRank[subs[j].prog] # NameRank[subs[k].prog]
<1>1. /\ subs \in Seq(SubtaskOf) /\ subs # <<>>
      /\ \A j, k \in DOMAIN subs :
           /\ j <= k => subs[j].prog <= subs[k].prog
           /\ subs[j].prog = subs[k].prog => subs[j].period = subs[k].period
           /\ subs[j].prog # subs[k].prog => NameRank[subs[j].prog] # NameRank[subs[k].prog]
           /\ NameRank[subs[j].prog] \in Nat
  BY RtptSize
<1>2. Len(subs) \in Nat \ {0} /\ DOMAIN subs = 1 .. Len(subs)
  BY <1>1
<1>3. ASSUME NEW k \in 1 .. Len(subs) PROVE subs[k] \in SubtaskOf
  BY <1>1, <1>2
<1>4. ASSUME NEW k \in 1 .. Len(subs)
      PROVE  subs[k].prog \in Nat \ {0} /\ subs[k].period \in Nat \ {0} /\ SegmentLine(subs[k]) \in Lines
  BY <1>3 DEF SubtaskOf, SegmentLine, Lines
<1> QED
  BY <1>1, <1>2, <1>3, <1>4

LEMMA FirstOfFiles ==
  ASSUME NEW S, S # {}, \A f \in S : NameRank[f] \in Nat
  PROVE  FirstFile(S) \in S /\ \A g \in S : NameRank[FirstFile(S)] <= NameRank[g]
<1> DEFINE R == {NameRank[f] : f \in S}
<1>1. R \subseteq Nat /\ R # {}
  OBVIOUS
<1>2. PICK x \in R : \A y \in R : x <= y
  BY <1>1, NatLeast
<1>3. PICK f \in S : NameRank[f] = x
  BY <1>2
<1>4. \A g \in S : NameRank[f] <= NameRank[g]
  BY <1>2, <1>3
<1> QED
  BY <1>4 DEF FirstFile

-------------------------------------------------------------------------------
\* print_taskset.
LEMMA HoldsSame ==
  ASSUME NEW subs, NEW task, NEW id, NEW u \in Nat, Holds(subs, task, id, u), subs[u + 1].prog # id
  PROVE  Holds(subs, task, id, u + 1)
<1>1. {k \in 1 .. u + 1 : subs[k].prog = id} = {k \in 1 .. u : subs[k].prog = id}
  <2>1. 1 .. u + 1 = 1 .. u \cup {u + 1}
    OBVIOUS
  <2> QED
    BY <2>1
<1>2. 0 .. u \subseteq 0 .. u + 1
  OBVIOUS
<1> QED
  BY <1>1, <1>2 DEF Holds

LEMMA HoldsMore ==
  ASSUME NEW subs, NEW task, NEW more, NEW id, NEW u \in Nat \ {0},
         Holds(subs, task, id, u), subs[u].prog = id, subs[u + 1].prog = id,
         SegmentLine(subs[u + 1]) \in Lines,
         more.segs = Append(task.segs, SegmentLine(subs[u + 1])), more.period = task.period
  PROVE  Holds(subs, more, id, u + 1)
<1>1. task.segs \in Seq(Lines) /\ task.segs # <<>>
  BY DEF Holds
<1>2. PICK b \in 0 .. u :
        /\ {k \in 1 .. u : subs[k].prog = id} = b + 1 .. b + Len(task.segs)
        /\ task.period = subs[b + 1].period
        /\ \A k \in 1 .. Len(task.segs) : task.segs[k] = SegmentLine(subs[b + k])
  BY DEF Holds
<1>3. PICK l \in Nat : l = Len(task.segs)
  BY <1>1
<1>4. b + l = u
  <2>1. u \in {k \in 1 .. u : subs[k].prog = id}
    OBVIOUS
  <2>2. b + 1 .. b + l \subseteq 1 .. u /\ u \in b + 1 .. b + l
    BY <1>2, <1>3, <2>1
  <2>3. b + l \in b + 1 .. b + l
    BY <2>2
  <2> QED
    BY <2>2, <2>3
<1>5. more.segs \in Seq(Lines) /\ Len(more.segs) = l + 1 /\ more.segs # <<>>
  BY <1>1, <1>3
<1>6. {k \in 1 .. u + 1 : subs[k].prog = id} = b + 1 .. b + (l + 1)
  <2>1. 1 .. u + 1 = 1 .. u \cup {u + 1} /\ b + 1 .. b + (l + 1) = (b + 1 .. b + l) \cup {u + 1}
    BY <1>4
  <2> QED
    BY <1>2, <1>3, <2>1
<1>7. ASSUME NEW k \in 1 .. l + 1 PROVE more.segs[k] = SegmentLine(subs[b + k])
  <2>1. CASE k = l + 1
    <3>1. more.segs[k] = SegmentLine(subs[u + 1])
      BY <1>1, <1>3, <2>1
    <3>2. b + k = u + 1
      BY <1>4, <2>1
    <3> QED
      BY <3>1, <3>2
  <2>2. CASE k \in 1 .. l
    <3>1. more.segs[k] = task.segs[k]
      BY <1>1, <1>3, <2>2
    <3> QED
      BY <1>2, <1>3, <2>2, <3>1
  <2>3. k = l + 1 \/ k \in 1 .. l
    OBVIOUS
  <2> QED
    BY <2>1, <2>2, <2>3
<1>8. b \in 0 .. u + 1
  OBVIOUS
<1> QED
  BY <1>2, <1>5, <1>6, <1>7, <1>8 DEF Holds

LEMMA HoldsNew ==
  ASSUME NEW subs, NEW new, NEW u \in Nat, SegmentLine(subs[u + 1]) \in Lines,
         \A k \in 1 .. u : subs[k].prog # subs[u + 1].prog,
         new.segs = <<SegmentLine(subs[u + 1])>>, new.period = subs[u + 1].period
  PROVE  Holds(subs, new, subs[u + 1].prog, u + 1)
<1>1. new.segs \in Seq(Lines) /\ Len(new.segs) = 1 /\ new.segs # <<>>
      /\ new.segs[1] = SegmentLine(subs[u + 1])
  OBVIOUS
<1>2. {k \in 1 .. u + 1 : subs[k].prog = subs[u + 1].prog} = u + 1 .. u + 1
  <2>1. 1 .. u + 1 = 1 .. u \cup {u + 1} /\ u + 1 .. u + 1 = {u + 1}
    OBVIOUS
  <2> QED
    BY <2>1
<1>3. \A k \in 1 .. 1 : new.segs[k] = SegmentLine(subs[u + k])
  <2> TAKE k \in 1 .. 1
  <2>1. k = 1
    OBVIOUS
  <2> QED
    BY <1>1, <2>1
<1> QED
  BY <1>1, <1>2, <1>3 DEF Holds

\* The programs printed so far, and those that begin.
LEMMA ProgramsGrow ==
  ASSUME NEW u \in Nat, NEW P, P = {subtasks[k].prog : k \in 1 .. u + 1}
  PROVE  P = ProgramsUpTo(u) \cup {subtasks[u + 1].prog}
<1>1. 1 .. u + 1 = 1 .. u \cup {u + 1}
  OBVIOUS
<1> QED
  BY <1>1 DEF ProgramsUpTo

\* A program that begins has not been met before.
LEMMA NewProgram ==
  ASSUME subtasks \in SubtaskLists, NEW u \in Nat, u < Len(subtasks),
         u # 0 => subtasks[u].prog # subtasks[u + 1].prog
  PROVE  \A k \in 1 .. u : subtasks[k].prog # subtasks[u + 1].prog
<1> SUFFICES ASSUME NEW k \in 1 .. u, subtasks[k].prog = subtasks[u + 1].prog PROVE FALSE
  OBVIOUS
<1>0. Len(subtasks) \in Nat
  BY SubsType
<1>1. u \in 1 .. Len(subtasks) /\ u + 1 \in 1 .. Len(subtasks) /\ k \in 1 .. Len(subtasks) /\ k <= u /\ u <= u + 1
  BY <1>0
<1>2. subtasks[k].prog \in Nat /\ subtasks[u].prog \in Nat /\ subtasks[u + 1].prog \in Nat
  BY <1>1, SubsType
<1>3. subtasks[k].prog <= subtasks[u].prog /\ subtasks[u].prog <= subtasks[u + 1].prog
  BY <1>1, SubsType
<1> QED
  BY <1>2, <1>3

LEMMA SameProgramInv ==
  ASSUME subtasks \in SubtaskLists, PrintInv, SameProgram
  PROVE  PrintInv'
<1> PICK u \in Nat : u = printed
  BY SubsType DEF PrintInv, SameProgram
<1>1. /\ u < Len(subtasks) /\ convert = "print" /\ printing.prog = subtasks[u + 1].prog
      /\ printing' = [printing EXCEPT !.segs = Append(printing.segs, SegmentLine(subtasks[u + 1]))]
      /\ printed' = u + 1
      /\ UNCHANGED <<subtasks, taskfiles, broken, convert, converted, segments, rtpt>>
  BY DEF SameProgram, NextSub
<1>2. /\ printing = [prog |-> printing.prog, period |-> printing.period, segs |-> printing.segs]
      /\ u = 0 => printing.prog = 0
      /\ u # 0 => printing.prog = subtasks[u].prog /\ Holds(subtasks, printing, printing.prog, u)
      /\ DOMAIN taskfiles = ProgramsUpTo(u) \ {printing.prog}
      /\ \A f \in DOMAIN taskfiles : Holds(subtasks, taskfiles[f], f, u)
      /\ broken = <<>> /\ converted = <<>> /\ segments = <<>> /\ rtpt = <<>>
  BY <1>1 DEF PrintInv
<1>3. Len(subtasks) \in Nat /\ u + 1 \in 1 .. Len(subtasks)
  BY <1>1, SubsType
<1>4. subtasks[u + 1].prog # 0 /\ SegmentLine(subtasks[u + 1]) \in Lines
  BY <1>3, SubsType
<1>5. u # 0
  BY <1>1, <1>2, <1>4
<1>6. /\ printing' = [prog |-> printing.prog, period |-> printing.period,
                      segs |-> Append(printing.segs, SegmentLine(subtasks[u + 1]))]
      /\ printing'.prog = printing.prog /\ printing'.period = printing.period
      /\ printing'.segs = Append(printing.segs, SegmentLine(subtasks[u + 1]))
  BY <1>1, <1>2
<1>7. Holds(subtasks, printing', printing.prog, u + 1)
  <2>1. subtasks[u].prog = printing.prog /\ subtasks[u + 1].prog = printing.prog
        /\ Holds(subtasks, printing, printing.prog, u) /\ u \in Nat \ {0}
    BY <1>1, <1>2, <1>5
  <2> QED
    BY <1>4, <1>6, <2>1, HoldsMore
<1>8. ProgramsUpTo(u + 1) = ProgramsUpTo(u)
  <2>1. ProgramsUpTo(u + 1) = ProgramsUpTo(u) \cup {subtasks[u + 1].prog}
    BY ProgramsGrow DEF ProgramsUpTo
  <2>2. subtasks[u].prog \in ProgramsUpTo(u)
    BY <1>5 DEF ProgramsUpTo
  <2> QED
    BY <1>1, <1>2, <1>5, <2>1, <2>2
<1>9. ASSUME NEW f \in DOMAIN taskfiles PROVE Holds(subtasks, taskfiles[f], f, u + 1)
  <2>1. f # subtasks[u + 1].prog /\ Holds(subtasks, taskfiles[f], f, u)
    BY <1>1, <1>2
  <2> QED
    BY <2>1, HoldsSame
<1>10. ProgramsUpTo(printed)' = ProgramsUpTo(u + 1)
  BY <1>1 DEF ProgramsUpTo
<1>11. Holds(subtasks', printing', printing'.prog, printed')
  BY <1>1, <1>6, <1>7
<1>12. \A f \in DOMAIN taskfiles' : Holds(subtasks', taskfiles'[f], f, printed')
  BY <1>1, <1>9
<1>13. /\ printed' \in 0 .. Len(subtasks') /\ printed' # 0
       /\ printing'.prog = subtasks'[printed'].prog
       /\ DOMAIN taskfiles' = ProgramsUpTo(printed)' \ {printing'.prog}
       /\ broken' = <<>> /\ converted' = <<>> /\ segments' = <<>> /\ rtpt' = <<>>
  BY <1>1, <1>2, <1>3, <1>6, <1>8, <1>10
<1> QED
  BY <1>6, <1>11, <1>12, <1>13 DEF PrintInv

\* What PrintTask leaves, if a task is under way.
LEMMA TaskIsPrinted ==
  ASSUME subtasks \in SubtaskLists, PrintInv, convert = "print", printed # 0, PrintTask
  PROVE  /\ DOMAIN taskfiles' = ProgramsUpTo(printed)
         /\ \A f \in ProgramsUpTo(printed) : Holds(subtasks, taskfiles'[f], f, printed)
<1>1. /\ printed \in 1 .. Len(subtasks)
      /\ printing.prog = subtasks[printed].prog
      /\ Holds(subtasks, printing, printing.prog, printed)
      /\ DOMAIN taskfiles = ProgramsUpTo(printed) \ {printing.prog}
      /\ \A f \in DOMAIN taskfiles : Holds(subtasks, taskfiles[f], f, printed)
  BY SubsType DEF PrintInv
<1>2. printing.prog \in ProgramsUpTo(printed)
  BY <1>1 DEF ProgramsUpTo
<1>3. PICK t : t = [period |-> printing.period, segs |-> printing.segs]
  OBVIOUS
<1>4. taskfiles' = [f \in DOMAIN taskfiles \cup {printing.prog} |->
                      IF f = printing.prog THEN t ELSE taskfiles[f]]
  BY <1>3 DEF PrintTask
<1>5. DOMAIN taskfiles' = ProgramsUpTo(printed)
  BY <1>1, <1>2, <1>4
<1>6. Holds(subtasks, t, printing.prog, printed)
  <2>1. t.period = printing.period /\ t.segs = printing.segs
    BY <1>3
  <2> QED
    BY <1>1, <2>1 DEF Holds
<1>7. ASSUME NEW f \in ProgramsUpTo(printed) PROVE Holds(subtasks, taskfiles'[f], f, printed)
  <2>1. CASE f = printing.prog
    BY <1>4, <1>5, <1>6, <2>1
  <2>2. CASE f # printing.prog
    <3>1. f \in DOMAIN taskfiles /\ taskfiles'[f] = taskfiles[f]
      BY <1>1, <1>4, <2>2
    <3> QED
      BY <1>1, <3>1
  <2> QED
    BY <2>1, <2>2
<1> QED
  BY <1>5, <1>7

LEMMA NextProgramInv ==
  ASSUME subtasks \in SubtaskLists, PrintInv, NextProgram
  PROVE  PrintInv'
<1> PICK u \in Nat : u = printed
  BY SubsType DEF PrintInv, NextProgram
<1> PICK s : s = subtasks[u + 1]
  OBVIOUS
<1>1. /\ u < Len(subtasks) /\ convert = "print" /\ printing.prog # s.prog
      /\ IF printing.prog # 0 THEN PrintTask ELSE taskfiles' = taskfiles
      /\ printing' = [prog |-> s.prog, period |-> s.period, segs |-> <<SegmentLine(s)>>]
      /\ printed' = u + 1
      /\ UNCHANGED <<subtasks, broken, convert, converted, segments, rtpt>>
  BY DEF NextProgram, NextSub
<1>2. /\ u = 0 => printing.prog = 0 /\ DOMAIN taskfiles = {}
      /\ u # 0 => printing.prog = subtasks[u].prog /\ Holds(subtasks, printing, printing.prog, u)
      /\ broken = <<>> /\ converted = <<>> /\ segments = <<>> /\ rtpt = <<>>
  BY <1>1 DEF PrintInv
<1>3. Len(subtasks) \in Nat /\ u + 1 \in 1 .. Len(subtasks)
  BY <1>1, SubsType
<1>4. s.prog # 0 /\ SegmentLine(s) \in Lines
  BY <1>3, SubsType
<1>5. \A k \in 1 .. u : subtasks[k].prog # s.prog
  BY <1>1, <1>2, NewProgram
<1>6. /\ DOMAIN taskfiles' = ProgramsUpTo(u)
      /\ \A f \in ProgramsUpTo(u) : Holds(subtasks, taskfiles'[f], f, u)
  <2>1. CASE u = 0
    <3>1. ProgramsUpTo(u) = {} /\ taskfiles' = taskfiles /\ DOMAIN taskfiles = {}
      BY <1>1, <1>2, <2>1 DEF ProgramsUpTo
    <3> QED
      BY <3>1
  <2>2. CASE u # 0
    <3>1. printing.prog # 0
      BY <1>2, <1>3, <2>2, SubsType
    <3>2. PrintTask
      BY <1>1, <3>1
    <3> QED
      BY <1>1, <2>2, <3>2, TaskIsPrinted
  <2> QED
    BY <2>1, <2>2
<1>7. ProgramsUpTo(u + 1) = ProgramsUpTo(u) \cup {s.prog} /\ s.prog \notin ProgramsUpTo(u)
  BY <1>5, ProgramsGrow DEF ProgramsUpTo
<1>8. ASSUME NEW f \in ProgramsUpTo(u) PROVE Holds(subtasks, taskfiles'[f], f, u + 1)
  <2>1. subtasks[u + 1].prog # f /\ Holds(subtasks, taskfiles'[f], f, u)
    BY <1>6, <1>7
  <2> QED
    BY <2>1, HoldsSame
<1>9. Holds(subtasks, printing', s.prog, u + 1)
  <2>1. printing'.segs = <<SegmentLine(subtasks[u + 1])>> /\ printing'.period = subtasks[u + 1].period
    BY <1>1
  <2> QED
    BY <1>4, <1>5, <2>1, HoldsNew
<1>10. ProgramsUpTo(printed)' = ProgramsUpTo(u + 1)
  BY <1>1 DEF ProgramsUpTo
<1>11. printing'.prog = s.prog /\ s.prog = subtasks'[printed'].prog
       /\ printing' = [prog |-> printing'.prog, period |-> printing'.period, segs |-> printing'.segs]
  BY <1>1
<1>12. Holds(subtasks', printing', printing'.prog, printed')
  BY <1>1, <1>9, <1>11
<1>13. \A f \in DOMAIN taskfiles' : Holds(subtasks', taskfiles'[f], f, printed')
  BY <1>1, <1>6, <1>8
<1>14. /\ printed' \in 0 .. Len(subtasks') /\ printed' # 0
       /\ DOMAIN taskfiles' = ProgramsUpTo(printed)' \ {printing'.prog}
       /\ broken' = <<>> /\ converted' = <<>> /\ segments' = <<>> /\ rtpt' = <<>>
  BY <1>1, <1>2, <1>3, <1>6, <1>7, <1>10, <1>11
<1> QED
  BY <1>11, <1>12, <1>13, <1>14 DEF PrintInv

\* The end of print_taskset: all files are complete, and none has been read.
LEMMA LastProgramInv ==
  ASSUME subtasks \in SubtaskLists, PrintInv, LastProgram
  PROVE  FilesInv' /\ OrderInv' /\ LinesInv' /\ BrokenInv'
<1>1. /\ convert = "print" /\ printed = Len(subtasks) /\ PrintTask /\ convert' = "file"
      /\ broken' \in {<<>>} \cup
           UNION {{<<f, k>> : k \in 0 .. Len(taskfiles'[f].segs)} : f \in DOMAIN taskfiles'}
      /\ UNCHANGED <<subtasks, printed, printing, converted, segments, rtpt>>
  BY DEF LastProgram, printvars
<1>2. converted = <<>> /\ segments = <<>> /\ rtpt = <<>>
  BY <1>1 DEF PrintInv
<1>3. Len(subtasks) \in Nat \ {0} /\ DOMAIN subtasks = 1 .. Len(subtasks)
  BY SubsType
<1>4. /\ DOMAIN taskfiles' = ProgramsUpTo(Len(subtasks))
      /\ \A f \in ProgramsUpTo(Len(subtasks)) : Holds(subtasks, taskfiles'[f], f, Len(subtasks))
  BY <1>1, <1>3, TaskIsPrinted
<1>5. Programs' = ProgramsUpTo(Len(subtasks))
  BY <1>1, <1>3 DEF Programs, ProgramsUpTo
<1>6. converted' = <<>> /\ segments' = <<>> /\ rtpt' = <<>> /\ DOMAIN converted' = {}
  BY <1>1, <1>2
<1>7. Unread' = DOMAIN taskfiles'
  BY <1>6 DEF Unread, Range
<1>8. FilesInv'
  BY <1>1, <1>4, <1>5 DEF FilesInv
<1>9. OrderInv'
  BY <1>1, <1>6 DEF OrderInv
<1>10. LinesInv'
  BY <1>1, <1>6 DEF LinesInv
<1>11. BrokenInv'
  <2>1. ASSUME broken' # <<>>
        PROVE  /\ broken' = <<broken'[1], broken'[2]>>
               /\ broken'[1] \in Unread' /\ broken'[2] \in 0 .. Len(taskfiles'[broken'[1]].segs)
    <3>1. PICK f \in DOMAIN taskfiles' : broken' \in {<<f, k>> : k \in 0 .. Len(taskfiles'[f].segs)}
      BY <1>1, <2>1
    <3>2. PICK k \in 0 .. Len(taskfiles'[f].segs) : broken' = <<f, k>>
      BY <3>1
    <3>3. broken'[1] = f /\ broken'[2] = k
      BY <3>2
    <3> QED
      BY <1>7, <3>2, <3>3
  <2> QED
    BY <1>1, <2>1 DEF BrokenInv
<1> QED
  BY <1>8, <1>9, <1>10, <1>11

-------------------------------------------------------------------------------
\* The reader.
ReadInv == FilesInv /\ OrderInv /\ LinesInv /\ BrokenInv

LEMMA ProgramRanks ==
  ASSUME subtasks \in SubtaskLists
  PROVE  \A f, g \in Programs : NameRank[f] \in Nat /\ (NameRank[f] = NameRank[g] => f = g)
<1> TAKE f, g \in Programs
<1>1. DOMAIN subtasks = 1 .. Len(subtasks)
  BY SubsType
<1>2. PICK j \in 1 .. Len(subtasks) : f = subtasks[j].prog
  BY <1>1 DEF Programs
<1>3. PICK k \in 1 .. Len(subtasks) : g = subtasks[k].prog
  BY <1>1 DEF Programs
<1> QED
  BY <1>2, <1>3, SubsType

LEMMA FilesFacts ==
  ASSUME subtasks \in SubtaskLists, ReadInv, convert # "print"
  PROVE  /\ DOMAIN taskfiles = Programs /\ Unread \subseteq Programs
         /\ \A f \in Programs : taskfiles[f].segs \in Seq(Lines) /\ Len(taskfiles[f].segs) \in Nat
         /\ Unread # {} =>
              TaskFile \in Unread /\ TaskFile \in Programs
                /\ \A g \in Unread : NameRank[TaskFile] <= NameRank[g]
<1>1. DOMAIN taskfiles = Programs /\ \A f \in Programs : Holds(subtasks, taskfiles[f], f, Len(subtasks))
  BY DEF ReadInv, FilesInv
<1>2. Unread \subseteq Programs
  BY <1>1 DEF Unread
<1>3. \A f \in Programs : taskfiles[f].segs \in Seq(Lines) /\ Len(taskfiles[f].segs) \in Nat
  BY <1>1 DEF Holds
<1>4. \A f \in Unread : NameRank[f] \in Nat
  BY <1>2, ProgramRanks
<1>5. Unread # {} => FirstFile(Unread) \in Unread /\ \A g \in Unread : NameRank[FirstFile(Unread)] <= NameRank[g]
  BY <1>4, FirstOfFiles
<1> QED
  BY <1>1, <1>2, <1>3, <1>5 DEF TaskFile

\* A step that ends no line leaves the next file where it is.
LEMMA SameFile ==
  ASSUME UNCHANGED <<printvars, taskfiles, converted>>, FilesInv, OrderInv,
         convert # "print", convert' # "print", convert' = "done" => Unread = {}
  PROVE  Unread' = Unread /\ TaskFile' = TaskFile /\ FilesInv' /\ OrderInv'
<1>1. Unread' = Unread
  BY DEF Unread
<1>2. TaskFile' = TaskFile
  BY <1>1 DEF TaskFile
<1>3. Programs' = Programs /\ subtasks' = subtasks
  BY DEF printvars, Programs
<1>4. FilesInv'
  BY <1>3 DEF FilesInv
<1>5. OrderInv'
  BY <1>1, <1>3 DEF OrderInv
<1> QED
  BY <1>1, <1>2, <1>4, <1>5

LEMMA BadTaskFileInv ==
  ASSUME subtasks \in SubtaskLists, ReadInv, BadTaskFile
  PROVE  ReadInv'
<1>1. /\ convert \in {"file", "segments"} /\ convert' = "failed"
      /\ UNCHANGED <<printvars, taskfiles, broken, converted, segments, rtpt>>
  BY DEF BadTaskFile, InFile
<1>2. broken # <<>> /\ broken[1] = TaskFile
  BY DEF BadTaskFile, Bad
<1>3. Unread' = Unread /\ TaskFile' = TaskFile /\ FilesInv' /\ OrderInv'
  BY <1>1, SameFile DEF ReadInv
<1>4. LinesInv'
  BY <1>1 DEF ReadInv, LinesInv
<1>5. BrokenInv'
  BY <1>1, <1>2, <1>3 DEF ReadInv, BrokenInv
<1> QED
  BY <1>3, <1>4, <1>5 DEF ReadInv

LEMMA ReadPeriodInv ==
  ASSUME subtasks \in SubtaskLists, ReadInv, ReadPeriod
  PROVE  ReadInv'
<1>1. /\ convert = "file" /\ convert' = "segments" /\ Unread # {}
      /\ UNCHANGED <<printvars, taskfiles, broken, converted, segments, rtpt>>
  BY DEF ReadPeriod, InFile
<1>2. broken # <<TaskFile, 0>>
  BY <1>1 DEF ReadPeriod, Bad
<1>3. Unread' = Unread /\ TaskFile' = TaskFile /\ FilesInv' /\ OrderInv'
  BY <1>1, SameFile DEF ReadInv
<1>4. segments = <<>> /\ segments' = <<>> /\ Len(segments') = 0 /\ segments' \in Seq(Lines)
  BY <1>1 DEF ReadInv, LinesInv
<1>5. TaskFile \in Programs /\ Len(taskfiles[TaskFile].segs) \in Nat
  BY <1>1, FilesFacts
<1>6. rtpt = [k \in DOMAIN converted |->
                Timing(taskfiles[converted[k]].segs, taskfiles[converted[k]].period)]
  BY <1>1 DEF ReadInv, LinesInv
<1>7. LinesInv'
  BY <1>1, <1>3, <1>4, <1>5, <1>6 DEF LinesInv
<1>8. BrokenInv'
  <2>1. ASSUME broken # <<>>
        PROVE  /\ broken = <<broken[1], broken[2]>>
               /\ broken[1] \in Unread /\ broken[2] \in 0 .. Len(taskfiles[broken[1]].segs)
    BY <1>1, <2>1 DEF ReadInv, BrokenInv
  <2>2. ASSUME broken # <<>>, broken[1] = TaskFile PROVE broken[2] > 0
    <3>1. broken[2] # 0
      BY <1>2, <2>1, <2>2
    <3>2. broken[2] \in 0 .. Len(taskfiles[TaskFile].segs)
      BY <2>1, <2>2
    <3> QED
      BY <1>5, <3>1, <3>2
  <2> QED
    BY <1>1, <1>3, <1>4, <2>1, <2>2 DEF BrokenInv
<1> QED
  BY <1>3, <1>7, <1>8 DEF ReadInv

LEMMA WriteSegmentInv ==
  ASSUME subtasks \in SubtaskLists, ReadInv, WriteSegment
  PROVE  ReadInv'
<1>1. /\ convert = "segments" /\ convert' = "segments"
      /\ Len(segments) < Len(taskfiles[TaskFile].segs)
      /\ UNCHANGED <<printvars, taskfiles, broken, convert, converted, rtpt>>
  BY DEF WriteSegment
<1>2. /\ segments' = Append(segments, taskfiles[TaskFile].segs[Len(segments) + 1])
      /\ broken # <<TaskFile, Len(segments) + 1>>
  BY <1>1 DEF WriteSegment, Bad
<1>3. Unread' = Unread /\ TaskFile' = TaskFile /\ FilesInv' /\ OrderInv'
  BY <1>1, SameFile DEF ReadInv
<1>4. /\ Unread # {} /\ segments \in Seq(Lines)
      /\ \A k \in 1 .. Len(segments) : segments[k] = taskfiles[TaskFile].segs[k]
      /\ rtpt = [k \in DOMAIN converted |->
                   Timing(taskfiles[converted[k]].segs, taskfiles[converted[k]].period)]
  BY <1>1 DEF ReadInv, LinesInv
<1>5. TaskFile \in Programs /\ taskfiles[TaskFile].segs \in Seq(Lines) /\ Len(taskfiles[TaskFile].segs) \in Nat
  BY <1>1, <1>4, FilesFacts
<1>6. PICK all, n : all = taskfiles[TaskFile].segs /\ n = Len(segments)
  OBVIOUS
<1>7. /\ n \in Nat /\ n + 1 \in 1 .. Len(all) /\ all \in Seq(Lines) /\ Len(all) \in Nat
      /\ segments' = Append(segments, all[n + 1])
      /\ \A k \in 1 .. n : segments[k] = all[k]
  BY <1>1, <1>2, <1>4, <1>5, <1>6
<1>8. all[n + 1] \in Lines
  BY <1>7
<1>9. segments' \in Seq(Lines) /\ Len(segments') = n + 1
  BY <1>4, <1>6, <1>7, <1>8
<1>10. ASSUME NEW k \in 1 .. n + 1 PROVE segments'[k] = all[k]
  <2>1. CASE k = n + 1
    BY <1>4, <1>6, <1>7, <2>1
  <2>2. CASE k \in 1 .. n
    <3>1. segments'[k] = segments[k]
      BY <1>4, <1>6, <1>7, <2>2
    <3> QED
      BY <1>7, <2>2, <3>1
  <2>3. k = n + 1 \/ k \in 1 .. n
    BY <1>7
  <2> QED
    BY <2>1, <2>2, <2>3
<1>11. taskfiles'[TaskFile'].segs = all
  BY <1>1, <1>3, <1>6
<1>12. LinesInv'
  BY <1>1, <1>3, <1>4, <1>7, <1>9, <1>10, <1>11 DEF LinesInv
<1>13. BrokenInv'
  <2>1. ASSUME broken # <<>>
        PROVE  /\ broken = <<broken[1], broken[2]>>
               /\ broken[1] \in Unread /\ broken[2] \in 0 .. Len(taskfiles[broken[1]].segs)
               /\ broken[1] = TaskFile => broken[2] > n
    BY <1>1, <1>6, <2>1 DEF ReadInv, BrokenInv
  <2>2. ASSUME broken # <<>>, broken[1] = TaskFile PROVE broken[2] > n + 1
    <3>1. broken[2] # n + 1
      BY <1>2, <1>6, <2>1, <2>2
    <3>2. broken[2] \in 0 .. Len(all) /\ broken[2] > n
      BY <1>6, <2>1, <2>2
    <3> QED
      BY <1>7, <3>1, <3>2
  <2> QED
    BY <1>1, <1>3, <1>9, <2>1, <2>2 DEF BrokenInv
<1> QED
  BY <1>3, <1>12, <1>13 DEF ReadInv

LEMMA EndOutputInv ==
  ASSUME subtasks \in SubtaskLists, ReadInv, EndOutput
  PROVE  ReadInv'
<1>1. /\ convert = "file" /\ convert' = "done" /\ Unread = {}
      /\ UNCHANGED <<printvars, taskfiles, broken, converted, segments, rtpt>>
  BY DEF EndOutput
<1>2. Unread' = Unread /\ TaskFile' = TaskFile /\ FilesInv' /\ OrderInv'
  BY <1>1, SameFile DEF ReadInv
<1>3. LinesInv'
  BY <1>1 DEF ReadInv, LinesInv
<1>4. BrokenInv'
  BY <1>1, <1>2 DEF ReadInv, BrokenInv
<1> QED
  BY <1>2, <1>3, <1>4 DEF ReadInv

LEMMA WriteTimingInv ==
  ASSUME subtasks \in SubtaskLists, ReadInv, WriteTiming
  PROVE  ReadInv'
<1>1. /\ convert = "segments" /\ convert' = "file"
      /\ Len(segments) = Len(taskfiles[TaskFile].segs)
      /\ rtpt' = Append(rtpt, Timing(segments, taskfiles[TaskFile].period))
      /\ converted' = Append(converted, TaskFile) /\ segments' = <<>>
      /\ UNCHANGED <<printvars, taskfiles, broken>>
  BY DEF WriteTiming
<1>2. /\ Unread # {} /\ segments \in Seq(Lines)
      /\ \A k \in 1 .. Len(segments) : segments[k] = taskfiles[TaskFile].segs[k]
      /\ rtpt = [k \in DOMAIN converted |->
                   Timing(taskfiles[converted[k]].segs, taskfiles[converted[k]].period)]
  BY <1>1 DEF ReadInv, LinesInv
<1>3. PICK f : f = TaskFile
  OBVIOUS
<1>4. /\ f \in Unread /\ f \in Programs /\ Unread \subseteq Programs
      /\ \A g \in Unread : NameRank[f] <= NameRank[g]
      /\ taskfiles[f].segs \in Seq(Lines) /\ Len(taskfiles[f].segs) \in Nat
      /\ DOMAIN taskfiles = Programs
  BY <1>1, <1>2, <1>3, FilesFacts
<1>5. segments = taskfiles[f].segs
  <2>1. DOMAIN segments = 1 .. Len(segments) /\ DOMAIN taskfiles[f].segs = 1 .. Len(segments)
    BY <1>1, <1>2, <1>3, <1>4
  <2>2. segments = [k \in DOMAIN segments |-> segments[k]]
        /\ taskfiles[f].segs = [k \in DOMAIN taskfiles[f].segs |-> taskfiles[f].segs[k]]
    BY <1>2, <1>4
  <2> QED
    BY <1>2, <1>3, <2>1, <2>2
<1>6. /\ converted \in Seq(Programs)
      /\ \A j, k \in DOMAIN converted : j < k => NameRank[converted[j]] < NameRank[converted[k]]
      /\ \A k \in DOMAIN converted : \A g \in Unread : NameRank[converted[k]] < NameRank[g]
  BY <1>1 DEF ReadInv, OrderInv
<1>7. PICK m \in Nat : m = Len(converted) /\ DOMAIN converted = 1 .. m
  BY <1>6
<1>8. /\ converted' \in Seq(Programs) /\ DOMAIN converted' = 1 .. m + 1
      /\ converted'[m + 1] = f /\ \A k \in 1 .. m : converted'[k] = converted[k]
  BY <1>1, <1>3, <1>4, <1>6, <1>7
<1>9. Programs' = Programs /\ subtasks' = subtasks
  BY <1>1 DEF printvars, Programs
<1>10. Unread' = Unread \ {f}
  <2>1. Range(converted') = Range(converted) \cup {f}
    <3>1. \A k \in 1 .. m + 1 : k \in 1 .. m \/ k = m + 1
      OBVIOUS
    <3>2. Range(converted) \subseteq Range(converted')
      <4> SUFFICES ASSUME NEW k \in 1 .. m PROVE converted[k] \in Range(converted')
        BY <1>7 DEF Range
      <4>1. k \in DOMAIN converted' /\ converted'[k] = converted[k]
        BY <1>8
      <4> QED
        BY <4>1 DEF Range
    <3>3. f \in Range(converted')
      BY <1>8 DEF Range
    <3>4. ASSUME NEW k \in 1 .. m + 1 PROVE converted'[k] \in Range(converted) \cup {f}
      BY <1>7, <1>8, <3>1 DEF Range
    <3>5. Range(converted') \subseteq Range(converted) \cup {f}
      BY <1>8, <3>4 DEF Range
    <3> QED
      BY <3>2, <3>3, <3>5
  <2>2. Unread' = DOMAIN taskfiles \ Range(converted')
    BY <1>1 DEF Unread
  <2> QED
    BY <2>1, <2>2 DEF Unread
<1>11. FilesInv'
  BY <1>1, <1>9 DEF ReadInv, FilesInv
<1>12. \A j, k \in DOMAIN converted' : j < k => NameRank[converted'[j]] < NameRank[converted'[k]]
  <2> SUFFICES ASSUME NEW j \in 1 .. m + 1, NEW k \in 1 .. m + 1, j < k
               PROVE  NameRank[converted'[j]] < NameRank[converted'[k]]
    BY <1>8
  <2>1. j \in 1 .. m /\ converted'[j] = converted[j]
    BY <1>8
  <2>2. CASE k = m + 1
    BY <1>4, <1>6, <1>7, <1>8, <2>1, <2>2
  <2>3. CASE k \in 1 .. m
    BY <1>6, <1>7, <1>8, <2>1, <2>3
  <2>4. k = m + 1 \/ k \in 1 .. m
    OBVIOUS
  <2> QED
    BY <2>2, <2>3, <2>4
<1>13. \A k \in DOMAIN converted' : \A g \in Unread' : NameRank[converted'[k]] < NameRank[g]
  <2> SUFFICES ASSUME NEW k \in 1 .. m + 1, NEW g \in Unread \ {f}
               PROVE  NameRank[converted'[k]] < NameRank[g]
    BY <1>8, <1>10
  <2>1. CASE k = m + 1
    <3>1. NameRank[f] \in Nat /\ NameRank[g] \in Nat /\ NameRank[f] # NameRank[g] /\ NameRank[f] <= NameRank[g]
      BY <1>4, ProgramRanks
    <3> QED
      BY <1>8, <2>1, <3>1
  <2>2. CASE k \in 1 .. m
    BY <1>6, <1>7, <1>8, <2>2
  <2>3. k = m + 1 \/ k \in 1 .. m
    OBVIOUS
  <2> QED
    BY <2>1, <2>2, <2>3
<1>14. OrderInv'
  BY <1>1, <1>8, <1>9, <1>12, <1>13 DEF OrderInv
<1>15. rtpt' = [k \in DOMAIN converted' |->
                  Timing(taskfiles'[converted'[k]].segs, taskfiles'[converted'[k]].period)]
  <2> DEFINE T(g) == Timing(taskfiles[g].segs, taskfiles[g].period)
  <2>1. rtpt = [k \in 1 .. m |-> T(converted[k])] /\ rtpt' = Append(rtpt, T(f))
    BY <1>1, <1>2, <1>3, <1>5, <1>7
  <2> HIDE DEF T
  <2>2. PICK y : y = T(f)
    OBVIOUS
  <2>3. rtpt \in Seq({T(converted[k]) : k \in 1 .. m} \cup {y}) /\ Len(rtpt) = m
    BY <2>1
  <2>4. rtpt' = [k \in 1 .. m + 1 |-> IF k = m + 1 THEN y ELSE rtpt[k]]
    BY <2>1, <2>2, <2>3 DEF Append
  <2>5. ASSUME NEW k \in 1 .. m + 1 PROVE rtpt'[k] = T(converted'[k])
    <3>1. CASE k = m + 1
      BY <1>8, <2>2, <2>4, <3>1
    <3>2. CASE k \in 1 .. m
      <4>1. rtpt'[k] = rtpt[k]
        BY <2>4, <3>2
      <4> QED
        BY <1>8, <2>1, <3>2, <4>1
    <3>3. k = m + 1 \/ k \in 1 .. m
      OBVIOUS
    <3> QED
      BY <3>1, <3>2, <3>3
  <2>6. rtpt' = [k \in 1 .. m + 1 |-> T(converted'[k])]
    BY <2>4, <2>5
  <2>7. taskfiles' = taskfiles
    BY <1>1
  <2> QED
    BY <1>8, <2>6, <2>7 DEF T
<1>16. LinesInv'
  BY <1>1, <1>15 DEF LinesInv
<1>17. BrokenInv'
  <2>1. ASSUME broken # <<>>
        PROVE  /\ broken = <<broken[1], broken[2]>>
               /\ broken[1] \in Unread /\ broken[2] \in 0 .. Len(taskfiles[broken[1]].segs)
               /\ broken[1] = f => broken[2] > Len(segments)
    BY <1>1, <1>3, <2>1 DEF ReadInv, BrokenInv
  <2>2. ASSUME broken # <<>> PROVE broken[1] # f
    <3> SUFFICES ASSUME broken[1] = f PROVE FALSE
      OBVIOUS
    <3>1. broken[2] \in 0 .. Len(segments) /\ broken[2] > Len(segments) /\ Len(segments) \in Nat
      BY <1>2, <1>5, <2>1, <2>2
    <3> QED
      BY <3>1
  <2> QED
    BY <1>1, <1>10, <2>1, <2>2 DEF BrokenInv
<1> QED
  BY <1>11, <1>14, <1>16, <1>17 DEF ReadInv

-------------------------------------------------------------------------------
LEMMA InitConv == Init => ConvInv
<1>1. ASSUME RtptInit PROVE subtasks \in SubtaskLists /\ PrintInv /\ FilesInv /\ OrderInv /\ LinesInv /\ BrokenInv
  <2>1. /\ subtasks \in SubtaskLists /\ printed = 0 /\ printing = NoProgram /\ taskfiles = <<>> /\ broken = <<>>
        /\ convert = "print" /\ converted = <<>> /\ segments = <<>> /\ rtpt = <<>>
    BY <1>1 DEF RtptInit
  <2>2. DOMAIN taskfiles = {} /\ ProgramsUpTo(printed) = {}
    BY <2>1 DEF ProgramsUpTo
  <2>3. printing = [prog |-> printing.prog, period |-> printing.period, segs |-> printing.segs]
        /\ printing.prog = 0
    BY <2>1 DEF NoProgram
  <2>4. printed \in 0 .. Len(subtasks)
    BY <2>1, SubsType
  <2>5. PrintInv
    BY <2>1, <2>2, <2>3, <2>4 DEF PrintInv
  <2> QED
    BY <2>1, <2>5 DEF FilesInv, OrderInv, LinesInv, BrokenInv
<1>2. ASSUME NoConversion PROVE subtasks = <<>> /\ converted = <<>> /\ rtpt = <<>> /\ broken = <<>> /\ convert = "done"
  BY <1>2 DEF NoConversion
<1> QED
  BY <1>1, <1>2 DEF Init, ConvInv

LEMMA RtptStepInv ==
  ASSUME subtasks \in SubtaskLists, PrintInv, ReadInv, RtptStep
  PROVE  subtasks' \in SubtaskLists /\ PrintInv' /\ ReadInv'
<1>1. subtasks' = subtasks
  BY DEF RtptStep, SameProgram, NextProgram, LastProgram, BadTaskFile, ReadPeriod, WriteSegment,
         WriteTiming, EndOutput, printvars
<1>2. CASE SameProgram \/ NextProgram
  <2>1. PrintInv'
    BY <1>2, SameProgramInv, NextProgramInv
  <2>2. convert' = "print"
    BY <1>2 DEF SameProgram, NextProgram
  <2>3. ReadInv'
    BY <2>2 DEF ReadInv, FilesInv, OrderInv, LinesInv, BrokenInv
  <2> QED
    BY <1>1, <2>1, <2>3
<1>3. CASE LastProgram \/ BadTaskFile \/ ReadPeriod \/ WriteSegment \/ WriteTiming \/ EndOutput
  <2>1. ReadInv'
    BY <1>3, LastProgramInv, BadTaskFileInv, ReadPeriodInv, WriteSegmentInv, WriteTimingInv, EndOutputInv DEF ReadInv
  <2>2. convert' # "print"
    BY <1>3 DEF LastProgram, BadTaskFile, ReadPeriod, WriteSegment, WriteTiming, EndOutput
  <2>3. PrintInv'
    BY <2>2 DEF PrintInv
  <2> QED
    BY <1>1, <2>1, <2>3
<1> QED
  BY <1>2, <1>3 DEF RtptStep

LEMMA StepConv == ASSUME ConvInv, [Next]_vars PROVE ConvInv'
<1>1. CASE Convert
  <2>1. program = "convert" /\ program' = program /\ RtptStep
    BY <1>1 DEF Convert
  <2>2. subtasks' \in SubtaskLists /\ PrintInv' /\ ReadInv'
    BY <2>1, RtptStepInv DEF ConvInv, ReadInv
  <2> QED
    BY <2>1, <2>2 DEF ConvInv, ReadInv
<1>2. CASE UNCHANGED <<program, rtptvars>>
  <2>1. /\ program' = program /\ subtasks' = subtasks /\ printed' = printed /\ printing' = printing
        /\ UNCHANGED <<printvars, taskfiles, broken, convert, converted, segments, rtpt>>
    BY <1>2 DEF rtptvars, printvars
  <2>2. Unread' = Unread /\ Programs' = Programs /\ ProgramsUpTo(printed)' = ProgramsUpTo(printed)
    BY <2>1 DEF Unread, Programs, ProgramsUpTo
  <2>3. TaskFile' = TaskFile
    BY <2>2 DEF TaskFile
  <2>4. PrintInv => PrintInv'
    BY <2>1, <2>2 DEF PrintInv
  <2>5. FilesInv => FilesInv'
    BY <2>1, <2>2 DEF FilesInv
  <2>6. OrderInv => OrderInv'
    BY <2>1, <2>2 DEF OrderInv
  <2>7. LinesInv => LinesInv'
    BY <2>1, <2>2, <2>3 DEF LinesInv
  <2>8. BrokenInv => BrokenInv'
    BY <2>1, <2>2, <2>3 DEF BrokenInv
  <2> QED
    BY <2>1, <2>4, <2>5, <2>6, <2>7, <2>8 DEF ConvInv
<1> QED
  BY <1>1, <1>2 DEF Next, Generate, Gather, Execute, vars

-------------------------------------------------------------------------------
\* What the invariant says of lines and of their programs.
LEMMA TimeStands ==
  ASSUME NEW x \in Nat
  PROVE  Stands(ToTimespec(x), x)
<1>1. PICK d, r : d = x \div Second /\ r = x % Second
  OBVIOUS
<1>2. d \in Int /\ r \in 0 .. Second - 1 /\ d * Second + r = x
  BY <1>1, RtptSize
<1>3. ToTimespec(x) = <<d, r>>
  BY <1>1 DEF ToTimespec
<1> QED
  BY <1>2, <1>3 DEF Stands

LEMMA ReleasesFit ==
  ASSUME NEW n \in Nat, NEW p \in Nat \ {0}
  PROVE  (n \div p) * p <= n /\ ((n \div p) + 1) * p > n
<1>1. PICK q, r : q = n \div p /\ r = n % p
  OBVIOUS
<1>2. q \in Int /\ r \in 0 .. p - 1
  BY <1>1
<1>3. q * p + r = n
  BY <1>1
<1>4. (q + 1) * p = q * p + p /\ q * p \in Int
  BY <1>2
<1>5. PICK x : x = q * p
  OBVIOUS
<1>6. x <= n /\ x + p > n
  BY <1>2, <1>3, <1>4, <1>5
<1> QED
  BY <1>1, <1>4, <1>5, <1>6

LEMMA IntervalEnds ==
  ASSUME NEW a \in Nat, NEW b \in Nat, a <= b
  PROVE  Min(a .. b) = a /\ Max(a .. b) = b
<1>1. a \in a .. b /\ b \in a .. b
  OBVIOUS
<1>2. /\ a .. b \subseteq Int /\ a .. b # {} /\ \A x \in a .. b : a <= x
      /\ \A x \in a .. b : x <= b
      /\ a \in Int /\ b \in Int
  BY <1>1
<1>3. Min(a .. b) \in a .. b /\ \A x \in a .. b : Min(a .. b) <= x
  BY <1>2, IntLeast
<1>4. Max(a .. b) \in a .. b /\ \A x \in a .. b : x <= Max(a .. b)
  BY <1>2, IntGreatest
<1> QED
  BY <1>1, <1>3, <1>4

LEMMA LineFollows ==
  ASSUME subtasks \in SubtaskLists, NEW task, NEW id, Holds(subtasks, task, id, Len(subtasks))
  PROVE  LineIsRight(Timing(task.segs, task.period), SubtasksOf(id))
<1>0. Len(subtasks) \in Nat /\ DOMAIN subtasks = 1 .. Len(subtasks) /\ subtasks \in Seq(SubtaskOf)
  BY SubsType
<1>1. PICK segs, l : segs = task.segs /\ l = Len(segs)
  OBVIOUS
<1>2. segs \in Seq(Lines) /\ l \in Nat /\ l >= 1 /\ DOMAIN segs = 1 .. l /\ segs = [k \in 1 .. l |-> segs[k]]
  BY <1>1 DEF Holds
<1>3. PICK b \in 0 .. Len(subtasks) :
        /\ {k \in 1 .. Len(subtasks) : subtasks[k].prog = id} = b + 1 .. b + l
        /\ task.period = subtasks[b + 1].period
        /\ \A k \in 1 .. l : segs[k] = SegmentLine(subtasks[b + k])
  BY <1>1 DEF Holds
<1>4. b \in Nat /\ b + 1 \in Nat /\ b + l \in Nat /\ b + 1 <= b + l
  BY <1>0, <1>2, <1>3
<1>5. b + l <= Len(subtasks)
  <2>1. b + l \in b + 1 .. b + l
    BY <1>4
  <2> QED
    BY <1>3, <2>1
<1>6. PICK subs : subs = SubtasksOf(id)
  OBVIOUS
<1>7. subs = SubSeq(subtasks, b + 1, b + l)
  <2>1. {k \in DOMAIN subtasks : subtasks[k].prog = id} = b + 1 .. b + l
    BY <1>0, <1>3
  <2>2. Min(b + 1 .. b + l) = b + 1 /\ Max(b + 1 .. b + l) = b + l
    BY <1>4, IntervalEnds
  <2> QED
    BY <1>6, <2>1, <2>2 DEF SubtasksOf
<1>8. DOMAIN subs = 1 .. l /\ \A k \in 1 .. l : subs[k] = subtasks[b + k] /\ subs[k] \in SubtaskOf
  <2>1. PICK m, n : m = b + 1 /\ n = b + l
    OBVIOUS
  <2>2. m \in Int /\ n \in Int /\ m <= n /\ n - m + 1 = l
    BY <1>2, <1>4, <2>1
  <2>3. \A k \in m .. n : subtasks[k] \in SubtaskOf
    BY <1>0, <1>4, <1>5, <2>1
  <2>4. subs = SubSeq(subtasks, m, n)
    BY <1>7, <2>1
  <2>5. /\ subs \in Seq(SubtaskOf) /\ Len(subs) = l
        /\ \A k \in 1 .. l : subs[k] = subtasks[m + k - 1]
    BY <2>2, <2>3, <2>4, SubSeqProperties
  <2>6. ASSUME NEW k \in 1 .. l PROVE m + k - 1 = b + k
    BY <1>2, <1>4, <2>1
  <2>7. DOMAIN subs = 1 .. l
    BY <2>5
  <2>8. ASSUME NEW k \in 1 .. l PROVE subs[k] \in SubtaskOf
    BY <2>5
  <2> QED
    BY <2>5, <2>6, <2>7, <2>8
<1>9. ASSUME NEW k \in 1 .. l
      PROVE  /\ segs[k] = SegmentLine(subs[k]) /\ segs[k].count = subs[k].count /\ segs[k].len = subs[k].len
             /\ segs[k].count \in Nat /\ segs[k].len \in Nat /\ segs[k].count * segs[k].len \in Nat
  <2>1. segs[k] = SegmentLine(subs[k]) /\ subs[k] \in SubtaskOf
    BY <1>3, <1>8
  <2> QED
    BY <2>1 DEF SegmentLine, SubtaskOf
<1>10. segs = [k \in DOMAIN subs |-> SegmentLine(subs[k])]
  BY <1>2, <1>8, <1>9
<1>11. PICK w, s : w = [k \in 1 .. l |-> subs[k].count * subs[k].len] /\ s = [k \in 1 .. l |-> subs[k].len]
  OBVIOUS
<1>12. /\ w = [k \in DOMAIN segs |-> segs[k].count * segs[k].len] /\ s = [k \in DOMAIN segs |-> segs[k].len]
       /\ w = [k \in DOMAIN subs |-> subs[k].count * subs[k].len] /\ s = [k \in DOMAIN subs |-> subs[k].len]
       /\ DOMAIN w = 1 .. l /\ DOMAIN s = 1 .. l
       /\ \A k \in 1 .. l : w[k] \in Nat /\ s[k] \in Nat
  BY <1>2, <1>8, <1>9, <1>11
<1>13. SumFunction(w) \in Nat /\ SumFunction(s) \in Nat
  <2>1. IsFiniteSet(1 .. l)
    BY <1>2, FS_Interval
  <2>2. SumFunctionOnSet(w, 1 .. l) \in Nat /\ SumFunctionOnSet(s, 1 .. l) \in Nat
    BY <1>12, <2>1, SumNat
  <2> QED
    BY <1>12, <2>2 DEF SumFunction
<1>14. PICK p : p = subs[1].period
  OBVIOUS
<1>15. p = task.period /\ p \in Nat \ {0}
  <2>1. 1 \in 1 .. l
    BY <1>2
  <2>2. subs[1] = subtasks[b + 1] /\ subs[1] \in SubtaskOf
    BY <1>8, <2>1
  <2> QED
    BY <1>3, <1>14, <2>2 DEF SubtaskOf
<1>16. PICK q : q = TotalTime \div p
  OBVIOUS
<1>17. q * p <= TotalTime /\ (q + 1) * p > TotalTime
  BY <1>15, <1>16, RtptSize, ReleasesFit
<1>18. PICK line : line = Timing(segs, p)
  OBVIOUS
<1>19. /\ line.segs = segs /\ line.iters = q /\ line.work = ToTimespec(SumFunction(w))
       /\ line.span = ToTimespec(SumFunction(s)) /\ line.period = ToTimespec(p)
  BY <1>12, <1>16, <1>18 DEF Timing
<1>20. Stands(line.work, SumFunction(w)) /\ Stands(line.span, SumFunction(s)) /\ Stands(line.period, p)
  BY <1>13, <1>15, <1>19, TimeStands
<1>21. LineIsRight(line, subs)
  BY <1>10, <1>12, <1>14, <1>17, <1>19, <1>20 DEF LineIsRight
<1> QED
  BY <1>1, <1>6, <1>15, <1>18, <1>21

LEMMA ConvFollows == ASSUME ConvInv PROVE ConversionIsRight
<1>1. CASE program = "convert" /\ convert # "print"
  <2>1. /\ subtasks \in SubtaskLists /\ ReadInv /\ DOMAIN taskfiles = Programs
        /\ \A id \in Programs : Holds(subtasks, taskfiles[id], id, Len(subtasks))
    BY <1>1 DEF ConvInv, ReadInv, FilesInv
  <2>2. /\ converted \in Seq(Programs)
        /\ \A j, k \in DOMAIN converted : j < k => NameRank[converted[j]] < NameRank[converted[k]]
        /\ \A k \in DOMAIN converted : \A f \in Unread : NameRank[converted[k]] < NameRank[f]
        /\ convert = "done" => Unread = {}
        /\ rtpt = [k \in DOMAIN converted |->
                     Timing(taskfiles[converted[k]].segs, taskfiles[converted[k]].period)]
    BY <1>1, <2>1 DEF ReadInv, OrderInv, LinesInv
  <2>3. PICK m \in Nat : m = Len(converted) /\ DOMAIN converted = 1 .. m /\ \A k \in 1 .. m : converted[k] \in Programs
    BY <2>2
  <2>4. Range(converted) \subseteq Programs
    BY <2>3 DEF Range
  <2>5. LinesAreRight
    <3>1. DOMAIN rtpt = 1 .. m /\ Len(rtpt) = m
      BY <2>2, <2>3
    <3>2. ASSUME NEW k \in 1 .. m PROVE LineIsRight(rtpt[k], SubtasksOf(converted[k]))
      <4>1. Holds(subtasks, taskfiles[converted[k]], converted[k], Len(subtasks))
        BY <2>1, <2>3
      <4>2. rtpt[k] = Timing(taskfiles[converted[k]].segs, taskfiles[converted[k]].period)
        BY <2>2, <2>3
      <4> QED
        BY <2>1, <4>1, <4>2, LineFollows
    <3> QED
      BY <2>2, <2>3, <3>1, <3>2 DEF LinesAreRight
  <2>6. ASSUME convert = "done" PROVE Range(converted) = Programs /\ broken = <<>>
    <3>1. Unread = {}
      BY <2>2, <2>6
    <3>2. Programs \subseteq Range(converted)
      BY <2>1, <3>1 DEF Unread
    <3>3. broken = <<>>
      BY <1>1, <2>1, <3>1 DEF ReadInv, BrokenInv
    <3> QED
      BY <2>4, <3>2, <3>3
  <2>7. ASSUME convert = "failed"
        PROVE  Range(converted) = {id \in Programs : NameRank[id] < NameRank[broken[1]]}
    <3>1. broken[1] = TaskFile /\ Unread # {}
      BY <1>1, <2>1, <2>7 DEF ReadInv, BrokenInv
    <3>2. TaskFile \in Unread /\ TaskFile \in Programs /\ \A g \in Unread : NameRank[TaskFile] <= NameRank[g]
      BY <1>1, <2>1, <3>1, FilesFacts
    <3>3. ASSUME NEW id \in Range(converted) PROVE NameRank[id] < NameRank[TaskFile]
      <4>1. PICK k \in 1 .. m : id = converted[k]
        BY <2>3 DEF Range
      <4> QED
        BY <2>2, <2>3, <3>2, <4>1
    <3>4. ASSUME NEW id \in Programs, NameRank[id] < NameRank[TaskFile] PROVE id \in Range(converted)
      <4>1. NameRank[id] \in Nat /\ NameRank[TaskFile] \in Nat
        BY <2>1, <3>2, ProgramRanks
      <4>2. id \notin Unread
        BY <3>2, <3>4, <4>1
      <4> QED
        BY <2>1, <4>2 DEF Unread
    <3> QED
      BY <2>4, <3>1, <3>3, <3>4
  <2> QED
    BY <2>5, <2>6, <2>7 DEF ConversionIsRight
<1>2. CASE program = "convert" /\ convert = "print"
  <2>1. converted = <<>> /\ rtpt = <<>>
    BY <1>2 DEF ConvInv, PrintInv
  <2> QED
    BY <1>2, <2>1 DEF ConversionIsRight, LinesAreRight
<1>3. CASE program # "convert"
  <2>1. subtasks = <<>> /\ converted = <<>> /\ rtpt = <<>> /\ broken = <<>> /\ convert = "done"
    BY <1>3 DEF ConvInv
  <2>2. Range(converted) = {} /\ Programs = {}
    BY <2>1 DEF Range, Programs
  <2> QED
    BY <2>1, <2>2 DEF ConversionIsRight, LinesAreRight
<1> QED
  BY <1>1, <1>2, <1>3

(***************************************************************************)
(* The lines of the converted file are programs of the task set, each with *)
(* all its segments, in the order of their names; all are there unless a   *)
(* file was malformed, and then those before it: ConversionIsRight, part   *)
(* of OutputsAreRight, for all task sets and any order of names.           *)
(***************************************************************************)
THEOREM ProgramsAreConverted == Spec => []ConversionIsRight
<1>1. ConvInv /\ [Next]_vars => ConvInv'
  BY StepConv
<1>2. ConvInv => ConversionIsRight
  BY ConvFollows
<1> QED
  BY <1>1, <1>2, InitConv, PTL DEF Spec

(***************************************************************************)
(* Every program of an experiment puts out what there was: OutputsAreRight *)
(* as the run experiment checks it, for every value of the constants.      *)
(***************************************************************************)
THEOREM OutputsFollow == Spec => []OutputsAreRight
<1>1. CountsAreRight /\ ConversionIsRight /\ (WorkIsRun /\ FileIsComplete) => OutputsAreRight
  BY DEF OutputsAreRight
<1> QED
  BY <1>1, ScriptsCountRight, ProgramsAreConverted, TasksRunTheirWork, PTL
===============================================================================
