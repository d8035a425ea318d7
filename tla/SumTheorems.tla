------------------------------ MODULE SumTheorems ------------------------------
(***************************************************************************)
(* What the models compute over finite sets and lists: least and greatest  *)
(* elements, sums, reorderings.  SumFunction is a fold that takes one      *)
(* element after another in an order left open; here are the facts that    *)
(* make it a sum, for every finite domain.  They rest on induction over    *)
(* the natural numbers, which is stated for sets of numbers so that it can *)
(* be cited.  A list is sorted by ranks: that is a reordering, which has   *)
(* the elements of the list and its sums.  The later sections are about    *)
(* numbers: utilisation bounds, and jobs that a core serves in the order   *)
(* of their priorities, from one release to the next.                      *)
(***************************************************************************)
EXTENDS ClusterTools, FiniteSetTheorems, SequenceTheorems,
        WellFoundedInduction, TLAPS

-------------------------------------------------------------------------------
(* Induction and extreme elements. *)

\* A set of natural numbers that is not empty has a least one.
LEMMA NatLeast ==
  ASSUME NEW T, T \subseteq Nat, T # {}
  PROVE  \E x \in T : \A y \in T : x <= y
<1> DEFINE R == OpToRel(<, Nat)
<1>1. IsWellFoundedOn(R, Nat)
  BY NatLessThanWellFounded
<1>2. \A x, y \in Nat : y < x => <<y, x>> \in R
  BY DEF OpToRel
<1> HIDE DEF R
<1>3. PICK x \in T : \A y \in T : ~ (<<y, x>> \in R)
  BY <1>1, WFMin
<1>4. \A y \in T : ~ (y < x)
  BY <1>2, <1>3
<1> QED
  BY <1>4

\* Induction, for a set in the place of a predicate.
LEMMA SetInduction ==
  ASSUME NEW S, 0 \in S, \A n \in Nat : n \in S => n + 1 \in S
  PROVE  Nat \subseteq S
<1> DEFINE T == {n \in Nat : n \notin S}
<1> SUFFICES ASSUME T # {} PROVE FALSE
  OBVIOUS
<1>1. PICK x \in T : \A y \in T : x <= y
  BY NatLeast
<1>2. x # 0 /\ x - 1 \in Nat /\ x - 1 \notin T
  BY <1>1
<1>3. x - 1 \in S
  BY <1>2
<1> QED
  BY <1>2, <1>3

\* Integers with a lower or an upper bound have a least or a greatest one.
LEMMA IntLeast ==
  ASSUME NEW T, T \subseteq Int, T # {}, NEW b \in Int, \A x \in T : b <= x
  PROVE  Min(T) \in T /\ \A x \in T : Min(T) <= x
<1> DEFINE U == {n \in Nat : b + n \in T}
<1>1. U # {}
  <2>1. PICK x \in T : TRUE
    OBVIOUS
  <2>2. x - b \in U
    <3>1. x - b \in Nat /\ b + (x - b) = x
      BY <2>1
    <3> QED
      BY <3>1
  <2> QED
    BY <2>2
<1>2. PICK u \in U : \A y \in U : u <= y
  BY <1>1, NatLeast
<1>3. \A x \in T : x - b \in U
  <2> TAKE x \in T
  <2>1. x - b \in Nat /\ b + (x - b) = x
    OBVIOUS
  <2> QED
    BY <2>1
<1>4. \A x \in T : b + u <= x
  BY <1>2, <1>3
<1> QED
  BY <1>2, <1>4 DEF Min

\* ... and one with an upper bound has its Max.
LEMMA IntGreatest ==
  ASSUME NEW T, T \subseteq Int, T # {}, NEW b \in Int, \A x \in T : x <= b
  PROVE  Max(T) \in T /\ \A x \in T : x <= Max(T)
<1> DEFINE U == {n \in Nat : b - n \in T}
<1>1. \A x \in T : b - x \in U
  <2> TAKE x \in T
  <2>1. b - x \in Nat /\ b - (b - x) = x
    OBVIOUS
  <2> QED
    BY <2>1
<1>2. PICK u \in U : \A y \in U : u <= y
  BY <1>1, NatLeast
<1>3. b - u \in T /\ u \in Nat
  OBVIOUS
<1>4. \A x \in T : u <= b - x
  BY <1>1, <1>2
<1> HIDE DEF U
<1>5. \A x \in T : b - u >= x
  BY <1>3, <1>4
<1> QED
  BY <1>3, <1>5 DEF Max

\* Finite sets of integers have both.
LEMMA FiniteBounded ==
  ASSUME NEW T, IsFiniteSet(T), T \subseteq Int
  PROVE  \E b \in Nat : \A x \in T : - b <= x /\ x <= b
<1> DEFINE Bounded(U) == \E b \in Nat : \A x \in U : - b <= x /\ x <= b
           S == {n \in Nat : \A U \in SUBSET T : Cardinality(U) = n => Bounded(U)}
<1>1. ASSUME NEW U \in SUBSET T, Cardinality(U) = 0 PROVE Bounded(U)
  <2>1. U = {}
    BY <1>1, FS_Subset, FS_EmptySet
  <2> QED
    BY <2>1
<1>2. ASSUME NEW n \in Nat, \A V \in SUBSET T : Cardinality(V) = n => Bounded(V),
             NEW U \in SUBSET T, Cardinality(U) = n + 1
      PROVE  Bounded(U)
  <2> HIDE DEF Bounded
  <2> HIDE DEF S
  <2>0. IsFiniteSet(U)
    BY FS_Subset
  <2>1. IsFiniteSet(U) /\ Cardinality(U) = n + 1 /\ Cardinality(U) # 0
    BY <1>2, <2>0
  <2>2. PICK u \in U : TRUE
    BY <2>1, FS_EmptySet
  <2>3. Cardinality(U \ {u}) = n
    <3>1. Cardinality(U \ {u}) = Cardinality(U) - 1
      BY <2>1, FS_RemoveElement
    <3> QED
      BY <2>1, <3>1
  <2>4. Bounded(U \ {u})
    BY <1>2, <2>3
  <2>5. PICK b \in Nat : \A x \in U \ {u} : - b <= x /\ x <= b
    BY <2>4 DEF Bounded
  <2>6. u \in Int
    OBVIOUS
  <2>7. PICK c \in Nat : b <= c /\ - c <= u /\ u <= c
    <3>1. CASE u < 0
      <4>1. b - u \in Nat /\ b <= b - u /\ - (b - u) <= u /\ u <= b - u
        BY <2>6, <3>1
      <4> QED
        BY <4>1
    <3>2. CASE u >= 0
      <4>1. b + u \in Nat /\ b <= b + u /\ - (b + u) <= u /\ u <= b + u
        BY <2>6, <3>2
      <4> QED
        BY <4>1
    <3> QED
      BY <2>6, <3>1, <3>2
  <2>8. \A x \in U : - c <= x /\ x <= c
    BY <2>5, <2>7
  <2> QED
    BY <2>8 DEF Bounded
<1> HIDE DEF Bounded
<1>3. 0 \in S /\ \A n \in Nat : n \in S => n + 1 \in S
  BY <1>1, <1>2
<1> HIDE DEF S
<1>4. Cardinality(T) \in S
  BY <1>3, SetInduction, FS_CardinalityType
<1> QED
  BY <1>4 DEF S, Bounded

\* A finite set of integers has a Min ...
LEMMA MinFinite ==
  ASSUME NEW T, IsFiniteSet(T), T \subseteq Int, T # {}
  PROVE  Min(T) \in T /\ \A x \in T : Min(T) <= x
<1>1. PICK b \in Nat : \A x \in T : - b <= x
  BY FiniteBounded
<1>2. - b \in Int
  OBVIOUS
<1> QED
  BY <1>1, <1>2, IntLeast

\* ... and a Max.
LEMMA MaxFinite ==
  ASSUME NEW T, IsFiniteSet(T), T \subseteq Int, T # {}
  PROVE  Max(T) \in T /\ \A x \in T : x <= Max(T)
<1>1. PICK b \in Nat : \A x \in T : x <= b
  BY FiniteBounded
<1>2. b \in Int
  OBVIOUS
<1> QED
  BY <1>1, <1>2, IntGreatest

\* The lesser of two integers.
LEMMA MinTwo ==
  ASSUME NEW a \in Int, NEW b \in Int
  PROVE  Min({a, b}) = IF a <= b THEN a ELSE b
<1>1. \A x \in {a, b} : (IF a <= b THEN a ELSE b) <= x
  OBVIOUS
<1> QED
  BY <1>1 DEF Min

\* The greater of two integers.
LEMMA MaxTwo ==
  ASSUME NEW a \in Int, NEW b \in Int
  PROVE  Max({a, b}) = IF a >= b THEN a ELSE b
<1>1. \A x \in {a, b} : (IF a >= b THEN a ELSE b) >= x
  OBVIOUS
<1> QED
  BY <1>1 DEF Max
-------------------------------------------------------------------------------
(* Recursion over the subsets of a finite set. *)

\* Induction over the subsets of a finite set: P is the set of those for which
\* what is to be proved holds.
LEMMA SubsetInduction ==
  ASSUME NEW D, IsFiniteSet(D), NEW P, {} \in P,
         \A s \in SUBSET D : s # {} /\ (\A x \in s : s \ {x} \in P) => s \in P
  PROVE  \A s \in SUBSET D : s \in P
<1> DEFINE S == {n \in Nat : \A s \in SUBSET D : Cardinality(s) = n => s \in P}
<1>1. 0 \in S
  <2>1. ASSUME NEW s \in SUBSET D, Cardinality(s) = 0 PROVE s = {}
    <3>1. IsFiniteSet(s)
      BY FS_Subset
    <3> QED
      BY <2>1, <3>1, FS_EmptySet
  <2> QED
    BY <2>1
<1>2. ASSUME NEW n \in Nat, n \in S PROVE n + 1 \in S
  <2>1. ASSUME NEW s \in SUBSET D, Cardinality(s) = n + 1 PROVE s \in P
    <3>0. IsFiniteSet(s)
      BY FS_Subset
    <3>1. s # {}
      <4>1. n + 1 # 0
        OBVIOUS
      <4> QED
        BY <2>1, <4>1, FS_EmptySet
    <3>2. ASSUME NEW x \in s PROVE s \ {x} \in P
      <4>1. Cardinality(s \ {x}) = Cardinality(s) - 1
        BY <3>0, FS_RemoveElement
      <4>2. Cardinality(s \ {x}) = n
        BY <2>1, <4>1
      <4> QED
        BY <1>2, <4>2
    <3> QED
      BY <3>1, <3>2
  <2> QED
    BY <2>1
<1>3. ASSUME NEW s \in SUBSET D PROVE s \in P
  <2>1. IsFiniteSet(s)
    BY FS_Subset
  <2>2. Cardinality(s) \in Nat
    BY <2>1, FS_CardinalityType
  <2> HIDE DEF S
  <2>3. Cardinality(s) \in S
    BY <1>1, <1>2, <2>2, SetInduction
  <2> QED
    BY <2>3 DEF S
<1> QED
  BY <1>3

\* The element that the folds take next.
Taken(s) == CHOOSE x \in s : TRUE

\* The functions that are defined on every subset from their value on the
\* subset without this element.  There is one.
SumsOf(f, D) ==
  {g \in [SUBSET D -> Int] :
     \A s \in SUBSET D : g[s] = IF s = {} THEN 0 ELSE f[Taken(s)] + g[s \ {Taken(s)}]}

\* There is a function of the subsets that takes one element after another.
LEMMA SumRecursion ==
  ASSUME NEW D, IsFiniteSet(D), NEW f, \A x \in D : f[x] \in Int
  PROVE  SumsOf(f, D) # {}
<1> DEFINE Good(g, s) == g[s] = IF s = {} THEN 0 ELSE f[Taken(s)] + g[s \ {Taken(s)}]
           S == {n \in Nat : \E g \in [SUBSET D -> Int] :
                               \A s \in SUBSET D : Cardinality(s) <= n => Good(g, s)}
<1>0. \A s \in SUBSET D : IsFiniteSet(s)
  BY FS_Subset
<1>00. \A s \in SUBSET D : s # {} => Taken(s) \in s
  BY DEF Taken
<1>1. 0 \in S
  <2>1. [s \in SUBSET D |-> 0] \in [SUBSET D -> Int]
    OBVIOUS
  <2>2. ASSUME NEW s \in SUBSET D, Cardinality(s) <= 0 PROVE s = {}
    <3>1. Cardinality(s) \in Nat
      BY <1>0, FS_CardinalityType
    <3>2. Cardinality(s) = 0
      BY <2>2, <3>1
    <3> QED
      BY <1>0, <3>2, FS_EmptySet
  <2>3. \A s \in SUBSET D : Cardinality(s) <= 0 => Good([x \in SUBSET D |-> 0], s)
    BY <2>2
  <2> HIDE DEF Good
  <2> QED
    BY <2>1, <2>3
<1>2. ASSUME NEW n \in Nat, n \in S PROVE n + 1 \in S
  <2>1. PICK g \in [SUBSET D -> Int] : \A s \in SUBSET D : Cardinality(s) <= n => Good(g, s)
    BY <1>2
  <2> DEFINE k == [s \in SUBSET D |->
                     IF Cardinality(s) = n + 1 THEN f[Taken(s)] + g[s \ {Taken(s)}] ELSE g[s]]
  <2>2. k \in [SUBSET D -> Int]
    <3>1. ASSUME NEW s \in SUBSET D, Cardinality(s) = n + 1
          PROVE  f[Taken(s)] + g[s \ {Taken(s)}] \in Int
      <4>1. s # {}
        <5>1. n + 1 # 0
          OBVIOUS
        <5> QED
          BY <3>1, <5>1, FS_EmptySet
      <4>2. Taken(s) \in D /\ g[s \ {Taken(s)}] \in Int
        BY <1>00, <4>1
      <4> QED
        BY <4>2
    <3> QED
      BY <3>1
  <2>3. ASSUME NEW s \in SUBSET D, Cardinality(s) <= n + 1 PROVE Good(k, s)
    <3>1. Cardinality(s) \in Nat
      BY <1>0, FS_CardinalityType
    <3>2. CASE s = {}
      <4>1. Cardinality(s) = 0
        BY <3>2, FS_EmptySet
      <4>2. k[s] = g[s] /\ Good(g, s)
        BY <2>1, <4>1
      <4> QED
        BY <3>2, <4>2
    <3>3. CASE s # {}
      <4>1. Taken(s) \in s /\ s \ {Taken(s)} \in SUBSET D
        BY <1>00, <3>3
      <4>2. Cardinality(s \ {Taken(s)}) = Cardinality(s) - 1
        <5>1. IsFiniteSet(s)
          BY <1>0
        <5> QED
          BY <4>1, <5>1, FS_RemoveElement
      <4>3. Cardinality(s \ {Taken(s)}) # n + 1
        BY <2>3, <3>1, <4>2
      <4>4. k[s \ {Taken(s)}] = g[s \ {Taken(s)}]
        BY <4>1, <4>3
      <4>5. k[s] = f[Taken(s)] + g[s \ {Taken(s)}]
        <5>1. CASE Cardinality(s) = n + 1
          BY <5>1
        <5>2. CASE Cardinality(s) # n + 1
          <6>1. Cardinality(s) <= n
            BY <2>3, <3>1, <5>2
          <6> QED
            BY <2>1, <3>3, <5>2, <6>1
        <5> QED
          BY <5>1, <5>2
      <4> QED
        BY <3>3, <4>4, <4>5
    <3> QED
      BY <3>2, <3>3
  <2> HIDE DEF k, Good
  <2> QED
    BY <2>2, <2>3
<1>3. Cardinality(D) \in S
  <2> HIDE DEF S
  <2> QED
    BY <1>1, <1>2, SetInduction, FS_CardinalityType
<1>4. PICK g \in [SUBSET D -> Int] : \A s \in SUBSET D : Cardinality(s) <= Cardinality(D) => Good(g, s)
  BY <1>3
<1>5. \A s \in SUBSET D : Cardinality(s) <= Cardinality(D)
  BY FS_Subset
<1>6. \A s \in SUBSET D : Good(g, s)
  BY <1>4, <1>5
<1> QED
  BY <1>6 DEF SumsOf
-------------------------------------------------------------------------------
(* Sums. *)

\* The function that the fold of SumFunctionOnSet goes through.
Iteration(f, D) ==
  CHOOSE g : g = [s \in SUBSET D |-> IF s = {} THEN 0 ELSE f[Taken(s)] + g[s \ {Taken(s)}]]

\* SumFunctionOnSet is that iteration, taken to its end.
LEMMA SumUnfold ==
  ASSUME NEW f, NEW D
  PROVE  SumFunctionOnSet(f, D) = Iteration(f, D)[D]
BY Zenon DEF SumFunctionOnSet, FoldFunctionOnSet, MapThenFoldSet, Iteration, Taken

\* What the iteration does with one element.
LEMMA IterationStep ==
  ASSUME NEW D, IsFiniteSet(D), NEW f, \A x \in D : f[x] \in Int
  PROVE  /\ Iteration(f, D) \in [SUBSET D -> Int]
         /\ \A s \in SUBSET D :
              Iteration(f, D)[s] = IF s = {} THEN 0
                                   ELSE f[Taken(s)] + Iteration(f, D)[s \ {Taken(s)}]
<1> DEFINE F(g) == [s \in SUBSET D |-> IF s = {} THEN 0 ELSE f[Taken(s)] + g[s \ {Taken(s)}]]
<1>0. \A s \in SUBSET D : s # {} => Taken(s) \in s
  BY DEF Taken
<1>3. PICK g \in [SUBSET D -> Int] :
        \A s \in SUBSET D : g[s] = IF s = {} THEN 0 ELSE f[Taken(s)] + g[s \ {Taken(s)}]
  <2>1. PICK g \in SumsOf(f, D) : TRUE
    BY SumRecursion
  <2> QED
    BY <2>1 DEF SumsOf
<1>4. g = F(g)
  BY <1>3
<1>5. Iteration(f, D) = CHOOSE k : k = F(k)
  BY Zenon DEF Iteration
<1>6. Iteration(f, D) = F(Iteration(f, D))
  <2> HIDE DEF F
  <2> QED
    BY <1>4, <1>5
<1> DEFINE I == Iteration(f, D)
<1> HIDE DEF I
<1>7. I = [s \in SUBSET D |-> IF s = {} THEN 0 ELSE f[Taken(s)] + I[s \ {Taken(s)}]]
  BY <1>6 DEF I
<1>8. \A s \in SUBSET D : I[s] = IF s = {} THEN 0 ELSE f[Taken(s)] + I[s \ {Taken(s)}]
  BY <1>7
<1>9. \A s \in SUBSET D : I[s] \in Int
  <2> DEFINE P == {s \in SUBSET D : I[s] \in Int}
  <2>1. {} \in P
    <3>1. {} \in SUBSET D /\ I[{}] = 0
      BY <1>8
    <3> QED
      BY <3>1
  <2>2. ASSUME NEW s \in SUBSET D, s # {}, \A x \in s : s \ {x} \in P PROVE s \in P
    <3>1. Taken(s) \in s /\ f[Taken(s)] \in Int
      BY <1>0, <2>2
    <3>2. I[s \ {Taken(s)}] \in Int
      BY <2>2, <3>1
    <3>3. I[s] = f[Taken(s)] + I[s \ {Taken(s)}]
      BY <1>8, <2>2
    <3> QED
      BY <3>1, <3>2, <3>3
  <2>3. \A s \in SUBSET D : s \in P
    <3> HIDE DEF P
    <3> QED
      BY <2>1, <2>2, SubsetInduction
  <2> QED
    BY <2>3
<1>10. I \in [SUBSET D -> Int]
  <2>1. I = [s \in SUBSET D |-> I[s]]
    BY <1>7
  <2> QED
    BY <1>9, <2>1
<1> QED
  BY <1>8, <1>10 DEF I

\* Where two functions agree, so do the values that their folds go through.
LEMMA IterationSame ==
  ASSUME NEW D, IsFiniteSet(D), NEW f, \A x \in D : f[x] \in Int,
         NEW E, IsFiniteSet(E), NEW k, \A x \in E : k[x] \in Int,
         \A x \in D \cap E : f[x] = k[x]
  PROVE  \A s \in SUBSET (D \cap E) : Iteration(f, D)[s] = Iteration(k, E)[s]
<1> DEFINE I == Iteration(f, D)
           J == Iteration(k, E)
           P == {s \in SUBSET (D \cap E) : I[s] = J[s]}
<1> HIDE DEF I, J
<1>1. \A s \in SUBSET D : I[s] = IF s = {} THEN 0 ELSE f[Taken(s)] + I[s \ {Taken(s)}]
  BY IterationStep DEF I
<1>2. \A s \in SUBSET E : J[s] = IF s = {} THEN 0 ELSE k[Taken(s)] + J[s \ {Taken(s)}]
  BY IterationStep DEF J
<1>3. {} \in P
  BY <1>1, <1>2
<1>4. ASSUME NEW s \in SUBSET (D \cap E), s # {}, \A x \in s : s \ {x} \in P PROVE s \in P
  <2>1. Taken(s) \in s
    BY <1>4 DEF Taken
  <2>2. f[Taken(s)] = k[Taken(s)] /\ I[s \ {Taken(s)}] = J[s \ {Taken(s)}]
    BY <1>4, <2>1
  <2>3. s \in SUBSET D /\ s \in SUBSET E
    OBVIOUS
  <2>4. I[s] = f[Taken(s)] + I[s \ {Taken(s)}] /\ J[s] = k[Taken(s)] + J[s \ {Taken(s)}]
    BY <1>1, <1>2, <1>4, <2>3
  <2> QED
    BY <2>2, <2>4
<1>5. IsFiniteSet(D \cap E)
  BY FS_Subset
<1>6. \A s \in SUBSET (D \cap E) : s \in P
  <2> HIDE DEF P
  <2> QED
    BY <1>3, <1>4, <1>5, SubsetInduction
<1> QED
  BY <1>6 DEF I, J

\* A sum over no element, and over integers.
LEMMA SumEmpty == \A f : SumFunctionOnSet(f, {}) = 0
<1> TAKE f
<1>1. \A x \in {} : f[x] \in Int
  OBVIOUS
<1>2. Iteration(f, {})[{}] = 0
  BY <1>1, IterationStep, FS_EmptySet
<1> QED
  BY <1>2, SumUnfold

\* A sum of integers is an integer.
LEMMA SumInt ==
  ASSUME NEW D, IsFiniteSet(D), NEW f, \A x \in D : f[x] \in Int
  PROVE  SumFunctionOnSet(f, D) \in Int
<1>1. Iteration(f, D) \in [SUBSET D -> Int]
  BY IterationStep
<1> QED
  BY <1>1, SumUnfold

\* Only the values on the set count.
LEMMA SumSame ==
  ASSUME NEW D, IsFiniteSet(D), NEW f, NEW k, \A x \in D : f[x] \in Int /\ f[x] = k[x]
  PROVE  SumFunctionOnSet(f, D) = SumFunctionOnSet(k, D)
<1>1. \A s \in SUBSET (D \cap D) : Iteration(f, D)[s] = Iteration(k, D)[s]
  BY IterationSame
<1>2. D \in SUBSET (D \cap D)
  OBVIOUS
<1> QED
  BY <1>1, <1>2, SumUnfold

\* Any element may be taken out of the sum, not only the one that the fold takes.
LEMMA SumRemove ==
  ASSUME NEW D, IsFiniteSet(D), NEW f, \A x \in D : f[x] \in Int, NEW a \in D
  PROVE  SumFunctionOnSet(f, D) = f[a] + SumFunctionOnSet(f, D \ {a})
<1> DEFINE I == Iteration(f, D)
           P == {s \in SUBSET D : \A x \in s : I[s] = f[x] + I[s \ {x}]}
<1> HIDE DEF I
<1>1. I \in [SUBSET D -> Int]
  BY IterationStep DEF I
<1>2. \A s \in SUBSET D : s # {} => I[s] = f[Taken(s)] + I[s \ {Taken(s)}]
  BY IterationStep DEF I
<1>3. {} \in P
  OBVIOUS
<1>4. ASSUME NEW s \in SUBSET D, s # {}, \A x \in s : s \ {x} \in P PROVE s \in P
  <2> SUFFICES ASSUME NEW x \in s PROVE I[s] = f[x] + I[s \ {x}]
    OBVIOUS
  <2> DEFINE y == Taken(s)
  <2>1. y \in s
    BY DEF Taken
  <2> HIDE DEF y
  <2>2. I[s] = f[y] + I[s \ {y}]
    BY <1>2 DEF y
  <2>3. CASE x = y
    BY <2>2, <2>3
  <2>4. CASE x # y
    <3>1. I[s \ {y}] = f[x] + I[(s \ {y}) \ {x}]
      BY <1>4, <2>1, <2>4
    <3>2. I[s \ {x}] = f[y] + I[(s \ {x}) \ {y}]
      BY <1>4, <2>1, <2>4
    <3>3. (s \ {x}) \ {y} = (s \ {y}) \ {x}
      OBVIOUS
    <3>4. f[x] \in Int /\ f[y] \in Int /\ I[(s \ {y}) \ {x}] \in Int
      BY <1>1, <2>1
    <3>5. I[s] = f[y] + (f[x] + I[(s \ {y}) \ {x}])
      BY <2>2, <3>1
    <3>6. I[s \ {x}] = f[y] + I[(s \ {y}) \ {x}]
      BY <3>2, <3>3
    <3> HIDE DEF P
    <3> QED
      BY <3>4, <3>5, <3>6
  <2> QED
    BY <2>3, <2>4
<1>5. \A s \in SUBSET D : s \in P
  <2> HIDE DEF P
  <2> QED
    BY <1>3, <1>4, SubsetInduction
<1>6. I[D] = f[a] + I[D \ {a}]
  BY <1>5
<1>7. I[D \ {a}] = Iteration(f, D \ {a})[D \ {a}]
  <2>1. IsFiniteSet(D \ {a})
    BY FS_RemoveElement
  <2>2. \A s \in SUBSET (D \cap (D \ {a})) : Iteration(f, D)[s] = Iteration(f, D \ {a})[s]
    BY <2>1, IterationSame
  <2>3. D \ {a} \in SUBSET (D \cap (D \ {a}))
    OBVIOUS
  <2> QED
    BY <2>2, <2>3 DEF I
<1> QED
  BY <1>6, <1>7, SumUnfold DEF I

\* A new element adds its value.
LEMMA SumAdd ==
  ASSUME NEW D, IsFiniteSet(D), NEW f, NEW a, a \notin D, \A x \in D \cup {a} : f[x] \in Int
  PROVE  SumFunctionOnSet(f, D \cup {a}) = SumFunctionOnSet(f, D) + f[a]
<1>1. IsFiniteSet(D \cup {a})
  BY FS_AddElement
<1>2. SumFunctionOnSet(f, D \cup {a}) = f[a] + SumFunctionOnSet(f, (D \cup {a}) \ {a})
  BY <1>1, SumRemove
<1>3. (D \cup {a}) \ {a} = D
  OBVIOUS
<1>4. SumFunctionOnSet(f, D) \in Int /\ f[a] \in Int
  BY SumInt
<1>5. SumFunctionOnSet(f, D \cup {a}) = f[a] + SumFunctionOnSet(f, D)
  BY <1>2, <1>3
<1> QED
  BY <1>4, <1>5

\* A sum grows with its terms, and with the set if no term is negative.
LEMMA SumMonotone ==
  ASSUME NEW D, IsFiniteSet(D), NEW f, NEW k,
         \A x \in D : f[x] \in Int /\ k[x] \in Int /\ f[x] <= k[x]
  PROVE  SumFunctionOnSet(f, D) <= SumFunctionOnSet(k, D)
<1> DEFINE P == {s \in SUBSET D : SumFunctionOnSet(f, s) <= SumFunctionOnSet(k, s)}
<1>1. {} \in P
  BY SumEmpty
<1>2. ASSUME NEW s \in SUBSET D, s # {}, \A x \in s : s \ {x} \in P PROVE s \in P
  <2>1. PICK x \in s : TRUE
    BY <1>2
  <2>2. IsFiniteSet(s) /\ IsFiniteSet(s \ {x})
    BY FS_Subset
  <2>3. /\ SumFunctionOnSet(f, s) = f[x] + SumFunctionOnSet(f, s \ {x})
        /\ SumFunctionOnSet(k, s) = k[x] + SumFunctionOnSet(k, s \ {x})
    BY <2>2, SumRemove
  <2>4. SumFunctionOnSet(f, s \ {x}) \in Int /\ SumFunctionOnSet(k, s \ {x}) \in Int
    BY <2>2, SumInt
  <2>5. SumFunctionOnSet(f, s \ {x}) <= SumFunctionOnSet(k, s \ {x})
    BY <1>2
  <2>6. SumFunctionOnSet(f, s) <= SumFunctionOnSet(k, s)
    BY <2>3, <2>4, <2>5
  <2> QED
    BY <2>6
<1>3. \A s \in SUBSET D : s \in P
  <2> HIDE DEF P
  <2> QED
    BY <1>1, <1>2, SubsetInduction
<1> QED
  BY <1>3

\* A sum whose terms are 0 is 0, and one of natural numbers is one.
LEMMA SumZero ==
  ASSUME NEW D, IsFiniteSet(D), NEW f, \A x \in D : f[x] = 0
  PROVE  SumFunctionOnSet(f, D) = 0
<1> DEFINE P == {s \in SUBSET D : SumFunctionOnSet(f, s) = 0}
<1>1. {} \in P
  BY SumEmpty
<1>2. ASSUME NEW s \in SUBSET D, s # {}, \A x \in s : s \ {x} \in P PROVE s \in P
  <2>1. PICK x \in s : TRUE
    BY <1>2
  <2>2. IsFiniteSet(s)
    BY FS_Subset
  <2>3. SumFunctionOnSet(f, s) = f[x] + SumFunctionOnSet(f, s \ {x})
    BY <2>2, SumRemove
  <2>4. SumFunctionOnSet(f, s \ {x}) = 0 /\ f[x] = 0
    BY <1>2
  <2> QED
    BY <2>3, <2>4
<1>3. \A s \in SUBSET D : s \in P
  <2> HIDE DEF P
  <2> QED
    BY <1>1, <1>2, SubsetInduction
<1> QED
  BY <1>3

\* A sum of natural numbers is one.
LEMMA SumNat ==
  ASSUME NEW D, IsFiniteSet(D), NEW f, \A x \in D : f[x] \in Nat
  PROVE  SumFunctionOnSet(f, D) \in Nat
<1> DEFINE z == [x \in D |-> 0]
<1>1. \A x \in D : z[x] = 0 /\ z[x] \in Int /\ f[x] \in Int /\ z[x] <= f[x]
  OBVIOUS
<1> HIDE DEF z
<1>2. SumFunctionOnSet(z, D) = 0
  BY <1>1, SumZero
<1>3. SumFunctionOnSet(z, D) <= SumFunctionOnSet(f, D)
  BY <1>1, SumMonotone
<1>4. SumFunctionOnSet(f, D) \in Int
  BY <1>1, SumInt
<1> QED
  BY <1>2, <1>3, <1>4

\* A sum over fewer elements is not greater.
LEMMA SumSubset ==
  ASSUME NEW D, IsFiniteSet(D), NEW f, \A x \in D : f[x] \in Nat, NEW s \in SUBSET D
  PROVE  SumFunctionOnSet(f, s) <= SumFunctionOnSet(f, D)
<1> DEFINE P == {u \in SUBSET D : SumFunctionOnSet(f, u \cap s) <= SumFunctionOnSet(f, u)}
<1>1. {} \in P
  <2>1. {} \cap s = {}
    OBVIOUS
  <2> QED
    BY <2>1, SumEmpty
<1>2. ASSUME NEW u \in SUBSET D, u # {}, \A x \in u : u \ {x} \in P PROVE u \in P
  <2>1. PICK x \in u : TRUE
    BY <1>2
  <2>2. IsFiniteSet(u) /\ IsFiniteSet(u \ {x}) /\ IsFiniteSet(u \cap s)
    BY FS_Subset
  <2>3. IsFiniteSet((u \ {x}) \cap s)
    BY FS_Subset
  <2>4. SumFunctionOnSet(f, u) = f[x] + SumFunctionOnSet(f, u \ {x})
    BY <2>2, SumRemove
  <2>5. /\ SumFunctionOnSet(f, u \ {x}) \in Int
        /\ SumFunctionOnSet(f, (u \ {x}) \cap s) \in Int
    BY <2>2, <2>3, SumInt
  <2>6. SumFunctionOnSet(f, (u \ {x}) \cap s) <= SumFunctionOnSet(f, u \ {x})
    BY <1>2
  <2>7. f[x] \in Nat
    OBVIOUS
  <2>8. CASE x \in s
    <3>1. (u \cap s) \ {x} = (u \ {x}) \cap s /\ x \in u \cap s
      BY <2>8
    <3>2. SumFunctionOnSet(f, u \cap s) = f[x] + SumFunctionOnSet(f, (u \cap s) \ {x})
      BY <2>2, <3>1, SumRemove
    <3>3. SumFunctionOnSet(f, u \cap s) <= SumFunctionOnSet(f, u)
      BY <2>4, <2>5, <2>6, <2>7, <3>1, <3>2
    <3> QED
      BY <3>3
  <2>9. CASE x \notin s
    <3>1. u \cap s = (u \ {x}) \cap s
      BY <2>9
    <3>2. SumFunctionOnSet(f, u \cap s) <= SumFunctionOnSet(f, u \ {x})
      BY <2>6, <3>1
    <3>3. SumFunctionOnSet(f, u \cap s) \in Int
      BY <2>5, <3>1
    <3> HIDE DEF P
    <3>4. SumFunctionOnSet(f, u \cap s) <= SumFunctionOnSet(f, u)
      BY <2>4, <2>5, <2>7, <3>2, <3>3
    <3> QED
      BY <3>4 DEF P
  <2> QED
    BY <2>8, <2>9
<1>3. D \in P
  <2> HIDE DEF P
  <2> QED
    BY <1>1, <1>2, SubsetInduction
<1>4. D \cap s = s
  OBVIOUS
<1> QED
  BY <1>3, <1>4

\* No term is greater than a sum of natural numbers.
LEMMA SumTerm ==
  ASSUME NEW D, IsFiniteSet(D), NEW f, \A x \in D : f[x] \in Nat, NEW a \in D
  PROVE  f[a] <= SumFunctionOnSet(f, D)
<1>1. SumFunctionOnSet(f, D) = f[a] + SumFunctionOnSet(f, D \ {a})
  BY SumRemove
<1>2. IsFiniteSet(D \ {a})
  BY FS_Subset
<1>3. SumFunctionOnSet(f, D \ {a}) \in Nat
  BY <1>2, SumNat
<1>4. f[a] \in Nat
  OBVIOUS
<1> QED
  BY <1>1, <1>3, <1>4

\* The sums over two sets that share no element add up.
LEMMA SumUnion ==
  ASSUME NEW A, IsFiniteSet(A), NEW B, IsFiniteSet(B), A \cap B = {},
         NEW f, \A x \in A \cup B : f[x] \in Int
  PROVE  SumFunctionOnSet(f, A \cup B) = SumFunctionOnSet(f, A) + SumFunctionOnSet(f, B)
<1> DEFINE P == {s \in SUBSET A : SumFunctionOnSet(f, s \cup B) =
                                   SumFunctionOnSet(f, s) + SumFunctionOnSet(f, B)}
<1>1. SumFunctionOnSet(f, B) \in Int
  BY SumInt
<1>2. {} \in P
  <2>1. {} \cup B = B
    OBVIOUS
  <2> QED
    BY <1>1, <2>1, SumEmpty
<1>3. ASSUME NEW s \in SUBSET A, s # {}, \A x \in s : s \ {x} \in P
      PROVE  s \in P
  <2>1. PICK a \in s : TRUE
    BY <1>3
  <2> DEFINE u == s \ {a}
  <2>2. SumFunctionOnSet(f, u \cup B) = SumFunctionOnSet(f, u) + SumFunctionOnSet(f, B)
    BY <1>3
  <2>3. IsFiniteSet(s)
    BY FS_Subset
  <2>4. IsFiniteSet(u) /\ a \notin u /\ s = u \cup {a}
    <3>1. IsFiniteSet(u)
      BY <2>3, FS_Subset
    <3> QED
      BY <3>1
  <2>5. IsFiniteSet(u \cup B) /\ a \notin u \cup B /\ s \cup B = (u \cup B) \cup {a}
    <3>1. IsFiniteSet(u \cup B)
      BY <2>4, FS_Union
    <3> QED
      BY <2>4, <3>1
  <2>6. (\A x \in u \cup {a} : f[x] \in Int) /\ (\A x \in (u \cup B) \cup {a} : f[x] \in Int)
    BY <2>4
  <2> HIDE DEF u
  <2>7. SumFunctionOnSet(f, u \cup {a}) = SumFunctionOnSet(f, u) + f[a]
    BY <2>4, <2>6, SumAdd
  <2>8. SumFunctionOnSet(f, (u \cup B) \cup {a}) = SumFunctionOnSet(f, u \cup B) + f[a]
    BY <2>5, <2>6, SumAdd
  <2>9. SumFunctionOnSet(f, u) \in Int /\ f[a] \in Int
    BY <2>4, <2>6, SumInt
  <2>10. SumFunctionOnSet(f, s \cup B) = SumFunctionOnSet(f, s) + SumFunctionOnSet(f, B)
    <3>1. SumFunctionOnSet(f, s \cup B) = SumFunctionOnSet(f, u \cup B) + f[a]
      BY <2>5, <2>8
    <3>2. SumFunctionOnSet(f, s) = SumFunctionOnSet(f, u) + f[a]
      BY <2>4, <2>7
    <3> QED
      BY <1>1, <2>2, <2>9, <3>1, <3>2
  <2> QED
    BY <2>10
<1>4. A \in P
  <2> HIDE DEF P
  <2> QED
    BY <1>2, <1>3, SubsetInduction
<1> QED
  BY <1>4

-------------------------------------------------------------------------------
(* Sums of functions. *)

\* A function has finitely many values on a finite set.
LEMMA ImageIsFinite ==
  ASSUME NEW S, IsFiniteSet(S), NEW f
  PROVE  IsFiniteSet({f[x] : x \in S})
<1> DEFINE g == [x \in S |-> f[x]]
           T == {f[x] : x \in S}
<1>1. g \in Surjection(S, T)
  BY DEF Surjection
<1> HIDE DEF g, T
<1>2. IsFiniteSet(T)
  BY <1>1, FS_Surjection
<1> QED
  BY <1>2 DEF T

\* A sum of natural numbers is one.
LEMMA FunSumNat ==
  ASSUME NEW D, IsFiniteSet(D), NEW f \in [D -> Nat]
  PROVE  SumFunction(f) \in Nat
<1>1. \A x \in D : f[x] \in Nat
  OBVIOUS
<1>2. SumFunctionOnSet(f, D) \in Nat
  BY <1>1, SumNat
<1> QED
  BY <1>2 DEF SumFunction

\* A sum grows with its terms.
LEMMA FunSumMonotone ==
  ASSUME NEW D, IsFiniteSet(D), NEW f \in [D -> Nat], NEW k \in [D -> Nat],
         \A x \in D : f[x] <= k[x]
  PROVE  SumFunction(f) <= SumFunction(k)
<1>1. \A x \in D : f[x] \in Int /\ k[x] \in Int /\ f[x] <= k[x]
  OBVIOUS
<1>2. SumFunctionOnSet(f, D) <= SumFunctionOnSet(k, D)
  BY <1>1, SumMonotone
<1> QED
  BY <1>2 DEF SumFunction

\* A sum changes by what one of its terms changes.
LEMMA FunSumChange ==
  ASSUME NEW D, IsFiniteSet(D), NEW f \in [D -> Int], NEW g \in [D -> Int], NEW a \in D,
         \A x \in D \ {a} : g[x] = f[x]
  PROVE  SumFunction(g) = SumFunction(f) - f[a] + g[a]
<1>1. SumFunction(f) = f[a] + SumFunctionOnSet(f, D \ {a})
  BY SumRemove DEF SumFunction
<1>2. SumFunction(g) = g[a] + SumFunctionOnSet(g, D \ {a})
  BY SumRemove DEF SumFunction
<1>3. IsFiniteSet(D \ {a})
  BY FS_Subset
<1>4. \A x \in D \ {a} : f[x] \in Int /\ f[x] = g[x]
  OBVIOUS
<1>5. SumFunctionOnSet(f, D \ {a}) = SumFunctionOnSet(g, D \ {a})
  BY <1>3, <1>4, SumSame
<1>6. SumFunctionOnSet(f, D \ {a}) \in Int
  BY <1>3, <1>4, SumInt
<1>7. f[a] \in Int /\ g[a] \in Int
  OBVIOUS
<1> QED
  BY <1>1, <1>2, <1>5, <1>6, <1>7

\* The sum of a sequence grows by what is appended.
LEMMA SumAppend ==
  ASSUME NEW n \in Nat, NEW f \in [1 .. n -> Int], NEW g \in [1 .. n + 1 -> Int],
         \A k \in 1 .. n : g[k] = f[k]
  PROVE  SumFunction(g) = SumFunction(f) + g[n + 1]
<1>1. IsFiniteSet(1 .. n)
  BY FS_Interval
<1>2. n + 1 \notin 1 .. n /\ 1 .. n + 1 = (1 .. n) \cup {n + 1}
  OBVIOUS
<1>3. \A k \in (1 .. n) \cup {n + 1} : g[k] \in Int
  BY <1>2
<1>4. SumFunctionOnSet(g, (1 .. n) \cup {n + 1}) = SumFunctionOnSet(g, 1 .. n) + g[n + 1]
  BY <1>1, <1>2, <1>3, SumAdd
<1>5. SumFunctionOnSet(f, 1 .. n) = SumFunctionOnSet(g, 1 .. n)
  BY <1>1, SumSame
<1>6. SumFunction(f) = SumFunctionOnSet(f, 1 .. n) /\ SumFunction(g) = SumFunctionOnSet(g, 1 .. n + 1)
  BY DEF SumFunction
<1> QED
  BY <1>2, <1>4, <1>5, <1>6

\* A sum of integers is one.
LEMMA FunSumInt ==
  ASSUME NEW D, IsFiniteSet(D), NEW f \in [D -> Int]
  PROVE  SumFunction(f) \in Int
<1>1. \A x \in D : f[x] \in Int
  OBVIOUS
<1> QED
  BY <1>1, SumInt DEF SumFunction

-------------------------------------------------------------------------------
(* Sequences. *)

\* A function on 1 .. n is a sequence.
LEMMA FunctionIsSeq ==
  ASSUME NEW S, NEW n \in Nat, NEW f \in [1 .. n -> S]
  PROVE  f \in Seq(S) /\ Len(f) = n
<1>1. f \in Seq(S)
  OBVIOUS
<1>2. DOMAIN f = 1 .. n /\ DOMAIN f = 1 .. Len(f) /\ Len(f) \in Nat
  BY <1>1, LenProperties
<1> QED
  BY <1>1, <1>2, SMTT(60)

\* A sequence is a function on 1 .. its length.
LEMMA SeqIsFunction ==
  ASSUME NEW S, NEW s \in Seq(S)
  PROVE  /\ Len(s) \in Nat /\ s \in [1 .. Len(s) -> S] /\ DOMAIN s = 1 .. Len(s)
         /\ \A i \in 1 .. Len(s) : s[i] \in S
  BY LenProperties, ElementOfSeq

\* A sequence and one more element.
LEMMA AppendSeq ==
  ASSUME NEW S, NEW s \in Seq(S), NEW e \in S
  PROVE  /\ Append(s, e) \in Seq(S) /\ Len(Append(s, e)) = Len(s) + 1 /\ Len(s) \in Nat
         /\ DOMAIN Append(s, e) = 1 .. Len(s) + 1 /\ DOMAIN s = 1 .. Len(s)
         /\ (\A i \in 1 .. Len(s) : Append(s, e)[i] = s[i]) /\ Append(s, e)[Len(s) + 1] = e
<1>1. /\ Append(s, e) \in Seq(S) /\ Len(Append(s, e)) = Len(s) + 1
      /\ (\A i \in 1 .. Len(s) : Append(s, e)[i] = s[i]) /\ Append(s, e)[Len(s) + 1] = e
  BY AppendProperties
<1> QED
  BY <1>1, LenProperties

\* A sequence without its first element.
LEMMA TailSeq ==
  ASSUME NEW S, NEW s \in Seq(S), s # <<>>
  PROVE  /\ Tail(s) \in Seq(S) /\ Len(Tail(s)) = Len(s) - 1 /\ Len(s) \in Nat \ {0}
         /\ DOMAIN Tail(s) = 1 .. Len(s) - 1 /\ DOMAIN s = 1 .. Len(s)
         /\ (\A i \in 1 .. Len(s) - 1 : Tail(s)[i] = s[i + 1])
         /\ Head(s) = s[1] /\ Head(s) \in S
<1>1. /\ Len(s) \in Nat /\ DOMAIN s = 1 .. Len(s) /\ Len(s) # 0
  BY LenProperties, EmptySeq
<1>2. /\ Tail(s) \in Seq(S) /\ Len(Tail(s)) = Len(s) - 1
      /\ (\A i \in 1 .. Len(s) - 1 : Tail(s)[i] = s[i + 1]) /\ Head(s) = s[1]
  BY <1>1, HeadTailProperties
<1>3. DOMAIN Tail(s) = 1 .. Len(s) - 1 /\ s[1] \in S
  BY <1>1, <1>2, LenProperties, ElementOfSeq
<1> QED
  BY <1>1, <1>2, <1>3

\* The elements of a concatenation.
LEMMA ConcatSeq ==
  ASSUME NEW S, NEW s \in Seq(S), NEW t \in Seq(S)
  PROVE  /\ s \o t \in Seq(S) /\ Len(s \o t) = Len(s) + Len(t)
         /\ DOMAIN (s \o t) = 1 .. Len(s) + Len(t)
         /\ Len(s) \in Nat /\ DOMAIN s = 1 .. Len(s) /\ Len(t) \in Nat /\ DOMAIN t = 1 .. Len(t)
         /\ \A i \in 1 .. Len(s) : (s \o t)[i] = s[i]
         /\ \A i \in 1 .. Len(t) : (s \o t)[Len(s) + i] = t[i]
         /\ \A i \in 1 .. Len(s) + Len(t) :
              i \in 1 .. Len(s) \/ \E j \in 1 .. Len(t) : i = Len(s) + j
<1>1. /\ s \o t \in Seq(S) /\ Len(s \o t) = Len(s) + Len(t)
      /\ \A i \in 1 .. Len(s) + Len(t) : (s \o t)[i] = IF i <= Len(s) THEN s[i] ELSE t[i - Len(s)]
  BY ConcatProperties
<1>2. /\ Len(s) \in Nat /\ DOMAIN s = 1 .. Len(s) /\ Len(t) \in Nat /\ DOMAIN t = 1 .. Len(t)
  BY LenProperties
<1>3. DOMAIN (s \o t) = 1 .. Len(s) + Len(t)
  BY <1>1, LenProperties
<1> DEFINE n == Len(s)
           m == Len(t)
           u == s \o t
<1>4. n \in Nat /\ m \in Nat /\ \A i \in 1 .. n + m : u[i] = IF i <= n THEN s[i] ELSE t[i - n]
  BY <1>1, <1>2
<1> HIDE DEF n, m, u
<1>5. \A i \in 1 .. n : u[i] = s[i]
  BY <1>4
<1>6. \A i \in 1 .. m : u[n + i] = t[i]
  <2> TAKE i \in 1 .. m
  <2>1. n + i \in 1 .. n + m /\ ~ (n + i <= n) /\ (n + i) - n = i
    BY <1>4
  <2> QED
    BY <1>4, <2>1
<1>7. \A i \in 1 .. n + m : i \in 1 .. n \/ \E j \in 1 .. m : i = n + j
  <2> TAKE i \in 1 .. n + m
  <2>1. CASE i <= n
    BY <1>4, <2>1
  <2>2. CASE ~ (i <= n)
    <3>1. i - n \in 1 .. m /\ i = n + (i - n)
      BY <1>4, <2>2
    <3> QED
      BY <3>1
  <2> QED
    BY <2>1, <2>2
<1> QED
  BY <1>1, <1>2, <1>3, <1>5, <1>6, <1>7 DEF n, m, u

\* No element occurs twice.
Distinct(s) == \A i, j \in DOMAIN s : s[i] = s[j] => i = j

\* What is in a sequence.
LEMMA InToSet == \A s, x : x \in ToSet(s) <=> \E i \in DOMAIN s : s[i] = x
  BY DEF ToSet

\* A list with one more element at its end, which is a list without repetitions if it is a new one.
LEMMA AppendFresh ==
  ASSUME NEW S, NEW s \in Seq(S), NEW x \in S
  PROVE  /\ Append(s, x) \in Seq(S) /\ (Distinct(s) /\ x \notin ToSet(s) => Distinct(Append(s, x)))
         /\ \A y : y \in ToSet(Append(s, x)) <=> y \in ToSet(s) \/ y = x
<1> DEFINE t == Append(s, x)
           m == Len(s)
<1>1. /\ t \in Seq(S) /\ m \in Nat /\ DOMAIN t = 1 .. m + 1 /\ DOMAIN s = 1 .. m
      /\ (\A i \in 1 .. m : t[i] = s[i]) /\ t[m + 1] = x
  BY AppendSeq
<1>2. x \notin ToSet(s) => \A i \in 1 .. m : t[i] # x
  BY <1>1, InToSet
<1> HIDE DEF m, t
<1>3. \A i \in 1 .. m + 1 : i \in 1 .. m \/ i = m + 1
  BY <1>1
<1>4. Distinct(s) /\ x \notin ToSet(s) => Distinct(t)
  <2> SUFFICES ASSUME Distinct(s), x \notin ToSet(s), NEW i \in 1 .. m + 1, NEW j \in 1 .. m + 1, t[i] = t[j] PROVE i = j
    BY <1>1 DEF Distinct
  <2> QED
    BY <1>1, <1>2, <1>3 DEF Distinct
<1>5. \A y : y \in ToSet(t) <=> \E i \in 1 .. m + 1 : t[i] = y
  BY <1>1, InToSet
<1>6. \A y : y \in ToSet(s) <=> \E i \in 1 .. m : s[i] = y
  BY <1>1, InToSet
<1>7. m + 1 \in 1 .. m + 1 /\ \A i \in 1 .. m : i \in 1 .. m + 1
  BY <1>1
<1>8. \A y : y \in ToSet(t) <=> y \in ToSet(s) \/ y = x
  <2> TAKE y
  <2> QED
    BY <1>1, <1>3, <1>5, <1>6, <1>7
<1> QED
  BY <1>1, <1>4, <1>8 DEF t

\* The set of its elements; they are different if those of both parts are.
LEMMA ConcatSet ==
  ASSUME NEW S, NEW s \in Seq(S), NEW t \in Seq(S)
  PROVE  /\ \A x : x \in ToSet(s \o t) <=> x \in ToSet(s) \/ x \in ToSet(t)
         /\ (Distinct(s) /\ Distinct(t) /\ \A x \in ToSet(s) : x \notin ToSet(t)) => Distinct(s \o t)
<1> DEFINE n == Len(s)
           m == Len(t)
           u == s \o t
<1>1. /\ DOMAIN u = 1 .. n + m /\ DOMAIN s = 1 .. n /\ DOMAIN t = 1 .. m /\ n \in Nat /\ m \in Nat
      /\ \A i \in 1 .. n : u[i] = s[i]
      /\ \A i \in 1 .. m : u[n + i] = t[i]
      /\ \A i \in 1 .. n + m : i \in 1 .. n \/ \E j \in 1 .. m : i = n + j
  BY ConcatSeq
<1> HIDE DEF n, m, u
<1>2. \A x : x \in ToSet(u) <=> x \in ToSet(s) \/ x \in ToSet(t)
  <2> TAKE x
  <2>1. /\ x \in ToSet(u) <=> \E i \in 1 .. n + m : u[i] = x
        /\ x \in ToSet(s) <=> \E i \in 1 .. n : s[i] = x
        /\ x \in ToSet(t) <=> \E i \in 1 .. m : t[i] = x
    BY <1>1, InToSet
  <2>2. \A i \in 1 .. n : i \in 1 .. n + m
    BY <1>1
  <2>3. \A i \in 1 .. m : n + i \in 1 .. n + m
    BY <1>1
  <2> QED
    BY <1>1, <2>1, <2>2, <2>3, ZenonT(60)
<1>3. ASSUME Distinct(s), Distinct(t), \A x \in ToSet(s) : x \notin ToSet(t) PROVE Distinct(u)
  <2> SUFFICES ASSUME NEW i \in 1 .. n + m, NEW j \in 1 .. n + m, u[i] = u[j] PROVE i = j
    BY <1>1 DEF Distinct
  <2>1. \A k \in 1 .. n, l \in 1 .. m : s[k] # t[l]
    BY <1>1, <1>3, InToSet
  <2>2. CASE i \in 1 .. n /\ j \in 1 .. n
    BY <1>1, <1>3, <2>2 DEF Distinct
  <2>3. CASE i \notin 1 .. n /\ j \notin 1 .. n
    <3>1. PICK k \in 1 .. m, l \in 1 .. m : i = n + k /\ j = n + l
      BY <1>1, <2>3
    <3>2. t[k] = t[l]
      BY <1>1, <3>1
    <3> QED
      BY <1>1, <1>3, <3>1, <3>2 DEF Distinct
  <2>4. CASE i \in 1 .. n /\ j \notin 1 .. n
    BY <1>1, <2>1, <2>4
  <2>5. CASE i \notin 1 .. n /\ j \in 1 .. n
    <3>1. PICK k \in 1 .. m : i = n + k
      BY <1>1, <2>5
    <3>2. t[k] = s[j]
      BY <1>1, <2>5, <3>1
    <3> QED
      BY <2>1, <2>5, <3>2
  <2> QED
    BY <2>2, <2>3, <2>4, <2>5
<1> QED
  BY <1>2, <1>3 DEF u

-------------------------------------------------------------------------------
(* Permutations, sums of permuted terms, and sorting. *)

\* The permutations of the numbers up to n.
Reorderings(n) ==
  {p \in [1 .. n -> 1 .. n] :
     /\ \A k, l \in 1 .. n : p[k] = p[l] => k = l
     /\ \A i \in 1 .. n : \E k \in 1 .. n : p[k] = i}

\* A total order of the numbers up to n, and the numbers in that order.
IsOrder(n, L) ==
  /\ \A i \in 1 .. n : <<i, i>> \in L
  /\ \A i, j \in 1 .. n : <<i, j>> \in L \/ <<j, i>> \in L
  /\ \A i, j \in 1 .. n : <<i, j>> \in L /\ <<j, i>> \in L => i = j
  /\ \A i, j, k \in 1 .. n : <<i, j>> \in L /\ <<j, k>> \in L => <<i, k>> \in L

RankIn(n, L, i) == Cardinality({j \in 1 .. n : <<j, i>> \in L})

Ranked(n, L) == [k \in 1 .. n |-> CHOOSE i \in 1 .. n : RankIn(n, L, i) = k]

\* The elements in the order of their ranks are a permutation, ordered by L, with no two of one rank.
LEMMA RankedIsPermutation ==
  ASSUME NEW n \in Nat, NEW L, IsOrder(n, L)
  PROVE  /\ Ranked(n, L) \in Reorderings(n)
         /\ \A k, l \in 1 .. n : k <= l => <<Ranked(n, L)[k], Ranked(n, L)[l]>> \in L
         /\ \A k, i \in 1 .. n : RankIn(n, L, i) = k <=> i = Ranked(n, L)[k]
<1> DEFINE B(i) == {j \in 1 .. n : <<j, i>> \in L}
           r == [i \in 1 .. n |-> RankIn(n, L, i)]
           p == Ranked(n, L)
<1>1. IsFiniteSet(1 .. n) /\ Cardinality(1 .. n) = n
  BY FS_Interval
<1>2. \A i \in 1 .. n : /\ IsFiniteSet(B(i)) /\ Cardinality(B(i)) \in 1 .. n
                        /\ r[i] = Cardinality(B(i))
  <2> TAKE i \in 1 .. n
  <2>1. B(i) \in SUBSET (1 .. n) /\ i \in B(i)
    BY DEF IsOrder
  <2>2. IsFiniteSet(B(i)) /\ Cardinality(B(i)) <= n
    BY <1>1, <2>1, FS_Subset, ZenonT(60)
  <2>3. Cardinality(B(i)) \in Nat /\ Cardinality(B(i)) # 0
    BY <2>1, <2>2, FS_CardinalityType, FS_EmptySet
  <2>4. r[i] = Cardinality(B(i))
    BY DEF RankIn
  <2> HIDE DEF B, r
  <2> QED
    BY <2>2, <2>3, <2>4
<1>3. \A i, j \in 1 .. n : i # j /\ <<i, j>> \in L => Cardinality(B(i)) < Cardinality(B(j))
  <2> SUFFICES ASSUME NEW i \in 1 .. n, NEW j \in 1 .. n, i # j, <<i, j>> \in L
               PROVE  Cardinality(B(i)) < Cardinality(B(j))
    OBVIOUS
  <2>1. B(i) \in SUBSET B(j) /\ j \in B(j) /\ j \notin B(i)
    BY DEF IsOrder
  <2>2. Cardinality(B(i)) <= Cardinality(B(j)) /\ Cardinality(B(i)) # Cardinality(B(j))
    BY <1>2, <2>1, FS_Subset
  <2>3. Cardinality(B(i)) \in Nat /\ Cardinality(B(j)) \in Nat
    BY <1>2
  <2> HIDE DEF B
  <2> QED
    BY <2>2, <2>3
<1> HIDE DEF B
<1>4. r \in [1 .. n -> 1 .. n]
  BY <1>2
<1>5. \A i, j \in 1 .. n : r[i] <= r[j] => <<i, j>> \in L
  <2> SUFFICES ASSUME NEW i \in 1 .. n, NEW j \in 1 .. n, r[i] <= r[j], <<i, j>> \notin L
               PROVE  FALSE
    OBVIOUS
  <2>1. <<j, i>> \in L /\ i # j
    BY DEF IsOrder
  <2>2. Cardinality(B(j)) < Cardinality(B(i))
    BY <1>3, <2>1
  <2>3. r[i] = Cardinality(B(i)) /\ r[j] = Cardinality(B(j))
        /\ Cardinality(B(i)) \in Nat /\ Cardinality(B(j)) \in Nat
    BY <1>2
  <2> HIDE DEF r
  <2> QED
    BY <2>2, <2>3
<1> HIDE DEF r
<1>6. \A i, j \in 1 .. n : r[i] = r[j] => i = j
  <2> TAKE i, j \in 1 .. n
  <2> HAVE r[i] = r[j]
  <2>1. <<i, j>> \in L /\ <<j, i>> \in L
    BY <1>4, <1>5
  <2> QED
    BY <2>1 DEF IsOrder
<1>7. r \in Injection(1 .. n, 1 .. n)
  BY <1>4, <1>6 DEF Injection, IsInjective
<1>8. r \in Surjection(1 .. n, 1 .. n)
  BY <1>1, <1>7, FS_Injection
<1>9. \A k \in 1 .. n : \E i \in 1 .. n : r[i] = k
  BY <1>8 DEF Surjection
<1>10. \A k \in 1 .. n : p[k] \in 1 .. n /\ r[p[k]] = k
  <2> TAKE k \in 1 .. n
  <2>1. p[k] = CHOOSE i \in 1 .. n : r[i] = k
    <3>1. \A i \in 1 .. n : r[i] = RankIn(n, L, i)
      BY DEF r
    <3>2. p[k] = CHOOSE i \in 1 .. n : RankIn(n, L, i) = k
      BY DEF Ranked
    <3> QED
      BY <3>1, <3>2
  <2> HIDE DEF p
  <2> QED
    BY <1>9, <2>1
<1>11. p = [k \in 1 .. n |-> p[k]]
  BY DEF Ranked
<1> HIDE DEF p
<1>12. p \in Reorderings(n)
  <2>1. p \in [1 .. n -> 1 .. n]
    BY <1>10, <1>11
  <2>2. \A k, l \in 1 .. n : p[k] = p[l] => k = l
    BY <1>10
  <2>3. \A i \in 1 .. n : \E k \in 1 .. n : p[k] = i
    <3> TAKE i \in 1 .. n
    <3>1. r[i] \in 1 .. n /\ r[p[r[i]]] = r[i] /\ p[r[i]] \in 1 .. n
      BY <1>4, <1>10
    <3>2. p[r[i]] = i
      BY <1>6, <3>1
    <3> QED
      BY <3>1, <3>2
  <2> QED
    BY <2>1, <2>2, <2>3 DEF Reorderings
<1>13. \A k, l \in 1 .. n : k <= l => <<p[k], p[l]>> \in L
  BY <1>5, <1>10
<1>14. \A k, i \in 1 .. n : RankIn(n, L, i) = k <=> i = p[k]
  <2> TAKE k, i \in 1 .. n
  <2>1. r[i] = RankIn(n, L, i)
    BY DEF r
  <2> QED
    BY <1>6, <1>10, <2>1
<1> QED
  BY <1>12, <1>13, <1>14 DEF p

\* A sum does not depend on the order of its terms.
LEMMA SumPermuted ==
  ASSUME NEW n \in Nat, NEW p \in Reorderings(n), NEW f \in [1 .. n -> Int], NEW g \in [1 .. n -> Int],
         \A k \in 1 .. n : g[k] = f[p[k]]
  PROVE  SumFunction(g) = SumFunction(f)
<1> DEFINE D == 1 .. n
           Im(s) == {p[x] : x \in s}
           P == {s \in SUBSET D : SumFunctionOnSet(g, s) = SumFunctionOnSet(f, Im(s))}
<1>1. IsFiniteSet(D)
  BY FS_Interval
<1>2. p \in [D -> D] /\ \A k, l \in D : p[k] = p[l] => k = l
  BY DEF Reorderings
<1>3. {} \in P
  <2>1. Im({}) = {}
    OBVIOUS
  <2> QED
    BY <2>1, SumEmpty
<1>4. ASSUME NEW s \in SUBSET D, s # {}, \A x \in s : s \ {x} \in P PROVE s \in P
  <2>1. PICK x \in s : TRUE
    BY <1>4
  <2>2. s \ {x} \in P /\ x \in D /\ p[x] \in D
    BY <1>2, <1>4, <2>1
  <2>3. Im(s) \subseteq D /\ p[x] \in Im(s) /\ Im(s) \ {p[x]} = Im(s \ {x})
    <3>1. Im(s) \subseteq D
      BY <1>2
    <3>2. p[x] \in Im(s)
      OBVIOUS
    <3>3. \A y \in s : p[y] = p[x] => y = x
      BY <1>2, <2>2
    <3>4. Im(s) \ {p[x]} = Im(s \ {x})
      BY <3>3, SMTT(60)
    <3> QED
      BY <3>1, <3>2, <3>4
  <2>4. IsFiniteSet(s) /\ IsFiniteSet(Im(s))
    BY <1>1, <2>3, FS_Subset
  <2>5. SumFunctionOnSet(g, s \ {x}) = SumFunctionOnSet(f, Im(s \ {x}))
    BY <2>2
  <2> HIDE DEF P, Im
  <2>6. \A y \in s : g[y] \in Int
    OBVIOUS
  <2>7. \A y \in Im(s) : f[y] \in Int
    BY <2>3
  <2>8. SumFunctionOnSet(g, s) = g[x] + SumFunctionOnSet(g, s \ {x})
    BY <2>4, <2>6, SumRemove
  <2>9. SumFunctionOnSet(f, Im(s)) = f[p[x]] + SumFunctionOnSet(f, Im(s) \ {p[x]})
    BY <2>3, <2>4, <2>7, SumRemove, ZenonT(60)
  <2>10. SumFunctionOnSet(g, s) = SumFunctionOnSet(f, Im(s))
    BY <2>2, <2>3, <2>5, <2>8, <2>9
  <2> QED
    BY <2>10 DEF P
<1>5. D \in P
  <2> HIDE DEF P
  <2>1. \A s \in SUBSET D : s \in P
    BY <1>1, <1>3, <1>4, SubsetInduction
  <2> QED
    BY <2>1
<1>6. Im(D) = D
  BY DEF Reorderings
<1>7. DOMAIN f = D /\ DOMAIN g = D
  OBVIOUS
<1> QED
  BY <1>5, <1>6, <1>7 DEF SumFunction

\* t has the elements of s in another order.
Reorders(t, s) ==
  \E p \in Reorderings(Len(s)) : t = [k \in 1 .. Len(s) |-> s[p[k]]]

\* A reordered sequence has the same elements and no others.
LEMMA ReorderedSeq ==
  ASSUME NEW S, NEW s \in Seq(S), NEW t, Reorders(t, s)
  PROVE  /\ t \in Seq(S) /\ Len(t) = Len(s) /\ Len(s) \in Nat
         /\ DOMAIN t = 1 .. Len(s) /\ DOMAIN s = 1 .. Len(s)
         /\ \A k \in 1 .. Len(s) : \E i \in 1 .. Len(s) : t[k] = s[i]
         /\ \A i \in 1 .. Len(s) : \E k \in 1 .. Len(s) : t[k] = s[i]
<1>1. PICK p \in Reorderings(Len(s)) : t = [k \in 1 .. Len(s) |-> s[p[k]]]
  BY DEF Reorders
<1>2. Len(s) \in Nat /\ s \in [1 .. Len(s) -> S] /\ DOMAIN s = 1 .. Len(s)
  BY LenProperties
<1>3. /\ p \in [1 .. Len(s) -> 1 .. Len(s)]
      /\ \A i \in 1 .. Len(s) : \E k \in 1 .. Len(s) : p[k] = i
  BY DEF Reorderings
<1>4. t \in [1 .. Len(s) -> S]
  BY <1>1, <1>2, <1>3
<1>5. t \in Seq(S) /\ Len(t) = Len(s)
  BY <1>2, <1>4, FunctionIsSeq
<1>6. \A k \in 1 .. Len(s) : \E i \in 1 .. Len(s) : t[k] = s[i]
  BY <1>1, <1>3
<1>7. \A i \in 1 .. Len(s) : \E k \in 1 .. Len(s) : t[k] = s[i]
  BY <1>1, <1>3
<1> QED
  BY <1>2, <1>4, <1>5, <1>6, <1>7

\* Reordering changes neither the set of elements nor that they are different.
LEMMA ReorderedSet ==
  ASSUME NEW S, NEW s \in Seq(S), NEW t, Reorders(t, s)
  PROVE  ToSet(t) = ToSet(s) /\ (Distinct(s) => Distinct(t))
<1>1. ToSet(t) = ToSet(s)
  <2>1. PICK p \in Reorderings(Len(s)) : t = [k \in 1 .. Len(s) |-> s[p[k]]]
    BY DEF Reorders
  <2>2. DOMAIN t = 1 .. Len(s) /\ DOMAIN s = 1 .. Len(s)
    BY <2>1, LenProperties
  <2>3. /\ p \in [1 .. Len(s) -> 1 .. Len(s)]
        /\ \A i \in 1 .. Len(s) : \E k \in 1 .. Len(s) : p[k] = i
    BY DEF Reorderings
  <2>4. \A x : x \in ToSet(t) <=> x \in ToSet(s)
    <3>1. ASSUME NEW x, x \in ToSet(t) PROVE x \in ToSet(s)
      <4>1. PICK k \in 1 .. Len(s) : t[k] = x
        BY <2>2, <3>1, InToSet
      <4>2. p[k] \in DOMAIN s /\ s[p[k]] = x
        BY <2>1, <2>2, <2>3, <4>1
      <4> QED
        BY <4>2, InToSet
    <3>2. ASSUME NEW x, x \in ToSet(s) PROVE x \in ToSet(t)
      <4>1. PICK i \in 1 .. Len(s) : s[i] = x
        BY <2>2, <3>2, InToSet
      <4>2. PICK k \in 1 .. Len(s) : p[k] = i
        BY <2>3
      <4>3. k \in DOMAIN t /\ t[k] = x
        BY <2>1, <2>2, <4>1, <4>2
      <4> QED
        BY <4>3, InToSet
    <3> QED
      BY <3>1, <3>2
  <2> QED
    BY <2>4
<1>2. ASSUME Distinct(s) PROVE Distinct(t)
  <2>1. PICK p \in Reorderings(Len(s)) : t = [k \in 1 .. Len(s) |-> s[p[k]]]
    BY DEF Reorders
  <2>2. DOMAIN t = 1 .. Len(s) /\ DOMAIN s = 1 .. Len(s)
    BY ReorderedSeq
  <2>3. /\ p \in [1 .. Len(s) -> 1 .. Len(s)]
        /\ \A k, l \in 1 .. Len(s) : p[k] = p[l] => k = l
    BY DEF Reorderings
  <2>4. \A k, l \in 1 .. Len(s) : s[p[k]] = s[p[l]] => k = l
    BY <1>2, <2>2, <2>3 DEF Distinct
  <2> QED
    BY <2>1, <2>2, <2>4 DEF Distinct
<1> QED
  BY <1>1, <1>2

\* The order of keys, and of places where keys are equal.
KeyOrder(n, key) ==
  {e \in (1 .. n) \X (1 .. n) : key[e[1]] < key[e[2]] \/ (key[e[1]] = key[e[2]] /\ e[1] <= e[2])}

\* Places ordered by keys, and by themselves for equal keys, as a stable sort does it.
LEMMA KeyOrderIsOrder ==
  ASSUME NEW n \in Nat, NEW key \in [1 .. n -> Int]
  PROVE  /\ IsOrder(n, KeyOrder(n, key))
         /\ \A i, j \in 1 .. n :
              <<j, i>> \in KeyOrder(n, key) <=> key[j] < key[i] \/ (~ (key[i] < key[j]) /\ j <= i)
<1>1. \A i, j \in 1 .. n :
        <<j, i>> \in KeyOrder(n, key) <=> key[j] < key[i] \/ (key[j] = key[i] /\ j <= i)
  BY DEF KeyOrder
<1>2. \A i, j \in 1 .. n : key[j] \in Int /\ key[i] \in Int /\ i \in Int /\ j \in Int
  OBVIOUS
<1> HIDE DEF KeyOrder
<1>3. IsOrder(n, KeyOrder(n, key))
  <2>1. \A i \in 1 .. n : <<i, i>> \in KeyOrder(n, key)
    BY <1>1, <1>2
  <2>2. \A i, j \in 1 .. n : <<i, j>> \in KeyOrder(n, key) \/ <<j, i>> \in KeyOrder(n, key)
    <3> TAKE i, j \in 1 .. n
    <3>1. \/ key[i] < key[j] \/ key[j] < key[i]
          \/ (key[i] = key[j] /\ (i <= j \/ j <= i))
      BY <1>2
    <3> QED
      BY <1>1, <3>1
  <2>3. \A i, j \in 1 .. n : <<i, j>> \in KeyOrder(n, key) /\ <<j, i>> \in KeyOrder(n, key) => i = j
    BY <1>1, <1>2
  <2>4. \A i, j, k \in 1 .. n : <<i, j>> \in KeyOrder(n, key) /\ <<j, k>> \in KeyOrder(n, key)
                                  => <<i, k>> \in KeyOrder(n, key)
    BY <1>1, <1>2, SMTT(60)
  <2> QED
    BY <2>1, <2>2, <2>3, <2>4 DEF IsOrder
<1> QED
  BY <1>1, <1>2, <1>3

\* There is an element of every rank.
LEMMA RankedIsOnto ==
  ASSUME NEW n \in Nat, NEW L, IsOrder(n, L), NEW k \in 1 .. n
  PROVE  \E i \in 1 .. n : RankIn(n, L, i) = k
<1>1. /\ Ranked(n, L) \in Reorderings(n)
      /\ \A l, i \in 1 .. n : RankIn(n, L, i) = l <=> i = Ranked(n, L)[l]
  BY RankedIsPermutation
<1>2. Ranked(n, L)[k] \in 1 .. n
  BY <1>1 DEF Reorderings
<1> QED
  BY <1>1, <1>2

\* What sorting by an order does.
SortedIn(t, s, L) ==
  \E p \in Reorderings(Len(s)) :
    /\ t = [k \in 1 .. Len(s) |-> s[p[k]]]
    /\ \A k, l \in 1 .. Len(s) : k <= l => <<p[k], p[l]>> \in L

\* What is sorted is reordered.
LEMMA SortedReorders ==
  ASSUME NEW t, NEW s, NEW L, SortedIn(t, s, L)
  PROVE  Reorders(t, s)
  BY DEF SortedIn, Reorders

\* A sequence whose k-th element is the one of rank k is sorted.
LEMMA SortedBy ==
  ASSUME NEW S, NEW s \in Seq(S), NEW L, IsOrder(Len(s), L), NEW t,
         DOMAIN t = DOMAIN s, t = [k \in DOMAIN t |-> t[k]],
         \A k \in 1 .. Len(s) : \E i \in 1 .. Len(s) : t[k] = s[i] /\ RankIn(Len(s), L, i) = k
  PROVE  SortedIn(t, s, L)
<1> DEFINE p == Ranked(Len(s), L)
<1>1. Len(s) \in Nat /\ DOMAIN s = 1 .. Len(s)
  BY LenProperties
<1>2. /\ p \in Reorderings(Len(s))
      /\ \A k, l \in 1 .. Len(s) : k <= l => <<p[k], p[l]>> \in L
      /\ \A k, i \in 1 .. Len(s) : RankIn(Len(s), L, i) = k <=> i = p[k]
  BY <1>1, RankedIsPermutation, ZenonT(60)
<1> HIDE DEF p
<1>3. \A k \in 1 .. Len(s) : t[k] = s[p[k]] /\ p[k] \in 1 .. Len(s)
  BY <1>2
<1>4. t = [k \in 1 .. Len(s) |-> s[p[k]]]
  BY <1>1, <1>3
<1> QED
  BY <1>2, <1>4 DEF SortedIn

\* A list sorted by keys is reordered so that the keys do not decrease.
LEMMA SortOnSorts ==
  ASSUME NEW S, NEW s \in Seq(S), NEW key, \A i \in DOMAIN s : key[i] \in Int
  PROVE  /\ Reorders(SortOn(s, key), s)
         /\ \A k, l \in 1 .. Len(s) :
              k <= l => \E i, j \in DOMAIN s :
                          SortOn(s, key)[k] = s[i] /\ SortOn(s, key)[l] = s[j] /\ key[i] <= key[j]
<1> DEFINE n == Len(s)
           f == [i \in 1 .. n |-> key[i]]
           L == KeyOrder(n, f)
           t == SortOn(s, key)
           Before(j, i) == key[j] < key[i] \/ (key[j] = key[i] /\ j <= i)
           rank(i) == Cardinality({j \in DOMAIN s : Before(j, i)})
<1>1. n \in Nat /\ DOMAIN s = 1 .. n /\ f \in [1 .. n -> Int]
  BY LenProperties
<1>2. IsOrder(n, L) /\ \A i, j \in 1 .. n : <<j, i>> \in L <=> Before(j, i)
  <2>1. \A i \in 1 .. n : f[i] = key[i]
    OBVIOUS
  <2> HIDE DEF f
  <2>2. \A i, j \in 1 .. n : <<j, i>> \in L <=> f[j] < f[i] \/ (f[j] = f[i] /\ j <= i)
    BY DEF KeyOrder
  <2> QED
    BY <1>1, <2>1, <2>2, KeyOrderIsOrder
<1>3. t = [k \in DOMAIN s |-> s[CHOOSE i \in DOMAIN s : rank(i) = k]]
  BY DEF SortOn
<1> HIDE DEF L, Before, t, n
<1>4. \A i \in 1 .. n : rank(i) = RankIn(n, L, i)
  <2> TAKE i \in 1 .. n
  <2>1. {j \in DOMAIN s : Before(j, i)} = {j \in 1 .. n : <<j, i>> \in L}
    BY <1>1, <1>2
  <2> QED
    BY <2>1 DEF RankIn
<1> HIDE DEF rank
<1>5. \A k \in 1 .. n : \E i \in 1 .. n : t[k] = s[i] /\ RankIn(n, L, i) = k
  <2> TAKE k \in 1 .. n
  <2>1. \E i \in 1 .. n : rank(i) = k
    BY <1>1, <1>2, <1>4, RankedIsOnto
  <2> DEFINE c == CHOOSE i \in DOMAIN s : rank(i) = k
  <2>2. c \in 1 .. n /\ rank(c) = k
    BY <1>1, <2>1
  <2>3. t[k] = s[c]
    BY <1>1, <1>3
  <2> QED
    BY <1>4, <2>2, <2>3
<1>6. DOMAIN t = DOMAIN s /\ t = [k \in DOMAIN t |-> t[k]]
  BY <1>3
<1>7. SortedIn(t, s, L)
  BY <1>2, <1>5, <1>6, SortedBy DEF n
<1>8. \A i, j \in 1 .. n : <<i, j>> \in L => key[i] <= key[j]
  BY <1>1, <1>2 DEF Before
<1>9. ASSUME NEW k \in 1 .. n, NEW l \in 1 .. n, k <= l
      PROVE  \E i, j \in DOMAIN s : t[k] = s[i] /\ t[l] = s[j] /\ key[i] <= key[j]
  <2>1. PICK p \in Reorderings(n) : /\ t = [m \in 1 .. n |-> s[p[m]]]
                                   /\ \A a, b \in 1 .. n : a <= b => <<p[a], p[b]>> \in L
    BY <1>7 DEF SortedIn, n
  <2>2. p[k] \in 1 .. n /\ p[l] \in 1 .. n /\ <<p[k], p[l]>> \in L
    BY <1>9, <2>1 DEF Reorderings
  <2>3. t[k] = s[p[k]] /\ t[l] = s[p[l]]
    BY <2>1
  <2> QED
    BY <1>1, <1>8, <2>2, <2>3
<1> QED
  BY <1>7, <1>9, SortedReorders DEF t, n

\* Quotients are compared by products.
LEMMA RatioTransitive ==
  ASSUME NEW a \in Int, NEW b \in Int, NEW c \in Int, NEW d \in Int, NEW e \in Int, NEW f \in Int,
         b > 0, d > 0, f > 0, a * d >= c * b, c * f >= e * d
  PROVE  a * f >= e * b /\ (a * d > c * b \/ c * f > e * d => a * f > e * b)
<1>1. \A x, y, z \in Int : z > 0 /\ x >= y => x * z >= y * z
  OBVIOUS
<1>2. \A x, y, z \in Int : z > 0 /\ x > y => x * z > y * z
  OBVIOUS
<1>3. a * d \in Int /\ c * b \in Int /\ c * f \in Int /\ e * d \in Int /\ a * f \in Int /\ e * b \in Int
  OBVIOUS
<1>4. (a * d) * f >= (c * b) * f /\ (c * f) * b >= (e * d) * b
  BY <1>1, <1>3
<1>5. (a * d > c * b => (a * d) * f > (c * b) * f) /\ (c * f > e * d => (c * f) * b > (e * d) * b)
  BY <1>2, <1>3
<1>6. (a * d) * f = (a * f) * d /\ (c * b) * f = (c * f) * b /\ (e * d) * b = (e * b) * d
  OBVIOUS
<1>7. (a * f) * d >= (e * b) * d /\ (a * d > c * b \/ c * f > e * d => (a * f) * d > (e * b) * d)
  <2> DEFINE X == (a * f) * d
             Y == (c * f) * b
             Z == (e * b) * d
  <2>1. X \in Int /\ Y \in Int /\ Z \in Int
    OBVIOUS
  <2>2. X >= Y /\ Y >= Z /\ (a * d > c * b => X > Y) /\ (c * f > e * d => Y > Z)
    BY <1>4, <1>5, <1>6
  <2> HIDE DEF X, Y, Z
  <2>3. X >= Z /\ (a * d > c * b \/ c * f > e * d => X > Z)
    BY <2>1, <2>2
  <2> QED
    BY <2>3 DEF X, Z
<1>8. a * f >= e * b
  <2>1. ~ (a * f >= e * b) => e * b > a * f
    BY <1>3
  <2>2. e * b > a * f => (e * b) * d > (a * f) * d
    BY <1>2, <1>3
  <2>3. (a * f) * d \in Int /\ (e * b) * d \in Int
    OBVIOUS
  <2> QED
    BY <1>7, <2>1, <2>2, <2>3
<1>9. ASSUME a * d > c * b \/ c * f > e * d PROVE a * f > e * b
  <2>1. ~ (a * f > e * b) => e * b >= a * f
    BY <1>3
  <2>2. e * b >= a * f => (e * b) * d >= (a * f) * d
    BY <1>1, <1>3
  <2>3. (a * f) * d \in Int /\ (e * b) * d \in Int
    OBVIOUS
  <2> QED
    BY <1>7, <1>9, <2>1, <2>2, <2>3
<1> QED
  BY <1>8, <1>9

\* Places ordered by quotients, the greatest first, and by themselves for equal ones.
RatioOrder(n, num, den) ==
  {e \in (1 .. n) \X (1 .. n) :
     \/ num[e[1]] * den[e[2]] > num[e[2]] * den[e[1]]
     \/ ~ (num[e[2]] * den[e[1]] > num[e[1]] * den[e[2]]) /\ e[1] <= e[2]}

LEMMA RatioOrderIsOrder ==
  ASSUME NEW n \in Nat, NEW num \in [1 .. n -> Int], NEW den \in [1 .. n -> Int], \A i \in 1 .. n : den[i] > 0
  PROVE  IsOrder(n, RatioOrder(n, num, den))
<1> DEFINE More(j, i) == num[j] * den[i] > num[i] * den[j]
           After(j, i) == More(j, i) \/ (~ More(i, j) /\ j <= i)
           L == RatioOrder(n, num, den)
<1>1. \A i, j \in 1 .. n : <<j, i>> \in L <=> After(j, i)
  BY DEF RatioOrder
<1>2. \A i, j, k \in 1 .. n : ~ More(j, i) /\ ~ More(k, j)
        => ~ More(k, i) /\ (More(i, j) \/ More(j, k) => More(i, k))
  <2> TAKE i, j, k \in 1 .. n
  <2> HAVE ~ More(j, i) /\ ~ More(k, j)
  <2> DEFINE a == num[i]
             b == den[i]
             c == num[j]
             d == den[j]
             e == num[k]
             f == den[k]
  <2>1. /\ a \in Int /\ b \in Int /\ c \in Int /\ d \in Int /\ e \in Int /\ f \in Int
        /\ b > 0 /\ d > 0 /\ f > 0
    OBVIOUS
  <2>2. a * d >= c * b /\ c * f >= e * d
    <3>2. ~ (c * b > a * d) /\ ~ (e * d > c * f)
      OBVIOUS
    <3> HIDE DEF a, b, c, d, e, f, More
    <3>1. a * d \in Int /\ c * b \in Int /\ c * f \in Int /\ e * d \in Int
      BY <2>1
    <3> QED
      BY <3>1, <3>2
  <2>3. More(k, i) <=> e * b > a * f
    OBVIOUS
  <2>4. (More(i, j) <=> a * d > c * b) /\ (More(j, k) <=> c * f > e * d) /\ (More(i, k) <=> a * f > e * b)
    OBVIOUS
  <2> HIDE DEF a, b, c, d, e, f, More
  <2>5. a * f >= e * b /\ (a * d > c * b \/ c * f > e * d => a * f > e * b)
    BY <2>1, <2>2, RatioTransitive
  <2>6. a * f \in Int /\ e * b \in Int
    BY <2>1
  <2> QED
    BY <2>3, <2>4, <2>5, <2>6
<1>3. \A i, j \in 1 .. n : ~ (More(i, j) /\ More(j, i))
  <2> TAKE i, j \in 1 .. n
  <2> DEFINE a == num[i] * den[j]
             b == num[j] * den[i]
  <2>1. a \in Int /\ b \in Int
    OBVIOUS
  <2>2. (More(i, j) <=> a > b) /\ (More(j, i) <=> b > a)
    OBVIOUS
  <2> HIDE DEF More, a, b
  <2> QED
    BY <2>1, <2>2
<1> HIDE DEF More
<1>4. \A i \in 1 .. n : After(i, i)
  BY <1>3
<1>5. \A i, j \in 1 .. n : After(i, j) \/ After(j, i)
  BY <1>3
<1>6. \A i, j \in 1 .. n : After(i, j) /\ After(j, i) => i = j
  BY <1>3
<1>7. \A i, j, k \in 1 .. n : After(i, j) /\ After(j, k) => After(i, k)
  BY <1>2, <1>3
<1> HIDE DEF After, L
<1>8. IsOrder(n, L)
  BY <1>1, <1>4, <1>5, <1>6, <1>7 DEF IsOrder
<1> QED
  BY <1>8 DEF L

-------------------------------------------------------------------------------
(* Recursion over numbers up to a bound. *)

Chains(N, S, z, step) ==
  {g \in [0 .. N -> S] : g[0] = z /\ \A n \in 1 .. N : g[n] = step[n][g[n - 1]]}

\* There is a function that takes the steps one after another.
LEMMA ChainExists ==
  ASSUME NEW N \in Nat, NEW S, NEW z \in S, NEW step \in [1 .. N -> [S -> S]]
  PROVE  Chains(N, S, z, step) # {}
<1> DEFINE Good(n, g) == g[0] = z /\ \A k \in 1 .. n : g[k] = step[k][g[k - 1]]
           A == {n \in Nat : n <= N => \E g \in [0 .. n -> S] : Good(n, g)}
<1>1. 0 \in A
  <2> DEFINE g == [k \in 0 .. 0 |-> z]
  <2>1. g \in [0 .. 0 -> S] /\ Good(0, g)
    OBVIOUS
  <2> QED
    BY <2>1
<1>2. \A n \in Nat : n \in A => n + 1 \in A
  <2> TAKE n \in Nat
  <2> HAVE n \in A
  <2> SUFFICES ASSUME n + 1 <= N PROVE \E g \in [0 .. n + 1 -> S] : Good(n + 1, g)
    OBVIOUS
  <2>1. PICK h \in [0 .. n -> S] : Good(n, h)
    OBVIOUS
  <2> DEFINE g == [k \in 0 .. n + 1 |-> IF k <= n THEN h[k] ELSE step[n + 1][h[n]]]
  <2>2. h[n] \in S /\ step[n + 1] \in [S -> S]
    OBVIOUS
  <2>3. \A k \in 0 .. n + 1 : k \in 0 .. n \/ k = n + 1
    OBVIOUS
  <2>4. g \in [0 .. n + 1 -> S]
    BY <2>2, <2>3
  <2>5. (\A k \in 0 .. n : g[k] = h[k]) /\ g[n + 1] = step[n + 1][h[n]]
    OBVIOUS
  <2> HIDE DEF g
  <2>6. \A k \in 1 .. n + 1 : g[k] = step[k][g[k - 1]]
    <3> TAKE k \in 1 .. n + 1
    <3>1. CASE k \in 1 .. n
      <4>1. k \in 0 .. n /\ k - 1 \in 0 .. n
        BY <3>1
      <4> QED
        BY <2>1, <2>5, <3>1, <4>1
    <3>2. CASE k = n + 1
      <4>1. k - 1 = n /\ n \in 0 .. n
        BY <3>2
      <4> QED
        BY <2>5, <3>2, <4>1
    <3> QED
      BY <3>1, <3>2
  <2>7. g[0] = z
    BY <2>1, <2>5
  <2> QED
    BY <2>4, <2>6, <2>7
<1> HIDE DEF A
<1>3. Nat \subseteq A
  BY <1>1, <1>2, SetInduction
<1>4. \E g \in [0 .. N -> S] : Good(N, g)
  <2>1. N \in A
    BY <1>3
  <2> QED
    BY <2>1 DEF A
<1> QED
  BY <1>4 DEF Chains

\* What grows at each step has grown from any to any later place.
LEMMA ChainMonotone ==
  ASSUME NEW N \in Nat, NEW f \in [0 .. N -> Int], \A n \in 1 .. N : f[n - 1] <= f[n]
  PROVE  \A i, j \in 0 .. N : i <= j => f[i] <= f[j]
<1> SUFFICES ASSUME NEW i \in 0 .. N PROVE \A j \in 0 .. N : i <= j => f[i] <= f[j]
  OBVIOUS
<1> DEFINE A == {n \in Nat : n \in 0 .. N /\ i <= n => f[i] <= f[n]}
<1>1. 0 \in A
  OBVIOUS
<1>2. \A n \in Nat : n \in A => n + 1 \in A
  <2> TAKE n \in Nat
  <2> HAVE n \in A
  <2> SUFFICES ASSUME n + 1 \in 0 .. N, i <= n + 1 PROVE f[i] <= f[n + 1]
    OBVIOUS
  <2>1. CASE i = n + 1
    BY <2>1
  <2>2. CASE i # n + 1
    <3>1. n \in 0 .. N /\ i <= n /\ n + 1 \in 1 .. N /\ (n + 1) - 1 = n
      BY <2>2
    <3>2. f[i] <= f[n] /\ f[n] <= f[n + 1]
      BY <3>1
    <3>3. f[i] \in Int /\ f[n] \in Int /\ f[n + 1] \in Int
      BY <3>1
    <3> QED
      BY <3>2, <3>3
  <2> QED
    BY <2>1, <2>2
<1> HIDE DEF A
<1>3. Nat \subseteq A
  BY <1>1, <1>2, SetInduction
<1>4. \A j \in 0 .. N : j \in A
  BY <1>3
<1> QED
  BY <1>4 DEF A

\* What holds at the start of a chain, and of a member when it holds of the one before, holds of them all.
LEMMA ChainStays ==
  ASSUME NEW N \in Nat, NEW G, NEW S, G[0] \in S, \A n \in 1 .. N : G[n - 1] \in S => G[n] \in S
  PROVE  \A n \in 0 .. N : G[n] \in S
<1> DEFINE A == {n \in Nat : n \in 0 .. N => G[n] \in S}
<1>1. 0 \in A
  OBVIOUS
<1>2. \A n \in Nat : n \in A => n + 1 \in A
  <2> TAKE n \in Nat
  <2> HAVE n \in A
  <2> SUFFICES ASSUME n + 1 \in 0 .. N PROVE G[n + 1] \in S
    OBVIOUS
  <2>1. n \in 0 .. N /\ n + 1 \in 1 .. N /\ (n + 1) - 1 = n
    OBVIOUS
  <2> QED
    BY <2>1
<1>3. Nat \subseteq A
  <2> HIDE DEF A
  <2> QED
    BY <1>1, <1>2, SetInduction
<1> QED
  BY <1>3

-------------------------------------------------------------------------------
(* Places in a list, and lists of lists. *)

PlaceIn(s, i) == Cardinality({j \in s : j <= i})

\* The places in a finite set of numbers go from 1 to its cardinality.
LEMMA PlacesAreOnto ==
  ASSUME NEW D \in SUBSET Nat, IsFiniteSet(D)
  PROVE  \A k \in 1 .. Cardinality(D) : \E i \in D : PlaceIn(D, i) = k
<1> DEFINE Good(s) == \A k \in 1 .. Cardinality(s) : \E i \in s : PlaceIn(s, i) = k
           P == {s \in SUBSET D : Good(s)}
<1>1. {} \in P
  <2>1. Cardinality({}) = 0
    BY FS_EmptySet
  <2> QED
    BY <2>1
<1>2. \A s \in SUBSET D : s # {} /\ (\A x \in s : s \ {x} \in P) => s \in P
  <2> SUFFICES ASSUME NEW s \in SUBSET D, s # {}, \A x \in s : s \ {x} \in P PROVE Good(s)
    OBVIOUS
  <2> DEFINE x == Max(s)
             r == s \ {x}
  <2>1. IsFiniteSet(s) /\ s \subseteq Int
    <3>1. IsFiniteSet(s)
      BY FS_Subset
    <3>2. s \subseteq Int
      OBVIOUS
    <3> QED
      BY <3>1, <3>2
  <2>2. x \in s /\ \A y \in s : y <= x
    BY <2>1, MaxFinite
  <2> HIDE DEF x
  <2>3. Good(r)
    BY <2>2
  <2>4. Cardinality(s) \in Nat /\ Cardinality(r) = Cardinality(s) - 1
    BY <2>1, <2>2, FS_CardinalityType, FS_RemoveElement
  <2>5. PlaceIn(s, x) = Cardinality(s)
    <3>1. {j \in s : j <= x} = s
      BY <2>2
    <3> QED
      BY <3>1 DEF PlaceIn
  <2>6. \A i \in r : PlaceIn(s, i) = PlaceIn(r, i)
    <3> TAKE i \in r
    <3>1. {j \in s : j <= i} = {j \in r : j <= i}
      <4>1. i <= x /\ i # x /\ i \in Int /\ x \in Int
        BY <2>1, <2>2
      <4>2. ~ (x <= i)
        BY <4>1
      <4> QED
        BY <4>2
    <3> QED
      BY <3>1 DEF PlaceIn
  <2> SUFFICES ASSUME NEW k \in 1 .. Cardinality(s) PROVE \E i \in s : PlaceIn(s, i) = k
    OBVIOUS
  <2>7. CASE k = Cardinality(s)
    BY <2>2, <2>5, <2>7
  <2>8. CASE k # Cardinality(s)
    <3>1. k \in 1 .. Cardinality(r)
      BY <2>4, <2>8
    <3>2. PICK i \in r : PlaceIn(r, i) = k
      BY <2>3, <3>1
    <3> QED
      BY <2>6, <3>2
  <2> QED
    BY <2>7, <2>8
<1> HIDE DEF P
<1>3. D \in P
  BY <1>1, <1>2, SubsetInduction
<1> QED
  BY <1>3 DEF P

\* The least of some places is one of them.
LEMMA LeastMember ==
  ASSUME NEW n \in Nat, NEW T, T \subseteq 1 .. n, T # {}
  PROVE  Min(T) \in T
<1>1. IsFiniteSet(1 .. n)
  BY FS_Interval
<1>2. IsFiniteSet(T)
  BY <1>1, FS_Subset
<1>3. T \subseteq Int
  OBVIOUS
<1> QED
  BY <1>2, <1>3, MinFinite

\* The least, or the first, core of some with a least, or largest, utilisation is one of them.
LEMMA MinOfValues ==
  ASSUME NEW n \in Nat, NEW T, T \subseteq 1 .. n, T # {}, NEW f, \A i \in T : f[i] \in Int
  PROVE  /\ Min({i \in T : f[i] = Min({f[j] : j \in T})}) \in T
         /\ Min({i \in T : f[i] = Max({f[j] : j \in T})}) \in T
<1> DEFINE U == {f[j] : j \in T}
<1>1. IsFiniteSet(T)
  <2>1. IsFiniteSet(1 .. n)
    BY FS_Interval
  <2> QED
    BY <2>1, FS_Subset
<1>2. IsFiniteSet(U)
  <2> HIDE DEF U
  <2>1. U = {f[j] : j \in T}
    BY DEF U
  <2> QED
    BY <1>1, <2>1, ImageIsFinite
<1>3. U \subseteq Int /\ U # {}
  OBVIOUS
<1>4. Min(U) \in U /\ Max(U) \in U
  <2> HIDE DEF U
  <2>1. Min(U) \in U
    BY <1>2, <1>3, MinFinite
  <2>2. Max(U) \in U
    BY <1>2, <1>3, MaxFinite
  <2> QED
    BY <2>1, <2>2
<1> DEFINE A(v) == {i \in T : f[i] = v}
<1>5. \A v \in U : Min(A(v)) \in A(v)
  <2> TAKE v \in U
  <2>1. A(v) # {} /\ A(v) \subseteq 1 .. n
    OBVIOUS
  <2> HIDE DEF A
  <2> QED
    BY <2>1, LeastMember
<1>6. Min(A(Min(U))) \in A(Min(U)) /\ Min(A(Max(U))) \in A(Max(U))
  <2> HIDE DEF A, U
  <2> QED
    BY <1>4, <1>5
<1>7. \A v : A(v) \subseteq T
  OBVIOUS
<1> QED
  BY <1>6, <1>7

Disjoint(ss) == \A k, l \in DOMAIN ss : k # l => \A x \in ToSet(ss[k]) : x \notin ToSet(ss[l])

FlatSteps(f, ss) == f = [i \in 1 .. Len(ss) |-> IF i = 1 THEN ss[i] ELSE f[i - 1] \o ss[i]]

\* The concatenation of sequences is built one by one.
LEMMA FlattenSteps ==
  ASSUME NEW S, NEW ss \in Seq(Seq(S)), ss # <<>>
  PROVE  {f \in {FlattenSeq(ss)} : \E g : FlatSteps(g, ss) /\ f = g[Len(ss)]} # {}
<1> DEFINE n == Len(ss)
<1>1. n \in Nat /\ n # 0 /\ \A i \in 1 .. n : ss[i] \in Seq(S)
  BY SeqIsFunction
<1> DEFINE T == Seq(S)
           Step(k) == [t \in T |-> IF k = 1 THEN ss[k] ELSE t \o ss[k]]
           step == [k \in 1 .. n |-> Step(k)]
<1>2. \A k \in 1 .. n : Step(k) \in [T -> T]
  <2> TAKE k \in 1 .. n
  <2>1. \A t \in T : t \o ss[k] \in T
    <3> TAKE t \in T
    <3>1. t \in Seq(S) /\ ss[k] \in Seq(S)
      BY <1>1
    <3> QED
      BY <3>1, ConcatSeq
  <2> QED
    BY <1>1, <2>1
<1>3. <<>> \in T
  OBVIOUS
<1>4. step \in [1 .. n -> [T -> T]]
  <2> HIDE DEF T, Step
  <2> QED
    BY <1>2
<1>5. Chains(n, T, <<>>, step) # {}
  <2> HIDE DEF n, T, step
  <2> QED
    BY <1>1, <1>3, <1>4, ChainExists
<1>6. PICK g \in [0 .. n -> T] : g[0] = <<>> /\ \A k \in 1 .. n : g[k] = step[k][g[k - 1]]
  BY <1>5 DEF Chains
<1>7. \A k \in 1 .. n : g[k] = IF k = 1 THEN ss[k] ELSE g[k - 1] \o ss[k]
  <2> TAKE k \in 1 .. n
  <2>1. g[k - 1] \in T /\ g[k] = step[k][g[k - 1]]
    <3>1. k - 1 \in 0 .. n
      BY <1>1
    <3> QED
      BY <1>6, <3>1
  <2> HIDE DEF T
  <2> QED
    BY <2>1
<1> DEFINE f == [k \in 1 .. n |-> g[k]]
<1>8. FlatSteps(f, ss)
  <2>1. \A k \in 1 .. n : k # 1 => k - 1 \in 1 .. n
    BY <1>1
  <2>2. \A k \in 1 .. n : f[k] = IF k = 1 THEN ss[k] ELSE f[k - 1] \o ss[k]
    BY <1>7, <2>1
  <2>3. f = [k \in 1 .. n |-> f[k]]
    OBVIOUS
  <2> HIDE DEF f
  <2>4. f = [k \in 1 .. n |-> IF k = 1 THEN ss[k] ELSE f[k - 1] \o ss[k]]
    BY <2>2, <2>3
  <2> QED
    BY <2>4 DEF FlatSteps
<1> DEFINE c == CHOOSE h : h = [i \in 1 .. Len(ss) |-> IF i = 1 THEN ss[i] ELSE h[i - 1] \o ss[i]]
<1>9. FlatSteps(c, ss)
  BY <1>8, Zenon DEF FlatSteps
<1>10. FlattenSeq(ss) = c[n]
  BY <1>1 DEF FlattenSeq
<1> HIDE DEF c
<1> QED
  BY <1>9, <1>10

\* Its elements are those of the sequences; they are different if all are.
LEMMA FlatSeq ==
  ASSUME NEW S, NEW ss \in Seq(Seq(S)), ss # <<>>
  PROVE  /\ FlattenSeq(ss) \in Seq(S)
         /\ \A x : x \in ToSet(FlattenSeq(ss)) <=> \E k \in DOMAIN ss : x \in ToSet(ss[k])
         /\ (\A k \in DOMAIN ss : Distinct(ss[k])) /\ Disjoint(ss) => Distinct(FlattenSeq(ss))
<1> DEFINE n == Len(ss)
           H == (\A k \in DOMAIN ss : Distinct(ss[k])) /\ Disjoint(ss)
<1>1. n \in Nat /\ n # 0 /\ DOMAIN ss = 1 .. n /\ \A i \in 1 .. n : ss[i] \in Seq(S)
  BY SeqIsFunction
<1>2. PICK f : FlatSteps(f, ss) /\ FlattenSeq(ss) = f[n]
  BY FlattenSteps
<1>3. \A i \in 1 .. n : f[i] = IF i = 1 THEN ss[i] ELSE f[i - 1] \o ss[i]
  BY <1>2 DEF FlatSteps
<1> DEFINE Good(i) == /\ f[i] \in Seq(S)
                      /\ \A x : x \in ToSet(f[i]) <=> \E k \in 1 .. i : x \in ToSet(ss[k])
                      /\ H => Distinct(f[i])
           A == {i \in Nat : i + 1 <= n => Good(i + 1)}
<1>4. 0 \in A
  <2>1. 1 \in 1 .. n
    BY <1>1
  <2>2. f[1] = ss[1]
    BY <1>3, <2>1
  <2>3. 1 .. 1 = {1}
    OBVIOUS
  <2>4. Good(1)
    BY <1>1, <2>1, <2>2, <2>3
  <2> QED
    BY <2>4
<1>5. \A i \in Nat : i \in A => i + 1 \in A
  <2> TAKE i \in Nat
  <2> HAVE i \in A
  <2> SUFFICES ASSUME (i + 1) + 1 <= n PROVE Good((i + 1) + 1)
    OBVIOUS
  <2> DEFINE j == i + 1
             k == j + 1
  <2>1. j \in 1 .. n /\ k \in 1 .. n /\ k # 1 /\ k - 1 = j
    BY <1>1
  <2>2. Good(j)
    BY <2>1
  <2>3. f[k] = f[j] \o ss[k]
    BY <1>3, <2>1
  <2>4. f[j] \in Seq(S) /\ ss[k] \in Seq(S)
    BY <1>1, <2>1, <2>2
  <2>5. \A m : m \in 1 .. k <=> m \in 1 .. j \/ m = k
    BY <2>1
  <2>6. k \notin 1 .. j /\ 1 .. j \subseteq 1 .. n
    BY <2>1
  <2> HIDE DEF k, j
  <2>7. f[j] \o ss[k] \in Seq(S)
    BY <2>4, ConcatSeq
  <2>8. /\ \A x : x \in ToSet(f[j] \o ss[k]) <=> x \in ToSet(f[j]) \/ x \in ToSet(ss[k])
        /\ (Distinct(f[j]) /\ Distinct(ss[k]) /\ \A x \in ToSet(f[j]) : x \notin ToSet(ss[k]))
             => Distinct(f[j] \o ss[k])
    BY <2>4, ConcatSet
  <2>9. \A x : x \in ToSet(f[k]) <=> \E m \in 1 .. k : x \in ToSet(ss[m])
    BY <2>2, <2>3, <2>5, <2>8
  <2>10. ASSUME H PROVE Distinct(f[k])
    <3>1. \A x \in ToSet(f[j]) : x \notin ToSet(ss[k])
      <4> TAKE x \in ToSet(f[j])
      <4>1. PICK m \in 1 .. j : x \in ToSet(ss[m])
        BY <2>2
      <4>2. m \in DOMAIN ss /\ k \in DOMAIN ss /\ m # k
        BY <1>1, <2>1, <2>6
      <4>3. Disjoint(ss)
        BY <2>10
      <4> HIDE DEF A, Good, H
      <4> QED
        BY <4>1, <4>2, <4>3 DEF Disjoint
    <3>2. Distinct(f[j]) /\ Distinct(ss[k])
      BY <1>1, <2>1, <2>2, <2>10
    <3> QED
      BY <2>3, <2>8, <3>1, <3>2
  <2>11. Good(k)
    BY <2>3, <2>7, <2>9, <2>10
  <2> QED
    BY <2>11 DEF k, j
<1> HIDE DEF A
<1>6. Nat \subseteq A
  BY <1>4, <1>5, SetInduction
<1>7. n - 1 \in A /\ (n - 1) + 1 = n
  BY <1>1, <1>6
<1>8. Good(n)
  <2> HIDE DEF Good
  <2> QED
    BY <1>1, <1>7 DEF A
<1> QED
  BY <1>1, <1>2, <1>8

\* f goes through 1 .. m in order.
Ascends(f, n, m) ==
  /\ f \in [1 .. n -> 1 .. m]
  /\ \A i, j \in 1 .. n : (f[i] = f[j] => i = j) /\ (i <= j => f[i] <= f[j])
  /\ \A x \in 1 .. m : \E i \in 1 .. n : f[i] = x

\* An ascending one-to-one function from 1 .. n onto 1 .. m is the identity.
LEMMA AscendingIsIdentity ==
  ASSUME NEW n \in Nat, NEW m \in Nat, NEW f, Ascends(f, n, m)
  PROVE  n = m /\ \A i \in 1 .. n : f[i] = i
<1>0. /\ f \in [1 .. n -> 1 .. m]
      /\ \A i, j \in 1 .. n : (f[i] = f[j] => i = j) /\ (i <= j => f[i] <= f[j])
      /\ \A x \in 1 .. m : \E i \in 1 .. n : f[i] = x
  BY DEF Ascends
<1> USE <1>0
<1> DEFINE A == {k \in Nat : k + 1 <= n => f[k + 1] = k + 1}
<1>1. 0 \in A
  <2> SUFFICES ASSUME 1 <= n PROVE f[1] = 1
    OBVIOUS
  <2>1. 1 \in 1 .. n /\ f[1] \in 1 .. m
    OBVIOUS
  <2>2. 1 \in 1 .. m
    BY <2>1
  <2>3. PICK j \in 1 .. n : f[j] = 1
    BY <2>2
  <2>4. f[1] <= f[j]
    BY <2>1
  <2> QED
    BY <2>1, <2>3, <2>4
<1>2. \A k \in Nat : k \in A => k + 1 \in A
  <2> TAKE k \in Nat
  <2> HAVE k \in A
  <2> DEFINE a == k + 1
             b == a + 1
  <2> SUFFICES ASSUME b <= n PROVE f[b] = b
    OBVIOUS
  <2>1. a \in 1 .. n /\ b \in 1 .. n /\ a <= b /\ a # b /\ a \in Nat /\ b = a + 1
    OBVIOUS
  <2>2. f[a] = a
    BY <2>1
  <2>3. f[a] \in 1 .. m /\ f[b] \in 1 .. m /\ f[a] <= f[b] /\ f[a] # f[b]
    BY <2>1
  <2>4. b \in 1 .. m /\ f[b] >= b
    BY <2>1, <2>2, <2>3
  <2>5. PICK j \in 1 .. n : f[j] = b
    BY <2>4
  <2>6. j >= b
    <3> SUFFICES ASSUME j <= a PROVE FALSE
      BY <2>1
    <3>1. f[j] <= f[a]
      BY <2>1
    <3> QED
      BY <2>1, <2>2, <2>5, <3>1
  <2>7. f[b] <= f[j]
    BY <2>1, <2>6
  <2> QED
    BY <2>1, <2>3, <2>4, <2>5, <2>7
<1> HIDE DEF A
<1>3. Nat \subseteq A
  BY <1>1, <1>2, SetInduction
<1>4. \A i \in 1 .. n : f[i] = i
  <2> TAKE i \in 1 .. n
  <2>1. i - 1 \in A /\ (i - 1) + 1 = i
    BY <1>3
  <2> QED
    BY <2>1 DEF A
<1>5. n <= m
  <2> SUFFICES ASSUME 1 <= n PROVE n <= m
    OBVIOUS
  <2>1. n \in 1 .. n
    OBVIOUS
  <2>2. f[n] \in 1 .. m /\ f[n] = n
    BY <1>4, <2>1
  <2> QED
    BY <2>2
<1>6. m <= n
  <2> SUFFICES ASSUME 1 <= m PROVE m <= n
    OBVIOUS
  <2>1. m \in 1 .. m
    OBVIOUS
  <2>2. PICK i \in 1 .. n : f[i] = m
    BY <2>1
  <2> QED
    BY <1>4, <2>2
<1> QED
  BY <1>4, <1>5, <1>6

\* The places of a list of n elements but x, in turn.
Skip(n, x) == [i \in 1 .. n - 1 |-> IF i < x THEN i ELSE i + 1]

\* t is s without the element at x.
Removes(t, s, x) ==
  /\ DOMAIN t = 1 .. Len(s) - 1
  /\ \A i \in 1 .. Len(s) - 1 : /\ Skip(Len(s), x)[i] \in 1 .. Len(s) /\ Skip(Len(s), x)[i] # x
                                /\ t[i] = s[Skip(Len(s), x)[i]]
  /\ \A i, j \in 1 .. Len(s) - 1 : Skip(Len(s), x)[i] = Skip(Len(s), x)[j] => i = j
  /\ \A j \in 1 .. Len(s) : j # x => \E i \in 1 .. Len(s) - 1 : Skip(Len(s), x)[i] = j

\* Removing one element moves those after it and keeps all others.
LEMMA RemoveAtSeq ==
  ASSUME NEW S, NEW s \in Seq(S), NEW x \in 1 .. Len(s)
  PROVE  RemoveAt(s, x) \in Seq(S) /\ Removes(RemoveAt(s, x), s, x)
<1> DEFINE n == Len(s)
           a == SubSeq(s, 1, x - 1)
           b == SubSeq(s, x + 1, n)
           h == Skip(n, x)
<1>1. n \in Nat /\ DOMAIN s = 1 .. n /\ (\A i \in 1 .. n : s[i] \in S) /\ x \in 1 .. n
  BY SeqIsFunction
<1>2. a \in Seq(S) /\ Len(a) = x - 1 /\ \A i \in 1 .. x - 1 : a[i] = s[i]
  <2>1. \A i \in 1 .. x - 1 : s[i] \in S
    BY <1>1
  <2>2. /\ a \in Seq(S) /\ Len(a) = (IF 1 <= x - 1 THEN (x - 1) - 1 + 1 ELSE 0)
        /\ \A i \in 1 .. (x - 1) - 1 + 1 : a[i] = s[1 + i - 1]
    <3>1. 1 \in Int /\ x - 1 \in Int
      BY <1>1
    <3> HIDE DEF n
    <3> QED
      BY <2>1, <3>1, SubSeqProperties
  <2>3. (x - 1) - 1 + 1 = x - 1 /\ (~ (1 <= x - 1) => x - 1 = 0) /\ \A i \in 1 .. x - 1 : 1 + i - 1 = i
    BY <1>1
  <2> HIDE DEF a
  <2> QED
    BY <2>2, <2>3
<1>3. b \in Seq(S) /\ Len(b) = n - x /\ \A i \in 1 .. n - x : b[i] = s[x + i]
  <2>1. \A i \in x + 1 .. n : s[i] \in S
    BY <1>1
  <2>2. /\ b \in Seq(S) /\ Len(b) = (IF x + 1 <= n THEN n - (x + 1) + 1 ELSE 0)
        /\ \A i \in 1 .. n - (x + 1) + 1 : b[i] = s[(x + 1) + i - 1]
    <3>1. x + 1 \in Int /\ n \in Int
      BY <1>1
    <3> HIDE DEF n
    <3> QED
      BY <2>1, <3>1, SubSeqProperties
  <2>3. n - (x + 1) + 1 = n - x /\ (~ (x + 1 <= n) => n - x = 0) /\ \A i \in 1 .. n - x : (x + 1) + i - 1 = x + i
    <3>1. x \in Int /\ n \in Int /\ x <= n
      BY <1>1
    <3> HIDE DEF n
    <3>2. n - (x + 1) + 1 = n - x /\ (~ (x + 1 <= n) => n - x = 0)
      BY <3>1
    <3>3. \A i \in 1 .. n - x : (x + 1) + i - 1 = x + i
      BY <3>1
    <3> QED
      BY <3>2, <3>3
  <2> HIDE DEF b
  <2> QED
    BY <2>2, <2>3, Zenon
<1>4. RemoveAt(s, x) = a \o b
  BY DEF RemoveAt
<1> HIDE DEF a, b
<1>5. /\ a \o b \in Seq(S) /\ DOMAIN (a \o b) = 1 .. n - 1
      /\ (\A i \in 1 .. x - 1 : (a \o b)[i] = s[i])
      /\ (\A i \in 1 .. n - x : (a \o b)[(x - 1) + i] = s[x + i])
  <2>1. /\ a \o b \in Seq(S) /\ DOMAIN (a \o b) = 1 .. Len(a) + Len(b)
        /\ (\A i \in 1 .. Len(a) : (a \o b)[i] = a[i])
        /\ (\A i \in 1 .. Len(b) : (a \o b)[Len(a) + i] = b[i])
    <3>1. a \in Seq(S) /\ b \in Seq(S)
      BY <1>2, <1>3
    <3> QED
      BY <3>1, ConcatSeq
  <2>2. (x - 1) + (n - x) = n - 1
    BY <1>1
  <2> QED
    BY <1>2, <1>3, <2>1, <2>2
<1>6. \A i \in 1 .. n - 1 : h[i] = IF i < x THEN i ELSE i + 1
  BY DEF Skip
<1> HIDE DEF h, n
<1>7. \A i \in 1 .. n - 1 : h[i] \in 1 .. n /\ h[i] # x
  BY <1>1, <1>6
<1>8. \A i \in 1 .. n - 1 : (a \o b)[i] = s[h[i]]
  <2> TAKE i \in 1 .. n - 1
  <2>1. CASE i < x
    <3>1. i \in 1 .. x - 1 /\ h[i] = i
      BY <1>1, <1>6, <2>1
    <3> QED
      BY <1>5, <3>1
  <2>2. CASE ~ (i < x)
    <3> DEFINE k == i - x + 1
    <3>1. k \in 1 .. n - x /\ (x - 1) + k = i /\ x + k = i + 1 /\ h[i] = i + 1
      BY <1>1, <1>6, <2>2
    <3>2. (a \o b)[(x - 1) + k] = s[x + k]
      BY <1>5, <3>1
    <3> QED
      BY <3>1, <3>2
  <2> QED
    BY <2>1, <2>2
<1>9. \A i, j \in 1 .. n - 1 : h[i] = h[j] => i = j
  BY <1>1, <1>6
<1>10. \A j \in 1 .. n : j # x => \E i \in 1 .. n - 1 : h[i] = j
  <2> TAKE j \in 1 .. n
  <2> HAVE j # x
  <2>1. CASE j < x
    <3>1. j \in 1 .. n - 1 /\ h[j] = j
      BY <1>1, <1>6, <2>1
    <3> QED
      BY <3>1
  <2>2. CASE ~ (j < x)
    <3>1. j - 1 \in 1 .. n - 1 /\ ~ (j - 1 < x) /\ (j - 1) + 1 = j
      BY <1>1, <2>2
    <3>2. h[j - 1] = j
      BY <1>6, <3>1
    <3> QED
      BY <3>1, <3>2
  <2> QED
    BY <2>1, <2>2
<1> DEFINE u == RemoveAt(s, x)
<1>11. /\ u \in Seq(S) /\ DOMAIN u = 1 .. n - 1
       /\ \A i \in 1 .. n - 1 : h[i] \in 1 .. n /\ h[i] # x /\ u[i] = s[h[i]]
  BY <1>4, <1>5, <1>7, <1>8
<1> HIDE DEF u
<1>12. Removes(u, s, x)
  BY <1>9, <1>10, <1>11 DEF Removes, h, n
<1> QED
  BY <1>11, <1>12 DEF u

-------------------------------------------------------------------------------
(* Sums over a list of the elements of a set. *)

\* Sums of terms that are proportional are so, too.
LEMMA SumScaled ==
  ASSUME NEW D, IsFiniteSet(D), NEW f, NEW g, NEW h \in Int, NEW p \in Int,
         \A x \in D : f[x] \in Int /\ g[x] \in Int /\ h * f[x] = p * g[x]
  PROVE  h * SumFunctionOnSet(f, D) = p * SumFunctionOnSet(g, D)
<1> DEFINE P == {s \in SUBSET D : h * SumFunctionOnSet(f, s) = p * SumFunctionOnSet(g, s)}
<1>1. {} \in P
  <2>1. h * 0 = p * 0
    OBVIOUS
  <2> QED
    BY <2>1, SumEmpty
<1>2. ASSUME NEW s \in SUBSET D, s # {}, \A x \in s : s \ {x} \in P PROVE s \in P
  <2>1. PICK x \in s : TRUE
    BY <1>2
  <2> DEFINE a == SumFunctionOnSet(f, s \ {x})
             b == SumFunctionOnSet(g, s \ {x})
             u == f[x]
             v == g[x]
  <2>2. IsFiniteSet(s) /\ IsFiniteSet(s \ {x})
    BY FS_Subset
  <2>3. SumFunctionOnSet(f, s) = u + a /\ SumFunctionOnSet(g, s) = v + b
    BY <2>2, SumRemove
  <2>4. a \in Int /\ b \in Int /\ u \in Int /\ v \in Int /\ h * u = p * v
    BY <2>2, SumInt
  <2>5. h * a = p * b
    BY <1>2
  <2> HIDE DEF a, b, u, v
  <2>6. h * (u + a) = h * u + h * a /\ p * (v + b) = p * v + p * b
    BY <2>4
  <2>7. h * (u + a) = p * (v + b)
    BY <2>4, <2>5, <2>6
  <2> QED
    BY <2>3, <2>7
<1>3. \A s \in SUBSET D : s \in P
  <2> HIDE DEF P
  <2> QED
    BY <1>1, <1>2, SubsetInduction
<1> QED
  BY <1>3

\* The first n elements that g enumerates.
Prefix(g, n) == {g[k] : k \in 1 .. n}

\* The first n + 1 terms are the first n and one more.
LEMMA PrefixStep ==
  ASSUME NEW N \in Nat, NEW A, NEW g \in [1 .. N -> A], \A k, l \in 1 .. N : g[k] = g[l] => k = l,
         NEW i \in 1 .. N
  PROVE  /\ Prefix(g, i) = Prefix(g, i - 1) \cup {g[i]} /\ g[i] \notin Prefix(g, i - 1)
         /\ g[i] \in A
<1>1. 1 .. i = (1 .. i - 1) \cup {i} /\ i \notin 1 .. i - 1 /\ (1 .. i) \subseteq 1 .. N
  OBVIOUS
<1>2. Prefix(g, i) = Prefix(g, i - 1) \cup {g[i]}
  BY <1>1 DEF Prefix
<1>3. g[i] \notin Prefix(g, i - 1)
  BY <1>1 DEF Prefix
<1> QED
  BY <1>2, <1>3

\* The first terms of a list of different elements are as many as their number.
LEMMA PrefixIsFinite ==
  ASSUME NEW N \in Nat, NEW A, NEW g \in [1 .. N -> A], \A k, l \in 1 .. N : g[k] = g[l] => k = l
  PROVE  \A n \in 0 .. N : /\ IsFiniteSet(Prefix(g, n)) /\ Cardinality(Prefix(g, n)) = n
                           /\ Prefix(g, n) \subseteq A
<1> DEFINE S == {n \in Nat : n <= N => /\ IsFiniteSet(Prefix(g, n)) /\ Cardinality(Prefix(g, n)) = n
                                       /\ Prefix(g, n) \subseteq A}
<1>1. 0 \in S
  <2>1. Prefix(g, 0) = {}
    BY DEF Prefix
  <2> QED
    BY <2>1, FS_EmptySet
<1>2. \A n \in Nat : n \in S => n + 1 \in S
  <2> TAKE n \in Nat
  <2> HAVE n \in S
  <2> SUFFICES ASSUME n + 1 <= N
               PROVE  /\ IsFiniteSet(Prefix(g, n + 1)) /\ Cardinality(Prefix(g, n + 1)) = n + 1
                      /\ Prefix(g, n + 1) \subseteq A
    OBVIOUS
  <2>1. IsFiniteSet(Prefix(g, n)) /\ Cardinality(Prefix(g, n)) = n /\ Prefix(g, n) \subseteq A
    OBVIOUS
  <2> DEFINE i == n + 1
  <2>2. i \in 1 .. N /\ i - 1 = n
    OBVIOUS
  <2> HIDE DEF i
  <2>a. Prefix(g, i) = Prefix(g, i - 1) \cup {g[i]} /\ g[i] \notin Prefix(g, i - 1) /\ g[i] \in A
    BY <2>2, PrefixStep
  <2>3. Prefix(g, n + 1) = Prefix(g, n) \cup {g[n + 1]} /\ g[n + 1] \notin Prefix(g, n) /\ g[n + 1] \in A
    BY <2>2, <2>a DEF i
  <2> QED
    BY <2>1, <2>3, FS_AddElement
<1> HIDE DEF S
<1>3. Nat \subseteq S
  BY <1>1, <1>2, SetInduction
<1> QED
  BY <1>3 DEF S

Listing(N, A, g) == g \in [1 .. N -> A] /\ \A k, l \in 1 .. N : g[k] = g[l] => k = l

\* The sums of f over the first elements.
LEMMA PrefixSumIsNat ==
  ASSUME NEW N \in Nat, NEW A, NEW g, Listing(N, A, g), NEW f, \A x \in A : f[x] \in Nat,
         NEW n \in 0 .. N
  PROVE  SumFunctionOnSet(f, Prefix(g, n)) \in Nat
<1>1. IsFiniteSet(Prefix(g, n)) /\ Prefix(g, n) \subseteq A
  BY PrefixIsFinite DEF Listing
<1>2. \A x \in Prefix(g, n) : f[x] \in Nat
  BY <1>1
<1> QED
  BY <1>1, <1>2, SumNat

\* The sum of no terms.
LEMMA PrefixSumOfNone ==
  ASSUME NEW g, NEW f
  PROVE  SumFunctionOnSet(f, Prefix(g, 0)) = 0
<1>1. Prefix(g, 0) = {}
  BY DEF Prefix
<1> QED
  BY <1>1, SumEmpty

\* The sum of one term more.
LEMMA PrefixSumStep ==
  ASSUME NEW N \in Nat, NEW A, NEW g, Listing(N, A, g), NEW f, \A x \in A : f[x] \in Nat,
         NEW i \in 1 .. N
  PROVE  SumFunctionOnSet(f, Prefix(g, i)) = SumFunctionOnSet(f, Prefix(g, i - 1)) + f[g[i]]
<1> DEFINE D == Prefix(g, i - 1)
           a == g[i]
<1>1. i - 1 \in 0 .. N
  OBVIOUS
<1>2. IsFiniteSet(D) /\ D \subseteq A
  BY <1>1, PrefixIsFinite DEF Listing
<1>3. Prefix(g, i) = D \cup {a} /\ a \notin D /\ a \in A
  BY PrefixStep DEF Listing
<1> HIDE DEF D, a
<1>4. \A x \in D \cup {a} : f[x] \in Int
  BY <1>2, <1>3
<1>5. SumFunctionOnSet(f, D \cup {a}) = SumFunctionOnSet(f, D) + f[a]
  BY <1>2, <1>3, <1>4, SumAdd
<1> QED
  BY <1>3, <1>5 DEF D, a

\* Sums of the first terms.
Sums(N, f, F) ==
  F \in [0 .. N -> Nat] /\ F[0] = 0 /\ \A i \in 1 .. N : F[i] = F[i - 1] + f[i]

\* There is such a list of sums.
LEMMA SumsExist ==
  ASSUME NEW N \in Nat, NEW f \in [1 .. N -> Nat]
  PROVE  \E F : Sums(N, f, F)
<1> DEFINE A == 1 .. N
           g == [k \in 1 .. N |-> k]
           h == [k \in 1 .. N |-> f[k]]
           s(n) == SumFunctionOnSet(h, Prefix(g, n))
           F == [n \in 0 .. N |-> s(n)]
<1>1. Listing(N, A, g) /\ \A x \in A : h[x] \in Nat /\ g[x] = x /\ h[x] = f[x]
  BY DEF Listing
<1> HIDE DEF g, h
<1>2. \A n \in 0 .. N : s(n) \in Nat
  BY <1>1, PrefixSumIsNat
<1>3. s(0) = 0
  BY PrefixSumOfNone
<1>4. \A i \in 1 .. N : s(i) = s(i - 1) + h[g[i]]
  <2> HIDE DEF A
  <2>1. \A i \in 1 .. N : s(i) = s(i - 1) + h[g[i]]
    BY <1>1, PrefixSumStep
  <2> QED
    BY <2>1
<1> HIDE DEF s
<1>5. Sums(N, f, F)
  <2>1. F \in [0 .. N -> Nat] /\ F[0] = 0
    BY <1>2, <1>3
  <2>2. \A i \in 1 .. N : i \in 0 .. N /\ i - 1 \in 0 .. N /\ h[g[i]] = f[i]
    BY <1>1
  <2>3. \A i \in 1 .. N : F[i] = F[i - 1] + f[i]
    BY <1>4, <2>2
  <2> QED
    BY <2>1, <2>3 DEF Sums
<1> QED
  BY <1>5

Proportional(N, f, F, h, g, G, k) ==
  /\ N \in Nat /\ h \in Nat /\ k \in Nat
  /\ f \in [1 .. N -> Nat] /\ Sums(N, f, F) /\ g \in [1 .. N -> Nat] /\ Sums(N, g, G)
  /\ \A i \in 1 .. N : h * f[i] = k * g[i]

\* Sums of proportional terms are proportional.
LEMMA SumsScaled ==
  ASSUME NEW N, NEW f, NEW F, NEW h, NEW g, NEW G, NEW k, Proportional(N, f, F, h, g, G, k)
  PROVE  h * F[N] = k * G[N]
<1>0. /\ N \in Nat /\ h \in Nat /\ k \in Nat
      /\ f \in [1 .. N -> Nat] /\ Sums(N, f, F) /\ g \in [1 .. N -> Nat] /\ Sums(N, g, G)
      /\ \A i \in 1 .. N : h * f[i] = k * g[i]
  BY DEF Proportional
<1> DEFINE S == {n \in Nat : n <= N => h * F[n] = k * G[n]}
<1>1. 0 \in S
  <2>1. F[0] = 0 /\ G[0] = 0 /\ h * 0 = 0 /\ k * 0 = 0
    BY <1>0 DEF Sums
  <2> QED
    BY <2>1
<1>2. \A n \in Nat : n \in S => n + 1 \in S
  <2> TAKE n \in Nat
  <2> HAVE n \in S
  <2> SUFFICES ASSUME n + 1 <= N PROVE h * F[n + 1] = k * G[n + 1]
    OBVIOUS
  <2> DEFINE i == n + 1
             a == F[n]
             b == G[n]
             c == f[i]
             d == g[i]
  <2>1. i \in 1 .. N /\ i - 1 = n /\ n \in 0 .. N /\ n <= N
    BY <1>0
  <2>2. h * a = k * b
    BY <2>1
  <2> HIDE DEF i
  <2>3. F[i] = a + c /\ G[i] = b + d /\ h * c = k * d /\ a \in Nat /\ b \in Nat /\ c \in Nat /\ d \in Nat
    BY <1>0, <2>1 DEF Sums
  <2> HIDE DEF a, b, c, d
  <2>4. h * (a + c) = h * a + h * c /\ k * (b + d) = k * b + k * d
    BY <1>0, <2>3
  <2>5. h * F[i] = k * G[i]
    BY <2>2, <2>3, <2>4
  <2> QED
    BY <2>5 DEF i
<1> HIDE DEF S
<1>3. N \in S
  BY <1>0, <1>1, <1>2, SetInduction
<1> QED
  BY <1>0, <1>3 DEF S

\* Numbers have a common multiple.
LEMMA CommonMultiple ==
  ASSUME NEW N \in Nat, NEW P \in [0 .. N -> Nat \ {0}]
  PROVE  \E K \in Nat \ {0} : \E q \in [0 .. N -> Nat \ {0}] : \A i \in 0 .. N : P[i] * q[i] = K
<1> DEFINE Good(n) == \E K \in Nat \ {0} : \E q \in [0 .. n -> Nat \ {0}] : \A i \in 0 .. n : P[i] * q[i] = K
           S == {n \in Nat : n <= N => Good(n)}
<1>1. Good(0)
  <2> DEFINE q == [i \in 0 .. 0 |-> 1]
  <2>1. P[0] \in Nat \ {0}
    OBVIOUS
  <2>2. q \in [0 .. 0 -> Nat \ {0}] /\ \A i \in 0 .. 0 : P[i] * q[i] = P[0]
    BY <2>1
  <2> QED
    BY <2>1, <2>2
<1>2. ASSUME NEW n \in Nat, n + 1 <= N, Good(n) PROVE Good(n + 1)
  <2>1. PICK K \in Nat \ {0} : \E q \in [0 .. n -> Nat \ {0}] : \A i \in 0 .. n : P[i] * q[i] = K
    BY <1>2
  <2>2. PICK q \in [0 .. n -> Nat \ {0}] : \A i \in 0 .. n : P[i] * q[i] = K
    BY <2>1
  <2> DEFINE p == P[n + 1]
             r == [i \in 0 .. n + 1 |-> IF i = n + 1 THEN K ELSE q[i] * p]
  <2>3. p \in Nat \ {0}
    BY <1>2
  <2> HIDE DEF p
  <2>4. K * p \in Nat \ {0}
    BY <2>3
  <2>5. \A i \in 0 .. n + 1 : r[i] \in Nat \ {0} /\ P[i] * r[i] = K * p
    <3> TAKE i \in 0 .. n + 1
    <3>1. CASE i = n + 1
      <4>1. r[i] = K /\ P[i] = p
        BY <3>1 DEF p
      <4> QED
        BY <2>3, <4>1
    <3>2. CASE i # n + 1
      <4>1. i \in 0 .. n /\ P[i] \in Nat \ {0} /\ q[i] \in Nat \ {0} /\ r[i] = q[i] * p /\ P[i] * q[i] = K
        BY <1>2, <2>2, <3>2
      <4>2. q[i] * p \in Nat \ {0} /\ P[i] * (q[i] * p) = (P[i] * q[i]) * p
        <5> DEFINE x == P[i]
                   y == q[i]
        <5>1. x \in Nat \ {0} /\ y \in Nat \ {0}
          BY <4>1
        <5> HIDE DEF x, y
        <5>2. y * p \in Nat \ {0} /\ x * (y * p) = (x * y) * p
          BY <2>3, <5>1
        <5> QED
          BY <5>2 DEF x, y
      <4> QED
        BY <4>1, <4>2
    <3> QED
      BY <3>1, <3>2
  <2>6. r \in [0 .. n + 1 -> Nat \ {0}]
    BY <2>5
  <2> HIDE DEF r
  <2> QED
    BY <2>4, <2>5, <2>6
<1> HIDE DEF Good
<1>3. 0 \in S /\ \A n \in Nat : n \in S => n + 1 \in S
  BY <1>1, <1>2
<1> HIDE DEF S
<1>4. N \in S
  BY <1>3, SetInduction
<1>5. Good(N)
  BY <1>4 DEF S
<1> QED
  BY <1>5 DEF Good

-------------------------------------------------------------------------------
(* Powers. *)

\* The powers of x up to n are a chain of products.
Times(x, n) == [k \in 1 .. n |-> [y \in Int |-> x * y]]

\* A power is the last of the products that define it.
LEMMA PowerIsChain ==
  ASSUME NEW x \in Int, NEW n \in Nat
  PROVE  \E g \in Chains(n, Int, 1, Times(x, n)) : Power(x, n) = g[n]
<1> DEFINE F(g) == [k \in 0 .. n |-> IF k = 0 THEN 1 ELSE x * g[k - 1]]
           G == CHOOSE g : g = F(g)
<1>1. Times(x, n) \in [1 .. n -> [Int -> Int]]
  BY DEF Times
<1>2. PICK g : g \in Chains(n, Int, 1, Times(x, n))
  <2> HIDE DEF F, G
  <2>1. 1 \in Int
    OBVIOUS
  <2>2. Chains(n, Int, 1, Times(x, n)) # {}
    BY <1>1, <2>1, ChainExists
  <2> QED
    BY <2>2
<1>3. g \in [0 .. n -> Int] /\ g[0] = 1 /\ \A k \in 1 .. n : g[k] = Times(x, n)[k][g[k - 1]]
  BY <1>2 DEF Chains
<1>4. \A k \in 1 .. n : g[k] = x * g[k - 1]
  <2> TAKE k \in 1 .. n
  <2>1. k - 1 \in 0 .. n /\ g[k - 1] \in Int
    BY <1>3
  <2>2. Times(x, n)[k][g[k - 1]] = x * g[k - 1]
    BY <2>1 DEF Times
  <2> QED
    BY <1>3, <2>2
<1>5. g = F(g)
  <2>1. \A k \in 0 .. n : k = 0 \/ k \in 1 .. n
    OBVIOUS
  <2>2. \A k \in 0 .. n : g[k] = IF k = 0 THEN 1 ELSE x * g[k - 1]
    BY <1>3, <1>4, <2>1
  <2> QED
    BY <1>3, <2>2
<1>6. Power(x, n) = G[n]
  BY DEF Power
<1>7. G = F(G)
  <2> HIDE DEF F
  <2> QED
    BY <1>5
<1> HIDE DEF G
<1>8. \A k \in 0 .. n : G[k] = IF k = 0 THEN 1 ELSE x * G[k - 1]
  BY <1>7
<1> DEFINE A == {k \in Nat : k \in 0 .. n => G[k] = g[k]}
<1>9. 0 \in A
  BY <1>3, <1>8
<1>10. \A k \in Nat : k \in A => k + 1 \in A
  <2> TAKE k \in Nat
  <2> HAVE k \in A
  <2> SUFFICES ASSUME k + 1 \in 0 .. n PROVE G[k + 1] = g[k + 1]
    OBVIOUS
  <2>1. k \in 0 .. n /\ k + 1 \in 1 .. n /\ (k + 1) - 1 = k /\ k + 1 # 0
    OBVIOUS
  <2>2. G[k] = g[k]
    BY <2>1
  <2> QED
    BY <1>4, <1>8, <2>1, <2>2
<1> HIDE DEF A
<1>11. n \in A
  BY <1>9, <1>10, SetInduction
<1> QED
  BY <1>2, <1>6, <1>11 DEF A

\* The rules that a power is computed by.
LEMMA PowerRules ==
  ASSUME NEW x \in Int
  PROVE  /\ Power(x, 0) = 1
         /\ \A n \in Nat : Power(x, n) \in Int /\ Power(x, n + 1) = x * Power(x, n)
<1>1. Power(x, 0) = 1
  <2>1. PICK g \in Chains(0, Int, 1, Times(x, 0)) : Power(x, 0) = g[0]
    BY PowerIsChain
  <2> QED
    BY <2>1 DEF Chains
<1>2. ASSUME NEW n \in Nat PROVE Power(x, n) \in Int /\ Power(x, n + 1) = x * Power(x, n)
  <2>1. PICK g \in Chains(n, Int, 1, Times(x, n)) : Power(x, n) = g[n]
    BY PowerIsChain
  <2>2. PICK h \in Chains(n + 1, Int, 1, Times(x, n + 1)) : Power(x, n + 1) = h[n + 1]
    BY PowerIsChain
  <2>3. g \in [0 .. n -> Int] /\ g[0] = 1 /\ \A k \in 1 .. n : g[k] = Times(x, n)[k][g[k - 1]]
    BY DEF Chains
  <2>4. h \in [0 .. n + 1 -> Int] /\ h[0] = 1
        /\ \A k \in 1 .. n + 1 : h[k] = Times(x, n + 1)[k][h[k - 1]]
    BY DEF Chains
  <2>5. (\A k \in 1 .. n : g[k] = x * g[k - 1]) /\ \A k \in 1 .. n + 1 : h[k] = x * h[k - 1]
    <3>1. ASSUME NEW k \in 1 .. n PROVE g[k] = x * g[k - 1]
      <4>1. k - 1 \in 0 .. n /\ g[k - 1] \in Int
        BY <2>3
      <4> QED
        BY <2>3, <4>1 DEF Times
    <3>2. ASSUME NEW k \in 1 .. n + 1 PROVE h[k] = x * h[k - 1]
      <4>1. k - 1 \in 0 .. n + 1 /\ h[k - 1] \in Int
        BY <2>4
      <4> QED
        BY <2>4, <4>1 DEF Times
    <3> QED
      BY <3>1, <3>2
  <2> DEFINE A == {k \in Nat : k \in 0 .. n => g[k] = h[k]}
  <2>6. 0 \in A
    BY <2>3, <2>4
  <2>7. \A k \in Nat : k \in A => k + 1 \in A
    <3> TAKE k \in Nat
    <3> HAVE k \in A
    <3> SUFFICES ASSUME k + 1 \in 0 .. n PROVE g[k + 1] = h[k + 1]
      OBVIOUS
    <3>1. k \in 0 .. n /\ k + 1 \in 1 .. n /\ k + 1 \in 1 .. n + 1 /\ (k + 1) - 1 = k
      OBVIOUS
    <3>2. g[k] = h[k]
      BY <3>1
    <3> QED
      BY <2>5, <3>1, <3>2
  <2> HIDE DEF A
  <2>8. n \in A
    BY <2>6, <2>7, SetInduction
  <2>9. g[n] = h[n] /\ n + 1 \in 1 .. n + 1 /\ (n + 1) - 1 = n /\ g[n] \in Int
    BY <2>3, <2>8 DEF A
  <2> QED
    BY <2>1, <2>2, <2>5, <2>9
<1> QED
  BY <1>1, <1>2

\* Powers of products, of numbers that are not negative, and of greater numbers.
LEMMA PowerOfProduct ==
  ASSUME NEW x \in Int, NEW y \in Int
  PROVE  \A n \in Nat : Power(x * y, n) = Power(x, n) * Power(y, n)
<1> DEFINE A == {n \in Nat : Power(x * y, n) = Power(x, n) * Power(y, n)}
<1>0. x * y \in Int
  OBVIOUS
<1>1. 0 \in A
  BY <1>0, PowerRules
<1>2. \A n \in Nat : n \in A => n + 1 \in A
  <2> TAKE n \in Nat
  <2> HAVE n \in A
  <2> DEFINE p == Power(x, n)
             q == Power(y, n)
             r == Power(x * y, n)
  <2>1. p \in Int /\ q \in Int /\ r = p * q
    BY PowerRules
  <2>2. Power(x * y, n + 1) = (x * y) * r
    BY <1>0, PowerRules
  <2>3. Power(x, n + 1) = x * p /\ Power(y, n + 1) = y * q
    BY PowerRules
  <2> HIDE DEF p, q, r
  <2>4. (x * y) * (p * q) = (x * p) * (y * q)
    BY <2>1
  <2> QED
    BY <2>1, <2>2, <2>3, <2>4
<1> HIDE DEF A
<1>3. Nat \subseteq A
  BY <1>1, <1>2, SetInduction
<1> QED
  BY <1>3 DEF A

\* Powers of natural numbers are natural numbers, and positive ones of positive.
LEMMA PowerNat ==
  ASSUME NEW x \in Nat
  PROVE  \A n \in Nat : Power(x, n) \in Nat /\ (x > 0 => Power(x, n) > 0)
<1> DEFINE A == {n \in Nat : Power(x, n) \in Nat /\ (x > 0 => Power(x, n) > 0)}
<1>1. 0 \in A
  BY PowerRules
<1>2. \A n \in Nat : n \in A => n + 1 \in A
  <2> TAKE n \in Nat
  <2> HAVE n \in A
  <2> DEFINE p == Power(x, n)
  <2>1. Power(x, n + 1) = x * p
    BY PowerRules
  <2>2. p \in Nat /\ (x > 0 => p > 0)
    OBVIOUS
  <2> HIDE DEF p
  <2>3. x * p \in Nat /\ (x > 0 => x * p > 0)
    BY <2>2
  <2> QED
    BY <2>1, <2>3
<1> HIDE DEF A
<1>3. Nat \subseteq A
  BY <1>1, <1>2, SetInduction
<1> QED
  BY <1>3 DEF A

\* A greater number has greater powers.
LEMMA PowerGrows ==
  ASSUME NEW x \in Nat, NEW y \in Nat, x < y
  PROVE  \A n \in Nat : Power(x, n + 1) < Power(y, n + 1)
<1> DEFINE A == {n \in Nat : Power(x, n + 1) < Power(y, n + 1)}
<1>1. 0 \in A
  <2>1. Power(x, 0 + 1) = x * Power(x, 0) /\ Power(y, 0 + 1) = y * Power(y, 0)
    BY PowerRules
  <2>2. Power(x, 0) = 1 /\ Power(y, 0) = 1
    BY PowerRules
  <2> QED
    BY <2>1, <2>2
<1>2. \A n \in Nat : n \in A => n + 1 \in A
  <2> TAKE n \in Nat
  <2> HAVE n \in A
  <2> DEFINE p == Power(x, n + 1)
             q == Power(y, n + 1)
  <2>1. Power(x, (n + 1) + 1) = x * p /\ Power(y, (n + 1) + 1) = y * q
    BY PowerRules
  <2>2. p \in Nat /\ q \in Nat /\ p < q
    BY PowerNat
  <2> HIDE DEF p, q
  <2>3. x * p <= x * q /\ x * q < y * q
    BY <2>2
  <2>4. x * p < y * q
    BY <2>2, <2>3
  <2> QED
    BY <2>1, <2>4
<1> HIDE DEF A
<1>3. Nat \subseteq A
  BY <1>1, <1>2, SetInduction
<1> QED
  BY <1>3 DEF A

\* Bernoulli's inequality, for y / x: y^(n+1) + n x^(n+1) >= (n + 1) x^n y.
LEMMA Bernoulli ==
  ASSUME NEW x \in Nat, NEW y \in Nat
  PROVE  \A n \in Nat : Power(y, n + 1) + n * Power(x, n + 1) >= ((n + 1) * Power(x, n)) * y
<1> DEFINE A == {n \in Nat : Power(y, n + 1) + n * Power(x, n + 1) >= ((n + 1) * Power(x, n)) * y}
<1>1. 0 \in A
  <2>1. Power(x, 0 + 1) = x * Power(x, 0) /\ Power(y, 0 + 1) = y * Power(y, 0)
    BY PowerRules
  <2>2. Power(x, 0) = 1 /\ Power(y, 0) = 1
    BY PowerRules
  <2> QED
    BY <2>1, <2>2
<1>2. \A n \in Nat : n \in A => n + 1 \in A
  <2> TAKE n \in Nat
  <2> HAVE n \in A
  <2> DEFINE a == Power(x, n)
             b == Power(y, n + 1)
             c == Power(x, n + 1)
  <2>1. Power(y, (n + 1) + 1) = y * b /\ Power(x, (n + 1) + 1) = x * c /\ c = x * a
    BY PowerRules
  <2>2. a \in Nat /\ b \in Nat /\ c \in Nat /\ b + n * c >= ((n + 1) * a) * y
    BY PowerNat
  <2> HIDE DEF a, b, c
  <2>3. y * (b + n * c) >= y * (((n + 1) * a) * y)
    BY <2>2
  <2>4. y * b + (n + 1) * (x * c) >= (((n + 1) + 1) * c) * y
    <3>1. y * b >= (n + 1) * (a * (y * y)) - n * (a * (x * y))
      <4>1. y * (b + n * c) = y * b + n * (a * (x * y))
        BY <2>1, <2>2
      <4>2. y * (((n + 1) * a) * y) = (n + 1) * (a * (y * y))
        BY <2>2
      <4> QED
        BY <2>2, <2>3, <4>1, <4>2
    <3>2. (n + 1) * (x * c) = (n + 1) * (a * (x * x))
      BY <2>1, <2>2
    <3>3. (((n + 1) + 1) * c) * y = (n + 2) * (a * (x * y))
      BY <2>1, <2>2
    <3>4. y * y + x * x >= 2 * (x * y)
      <4>1. (x - y) * (x - y) >= 0
        OBVIOUS
      <4>2. (x - y) * (x - y) = x * x + y * y - 2 * (x * y)
        OBVIOUS
      <4> QED
        BY <4>1, <4>2
    <3>5. a * (y * y) + a * (x * x) >= 2 * (a * (x * y))
      <4>1. a * (y * y + x * x) >= a * (2 * (x * y))
        BY <2>2, <3>4
      <4> QED
        BY <2>2, <4>1
    <3> DEFINE u == a * (y * y)
               v == a * (x * x)
               w == a * (x * y)
    <3>6. u \in Int /\ v \in Int /\ w \in Int
      BY <2>2
    <3> HIDE DEF u, v, w
    <3>7. (n + 1) * (u + v) >= (n + 1) * (2 * w)
      BY <3>5, <3>6 DEF u, v, w
    <3>8. (n + 1) * u - n * w + (n + 1) * v >= (n + 2) * w
      BY <3>6, <3>7
    <3> QED
      BY <2>2, <3>1, <3>2, <3>3, <3>6, <3>8 DEF u, v, w
  <2> QED
    BY <2>1, <2>4 DEF c
<1> HIDE DEF A
<1>3. Nat \subseteq A
  BY <1>1, <1>2, SetInduction
<1> QED
  BY <1>3 DEF A

\* A product grows with a factor, and a common factor cancels.
LEMMA ProductGrows ==
  ASSUME NEW a \in Nat, NEW x \in Int, NEW y \in Int, x >= y
  PROVE  a * x >= a * y
OBVIOUS

\* A positive factor can be left out of an inequality.
LEMMA FactorCancels ==
  ASSUME NEW a \in Nat \ {0}, NEW x \in Int, NEW y \in Int, a * x >= a * y
  PROVE  x >= y
<1>1. ASSUME x < y PROVE FALSE
  <2>1. a * (y - x) > 0
    BY <1>1
  <2>2. a * (y - x) = a * y - a * x
    OBVIOUS
  <2> QED
    BY <2>1, <2>2
<1> QED
  BY <1>1

\* It keeps a strict one.
LEMMA ProductLess ==
  ASSUME NEW a \in Nat \ {0}, NEW x \in Int, NEW y \in Int, x < y
  PROVE  a * x < a * y
OBVIOUS

\* A factor can be left out of a strict inequality.
LEMMA LessFactor ==
  ASSUME NEW a \in Nat, NEW x \in Int, NEW y \in Int, a * x < a * y
  PROVE  x < y
<1>1. ASSUME x >= y PROVE FALSE
  <2>1. a * x >= a * y
    BY <1>1, ProductGrows
  <2>2. a * x \in Int /\ a * y \in Int
    OBVIOUS
  <2> QED
    BY <2>1, <2>2
<1> QED
  BY <1>1

\* The step of the inequality of means: n^n (s + t)^(n+1) >= (n + 1)^(n+1) s^n t.
LEMMA MeanStep ==
  ASSUME NEW n \in Nat, NEW s \in Nat, NEW t \in Nat
  PROVE  Power(n, n) * Power(s + t, n + 1) >= Power(n + 1, n + 1) * (Power(s, n) * t)
<1> DEFINE y == n * (s + t)
           x == (n + 1) * s
           a == Power(n, n)
           b == Power(s + t, n + 1)
           c == Power(n + 1, n)
           d == Power(s, n)
           e == Power(x, n)
<1>1. x \in Nat /\ y \in Nat /\ s + t \in Nat /\ n + 1 \in Nat
  OBVIOUS
<1>2. a \in Nat /\ b \in Nat /\ c \in Nat /\ d \in Nat /\ e \in Nat
  BY <1>1, PowerNat
<1>3. Power(n + 1, n + 1) = (n + 1) * c
  BY <1>1, PowerRules
<1>4. CASE n = 0
  <2>1. Power(n, n) = 1 /\ Power(s, n) = 1 /\ Power(n + 1, n) = 1 /\ Power(s + t, n) = 1
    BY <1>4, <1>1, PowerRules
  <2>2. Power(s + t, n + 1) = (s + t) * Power(s + t, n)
    BY <1>1, PowerRules
  <2>3. (n + 1) * c = 1 /\ Power(s + t, n + 1) = s + t
    BY <1>4, <2>1, <2>2
  <2>4. Power(n, n) * Power(s + t, n + 1) = s + t
    BY <2>1, <2>3
  <2>5. Power(n + 1, n + 1) * (Power(s, n) * t) = t
    BY <1>3, <2>1, <2>3
  <2> QED
    BY <2>4, <2>5
<1>5. CASE n # 0
  <2>1. Power(y, n + 1) + n * Power(x, n + 1) >= ((n + 1) * e) * y
    BY <1>1, Bernoulli
  <2>2. Power(x, n + 1) = x * e
    BY <1>1, PowerRules
  <2>3. Power(y, n + 1) = n * (a * b)
    <3>1. Power(y, n + 1) = Power(n, n + 1) * b
      BY <1>1, PowerOfProduct
    <3>2. Power(n, n + 1) = n * a
      BY PowerRules
    <3> HIDE DEF a, b
    <3> QED
      BY <1>2, <3>1, <3>2
  <2>4. e = c * d
    BY <1>1, PowerOfProduct
  <2> DEFINE l == a * b
             r == ((n + 1) * c) * (d * t)
  <2>5. l \in Int /\ r \in Int
    <3> HIDE DEF a, b, c, d
    <3> QED
      BY <1>2
  <2>6. n * l >= n * r
    <3>1. n * l + n * (x * e) >= ((n + 1) * e) * y
      BY <2>1, <2>2, <2>3
    <3> HIDE DEF a, b, c, d, e
    <3>2. n * (x * e) = (n * (n + 1)) * (e * s)
      BY <1>2
    <3>3. ((n + 1) * e) * y = (n * (n + 1)) * (e * s) + (n * (n + 1)) * (e * t)
      BY <1>2
    <3>4. n * r = (n * (n + 1)) * (e * t)
      BY <1>2, <2>4
    <3> DEFINE u == (n * (n + 1)) * (e * s)
               v == (n * (n + 1)) * (e * t)
    <3>5. u \in Int /\ v \in Int
      BY <1>2
    <3>6. n * l \in Int
      BY <2>5
    <3> HIDE DEF u, v, l, r
    <3>7. n * l + u >= u + v
      BY <3>1, <3>2, <3>3 DEF u, v
    <3> QED
      BY <3>4, <3>5, <3>6, <3>7 DEF v
  <2> HIDE DEF l, r
  <2>7. l >= r
    BY <1>5, <2>5, <2>6, FactorCancels
  <2> QED
    BY <1>3, <2>7 DEF l, r
<1> QED
  BY <1>4, <1>5

\* The terms r[i] are the ratios of successive elements of P times K, and S their sums: the
\* n-th power of their mean is at least their product, which is that of the last ratio to the first.
Ratios(N, P, K, r, S) ==
  /\ N \in Nat /\ K \in Nat \ {0}
  /\ P \in [0 .. N -> Nat \ {0}] /\ r \in [1 .. N -> Nat] /\ S \in [0 .. N -> Nat]
  /\ S[0] = 0
  /\ \A i \in 1 .. N : S[i] = S[i - 1] + r[i] /\ r[i] * P[i - 1] = K * P[i]

\* The inequality of means, for the factors by which the terms of P fall and their sum S.
LEMMA MeanOfRatios ==
  ASSUME NEW N, NEW P, NEW K, NEW r, NEW S, Ratios(N, P, K, r, S)
  PROVE  Power(S[N], N) * P[0] >= Power(N, N) * (Power(K, N) * P[N])
<1> DEFINE A == {n \in Nat : n <= N => Power(S[n], n) * P[0] >= Power(n, n) * (Power(K, n) * P[n])}
<1>0. /\ N \in Nat /\ K \in Nat \ {0} /\ P \in [0 .. N -> Nat \ {0}] /\ r \in [1 .. N -> Nat]
      /\ S \in [0 .. N -> Nat] /\ S[0] = 0
      /\ \A i \in 1 .. N : S[i] = S[i - 1] + r[i] /\ r[i] * P[i - 1] = K * P[i]
  BY DEF Ratios
<1>1. 0 \in A
  <2>1. Power(S[0], 0) = 1 /\ Power(K, 0) = 1
    BY <1>0, PowerRules
  <2>2. Power(0, 0) = 1
    BY PowerRules
  <2>3. P[0] \in Nat
    BY <1>0
  <2> QED
    BY <2>1, <2>2, <2>3
<1>2. \A n \in Nat : n \in A => n + 1 \in A
  <2> TAKE n \in Nat
  <2> HAVE n \in A
  <2> SUFFICES ASSUME n + 1 <= N
               PROVE  Power(S[n + 1], n + 1) * P[0] >= Power(n + 1, n + 1) * (Power(K, n + 1) * P[n + 1])
    OBVIOUS
  <2> DEFINE s == S[n]
             t == r[n + 1]
             a == Power(n, n)
             b == Power(S[n + 1], n + 1)
             c == Power(n + 1, n + 1)
             d == Power(s, n)
             k == Power(K, n)
             p == P[0]
             q == P[n]
             u == P[n + 1]
  <2>1. n \in 0 .. N /\ n + 1 \in 0 .. N /\ n + 1 \in 1 .. N /\ 0 \in 0 .. N /\ (n + 1) - 1 = n
    BY <1>0
  <2>2. /\ s \in Nat /\ t \in Nat /\ S[n + 1] = s + t /\ t * q = K * u
        /\ p \in Nat \ {0} /\ q \in Nat \ {0} /\ u \in Nat \ {0} /\ K \in Nat \ {0}
    BY <1>0, <2>1
  <2>3. a \in Nat \ {0}
    <3>1. CASE n = 0
      <4>1. Power(n, n) = 1
        BY <3>1, PowerRules
      <4> QED
        BY <4>1
    <3>2. CASE n # 0
      <4>1. n > 0
        BY <3>2
      <4>2. Power(n, n) \in Nat /\ Power(n, n) > 0
        BY <4>1, PowerNat
      <4> QED
        BY <4>2
    <3> QED
      BY <3>1, <3>2
  <2>4. b \in Nat /\ c \in Nat /\ d \in Nat /\ k \in Nat
    <3>1. S[n + 1] \in Nat /\ n + 1 \in Nat
      BY <2>2
    <3>2. b \in Nat
      BY <3>1, PowerNat
    <3>3. c \in Nat
      BY <3>1, PowerNat
    <3>4. d \in Nat /\ k \in Nat
      BY <2>2, PowerNat
    <3> QED
      BY <3>2, <3>3, <3>4
  <2>5. d * p >= a * (k * q)
    BY <2>1
  <2>6. a * b >= c * (d * t)
    <3> HIDE DEF s, t
    <3>1. Power(n, n) * Power(s + t, n + 1) >= Power(n + 1, n + 1) * (Power(s, n) * t)
      BY <2>2, MeanStep
    <3> QED
      BY <2>2, <3>1
  <2>7. Power(K, n + 1) = K * k
    BY <2>2, PowerRules
  <2> HIDE DEF s, t, a, b, c, d, k, p, q, u
  <2>8. p * (a * b) >= p * (c * (d * t))
    BY <2>2, <2>3, <2>4, <2>6
  <2>9. (c * t) * (d * p) >= (c * t) * (a * (k * q))
    <3>1. c * t \in Nat /\ d * p \in Int /\ a * (k * q) \in Int
      BY <2>2, <2>3, <2>4
    <3> QED
      BY <2>5, <3>1, ProductGrows
  <2>10. p * (a * b) = a * (b * p) /\ p * (c * (d * t)) = (c * t) * (d * p)
    BY <2>2, <2>3, <2>4
  <2>11. (c * t) * (a * (k * q)) = a * (c * ((K * k) * u))
    <3>1. (c * t) * (a * (k * q)) = (a * (c * k)) * (t * q)
      BY <2>2, <2>3, <2>4
    <3>2. a * (c * ((K * k) * u)) = (a * (c * k)) * (K * u)
      BY <2>2, <2>3, <2>4
    <3> QED
      BY <2>2, <3>1, <3>2
  <2>12. b * p \in Int /\ c * ((K * k) * u) \in Int
    BY <2>2, <2>4
  <2> DEFINE v == b * p
             w == c * ((K * k) * u)
  <2>13. a * v >= a * w
    <3>1. p * (a * b) \in Int /\ (c * t) * (d * p) \in Int /\ (c * t) * (a * (k * q)) \in Int
      BY <2>2, <2>3, <2>4
    <3> DEFINE x1 == p * (a * b)
               x2 == (c * t) * (d * p)
               x3 == (c * t) * (a * (k * q))
    <3>2. x1 >= x2 /\ x2 >= x3 /\ x1 \in Int /\ x2 \in Int /\ x3 \in Int
      BY <2>8, <2>9, <2>10, <3>1
    <3>3. a * v = x1 /\ a * w = x3
      BY <2>10, <2>11
    <3> HIDE DEF x1, x2, x3, v, w
    <3> QED
      BY <3>2, <3>3
  <2> HIDE DEF v, w
  <2>14. v >= w
    BY <2>3, <2>12, <2>13, FactorCancels DEF v, w
  <2> QED
    BY <2>7, <2>14 DEF v, w, b, p, c, u
<1> HIDE DEF A
<1>3. N \in A
  BY <1>0, <1>1, <1>2, SetInduction
<1> QED
  BY <1>0, <1>3 DEF A

\* Tasks of periods P[1] <= ... <= P[N], all below 2 P[0], with P[0] <= P[1]; q[i] is K / P[i].
\* E[i] is more than what they need of the time up to P[i] if each of them is released once more
\* before that if it comes earlier in the list; and Z is the sum of their utilisations times K.
Overloaded(N, P, K, q, C, E, Z) ==
  /\ N \in Nat \ {0} /\ K \in Nat \ {0}
  /\ P \in [0 .. N -> Nat \ {0}] /\ q \in [0 .. N -> Nat \ {0}]
  /\ C \in [1 .. N -> Nat] /\ E \in [1 .. N + 1 -> Nat] /\ Z \in [0 .. N -> Nat]
  /\ \A i \in 0 .. N : P[i] * q[i] = K
  /\ \A i \in 1 .. N : P[i - 1] <= P[i]
  /\ P[N] < 2 * P[0] /\ P[0] <= P[1]
  /\ \A i \in 1 .. N : E[i] > P[i] /\ E[i + 1] = E[i] + C[i]
  /\ E[N + 1] = 2 * E[1]
  /\ Z[0] = 0 /\ \A i \in 1 .. N : Z[i] = Z[i - 1] + C[i] * q[i]

\* A greater factor goes with a lesser one.
LEMMA FactorsOrdered ==
  ASSUME NEW a \in Nat \ {0}, NEW b \in Nat \ {0}, NEW x \in Int, NEW y \in Int, x * a >= y * b, a <= b, x >= 0
  PROVE  x >= y
<1>1. x * a <= x * b
  OBVIOUS
<1>2. b * x >= b * y
  <2>1. x * a \in Int /\ x * b \in Int /\ y * b \in Int
    OBVIOUS
  <2>2. x * b >= y * b
    BY <1>1, <2>1
  <2>3. x * b = b * x /\ y * b = b * y
    OBVIOUS
  <2> QED
    BY <2>2, <2>3
<1> QED
  BY <1>2, FactorCancels

\* A product of integers is an integer.
LEMMA ProductInt ==
  ASSUME NEW a \in Int, NEW b \in Int
  PROVE  a * b \in Int
OBVIOUS

\* One task more.
OneMore(n, K, zn, zi, ci, qi, qj, ei, ej, si, sj, pi, pj, s1, e1) ==
  /\ n \in Nat /\ K \in Nat \ {0} /\ ci \in Nat /\ qi \in Nat \ {0} /\ qj \in Nat \ {0}
  /\ ei \in Nat /\ ej \in Nat /\ pi \in Nat \ {0} /\ pj \in Nat \ {0}
  /\ zn \in Int /\ zi \in Int /\ si \in Int /\ sj \in Int /\ s1 \in Int /\ e1 \in Int
  /\ zi = zn + ci * qi /\ ej = ei + ci /\ sj = si + qi * pj
  /\ ej > pj /\ pi <= pj /\ pi * qi = K /\ pj * qj = K
  /\ zn >= si - s1 - n * K + ei * qi - e1

\* The step of the sum: one task more does not take away what the others lack.
LEMMA OverloadStep ==
  ASSUME NEW n, NEW K, NEW zn, NEW zi, NEW ci, NEW qi, NEW qj, NEW ei, NEW ej, NEW si, NEW sj, NEW pi, NEW pj,
         NEW s1, NEW e1, OneMore(n, K, zn, zi, ci, qi, qj, ei, ej, si, sj, pi, pj, s1, e1)
  PROVE  zi >= sj - s1 - (n + 1) * K + ej * qj - e1
<1> USE DEF OneMore
<1>1. qi >= qj
  <2>1. qi * pi >= qj * pj
    OBVIOUS
  <2> QED
    BY <2>1, FactorsOrdered
<1>2. (qi - qj) * ej >= (qi - qj) * pj
  BY <1>1, ProductGrows
<1>3. (qi - qj) * ej = ej * qi - ej * qj
  OBVIOUS
<1>4. (qi - qj) * pj = qi * pj - pj * qj
  OBVIOUS
<1>5. ci * qi = ej * qi - ei * qi
  <2>1. ci = ej - ei
    OBVIOUS
  <2>2. (ej - ei) * qi = ej * qi - ei * qi
    OBVIOUS
  <2> QED
    BY <2>1, <2>2
<1>6. (n + 1) * K = n * K + K
  OBVIOUS
<1> DEFINE a == ej * qi
           b == ej * qj
           c == ei * qi
           d == qi * pj
           e == n * K
<1>7. a \in Int /\ b \in Int /\ c \in Int /\ d \in Int /\ e \in Int
  OBVIOUS
<1>8. a - b >= d - K /\ zi = zn + a - c /\ sj = si + d /\ zn >= si - s1 - e + c - e1
  <2>1. a - b >= d - K
    BY <1>2, <1>3, <1>4
  <2> QED
    BY <1>5, <2>1
<1> HIDE DEF a, b, c, d, e
<1>9. zi >= sj - s1 - (e + K) + b - e1
  BY <1>7, <1>8
<1> QED
  BY <1>6, <1>9 DEF b, e

\* The tasks but for the last one use at least what their periods leave.
LEMMA OverloadGrows ==
  ASSUME NEW N, NEW P, NEW K, NEW q, NEW C, NEW E, NEW Z, Overloaded(N, P, K, q, C, E, Z),
         NEW r, NEW S, Ratios(N, P, K, r, S), \A i \in 1 .. N : r[i] = q[i - 1] * P[i]
  PROVE  Z[N - 1] >= S[N] - S[1] - (N - 1) * K + E[N] * q[N] - E[1] * q[1]
<1> DEFINE A == {n \in Nat : n + 1 <= N =>
                   Z[n] >= S[n + 1] - S[1] - n * K + E[n + 1] * q[n + 1] - E[1] * q[1]}
<1>0. /\ N \in Nat \ {0} /\ K \in Nat \ {0}
      /\ P \in [0 .. N -> Nat \ {0}] /\ q \in [0 .. N -> Nat \ {0}]
      /\ C \in [1 .. N -> Nat] /\ E \in [1 .. N + 1 -> Nat] /\ Z \in [0 .. N -> Nat]
      /\ S \in [0 .. N -> Nat]
  BY DEF Overloaded, Ratios
<1>1. 0 \in A
  <2>1. Z[0] = 0 /\ S[1] \in Nat /\ E[1] \in Nat /\ q[1] \in Nat
    BY <1>0 DEF Overloaded
  <2>2. E[1] * q[1] \in Int
    BY <2>1, ProductInt
  <2>3. 0 * K = 0
    BY <1>0
  <2> DEFINE e1 == E[1] * q[1]
  <2> HIDE DEF e1
  <2>4. 0 >= S[1] - S[1] - 0 + e1 - e1
    BY <2>1, <2>2 DEF e1
  <2> QED
    BY <2>1, <2>3, <2>4 DEF e1
<1>2. \A n \in Nat : n \in A => n + 1 \in A
  <2> TAKE n \in Nat
  <2> HAVE n \in A
  <2> SUFFICES ASSUME (n + 1) + 1 <= N
               PROVE  Z[n + 1] >= S[(n + 1) + 1] - S[1] - (n + 1) * K
                                   + E[(n + 1) + 1] * q[(n + 1) + 1] - E[1] * q[1]
    OBVIOUS
  <2> DEFINE i == n + 1
             j == (n + 1) + 1
  <2>0. N \in Nat /\ i \in Nat /\ j \in Nat /\ i = n + 1 /\ j = i + 1 /\ j <= N
    BY <1>0
  <2> HIDE DEF i, j
  <2>1. n \in 0 .. N /\ i \in 0 .. N /\ i \in 1 .. N /\ j \in 1 .. N /\ j \in 0 .. N /\ i - 1 = n /\ j - 1 = i
        /\ i \in 1 .. N + 1 /\ j \in 1 .. N + 1 /\ i + 1 = j /\ 1 \in 1 .. N /\ 1 \in 1 .. N + 1 /\ 1 \in 0 .. N
    BY <2>0
  <2>2. Z[n] >= S[i] - S[1] - n * K + E[i] * q[i] - E[1] * q[1]
    <3>1. n + 1 <= N
      BY <2>0
    <3> QED
      BY <3>1 DEF i
  <2>3. Z[i] = Z[n] + C[i] * q[i] /\ E[j] = E[i] + C[i] /\ S[j] = S[i] + r[j] /\ r[j] = q[i] * P[j]
        /\ E[j] > P[j] /\ P[i] <= P[j] /\ P[i] * q[i] = K /\ P[j] * q[j] = K
    BY <2>1 DEF Overloaded, Ratios
  <2>4. /\ Z[n] \in Nat /\ Z[i] \in Nat /\ C[i] \in Nat /\ q[i] \in Nat \ {0} /\ q[j] \in Nat \ {0}
        /\ E[i] \in Nat /\ E[j] \in Nat /\ S[i] \in Nat /\ S[j] \in Nat /\ S[1] \in Nat
        /\ P[i] \in Nat \ {0} /\ P[j] \in Nat \ {0} /\ E[1] \in Nat /\ q[1] \in Nat
    BY <1>0, <2>1
  <2>5. Z[i] >= S[j] - S[1] - (n + 1) * K + E[j] * q[j] - E[1] * q[1]
    <3>1. E[1] * q[1] \in Int
      BY <2>4, ProductInt
    <3> QED
      <4> DEFINE e1 == E[1] * q[1]
      <4> HIDE DEF e1
      <4>1. e1 \in Int /\ Z[n] >= S[i] - S[1] - n * K + E[i] * q[i] - e1
        BY <2>2, <3>1 DEF e1
      <4>2. Z[i] = Z[n] + C[i] * q[i] /\ E[j] = E[i] + C[i] /\ S[j] = S[i] + q[i] * P[j]
        BY <2>3
      <4>3. Z[n] \in Int /\ Z[i] \in Int
        BY <2>4
      <4>4. S[i] \in Int /\ S[j] \in Int /\ S[1] \in Int
        BY <2>4
      <4>5. K \in Nat \ {0}
        BY <1>0
      <4>6. OneMore(n, K, Z[n], Z[i], C[i], q[i], q[j], E[i], E[j], S[i], S[j], P[i], P[j], S[1], e1)
        BY <2>3, <2>4, <4>1, <4>2, <4>3, <4>4, <4>5 DEF OneMore
      <4>7. Z[i] >= S[j] - S[1] - (n + 1) * K + E[j] * q[j] - e1
        BY <4>6, OverloadStep
      <4> QED
        BY <4>7 DEF e1
  <2> QED
    BY <2>5 DEF i, j
<1> HIDE DEF A
<1>3. N - 1 \in Nat /\ (N - 1) + 1 = N
  BY <1>0
<1>4. N - 1 \in A
  BY <1>1, <1>2, <1>3, SetInduction
<1> QED
  BY <1>0, <1>3, <1>4 DEF A

\* What the first and the last of the factors leave.
LEMMA LastFactors ==
  ASSUME NEW K \in Nat \ {0}, NEW e \in Nat, NEW p0 \in Nat \ {0}, NEW p1 \in Nat \ {0}, NEW pN \in Nat \ {0},
         NEW q0 \in Nat \ {0}, NEW q1 \in Nat \ {0}, NEW qN \in Nat \ {0},
         p0 * q0 = K, p1 * q1 = K, pN * qN = K, e > p1, p0 <= p1, pN < 2 * p0
  PROVE  /\ 2 * (e * qN) - e * q1 > 2 * (p1 * qN) - K
         /\ 2 * (p1 * qN) - 2 * (p0 * qN) >= q0 * p1 - K
<1>1. K < p0 * (2 * qN)
  <2>1. qN * pN < qN * (2 * p0)
    BY ProductLess
  <2>2. qN * pN = pN * qN /\ qN * (2 * p0) = p0 * (2 * qN)
    OBVIOUS
  <2> QED
    BY <2>1, <2>2
<1>2. 2 * qN > q0
  <2>1. p0 * q0 < p0 * (2 * qN)
    BY <1>1
  <2> QED
    BY <2>1, LessFactor
<1>3. 2 * qN > q1
  <2>1. (2 * qN) * p0 <= (2 * qN) * p1
    BY ProductGrows
  <2>2. (2 * qN) * p0 = p0 * (2 * qN) /\ (2 * qN) * p1 = p1 * (2 * qN)
    OBVIOUS
  <2>3. p0 * (2 * qN) \in Int /\ p1 * (2 * qN) \in Int /\ p1 * q1 \in Int
    OBVIOUS
  <2>4. p1 * q1 < p1 * (2 * qN)
    BY <1>1, <2>1, <2>2, <2>3
  <2> QED
    BY <2>4, LessFactor
<1>4. 2 * (e * qN) - e * q1 > 2 * (p1 * qN) - K
  <2>1. (2 * qN - q1) * p1 < (2 * qN - q1) * e
    BY <1>3, ProductLess
  <2>2. (2 * qN - q1) * e = 2 * (e * qN) - e * q1
    OBVIOUS
  <2>3. (2 * qN - q1) * p1 = 2 * (p1 * qN) - p1 * q1
    OBVIOUS
  <2> QED
    BY <2>1, <2>2, <2>3
<1>5. 2 * (p1 * qN) - 2 * (p0 * qN) >= q0 * p1 - K
  <2>1. (p1 - p0) * (2 * qN) >= (p1 - p0) * q0
    BY <1>2, ProductGrows
  <2>2. (p1 - p0) * (2 * qN) = 2 * (p1 * qN) - 2 * (p0 * qN)
    OBVIOUS
  <2>3. (p1 - p0) * q0 = q0 * p1 - p0 * q0
    OBVIOUS
  <2> QED
    BY <2>1, <2>2, <2>3
<1> QED
  BY <1>4, <1>5

\* All of them use more than the periods leave.
LEMMA OverloadTotal ==
  ASSUME NEW N, NEW P, NEW K, NEW q, NEW C, NEW E, NEW Z, Overloaded(N, P, K, q, C, E, Z),
         NEW r, NEW S, Ratios(N, P, K, r, S), \A i \in 1 .. N : r[i] = q[i - 1] * P[i]
  PROVE  Z[N] > S[N] - (N + 1) * K + 2 * (P[0] * q[N])
<1>0. /\ N \in Nat \ {0} /\ K \in Nat \ {0}
      /\ P \in [0 .. N -> Nat \ {0}] /\ q \in [0 .. N -> Nat \ {0}]
      /\ C \in [1 .. N -> Nat] /\ E \in [1 .. N + 1 -> Nat] /\ Z \in [0 .. N -> Nat]
      /\ S \in [0 .. N -> Nat]
  BY DEF Overloaded, Ratios
<1>1. N \in 1 .. N /\ N \in 0 .. N /\ N - 1 \in 0 .. N /\ 1 \in 1 .. N /\ 1 \in 0 .. N /\ 0 \in 0 .. N
      /\ N \in 1 .. N + 1 /\ N + 1 \in 1 .. N + 1 /\ 1 \in 1 .. N + 1 /\ 1 - 1 = 0
  BY <1>0
<1> DEFINE e1 == E[1]
           p0 == P[0]
           p1 == P[1]
           pN == P[N]
           q0 == q[0]
           q1 == q[1]
           qN == q[N]
<1>2. e1 \in Nat /\ p0 \in Nat \ {0} /\ p1 \in Nat \ {0} /\ q0 \in Nat \ {0} /\ q1 \in Nat \ {0} /\ qN \in Nat \ {0}
      /\ pN \in Nat \ {0} /\ Z[N] \in Nat /\ Z[N - 1] \in Nat /\ S[N] \in Nat /\ S[1] \in Nat /\ E[N] \in Nat
      /\ C[N] \in Nat
  BY <1>0, <1>1
<1>3. Z[N] = Z[N - 1] + C[N] * qN /\ E[N + 1] = E[N] + C[N] /\ E[N + 1] = 2 * e1 /\ e1 > p1
      /\ p0 <= p1 /\ pN < 2 * p0 /\ p0 * q0 = K /\ p1 * q1 = K /\ pN * qN = K
  BY <1>1 DEF Overloaded
<1>4. S[1] = q0 * p1
  <2>1. S[1] = S[0] + r[1] /\ S[0] = 0 /\ r[1] = q[1 - 1] * P[1]
    BY <1>1 DEF Ratios
  <2> QED
    BY <1>1, <1>2, <2>1
<1>5. Z[N - 1] >= S[N] - S[1] - (N - 1) * K + E[N] * qN - e1 * q1
  BY OverloadGrows
<1>6. C[N] * qN = 2 * (e1 * qN) - E[N] * qN
  <2>1. C[N] = 2 * e1 - E[N]
    BY <1>2, <1>3
  <2>2. (2 * e1 - E[N]) * qN = 2 * (e1 * qN) - E[N] * qN
    BY <1>2
  <2> QED
    BY <2>1, <2>2
<1> DEFINE x1 == E[N] * qN
           x2 == e1 * qN
           x3 == e1 * q1
           x4 == p1 * qN
           x5 == p0 * qN
<1>7. x1 \in Int /\ x2 \in Int /\ x3 \in Int /\ x4 \in Int /\ x5 \in Int
  BY <1>2
<1> HIDE DEF e1, p0, p1, pN, q0, q1, qN
<1>9. 2 * x2 - x3 > 2 * x4 - K
  BY <1>2, <1>3, LastFactors DEF x2, x3, x4
<1>10. 2 * x4 - 2 * x5 >= q0 * p1 - K
  BY <1>2, <1>3, LastFactors DEF x4, x5
<1>11. (N - 1) * K = N * K - K /\ (N + 1) * K = N * K + K /\ N * K \in Int /\ q0 * p1 \in Int
  BY <1>0, <1>2
<1> DEFINE nk == N * K
           s1 == q0 * p1
<1>12. Z[N] = Z[N - 1] + 2 * x2 - x1 /\ Z[N - 1] >= S[N] - s1 - (nk - K) + x1 - x3
  BY <1>2, <1>3, <1>4, <1>5, <1>6, <1>7, <1>11
<1> HIDE DEF x1, x2, x3, x4, x5, nk, s1
<1>13. Z[N] > S[N] - (nk + K) + 2 * x5
  <2>1. nk \in Int /\ s1 \in Int /\ K \in Int
    BY <1>0, <1>11 DEF nk, s1
  <2>2. 2 * x4 - 2 * x5 >= s1 - K
    BY <1>10 DEF s1
  <2> QED
    BY <1>2, <1>7, <1>9, <1>12, <2>1, <2>2
<1> QED
  BY <1>11, <1>13 DEF nk, x5, p0, qN

\* What is more than h times S in units of K exceeds the bound.
LEMMA BoundExceeded ==
  ASSUME NEW n \in Nat, NEW K \in Nat \ {0}, NEW h \in Nat \ {0}, NEW need \in Int, NEW s \in Nat,
         NEW p \in Nat \ {0}, NEW q \in Nat \ {0}, K * need > h * s,
         Power(s, n + 1) * q >= Power(n + 1, n + 1) * (Power(K, n + 1) * p)
  PROVE  need > 0 /\ Power(need, n + 1) * q > Power((n + 1) * h, n + 1) * p
<1> DEFINE m == n + 1
<1>0. m \in Nat /\ h * s \in Nat /\ n + 1 \in Nat
  OBVIOUS
<1>1. need > 0
  <2>1. ASSUME need <= 0 PROVE FALSE
    <3>1. K * 0 >= K * need
      BY <2>1, ProductGrows
    <3>2. K * need \in Int /\ K * 0 = 0
      OBVIOUS
    <3> QED
      BY <1>0, <3>1, <3>2
  <2> QED
    BY <2>1
<1>2. need \in Nat /\ K * need \in Nat /\ m * h \in Nat /\ h \in Nat /\ K \in Nat
  <2>1. K * need \in Int
    OBVIOUS
  <2> QED
    BY <1>0, <1>1, <2>1
<1>3. Power(h * s, m) < Power(K * need, m)
  BY <1>0, <1>2, PowerGrows
<1> DEFINE hm == Power(h, m)
           sm == Power(s, m)
           km == Power(K, m)
           nm == Power(need, m)
           mm == Power(m, m)
<1> HIDE DEF m
<1>4. hm \in Nat /\ sm \in Nat /\ km \in Nat \ {0} /\ nm \in Nat /\ mm \in Nat
  <2>1. hm \in Nat /\ sm \in Nat
    BY <1>0, <1>2, PowerNat
  <2>2. km \in Nat \ {0}
    <3>1. K \in Nat /\ K > 0
      OBVIOUS
    <3>2. km \in Nat /\ km > 0
      BY <1>0, <3>1, PowerNat
    <3> HIDE DEF km
    <3> QED
      BY <3>2
  <2>3. nm \in Nat /\ mm \in Nat
    BY <1>0, <1>2, PowerNat
  <2> QED
    BY <2>1, <2>2, <2>3
<1>5. Power(h * s, m) = hm * sm /\ Power(K * need, m) = km * nm /\ Power(m * h, m) = mm * hm
  <2>1. \A x, y \in Int : Power(x * y, m) = Power(x, m) * Power(y, m)
    BY <1>0, PowerOfProduct
  <2>2. h \in Int /\ s \in Int /\ K \in Int /\ need \in Int /\ m \in Int
    BY <1>0
  <2> QED
    BY <2>1, <2>2
<1>6. sm * q >= mm * (km * p)
  BY DEF m
<1> HIDE DEF hm, sm, km, nm, mm
<1>7. km * (mm * hm * p) < km * (nm * q)
  <2>1. hm * (sm * q) >= hm * (mm * (km * p))
    <3>1. sm * q \in Int /\ mm * (km * p) \in Int
      BY <1>4
    <3> QED
      BY <1>4, <1>6, <3>1, ProductGrows
  <2>2. q * (hm * sm) < q * (km * nm)
    <3>1. hm * sm \in Int /\ km * nm \in Int
      BY <1>4
    <3> QED
      BY <1>3, <1>4, <1>5, <3>1, ProductLess
  <2>3. q * (hm * sm) = hm * (sm * q) /\ q * (km * nm) = km * (nm * q)
    BY <1>4
  <2>4. hm * (mm * (km * p)) = km * (mm * hm * p)
    BY <1>4
  <2>5. hm * (sm * q) \in Int /\ km * (mm * hm * p) \in Int /\ km * (nm * q) \in Int
    BY <1>4
  <2> QED
    BY <2>1, <2>2, <2>3, <2>4, <2>5
<1>8. mm * hm * p < nm * q
  <2>1. mm * hm * p \in Int /\ nm * q \in Int
    BY <1>4
  <2> QED
    BY <1>4, <1>7, <2>1, LessFactor
<1> QED
  BY <1>1, <1>5, <1>8 DEF nm, m

\* The quotients by the greatest common divisor.
LEMMA Reduced ==
  ASSUME NEW a \in Nat \ {0}, NEW b \in Nat \ {0}
  PROVE  LET d == Max({x \in 1 .. b : a % x = 0 /\ b % x = 0})
         IN  /\ d \in Nat \ {0} /\ a \div d \in Nat \ {0} /\ b \div d \in Nat \ {0}
             /\ a = d * (a \div d) /\ b = d * (b \div d)
<1> DEFINE T == {x \in 1 .. b : a % x = 0 /\ b % x = 0}
           d == Max(T)
<1>1. T \subseteq Int /\ 1 \in T /\ b \in Int /\ \A x \in T : x <= b
  OBVIOUS
<1>2. d \in T
  <2> HIDE DEF T
  <2> QED
    BY <1>1, IntGreatest
<1> HIDE DEF d
<1>3. d \in Nat \ {0} /\ a % d = 0 /\ b % d = 0
  BY <1>2
<1>4. \A x \in Nat \ {0} : x % d = 0 => x = d * (x \div d) /\ x \div d \in Nat \ {0}
  <2> TAKE x \in Nat \ {0}
  <2> HAVE x % d = 0
  <2>1. x \div d \in Nat /\ x = d * (x \div d) + (x % d)
    BY <1>3
  <2>2. x = d * (x \div d)
    <3> DEFINE y == d * (x \div d)
    <3>1. y \in Nat
      BY <1>3, <2>1
    <3> HIDE DEF y
    <3>2. x = y
      BY <2>1, <3>1 DEF y
    <3> QED
      BY <3>2 DEF y
  <2>3. x \div d # 0
    BY <1>3, <2>2
  <2> QED
    BY <2>1, <2>2, <2>3
<1>5. d = Max({x \in 1 .. b : a % x = 0 /\ b % x = 0})
  BY DEF d, T
<1> QED
  BY <1>3, <1>4, <1>5

\* The sum U of the utilisations of N tasks, in parts of H, is over what harmonic periods allow, for
\* a shortest period b and a longest period a.
OverBound(N, a, b, H, U) ==
  LET d == Max({x \in 1 .. b : a % x = 0 /\ b % x = 0})
      e == a \div d
      f == b \div d
      need == U * e + H * (1 + N) * e - 2 * H * f
  IN  ~ (need <= 0 \/ Power(need, N) * f <= Power(N * H * e, N) * e)

LEMMA OverloadedIsOver ==
  ASSUME NEW N, NEW P, NEW K, NEW q, NEW C, NEW E, NEW Z, Overloaded(N, P, K, q, C, E, Z),
         NEW r, NEW S, Ratios(N, P, K, r, S), \A i \in 1 .. N : r[i] = q[i - 1] * P[i],
         NEW U \in Nat, NEW H \in Nat \ {0}, H * Z[N] = U * K
  PROVE  OverBound(N, P[N], P[0], H, U)
<1> DEFINE a == P[N]
           b == P[0]
           qN == q[N]
           z == Z[N]
           s == S[N]
           d == Max({x \in 1 .. b : a % x = 0 /\ b % x = 0})
           e == a \div d
           f == b \div d
           need == U * e + H * (1 + N) * e - 2 * H * f
           y == z + (N + 1) * K - 2 * (b * qN)
           h == H * e
<1>1. /\ N \in Nat \ {0} /\ K \in Nat \ {0} /\ a \in Nat \ {0} /\ b \in Nat \ {0} /\ qN \in Nat \ {0}
      /\ z \in Nat /\ s \in Nat /\ a * qN = K
  BY DEF Overloaded, Ratios
<1>2. z > s - (N + 1) * K + 2 * (b * qN)
  BY OverloadTotal
<1>3. Power(s, N) * b >= Power(N, N) * (Power(K, N) * a)
  BY MeanOfRatios
<1>4. /\ d \in Nat \ {0} /\ e \in Nat \ {0} /\ f \in Nat \ {0} /\ a = d * e /\ b = d * f
  <2> HIDE DEF a, b
  <2> QED
    BY <1>1, Reduced
<1>6. H * z = U * K
  OBVIOUS
<1> HIDE DEF a, b, qN, z, s, d, e, f
<1>7. y \in Int /\ y > s
  <2>1. (N + 1) * K \in Int /\ b * qN \in Int
    BY <1>1
  <2> QED
    BY <1>1, <1>2, <2>1
<1>8. h \in Nat \ {0} /\ need \in Int
  BY <1>1, <1>4
<1>9. K * need = h * y
  <2>1. K * need = e * (U * K) + H * (1 + N) * e * K - 2 * H * (f * K)
    BY <1>1, <1>4
  <2>2. f * K = e * (b * qN)
    <3>1. f * (d * e * qN) = e * (d * f * qN)
      BY <1>1, <1>4
    <3> QED
      BY <1>1, <1>4, <3>1
  <2>3. h * y = e * (H * z) + H * (1 + N) * e * K - 2 * H * (e * (b * qN))
    BY <1>1, <1>4
  <2> QED
    BY <1>6, <2>1, <2>2, <2>3
<1> HIDE DEF need, y
<1>10. K * need > h * s
  <2>1. h * s < h * y
    BY <1>1, <1>7, <1>8, ProductLess
  <2> QED
    BY <1>9, <2>1
<1>11. Power(s, N) * f >= Power(N, N) * (Power(K, N) * e)
  <2> DEFINE x == Power(s, N)
             w == Power(N, N)
             v == Power(K, N)
  <2>1. x \in Nat /\ w \in Nat /\ v \in Nat
    BY <1>1, PowerNat
  <2>2. x * (d * f) >= w * (v * (d * e))
    BY <1>3, <1>4
  <2> HIDE DEF x, w, v
  <2>3. x * (d * f) = d * (x * f) /\ w * (v * (d * e)) = d * (w * (v * e))
    BY <1>4, <2>1
  <2>4. x * f \in Int /\ w * (v * e) \in Int
    BY <1>4, <2>1
  <2>5. x * f >= w * (v * e)
    BY <1>4, <2>2, <2>3, <2>4, FactorCancels
  <2> QED
    BY <2>5 DEF x, w, v
<1>12. need > 0 /\ Power(need, N) * f > Power(N * h, N) * e
  <2> DEFINE n == N - 1
  <2>1. n \in Nat /\ n + 1 = N
    BY <1>1
  <2>2. Power(s, n + 1) * f >= Power(n + 1, n + 1) * (Power(K, n + 1) * e)
    BY <1>11, <2>1
  <2> HIDE DEF n, h
  <2>3. need > 0 /\ Power(need, n + 1) * f > Power((n + 1) * h, n + 1) * e
    <3>1. /\ h \in Nat \ {0} /\ K \in Nat \ {0} /\ need \in Int /\ s \in Nat
          /\ e \in Nat \ {0} /\ f \in Nat \ {0} /\ n \in Nat
      BY <1>1, <1>4, <1>8, <2>1
    <3> QED
      BY ONLY <1>10, <2>2, <3>1, BoundExceeded
  <2> QED
    BY <2>1, <2>3
<1>13. N * h = N * H * e
  BY <1>1, <1>4
<1>14. ~ (need <= 0 \/ Power(need, N) * f <= Power(N * H * e, N) * e)
  <2>1. \A n \in Nat, x \in Int : Power(x, n) \in Int
    BY PowerRules
  <2>2. N * h \in Int
    BY <1>1, <1>8
  <2>3. Power(need, N) \in Int /\ Power(N * h, N) \in Int
    BY <1>1, <1>8, <2>1, <2>2
  <2> DEFINE x == Power(need, N) * f
             w == Power(N * h, N) * e
  <2>4. x \in Int /\ w \in Int /\ x > w
    BY <1>4, <1>12, <2>3
  <2> HIDE DEF x, w
  <2>5. ~ (x <= w) /\ ~ (need <= 0)
    BY <1>8, <1>12, <2>4
  <2> QED
    BY <1>13, <2>5 DEF x, w
<1> QED
  BY <1>14 DEF OverBound, a, b, d, e, f, need

\* Tasks of periods P[1] <= ... <= P[N], all below 2 P[0], with P[0] <= P[1], with work C and its
\* sums W, and with utilisations u and their sums L, in parts of H.  All of the work, and once more
\* the work of those of shorter periods, takes longer than each of the periods.
Overrun(N, H, P, C, W, u, L) ==
  /\ N \in Nat \ {0} /\ H \in Nat \ {0} /\ P \in [0 .. N -> Nat \ {0}]
  /\ C \in [1 .. N -> Nat] /\ Sums(N, C, W) /\ u \in [1 .. N -> Nat] /\ Sums(N, u, L)
  /\ \A i \in 1 .. N : P[i - 1] <= P[i] /\ u[i] * P[i] = C[i] * H /\ W[N] + W[i - 1] > P[i]
  /\ P[N] < 2 * P[0]

\* Such tasks are over the bound.
LEMMA OverrunIsOver ==
  ASSUME NEW N, NEW H, NEW P, NEW C, NEW W, NEW u, NEW L, Overrun(N, H, P, C, W, u, L)
  PROVE  OverBound(N, P[N], P[0], H, L[N])
<1> DEFINE E == [i \in 1 .. N + 1 |-> W[N] + W[i - 1]]
<1>1. /\ N \in Nat \ {0} /\ H \in Nat \ {0} /\ P \in [0 .. N -> Nat \ {0}] /\ P[N] < 2 * P[0]
      /\ C \in [1 .. N -> Nat] /\ u \in [1 .. N -> Nat] /\ Sums(N, u, L)
      /\ \A i \in 1 .. N : P[i - 1] <= P[i] /\ u[i] * P[i] = C[i] * H /\ W[N] + W[i - 1] > P[i]
      /\ W \in [0 .. N -> Nat] /\ W[0] = 0 /\ \A i \in 1 .. N : W[i] = W[i - 1] + C[i]
  BY DEF Overrun, Sums
<1>2. W[N] \in Nat /\ L[N] \in Nat /\ N \in 1 .. N /\ 1 \in 1 .. N
  <2>1. N \in 0 .. N
    BY <1>1
  <2> QED
    BY <1>1, <2>1 DEF Sums
<1>3. /\ E \in [1 .. N + 1 -> Nat] /\ E[N + 1] = 2 * E[1]
       /\ \A i \in 1 .. N : E[i + 1] = E[i] + C[i] /\ E[i] = W[N] + W[i - 1]
  <2>1. \A i \in 1 .. N + 1 : i - 1 \in 0 .. N /\ E[i] = W[N] + W[i - 1]
    BY <1>1
  <2>2. \A i \in 1 .. N + 1 : E[i] \in Nat
    <3> TAKE i \in 1 .. N + 1
    <3>1. W[i - 1] \in Nat /\ E[i] = W[N] + W[i - 1]
      BY <1>1, <2>1
    <3> QED
      BY <1>2, <3>1
  <2>3. E \in [1 .. N + 1 -> Nat]
    BY <2>2
  <2> HIDE DEF E
  <2>4. \A i \in 1 .. N : i \in 1 .. N + 1 /\ i + 1 \in 1 .. N + 1 /\ (i + 1) - 1 = i /\ i \in 0 .. N /\ i - 1 \in 0 .. N
    BY <1>1
  <2>5. \A i \in 1 .. N : E[i + 1] = E[i] + C[i]
    <3> TAKE i \in 1 .. N
    <3>1. E[i + 1] = W[N] + W[i] /\ E[i] = W[N] + W[i - 1] /\ W[i] = W[i - 1] + C[i]
      BY <1>1, <2>1, <2>4
    <3>2. C[i] \in Nat /\ W[i - 1] \in Nat
      BY <1>1, <2>4
    <3> QED
      BY <1>2, <3>1, <3>2
  <2>6. E[N + 1] = 2 * E[1]
    <3>1. 1 \in 1 .. N + 1 /\ N + 1 \in 1 .. N + 1 /\ (N + 1) - 1 = N /\ 1 - 1 = 0
      BY <1>1
    <3>2. E[1] = W[N] + W[0] /\ E[N + 1] = W[N] + W[N]
      BY <2>1, <3>1
    <3> QED
      BY <1>1, <1>2, <3>2
  <2> QED
    BY <2>1, <2>3, <2>4, <2>5, <2>6
<1> HIDE DEF E
<1>4. \A i \in 1 .. N : E[i] > P[i]
  BY <1>1, <1>3
<1>5. PICK K \in Nat \ {0} : \E q \in [0 .. N -> Nat \ {0}] : \A i \in 0 .. N : P[i] * q[i] = K
  BY <1>1, CommonMultiple
<1>6. PICK q \in [0 .. N -> Nat \ {0}] : \A i \in 0 .. N : P[i] * q[i] = K
  BY <1>5
<1> DEFINE f == [i \in 1 .. N |-> C[i] * q[i]]
           r == [i \in 1 .. N |-> q[i - 1] * P[i]]
<1>7. \A i \in 1 .. N : /\ i \in 0 .. N /\ i - 1 \in 0 .. N /\ q[i] \in Nat \ {0} /\ q[i - 1] \in Nat \ {0}
                         /\ P[i] \in Nat \ {0} /\ P[i - 1] \in Nat \ {0} /\ C[i] \in Nat /\ u[i] \in Nat
  <2> TAKE i \in 1 .. N
  <2>1. i \in 0 .. N /\ i - 1 \in 0 .. N
    BY <1>1
  <2> QED
    BY <1>1, <1>6, <2>1
<1>8. f \in [1 .. N -> Nat] /\ r \in [1 .. N -> Nat]
  <2>1. \A x, y \in Nat : x * y \in Nat
    OBVIOUS
  <2>2. \A i \in 1 .. N : f[i] \in Nat /\ r[i] \in Nat
    BY <1>7, <2>1
  <2> QED
    BY <2>2
<1>9. \A i \in 1 .. N : f[i] = C[i] * q[i] /\ r[i] = q[i - 1] * P[i]
  OBVIOUS
<1> HIDE DEF f, r
<1>10. (\E Z : Sums(N, f, Z)) /\ (\E S : Sums(N, r, S))
  BY <1>1, <1>8, SumsExist
<1>11. PICK Z : Sums(N, f, Z)
  BY <1>10
<1>12. PICK S : Sums(N, r, S)
  BY <1>10
<1>13. Overloaded(N, P, K, q, C, E, Z)
  <2>1. P[N] < 2 * P[0] /\ P[0] <= P[1]
    BY <1>1, <1>2
  <2>2. Z \in [0 .. N -> Nat] /\ Z[0] = 0 /\ \A i \in 1 .. N : Z[i] = Z[i - 1] + C[i] * q[i]
    BY <1>9, <1>11 DEF Sums
  <2> QED
    BY <1>1, <1>3, <1>6, <1>4, <2>1, <2>2 DEF Overloaded
<1>14. Ratios(N, P, K, r, S)
  <2>1. \A i \in 1 .. N : r[i] * P[i - 1] = K * P[i]
    <3> TAKE i \in 1 .. N
    <3> DEFINE x == q[i - 1]
               y == P[i - 1]
               z == P[i]
    <3>1. r[i] = x * z /\ y * x = K /\ x \in Nat /\ y \in Nat /\ z \in Nat
      BY <1>6, <1>7, <1>9
    <3> HIDE DEF x, y, z
    <3>2. (x * z) * y = (y * x) * z
      BY <3>1
    <3> QED
      BY <3>1, <3>2 DEF y, z
  <2> QED
    BY <1>1, <1>8, <1>12, <2>1 DEF Ratios, Sums
<1>15. H * Z[N] = L[N] * K
  <2>1. \A i \in 1 .. N : H * f[i] = K * u[i]
    <3> TAKE i \in 1 .. N
    <3> DEFINE x == q[i]
               y == P[i]
               z == C[i]
               v == u[i]
    <3>1. /\ f[i] = z * x /\ y * x = K /\ v * y = z * H
          /\ x \in Nat /\ y \in Nat /\ z \in Nat /\ v \in Nat /\ H \in Nat
      BY <1>1, <1>6, <1>7, <1>9
    <3> HIDE DEF x, y, z, v
    <3>2. H * (z * x) = (z * H) * x /\ (v * y) * x = (y * x) * v
      BY <3>1
    <3> QED
      BY <3>1, <3>2 DEF v
  <2>2. Proportional(N, f, Z, H, u, L, K)
    BY <1>1, <1>8, <1>11, <2>1 DEF Proportional
  <2>3. H * Z[N] = K * L[N]
    BY <2>2, SumsScaled
  <2>4. K * L[N] = L[N] * K
    BY <1>2
  <2> QED
    BY <2>3, <2>4
<1> QED
  <2>1. \A i \in 1 .. N : r[i] = q[i - 1] * P[i]
    BY <1>9
  <2>2. L[N] \in Nat /\ H \in Nat \ {0} /\ H * Z[N] = L[N] * K
    BY <1>1, <1>2, <1>15
  <2> QED
    BY ONLY <1>13, <1>14, <2>1, <2>2, OverloadedIsOver

-------------------------------------------------------------------------------
(* Sums of sums. *)

\* The sum of two functions.
LEMMA SumPlus ==
  ASSUME NEW D, IsFiniteSet(D), NEW f, NEW g, NEW h,
         \A x \in D : f[x] \in Int /\ g[x] \in Int /\ h[x] = f[x] + g[x]
  PROVE  SumFunctionOnSet(h, D) = SumFunctionOnSet(f, D) + SumFunctionOnSet(g, D)
<1> DEFINE P == {s \in SUBSET D : SumFunctionOnSet(h, s) = SumFunctionOnSet(f, s) + SumFunctionOnSet(g, s)}
<1>1. {} \in P
  BY SumEmpty
<1>2. ASSUME NEW s \in SUBSET D, s # {}, \A x \in s : s \ {x} \in P PROVE s \in P
  <2>1. PICK a \in s : TRUE
    BY <1>2
  <2>2. IsFiniteSet(s) /\ IsFiniteSet(s \ {a})
    BY FS_Subset
  <2>3. \A x \in s : f[x] \in Int /\ g[x] \in Int /\ h[x] \in Int /\ h[x] = f[x] + g[x]
    OBVIOUS
  <2>4. /\ SumFunctionOnSet(f, s) = f[a] + SumFunctionOnSet(f, s \ {a})
        /\ SumFunctionOnSet(g, s) = g[a] + SumFunctionOnSet(g, s \ {a})
        /\ SumFunctionOnSet(h, s) = h[a] + SumFunctionOnSet(h, s \ {a})
    BY <2>2, <2>3, SumRemove
  <2>5. SumFunctionOnSet(f, s \ {a}) \in Int /\ SumFunctionOnSet(g, s \ {a}) \in Int
    BY <2>2, <2>3, SumInt
  <2>6. SumFunctionOnSet(h, s \ {a}) = SumFunctionOnSet(f, s \ {a}) + SumFunctionOnSet(g, s \ {a})
    BY <1>2
  <2>7. f[a] \in Int /\ g[a] \in Int /\ h[a] = f[a] + g[a]
    BY <2>3
  <2>8. SumFunctionOnSet(h, s) = SumFunctionOnSet(f, s) + SumFunctionOnSet(g, s)
    BY <2>4, <2>5, <2>6, <2>7
  <2> QED
    BY <2>8
<1>3. \A s \in SUBSET D : s \in P
  <2> HIDE DEF P
  <2> QED
    BY <1>1, <1>2, SubsetInduction
<1> QED
  BY <1>3

\* What is zero outside of a subset is summed over it.
LEMMA SumRestrict ==
  ASSUME NEW D, IsFiniteSet(D), NEW E \in SUBSET D, NEW f, NEW g,
         \A x \in E : f[x] \in Int /\ g[x] = f[x], \A x \in D \ E : g[x] = 0
  PROVE  SumFunctionOnSet(g, D) = SumFunctionOnSet(f, E)
<1> DEFINE R == D \ E
<1>1. IsFiniteSet(E) /\ IsFiniteSet(R) /\ E \cap R = {} /\ D = E \cup R
  BY FS_Subset
<1>2. \A x \in R : g[x] = 0
  OBVIOUS
<1>3. \A x \in E : f[x] \in Int /\ g[x] = f[x]
  OBVIOUS
<1> HIDE DEF R
<1>4. \A x \in E \cup R : g[x] \in Int
  BY <1>2, <1>3
<1>5. SumFunctionOnSet(g, E \cup R) = SumFunctionOnSet(g, E) + SumFunctionOnSet(g, R)
  BY <1>1, <1>4, SumUnion
<1>6. SumFunctionOnSet(g, R) = 0
  BY <1>1, <1>2, SumZero
<1>7. SumFunctionOnSet(f, E) = SumFunctionOnSet(g, E)
  BY <1>1, <1>3, SumSame
<1>8. SumFunctionOnSet(g, E) \in Int
  BY <1>1, <1>3, SumInt
<1>9. SumFunctionOnSet(g, D) = SumFunctionOnSet(g, E \cup R)
  BY <1>1
<1> QED
  BY <1>5, <1>6, <1>7, <1>8, <1>9

\* A sum over other names of the same elements.
LEMMA SumImage ==
  ASSUME NEW D, IsFiniteSet(D), NEW f, NEW g, NEW h, \A x, y \in D : g[x] = g[y] => x = y,
         \A x \in D : f[g[x]] \in Int /\ h[x] = f[g[x]]
  PROVE  SumFunctionOnSet(f, {g[x] : x \in D}) = SumFunctionOnSet(h, D)
<1> DEFINE P == {s \in SUBSET D : SumFunctionOnSet(f, {g[x] : x \in s}) = SumFunctionOnSet(h, s)}
<1>1. {} \in P
  <2>1. {g[x] : x \in {}} = {}
    OBVIOUS
  <2> QED
    BY <2>1, SumEmpty
<1>2. ASSUME NEW s \in SUBSET D, s # {}, \A x \in s : s \ {x} \in P PROVE s \in P
  <2>1. PICK a \in s : TRUE
    BY <1>2
  <2> DEFINE r == s \ {a}
             I == {g[x] : x \in r}
  <2>2. IsFiniteSet(s) /\ IsFiniteSet(r) /\ r \in SUBSET D /\ a \notin r /\ s = r \cup {a}
    BY <2>1, FS_Subset
  <2>3. IsFiniteSet(I)
    <3>1. \A S : IsFiniteSet(S) => IsFiniteSet({g[x] : x \in S})
      BY ImageIsFinite
    <3> QED
      BY <2>2, <3>1
  <2>4. {g[x] : x \in s} = I \cup {g[a]} /\ g[a] \notin I
    BY <2>1
  <2>5. \A y \in I \cup {g[a]} : f[y] \in Int
    BY <2>1
  <2>6. \A x \in r \cup {a} : h[x] \in Int
    BY <2>1
  <2>7. h[a] = f[g[a]] /\ SumFunctionOnSet(f, I) = SumFunctionOnSet(h, r)
    BY <1>2, <2>1
  <2> HIDE DEF r, I
  <2>13. g[a] \notin I /\ IsFiniteSet(r) /\ a \notin r
    BY <2>2, <2>4
  <2>8. SumFunctionOnSet(f, I \cup {g[a]}) = SumFunctionOnSet(f, I) + f[g[a]]
    <3> DEFINE b == g[a]
    <3>1. b \notin I /\ \A y \in I \cup {b} : f[y] \in Int
      BY <2>5, <2>13
    <3> HIDE DEF b
    <3>2. SumFunctionOnSet(f, I \cup {b}) = SumFunctionOnSet(f, I) + f[b]
      BY ONLY <2>3, <3>1, SumAdd
    <3> QED
      BY <3>2 DEF b
  <2>9. SumFunctionOnSet(h, r \cup {a}) = SumFunctionOnSet(h, r) + h[a]
    BY ONLY <2>6, <2>13, SumAdd
  <2>10. SumFunctionOnSet(f, {g[x] : x \in s}) = SumFunctionOnSet(f, I \cup {g[a]})
    BY <2>4
  <2>11. SumFunctionOnSet(h, s) = SumFunctionOnSet(h, r \cup {a})
    BY <2>2
  <2>12. SumFunctionOnSet(f, {g[x] : x \in s}) = SumFunctionOnSet(h, s)
    BY <2>7, <2>8, <2>9, <2>10, <2>11
  <2> QED
    BY <2>12
<1>3. \A s \in SUBSET D : s \in P
  <2> HIDE DEF P
  <2> QED
    BY <1>1, <1>2, SubsetInduction
<1> QED
  BY <1>3

-------------------------------------------------------------------------------
(* Quotients rounded up. *)

\* Products, for the solver.
LEMMA TimesGrows ==
  ASSUME NEW a \in Nat, NEW x \in Int, NEW y \in Int, x <= y
  PROVE  a * x <= a * y /\ a * x \in Int /\ a * y \in Int
<1>1. a * (y - x) >= 0
  OBVIOUS
<1>2. a * (y - x) = a * y - a * x
  OBVIOUS
<1> QED
  BY <1>1, <1>2

LEMMA TimesCancels ==
  ASSUME NEW a \in Nat \ {0}, NEW x \in Int, NEW y \in Int, a * x <= a * y
  PROVE  x <= y
<1>1. ASSUME y < x PROVE FALSE
  <2>1. a * (y + 1) <= a * x
    BY <1>1, TimesGrows
  <2>2. a * (y + 1) = a * y + a
    OBVIOUS
  <2>3. a * x \in Int /\ a * y \in Int
    OBVIOUS
  <2> QED
    BY <2>1, <2>2, <2>3
<1> QED
  BY <1>1

LEMMA CeilRange ==
  ASSUME NEW a \in Nat, NEW b \in Nat \ {0}
  PROVE  /\ CeilDiv(a, b) \in Nat /\ b * CeilDiv(a, b) \in Nat
         /\ b * CeilDiv(a, b) >= a /\ b * CeilDiv(a, b) < a + b
<1> DEFINE m == a + b - 1
           c == m \div b
           r == m % b
<1>1. m \in Nat
  OBVIOUS
<1>2. c \in Nat /\ r \in 0 .. b - 1 /\ m = b * c + r /\ b * c \in Nat
  BY <1>1
<1>3. CeilDiv(a, b) = c
  BY DEF CeilDiv
<1> HIDE DEF c, r
<1> QED
  BY <1>2, <1>3

\* It is the least number whose multiple is no less.
LEMMA CeilIs ==
  ASSUME NEW a \in Nat, NEW b \in Nat \ {0}, NEW x \in Nat, b * x >= a, b * x < a + b
  PROVE  CeilDiv(a, b) = x
<1> DEFINE c == CeilDiv(a, b)
<1>1. c \in Nat /\ b * c \in Nat /\ b * c >= a /\ b * c < a + b
  BY CeilRange
<1> HIDE DEF c
<1>2. b * x \in Nat
  OBVIOUS
<1>3. ASSUME c < x PROVE FALSE
  <2>1. b * (c + 1) <= b * x
    BY <1>1, <1>3, TimesGrows
  <2>2. b * (c + 1) = b * c + b
    BY <1>1
  <2> QED
    BY <1>1, <1>2, <2>1, <2>2
<1>4. ASSUME x < c PROVE FALSE
  <2>1. b * (x + 1) <= b * c
    BY <1>1, <1>4, TimesGrows
  <2>2. b * (x + 1) = b * x + b
    OBVIOUS
  <2> QED
    BY <1>1, <1>2, <2>1, <2>2
<1> QED
  BY <1>1, <1>3, <1>4 DEF c

LEMMA CeilMultiple ==
  ASSUME NEW a \in Nat, NEW b \in Nat \ {0}, a % b = 0
  PROVE  CeilDiv(a, b) = a \div b /\ b * (a \div b) = a /\ a \div b \in Nat
<1> DEFINE x == a \div b
<1>1. x \in Nat /\ a = b * x
  OBVIOUS
<1> HIDE DEF x
<1>2. b * x >= a /\ b * x < a + b
  BY <1>1
<1> QED
  BY <1>1, <1>2, CeilIs DEF x

\* Every multiple of b but the ones up to a is past a.
LEMMA MultipleIs ==
  ASSUME NEW b \in Nat \ {0}, NEW x \in Nat
  PROVE  (b * x) % b = 0 /\ b * x \in Nat
OBVIOUS

\* When no period begins between t and u, only one that begins at t is new.
LEMMA CeilStep ==
  ASSUME NEW t \in Nat, NEW u \in Nat, t < u, NEW b \in Nat \ {0},
         \A x \in Nat : t < x /\ x < u => x % b # 0
  PROVE  CeilDiv(u, b) = CeilDiv(t, b) + (IF t % b = 0 THEN 1 ELSE 0)
<1> DEFINE c == CeilDiv(t, b)
<1>1. c \in Nat /\ b * c \in Nat /\ b * c >= t /\ b * c < t + b
  BY CeilRange
<1>2. t % b = 0 => b * c = t
  BY CeilMultiple
<1>3. b * c = t => t % b = 0
  <2> HIDE DEF c
  <2> QED
    BY <1>1, MultipleIs
<1> HIDE DEF c
<1>4. CASE t % b = 0
  <2>1. b * (c + 1) = b * c + b /\ b * (c + 1) \in Nat /\ (b * (c + 1)) % b = 0
    BY <1>1, MultipleIs
  <2>2. b * (c + 1) >= u
    BY <1>1, <1>2, <1>4, <2>1
  <2>3. b * (c + 1) < u + b
    BY <1>2, <1>4, <2>1
  <2>4. CeilDiv(u, b) = c + 1
    BY <1>1, <2>2, <2>3, CeilIs
  <2> QED
    BY <1>4, <2>4 DEF c
<1>5. CASE t % b # 0
  <2>1. b * c > t
    BY <1>1, <1>3, <1>5
  <2>2. (b * c) % b = 0
    BY <1>1, MultipleIs
  <2>3. b * c >= u /\ b * c < u + b
    BY <1>1, <2>1, <2>2
  <2>4. CeilDiv(u, b) = c
    BY <1>1, <2>3, CeilIs
  <2> QED
    BY <1>1, <1>5, <2>4 DEF c
<1> QED
  BY <1>4, <1>5

\* A quotient rounded up is enough, and 0 only for 0.
LEMMA CeilDivBounds ==
  ASSUME NEW a \in Nat, NEW b \in Nat \ {0}
  PROVE  /\ CeilDiv(a, b) \in Nat /\ CeilDiv(a, b) * b >= a
         /\ (a = 0 => CeilDiv(a, b) = 0) /\ (a > 0 => CeilDiv(a, b) >= 1)
<1> DEFINE m == a + b - 1
           q == m \div b
<1>1. m \in Nat
  OBVIOUS
<1>2. q \in Nat /\ m < q * b + b
  BY <1>1
<1>3. q * b >= a
  BY <1>2
<1>4. a = 0 => q = 0
  OBVIOUS
<1>5. a > 0 => q # 0
  BY <1>2, <1>3
<1> QED
  BY <1>2, <1>3, <1>4, <1>5 DEF CeilDiv

\* How often that is.
LEMMA CeilDivLimits ==
  ASSUME NEW a \in Nat \ {0}, NEW b \in Nat \ {0}
  PROVE  /\ CeilDiv(a, b) \in Nat
         /\ (a <= b => CeilDiv(a, b) <= 1) /\ (a < 2 * b => CeilDiv(a, b) <= 2)
         /\ (a % b = 0 => CeilDiv(a, b) * b = a)
<1> DEFINE m == a + b - 1
           c == m \div b
<1>1. m \in Nat
  OBVIOUS
<1>2. c \in Nat /\ c * b <= m
  BY <1>1
<1>3. CeilDiv(a, b) = c
  BY DEF CeilDiv
<1> HIDE DEF c
<1>4. a <= b => c <= 1
  <2>1. ASSUME a <= b, c >= 2 PROVE FALSE
    <3>1. b * c >= b * 2
      BY <1>2, <2>1, ProductGrows
    <3> QED
      BY <1>2, <2>1, <3>1
  <2> QED
    BY <1>2, <2>1
<1>5. a < 2 * b => c <= 2
  <2>1. ASSUME a < 2 * b, c >= 3 PROVE FALSE
    <3>1. b * c >= b * 3
      BY <1>2, <2>1, ProductGrows
    <3> QED
      BY <1>2, <2>1, <3>1
  <2> QED
    BY <1>2, <2>1
<1>6. ASSUME a % b = 0 PROVE c * b = a
  <2> DEFINE q == a \div b
  <2>1. q \in Nat /\ a = b * q
    BY <1>6
  <2>2. c * b >= a
    BY <1>3, CeilDivBounds
  <2> HIDE DEF q
  <2>3. c <= q
    <3>1. ASSUME c >= q + 1 PROVE FALSE
      <4>1. b * c >= b * (q + 1)
        BY <1>2, <2>1, <3>1, ProductGrows
      <4>2. b * (q + 1) = b * q + b /\ b * c = c * b
        BY <1>2, <2>1
      <4>3. b * q \in Int /\ c * b \in Int
        BY <1>2, <2>1
      <4> QED
        BY <1>2, <2>1, <4>1, <4>2, <4>3
    <3> QED
      BY <1>2, <2>1, <3>1
  <2>4. b * q >= b * c
    BY <1>2, <2>1, <2>3, ProductGrows
  <2>5. b * q \in Int /\ b * c \in Int /\ b * c = c * b
    BY <1>2, <2>1
  <2> QED
    BY <2>1, <2>2, <2>4, <2>5
<1> QED
  BY <1>2, <1>3, <1>4, <1>5, <1>6

\* The remainder of a number below the divisor.
LEMMA ModSmall ==
  ASSUME NEW n \in Nat \ {0}, NEW x \in Nat, x < n
  PROVE  x % n = x /\ (x + n) % n = x
  OBVIOUS

\* A quotient by at least 2 is at most a half.
LEMMA HalfAtMost ==
  ASSUME NEW x \in Nat, NEW y \in Nat \ {0, 1}
  PROVE  x \div y \in Nat /\ 2 * (x \div y) <= x
<1> DEFINE q == x \div y
<1>1. q \in Nat /\ y * q <= x
  OBVIOUS
<1> HIDE DEF q
<1>2. q * 2 <= q * y
  BY <1>1, TimesGrows
<1> QED
  BY <1>1, <1>2 DEF q

\* The whole periods before an end that is a multiple of the period.
LEMMA ReleasedBeforeEnd ==
  ASSUME NEW q \in Nat \ {0}, NEW H \in Nat \ {0}, H % q = 0, NEW t \in Nat, t < H
  PROVE  t \div q < H \div q
<1> DEFINE a == t \div q
           b == H \div q
<1>1. a \in Nat /\ b \in Nat /\ q * a <= t /\ q * b = H /\ q * a \in Nat
  BY DEF a, b
<1> HIDE DEF a, b
<1>2. ASSUME b <= a PROVE FALSE
  <2>1. q * b <= q * a
    BY <1>1, <1>2, TimesGrows
  <2> QED
    BY <1>1, <2>1
<1> QED
  BY <1>1, <1>2 DEF a, b

-------------------------------------------------------------------------------
(* Periodic requests. *)

(***************************************************************************)
(* The requests of n periodic tasks on one core, with period, work and     *)
(* priority of each, all released first at 0.                              *)
(***************************************************************************)
Periodic(n, P, C, Q) ==
  n \in Nat /\ P \in [1 .. n -> Nat \ {0}] /\ C \in [1 .. n -> Nat] /\ Q \in [1 .. n -> Int]

\* The work of priority q or above that is released before x, and at t.
Requesting(n, P, C, Q, q, x) == [i \in 1 .. n |-> IF Q[i] >= q THEN C[i] * CeilDiv(x, P[i]) ELSE 0]

Requested(n, P, C, Q, q, x) == SumFunctionOnSet(Requesting(n, P, C, Q, q, x), 1 .. n)

Releasing(n, P, C, Q, q, t) ==
  [i \in 1 .. n |-> IF Q[i] >= q /\ t % P[i] = 0 THEN C[i] ELSE 0]

ReleasedAt(n, P, C, Q, q, t) == SumFunctionOnSet(Releasing(n, P, C, Q, q, t), 1 .. n)

\* They are natural numbers, and nothing is released before 0.
LEMMA RequestedNat ==
  ASSUME NEW n, NEW P, NEW C, NEW Q, Periodic(n, P, C, Q), NEW q \in Int, NEW x \in Nat
  PROVE  /\ IsFiniteSet(1 .. n)
         /\ \A i \in 1 .. n : /\ Requesting(n, P, C, Q, q, x)[i] \in Nat
                              /\ Releasing(n, P, C, Q, q, x)[i] \in Nat
         /\ Requested(n, P, C, Q, q, x) \in Nat /\ ReleasedAt(n, P, C, Q, q, x) \in Nat
         /\ Requested(n, P, C, Q, q, 0) = 0
<1> DEFINE f == Requesting(n, P, C, Q, q, x)
           g == Releasing(n, P, C, Q, q, x)
           z == Requesting(n, P, C, Q, q, 0)
<1>1. IsFiniteSet(1 .. n)
  BY FS_Interval DEF Periodic
<1>2. \A i \in 1 .. n : P[i] \in Nat \ {0} /\ C[i] \in Nat /\ Q[i] \in Int
  BY DEF Periodic
<1>3. \A i \in 1 .. n : f[i] \in Nat
  <2>1. ASSUME NEW i \in 1 .. n PROVE C[i] * CeilDiv(x, P[i]) \in Nat
    <3>1. CeilDiv(x, P[i]) \in Nat
      BY <1>2, CeilRange
    <3> QED
      BY <1>2, <3>1
  <2> QED
    BY <2>1 DEF Requesting
<1>4. \A i \in 1 .. n : g[i] \in Nat
  BY <1>2 DEF Releasing
<1>5. \A i \in 1 .. n : z[i] = 0
  <2>1. ASSUME NEW i \in 1 .. n PROVE C[i] * CeilDiv(0, P[i]) = 0
    <3>1. P[i] * 0 >= 0 /\ P[i] * 0 < 0 + P[i]
      BY <1>2
    <3>2. CeilDiv(0, P[i]) = 0
      BY <1>2, <3>1, CeilIs
    <3> QED
      BY <1>2, <3>2
  <2> QED
    BY <2>1 DEF Requesting
<1> HIDE DEF f, g, z
<1>6. SumFunctionOnSet(f, 1 .. n) \in Nat /\ SumFunctionOnSet(g, 1 .. n) \in Nat
  BY ONLY <1>1, <1>3, <1>4, SumNat
<1>7. SumFunctionOnSet(z, 1 .. n) = 0
  BY ONLY <1>1, <1>5, SumZero
<1> QED
  BY <1>1, <1>3, <1>4, <1>6, <1>7 DEF Requested, ReleasedAt, f, g, z

\* From one release to the next one.
LEMMA RequestedStep ==
  ASSUME NEW n, NEW P, NEW C, NEW Q, Periodic(n, P, C, Q), NEW q \in Int,
         NEW t \in Nat, NEW u \in Nat, t < u,
         \A i \in 1 .. n : \A x \in Nat : t < x /\ x < u => x % P[i] # 0
  PROVE  Requested(n, P, C, Q, q, u) = Requested(n, P, C, Q, q, t) + ReleasedAt(n, P, C, Q, q, t)
<1> DEFINE f == Requesting(n, P, C, Q, q, t)
           g == Releasing(n, P, C, Q, q, t)
           h == Requesting(n, P, C, Q, q, u)
<1>1. IsFiniteSet(1 .. n) /\ \A i \in 1 .. n : f[i] \in Nat /\ g[i] \in Nat
  BY RequestedNat
<1>2. ASSUME NEW i \in 1 .. n PROVE h[i] = f[i] + g[i]
  <2>1. P[i] \in Nat \ {0} /\ C[i] \in Nat
    BY DEF Periodic
  <2> DEFINE c == CeilDiv(t, P[i])
             d == CeilDiv(u, P[i])
  <2>2. d = c + (IF t % P[i] = 0 THEN 1 ELSE 0) /\ c \in Nat
    BY <2>1, CeilStep, CeilRange
  <2>3. f[i] = IF Q[i] >= q THEN C[i] * c ELSE 0
    BY DEF Requesting
  <2>4. h[i] = IF Q[i] >= q THEN C[i] * d ELSE 0
    BY DEF Requesting
  <2>5. g[i] = IF Q[i] >= q /\ t % P[i] = 0 THEN C[i] ELSE 0
    BY DEF Releasing
  <2> HIDE DEF c, d, f, g, h
  <2>6. C[i] * (c + 1) = C[i] * c + C[i] /\ C[i] * c \in Nat /\ c + 0 = c
    BY <2>1, <2>2
  <2> QED
    BY <2>1, <2>2, <2>3, <2>4, <2>5, <2>6
<1> HIDE DEF f, g, h
<1>3. \A i \in 1 .. n : f[i] \in Int /\ g[i] \in Int /\ h[i] = f[i] + g[i]
  BY <1>1, <1>2
<1>4. SumFunctionOnSet(h, 1 .. n) = SumFunctionOnSet(f, 1 .. n) + SumFunctionOnSet(g, 1 .. n)
  BY ONLY <1>1, <1>3, SumPlus
<1> QED
  BY <1>4 DEF Requested, ReleasedAt, f, g, h

\* In a time S of whole periods no more is released, for its length, than in any other.
LEMMA RequestedRate ==
  ASSUME NEW n, NEW P, NEW C, NEW Q, Periodic(n, P, C, Q), NEW q \in Int,
         NEW S \in Nat, \A i \in 1 .. n : Q[i] >= q => S % P[i] = 0, NEW x \in Nat
  PROVE  x * Requested(n, P, C, Q, q, S) <= S * Requested(n, P, C, Q, q, x)
<1> DEFINE f == Requesting(n, P, C, Q, q, S)
           g == Requesting(n, P, C, Q, q, x)
           F == [i \in 1 .. n |-> x * f[i]]
           G == [i \in 1 .. n |-> S * g[i]]
<1>1. IsFiniteSet(1 .. n) /\ \A i \in 1 .. n : f[i] \in Nat /\ g[i] \in Nat
  BY RequestedNat
<1>2. ASSUME NEW i \in 1 .. n PROVE x * f[i] <= S * g[i]
  <2>1. P[i] \in Nat \ {0} /\ C[i] \in Nat
    BY DEF Periodic
  <2> DEFINE c == CeilDiv(x, P[i])
             s == S \div P[i]
  <2>2. c \in Nat /\ P[i] * c >= x /\ P[i] * c \in Nat
    BY <2>1, CeilRange
  <2>3. g[i] = IF Q[i] >= q THEN C[i] * c ELSE 0
    BY DEF Requesting
  <2>4. CASE Q[i] < q
    <3>1. f[i] = 0 /\ g[i] = 0
      BY <2>4 DEF Requesting, Periodic
    <3> HIDE DEF f, g
    <3> QED
      BY <3>1
  <2>5. CASE Q[i] >= q
    <3>1. CeilDiv(S, P[i]) = s /\ P[i] * s = S /\ s \in Nat
      BY <2>1, <2>5, CeilMultiple
    <3>2. f[i] = C[i] * s /\ g[i] = C[i] * c
      BY <2>3, <2>5, <3>1 DEF Requesting
    <3> HIDE DEF c, s, f, g
    <3>3. C[i] * s \in Nat
      BY <2>1, <3>1
    <3>4. (C[i] * s) * x <= (C[i] * s) * (P[i] * c)
      BY <2>2, <3>3, TimesGrows
    <3>5. (C[i] * s) * (P[i] * c) = (P[i] * s) * (C[i] * c)
      BY <2>1, <2>2, <3>1
    <3>6. (C[i] * s) * x = x * (C[i] * s)
      BY <3>3
    <3> QED
      BY <3>1, <3>2, <3>4, <3>5, <3>6
  <2> QED
    BY <2>4, <2>5 DEF Periodic
<1> HIDE DEF f, g
<1>3. \A i \in 1 .. n : /\ F[i] \in Int /\ f[i] \in Int /\ 1 * F[i] = x * f[i]
                        /\ G[i] \in Int /\ g[i] \in Int /\ 1 * G[i] = S * g[i] /\ F[i] <= G[i]
  BY <1>1, <1>2
<1> HIDE DEF F, G
<1>4. SumFunctionOnSet(F, 1 .. n) = x * SumFunctionOnSet(f, 1 .. n)
  <2> DEFINE k == 1
  <2>1. \A i \in 1 .. n : F[i] \in Int /\ f[i] \in Int /\ k * F[i] = x * f[i]
    BY <1>3
  <2>2. k \in Int /\ x \in Int /\ \A y \in Int : k * y = y
    OBVIOUS
  <2> HIDE DEF k
  <2>3. k * SumFunctionOnSet(F, 1 .. n) = x * SumFunctionOnSet(f, 1 .. n)
    BY ONLY <1>1, <2>1, <2>2, SumScaled
  <2>4. SumFunctionOnSet(F, 1 .. n) \in Int
    BY ONLY <1>1, <1>3, SumInt
  <2> QED
    BY <2>2, <2>3, <2>4
<1>5. SumFunctionOnSet(G, 1 .. n) = S * SumFunctionOnSet(g, 1 .. n)
  <2> DEFINE k == 1
  <2>1. \A i \in 1 .. n : G[i] \in Int /\ g[i] \in Int /\ k * G[i] = S * g[i]
    BY <1>3
  <2>2. k \in Int /\ S \in Int /\ \A y \in Int : k * y = y
    OBVIOUS
  <2> HIDE DEF k
  <2>3. k * SumFunctionOnSet(G, 1 .. n) = S * SumFunctionOnSet(g, 1 .. n)
    BY ONLY <1>1, <2>1, <2>2, SumScaled
  <2>4. SumFunctionOnSet(G, 1 .. n) \in Int
    BY ONLY <1>1, <1>3, SumInt
  <2> QED
    BY <2>2, <2>3, <2>4
<1>6. SumFunctionOnSet(F, 1 .. n) <= SumFunctionOnSet(G, 1 .. n)
  BY ONLY <1>1, <1>3, SumMonotone
<1>7. SumFunctionOnSet(F, 1 .. n) \in Int /\ SumFunctionOnSet(G, 1 .. n) \in Int
  BY ONLY <1>1, <1>3, SumInt
<1> QED
  BY <1>4, <1>5, <1>6, <1>7 DEF Requested, f, g

\* Of a lower priority on it is more.
LEMMA RequestedGrows ==
  ASSUME NEW n, NEW P, NEW C, NEW Q, Periodic(n, P, C, Q), NEW q \in Int, NEW r \in Int, r <= q,
         NEW x \in Nat
  PROVE  Requested(n, P, C, Q, q, x) <= Requested(n, P, C, Q, r, x)
<1> DEFINE f == Requesting(n, P, C, Q, q, x)
           g == Requesting(n, P, C, Q, r, x)
<1>1. IsFiniteSet(1 .. n) /\ \A i \in 1 .. n : f[i] \in Nat /\ g[i] \in Nat
  BY RequestedNat
<1>2. \A i \in 1 .. n : f[i] = g[i] \/ f[i] = 0
  BY DEF Requesting, Periodic
<1> HIDE DEF f, g
<1>3. \A i \in 1 .. n : f[i] \in Int /\ g[i] \in Int /\ f[i] <= g[i]
  BY <1>1, <1>2
<1>4. SumFunctionOnSet(f, 1 .. n) <= SumFunctionOnSet(g, 1 .. n)
  BY ONLY <1>1, <1>3, SumMonotone
<1> QED
  BY <1>4 DEF Requested, f, g

(***************************************************************************)
(* What a task of period p and priority q leaves to be done at a time t: a *)
(* job of it or above, nothing when it is released; and if there is some,  *)
(* it fits into the time up to its next release, with all that arrives.    *)
(***************************************************************************)
NextOf(p, t) == p * (t \div p + 1)

StaysWithin(n, P, C, Q, q, p, t, b) ==
  /\ t % p = 0 => b = 0
  /\ b = 0 \/ b + Requested(n, P, C, Q, q, NextOf(p, t)) - Requested(n, P, C, Q, q, t) <= NextOf(p, t) - t

LEMMA NextMultiple ==
  ASSUME NEW p \in Nat \ {0}, NEW t \in Nat
  PROVE  /\ NextOf(p, t) \in Nat /\ t < NextOf(p, t) /\ NextOf(p, t) % p = 0
         /\ \A u \in Nat : t <= u /\ u < NextOf(p, t) => NextOf(p, u) = NextOf(p, t)
         /\ \A u \in Nat : t < u /\ u < NextOf(p, t) => u % p # 0
<1> DEFINE y == t \div p
<1>1. y \in Nat /\ p * y <= t /\ t < p * y + p /\ p * y \in Nat
  BY SMT
<1>2. NextOf(p, t) = p * (y + 1)
  BY DEF NextOf
<1> HIDE DEF y
<1>3. p * (y + 1) = p * y + p /\ p * (y + 1) \in Nat /\ (p * (y + 1)) % p = 0
  BY <1>1, MultipleIs
<1>4. ASSUME NEW u \in Nat, t <= u, u < p * (y + 1)
      PROVE  u \div p = y /\ (u % p = 0 => u = p * y)
  <2> DEFINE z == u \div p
  <2>1. z \in Nat /\ p * z <= u /\ u < p * z + p /\ p * z \in Nat /\ (u % p = 0 => u = p * z)
    BY SMT
  <2> HIDE DEF z
  <2>2. ASSUME z < y PROVE FALSE
    <3>1. p * (z + 1) <= p * y /\ p * (z + 1) = p * z + p
      BY <1>1, <2>1, <2>2, TimesGrows
    <3> QED
      BY <1>1, <1>4, <2>1, <3>1
  <2>3. ASSUME y < z PROVE FALSE
    <3>1. p * (y + 1) <= p * z
      BY <1>1, <2>1, <2>3, TimesGrows
    <3> QED
      BY <1>3, <1>4, <2>1, <3>1
  <2>4. z = y
    BY <1>1, <2>1, <2>2, <2>3
  <2> QED
    BY <2>1, <2>4 DEF z
<1>5. \A u \in Nat : t <= u /\ u < p * (y + 1) => NextOf(p, u) = p * (y + 1)
  BY <1>4 DEF NextOf
<1>6. \A u \in Nat : t < u /\ u < p * (y + 1) => u % p # 0
  <2>1. ASSUME NEW u \in Nat, t < u, u < p * (y + 1), u % p = 0 PROVE FALSE
    <3>1. u = p * y
      BY <1>4, <2>1
    <3> QED
      BY <1>1, <2>1, <3>1
  <2> QED
    BY <2>1
<1> QED
  BY <1>1, <1>2, <1>3, <1>5, <1>6

-------------------------------------------------------------------------------
(* Jobs on a core. *)

\* A job with what is left of it, and what a list of jobs leaves of priority q or above.
CoreJob == [prio : Int, left : Nat, deadline : Int]

JobLeft(s, q) == [k \in DOMAIN s |-> IF s[k].prio >= q THEN s[k].left ELSE 0]

Backlog(s, q) == SumFunction(JobLeft(s, q))

\* The terms of that sum.
LEMMA JobLeftTyped ==
  ASSUME NEW s \in Seq(CoreJob), NEW q \in Int
  PROVE  /\ Len(s) \in Nat /\ DOMAIN s = 1 .. Len(s) /\ IsFiniteSet(1 .. Len(s))
         /\ \A k \in 1 .. Len(s) : /\ s[k] \in CoreJob /\ s[k].prio \in Int /\ s[k].left \in Nat
                                   /\ s[k].deadline \in Int
         /\ JobLeft(s, q) \in [1 .. Len(s) -> Nat]
         /\ \A k \in 1 .. Len(s) : JobLeft(s, q)[k] = IF s[k].prio >= q THEN s[k].left ELSE 0
<1>1. Len(s) \in Nat /\ DOMAIN s = 1 .. Len(s) /\ \A k \in 1 .. Len(s) : s[k] \in CoreJob
  BY SeqIsFunction
<1>2. \A k \in 1 .. Len(s) : s[k].prio \in Int /\ s[k].left \in Nat /\ s[k].deadline \in Int
  BY <1>1 DEF CoreJob
<1>3. IsFiniteSet(1 .. Len(s))
  BY <1>1, FS_Interval
<1> QED
  BY <1>1, <1>2, <1>3 DEF JobLeft

LEMMA BacklogNat ==
  ASSUME NEW s \in Seq(CoreJob), NEW q \in Int
  PROVE  /\ Backlog(s, q) \in Nat
         /\ \A k \in 1 .. Len(s) : s[k].prio >= q => s[k].left <= Backlog(s, q)
<1> DEFINE f == JobLeft(s, q)
           D == 1 .. Len(s)
<1>1. IsFiniteSet(D) /\ f \in [D -> Nat] /\ \A k \in D : f[k] = IF s[k].prio >= q THEN s[k].left ELSE 0
  BY JobLeftTyped
<1>2. Backlog(s, q) = SumFunctionOnSet(f, D)
  BY <1>1 DEF Backlog, SumFunction
<1> HIDE DEF f, D
<1>3. \A k \in D : f[k] \in Nat
  BY <1>1
<1>4. SumFunctionOnSet(f, D) \in Nat
  BY ONLY <1>1, <1>3, SumNat
<1>5. \A k \in D : f[k] <= SumFunctionOnSet(f, D)
  BY ONLY <1>1, <1>3, SumTerm
<1> QED
  BY <1>1, <1>2, <1>4, <1>5 DEF D

LEMMA BacklogEmpty ==
  ASSUME NEW q
  PROVE  Backlog(<<>>, q) = 0
BY SumEmpty DEF Backlog, JobLeft, SumFunction

\* One more job.
LEMMA BacklogAppend ==
  ASSUME NEW s \in Seq(CoreJob), NEW j \in CoreJob, NEW q \in Int
  PROVE  Backlog(Append(s, j), q) = Backlog(s, q) + (IF j.prio >= q THEN j.left ELSE 0)
<1> DEFINE t == Append(s, j)
           f == JobLeft(s, q)
           g == JobLeft(t, q)
           n == Len(s)
<1>1. /\ t \in Seq(CoreJob) /\ Len(t) = n + 1 /\ n \in Nat
      /\ (\A i \in 1 .. n : t[i] = s[i]) /\ t[n + 1] = j
  BY AppendSeq
<1>2. f \in [1 .. n -> Nat] /\ \A k \in 1 .. n : f[k] = IF s[k].prio >= q THEN s[k].left ELSE 0
  BY JobLeftTyped
<1> HIDE DEF t, f, n
<1>3. g \in [1 .. n + 1 -> Nat] /\ \A k \in 1 .. n + 1 : g[k] = IF t[k].prio >= q THEN t[k].left ELSE 0
  BY <1>1, JobLeftTyped
<1> HIDE DEF g
<1>4. ASSUME NEW k \in 1 .. n PROVE k \in 1 .. n + 1 /\ g[k] = f[k]
  <2>1. k \in 1 .. n + 1 /\ t[k] = s[k]
    BY <1>1
  <2>2. f[k] = IF s[k].prio >= q THEN s[k].left ELSE 0
    BY <1>2
  <2>3. g[k] = IF t[k].prio >= q THEN t[k].left ELSE 0
    BY <1>3, <2>1
  <2> QED
    BY <2>1, <2>2, <2>3
<1>5. f \in [1 .. n -> Int] /\ g \in [1 .. n + 1 -> Int] /\ n \in Nat
  BY <1>1, <1>2, <1>3
<1>6. SumFunction(g) = SumFunction(f) + g[n + 1]
  BY ONLY <1>4, <1>5, SumAppend
<1>7. g[n + 1] = IF j.prio >= q THEN j.left ELSE 0
  BY <1>1, <1>3
<1> QED
  BY <1>6, <1>7 DEF Backlog, t, f, g

\* Two lists one after the other.
LEMMA BacklogConcat ==
  ASSUME NEW s \in Seq(CoreJob), NEW r \in Seq(CoreJob), NEW q \in Int
  PROVE  Backlog(s \o r, q) = Backlog(s, q) + Backlog(r, q)
<1> DEFINE T == {n \in Nat : \A x \in Seq(CoreJob) : Len(x) = n => Backlog(s \o x, q) = Backlog(s, q) + Backlog(x, q)}
<1>1. 0 \in T
  <2>1. ASSUME NEW x \in Seq(CoreJob), Len(x) = 0 PROVE Backlog(s \o x, q) = Backlog(s, q) + Backlog(x, q)
    <3>1. x = <<>>
      BY <2>1, EmptySeq
    <3>2. s \o x = s
      BY <3>1, ConcatEmptySeq
    <3> QED
      BY <3>1, <3>2, BacklogEmpty, BacklogNat
  <2> QED
    BY <2>1
<1>2. ASSUME NEW n \in Nat, n \in T PROVE n + 1 \in T
  <2>1. ASSUME NEW x \in Seq(CoreJob), Len(x) = n + 1 PROVE Backlog(s \o x, q) = Backlog(s, q) + Backlog(x, q)
    <3>1. x # <<>>
      BY <2>1, EmptySeq
    <3>2. PICK y \in Seq(CoreJob), e \in CoreJob : x = Append(y, e)
      BY <3>1, SequenceEmptyOrAppend
    <3>3. Len(y) = n
      BY <2>1, <3>2, AppendSeq
    <3>4. s \o x = Append(s \o y, e) /\ s \o y \in Seq(CoreJob)
      <4>1. s \o y \in Seq(CoreJob) /\ <<e>> \in Seq(CoreJob)
        BY ConcatProperties
      <4>2. Append(s \o y, e) = (s \o y) \o <<e>> /\ x = y \o <<e>>
        BY <3>2, <4>1, AppendIsConcat
      <4>3. (s \o y) \o <<e>> = s \o (y \o <<e>>)
        BY <4>1, ConcatAssociative
      <4> QED
        BY <4>1, <4>2, <4>3
    <3>5. Backlog(s \o y, q) = Backlog(s, q) + Backlog(y, q)
      BY <1>2, <3>2, <3>3
    <3>6. Backlog(Append(s \o y, e), q) = Backlog(s \o y, q) + (IF e.prio >= q THEN e.left ELSE 0)
      BY <3>2, <3>4, BacklogAppend
    <3>7. Backlog(Append(y, e), q) = Backlog(y, q) + (IF e.prio >= q THEN e.left ELSE 0)
      BY <3>2, BacklogAppend
    <3>8. Backlog(s, q) \in Nat /\ Backlog(y, q) \in Nat /\ e.left \in Nat
      BY <3>2, BacklogNat DEF CoreJob
    <3> QED
      BY <3>2, <3>4, <3>5, <3>6, <3>7, <3>8
  <2> QED
    BY <2>1
<1> HIDE DEF T
<1>3. Len(r) \in T
  BY <1>1, <1>2, SetInduction, LenProperties
<1> QED
  BY <1>3 DEF T

\* The order does not matter.
LEMMA BacklogReorders ==
  ASSUME NEW s \in Seq(CoreJob), NEW t, Reorders(t, s), NEW q \in Int
  PROVE  Backlog(t, q) = Backlog(s, q)
<1> DEFINE f == JobLeft(s, q)
           g == JobLeft(t, q)
           n == Len(s)
<1>1. PICK p \in Reorderings(n) : t = [k \in 1 .. n |-> s[p[k]]]
  BY DEF Reorders
<1>2. /\ f \in [1 .. n -> Nat] /\ n \in Nat
      /\ \A k \in 1 .. n : f[k] = IF s[k].prio >= q THEN s[k].left ELSE 0
  BY JobLeftTyped
<1>3. p \in [1 .. n -> 1 .. n]
  BY DEF Reorderings
<1>4. g = [k \in 1 .. n |-> f[p[k]]]
  BY <1>1, <1>2, <1>3 DEF JobLeft
<1> HIDE DEF f, g, n
<1>5. f \in [1 .. n -> Int] /\ g \in [1 .. n -> Int] /\ (\A k \in 1 .. n : g[k] = f[p[k]]) /\ n \in Nat
  BY <1>2, <1>3, <1>4
<1>6. SumFunction(g) = SumFunction(f)
  BY ONLY <1>5, SumPermuted, p \in Reorderings(n)
<1> QED
  BY <1>6 DEF Backlog, f, g

(***************************************************************************)
(* One job is served: acc has the room up to the next release, the time,   *)
(* what waits, and whether a job was late.                                 *)
(***************************************************************************)
CoreAccount == [room : Nat, time : Int, wait : Seq(CoreJob), late : BOOLEAN]

LEMMA ServeTyped ==
  ASSUME NEW acc \in CoreAccount, NEW job \in CoreJob
  PROVE  LET a == Serve(acc, job)
             rest == [job EXCEPT !.left = @ - acc.room]
         IN /\ a \in CoreAccount
            /\ acc.room = 0 => /\ a.room = 0 /\ a.time = acc.time /\ a.late = acc.late
                               /\ a.wait = Append(acc.wait, job)
            /\ acc.room > 0 /\ job.left <= acc.room =>
                 /\ a.room = acc.room - job.left /\ a.time = acc.time + job.left
                 /\ a.late = (acc.late \/ job.deadline < acc.time + job.left) /\ a.wait = acc.wait
            /\ acc.room > 0 /\ job.left > acc.room =>
                 /\ a.room = 0 /\ a.time = acc.time /\ a.late = acc.late
                 /\ a.wait = Append(acc.wait, rest) /\ rest \in CoreJob
                 /\ rest.prio = job.prio /\ rest.deadline = job.deadline
                 /\ rest.left = job.left - acc.room
<1> DEFINE a == Serve(acc, job)
           rest == [job EXCEPT !.left = @ - acc.room]
<1>1. /\ acc.room \in Nat /\ acc.time \in Int /\ acc.wait \in Seq(CoreJob) /\ acc.late \in BOOLEAN
      /\ acc = [room |-> acc.room, time |-> acc.time, wait |-> acc.wait, late |-> acc.late]
  BY DEF CoreAccount
<1>2. /\ job.prio \in Int /\ job.left \in Nat /\ job.deadline \in Int
      /\ job = [prio |-> job.prio, left |-> job.left, deadline |-> job.deadline]
  BY DEF CoreJob
<1>3. CASE acc.room = 0
  <2>1. a = [room |-> acc.room, time |-> acc.time, wait |-> Append(acc.wait, job), late |-> acc.late]
    BY <1>1, <1>3 DEF Serve
  <2>2. Append(acc.wait, job) \in Seq(CoreJob)
    BY <1>1, AppendSeq
  <2> HIDE DEF a
  <2>3. a \in CoreAccount
    BY <1>1, <2>1, <2>2 DEF CoreAccount
  <2>4. /\ a.room = 0 /\ a.time = acc.time /\ a.late = acc.late /\ a.wait = Append(acc.wait, job)
    BY <1>3, <2>1
  <2> QED
    BY <1>3, <2>3, <2>4 DEF a
<1>4. CASE acc.room > 0 /\ job.left <= acc.room
  <2> DEFINE l == acc.late \/ job.deadline < acc.time + job.left
  <2>1. a = [room |-> acc.room - job.left, time |-> acc.time + job.left, wait |-> acc.wait, late |-> l]
    <3>1. a = [acc EXCEPT !.room = acc.room - job.left, !.time = acc.time + job.left, !.late = l]
      <4>1. acc.room # 0 /\ job.left <= acc.room
        BY <1>1, <1>4
      <4> QED
        BY <4>1, Zenon DEF Serve
    <3> HIDE DEF l, a
    <3> QED
      BY <1>1, <3>1
  <2>2. acc.room - job.left \in Nat /\ acc.time + job.left \in Int /\ l \in BOOLEAN
    BY <1>1, <1>2, <1>4
  <2> HIDE DEF a, l
  <2>3. a \in CoreAccount
    BY <1>1, <2>1, <2>2 DEF CoreAccount
  <2>4. /\ a.room = acc.room - job.left /\ a.time = acc.time + job.left /\ a.late = l /\ a.wait = acc.wait
    BY <2>1
  <2> QED
    <3>1. ~ (acc.room = 0) /\ ~ (job.left > acc.room)
      BY <1>1, <1>2, <1>4
    <3> QED
      BY <1>4, <2>3, <2>4, <3>1, Zenon DEF a, l
<1>5. CASE acc.room > 0 /\ job.left > acc.room
  <2>1. rest = [prio |-> job.prio, left |-> job.left - acc.room, deadline |-> job.deadline]
    BY <1>2
  <2>2. a = [room |-> 0, time |-> acc.time, wait |-> Append(acc.wait, rest), late |-> acc.late]
    <3>1. a = [acc EXCEPT !.room = 0, !.wait = Append(acc.wait, rest)]
      <4>1. acc.room # 0 /\ ~ (job.left <= acc.room)
        BY <1>1, <1>2, <1>5
      <4> QED
        BY <4>1, Zenon DEF Serve
    <3> HIDE DEF rest, a
    <3> QED
      BY <1>1, <3>1
  <2> HIDE DEF rest, a
  <2>3. rest \in CoreJob /\ rest.prio = job.prio /\ rest.deadline = job.deadline /\ rest.left = job.left - acc.room
    BY <1>1, <1>2, <1>5, <2>1 DEF CoreJob
  <2>4. Append(acc.wait, rest) \in Seq(CoreJob)
    BY <1>1, <2>3, AppendSeq
  <2>5. a \in CoreAccount
    BY <1>1, <2>2, <2>4 DEF CoreAccount
  <2>6. a.room = 0 /\ a.time = acc.time /\ a.late = acc.late /\ a.wait = Append(acc.wait, rest)
    BY <2>2
  <2> QED
    <3>1. ~ (acc.room = 0) /\ ~ (job.left <= acc.room)
      BY <1>1, <1>2, <1>5
    <3> QED
      BY <1>5, <2>3, <2>5, <2>6, <3>1, Zenon DEF a, rest
<1> QED
  BY <1>1, <1>2, <1>3, <1>4, <1>5

\* What is known once the first k jobs of w had their turn in the R units from t on.
FromJobs(s, w) ==
  \A i \in 1 .. Len(s) :
    s[i].left > 0 /\ \E j \in 1 .. Len(w) : s[i].prio = w[j].prio /\ s[i].deadline = w[j].deadline

LeftUpTo(w, q, k) == SumFunctionOnSet(JobLeft(w, q), 1 .. k)

Turns(w, R, t, l, a, k) ==
  /\ a \in CoreAccount /\ a.room <= R /\ a.time + a.room <= t + R
  /\ a.room > 0 => a.wait = <<>>
  /\ FromJobs(a.wait, w)
  /\ (\A i \in 1 .. Len(w) : w[i].deadline >= t + R) => a.late = l
  /\ \A q \in Int : (\A i \in 1 .. k : w[i].prio >= q) => Backlog(a.wait, q) + R - a.room = LeftUpTo(w, q, k)
  /\ \A q \in Int : Backlog(a.wait, q) = 0 \/ Backlog(a.wait, q) + R = LeftUpTo(w, q, k)

\* Jobs in the order of their priorities, none of them done.
Prioritised(w) ==
  /\ w \in Seq(CoreJob)
  /\ \A k \in 1 .. Len(w) : w[k].left > 0
  /\ \A i, k \in 1 .. Len(w) : i <= k => w[i].prio >= w[k].prio

\* The sum up to a job.
LEMMA LeftUpToStep ==
  ASSUME NEW w \in Seq(CoreJob), NEW q \in Int, NEW k \in 1 .. Len(w)
  PROVE  /\ LeftUpTo(w, q, k) = LeftUpTo(w, q, k - 1) + (IF w[k].prio >= q THEN w[k].left ELSE 0)
         /\ LeftUpTo(w, q, k - 1) \in Nat
<1> DEFINE f == JobLeft(w, q)
           A == 1 .. k - 1
<1>1. /\ Len(w) \in Nat
      /\ f \in [1 .. Len(w) -> Nat] /\ f[k] = IF w[k].prio >= q THEN w[k].left ELSE 0
  BY JobLeftTyped
<1>2. IsFiniteSet(A) /\ k \notin A /\ 1 .. k = A \cup {k} /\ A \cup {k} \subseteq 1 .. Len(w)
  <2>1. k \in Nat /\ 1 \in Int /\ k - 1 \in Int
    BY <1>1
  <2>2. IsFiniteSet(A)
    BY <2>1, FS_Interval
  <2>3. k \notin A /\ 1 .. k = A \cup {k} /\ A \cup {k} \subseteq 1 .. Len(w)
    BY <1>1
  <2> QED
    BY <2>2, <2>3
<1> HIDE DEF f, A
<1>3. \A x \in A \cup {k} : f[x] \in Int /\ f[x] \in Nat
  BY <1>1, <1>2
<1>4. SumFunctionOnSet(f, A \cup {k}) = SumFunctionOnSet(f, A) + f[k]
  BY ONLY <1>2, <1>3, SumAdd
<1>5. SumFunctionOnSet(f, A) \in Nat
  BY ONLY <1>2, <1>3, SumNat
<1>6. LeftUpTo(w, q, k) = SumFunctionOnSet(f, A \cup {k}) /\ LeftUpTo(w, q, k - 1) = SumFunctionOnSet(f, A)
  BY <1>2 DEF LeftUpTo, f, A
<1> QED
  BY <1>1, <1>4, <1>5, <1>6

\* Before the first job, and after the last one.
LEMMA LeftUpToEnds ==
  ASSUME NEW w \in Seq(CoreJob), NEW q \in Int
  PROVE  LeftUpTo(w, q, 0) = 0 /\ LeftUpTo(w, q, Len(w)) = Backlog(w, q)
<1>1. 1 .. 0 = {}
  OBVIOUS
<1>2. DOMAIN JobLeft(w, q) = 1 .. Len(w)
  BY JobLeftTyped
<1> QED
  BY <1>1, <1>2, SumEmpty DEF LeftUpTo, Backlog, SumFunction

LEMMA TurnsStart ==
  ASSUME NEW w, Prioritised(w), NEW R \in Nat, NEW t \in Int, NEW l \in BOOLEAN, NEW a,
         a = [room |-> R, time |-> t, wait |-> <<>>, late |-> l]
  PROVE  Turns(w, R, t, l, a, 0)
<1>1. a.room = R /\ a.time = t /\ a.wait = <<>> /\ a.late = l
  OBVIOUS
<1>2. <<>> \in Seq(CoreJob) /\ Len(<<>>) = 0
  BY EmptySeq
<1>3. a \in CoreAccount
  BY <1>2 DEF CoreAccount
<1>4. FromJobs(a.wait, w)
  BY <1>1, <1>2 DEF FromJobs
<1>5. \A q \in Int : Backlog(a.wait, q) = 0 /\ LeftUpTo(w, q, 0) = 0
  BY <1>1, BacklogEmpty, LeftUpToEnds DEF Prioritised
<1> QED
  BY <1>1, <1>3, <1>4, <1>5 DEF Turns

\* A job that waits is one of w.
LEMMA FromJobsAppend ==
  ASSUME NEW s \in Seq(CoreJob), NEW w, NEW j \in CoreJob, FromJobs(s, w), j.left > 0,
         NEW k \in 1 .. Len(w), j.prio = w[k].prio, j.deadline = w[k].deadline
  PROVE  FromJobs(Append(s, j), w)
<1> DEFINE u == Append(s, j)
<1>1. /\ Len(u) = Len(s) + 1 /\ Len(s) \in Nat
      /\ (\A i \in 1 .. Len(s) : u[i] = s[i]) /\ u[Len(s) + 1] = j
  BY AppendSeq
<1> HIDE DEF u
<1>2. ASSUME NEW i \in 1 .. Len(u)
      PROVE  u[i].left > 0 /\ \E x \in 1 .. Len(w) : u[i].prio = w[x].prio /\ u[i].deadline = w[x].deadline
  <2>1. CASE i \in 1 .. Len(s)
    <3>1. u[i] = s[i]
      BY <1>1, <2>1
    <3> QED
      BY <2>1, <3>1 DEF FromJobs
  <2>2. CASE i = Len(s) + 1
    <3>1. u[i] = j
      BY <1>1, <2>2
    <3> QED
      BY <3>1
  <2> QED
    BY <1>1, <2>1, <2>2
<1> QED
  BY <1>2 DEF FromJobs, u

LEMMA TurnsStep ==
  ASSUME NEW w, Prioritised(w), NEW R \in Nat, NEW t \in Int, NEW l \in BOOLEAN,
         NEW k \in 1 .. Len(w), NEW a, Turns(w, R, t, l, a, k - 1)
  PROVE  Turns(w, R, t, l, Serve(a, w[k]), k)
<1> DEFINE b == Serve(a, w[k])
           j == w[k]
           rest == [j EXCEPT !.left = @ - a.room]
<1>1. /\ w \in Seq(CoreJob) /\ Len(w) \in Nat /\ j \in CoreJob /\ j.left > 0 /\ j.left \in Nat /\ j.prio \in Int
      /\ j.deadline \in Int
  BY JobLeftTyped DEF Prioritised
<1>2. a \in CoreAccount /\ a.room \in Nat /\ a.time \in Int /\ a.wait \in Seq(CoreJob) /\ a.late \in BOOLEAN
  BY DEF Turns, CoreAccount
<1>3. /\ b \in CoreAccount
      /\ a.room = 0 => /\ b.room = 0 /\ b.time = a.time /\ b.late = a.late
                       /\ b.wait = Append(a.wait, j)
      /\ a.room > 0 /\ j.left <= a.room =>
           /\ b.room = a.room - j.left /\ b.time = a.time + j.left
           /\ b.late = (a.late \/ j.deadline < a.time + j.left) /\ b.wait = a.wait
      /\ a.room > 0 /\ j.left > a.room =>
           /\ b.room = 0 /\ b.time = a.time /\ b.late = a.late
           /\ b.wait = Append(a.wait, rest) /\ rest \in CoreJob
           /\ rest.prio = j.prio /\ rest.deadline = j.deadline
           /\ rest.left = j.left - a.room
  BY <1>1, <1>2, ServeTyped
<1>4. /\ a.room <= R /\ a.time + a.room <= t + R
      /\ a.room > 0 => a.wait = <<>>
      /\ FromJobs(a.wait, w)
      /\ (\A i \in 1 .. Len(w) : w[i].deadline >= t + R) => a.late = l
  BY DEF Turns
<1>5. /\ b.room <= R /\ b.time + b.room <= t + R /\ b.room \in Nat
      /\ b.room > 0 => b.wait = <<>>
  <2> HIDE DEF b, rest, j
  <2>1. CASE a.room = 0
    BY <1>2, <1>3, <1>4, <2>1
  <2>4. a.room <= R /\ a.time + a.room <= t + R /\ (a.room > 0 => a.wait = <<>>)
    BY <1>4
  <2>2. CASE a.room > 0 /\ j.left <= a.room
    <3>1. b.room = a.room - j.left /\ b.time = a.time + j.left /\ b.wait = a.wait
      BY <1>3, <2>2
    <3>2. b.room <= R /\ b.room \in Nat
      BY <1>1, <1>2, <2>2, <2>4, <3>1
    <3>3. b.time + b.room <= t + R
      BY <1>1, <1>2, <2>2, <2>4, <3>1
    <3>4. b.wait = <<>>
      BY <2>2, <2>4, <3>1
    <3> QED
      BY <3>2, <3>3, <3>4
  <2>3. CASE a.room > 0 /\ j.left > a.room
    <3>1. b.room = 0 /\ b.time = a.time
      BY <1>3, <2>3
    <3>2. b.time + b.room <= t + R
      BY <1>2, <2>3, <2>4, <3>1
    <3> QED
      BY <3>1, <3>2
  <2> QED
    BY <1>1, <1>2, <2>1, <2>2, <2>3
<1>6. FromJobs(b.wait, w)
  <2>1. CASE a.room = 0
    <3>1. FromJobs(Append(a.wait, j), w)
      BY <1>1, <1>2, <1>4, FromJobsAppend
    <3> HIDE DEF b, j
    <3> QED
      BY <1>3, <2>1, <3>1
  <2>2. CASE a.room > 0 /\ j.left <= a.room
    <3> HIDE DEF b, j
    <3> QED
      BY <1>3, <1>4, <2>2
  <2>3. CASE a.room > 0 /\ j.left > a.room
    <3>1. rest \in CoreJob /\ rest.prio = w[k].prio /\ rest.deadline = w[k].deadline /\ rest.left > 0
      BY <1>1, <1>2, <1>3, <2>3
    <3> HIDE DEF b, rest
    <3>2. FromJobs(Append(a.wait, rest), w)
      BY <1>2, <1>4, <3>1, FromJobsAppend
    <3> QED
      BY <1>3, <2>3, <3>2
  <2> HIDE DEF b, j
  <2> QED
    BY <1>1, <1>2, <2>1, <2>2, <2>3
<1>7. (\A i \in 1 .. Len(w) : w[i].deadline >= t + R) => b.late = l
  <2>1. ASSUME \A i \in 1 .. Len(w) : w[i].deadline >= t + R PROVE b.late = l
    <3>1. a.late = l /\ j.deadline >= t + R
      BY <1>4, <2>1
    <3> HIDE DEF b, rest, j
    <3>2. CASE a.room > 0 /\ j.left <= a.room
      <4>1. ~ (j.deadline < a.time + j.left)
        BY <1>1, <1>2, <1>4, <3>1, <3>2
      <4> QED
        BY <1>3, <3>1, <3>2, <4>1
    <3>3. CASE a.room = 0 \/ (a.room > 0 /\ j.left > a.room)
      BY <1>3, <3>1, <3>3
    <3> QED
      BY <1>1, <1>2, <3>2, <3>3
  <2> QED
    BY <2>1
<1>8. ASSUME NEW q \in Int
      PROVE  /\ (\A i \in 1 .. k : w[i].prio >= q) => Backlog(b.wait, q) + R - b.room = LeftUpTo(w, q, k)
             /\ Backlog(b.wait, q) = 0 \/ Backlog(b.wait, q) + R = LeftUpTo(w, q, k)
  <2> DEFINE B == Backlog(a.wait, q)
             D == Backlog(b.wait, q)
             U == LeftUpTo(w, q, k - 1)
             V == LeftUpTo(w, q, k)
  <2>1. V = U + (IF j.prio >= q THEN j.left ELSE 0) /\ U \in Nat
    BY <1>1, LeftUpToStep
  <2>2. B \in Nat /\ D \in Nat
    BY <1>2, <1>3, BacklogNat DEF CoreAccount
  <2>3. /\ (\A i \in 1 .. k - 1 : w[i].prio >= q) => B + R - a.room = U
        /\ B = 0 \/ B + R = U
    BY DEF Turns
  <2>4. a.room = 0 => D = B + (IF j.prio >= q THEN j.left ELSE 0)
    <3>1. Backlog(Append(a.wait, j), q) = B + (IF j.prio >= q THEN j.left ELSE 0)
      BY <1>1, <1>2, BacklogAppend
    <3> HIDE DEF B, j, b
    <3> QED
      BY <1>3, <3>1
  <2>5. a.room > 0 /\ j.left <= a.room => D = B
    <3> HIDE DEF j, b
    <3> QED
      BY <1>3
  <2>6. a.room > 0 /\ j.left > a.room => D = B + (IF j.prio >= q THEN j.left - a.room ELSE 0)
    <3>1. ASSUME a.room > 0 /\ j.left > a.room
          PROVE  D = B + (IF j.prio >= q THEN j.left - a.room ELSE 0)
      <4>1. Backlog(Append(a.wait, rest), q) = B + (IF rest.prio >= q THEN rest.left ELSE 0)
        BY <1>2, <1>3, <3>1, BacklogAppend
      <4> HIDE DEF B, j, b, rest
      <4> QED
        BY <1>3, <3>1, <4>1
    <3> QED
      BY <3>1
  <2>7. a.room > 0 => B = 0
    BY <1>4, BacklogEmpty
  <2>8. b.room > 0 => D = 0
    <3> HIDE DEF b
    <3> QED
      BY <1>5, BacklogEmpty
  <2>9. (\A i \in 1 .. k : w[i].prio >= q) <=> j.prio >= q
    <3>1. ASSUME j.prio >= q, NEW i \in 1 .. k PROVE w[i].prio >= q
      <4>1. i \in 1 .. Len(w) /\ i <= k
        BY <1>1
      <4>2. w[i].prio >= w[k].prio /\ w[i].prio \in Int
        BY <1>1, <4>1, JobLeftTyped DEF Prioritised
      <4> QED
        BY <1>1, <3>1, <4>2
    <3>2. k \in 1 .. k
      BY <1>1
    <3> QED
      BY <3>1, <3>2
  <2>10. (\A i \in 1 .. k : w[i].prio >= q) => \A i \in 1 .. k - 1 : w[i].prio >= q
    BY <1>1
  <2> DEFINE all == \A i \in 1 .. k : w[i].prio >= q
  <2>11. (all <=> j.prio >= q) /\ (all => B + R - a.room = U)
    BY <2>3, <2>9, <2>10
  <2>12. B = 0 \/ B + R = U
    BY <2>3
  <2> HIDE DEF all, B, D, U, V, b, j, rest
  <2>15. /\ a.room \in Int /\ j.left \in Int /\ R \in Int
         /\ B \in Int /\ D \in Int /\ U \in Int
    BY <1>1, <1>2, <2>1, <2>2
  <2>13. CASE j.prio >= q
    <3>1. D + R - b.room = V
      <4>0. B + R - a.room = U /\ V = U + j.left
        BY <2>1, <2>11, <2>13
      <4>1. CASE a.room = 0
        <5>1. D = B + j.left /\ b.room = 0
          BY <1>3, <2>4, <2>13, <4>1
        <5> QED
          BY ONLY <2>15, <4>0, <4>1, <5>1
      <4>2. CASE a.room > 0 /\ j.left <= a.room
        <5>1. D = B /\ b.room = a.room - j.left
          BY <1>3, <2>5, <4>2
        <5> QED
          BY <1>1, <1>2, <2>1, <2>2, <4>0, <5>1
      <4>3. CASE a.room > 0 /\ j.left > a.room
        <5>1. D = B + (j.left - a.room) /\ b.room = 0
          BY <1>3, <2>6, <2>13, <4>3
        <5>2. D + R - 0 = B + R - a.room + j.left
          BY ONLY <2>15, <5>1
        <5> QED
          BY <4>0, <5>1, <5>2
      <4> QED
        BY <1>1, <1>2, <4>1, <4>2, <4>3
    <3>2. D = 0 \/ D + R = V
      BY <1>5, <2>1, <2>2, <2>8, <3>1
    <3> QED
      BY <3>1, <3>2 DEF D, V
  <2>14. CASE ~ (j.prio >= q)
    <3>1. ~ all /\ V = U
      BY <2>1, <2>11, <2>14
    <3>2. D = B
      BY <1>1, <1>2, <2>2, <2>4, <2>5, <2>6, <2>14
    <3> QED
      BY <2>12, <3>1, <3>2 DEF all, D, V
  <2> QED
    BY <2>13, <2>14
<1> HIDE DEF b
<1> QED
  BY <1>3, <1>5, <1>6, <1>7, <1>8 DEF Turns, b

(***************************************************************************)
(* All jobs of a queue have had their turn: what they leave of a priority  *)
(* is nothing, or what they had but for the whole time; and none was late  *)
(* if no deadline was before the end.                                      *)
(***************************************************************************)
LEMMA AllServed ==
  ASSUME NEW w, Prioritised(w), NEW R \in Nat, NEW t \in Int, NEW l \in BOOLEAN,
         NEW G, G[0] = [room |-> R, time |-> t, wait |-> <<>>, late |-> l],
         \A k \in 1 .. Len(w) : G[k] = Serve(G[k - 1], w[k]), NEW a, a = G[Len(w)]
  PROVE  /\ a \in CoreAccount /\ FromJobs(a.wait, w)
         /\ (\A i \in 1 .. Len(w) : w[i].deadline >= t + R) => a.late = l
         /\ \A q \in Int : Backlog(a.wait, q) = 0 \/ Backlog(a.wait, q) + R = Backlog(w, q)
         /\ \A q \in Int : (\A i \in 1 .. Len(w) : w[i].prio >= q) =>
              Backlog(a.wait, q) + R >= Backlog(w, q)
<1> DEFINE N == Len(w)
           T == {k \in Nat : k <= N => Turns(w, R, t, l, G[k], k)}
<1>1. N \in Nat /\ w \in Seq(CoreJob)
  BY LenProperties DEF Prioritised
<1>2. 0 \in T
  BY TurnsStart
<1>3. ASSUME NEW k \in Nat, k \in T PROVE k + 1 \in T
  <2>1. ASSUME k + 1 <= N PROVE Turns(w, R, t, l, G[k + 1], k + 1)
    <3>1. k + 1 \in 1 .. Len(w) /\ (k + 1) - 1 = k
      BY <1>1, <2>1
    <3>2. Turns(w, R, t, l, G[(k + 1) - 1], (k + 1) - 1)
      BY <1>1, <1>3, <2>1, <3>1
    <3>3. Turns(w, R, t, l, Serve(G[(k + 1) - 1], w[k + 1]), k + 1)
      BY <3>1, <3>2, TurnsStep
    <3> QED
      BY <3>1, <3>3
  <2> QED
    BY <2>1
<1> HIDE DEF T
<1>4. N \in T
  BY <1>1, <1>2, <1>3, SetInduction
<1>5. Turns(w, R, t, l, a, Len(w))
  BY <1>1, <1>4 DEF T
<1>6. \A q \in Int : LeftUpTo(w, q, Len(w)) = Backlog(w, q) /\ Backlog(w, q) \in Nat
  BY <1>1, LeftUpToEnds, BacklogNat
<1>7. a \in CoreAccount /\ a.room \in Nat /\ a.wait \in Seq(CoreJob)
  BY <1>5 DEF Turns, CoreAccount
<1>8. ASSUME NEW q \in Int, \A i \in 1 .. Len(w) : w[i].prio >= q
      PROVE  Backlog(a.wait, q) + R >= Backlog(w, q)
  <2>1. Backlog(a.wait, q) + R - a.room = Backlog(w, q)
    BY <1>5, <1>6, <1>8 DEF Turns
  <2> DEFINE B == Backlog(a.wait, q)
             W == Backlog(w, q)
  <2>2. B \in Nat /\ W \in Nat
    BY <1>1, <1>7, BacklogNat
  <2> HIDE DEF B, W
  <2>3. B + R - a.room = W
    BY <2>1 DEF B, W
  <2>4. B + R >= W
    BY <1>7, <2>2, <2>3
  <2> QED
    BY <2>4 DEF B, W
<1> QED
  BY <1>5, <1>6, <1>7, <1>8 DEF Turns

-------------------------------------------------------------------------------
(* One core, from release to release. *)

(***************************************************************************)
(* From a release at t to the next one at u: rel is released, what waits   *)
(* and what is released is served by priority, and y is what x becomes.    *)
(***************************************************************************)
ReleaseOf(n, P, C, Q, rel, t) ==
  /\ rel \in Seq(CoreJob)
  /\ \A q \in Int : Backlog(rel, q) = ReleasedAt(n, P, C, Q, q, t)
  /\ \A k \in 1 .. Len(rel) :
       /\ rel[k].left > 0
       /\ \E i \in 1 .. n : rel[k].prio = Q[i] /\ t % P[i] = 0 /\ rel[k].deadline = t + P[i]

Serves(x, y, w, t, u) ==
  /\ \A i, k \in 1 .. Len(w) : i <= k => w[i].prio >= w[k].prio
  /\ \E G : /\ G[0] = [room |-> u - t, time |-> t, wait |-> <<>>, late |-> x.late]
            /\ \A k \in 1 .. Len(w) : G[k] = Serve(G[k - 1], w[k])
            /\ y.wait = G[Len(w)].wait /\ y.late = G[Len(w)].late

StepOf(x, y, rel, t, u) == \E w : Reorders(w, x.wait \o rel) /\ Serves(x, y, w, t, u)

\* Jobs of the tasks of which something is left.
KnownJobs(n, Q, s) ==
  s \in Seq(CoreJob) /\ \A k \in 1 .. Len(s) : s[k].left > 0 /\ \E i \in 1 .. n : s[k].prio = Q[i]

CoreState == [wait : Seq(CoreJob), late : BOOLEAN]

\* What one step does to the backlog, the jobs and the verdict.
LEMMA StepServes ==
  ASSUME NEW n, NEW P, NEW C, NEW Q, Periodic(n, P, C, Q),
         NEW t \in Nat, NEW u \in Nat, t < u, NEW rel, ReleaseOf(n, P, C, Q, rel, t),
         NEW x \in CoreState, KnownJobs(n, Q, x.wait), NEW y, StepOf(x, y, rel, t, u)
  PROVE  /\ y.wait \in Seq(CoreJob) /\ y.late \in BOOLEAN /\ FromJobs(y.wait, x.wait \o rel)
         /\ KnownJobs(n, Q, x.wait \o rel) /\ KnownJobs(n, Q, y.wait)
         /\ (\A i \in 1 .. Len(x.wait \o rel) : (x.wait \o rel)[i].deadline >= u) => y.late = x.late
         /\ \A q \in Int :
              /\ \/ Backlog(y.wait, q) = 0
                 \/ Backlog(y.wait, q) + (u - t) = Backlog(x.wait, q) + ReleasedAt(n, P, C, Q, q, t)
              /\ (\A i \in 1 .. n : Q[i] >= q) =>
                   Backlog(y.wait, q) + (u - t) >= Backlog(x.wait, q) + ReleasedAt(n, P, C, Q, q, t)
<1> DEFINE s == x.wait
           v == s \o rel
<1>1. PICK w : Reorders(w, v) /\ Serves(x, y, w, t, u)
  BY DEF StepOf
<1>2. PICK G : /\ G[0] = [room |-> u - t, time |-> t, wait |-> <<>>, late |-> x.late]
               /\ \A k \in 1 .. Len(w) : G[k] = Serve(G[k - 1], w[k])
               /\ y.wait = G[Len(w)].wait /\ y.late = G[Len(w)].late
  BY <1>1 DEF Serves
<1>3. s \in Seq(CoreJob) /\ rel \in Seq(CoreJob) /\ x.late \in BOOLEAN
  BY DEF CoreState, ReleaseOf
<1>4. /\ v \in Seq(CoreJob) /\ Len(v) = Len(s) + Len(rel) /\ Len(s) \in Nat /\ Len(rel) \in Nat
      /\ \A i \in 1 .. Len(s) : v[i] = s[i]
      /\ \A i \in 1 .. Len(rel) : v[Len(s) + i] = rel[i]
      /\ \A i \in 1 .. Len(v) : i \in 1 .. Len(s) \/ \E j \in 1 .. Len(rel) : i = Len(s) + j
  <2> HIDE DEF s
  <2> QED
    BY <1>3, ConcatSeq
<1>5. KnownJobs(n, Q, v)
  <2>1. ASSUME NEW i \in 1 .. Len(v) PROVE v[i].left > 0 /\ \E k \in 1 .. n : v[i].prio = Q[k]
    <3>1. CASE i \in 1 .. Len(s)
      <4>1. v[i] = s[i]
        BY <1>4, <3>1
      <4> HIDE DEF v
      <4> QED
        BY <3>1, <4>1 DEF KnownJobs
    <3>2. CASE \E j \in 1 .. Len(rel) : i = Len(s) + j
      <4>1. PICK j \in 1 .. Len(rel) : i = Len(s) + j
        BY <3>2
      <4>2. v[i] = rel[j]
        BY <1>4, <4>1
      <4> HIDE DEF v
      <4> QED
        BY <4>2 DEF ReleaseOf
    <3> QED
      BY <1>4, <3>1, <3>2
  <2> QED
    BY <1>4, <2>1 DEF KnownJobs
<1> HIDE DEF v
<1>6. /\ w \in Seq(CoreJob) /\ Len(w) = Len(v)
      /\ \A k \in 1 .. Len(v) : \E i \in 1 .. Len(v) : w[k] = v[i]
      /\ \A i \in 1 .. Len(v) : \E k \in 1 .. Len(v) : w[k] = v[i]
  <2>1. Reorders(w, v) /\ v \in Seq(CoreJob)
    BY <1>1, <1>4
  <2>2. /\ w \in Seq(CoreJob) /\ Len(w) = Len(v)
        /\ \A k \in 1 .. Len(v) : \E i \in 1 .. Len(v) : w[k] = v[i]
        /\ \A i \in 1 .. Len(v) : \E k \in 1 .. Len(v) : w[k] = v[i]
    BY ONLY <2>1, ReorderedSeq
  <2> QED
    BY <2>2
<1>7. Prioritised(w)
  <2>1. \A k \in 1 .. Len(w) : w[k].left > 0
    BY <1>5, <1>6 DEF KnownJobs
  <2> QED
    BY <1>1, <1>6, <2>1 DEF Prioritised, Serves
<1> DEFINE a == G[Len(w)]
           R == u - t
<1>8. /\ a \in CoreAccount /\ FromJobs(a.wait, w)
      /\ (\A i \in 1 .. Len(w) : w[i].deadline >= t + R) => a.late = x.late
      /\ \A q \in Int : Backlog(a.wait, q) = 0 \/ Backlog(a.wait, q) + R = Backlog(w, q)
      /\ \A q \in Int : (\A i \in 1 .. Len(w) : w[i].prio >= q) =>
              Backlog(a.wait, q) + R >= Backlog(w, q)
  <2>1. R \in Nat /\ t \in Int
    OBVIOUS
  <2>2. G[0] = [room |-> R, time |-> t, wait |-> <<>>, late |-> x.late]
    BY <1>2
  <2> HIDE DEF R
  <2> QED
    BY <1>2, <1>3, <1>7, <2>1, <2>2, AllServed
<1>9. y.wait = a.wait /\ y.late = a.late
  BY <1>2
<1> HIDE DEF a
<1>10. y.wait \in Seq(CoreJob) /\ y.late \in BOOLEAN
  BY <1>8, <1>9 DEF CoreAccount
<1>11. FromJobs(y.wait, v)
  <2>1. ASSUME NEW i \in 1 .. Len(y.wait)
        PROVE  /\ y.wait[i].left > 0
               /\ \E j \in 1 .. Len(v) : y.wait[i].prio = v[j].prio /\ y.wait[i].deadline = v[j].deadline
    <3>1. PICK k \in 1 .. Len(w) : /\ y.wait[i].left > 0
                                   /\ y.wait[i].prio = w[k].prio /\ y.wait[i].deadline = w[k].deadline
      BY <1>8, <1>9 DEF FromJobs
    <3>2. PICK j \in 1 .. Len(v) : w[k] = v[j]
      BY <1>6
    <3> QED
      BY <3>1, <3>2
  <2> QED
    BY <2>1 DEF FromJobs
<1>12. KnownJobs(n, Q, y.wait)
  <2>1. ASSUME NEW i \in 1 .. Len(y.wait)
        PROVE  y.wait[i].left > 0 /\ \E k \in 1 .. n : y.wait[i].prio = Q[k]
    <3>1. PICK j \in 1 .. Len(v) : y.wait[i].left > 0 /\ y.wait[i].prio = v[j].prio
      BY <1>11 DEF FromJobs
    <3>2. PICK k \in 1 .. n : v[j].prio = Q[k]
      BY <1>5 DEF KnownJobs
    <3> QED
      BY <3>1, <3>2
  <2> QED
    BY <1>10, <2>1 DEF KnownJobs
<1>13. ASSUME \A i \in 1 .. Len(v) : v[i].deadline >= u PROVE y.late = x.late
  <2>1. \A i \in 1 .. Len(w) : w[i].deadline >= t + R
    <3>1. t + R = u
      OBVIOUS
    <3> QED
      BY <1>6, <1>13, <3>1
  <2> QED
    BY <1>8, <1>9, <2>1
<1>14. ASSUME NEW q \in Int
       PROVE  Backlog(w, q) = Backlog(s, q) + ReleasedAt(n, P, C, Q, q, t)
  <2>1. Backlog(w, q) = Backlog(v, q)
    BY <1>1, <1>4, BacklogReorders
  <2>2. Backlog(v, q) = Backlog(s, q) + Backlog(rel, q)
    BY <1>3, BacklogConcat DEF v
  <2>3. Backlog(rel, q) = ReleasedAt(n, P, C, Q, q, t)
    BY DEF ReleaseOf
  <2> QED
    BY <2>1, <2>2, <2>3
<1>15. ASSUME NEW q \in Int, \A i \in 1 .. n : Q[i] >= q
       PROVE  \A k \in 1 .. Len(w) : w[k].prio >= q
  <2>1. ASSUME NEW k \in 1 .. Len(w) PROVE w[k].prio >= q
    <3>1. PICK i \in 1 .. Len(v) : w[k] = v[i]
      BY <1>6
    <3>2. PICK j \in 1 .. n : v[i].prio = Q[j]
      BY <1>5 DEF KnownJobs
    <3> QED
      BY <1>15, <3>1, <3>2
  <2> QED
    BY <2>1
<1>16. ASSUME NEW q \in Int
       PROVE  /\ \/ Backlog(y.wait, q) = 0
                 \/ Backlog(y.wait, q) + (u - t) = Backlog(s, q) + ReleasedAt(n, P, C, Q, q, t)
              /\ (\A i \in 1 .. n : Q[i] >= q) =>
                   Backlog(y.wait, q) + (u - t) >= Backlog(s, q) + ReleasedAt(n, P, C, Q, q, t)
  <2>1. Backlog(a.wait, q) = 0 \/ Backlog(a.wait, q) + R = Backlog(w, q)
    BY <1>8
  <2>2. (\A i \in 1 .. n : Q[i] >= q) => Backlog(a.wait, q) + R >= Backlog(w, q)
    BY <1>8, <1>15
  <2> QED
    BY <1>9, <1>14, <2>1, <2>2
<1> QED
  BY <1>5, <1>10, <1>11, <1>12, <1>13, <1>16 DEF v

(***************************************************************************)
(* A run of the core: N releases at the times at, up to H.  X is what      *)
(* waits and whether a job was late, after each of them.                   *)
(***************************************************************************)
CoreTimes(n, P, H, N, at) ==
  /\ N \in Nat /\ at \in [1 .. N + 1 -> Nat]
  /\ at[1] = 0 /\ at[N + 1] = H
  /\ \A k \in 1 .. N : /\ at[k] < at[k + 1]
                       /\ \A i \in 1 .. n : \A x \in Nat : at[k] < x /\ x < at[k + 1] => x % P[i] # 0

CoreRun(n, P, C, Q, H, N, at, X) ==
  /\ Periodic(n, P, C, Q) /\ CoreTimes(n, P, H, N, at)
  /\ H \in Nat /\ \A i \in 1 .. n : H % P[i] = 0
  /\ \A i, j \in 1 .. n : Q[i] >= Q[j] => P[j] % P[i] = 0
  /\ X[0] = [wait |-> <<>>, late |-> FALSE]
  /\ \A k \in 1 .. N : /\ X[k] = [wait |-> X[k].wait, late |-> X[k].late]
                       /\ \E rel : /\ ReleaseOf(n, P, C, Q, rel, at[k])
                                   /\ StepOf(X[k - 1], X[k], rel, at[k], at[k + 1])

\* What the run keeps in any case: the backlog of all is no less than what has arrived.
Lagging(n, P, C, Q, q, t, x) ==
  x \in CoreState /\ KnownJobs(n, Q, x.wait) /\ Backlog(x.wait, q) + t >= Requested(n, P, C, Q, q, t)

\* If nothing waits at the end, the tasks have enough time.
LEMMA EmptyIsEnough ==
  ASSUME NEW n, NEW P, NEW C, NEW Q, NEW H, NEW N, NEW at, NEW X, CoreRun(n, P, C, Q, H, N, at, X),
         X[N].wait = <<>>, H > 0, NEW j \in 1 .. n
  PROVE  Requested(n, P, C, Q, Q[j], P[j]) <= P[j]
<1>1. /\ Periodic(n, P, C, Q) /\ CoreTimes(n, P, H, N, at) /\ N \in Nat /\ n \in Nat /\ H \in Nat
      /\ P[j] \in Nat \ {0} /\ Q[j] \in Int
  BY DEF CoreRun, CoreTimes, Periodic
<1>2. PICK q \in Int : \A i \in 1 .. n : Q[i] >= q
  <2> DEFINE T == {Q[i] : i \in 1 .. n}
  <2>1. T \subseteq Int /\ T # {} /\ \A i \in 1 .. n : Q[i] \in T
    BY DEF CoreRun, Periodic
  <2>2. IsFiniteSet(T)
    <3>1. IsFiniteSet(1 .. n)
      BY <1>1, RequestedNat, 0 \in Nat
    <3> QED
      BY <3>1, ImageIsFinite
  <2> HIDE DEF T
  <2>3. Min(T) \in T /\ \A x \in T : Min(T) <= x
    BY <2>1, <2>2, MinFinite
  <2>4. Min(T) \in Int /\ \A i \in 1 .. n : Q[i] >= Min(T)
    BY <2>1, <2>3
  <2> QED
    BY <2>4
<1> DEFINE S == {k \in Nat : k <= N => Lagging(n, P, C, Q, q, at[k + 1], X[k])}
<1>3. 0 \in S
  <2>1. X[0].wait = <<>> /\ X[0].late = FALSE /\ X[0] = [wait |-> <<>>, late |-> FALSE]
    BY DEF CoreRun
  <2>2. X[0] \in CoreState /\ KnownJobs(n, Q, X[0].wait)
    BY <2>1, EmptySeq DEF CoreState, KnownJobs
  <2>3. at[0 + 1] = 0
    BY <1>1 DEF CoreTimes
  <2>4. Requested(n, P, C, Q, q, 0) = 0
    BY <1>1, RequestedNat
  <2>5. Backlog(X[0].wait, q) = 0
    BY <2>1, BacklogEmpty
  <2> QED
    BY <2>2, <2>3, <2>4, <2>5 DEF Lagging
<1>4. ASSUME NEW k \in Nat, k \in S PROVE k + 1 \in S
  <2>1. ASSUME k + 1 <= N PROVE Lagging(n, P, C, Q, q, at[(k + 1) + 1], X[k + 1])
    <3> DEFINE m == k + 1
               t == at[m]
               u == at[m + 1]
    <3>1. m \in 1 .. N /\ m - 1 = k /\ k <= N
      BY <1>1, <2>1
    <3>2. Lagging(n, P, C, Q, q, t, X[k])
      BY <1>4, <3>1
    <3>3. t \in Nat /\ u \in Nat /\ t < u
          /\ \A i \in 1 .. n : \A x \in Nat : t < x /\ x < u => x % P[i] # 0
      <4>1. m \in 1 .. N + 1 /\ m + 1 \in 1 .. N + 1
        BY <1>1, <3>1
      <4> HIDE DEF m
      <4> QED
        BY <1>1, <3>1, <4>1 DEF CoreTimes
    <3> HIDE DEF m
    <3>4. PICK rel : ReleaseOf(n, P, C, Q, rel, t) /\ StepOf(X[k], X[m], rel, t, u)
      BY <3>1 DEF CoreRun
    <3>5. X[m] = [wait |-> X[m].wait, late |-> X[m].late]
      BY <3>1 DEF CoreRun
    <3> HIDE DEF t, u
    <3>6. X[k] \in CoreState /\ KnownJobs(n, Q, X[k].wait) /\ X[k].wait \in Seq(CoreJob)
      BY <3>2 DEF Lagging, CoreState
    <3>7. /\ X[m].wait \in Seq(CoreJob) /\ X[m].late \in BOOLEAN /\ KnownJobs(n, Q, X[m].wait)
          /\ Backlog(X[m].wait, q) + (u - t) >= Backlog(X[k].wait, q) + ReleasedAt(n, P, C, Q, q, t)
      BY <1>1, <1>2, <3>3, <3>4, <3>6, StepServes
    <3>8. Requested(n, P, C, Q, q, u) = Requested(n, P, C, Q, q, t) + ReleasedAt(n, P, C, Q, q, t)
      <4>1. t \in Nat /\ u \in Nat /\ t < u /\ q \in Int /\ Periodic(n, P, C, Q)
        BY <1>1, <3>3
      <4>2. \A i \in 1 .. n : \A x \in Nat : t < x /\ x < u => x % P[i] # 0
        BY <3>3
      <4> QED
        BY ONLY <4>1, <4>2, RequestedStep
    <3>9. /\ Requested(n, P, C, Q, q, t) \in Nat /\ ReleasedAt(n, P, C, Q, q, t) \in Nat
          /\ Backlog(X[m].wait, q) \in Nat /\ Backlog(X[k].wait, q) \in Nat
      BY <1>1, <3>3, <3>6, <3>7, RequestedNat, BacklogNat
    <3>10. Backlog(X[k].wait, q) + t >= Requested(n, P, C, Q, q, t)
      BY <3>2 DEF Lagging
    <3> DEFINE b == Backlog(X[k].wait, q)
               d == Backlog(X[m].wait, q)
               e == Requested(n, P, C, Q, q, t)
               f == Requested(n, P, C, Q, q, u)
               g == ReleasedAt(n, P, C, Q, q, t)
    <3>11. d + (u - t) >= b + g /\ f = e + g /\ b + t >= e /\ e \in Nat /\ g \in Nat /\ b \in Nat /\ d \in Nat
           /\ t \in Nat /\ u \in Nat
      BY <3>3, <3>7, <3>8, <3>9, <3>10
    <3> HIDE DEF b, d, e, f, g
    <3>12. d + u >= f
      BY ONLY <3>11
    <3>13. X[m] \in CoreState
      BY <3>5, <3>7 DEF CoreState
    <3> QED
      BY <3>7, <3>12, <3>13 DEF Lagging, d, f, m, u
  <2> QED
    BY <2>1
<1> HIDE DEF S
<1>5. N \in S
  BY <1>1, <1>3, <1>4, SetInduction
<1>6. Lagging(n, P, C, Q, q, H, X[N])
  BY <1>1, <1>5 DEF S, CoreTimes
<1> DEFINE a == Requested(n, P, C, Q, q, H)
           b == Requested(n, P, C, Q, Q[j], H)
           c == Requested(n, P, C, Q, Q[j], P[j])
<1>7. a \in Nat /\ b \in Nat /\ c \in Nat
  BY <1>1, RequestedNat
<1>8. a <= H
  <2>1. Backlog(X[N].wait, q) = 0
    BY BacklogEmpty
  <2> QED
    BY <1>1, <1>6, <1>7, <2>1 DEF Lagging
<1>9. b <= a
  BY <1>1, <1>2, RequestedGrows
<1>10. H * c <= P[j] * b
  <2>1. \A i \in 1 .. n : Q[i] >= Q[j] => P[j] % P[i] = 0
    BY DEF CoreRun
  <2> QED
    BY <1>1, <2>1, RequestedRate
<1> HIDE DEF a, b, c
<1>11. P[j] * b <= P[j] * H
  BY <1>1, <1>7, <1>8, <1>9, TimesGrows
<1>12. H * c <= H * P[j]
  <2>1. P[j] * H = H * P[j] /\ H * c \in Int /\ P[j] * b \in Int /\ P[j] * H \in Int
    BY <1>1, <1>7
  <2> QED
    BY <1>10, <1>11, <2>1
<1>13. c <= P[j]
  BY <1>1, <1>7, <1>12, TimesCancels
<1> QED
  BY <1>13 DEF c

LEMMA ModTransitive ==
  ASSUME NEW a \in Nat \ {0}, NEW b \in Nat \ {0}, NEW c \in Nat, b % a = 0, c % b = 0
  PROVE  c % a = 0
<1>1. b = a * (b \div a) /\ b \div a \in Nat /\ c = b * (c \div b) /\ c \div b \in Nat
  BY CeilMultiple
<1> DEFINE x == b \div a
           y == c \div b
<1> HIDE DEF x, y
<1>2. c = a * (x * y) /\ x * y \in Nat
  BY <1>1 DEF x, y
<1> QED
  BY <1>2, MultipleIs

LEMMA NextIsMultiple ==
  ASSUME NEW p \in Nat \ {0}, NEW t \in Nat, t % p = 0
  PROVE  (t + p) % p = 0 /\ t + p \in Int /\ t + p > t
<1>1. p * (t \div p) = t /\ t \div p \in Nat
  BY CeilMultiple
<1> DEFINE z == t \div p
           y == z + 1
<1>2. p * z = t /\ z \in Nat
  BY <1>1
<1> HIDE DEF z
<1>3. p * (z + 1) = p * z + p /\ z + 1 \in Nat
  BY <1>2
<1>4. p * y = t + p /\ y \in Nat
  BY <1>2, <1>3
<1> HIDE DEF y
<1>5. (p * y) % p = 0
  BY <1>4, MultipleIs
<1>6. t + p \in Int /\ t + p > t
  OBVIOUS
<1> QED
  BY <1>4, <1>5, <1>6

\* A task that has enough time from a common release on has it from any time on up to a release.
LEMMA RequestedLater ==
  ASSUME NEW n, NEW P, NEW C, NEW Q, Periodic(n, P, C, Q), NEW j \in 1 .. n,
         \A i \in 1 .. n : Q[i] >= Q[j] => P[j] % P[i] = 0, Requested(n, P, C, Q, Q[j], P[j]) <= P[j],
         NEW S \in Nat \ {0}, S % P[j] = 0, NEW t \in Nat, t <= S
  PROVE  Requested(n, P, C, Q, Q[j], S) - Requested(n, P, C, Q, Q[j], t) <= S - t
<1> DEFINE p == P[j]
           a == Requested(n, P, C, Q, Q[j], S)
           b == Requested(n, P, C, Q, Q[j], t)
           c == Requested(n, P, C, Q, Q[j], p)
<1>1. p \in Nat \ {0} /\ Q[j] \in Int /\ \A i \in 1 .. n : P[i] \in Nat \ {0}
  BY DEF Periodic
<1>2. a \in Nat /\ b \in Nat /\ c \in Nat /\ c <= p
  BY <1>1, RequestedNat
<1>3. \A i \in 1 .. n : Q[i] >= Q[j] => S % P[i] = 0
  BY <1>1, ModTransitive
<1>4. p * a <= S * c /\ t * a <= S * b
  BY <1>1, <1>3, RequestedRate
<1> HIDE DEF p, a, b, c
<1>5. S * c <= S * p
  BY <1>1, <1>2, TimesGrows
<1>6. a <= S
  <2>1. p * a <= p * S
    <3>1. S * p = p * S /\ p * a \in Int /\ S * c \in Int /\ p * S \in Int
      BY <1>1, <1>2
    <3> QED
      BY <1>4, <1>5, <3>1
  <2> QED
    BY <1>1, <1>2, <2>1, TimesCancels
<1>7. (S - t) * a <= (S - t) * S
  BY <1>2, <1>6, TimesGrows
<1>8. S * (a - b) <= S * (S - t)
  <2>1. S * (a - b) = S * a - S * b /\ (S - t) * a = S * a - t * a /\ (S - t) * S = S * (S - t)
    BY <1>2
  <2>2. S * a \in Int /\ S * b \in Int /\ t * a \in Int /\ S * (S - t) \in Int
    BY <1>2
  <2> QED
    BY <1>4, <1>7, <2>1, <2>2
<1>9. a - b <= S - t
  <2>1. a - b \in Int /\ S - t \in Int
    BY <1>2
  <2> HIDE DEF a, b
  <2> DEFINE x == a - b
             y == S - t
  <2>2. S * x <= S * y /\ x \in Int /\ y \in Int
    BY <1>8, <2>1
  <2> HIDE DEF x, y
  <2>3. x <= y
    BY <2>2, TimesCancels
  <2> QED
    BY <2>3 DEF x, y
<1> QED
  BY <1>9 DEF a, b

\* From one release to the next one a task stays within its time.
LEMMA StaysWithinStep ==
  ASSUME NEW n, NEW P, NEW C, NEW Q, Periodic(n, P, C, Q), NEW j \in 1 .. n,
         \A i \in 1 .. n : Q[i] >= Q[j] => P[j] % P[i] = 0, Requested(n, P, C, Q, Q[j], P[j]) <= P[j],
         NEW t \in Nat, NEW u \in Nat, t < u,
         \A i \in 1 .. n : \A x \in Nat : t < x /\ x < u => x % P[i] # 0,
         NEW b \in Nat, StaysWithin(n, P, C, Q, Q[j], P[j], t, b), NEW d \in Nat,
         d = 0 \/ d + (u - t) = b + ReleasedAt(n, P, C, Q, Q[j], t)
  PROVE  StaysWithin(n, P, C, Q, Q[j], P[j], u, d)
<1> DEFINE p == P[j]
           q == Q[j]
           S == NextOf(p, t)
           A(x) == Requested(n, P, C, Q, q, x)
           r == ReleasedAt(n, P, C, Q, q, t)
<1>1. p \in Nat \ {0} /\ q \in Int
  BY DEF Periodic
<1>2. /\ S \in Nat /\ t < S /\ S % p = 0
      /\ \A x \in Nat : t <= x /\ x < S => NextOf(p, x) = S
      /\ \A x \in Nat : t < x /\ x < S => x % p # 0
  BY <1>1, NextMultiple
<1>3. u <= S
  <2>1. \A x \in Nat : t < x /\ x < u => x % p # 0
    OBVIOUS
  <2> HIDE DEF p, S
  <2> QED
    BY <1>2, <2>1
<1>4. A(t) \in Nat /\ A(u) \in Nat /\ A(S) \in Nat /\ r \in Nat
  BY <1>1, <1>2, RequestedNat
<1>5. A(u) = A(t) + r
  BY <1>1, RequestedStep
<1>6. b + A(S) - A(t) <= S - t
  <2>1. b = 0 \/ b + A(S) - A(t) <= S - t
    BY DEF StaysWithin
  <2>2. A(S) - A(t) <= S - t
    <3>1. S \in Nat \ {0} /\ t <= S
      BY <1>2
    <3> QED
      BY <1>2, <3>1, RequestedLater
  <2> HIDE DEF A, S
  <2> QED
    BY <1>4, <2>1, <2>2
<1>7. d = 0 \/ d + (u - t) = b + r
  OBVIOUS
<1>8. CASE u < S
  <2>1. NextOf(p, u) = S /\ u % p # 0
    BY <1>2, <1>8
  <2>2. d = 0 \/ d + A(S) - A(u) <= S - u
    <3> HIDE DEF A, S, r
    <3> QED
      BY <1>2, <1>4, <1>5, <1>6, <1>7
  <2> QED
    BY <2>1, <2>2 DEF StaysWithin
<1>9. CASE u = S
  <2>1. d = 0
    <3>1. b + r <= u - t
      <4>1. A(S) = A(t) + r
        BY <1>5, <1>9
      <4> HIDE DEF A, S, r
      <4> QED
        BY <1>4, <1>6, <1>9, <4>1
    <3> HIDE DEF A, S, r
    <3> QED
      BY <1>4, <1>7, <3>1
  <2> QED
    BY <2>1 DEF StaysWithin
<1> HIDE DEF S
<1> QED
  BY <1>2, <1>3, <1>8, <1>9

(***************************************************************************)
(* The jobs that wait have deadlines, at ends of periods, that are not     *)
(* over, and every task is within its time.                                *)
(***************************************************************************)
OnTime(n, P, Q, s, t) ==
  \A k \in 1 .. Len(s) :
    \E i \in 1 .. n : s[k].prio = Q[i] /\ s[k].deadline >= t /\ s[k].deadline % P[i] = 0

InTime(n, P, C, Q, t, x) ==
  /\ x \in CoreState /\ ~ x.late /\ KnownJobs(n, Q, x.wait) /\ OnTime(n, P, Q, x.wait, t)
  /\ \A j \in 1 .. n : StaysWithin(n, P, C, Q, Q[j], P[j], t, Backlog(x.wait, Q[j]))

LEMMA InTimeStep ==
  ASSUME NEW n, NEW P, NEW C, NEW Q, Periodic(n, P, C, Q),
         \A i, j \in 1 .. n : Q[i] >= Q[j] => P[j] % P[i] = 0,
         \A j \in 1 .. n : Requested(n, P, C, Q, Q[j], P[j]) <= P[j],
         NEW t \in Nat, NEW u \in Nat, t < u,
         \A i \in 1 .. n : \A x \in Nat : t < x /\ x < u => x % P[i] # 0,
         NEW rel, ReleaseOf(n, P, C, Q, rel, t),
         NEW x, InTime(n, P, C, Q, t, x), NEW y, y = [wait |-> y.wait, late |-> y.late],
         StepOf(x, y, rel, t, u)
  PROVE  InTime(n, P, C, Q, u, y)
<1> DEFINE v == x.wait \o rel
<1>1. x \in CoreState /\ KnownJobs(n, Q, x.wait) /\ x.wait \in Seq(CoreJob) /\ rel \in Seq(CoreJob) /\ ~ x.late
  BY DEF InTime, CoreState, ReleaseOf
<1>2. /\ y.wait \in Seq(CoreJob) /\ y.late \in BOOLEAN /\ FromJobs(y.wait, v)
      /\ KnownJobs(n, Q, v) /\ KnownJobs(n, Q, y.wait)
      /\ (\A i \in 1 .. Len(v) : v[i].deadline >= u) => y.late = x.late
      /\ \A q \in Int :
           \/ Backlog(y.wait, q) = 0
           \/ Backlog(y.wait, q) + (u - t) = Backlog(x.wait, q) + ReleasedAt(n, P, C, Q, q, t)
  BY <1>1, StepServes
<1>3. /\ v \in Seq(CoreJob) /\ Len(v) = Len(x.wait) + Len(rel) /\ Len(x.wait) \in Nat /\ Len(rel) \in Nat
      /\ \A i \in 1 .. Len(x.wait) : v[i] = x.wait[i]
      /\ \A i \in 1 .. Len(rel) : v[Len(x.wait) + i] = rel[i]
      /\ \A i \in 1 .. Len(v) : i \in 1 .. Len(x.wait) \/ \E j \in 1 .. Len(rel) : i = Len(x.wait) + j
  <2> DEFINE w == x.wait
  <2>1. w \in Seq(CoreJob) /\ rel \in Seq(CoreJob)
    BY <1>1
  <2> HIDE DEF w
  <2>2. w \o rel \in Seq(CoreJob) /\ Len(w \o rel) = Len(w) + Len(rel) /\ Len(w) \in Nat /\ Len(rel) \in Nat
    BY ONLY <2>1, ConcatSeq
  <2>3. \A i \in 1 .. Len(w) : (w \o rel)[i] = w[i]
    BY ONLY <2>1, ConcatSeq
  <2>4. \A i \in 1 .. Len(rel) : (w \o rel)[Len(w) + i] = rel[i]
    BY ONLY <2>1, ConcatSeq
  <2>5. \A i \in 1 .. Len(w) + Len(rel) : i \in 1 .. Len(w) \/ \E j \in 1 .. Len(rel) : i = Len(w) + j
    BY ONLY <2>1, ConcatSeq
  <2> QED
    BY ONLY <2>2, <2>3, <2>4, <2>5 DEF v, w
<1> HIDE DEF v
<1>4. ASSUME NEW i \in 1 .. n, NEW m \in Int, m > t, m % P[i] = 0 PROVE m >= u
  <2>1. m \in Nat
    BY <1>4
  <2> QED
    BY <1>4, <2>1
<1>5. ASSUME NEW k \in 1 .. Len(v)
      PROVE  v[k].deadline >= u /\ \E i \in 1 .. n : v[k].prio = Q[i] /\ v[k].deadline % P[i] = 0
  <2>1. CASE k \in 1 .. Len(x.wait)
    <3> DEFINE e == x.wait[k]
    <3>1. v[k] = e
      BY <1>3, <2>1
    <3>2. PICK i \in 1 .. n : e.prio = Q[i] /\ e.deadline >= t /\ e.deadline % P[i] = 0
      BY <2>1 DEF InTime, OnTime
    <3>3. e.left > 0 /\ e.deadline \in Int /\ e.left \in Nat /\ e.prio \in Int
      <4>1. e \in CoreJob /\ e.left > 0
        <5>1. e \in CoreJob
          BY <1>1, <2>1, ElementOfSeq
        <5>2. x.wait[k].left > 0
          BY <1>1, <2>1 DEF KnownJobs
        <5> QED
          BY <5>1, <5>2
      <4> HIDE DEF e
      <4> QED
        BY <4>1 DEF CoreJob
    <3>4. e.left <= Backlog(x.wait, Q[i]) /\ Backlog(x.wait, Q[i]) \in Nat
      <4>1. Q[i] \in Int
        BY DEF Periodic
      <4>2. e.prio >= Q[i]
        BY <3>2, <3>3
      <4> QED
        BY <1>1, <2>1, <4>1, <4>2, BacklogNat
    <3>5. t % P[i] # 0
      <4>1. StaysWithin(n, P, C, Q, Q[i], P[i], t, Backlog(x.wait, Q[i]))
        BY DEF InTime
      <4>2. Backlog(x.wait, Q[i]) # 0
        BY <3>3, <3>4
      <4> QED
        BY <4>1, <4>2 DEF StaysWithin
    <3>6. e.deadline # t
      BY <3>2, <3>5
    <3>7. e.deadline > t
      BY <3>2, <3>3, <3>6
    <3>8. e.deadline >= u
      BY <1>4, <3>2, <3>3, <3>7
    <3> HIDE DEF e
    <3> QED
      BY <3>1, <3>2, <3>8
  <2>2. CASE \E j \in 1 .. Len(rel) : k = Len(x.wait) + j
    <3>1. PICK j \in 1 .. Len(rel) : k = Len(x.wait) + j
      BY <2>2
    <3>2. v[k] = rel[j]
      BY <1>3, <3>1
    <3>3. PICK i \in 1 .. n : rel[j].prio = Q[i] /\ t % P[i] = 0 /\ rel[j].deadline = t + P[i]
      BY DEF ReleaseOf
    <3>4. P[i] \in Nat \ {0}
      BY DEF Periodic
    <3>5. (t + P[i]) % P[i] = 0 /\ t + P[i] \in Int /\ t + P[i] > t
      BY <3>3, <3>4, NextIsMultiple
    <3>6. t + P[i] >= u
      BY <1>4, <3>5
    <3> QED
      BY <3>2, <3>3, <3>5, <3>6
  <2> QED
    BY <1>3, <2>1, <2>2
<1>6. ~ y.late
  BY <1>1, <1>2, <1>5
<1>7. OnTime(n, P, Q, y.wait, u)
  <2>1. ASSUME NEW k \in 1 .. Len(y.wait)
        PROVE  \E i \in 1 .. n : y.wait[k].prio = Q[i] /\ y.wait[k].deadline >= u /\ y.wait[k].deadline % P[i] = 0
    <3>1. PICK m \in 1 .. Len(v) : y.wait[k].prio = v[m].prio /\ y.wait[k].deadline = v[m].deadline
      BY <1>2 DEF FromJobs
    <3> QED
      BY <1>5, <3>1
  <2> QED
    BY <2>1 DEF OnTime
<1>8. ASSUME NEW j \in 1 .. n PROVE StaysWithin(n, P, C, Q, Q[j], P[j], u, Backlog(y.wait, Q[j]))
  <2> DEFINE b == Backlog(x.wait, Q[j])
             d == Backlog(y.wait, Q[j])
  <2>1. Q[j] \in Int
    BY DEF Periodic
  <2>2. b \in Nat /\ d \in Nat
    BY <1>1, <1>2, <2>1, BacklogNat
  <2>3. StaysWithin(n, P, C, Q, Q[j], P[j], t, b)
    BY DEF InTime
  <2>4. d = 0 \/ d + (u - t) = b + ReleasedAt(n, P, C, Q, Q[j], t)
    BY <1>2, <2>1
  <2>5. \A i \in 1 .. n : Q[i] >= Q[j] => P[j] % P[i] = 0
    OBVIOUS
  <2>6. Requested(n, P, C, Q, Q[j], P[j]) <= P[j]
    OBVIOUS
  <2> HIDE DEF b, d
  <2>7. StaysWithin(n, P, C, Q, Q[j], P[j], u, d)
    BY <2>2, <2>3, <2>4, <2>5, <2>6, StaysWithinStep
  <2> QED
    BY <2>7 DEF d
<1>9. y \in CoreState
  BY <1>2 DEF CoreState
<1> QED
  BY <1>2, <1>6, <1>7, <1>8, <1>9 DEF InTime

\* If every task has enough time, no job is late and none is left at the end.
LEMMA EnoughIsInTime ==
  ASSUME NEW n, NEW P, NEW C, NEW Q, NEW H, NEW N, NEW at, NEW X, CoreRun(n, P, C, Q, H, N, at, X),
         \A j \in 1 .. n : Requested(n, P, C, Q, Q[j], P[j]) <= P[j]
  PROVE  X[N].wait = <<>> /\ ~ X[N].late
<1>1. /\ Periodic(n, P, C, Q) /\ CoreTimes(n, P, H, N, at) /\ N \in Nat /\ n \in Nat /\ H \in Nat
      /\ \A i, j \in 1 .. n : Q[i] >= Q[j] => P[j] % P[i] = 0
  BY DEF CoreRun, CoreTimes, Periodic
<1> DEFINE S == {k \in Nat : k <= N => InTime(n, P, C, Q, at[k + 1], X[k])}
<1>2. 0 \in S
  <2>1. X[0].wait = <<>> /\ X[0].late = FALSE /\ X[0] = [wait |-> <<>>, late |-> FALSE]
    BY DEF CoreRun
  <2>2. X[0] \in CoreState /\ KnownJobs(n, Q, X[0].wait) /\ OnTime(n, P, Q, X[0].wait, 0)
    BY <2>1, EmptySeq DEF CoreState, KnownJobs, OnTime
  <2>3. at[0 + 1] = 0
    BY <1>1 DEF CoreTimes
  <2>4. \A j \in 1 .. n : StaysWithin(n, P, C, Q, Q[j], P[j], 0, Backlog(X[0].wait, Q[j]))
    BY <2>1, BacklogEmpty DEF StaysWithin
  <2> QED
    BY <2>1, <2>2, <2>3, <2>4 DEF InTime
<1>3. ASSUME NEW k \in Nat, k \in S PROVE k + 1 \in S
  <2>1. ASSUME k + 1 <= N PROVE InTime(n, P, C, Q, at[(k + 1) + 1], X[k + 1])
    <3> DEFINE m == k + 1
               t == at[m]
               u == at[m + 1]
    <3>1. m \in 1 .. N /\ m - 1 = k /\ k <= N
      BY <1>1, <2>1
    <3>2. InTime(n, P, C, Q, t, X[k])
      BY <1>3, <3>1
    <3>3. t \in Nat /\ u \in Nat /\ t < u
      <4>1. m \in 1 .. N + 1 /\ m + 1 \in 1 .. N + 1
        BY <1>1, <3>1
      <4> HIDE DEF m
      <4> QED
        BY <1>1, <3>1, <4>1 DEF CoreTimes
    <3> HIDE DEF m
    <3>4. \A i \in 1 .. n : \A x \in Nat : t < x /\ x < u => x % P[i] # 0
      BY <1>1, <3>1 DEF CoreTimes
    <3>5. PICK rel : ReleaseOf(n, P, C, Q, rel, t) /\ StepOf(X[k], X[m], rel, t, u)
      BY <3>1 DEF CoreRun
    <3>6. X[m] = [wait |-> X[m].wait, late |-> X[m].late]
      BY <3>1 DEF CoreRun
    <3> HIDE DEF t, u
    <3>7. InTime(n, P, C, Q, u, X[m])
      BY <1>1, <3>2, <3>3, <3>4, <3>5, <3>6, InTimeStep
    <3> QED
      BY <3>7 DEF u, m
  <2> QED
    BY <2>1
<1> HIDE DEF S
<1>4. N \in S
  BY <1>1, <1>2, <1>3, SetInduction
<1>5. InTime(n, P, C, Q, H, X[N])
  BY <1>1, <1>4 DEF S, CoreTimes
<1>6. X[N].wait \in Seq(CoreJob) /\ ~ X[N].late
  BY <1>5 DEF InTime, CoreState
<1>7. ASSUME Len(X[N].wait) # 0 PROVE FALSE
  <2>1. 1 \in 1 .. Len(X[N].wait)
    BY <1>6, <1>7, LenProperties
  <2>2. PICK i \in 1 .. n : X[N].wait[1].prio = Q[i] /\ X[N].wait[1].left > 0
    BY <1>5, <2>1 DEF InTime, KnownJobs
  <2>3. Q[i] \in Int
    BY <1>1 DEF Periodic
  <2>4. /\ X[N].wait[1].left \in Nat
        /\ X[N].wait[1].left <= Backlog(X[N].wait, Q[i]) /\ Backlog(X[N].wait, Q[i]) \in Nat
    <3>1. X[N].wait[1].prio >= Q[i]
      BY <2>2, <2>3
    <3> QED
      BY <1>6, <2>1, <2>3, <3>1, BacklogNat, JobLeftTyped
  <2>5. H % P[i] = 0
    BY DEF CoreRun
  <2>6. Backlog(X[N].wait, Q[i]) = 0
    BY <1>5, <2>5 DEF InTime, StaysWithin
  <2> QED
    BY <2>2, <2>4, <2>6
<1> QED
  BY <1>6, <1>7, EmptySeq

-------------------------------------------------------------------------------
(* What is released and served in turn, as the code lists it. *)

\* The numbers of a set in turn are all of them, each before the greater ones.
LEMMA InTurnIs ==
  ASSUME NEW T \in SUBSET Nat, IsFiniteSet(T)
  PROVE  /\ Cardinality(T) \in Nat
         /\ InTurn(T) \in [1 .. Cardinality(T) -> T]
         /\ InTurn(T) \in Seq(T) /\ Len(InTurn(T)) = Cardinality(T)
         /\ DOMAIN InTurn(T) = 1 .. Cardinality(T)
         /\ \A x \in T : \E k \in 1 .. Cardinality(T) : InTurn(T)[k] = x
         /\ \A k, l \in 1 .. Cardinality(T) : k < l => InTurn(T)[k] < InTurn(T)[l]
<1> DEFINE m == Cardinality(T)
           a == InTurn(T)
<1>1. m \in Nat
  BY FS_CardinalityType
<1>2. \A k \in 1 .. m : a[k] \in T /\ PlaceIn(T, a[k]) = k
  <2> TAKE k \in 1 .. m
  <2>1. \E i \in T : PlaceIn(T, i) = k
    BY PlacesAreOnto
  <2>2. a[k] = CHOOSE i \in T : PlaceIn(T, i) = k
    BY DEF InTurn, PlaceIn
  <2> QED
    BY <2>1, <2>2
<1>3. a = [k \in 1 .. m |-> a[k]]
  BY DEF InTurn
<1> HIDE DEF a
<1>4. a \in [1 .. m -> T]
  BY <1>2, <1>3
<1>5. a \in Seq(T) /\ Len(a) = m
  BY <1>1, <1>4, FunctionIsSeq
<1>6. \A x \in T : IsFiniteSet({j \in T : j <= x}) /\ PlaceIn(T, x) \in 1 .. m
  <2> TAKE x \in T
  <2>1. IsFiniteSet({j \in T : j <= x}) /\ Cardinality({j \in T : j <= x}) <= m
    BY FS_Subset
  <2>2. Cardinality({j \in T : j <= x}) \in Nat
    BY <2>1, FS_CardinalityType
  <2>3. x \in {j \in T : j <= x}
    OBVIOUS
  <2>4. Cardinality({j \in T : j <= x}) # 0
    BY <2>1, <2>3, FS_EmptySet
  <2> QED
    BY <1>1, <2>1, <2>2, <2>4 DEF PlaceIn
<1>7. \A x, y \in T : x < y => PlaceIn(T, x) < PlaceIn(T, y)
  <2> TAKE x, y \in T
  <2> HAVE x < y
  <2> DEFINE A == {j \in T : j <= x}
             B == {j \in T : j <= y}
  <2>1. IsFiniteSet(B) /\ IsFiniteSet(A)
    BY <1>6
  <2>2. A \subseteq B /\ A # B
    <3>1. \A j \in A : j <= y
      OBVIOUS
    <3>2. y \in B /\ y \notin A
      OBVIOUS
    <3> QED
      BY <3>1, <3>2
  <2> HIDE DEF A, B
  <2>3. Cardinality(A) < Cardinality(B)
    BY <2>1, <2>2, FS_Subset, FS_CardinalityType
  <2> QED
    BY <2>3 DEF PlaceIn, A, B
<1>8a. \A x, y \in T : /\ x < y => PlaceIn(T, x) < PlaceIn(T, y)
                       /\ PlaceIn(T, x) \in Int /\ PlaceIn(T, y) \in Int
  <2>1. \A x \in T : PlaceIn(T, x) \in Int
    <3>1. \A k \in 1 .. m : k \in Int
      BY <1>1
    <3> HIDE DEF m
    <3> QED
      BY <1>6, <3>1
  <2> QED
    BY <1>7, <2>1
<1>8. \A x \in T : \E k \in 1 .. m : a[k] = x
  <2> TAKE x \in T
  <2> DEFINE k == PlaceIn(T, x)
  <2>1. k \in 1 .. m /\ a[k] \in T /\ PlaceIn(T, a[k]) = PlaceIn(T, x)
    BY <1>2, <1>6
  <2> HIDE DEF k
  <2>2. x \in T /\ x \in Nat /\ a[k] \in Nat
    BY <2>1
  <2>3. ~ (a[k] < x) /\ ~ (x < a[k])
    BY ONLY <1>8a, <2>1, <2>2
  <2>4. a[k] = x
    BY <2>2, <2>3
  <2> QED
    BY <2>1, <2>4
<1>9. \A k, l \in 1 .. m : k < l => a[k] < a[l]
  <2> TAKE k, l \in 1 .. m
  <2> HAVE k < l
  <2>1. a[k] \in T /\ a[l] \in T /\ PlaceIn(T, a[k]) = k /\ PlaceIn(T, a[l]) = l
    BY <1>2
  <2>2. a[k] \in Nat /\ a[l] \in Nat
    BY <2>1
  <2>3. ~ (a[l] < a[k]) /\ a[l] # a[k]
    <3>1. k \in Nat /\ l \in Nat /\ k < l
      BY <1>1
    <3>2. a[l] < a[k] => PlaceIn(T, a[l]) < PlaceIn(T, a[k])
      BY <1>7, <2>1
    <3>3. a[l] = a[k] => PlaceIn(T, a[l]) = PlaceIn(T, a[k])
      OBVIOUS
    <3> HIDE DEF m
    <3> QED
      BY ONLY <2>1, <3>1, <3>2, <3>3
  <2> QED
    BY <2>2, <2>3
<1> QED
  BY <1>1, <1>4, <1>5, <1>8, <1>9 DEF a

\* The jobs are sorted by priority, the highest one first.
LEMMA ByPrioritySorts ==
  ASSUME NEW s \in Seq(CoreJob)
  PROVE  /\ Reorders(ByPriority(s), s)
         /\ \A k, l \in 1 .. Len(s) : k <= l => ByPriority(s)[k].prio >= ByPriority(s)[l].prio
<1> DEFINE key == [i \in DOMAIN s |-> - s[i].prio]
<1>1. \A i \in DOMAIN s : s[i].prio \in Int
  <2>1. \A i \in DOMAIN s : s[i] \in CoreJob
    BY SeqIsFunction
  <2> QED
    BY <2>1 DEF CoreJob
<1>2. \A i \in DOMAIN s : key[i] = - s[i].prio /\ key[i] \in Int
  BY <1>1
<1>3. ByPriority(s) = SortOn(s, key)
  BY DEF ByPriority
<1> HIDE DEF key
<1> QED
  BY <1>1, <1>2, <1>3, SortOnSorts

\* Served serves the jobs one after another.
LEMMA ServedIs ==
  ASSUME NEW w \in Seq(CoreJob), NEW t \in Nat, NEW u \in Nat, t <= u, NEW l \in BOOLEAN
  PROVE  /\ Served(w, t, u, l) \in CoreState
         /\ \E G : /\ G[0] = [room |-> u - t, time |-> t, wait |-> <<>>, late |-> l]
                   /\ \A k \in 1 .. Len(w) : G[k] = Serve(G[k - 1], w[k])
                   /\ Served(w, t, u, l) = [wait |-> G[Len(w)].wait, late |-> G[Len(w)].late]
<1> DEFINE n == Len(w)
           z == [room |-> u - t, time |-> t, wait |-> <<>>, late |-> l]
           step == [k \in 1 .. n |-> [a \in CoreAccount |-> Serve(a, w[k])]]
           F(g) == [k \in 0 .. n |-> IF k = 0 THEN z ELSE Serve(g[k - 1], w[k])]
           G == CHOOSE g : g = F(g)
<1>1. n \in Nat /\ \A k \in 1 .. n : w[k] \in CoreJob
  BY SeqIsFunction
<1>2. z \in CoreAccount
  <2>1. u - t \in Nat /\ <<>> \in Seq(CoreJob)
    OBVIOUS
  <2> QED
    BY <2>1 DEF CoreAccount
<1>3. \A k \in 1 .. n : \A a \in CoreAccount : Serve(a, w[k]) \in CoreAccount
  BY <1>1, ServeTyped
<1>4. step \in [1 .. n -> [CoreAccount -> CoreAccount]]
  BY <1>3
<1>5. \A k \in 1 .. n : \A a \in CoreAccount : step[k][a] = Serve(a, w[k])
  OBVIOUS
<1> HIDE DEF z, step, n
<1>6. PICK g : g \in Chains(n, CoreAccount, z, step)
  BY <1>1, <1>2, <1>4, ChainExists
<1>7. g \in [0 .. n -> CoreAccount] /\ g[0] = z /\ \A k \in 1 .. n : g[k] = step[k][g[k - 1]]
  BY <1>6 DEF Chains
<1>8. \A k \in 1 .. n : k - 1 \in 0 .. n /\ g[k] = Serve(g[k - 1], w[k])
  <2> TAKE k \in 1 .. n
  <2>1. k - 1 \in 0 .. n
    BY <1>1
  <2>2. g[k - 1] \in CoreAccount
    BY <1>7, <2>1
  <2> QED
    BY <1>5, <1>7, <2>1, <2>2
<1>9. \A k \in 0 .. n : k = 0 \/ k \in 1 .. n
  BY <1>1
<1>10. g = F(g)
  <2>1. \A k \in 0 .. n : g[k] = IF k = 0 THEN z ELSE Serve(g[k - 1], w[k])
    BY <1>7, <1>8, <1>9
  <2> QED
    BY <1>7, <2>1
<1>11. G = F(G)
  <2> HIDE DEF F
  <2> QED
    BY <1>10
<1>12. Served(w, t, u, l) = [wait |-> G[n].wait, late |-> G[n].late]
  BY DEF Served, n, z
<1> HIDE DEF G
<1>13. \A k \in 0 .. n : G[k] = IF k = 0 THEN z ELSE Serve(G[k - 1], w[k])
  BY <1>11
<1> HIDE DEF F
<1>14. G[0] = z /\ \A k \in 1 .. n : G[k] = Serve(G[k - 1], w[k])
  BY <1>1, <1>13
<1> DEFINE S == {k \in Nat : k <= n => G[k] \in CoreAccount}
<1>15. 0 \in S
  BY <1>2, <1>14
<1>16. \A k \in Nat : k \in S => k + 1 \in S
  <2> SUFFICES ASSUME NEW k \in Nat, k \in S, k + 1 <= n PROVE G[k + 1] \in CoreAccount
    OBVIOUS
  <2>1. k <= n /\ k + 1 \in 1 .. n /\ (k + 1) - 1 = k
    BY <1>1
  <2>2. G[k + 1] = Serve(G[k], w[k + 1]) /\ G[k] \in CoreAccount
    BY <1>14, <2>1
  <2> QED
    BY <1>3, <2>1, <2>2
<1> HIDE DEF S
<1>17. n \in S
  BY <1>1, <1>15, <1>16, SetInduction
<1>18. G[n] \in CoreAccount
  BY <1>1, <1>17 DEF S
<1>19. Served(w, t, u, l) \in CoreState
  <2>1. G[n].wait \in Seq(CoreJob) /\ G[n].late \in BOOLEAN
    BY <1>18 DEF CoreAccount
  <2> QED
    BY <1>12, <2>1 DEF CoreState
<1> QED
  BY <1>12, <1>14, <1>19 DEF z, n

\* From one release to the next one.
LEMMA ServedInTurn ==
  ASSUME NEW x \in CoreState, NEW rel \in Seq(CoreJob), NEW t \in Nat, NEW u \in Nat, t <= u, NEW y,
         y = Served(ByPriority(x.wait \o rel), t, u, x.late)
  PROVE  y \in CoreState /\ StepOf(x, y, rel, t, u)
<1> DEFINE v == x.wait \o rel
           w == ByPriority(v)
<1>1. v \in Seq(CoreJob) /\ x.late \in BOOLEAN
  BY ConcatProperties DEF CoreState
<1> HIDE DEF v
<1>2. Reorders(w, v) /\ \A k, l \in 1 .. Len(v) : k <= l => w[k].prio >= w[l].prio
  BY <1>1, ByPrioritySorts
<1>3. w \in Seq(CoreJob) /\ Len(w) = Len(v)
  BY <1>1, <1>2, ReorderedSeq
<1> HIDE DEF w
<1>4. PICK G : /\ G[0] = [room |-> u - t, time |-> t, wait |-> <<>>, late |-> x.late]
               /\ \A k \in 1 .. Len(w) : G[k] = Serve(G[k - 1], w[k])
               /\ Served(w, t, u, x.late) = [wait |-> G[Len(w)].wait, late |-> G[Len(w)].late]
  BY <1>1, <1>3, ServedIs
<1>5. y \in CoreState
  BY <1>1, <1>3, ServedIs DEF w, v
<1>6. y = Served(w, t, u, x.late)
  BY DEF w, v
<1>7. y.wait = G[Len(w)].wait /\ y.late = G[Len(w)].late
  BY <1>4, <1>6
<1>8. Serves(x, y, w, t, u)
  BY <1>2, <1>3, <1>4, <1>7 DEF Serves
<1> QED
  BY <1>2, <1>5, <1>8 DEF StepOf, v
\* The jobs that are released at t, in the order of the list, have the work that is released.
LEMMA ReleasedInTurn ==
  ASSUME NEW n, NEW P, NEW C, NEW Q, Periodic(n, P, C, Q), \A i \in 1 .. n : C[i] > 0,
         NEW t \in Nat, NEW D, \A i : i \in D <=> i \in 1 .. n /\ t % P[i] = 0, NEW due, due = InTurn(D), NEW rel,
         rel = [k \in DOMAIN due |-> [prio |-> Q[due[k]], left |-> C[due[k]], deadline |-> t + P[due[k]]]]
  PROVE  ReleaseOf(n, P, C, Q, rel, t)
<1>1. /\ n \in Nat /\ D \in SUBSET Nat /\ IsFiniteSet(1 .. n) /\ IsFiniteSet(D)
      /\ \A i \in 1 .. n : P[i] \in Nat \ {0} /\ C[i] \in Nat /\ Q[i] \in Int
  <2>1. n \in Nat
    BY DEF Periodic
  <2>2. IsFiniteSet(1 .. n)
    BY <2>1, FS_Interval
  <2> QED
    BY <2>1, <2>2, FS_Subset DEF Periodic
<1> DEFINE m == Cardinality(D)
<1>2. /\ m \in Nat /\ due \in [1 .. m -> D] /\ DOMAIN due = 1 .. m
      /\ (\A x \in D : \E k \in 1 .. m : due[k] = x)
      /\ \A k, l \in 1 .. m : k < l => due[k] < due[l]
  <2>1. due = InTurn(D)
    OBVIOUS
  <2> QED
    BY ONLY <1>1, <2>1, InTurnIs
<1> HIDE DEF m
<1>3. \A k \in 1 .. m : due[k] \in D /\ due[k] \in 1 .. n /\ t % P[due[k]] = 0
  BY <1>2
<1>4. \A k \in 1 .. m : /\ rel[k] = [prio |-> Q[due[k]], left |-> C[due[k]], deadline |-> t + P[due[k]]]
                        /\ rel[k] \in CoreJob
                        /\ rel[k].prio = Q[due[k]] /\ rel[k].left = C[due[k]]
                        /\ rel[k].deadline = t + P[due[k]]
  <2> TAKE k \in 1 .. m
  <2>1. rel[k] = [prio |-> Q[due[k]], left |-> C[due[k]], deadline |-> t + P[due[k]]]
    BY <1>2
  <2>2. Q[due[k]] \in Int /\ C[due[k]] \in Nat /\ t + P[due[k]] \in Int
    <3>1. P[due[k]] \in Nat /\ Q[due[k]] \in Int /\ C[due[k]] \in Nat
      BY <1>1, <1>3
    <3> QED
      BY <3>1
  <2> DEFINE a == Q[due[k]]
             b == C[due[k]]
             c == t + P[due[k]]
             r == rel[k]
  <2>3. r = [prio |-> a, left |-> b, deadline |-> c] /\ a \in Int /\ b \in Nat /\ c \in Int
    BY <2>1, <2>2
  <2> HIDE DEF a, b, c, r
  <2>4. r \in CoreJob /\ r.prio = a /\ r.left = b /\ r.deadline = c
    BY ONLY <2>3 DEF CoreJob
  <2> QED
    BY <2>1, <2>4 DEF a, b, c, r
<1>5. rel \in [1 .. m -> CoreJob]
  BY <1>2, <1>4
<1>6. rel \in Seq(CoreJob) /\ Len(rel) = m
  BY <1>2, <1>5, FunctionIsSeq
<1>7. ASSUME NEW q \in Int PROVE Backlog(rel, q) = ReleasedAt(n, P, C, Q, q, t)
  <2> DEFINE h == JobLeft(rel, q)
             f == Releasing(n, P, C, Q, q, t)
             M == 1 .. m
  <2>1. h \in [M -> Nat] /\ IsFiniteSet(M) /\ \A k \in M : h[k] = IF rel[k].prio >= q THEN rel[k].left ELSE 0
    BY <1>6, JobLeftTyped
  <2>2. Backlog(rel, q) = SumFunctionOnSet(h, M)
    BY <2>1 DEF Backlog, SumFunction
  <2>3. \A i \in 1 .. n : f[i] \in Nat /\ f[i] = IF Q[i] >= q /\ t % P[i] = 0 THEN C[i] ELSE 0
    <3>1. \A i \in 1 .. n : f[i] \in Nat
      BY RequestedNat
    <3>2. \A i \in 1 .. n : f[i] = IF Q[i] >= q /\ t % P[i] = 0 THEN C[i] ELSE 0
      BY DEF Releasing
    <3> QED
      BY <3>1, <3>2
  <2>4. \A k \in M : h[k] = f[due[k]] /\ f[due[k]] \in Int
    <3> TAKE k \in M
    <3>1. due[k] \in 1 .. n /\ t % P[due[k]] = 0
      BY <1>3
    <3>2. f[due[k]] = (IF Q[due[k]] >= q THEN C[due[k]] ELSE 0) /\ f[due[k]] \in Int
      <4> HIDE DEF f
      <4> QED
        BY <2>3, <3>1
    <3>3. h[k] = IF Q[due[k]] >= q THEN C[due[k]] ELSE 0
      <4> HIDE DEF h
      <4> QED
        BY <1>4, <2>1
    <3> QED
      BY <3>2, <3>3
  <2>5. \A k, l \in M : due[k] = due[l] => k = l
    <3> TAKE k, l \in M
    <3>1. due[k] \in Nat /\ due[l] \in Nat /\ k \in Int /\ l \in Int
      BY <1>1, <1>2, <1>3
    <3>2. (k < l => due[k] < due[l]) /\ (l < k => due[l] < due[k])
      BY ONLY <1>2
    <3> QED
      BY ONLY <3>1, <3>2
  <2>6. {due[k] : k \in M} = D
    <3>1. \A k \in M : due[k] \in D
      BY ONLY <1>3
    <3>2. \A i \in D : \E k \in M : due[k] = i
      BY ONLY <1>2
    <3> QED
      BY ONLY <3>1, <3>2
  <2>7. \A i \in D : f[i] \in Int
    BY <2>3
  <2>8. \A i \in (1 .. n) \ D : f[i] = 0
    BY <2>3
  <2> HIDE DEF h, f, M
  <2>9. SumFunctionOnSet(f, {due[k] : k \in M}) = SumFunctionOnSet(h, M)
    BY ONLY <2>1, <2>4, <2>5, SumImage
  <2>10. D \in SUBSET (1 .. n)
    OBVIOUS
  <2>11. SumFunctionOnSet(f, 1 .. n) = SumFunctionOnSet(f, D)
    <3> DEFINE A == 1 .. n
    <3>1. IsFiniteSet(A) /\ D \in SUBSET A /\ \A i \in A \ D : f[i] = 0
      BY <1>1, <2>8, <2>10
    <3> HIDE DEF A
    <3>2. SumFunctionOnSet(f, A) = SumFunctionOnSet(f, D)
      BY ONLY <2>7, <3>1, SumRestrict
    <3> QED
      BY <3>2 DEF A
  <2> QED
    BY <2>2, <2>6, <2>9, <2>11 DEF ReleasedAt, f
<1>8. \A k \in 1 .. Len(rel) :
        /\ rel[k].left > 0
        /\ \E i \in 1 .. n : rel[k].prio = Q[i] /\ t % P[i] = 0 /\ rel[k].deadline = t + P[i]
  <2> TAKE k \in 1 .. Len(rel)
  <2>1. k \in 1 .. m
    BY <1>6
  <2> QED
    BY <1>3, <1>4, <2>1
<1> QED
  BY <1>6, <1>7, <1>8 DEF ReleaseOf

\* The times of releases up to H, in turn, and H.
LEMMA TimesInTurn ==
  ASSUME NEW n, NEW P, NEW C, NEW Q, Periodic(n, P, C, Q), n > 0, NEW H \in Nat \ {0},
         NEW T, \A t : t \in T <=> t \in 0 .. H - 1 /\ \E i \in 1 .. n : t % P[i] = 0,
         NEW at, at = Append(InTurn(T), H)
  PROVE  CoreTimes(n, P, H, Len(at) - 1, at) /\ Len(at) - 1 \in Nat
         /\ \A k \in 1 .. Len(at) - 1 : at[k] \in T
<1> DEFINE N == Cardinality(T)
           a == InTurn(T)
<1>1. n \in Nat /\ \A i \in 1 .. n : P[i] \in Nat \ {0}
  BY DEF Periodic
<1>2. T \in SUBSET Nat /\ IsFiniteSet(T)
  <2>1. IsFiniteSet(0 .. H - 1)
    BY FS_Interval
  <2> QED
    BY <2>1, FS_Subset
<1>3. /\ N \in Nat /\ a \in [1 .. N -> T] /\ a \in Seq(T) /\ Len(a) = N
      /\ (\A x \in T : \E k \in 1 .. N : a[k] = x)
      /\ \A k, l \in 1 .. N : k < l => a[k] < a[l]
  BY <1>2, InTurnIs
<1> HIDE DEF N, a
<1>4. a \in Seq(Nat)
  BY <1>2, <1>3
<1>5. /\ at \in Seq(Nat) /\ Len(at) = N + 1 /\ (\A k \in 1 .. N : at[k] = a[k]) /\ at[N + 1] = H
  <2>1. H \in Nat /\ at = Append(a, H)
    BY DEF a
  <2> QED
    BY ONLY <1>3, <1>4, <2>1, AppendSeq
<1>6. at \in [1 .. N + 1 -> Nat]
  BY <1>5, SeqIsFunction
<1>7. 0 \in T
  <2>1. 1 \in 1 .. n /\ P[1] \in Nat \ {0}
    BY <1>1
  <2>2. 0 % P[1] = 0 /\ 0 \in 0 .. H - 1
    BY <2>1
  <2> QED
    BY <2>1, <2>2
<1>8. \A k \in 1 .. N : at[k] \in T /\ at[k] \in Nat /\ at[k] < H
  <2>1. \A x \in T : x \in Nat /\ x < H
    OBVIOUS
  <2> QED
    BY ONLY <1>3, <1>5, <2>1
<1>9. at[1] = 0
  <2>1. PICK k \in 1 .. N : a[k] = 0
    BY <1>3, <1>7
  <2>2. 1 \in 1 .. N /\ a[1] \in Nat
    BY <1>2, <1>3, <2>1
  <2>3. ~ (1 < k)
    BY <1>3, <2>1, <2>2
  <2>4. k = 1
    BY <1>3, <2>3
  <2> QED
    BY <1>5, <2>1, <2>2, <2>4
<1>10. ASSUME NEW k \in 1 .. N
       PROVE  /\ at[k] < at[k + 1]
              /\ \A i \in 1 .. n : \A x \in Nat : at[k] < x /\ x < at[k + 1] => x % P[i] # 0
  <2>0. k \in Nat /\ N \in Nat /\ k <= N /\ k >= 1
    BY <1>3
  <2>1. (k + 1 \in 1 .. N /\ at[k + 1] = a[k + 1]) \/ (k = N /\ at[k + 1] = H)
    <3>1. k + 1 \in 1 .. N \/ k = N
      BY ONLY <2>0
    <3> QED
      BY ONLY <1>5, <3>1
  <2>2. at[k] < at[k + 1] /\ at[k + 1] <= H /\ at[k + 1] \in Nat
    <3>1. CASE k + 1 \in 1 .. N
      <4>1. at[k] = a[k] /\ at[k + 1] = a[k + 1] /\ a[k] < a[k + 1]
        <5>1. k < k + 1
          BY <2>0
        <5> QED
          BY ONLY <1>3, <1>5, <3>1, <5>1, k \in 1 .. N
      <4> QED
        BY ONLY <1>8, <3>1, <4>1, k \in 1 .. N, H \in Nat \ {0}
    <3>2. CASE k = N /\ at[k + 1] = H
      BY <1>8, <3>2
    <3> QED
      BY <2>1, <3>1, <3>2
  <2>3. ASSUME NEW i \in 1 .. n, NEW x \in Nat, at[k] < x, x < at[k + 1], x % P[i] = 0 PROVE FALSE
    <3>1. x \in T
      <4>1. x < H
        <5>1. x \in Nat /\ x < at[k + 1]
          BY <2>3
        <5> QED
          BY ONLY <2>2, <5>1, H \in Nat \ {0}
      <4>2. x \in 0 .. H - 1
        BY <4>1
      <4> QED
        BY <2>3, <4>2
    <3>2. PICK j \in 1 .. N : a[j] = x
      BY <1>3, <3>1
    <3>3. ~ (j < k) /\ j # k
      <4>1. a[k] = at[k] /\ at[k] \in Nat
        BY <1>5, <1>8
      <4>2. j < k => a[j] < a[k]
        BY ONLY <1>3, k \in 1 .. N, j \in 1 .. N
      <4>3. at[k] < x /\ x \in Nat
        BY <2>3
      <4> QED
        BY ONLY <3>2, <4>1, <4>2, <4>3
    <3>4. k + 1 \in 1 .. N
      BY ONLY <2>0, <3>3, j \in 1 .. N, k \in 1 .. N
    <3>5. at[k + 1] = a[k + 1] /\ a[k + 1] \in Nat
      BY <1>2, <1>3, <1>5, <3>4
    <3>6. ~ (k + 1 < j) /\ j # k + 1
      <4>1. k + 1 < j => a[k + 1] < a[j]
        BY ONLY <1>3, <3>4, j \in 1 .. N
      <4>2. x < at[k + 1] /\ x \in Nat
        BY <2>3
      <4> QED
        BY ONLY <3>2, <3>5, <4>1, <4>2
    <3> QED
      BY <1>3, <3>2, <3>3, <3>6
  <2> QED
    BY <2>2, <2>3
<1>11. Len(at) - 1 = N
  BY <1>3, <1>5
<1>12. CoreTimes(n, P, H, N, at)
  BY <1>3, <1>5, <1>6, <1>9, <1>10 DEF CoreTimes
<1> QED
  BY <1>3, <1>8, <1>11, <1>12

\* A sum over names, as one over all that have a name, if the others count nothing.
LEMMA SumByName ==
  ASSUME NEW D, IsFiniteSet(D), NEW E \in SUBSET D, NEW f, NEW g, NEW h,
         \A x, y \in D : g[x] = g[y] => x = y,
         \A x \in E : f[g[x]] \in Int /\ h[x] = f[g[x]], \A x \in D \ E : h[x] = 0
  PROVE  SumFunctionOnSet(f, {g[x] : x \in E}) = SumFunctionOnSet(h, D)
<1>1. IsFiniteSet(E) /\ \A x, y \in E : g[x] = g[y] => x = y
  BY FS_Subset
<1>2. SumFunctionOnSet(f, {g[x] : x \in E}) = SumFunctionOnSet(h, E)
  BY <1>1, SumImage
<1>3. \A x \in E : h[x] \in Int
  OBVIOUS
<1>4. SumFunctionOnSet(h, D) = SumFunctionOnSet(h, E)
  BY <1>3, SumRestrict
<1> QED
  BY <1>2, <1>4

\* The work that is requested, summed up over the names of those that request it.
LEMMA RequestedByName ==
  ASSUME NEW n, NEW P, NEW C, NEW Q, Periodic(n, P, C, Q), NEW q \in Int, NEW x \in Nat,
         NEW g, \A i, k \in 1 .. n : g[i] = g[k] => i = k,
         NEW f, \A i \in 1 .. n : Q[i] >= q => f[g[i]] = CeilDiv(x, P[i]) * C[i]
  PROVE  SumFunctionOnSet(f, {g[i] : i \in {k \in 1 .. n : Q[k] >= q}}) = Requested(n, P, C, Q, q, x)
<1> DEFINE E == {k \in 1 .. n : Q[k] >= q}
           h == Requesting(n, P, C, Q, q, x)
<1>1. IsFiniteSet(1 .. n) /\ \A i \in 1 .. n : h[i] \in Nat
  BY RequestedNat
<1>2. IsFiniteSet(E) /\ E \in SUBSET (1 .. n)
  BY <1>1, FS_Subset
<1>3. \A i \in 1 .. n : h[i] = IF Q[i] >= q THEN C[i] * CeilDiv(x, P[i]) ELSE 0
  BY DEF Requesting
<1>4. \A i \in E : f[g[i]] \in Int /\ h[i] = f[g[i]] /\ h[i] \in Int
  <2> TAKE i \in E
  <2>1. P[i] \in Nat \ {0} /\ C[i] \in Nat
    BY DEF Periodic
  <2>2. CeilDiv(x, P[i]) \in Nat
    BY <2>1, CeilRange
  <2> DEFINE c == CeilDiv(x, P[i])
  <2>3. h[i] = C[i] * c /\ f[g[i]] = c * C[i] /\ c \in Nat
    BY <1>3, <2>2
  <2> HIDE DEF c, h
  <2>4. C[i] * c = c * C[i] /\ c * C[i] \in Int
    BY <2>1, <2>3
  <2> QED
    BY <2>3, <2>4
<1>5. \A i \in (1 .. n) \ E : h[i] = 0
  BY <1>3
<1>6a. \A i \in E : f[g[i]] \in Int /\ h[i] = f[g[i]]
  BY <1>4
<1>6b. \A i, k \in 1 .. n : g[i] = g[k] => i = k
  OBVIOUS
<1> DEFINE D == 1 .. n
<1>6c. IsFiniteSet(D) /\ E \in SUBSET D
  BY <1>1, <1>2
<1> HIDE DEF E, h
<1>6. SumFunctionOnSet(f, {g[i] : i \in E}) = SumFunctionOnSet(h, 1 .. n)
  <2>1. \A x1, y1 \in D : g[x1] = g[y1] => x1 = y1
    BY <1>6b
  <2>2. \A i \in D \ E : h[i] = 0
    BY <1>5
  <2> HIDE DEF D
  <2>3. SumFunctionOnSet(f, {g[i] : i \in E}) = SumFunctionOnSet(h, D)
    BY ONLY <1>6c, <1>6a, <2>1, <2>2, SumByName
  <2> QED
    BY <2>3 DEF D
<1> QED
  BY <1>6 DEF Requested, E, h

\* From each release to the next one the core is served as the code does it.
ServedBetween(N, at, rel, g) ==
  [k \in 0 .. N |->
     IF k = 0 THEN [wait |-> <<>>, late |-> FALSE]
     ELSE Served(ByPriority(g[k - 1].wait \o rel[k]), at[k], at[k + 1], g[k - 1].late)]

LEMMA ServiceExists ==
  ASSUME NEW N \in Nat, NEW at, \A k \in 1 .. N : at[k] \in Nat /\ at[k + 1] \in Nat /\ at[k] <= at[k + 1],
         NEW rel, \A k \in 1 .. N : rel[k] \in Seq(CoreJob)
  PROVE  \E g : g = ServedBetween(N, at, rel, g)
<1> DEFINE z == [wait |-> <<>>, late |-> FALSE]
           V(k, x) == Served(ByPriority(x.wait \o rel[k]), at[k], at[k + 1], x.late)
           step == [k \in 1 .. N |-> [x \in CoreState |-> V(k, x)]]
<1>1. z \in CoreState
  <2>1. <<>> \in Seq(CoreJob)
    OBVIOUS
  <2> QED
    BY <2>1 DEF CoreState
<1>2. \A k \in 1 .. N : \A x \in CoreState : V(k, x) \in CoreState
  <2> TAKE k \in 1 .. N
  <2> TAKE x \in CoreState
  <2>1. rel[k] \in Seq(CoreJob) /\ at[k] \in Nat /\ at[k + 1] \in Nat /\ at[k] <= at[k + 1]
    OBVIOUS
  <2> QED
    BY ONLY <2>1, x \in CoreState, ServedInTurn
<1>3. \A k \in 1 .. N : \A x \in CoreState : step[k][x] = V(k, x)
  OBVIOUS
<1>4. step \in [1 .. N -> [CoreState -> CoreState]]
  <2> HIDE DEF V
  <2> QED
    BY <1>2
<1> HIDE DEF step, z
<1>5. PICK g : g \in Chains(N, CoreState, z, step)
  BY <1>1, <1>4, ChainExists
<1>6. g \in [0 .. N -> CoreState] /\ g[0] = z /\ \A k \in 1 .. N : g[k] = step[k][g[k - 1]]
  BY <1>5 DEF Chains
<1> HIDE DEF V
<1>7. \A k \in 1 .. N : g[k] = V(k, g[k - 1])
  <2> TAKE k \in 1 .. N
  <2>1. k - 1 \in 0 .. N
    OBVIOUS
  <2>2. g[k - 1] \in CoreState
    BY <1>6, <2>1
  <2> QED
    BY <1>3, <1>6, <2>2
<1>8. \A k \in 0 .. N : k = 0 \/ k \in 1 .. N
  OBVIOUS
<1>9. \A k \in 0 .. N : g[k] = IF k = 0 THEN z ELSE V(k, g[k - 1])
  BY <1>6, <1>7, <1>8
<1>10. g = [k \in 0 .. N |-> IF k = 0 THEN z ELSE V(k, g[k - 1])]
  BY <1>6, <1>9
<1>11. g = ServedBetween(N, at, rel, g)
  BY <1>10 DEF ServedBetween, z, V
<1> QED
  BY <1>11

(***************************************************************************)
(* What the code finds out on one core of tasks of harmonic periods, that  *)
(* have priorities in the order of their periods: a job is late or left at *)
(* the end if and only if some task has not time for itself and the tasks  *)
(* of no lower priority.                                                   *)
(***************************************************************************)
LEMMA CoreVerdict ==
  ASSUME NEW n, NEW P, NEW C, NEW Q, Periodic(n, P, C, Q), n > 0,
         \A i, j \in 1 .. n : Q[i] >= Q[j] => P[j] % P[i] = 0,
         NEW H \in Nat \ {0}, \A i \in 1 .. n : H % P[i] = 0,
         NEW N, NEW at, CoreTimes(n, P, H, N, at),
         NEW rel, \A k \in 1 .. N : ReleaseOf(n, P, C, Q, rel[k], at[k])
  PROVE  /\ \E g : g = ServedBetween(N, at, rel, g)
         /\ \A Z : Z = ServedBetween(N, at, rel, Z) =>
              (Z[N].late \/ Z[N].wait # <<>> <=> \E j \in 1 .. n : Requested(n, P, C, Q, Q[j], P[j]) > P[j])
<1>1. CoreTimes(n, P, H, N, at) /\ N \in Nat
  BY DEF CoreTimes
<1>2. \A k \in 1 .. N : at[k] \in Nat /\ at[k + 1] \in Nat /\ at[k] <= at[k + 1]
  <2> TAKE k \in 1 .. N
  <2>1. k \in 1 .. N + 1 /\ k + 1 \in 1 .. N + 1
    BY <1>1
  <2>2. at[k] \in Nat /\ at[k + 1] \in Nat /\ at[k] < at[k + 1]
    BY <1>1, <2>1 DEF CoreTimes
  <2> QED
    BY <2>2
<1>3. \A k \in 1 .. N : ReleaseOf(n, P, C, Q, rel[k], at[k])
  OBVIOUS
<1>4. \A k \in 1 .. N : rel[k] \in Seq(CoreJob)
  BY <1>3 DEF ReleaseOf
<1>5. \E g : g = ServedBetween(N, at, rel, g)
  BY ONLY <1>1, <1>2, <1>4, ServiceExists
<1> SUFFICES ASSUME NEW Z, Z = ServedBetween(N, at, rel, Z)
             PROVE  Z[N].late \/ Z[N].wait # <<>> <=> \E j \in 1 .. n : Requested(n, P, C, Q, Q[j], P[j]) > P[j]
  BY <1>5
<1>6. Z = ServedBetween(N, at, rel, Z)
  OBVIOUS
<1>6a. \A k \in 0 .. N :
         Z[k] = IF k = 0 THEN [wait |-> <<>>, late |-> FALSE]
                ELSE Served(ByPriority(Z[k - 1].wait \o rel[k]), at[k], at[k + 1], Z[k - 1].late)
  <2> DEFINE Y == ServedBetween(N, at, rel, Z)
  <2>1. \A k \in 0 .. N :
         Y[k] = IF k = 0 THEN [wait |-> <<>>, late |-> FALSE]
                ELSE Served(ByPriority(Z[k - 1].wait \o rel[k]), at[k], at[k + 1], Z[k - 1].late)
    BY ONLY DEF ServedBetween
  <2>2. Z = Y
    BY ONLY <1>6
  <2> HIDE DEF Y
  <2> QED
    BY ONLY <2>1, <2>2
<1>7. Z[0] = [wait |-> <<>>, late |-> FALSE]
  <2>1. 0 \in 0 .. N
    BY <1>1
  <2> QED
    BY ONLY <1>6a, <2>1
<1>8. \A k \in 1 .. N : Z[k] = Served(ByPriority(Z[k - 1].wait \o rel[k]), at[k], at[k + 1], Z[k - 1].late)
  <2> TAKE k \in 1 .. N
  <2>1. k \in 0 .. N /\ k # 0
    BY <1>1
  <2> QED
    BY ONLY <1>6a, <2>1
<1> DEFINE S == {k \in Nat : k <= N => Z[k] \in CoreState}
<1>9. 0 \in S
  <2>1. <<>> \in Seq(CoreJob)
    OBVIOUS
  <2>2. Z[0] \in CoreState
    BY ONLY <1>7, <2>1 DEF CoreState
  <2> QED
    BY <2>2
<1>10. ASSUME NEW k \in 1 .. N, Z[k - 1] \in CoreState
       PROVE  Z[k] \in CoreState /\ StepOf(Z[k - 1], Z[k], rel[k], at[k], at[k + 1])
  <2>1. /\ rel[k] \in Seq(CoreJob) /\ at[k] \in Nat /\ at[k + 1] \in Nat /\ at[k] <= at[k + 1]
        /\ Z[k] = Served(ByPriority(Z[k - 1].wait \o rel[k]), at[k], at[k + 1], Z[k - 1].late)
    BY <1>2, <1>4, <1>8
  <2> QED
    BY ONLY <1>10, <2>1, ServedInTurn
<1>11. \A k \in Nat : k \in S => k + 1 \in S
  <2> TAKE k \in Nat
  <2> HAVE k \in S
  <2> SUFFICES ASSUME k + 1 <= N PROVE Z[k + 1] \in CoreState
    OBVIOUS
  <2>1. k + 1 \in 1 .. N /\ (k + 1) - 1 = k /\ k <= N
    BY <1>1
  <2>2. Z[(k + 1) - 1] \in CoreState
    BY <2>1
  <2> QED
    BY <1>10, <2>1, <2>2
<1> HIDE DEF S
<1>12. Nat \subseteq S
  BY <1>9, <1>11, SetInduction
<1>13. \A k \in 1 .. N : /\ Z[k] \in CoreState
                         /\ StepOf(Z[k - 1], Z[k], rel[k], at[k], at[k + 1])
  <2> TAKE k \in 1 .. N
  <2>1. k - 1 \in Nat /\ k - 1 <= N
    BY <1>1
  <2>2. Z[k - 1] \in CoreState
    BY <1>12, <2>1 DEF S
  <2> QED
    BY <1>10, <2>2
<1>14. CoreRun(n, P, C, Q, H, N, at, Z)
  <2>1. \A k \in 1 .. N : Z[k] = [wait |-> Z[k].wait, late |-> Z[k].late]
    BY <1>13 DEF CoreState
  <2> QED
    BY <1>1, <1>3, <1>7, <1>13, <2>1 DEF CoreRun
<1>15. ASSUME NEW j \in 1 .. n PROVE Requested(n, P, C, Q, Q[j], P[j]) \in Nat /\ P[j] \in Nat
  <2>1. P[j] \in Nat /\ Q[j] \in Int
    BY DEF Periodic
  <2> QED
    BY <2>1, RequestedNat
<1>16. Z[N].wait = <<>> => \A j \in 1 .. n : Requested(n, P, C, Q, Q[j], P[j]) <= P[j]
  BY <1>14, EmptyIsEnough
<1>17. (\A j \in 1 .. n : Requested(n, P, C, Q, Q[j], P[j]) <= P[j]) => Z[N].wait = <<>> /\ ~ Z[N].late
  BY <1>14, EnoughIsInTime
<1> HIDE DEF S
<1>18. CASE \A j \in 1 .. n : Requested(n, P, C, Q, Q[j], P[j]) <= P[j]
  BY <1>15, <1>17, <1>18
<1>19. CASE ~ \A j \in 1 .. n : Requested(n, P, C, Q, Q[j], P[j]) <= P[j]
  <2>1. PICK j \in 1 .. n : ~ (Requested(n, P, C, Q, Q[j], P[j]) <= P[j])
    BY <1>19
  <2>2. Requested(n, P, C, Q, Q[j], P[j]) > P[j]
    BY <1>15, <2>1
  <2> QED
    BY <1>16, <1>19, <2>2
<1> QED
  BY <1>18, <1>19

\* What is requested fits some length up to the longest period if and only if it fits that.
LEMMA RequestedFits ==
  ASSUME NEW n, NEW P, NEW C, NEW Q, Periodic(n, P, C, Q), NEW q \in Int,
         NEW S \in Nat \ {0}, \A i \in 1 .. n : Q[i] >= q => S % P[i] = 0
  PROVE  /\ Requested(n, P, C, Q, q, S) \in Nat
         /\ (\E len \in 1 .. S : Requested(n, P, C, Q, q, len) <= len) <=> Requested(n, P, C, Q, q, S) <= S
<1> DEFINE R(x) == Requested(n, P, C, Q, q, x)
<1>1. \A x \in Nat : R(x) \in Nat
  BY RequestedNat
<1>2. \A x \in Nat : x * R(S) <= S * R(x)
  BY RequestedRate
<1>3. ASSUME NEW len \in 1 .. S, R(len) <= len PROVE R(S) <= S
  <2>1. len \in Nat \ {0} /\ S \in Nat /\ R(S) \in Nat /\ R(len) \in Nat
    BY <1>1
  <2>2. len * R(S) <= S * R(len)
    BY <1>2, <2>1
  <2> DEFINE a == R(S)
             b == R(len)
  <2> HIDE DEF a, b
  <2>3. S * b <= S * len /\ S * b \in Int /\ S * len \in Int
    BY <1>3, <2>1, TimesGrows DEF a, b
  <2>4. S * len = len * S /\ len * a \in Int
    BY <2>1 DEF a
  <2>5. len * a <= len * S
    BY <2>2, <2>3, <2>4 DEF a, b
  <2>6. a <= S
    BY <2>1, <2>5, TimesCancels DEF a
  <2> QED
    BY <2>6 DEF a
<1>4. S \in 1 .. S
  OBVIOUS
<1> QED
  BY <1>1, <1>3, <1>4

\* Jobs that n cores run in turn: they take at most a period that has room for the jobs beside the
\* longest of each turn.
LEMMA TurnsFit ==
  ASSUME NEW S, IsFiniteSet(S), NEW count, NEW len, \A i \in S : count[i] \in Nat /\ len[i] \in Nat,
         NEW n \in Nat \ {0}, NEW period \in Nat,
         NEW w, w = [i \in S |-> count[i] * len[i]], NEW l, l = [i \in S |-> len[i]],
         SumFunctionOnSet(w, S) - SumFunctionOnSet(l, S) <= n * (period - SumFunctionOnSet(l, S))
  PROVE  SumFunctionOnSet([i \in S |-> CeilDiv(count[i], n) * len[i]], S) <= period
<1> DEFINE f == [i \in S |-> CeilDiv(count[i], n) * len[i]]
           F == [i \in S |-> n * f[i]]
           G == [i \in S |-> (n - 1) * l[i]]
           H == [i \in S |-> w[i] + G[i]]
<1>1. \A i \in S : /\ f[i] \in Nat /\ w[i] \in Nat /\ l[i] \in Nat /\ F[i] \in Nat /\ G[i] \in Nat /\ H[i] \in Nat
                   /\ F[i] = n * f[i] /\ G[i] = (n - 1) * l[i] /\ H[i] = w[i] + G[i] /\ F[i] <= H[i]
  <2> TAKE i \in S
  <2> DEFINE c == count[i]
             a == len[i]
             k == CeilDiv(c, n)
  <2>1. c \in Nat /\ a \in Nat
    OBVIOUS
  <2>2. f[i] = k * a /\ w[i] = c * a /\ l[i] = a /\ F[i] = n * f[i] /\ G[i] = (n - 1) * l[i] /\ H[i] = w[i] + G[i]
    OBVIOUS
  <2> HIDE DEF c, a, f, F, G, H
  <2>3. k \in Nat /\ n * k < c + n /\ n * k \in Nat
    BY <2>1, CeilRange
  <2> HIDE DEF k
  <2>4. a * (n * k) <= a * (c + n - 1)
    <3>1. n * k <= c + n - 1
      BY <2>1, <2>3
    <3>2. c + n - 1 \in Int /\ n * k \in Int
      BY <2>1, <2>3
    <3> QED
      BY ONLY <2>1, <3>1, <3>2, TimesGrows
  <2>5. a * (n * k) = n * (k * a) /\ a * (c + n - 1) = c * a + (n - 1) * a
    BY <2>1, <2>3
  <2>6. k * a \in Nat /\ c * a \in Nat /\ (n - 1) * a \in Nat /\ n * (k * a) \in Nat
    BY <2>1, <2>3
  <2>7. F[i] <= H[i]
    BY <2>2, <2>4, <2>5
  <2> QED
    BY <2>1, <2>2, <2>6, <2>7
<1> HIDE DEF f, F, G, H
<1> DEFINE sf == SumFunctionOnSet(f, S)
           sw == SumFunctionOnSet(w, S)
           sl == SumFunctionOnSet(l, S)
           sF == SumFunctionOnSet(F, S)
           sG == SumFunctionOnSet(G, S)
           sH == SumFunctionOnSet(H, S)
<1>2. sf \in Nat /\ sw \in Nat /\ sl \in Nat /\ sF \in Nat /\ sG \in Nat /\ sH \in Nat
  <2>1. \A g : (\A i \in S : g[i] \in Nat) => SumFunctionOnSet(g, S) \in Nat
    BY SumNat
  <2> QED
    BY <1>1, <2>1
<1>3. sF <= sH
  <2>1. \A i \in S : F[i] \in Int /\ H[i] \in Int /\ F[i] <= H[i]
    BY <1>1
  <2> QED
    BY <2>1, SumMonotone
<1>4. sH = sw + sG
  <2>1. \A i \in S : w[i] \in Int /\ G[i] \in Int /\ H[i] = w[i] + G[i]
    BY <1>1
  <2>2. IsFiniteSet(S)
    OBVIOUS
  <2> QED
    BY ONLY <2>1, <2>2, SumPlus
<1>5. sF = n * sf
  <2>1. \A i \in S : F[i] \in Int /\ f[i] \in Int /\ 1 * F[i] = n * f[i]
    BY <1>1
  <2>2. 1 * sF = n * sf
    BY <2>1, SumScaled
  <2> QED
    BY <1>2, <2>2
<1>6. sG = (n - 1) * sl
  <2>1. \A i \in S : G[i] \in Int /\ l[i] \in Int /\ 1 * G[i] = (n - 1) * l[i]
    BY <1>1
  <2>2. 1 * sG = (n - 1) * sl
    BY <2>1, SumScaled
  <2> QED
    BY <1>2, <2>2
<1>7. sw - sl <= n * (period - sl)
  OBVIOUS
<1> HIDE DEF sf, sw, sl, sF, sG, sH
<1>8. n * (period - sl) = n * period - n * sl /\ (n - 1) * sl = n * sl - sl
  BY <1>2
<1>9. n * sf <= n * period
  <2> DEFINE a == n * sf
             b == n * period
             c == n * sl
  <2>1. a \in Int /\ b \in Int /\ c \in Int
    BY <1>2
  <2>2. a <= sw + (c - sl) /\ sw - sl <= b - c
    BY <1>3, <1>4, <1>5, <1>6, <1>7, <1>8
  <2> HIDE DEF a, b, c
  <2>3. a <= b
    BY ONLY <1>2, <2>1, <2>2
  <2> QED
    BY <2>3 DEF a, b
<1>10. sf <= period
  <2>1. n \in Nat \ {0} /\ sf \in Int /\ period \in Int
    BY <1>2
  <2> QED
    BY ONLY <1>9, <2>1, TimesCancels
<1> QED
  BY <1>10 DEF sf, f

\* The values of p at the numbers of a set, in turn.
LEMMA ListInTurn ==
  ASSUME NEW D \in SUBSET Nat, IsFiniteSet(D), NEW p, NEW at, at = InTurn(D),
         NEW on, on = [k \in DOMAIN at |-> p[at[k]]]
  PROVE  /\ Len(on) \in Nat /\ DOMAIN on = 1 .. Len(on) /\ Len(on) = Cardinality(D)
         /\ \A k \in 1 .. Len(on) : at[k] \in D /\ on[k] = p[at[k]]
         /\ \A k, l \in 1 .. Len(on) : at[k] = at[l] => k = l
         /\ Len(on) = 0 <=> D = {}
<1> DEFINE m == Cardinality(D)
<1>1. /\ m \in Nat /\ at \in [1 .. m -> D] /\ DOMAIN at = 1 .. m
      /\ \A x \in D : \E k \in 1 .. m : at[k] = x
      /\ \A k, l \in 1 .. m : k < l => at[k] < at[l]
  BY InTurnIs
<1>2. on = [k \in 1 .. m |-> p[at[k]]]
  BY <1>1
<1>3. m = 0 <=> D = {}
  BY FS_EmptySet
<1> HIDE DEF m
<1>4. Len(on) = m /\ DOMAIN on = 1 .. m
  <2>1. on \in [1 .. m -> {p[at[k]] : k \in 1 .. m}]
    BY <1>2
  <2>2. on \in Seq({p[at[k]] : k \in 1 .. m})
    BY ONLY <1>1, <2>1, FunctionIsSeq
  <2> QED
    BY ONLY <1>1, <2>1, <2>2, LenProperties
<1>5. \A k \in 1 .. m : at[k] \in D /\ on[k] = p[at[k]] /\ at[k] \in Nat
  BY <1>1, <1>2
<1>6. \A k, l \in 1 .. m : at[k] = at[l] => k = l
  <2> TAKE k, l \in 1 .. m
  <2> HAVE at[k] = at[l]
  <2>1. k \in Nat /\ l \in Nat
    BY <1>1
  <2>2. (k < l => at[k] < at[l]) /\ (l < k => at[l] < at[k]) /\ at[k] \in Nat /\ at[l] \in Nat
    BY <1>1, <1>5
  <2> QED
    BY ONLY at[k] = at[l], <2>1, <2>2
<1>7. \A i \in D : \E k \in 1 .. m : on[k] = p[i]
  BY <1>1, <1>5
<1> QED
  BY <1>1, <1>3, <1>4, <1>5, <1>6 DEF m

-------------------------------------------------------------------------------
(* Ranges of numbers, and elements in the order of their keys. *)

\* The numbers from first on, below limit, each once.
LEMMA RangeSeq ==
  ASSUME NEW first \in Nat, NEW limit \in Nat, first <= limit, NEW S, first .. limit - 1 \subseteq S
  PROVE  /\ From(first, limit) \in Seq(S) /\ Len(From(first, limit)) = limit - first
         /\ Distinct(From(first, limit))
         /\ \A c : c \in ToSet(From(first, limit)) <=> c \in Nat /\ first <= c /\ c < limit
<1> DEFINE n == limit - first
           s == From(first, limit)
<1>1. n \in Nat /\ s = [i \in 1 .. n |-> first + i - 1]
  BY DEF From
<1>2. s \in [1 .. n -> S]
  <2>1. \A i \in 1 .. n : first + i - 1 \in first .. limit - 1
    BY <1>1
  <2> HIDE DEF s
  <2> QED
    BY <1>1, <2>1
<1>3. s \in Seq(S) /\ Len(s) = n
  <2> HIDE DEF s, n
  <2> QED
    BY <1>1, <1>2, FunctionIsSeq
<1>4. DOMAIN s = 1 .. n /\ \A i \in 1 .. n : s[i] = first + i - 1
  <2> HIDE DEF s
  <2> QED
    BY <1>1
<1>5. Distinct(s)
  BY <1>1, <1>4 DEF Distinct
<1>6. \A c : c \in ToSet(s) <=> c \in Nat /\ first <= c /\ c < limit
  <2> TAKE c
  <2>1. c \in ToSet(s) <=> \E i \in 1 .. n : s[i] = c
    BY <1>4, InToSet
  <2> HIDE DEF s
  <2>2. ASSUME NEW i \in 1 .. n, s[i] = c PROVE c \in Nat /\ first <= c /\ c < limit
    BY <1>1, <1>4, <2>2
  <2>3. ASSUME c \in Nat, first <= c, c < limit PROVE \E i \in 1 .. n : s[i] = c
    <3>1. c - first + 1 \in 1 .. n /\ first + (c - first + 1) - 1 = c
      BY <1>1, <2>3
    <3> QED
      BY <1>4, <3>1
  <2> QED
    BY <2>1, <2>2, <2>3
<1> QED
  BY <1>3, <1>5, <1>6

\* The numbers of three ranges, one after another.
LEMMA ThreeRanges ==
  ASSUME NEW C \in Nat, NEW x \in Nat, NEW y \in Nat, NEW z \in Nat,
         x <= C, C <= y, y <= 2 * C, 2 * C <= z, z <= 3 * C,
         NEW S, 0 .. 3 * C - 1 \subseteq S
  PROVE  LET s == From(x, C) \o From(y, 2 * C) \o From(z, 3 * C)
         IN  /\ s \in Seq(S) /\ Distinct(s)
             /\ Len(s) = (C - x) + (2 * C - y) + (3 * C - z)
             /\ \A c : c \in ToSet(s) <=>
                  c \in Nat /\ ((x <= c /\ c < C) \/ (y <= c /\ c < 2 * C) \/ (z <= c /\ c < 3 * C))
<1> DEFINE a == From(x, C)
           b == From(y, 2 * C)
           d == From(z, 3 * C)
<1>1. 2 * C \in Nat /\ 3 * C \in Nat
  OBVIOUS
<1>2. x .. C - 1 \subseteq S /\ y .. 2 * C - 1 \subseteq S /\ z .. 3 * C - 1 \subseteq S
  OBVIOUS
<1>3. /\ a \in Seq(S) /\ Len(a) = C - x /\ Distinct(a)
      /\ \A c : c \in ToSet(a) <=> c \in Nat /\ x <= c /\ c < C
  BY <1>1, <1>2, RangeSeq
<1>4. /\ b \in Seq(S) /\ Len(b) = 2 * C - y /\ Distinct(b)
      /\ \A c : c \in ToSet(b) <=> c \in Nat /\ y <= c /\ c < 2 * C
  BY <1>1, <1>2, RangeSeq
<1>5. /\ d \in Seq(S) /\ Len(d) = 3 * C - z /\ Distinct(d)
      /\ \A c : c \in ToSet(d) <=> c \in Nat /\ z <= c /\ c < 3 * C
  BY <1>1, <1>2, RangeSeq
<1> HIDE DEF a, b, d
<1>6. \A c \in ToSet(a) : c \notin ToSet(b)
  BY <1>3, <1>4
<1>7. /\ a \o b \in Seq(S) /\ Len(a \o b) = Len(a) + Len(b) /\ Distinct(a \o b)
       /\ \A c : c \in ToSet(a \o b) <=> c \in ToSet(a) \/ c \in ToSet(b)
  <2>1. a \o b \in Seq(S) /\ Len(a \o b) = Len(a) + Len(b)
    BY <1>3, <1>4, ConcatSeq
  <2>2. \A c : c \in ToSet(a \o b) <=> c \in ToSet(a) \/ c \in ToSet(b)
    BY <1>3, <1>4, ConcatSet
  <2>3. Distinct(a \o b)
    BY <1>3, <1>4, <1>6, ConcatSet
  <2> QED
    BY <2>1, <2>2, <2>3
<1>8. \A c \in ToSet(a \o b) : c \notin ToSet(d)
  <2> TAKE c \in ToSet(a \o b)
  <2>1. c \in ToSet(a) \/ c \in ToSet(b)
    BY <1>7
  <2>2. c \in Nat /\ c < 2 * C
    BY <1>3, <1>4, <2>1
  <2> QED
    BY <1>5, <2>2
<1> DEFINE ab == a \o b
<1> HIDE DEF ab
<1>9. /\ ab \o d \in Seq(S) /\ Len(ab \o d) = Len(ab) + Len(d) /\ Distinct(ab \o d)
       /\ \A c : c \in ToSet(ab \o d) <=> c \in ToSet(ab) \/ c \in ToSet(d)
  <2>0. ab \in Seq(S) /\ Distinct(ab) /\ \A c \in ToSet(ab) : c \notin ToSet(d)
    BY <1>7, <1>8 DEF ab
  <2>1. ab \o d \in Seq(S) /\ Len(ab \o d) = Len(ab) + Len(d)
    BY <1>5, <2>0, ConcatSeq
  <2>2. \A c : c \in ToSet(ab \o d) <=> c \in ToSet(ab) \/ c \in ToSet(d)
    BY <1>5, <2>0, ConcatSet
  <2>3. Distinct(ab \o d)
    BY <1>5, <2>0, ConcatSet
  <2> QED
    BY <2>1, <2>2, <2>3
<1> QED
  <2> DEFINE s == ab \o d
  <2>1. Len(s) = (C - x) + (2 * C - y) + (3 * C - z)
    BY <1>3, <1>4, <1>5, <1>7, <1>9 DEF ab
  <2>2. \A c : c \in ToSet(s) <=> c \in ToSet(a) \/ c \in ToSet(b) \/ c \in ToSet(d)
    BY <1>7, <1>9 DEF ab
  <2>3. \A c : c \in ToSet(s) <=>
             c \in Nat /\ ((x <= c /\ c < C) \/ (y <= c /\ c < 2 * C) \/ (z <= c /\ c < 3 * C))
    <3> HIDE DEF s
    <3> QED
      BY <1>3, <1>4, <1>5, <2>2
  <2> QED
    BY <1>9, <2>1, <2>3 DEF ab, a, b, d

\* A finite set of which each element has a key has an element of greatest key.
LEMMA GreatestKey ==
  ASSUME NEW A, IsFiniteSet(A), A # {}, NEW key, \A x \in A : key[x] \in Int
  PROVE  \E a \in A : \A x \in A : key[x] <= key[a]
<1> DEFINE T == {key[x] : x \in A}
<1>1. IsFiniteSet(T)
  BY ImageIsFinite
<1>2. T \subseteq Int /\ T # {}
  OBVIOUS
<1>3. Max(T) \in T /\ \A y \in T : y <= Max(T)
  <2> HIDE DEF T
  <2> QED
    BY <1>1, <1>2, MaxFinite
<1> QED
  BY <1>3

\* An enumeration of a set in the order of keys.
InKeyOrder(g, A, key) ==
  LET n == Cardinality(A)
  IN  /\ g \in [1 .. n -> A]
      /\ \A k, l \in 1 .. n : (g[k] = g[l] => k = l) /\ (k <= l => key[g[k]] <= key[g[l]])
      /\ \A x \in A : \E k \in 1 .. n : g[k] = x

\* Every finite set has one.
LEMMA KeysInOrder ==
  ASSUME NEW X, IsFiniteSet(X), NEW key, \A x \in X : key[x] \in Int
  PROVE  \A A \in SUBSET X : \E g : InKeyOrder(g, A, key)
<1> DEFINE S == {n \in Nat : \A A \in SUBSET X : Cardinality(A) = n => \E g : InKeyOrder(g, A, key)}
<1>0. \A A \in SUBSET X : IsFiniteSet(A) /\ Cardinality(A) \in Nat
  BY FS_Subset, FS_CardinalityType
<1>1. 0 \in S
  <2> SUFFICES ASSUME NEW A \in SUBSET X, Cardinality(A) = 0 PROVE \E g : InKeyOrder(g, A, key)
    OBVIOUS
  <2>1. A = {}
    BY <1>0, FS_EmptySet
  <2> DEFINE g == [k \in 1 .. 0 |-> 0]
  <2>2. InKeyOrder(g, A, key)
    BY <2>1 DEF InKeyOrder
  <2> QED
    BY <2>2
<1>2. \A n \in Nat : n \in S => n + 1 \in S
  <2> TAKE n \in Nat
  <2> HAVE n \in S
  <2> SUFFICES ASSUME NEW A \in SUBSET X, Cardinality(A) = n + 1 PROVE \E g : InKeyOrder(g, A, key)
    OBVIOUS
  <2>1. A # {}
    BY FS_EmptySet
  <2>2. PICK a \in A : \A x \in A : key[x] <= key[a]
    BY <2>1, <1>0, GreatestKey
  <2> DEFINE B == A \ {a}
  <2>3. B \in SUBSET X /\ Cardinality(B) = n
    BY <1>0, FS_RemoveElement, FS_Subset
  <2>4. PICK h : InKeyOrder(h, B, key)
    BY <2>3
  <2>5. /\ h \in [1 .. n -> B]
        /\ \A k, l \in 1 .. n : (h[k] = h[l] => k = l) /\ (k <= l => key[h[k]] <= key[h[l]])
        /\ \A x \in B : \E k \in 1 .. n : h[k] = x
    BY <2>3, <2>4 DEF InKeyOrder
  <2> DEFINE g == [k \in 1 .. n + 1 |-> IF k = n + 1 THEN a ELSE h[k]]
  <2>6. \A k \in 1 .. n + 1 : (k = n + 1 /\ g[k] = a) \/ (k \in 1 .. n /\ k # n + 1 /\ g[k] = h[k] /\ g[k] \in B)
    BY <2>5
  <2>7. g \in [1 .. n + 1 -> A]
    BY <2>6
  <2>8. \A x \in A : \E k \in 1 .. n + 1 : g[k] = x
    <3> TAKE x \in A
    <3>1. CASE x = a
      BY <2>6, <3>1
    <3>2. CASE x # a
      <4>1. PICK k \in 1 .. n : h[k] = x
        BY <2>5, <3>2
      <4> QED
        BY <4>1
    <3> QED
      BY <3>1, <3>2
  <2> HIDE DEF g
  <2>9. \A k, l \in 1 .. n + 1 : /\ g[k] = g[l] => k = l
                                 /\ k <= l => key[g[k]] <= key[g[l]]
    <3> TAKE k, l \in 1 .. n + 1
    <3>1. CASE l = n + 1
      <4>1. key[g[k]] <= key[g[l]]
        BY <2>2, <2>6, <2>7, <3>1
      <4>2. g[k] = g[l] => k = l
        BY <2>6, <3>1
      <4> QED
        BY <4>1, <4>2
    <3>2. CASE l # n + 1 /\ k = n + 1
      BY <2>6, <3>2
    <3>3. CASE l # n + 1 /\ k # n + 1
      BY <2>5, <2>6, <3>3
    <3> QED
      BY <3>1, <3>2, <3>3
  <2>10. InKeyOrder(g, A, key)
    BY <2>7, <2>8, <2>9 DEF InKeyOrder
  <2> QED
    BY <2>10
<1> HIDE DEF S
<1>3. Nat \subseteq S
  BY <1>1, <1>2, SetInduction
<1> QED
  BY <1>0, <1>3 DEF S

-------------------------------------------------------------------------------
(* Sums along a listing. *)

\* The sums of values along a listing are the sums over the sets listed so far.
LEMMA PrefixSums ==
  ASSUME NEW N \in Nat, NEW A, NEW g, Listing(N, A, g), NEW f, \A x \in A : f[x] \in Nat
  PROVE  Sums(N, [i \in 1 .. N |-> f[g[i]]], [n \in 0 .. N |-> SumFunctionOnSet(f, Prefix(g, n))])
<1> DEFINE s(n) == SumFunctionOnSet(f, Prefix(g, n))
           a == [i \in 1 .. N |-> f[g[i]]]
           F == [n \in 0 .. N |-> s(n)]
<1>1. s(0) = 0
  BY PrefixSumOfNone
<1>2. \A n \in 0 .. N : s(n) \in Nat
  BY PrefixSumIsNat
<1>3. \A i \in 1 .. N : s(i) = s(i - 1) + f[g[i]]
  BY PrefixSumStep
<1> HIDE DEF s
<1>4. 0 \in 0 .. N /\ \A i \in 1 .. N : i \in 0 .. N /\ i - 1 \in 0 .. N /\ a[i] = f[g[i]]
  OBVIOUS
<1>5. F \in [0 .. N -> Nat] /\ \A n \in 0 .. N : F[n] = s(n)
  BY <1>2
<1> HIDE DEF a, F
<1>6. Sums(N, a, F)
  BY <1>1, <1>3, <1>4, <1>5 DEF Sums
<1> QED
  BY <1>6 DEF a, F, s

\* The last of the sums is the sum of the function.
LEMMA SumsAreSum ==
  ASSUME NEW N \in Nat, NEW f \in [1 .. N -> Nat], NEW F, Sums(N, f, F)
  PROVE  F[N] = SumFunction(f)
<1> DEFINE g == [i \in 1 .. N |-> i]
           G == [n \in 0 .. N |-> SumFunctionOnSet(f, Prefix(g, n))]
<1>1. Listing(N, 1 .. N, g)
  BY DEF Listing
<1>2. Sums(N, [i \in 1 .. N |-> f[g[i]]], G)
  <2> HIDE DEF g
  <2> QED
    BY <1>1, PrefixSums
<1>3. [i \in 1 .. N |-> f[g[i]]] = f
  OBVIOUS
<1>4. Prefix(g, N) = 1 .. N
  BY DEF Prefix
<1>5. G[N] = SumFunction(f)
  BY <1>4 DEF SumFunction
<1> HIDE DEF G, g
<1>6. Proportional(N, f, F, 1, f, G, 1)
  BY <1>2, <1>3 DEF Proportional
<1>7. 1 * F[N] = 1 * G[N]
  BY <1>6, SumsScaled
<1>8. F[N] \in Nat /\ G[N] \in Nat
  <2>1. N \in 0 .. N
    OBVIOUS
  <2> QED
    BY <1>2, <2>1 DEF Sums
<1> QED
  BY <1>5, <1>7, <1>8

\* Reordered elements have reordered values, of the same sum.
LEMMA SumReordered ==
  ASSUME NEW s, NEW t, Reorders(t, s), Len(s) \in Nat, NEW v, \A i \in 1 .. Len(s) : v[s[i]] \in Int
  PROVE  SumFunction([i \in 1 .. Len(s) |-> v[t[i]]]) = SumFunction([i \in 1 .. Len(s) |-> v[s[i]]])
<1> DEFINE N == Len(s)
           f == [i \in 1 .. N |-> v[s[i]]]
           g == [i \in 1 .. N |-> v[t[i]]]
<1>1. PICK p \in Reorderings(N) : t = [k \in 1 .. N |-> s[p[k]]]
  BY DEF Reorders
<1>2. p \in [1 .. N -> 1 .. N]
  BY DEF Reorderings
<1>3. \A k \in 1 .. N : t[k] = s[p[k]] /\ p[k] \in 1 .. N
  BY <1>1, <1>2
<1>4. f \in [1 .. N -> Int] /\ g \in [1 .. N -> Int] /\ \A k \in 1 .. N : g[k] = f[p[k]]
  BY <1>3
<1> HIDE DEF f, g, N
<1>5. SumFunction(g) = SumFunction(f)
  BY <1>4, SumPermuted, Len(s) \in Nat, ZenonT(60) DEF N
<1> QED
  BY <1>5 DEF f, g, N

\* A sum of values that are at most twice w in B and at most w elsewhere.
LEMMA TwiceOrOnce ==
  ASSUME NEW A, IsFiniteSet(A), NEW B \in SUBSET A, NEW f, NEW w,
         \A x \in A : f[x] \in Int /\ w[x] \in Int,
         \A x \in B : f[x] <= 2 * w[x], \A x \in A \ B : f[x] <= w[x]
  PROVE  SumFunctionOnSet(f, A) <= SumFunctionOnSet(w, A) + SumFunctionOnSet(w, B)
<1> DEFINE v == [x \in A |-> 2 * w[x]]
           R == A \ B
<1>1. \A x \in A : v[x] \in Int /\ 1 * v[x] = 2 * w[x]
  OBVIOUS
<1>2. IsFiniteSet(B) /\ IsFiniteSet(R) /\ B \cup R = A /\ B \cap R = {}
  BY FS_Subset
<1> HIDE DEF v, R
<1>3. /\ SumFunctionOnSet(f, B \cup R) = SumFunctionOnSet(f, B) + SumFunctionOnSet(f, R)
      /\ SumFunctionOnSet(w, B \cup R) = SumFunctionOnSet(w, B) + SumFunctionOnSet(w, R)
  BY <1>2, SumUnion
<1>4. SumFunctionOnSet(f, B) <= SumFunctionOnSet(v, B)
  <2>1. \A x \in B : f[x] \in Int /\ v[x] \in Int /\ f[x] <= v[x]
    BY <1>1
  <2> QED
    BY <1>2, <2>1, SumMonotone
<1>5. SumFunctionOnSet(f, R) <= SumFunctionOnSet(w, R)
  <2>1. \A x \in R : f[x] \in Int /\ w[x] \in Int /\ f[x] <= w[x]
    BY DEF R
  <2> QED
    BY <1>2, <2>1, SumMonotone
<1>6. 1 * SumFunctionOnSet(v, B) = 2 * SumFunctionOnSet(w, B)
  <2>1. \A x \in B : v[x] \in Int /\ w[x] \in Int /\ 1 * v[x] = 2 * w[x]
    BY <1>1
  <2> QED
    BY <1>2, <2>1, SumScaled
<1> DEFINE fb == SumFunctionOnSet(f, B)
           fr == SumFunctionOnSet(f, R)
           wb == SumFunctionOnSet(w, B)
           wr == SumFunctionOnSet(w, R)
           vb == SumFunctionOnSet(v, B)
<1>7. fb \in Int /\ fr \in Int /\ wb \in Int /\ wr \in Int /\ vb \in Int
  <2>1. \A x \in B \cup R : f[x] \in Int /\ w[x] \in Int /\ v[x] \in Int
    BY <1>1, <1>2
  <2> QED
    BY <1>2, <2>1, SumInt
<1>8. fb <= vb /\ fr <= wr /\ 1 * vb = 2 * wb
  BY <1>4, <1>5, <1>6
<1>9. SumFunctionOnSet(f, A) = fb + fr /\ SumFunctionOnSet(w, A) = wb + wr
  BY <1>2, <1>3
<1> HIDE DEF fb, fr, wb, wr, vb
<1>10. fb + fr <= wb + wr + wb
  BY ONLY <1>7, <1>8
<1> QED
  BY <1>9, <1>10 DEF wb

===============================================================================
