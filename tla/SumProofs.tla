----------------------------- MODULE SumProofs ------------------------------
(***************************************************************************)
(* Sums over finite sets.  The modules add amounts up with the folds of    *)
(* the community modules, whose value is that of a recursive function on   *)
(* the subsets of the set.  That function exists and is unique, by         *)
(* induction on the size of the subset; the rules of arithmetic for sums   *)
(* follow from its equation.  Induction is by a smallest counterexample:   *)
(* the sets of natural numbers, and of subsets of a finite set, have       *)
(* minimal elements.                                                       *)
(***************************************************************************)
EXTENDS Integers, FiniteSets, Functions, FiniteSetTheorems, TLAPS

Sum(f, S) == SumFunctionOnSet(f, S)

(* The next element the fold takes from a set. *)
Pick(s) == CHOOSE x \in s : TRUE

(* The equation of the fold at s, and a function that solves it for every  *)
(* subset of S.                                                            *)
Unfold(f, g, s) == IF s = {} THEN 0 ELSE f[Pick(s)] + g[s \ {Pick(s)}]
IsIter(f, S, g) == g = [s \in SUBSET S |-> Unfold(f, g, s)]

(* The solution the fold uses. *)
Chosen(f, S) == CHOOSE g : IsIter(f, S, g)

(* There are finitely many values to add, all integers. *)
Summable(f, S) == IsFiniteSet(S) /\ \A x \in S : f[x] \in Int

-----------------------------------------------------------------------------
(* A non-empty set has a next element. *)
LEMMA PickIn == ASSUME NEW s, s # {} PROVE Pick(s) \in s
  BY DEF Pick

(* A non-empty set of natural numbers has a least element. *)
LEMMA LeastNatural ==
  ASSUME NEW T \in SUBSET Nat, T # {}
  PROVE  \E n \in T : \A m \in T : n =< m
<1> DEFINE R == {mn \in Nat \X Nat : mn[1] < mn[2]}
<1>1. IsWellFoundedOn(R, Nat)
  BY NatLessThanWellFounded DEF OpToRel
<1>2. PICK n \in T : \A m \in T : ~(<<m, n>> \in R)
  <2> HIDE DEF R
  <2> QED BY <1>1, WFMin
<1>3. \A m \in T : ~(m < n)
  BY <1>2
<1> QED BY <1>3

(* A non-empty set of subsets of a finite set has a minimal element. *)
LEMMA MinimalSubset ==
  ASSUME NEW S, IsFiniteSet(S), NEW T \in SUBSET (SUBSET S), T # {}
  PROVE  \E s \in T : \A t \in T : t \subseteq s => t = s
<1>1. IsWellFoundedOn(StrictSubsetOrdering(S), FiniteSubsetsOf(S))
  BY FS_StrictSubsetOrderingWellFounded
<1>2. T \subseteq FiniteSubsetsOf(S)
  BY FS_FiniteSubsetsOfFinite
<1>3. PICK s \in T : \A t \in T : ~(<<t, s>> \in StrictSubsetOrdering(S))
  BY <1>1, <1>2, WFMin
<1>4. \A t \in T : t \subseteq s => t = s
  BY <1>3 DEF StrictSubsetOrdering
<1> QED BY <1>4

(* The fold's equation has a solution: one that holds for the subsets of at *)
(* most n elements gives one for those of at most n + 1.                   *)
LEMMA IterExists ==
  ASSUME NEW f, NEW S, Summable(f, S)
  PROVE  \E g \in [SUBSET S -> Int] : IsIter(f, S, g)
<1> DEFINE Upto(n, h) == \A t \in SUBSET S : Cardinality(t) =< n => h[t] = Unfold(f, h, t)
           Bad == {n \in Nat : ~ \E h \in [SUBSET S -> Int] : Upto(n, h)}
<1>f. \A t \in SUBSET S : IsFiniteSet(t) /\ Cardinality(t) \in Nat /\ Cardinality(t) =< Cardinality(S)
  BY FS_Subset, FS_CardinalityType DEF Summable
<1>p. \A t \in SUBSET S : t # {} => Pick(t) \in S /\ f[Pick(t)] \in Int /\ t \ {Pick(t)} \in SUBSET S
  BY PickIn DEF Summable
<1>1. Bad = {}
  <2> SUFFICES ASSUME Bad # {} PROVE FALSE
    OBVIOUS
  <2>1. PICK n \in Bad : \A m \in Bad : n =< m
    BY LeastNatural
  <2>2. CASE n = 0
    <3> DEFINE h == [t \in SUBSET S |-> 0]
    <3>1. \A t \in SUBSET S : Cardinality(t) =< 0 => t = {}
      BY <1>f, FS_EmptySet
    <3>2. Upto(0, h)
      BY <3>1 DEF Unfold
    <3>3. h \in [SUBSET S -> Int]
      OBVIOUS
    <3> QED BY <2>1, <2>2, <3>2, <3>3
  <2>3. CASE n # 0
    <3>1. n \in Nat /\ n - 1 \in Nat /\ n - 1 \notin Bad
      <4>1. n \in Nat /\ n - 1 \in Nat /\ ~(n =< n - 1)
        BY <2>1, <2>3
      <4> HIDE DEF Bad
      <4> QED BY <2>1, <4>1
    <3>2. PICK h \in [SUBSET S -> Int] : Upto(n - 1, h)
      BY <3>1
    <3> DEFINE k == [t \in SUBSET S |-> Unfold(f, h, t)]
    <3>3. k \in [SUBSET S -> Int]
      BY <1>p, <3>2 DEF Unfold
    <3>4. \A t \in SUBSET S : Cardinality(t) =< n - 1 => k[t] = h[t]
      BY <3>2
    <3>5. ASSUME NEW t \in SUBSET S, Cardinality(t) =< n
          PROVE  k[t] = Unfold(f, k, t)
      <4>1. CASE t = {}
        BY <4>1 DEF Unfold
      <4>2. CASE t # {}
        <5>1. Pick(t) \in t /\ t \ {Pick(t)} \in SUBSET S
          BY <4>2, PickIn
        <5>2. Cardinality(t \ {Pick(t)}) =< n - 1
          BY <1>f, <3>1, <3>5, <5>1, FS_RemoveElement
        <5>3. k[t \ {Pick(t)}] = h[t \ {Pick(t)}]
          BY <3>4, <5>1, <5>2
        <5> QED BY <4>2, <5>3 DEF Unfold
      <4> QED BY <4>1, <4>2
    <3>6. Upto(n, k)
      BY <3>5
    <3> QED BY <2>1, <3>3, <3>6
  <2> QED BY <2>2, <2>3
<1>2. Cardinality(S) \in Nat
  BY FS_CardinalityType DEF Summable
<1>3. PICK h \in [SUBSET S -> Int] : Upto(Cardinality(S), h)
  BY <1>1, <1>2
<1>4. \A t \in SUBSET S : h[t] = Unfold(f, h, t)
  BY <1>f, <1>3
<1>5. IsIter(f, S, h)
  BY <1>3, <1>4 DEF IsIter
<1> QED BY <1>5

(* Two solutions agree wherever both are defined. *)
LEMMA IterAgree ==
  ASSUME NEW f, NEW S, NEW T \in SUBSET S, IsFiniteSet(S),
         NEW g, IsIter(f, S, g), NEW h, IsIter(f, T, h)
  PROVE  \A t \in SUBSET T : g[t] = h[t]
<1> DEFINE Bad == {t \in SUBSET T : g[t] # h[t]}
<1> SUFFICES ASSUME Bad # {} PROVE FALSE
  OBVIOUS
<1>0. Bad \in SUBSET (SUBSET T) /\ IsFiniteSet(T)
  BY FS_Subset
<1>1. PICK t \in Bad : \A u \in Bad : u \subseteq t => u = t
  <2> HIDE DEF Bad
  <2> QED BY <1>0, MinimalSubset
<1>2. g[t] = Unfold(f, g, t) /\ h[t] = Unfold(f, h, t)
  BY DEF IsIter
<1>3. CASE t = {}
  BY <1>2, <1>3 DEF Unfold
<1>4. CASE t # {}
  <2>1. Pick(t) \in t
    BY <1>4, PickIn
  <2>2. t \ {Pick(t)} \notin Bad
    <3> HIDE DEF Bad
    <3> QED BY <1>1, <2>1
  <2>3. g[t \ {Pick(t)}] = h[t \ {Pick(t)}]
    BY <2>2
  <2> QED BY <1>2, <1>4, <2>3 DEF Unfold
<1> QED BY <1>3, <1>4

(* So the sum is the value of the solution, an integer. *)
LEMMA ChosenIter ==
  ASSUME NEW f, NEW S, Summable(f, S)
  PROVE  /\ IsIter(f, S, Chosen(f, S))
         /\ Chosen(f, S) \in [SUBSET S -> Int]
         /\ Sum(f, S) = Chosen(f, S)[S]
<1>1. PICK h \in [SUBSET S -> Int] : IsIter(f, S, h)
  BY IterExists
<1>2. IsIter(f, S, Chosen(f, S))
  BY <1>1 DEF Chosen
<1>3. \A t \in SUBSET S : Chosen(f, S)[t] = h[t]
  BY <1>1, <1>2, IterAgree DEF Summable
<1>4. Chosen(f, S) = [t \in SUBSET S |-> Unfold(f, Chosen(f, S), t)]
  BY <1>2 DEF IsIter
<1>5. Chosen(f, S) = h
  BY <1>3, <1>4
<1>6. Sum(f, S) = Chosen(f, S)[S]
  BY DEF Sum, SumFunctionOnSet, FoldFunctionOnSet, MapThenFoldSet, Chosen, IsIter, Unfold, Pick
<1> QED BY <1>1, <1>2, <1>5, <1>6

(* A subset can be summed as well. *)
LEMMA SummableSubset ==
  ASSUME NEW f, NEW S, Summable(f, S), NEW T \in SUBSET S
  PROVE  Summable(f, T)
  BY FS_Subset DEF Summable

(* The sum of no values is zero. *)
LEMMA SumEmpty == ASSUME NEW f PROVE Sum(f, {}) = 0
<1>1. Summable(f, {})
  BY FS_EmptySet DEF Summable
<1>2. IsIter(f, {}, Chosen(f, {})) /\ Sum(f, {}) = Chosen(f, {})[{}]
  BY <1>1, ChosenIter
<1>3. Chosen(f, {})[{}] = Unfold(f, Chosen(f, {}), {})
  BY <1>2 DEF IsIter
<1> QED BY <1>2, <1>3 DEF Unfold

(* A sum of integers is an integer. *)
LEMMA SumType ==
  ASSUME NEW f, NEW S, Summable(f, S)
  PROVE  Sum(f, S) \in Int
<1>1. Chosen(f, S) \in [SUBSET S -> Int] /\ Sum(f, S) = Chosen(f, S)[S]
  BY ChosenIter
<1>2. S \in SUBSET S
  OBVIOUS
<1> QED BY <1>1, <1>2

(* The sum is the first element's value and the sum of the others. *)
LEMMA SumPick ==
  ASSUME NEW f, NEW S, Summable(f, S), S # {}
  PROVE  Sum(f, S) = f[Pick(S)] + Sum(f, S \ {Pick(S)})
<1> DEFINE T == S \ {Pick(S)}
<1>1. Summable(f, T)
  BY SummableSubset
<1>2. IsIter(f, S, Chosen(f, S)) /\ Sum(f, S) = Chosen(f, S)[S]
  BY ChosenIter
<1>3. IsIter(f, T, Chosen(f, T)) /\ Sum(f, T) = Chosen(f, T)[T]
  BY <1>1, ChosenIter
<1>4. Chosen(f, S)[S] = f[Pick(S)] + Chosen(f, S)[T]
  BY <1>2 DEF IsIter, Unfold
<1>5. IsFiniteSet(S) /\ T \in SUBSET S
  BY DEF Summable
<1> HIDE DEF T
<1>6. Chosen(f, S)[T] = Chosen(f, T)[T]
  BY <1>2, <1>3, <1>5, IterAgree
<1> QED BY <1>2, <1>3, <1>4, <1>6 DEF T

(* The same for any element: the order of the fold does not matter. *)
LEMMA SumRemove ==
  ASSUME NEW f, NEW S, Summable(f, S), NEW x \in S
  PROVE  Sum(f, S) = f[x] + Sum(f, S \ {x})
<1> DEFINE Bad == {t \in SUBSET S : \E y \in t : Sum(f, t) # f[y] + Sum(f, t \ {y})}
<1> SUFFICES ASSUME Bad # {} PROVE FALSE
  OBVIOUS
<1>0. Bad \in SUBSET (SUBSET S) /\ IsFiniteSet(S)
  BY DEF Summable
<1>1. PICK t \in Bad : \A u \in Bad : u \subseteq t => u = t
  <2> HIDE DEF Bad
  <2> QED BY <1>0, MinimalSubset
<1>2. PICK y \in t : Sum(f, t) # f[y] + Sum(f, t \ {y})
  BY <1>1
<1> DEFINE p == Pick(t)
           u == (t \ {p}) \ {y}
<1>3. p \in t /\ Summable(f, t) /\ Sum(f, t) = f[p] + Sum(f, t \ {p})
  BY <1>2, PickIn, SummableSubset, SumPick
<1>4. p # y
  BY <1>2, <1>3
<1>5. t \ {p} \notin Bad /\ t \ {y} \notin Bad
  <2> HIDE DEF Bad, p
  <2> QED BY <1>1, <1>2, <1>3
<1> HIDE DEF p
<1>6. Sum(f, t \ {p}) = f[y] + Sum(f, u)
  BY <1>2, <1>4, <1>5
<1>7. (t \ {y}) \ {p} = u
  OBVIOUS
<1>8. Sum(f, t \ {y}) = f[p] + Sum(f, u)
  BY <1>3, <1>4, <1>5, <1>7
<1>9. f[p] \in Int /\ f[y] \in Int /\ Sum(f, u) \in Int
  <2>1. u \in SUBSET S /\ p \in S /\ y \in S
    BY <1>2, <1>3
  <2> QED BY <2>1, SummableSubset, SumType DEF Summable
<1> QED BY <1>2, <1>3, <1>6, <1>8, <1>9

(* A new element adds its value. *)
LEMMA SumAdd ==
  ASSUME NEW f, NEW S, NEW x, x \notin S, Summable(f, S \cup {x})
  PROVE  Sum(f, S \cup {x}) = Sum(f, S) + f[x]
<1>1. (S \cup {x}) \ {x} = S
  OBVIOUS
<1>2. Summable(f, S) /\ f[x] \in Int /\ Sum(f, S) \in Int
  BY SummableSubset, SumType DEF Summable
<1> QED BY <1>1, <1>2, SumRemove

(* The sum of pointwise sums is the sum of the sums. *)
LEMMA SumLinear ==
  ASSUME NEW S, NEW f, NEW g, NEW h, Summable(f, S), Summable(g, S),
         \A x \in S : h[x] = f[x] + g[x]
  PROVE  Summable(h, S) /\ Sum(h, S) = Sum(f, S) + Sum(g, S)
<1>0. Summable(h, S) /\ IsFiniteSet(S)
  BY DEF Summable
<1> DEFINE Bad == {t \in SUBSET S : Sum(h, t) # Sum(f, t) + Sum(g, t)}
<1> SUFFICES ASSUME Bad # {} PROVE FALSE
  BY <1>0
<1>1. PICK t \in Bad : \A u \in Bad : u \subseteq t => u = t
  <2>1. Bad \in SUBSET (SUBSET S)
    OBVIOUS
  <2> HIDE DEF Bad
  <2> QED BY <1>0, <2>1, MinimalSubset
<1>2. t # {}
  BY SumEmpty
<1>3. PICK x \in t : TRUE
  BY <1>2
<1>4. t \ {x} \notin Bad
  <2> HIDE DEF Bad
  <2> QED BY <1>1, <1>3
<1>5. Sum(h, t \ {x}) = Sum(f, t \ {x}) + Sum(g, t \ {x})
  BY <1>4
<1>6. t \in SUBSET S /\ t \ {x} \in SUBSET S /\ x \in S
  BY <1>3
<1>7. /\ Sum(f, t \ {x}) \in Int /\ Sum(g, t \ {x}) \in Int
      /\ f[x] \in Int /\ g[x] \in Int /\ h[x] = f[x] + g[x]
  BY <1>6, SummableSubset, SumType DEF Summable
<1>8. /\ Sum(h, t) = h[x] + Sum(h, t \ {x})
      /\ Sum(f, t) = f[x] + Sum(f, t \ {x})
      /\ Sum(g, t) = g[x] + Sum(g, t \ {x})
  BY <1>0, <1>3, <1>6, SummableSubset, SumRemove
<1>9. Sum(h, t) = Sum(f, t) + Sum(g, t)
  BY <1>5, <1>7, <1>8
<1> QED BY <1>9

(* The sum of zeros is zero. *)
LEMMA SumZero ==
  ASSUME NEW S, NEW f, IsFiniteSet(S), \A x \in S : f[x] = 0
  PROVE  Sum(f, S) = 0
<1>1. Summable(f, S)
  BY DEF Summable
<1>2. Sum(f, S) = Sum(f, S) + Sum(f, S)
  BY <1>1, SumLinear
<1> QED BY <1>1, <1>2, SumType

(* Functions that agree on a set have the same sum. *)
LEMMA SumEqual ==
  ASSUME NEW S, NEW f, NEW g, Summable(f, S), \A x \in S : f[x] = g[x]
  PROVE  Summable(g, S) /\ Sum(f, S) = Sum(g, S)
<1> DEFINE z == [x \in S |-> 0]
<1>1. IsFiniteSet(S) /\ \A x \in S : z[x] = 0 /\ g[x] = f[x] + z[x]
  BY DEF Summable
<1>2. Summable(z, S)
  BY <1>1 DEF Summable
<1> HIDE DEF z
<1>3. Sum(z, S) = 0
  BY <1>1, SumZero
<1>4. Summable(g, S) /\ Sum(g, S) = Sum(f, S) + Sum(z, S)
  BY <1>1, <1>2, SumLinear
<1> QED BY <1>3, <1>4, SumType

(* Values of opposite sign have the opposite sum. *)
LEMMA SumNegated ==
  ASSUME NEW S, NEW f, NEW g, Summable(f, S), \A x \in S : g[x] = -f[x]
  PROVE  Summable(g, S) /\ Sum(g, S) = -Sum(f, S)
<1> DEFINE z == [x \in S |-> 0]
<1>1. IsFiniteSet(S) /\ \A x \in S : z[x] = 0 /\ z[x] = f[x] + g[x]
  BY DEF Summable
<1>2. Summable(g, S)
  BY DEF Summable
<1> HIDE DEF z
<1>3. Sum(z, S) = 0
  BY <1>1, SumZero
<1>4. Sum(z, S) = Sum(f, S) + Sum(g, S)
  BY <1>1, <1>2, SumLinear
<1>5. Sum(f, S) \in Int /\ Sum(g, S) \in Int
  BY <1>2, SumType
<1> QED BY <1>2, <1>3, <1>4, <1>5

(* Changing one value changes the sum by the difference. *)
LEMMA SumChanged ==
  ASSUME NEW S, NEW f, NEW g, Summable(f, S), NEW y \in S, g[y] \in Int,
         \A x \in S \ {y} : f[x] = g[x]
  PROVE  Summable(g, S) /\ Sum(g, S) = Sum(f, S) - f[y] + g[y]
<1>1. Summable(g, S) /\ f[y] \in Int
  BY DEF Summable
<1>2. Summable(f, S \ {y})
  BY SummableSubset
<1>3. Sum(g, S \ {y}) = Sum(f, S \ {y}) /\ Sum(f, S \ {y}) \in Int
  BY <1>2, SumEqual, SumType
<1>4. Sum(f, S) = f[y] + Sum(f, S \ {y}) /\ Sum(g, S) = g[y] + Sum(g, S \ {y})
  BY <1>1, SumRemove
<1> QED BY <1>1, <1>3, <1>4

(* The sum over two disjoint sets is the sum of their sums. *)
LEMMA SumUnion ==
  ASSUME NEW f, NEW A, NEW B, A \cap B = {}, Summable(f, A), Summable(f, B)
  PROVE  Summable(f, A \cup B) /\ Sum(f, A \cup B) = Sum(f, A) + Sum(f, B)
<1>0. Summable(f, A \cup B) /\ IsFiniteSet(B)
  BY FS_Union DEF Summable
<1> DEFINE Bad == {t \in SUBSET B : Sum(f, A \cup t) # Sum(f, A) + Sum(f, t)}
<1> SUFFICES ASSUME Bad # {} PROVE FALSE
  BY <1>0
<1>1. PICK t \in Bad : \A u \in Bad : u \subseteq t => u = t
  <2>1. Bad \in SUBSET (SUBSET B)
    OBVIOUS
  <2> HIDE DEF Bad
  <2> QED BY <1>0, <2>1, MinimalSubset
<1>a. Sum(f, A) \in Int
  BY SumType
<1>2. t # {}
  <2>1. A \cup {} = A /\ Sum(f, {}) = 0
    BY SumEmpty
  <2>2. Sum(f, A \cup {}) = Sum(f, A) + Sum(f, {})
    BY <1>a, <2>1
  <2> QED BY <2>2
<1>3. PICK x \in t : TRUE
  BY <1>2
<1> DEFINE u == t \ {x}
<1>4. u \notin Bad
  <2> HIDE DEF Bad
  <2> QED BY <1>1, <1>3
<1>5. Sum(f, A \cup u) = Sum(f, A) + Sum(f, u)
  BY <1>4
<1>6. x \notin A /\ x \notin u /\ u \cup {x} = t /\ (A \cup u) \cup {x} = A \cup t
  BY <1>3
<1>7. Summable(f, A \cup t) /\ Summable(f, t) /\ Summable(f, u) /\ f[x] \in Int
  <2>1. A \cup t \in SUBSET (A \cup B) /\ t \in SUBSET B /\ u \in SUBSET B /\ x \in B
    BY <1>3
  <2> QED BY <1>0, <2>1, SummableSubset DEF Summable
<1> HIDE DEF u
<1>8. Sum(f, A \cup t) = Sum(f, A \cup u) + f[x]
  BY <1>6, <1>7, SumAdd
<1>9. Sum(f, t) = Sum(f, u) + f[x] /\ Sum(f, u) \in Int
  BY <1>6, <1>7, SumAdd, SumType
<1>10. Sum(f, A \cup t) = Sum(f, A) + Sum(f, t)
  BY <1>a, <1>5, <1>7, <1>8, <1>9
<1> QED BY <1>10

(* The sum of a constant. *)
LEMMA SumConstant ==
  ASSUME NEW S, IsFiniteSet(S), NEW c \in Int, NEW f, \A x \in S : f[x] = c
  PROVE  Sum(f, S) = c * Cardinality(S)
<1>0. Summable(f, S)
  BY DEF Summable
<1> DEFINE Bad == {t \in SUBSET S : Sum(f, t) # c * Cardinality(t)}
<1> SUFFICES ASSUME Bad # {} PROVE FALSE
  OBVIOUS
<1>1. PICK t \in Bad : \A u \in Bad : u \subseteq t => u = t
  <2>1. Bad \in SUBSET (SUBSET S)
    OBVIOUS
  <2> HIDE DEF Bad
  <2> QED BY <2>1, MinimalSubset
<1>2. t # {}
  <2>1. Sum(f, {}) = 0 /\ Cardinality({}) = 0
    BY SumEmpty, FS_EmptySet
  <2>2. Sum(f, {}) = c * Cardinality({})
    BY <2>1
  <2> QED BY <2>2
<1>3. PICK x \in t : TRUE
  BY <1>2
<1> DEFINE u == t \ {x}
<1>4. u \notin Bad
  <2> HIDE DEF Bad
  <2> QED BY <1>1, <1>3
<1>5. Sum(f, u) = c * Cardinality(u)
  BY <1>4
<1>6. Summable(f, t) /\ IsFiniteSet(t) /\ f[x] = c
  BY <1>0, <1>3, SummableSubset DEF Summable
<1>7. Sum(f, t) = f[x] + Sum(f, u)
  BY <1>6, SumRemove
<1>8. Cardinality(u) = Cardinality(t) - 1 /\ Cardinality(t) \in Nat
  BY <1>3, <1>6, FS_RemoveElement, FS_CardinalityType
<1>9. \A n \in Nat : c + c * (n - 1) = c * n
  OBVIOUS
<1>10. Sum(f, t) = c * Cardinality(t)
  <2> HIDE DEF u
  <2> QED BY <1>5, <1>6, <1>7, <1>8, <1>9
<1> QED BY <1>10

(* A sum of natural numbers is one. *)
LEMMA SumNatural ==
  ASSUME NEW S, IsFiniteSet(S), NEW f, \A x \in S : f[x] \in Nat
  PROVE  Sum(f, S) \in Nat
<1>0. Summable(f, S)
  BY DEF Summable
<1> DEFINE Bad == {t \in SUBSET S : Sum(f, t) \notin Nat}
<1> SUFFICES ASSUME Bad # {} PROVE FALSE
  OBVIOUS
<1>1. PICK t \in Bad : \A u \in Bad : u \subseteq t => u = t
  <2>1. Bad \in SUBSET (SUBSET S)
    OBVIOUS
  <2> HIDE DEF Bad
  <2> QED BY <2>1, MinimalSubset
<1>2. PICK x \in t : TRUE
  BY SumEmpty
<1> DEFINE u == t \ {x}
<1>3. u \notin Bad
  <2> HIDE DEF Bad
  <2> QED BY <1>1, <1>2
<1>4. Summable(f, t) /\ f[x] \in Nat /\ Sum(f, u) \in Nat
  BY <1>0, <1>2, <1>3, SummableSubset
<1>5. Sum(f, t) = f[x] + Sum(f, u)
  BY <1>4, SumRemove
<1>6. Sum(f, t) \in Nat
  <2> HIDE DEF u
  <2> QED BY <1>4, <1>5
<1> QED BY <1>6

(* Some of the natural numbers add up to at most what all of them do. *)
LEMMA SumWithin ==
  ASSUME NEW T, IsFiniteSet(T), NEW S \in SUBSET T, NEW f, NEW g,
         \A x \in T : f[x] \in Nat, \A x \in S : g[x] = f[x]
  PROVE  Sum(g, S) =< Sum(f, T) /\ Sum(g, S) \in Nat
<1>1. Summable(f, T) /\ Summable(f, S) /\ Summable(f, T \ S) /\ IsFiniteSet(S) /\ IsFiniteSet(T \ S)
  BY FS_Subset DEF Summable
<1>2. Sum(f, S) \in Nat /\ Sum(f, T \ S) \in Nat
  BY <1>1, SumNatural
<1>3. S \cap (T \ S) = {} /\ S \cup (T \ S) = T
  OBVIOUS
<1>4. Sum(f, T) = Sum(f, S) + Sum(f, T \ S)
  BY <1>1, <1>3, SumUnion
<1>5. Sum(g, S) = Sum(f, S)
  BY <1>1, SumEqual
<1> QED BY <1>2, <1>4, <1>5
=============================================================================
