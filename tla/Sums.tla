-------------------------------- MODULE Sums --------------------------------
(***************************************************************************)
(* Sums of a function over a finite set.  The folds of the community       *)
(* modules take the elements in the order of a CHOOSE; that the order does *)
(* not matter, and what follows from it, is what the theorems about the    *)
(* ledger's total and the daily volume rest on.  Induction is by the least *)
(* counterexample, over sets instead of predicates.                        *)
(***************************************************************************)
EXTENDS Integers, FiniteSets, Functions, FiniteSetTheorems,
        WellFoundedInduction, TLAPS

Sum(f, S) == FoldFunctionOnSet(+, 0, f, S)

\* What one step of the fold does, and the function it is the fixed point of.
Picked(s) == CHOOSE x \in s : TRUE
Folded(f, g, s) == IF s = {} THEN 0 ELSE f[Picked(s)] + g[s \ {Picked(s)}]
Iterates(g, f, S) == g = [s \in SUBSET S |-> Folded(f, g, s)]
Iteration(f, S) == CHOOSE g : Iterates(g, f, S)

-----------------------------------------------------------------------------
(* Induction.                                                              *)

\* A set of naturals that is not empty has a least element.
LEMMA LeastNat ==
  ASSUME NEW T \in SUBSET Nat, T # {}
  PROVE  \E x \in T : \A y \in T : x <= y
<1> DEFINE R == OpToRel(<, Nat)
<1>1. IsWellFoundedOn(R, Nat)
  BY NatLessThanWellFounded
<1>2. PICK x \in T : \A y \in T : ~ (<<y, x>> \in R)
  <2> HIDE DEF R
  <2> QED BY <1>1, WFMin
<1>3. \A y \in T : ~ (y < x)
  BY <1>2 DEF OpToRel
<1> QED BY <1>3

\* A set of subsets of a finite set that has every subset all of whose
\* proper subsets it has, has them all.
LEMMA SubsetInduction ==
  ASSUME NEW S, IsFiniteSet(S), NEW P,
         \A s \in SUBSET S : (\A t \in SUBSET s : t # s => t \in P) => s \in P
  PROVE  \A s \in SUBSET S : s \in P
<1> DEFINE Bad == {n \in Nat : \E s \in SUBSET S : s \notin P /\ Cardinality(s) = n}
<1>1. SUFFICES ASSUME NEW s \in SUBSET S, s \notin P PROVE FALSE
  OBVIOUS
<1>2. Cardinality(s) \in Bad
  BY <1>1, FS_Subset, FS_CardinalityType
<1>3. PICK n \in Bad : \A m \in Bad : n <= m
  BY <1>2, LeastNat
<1>4. PICK t \in SUBSET S : t \notin P /\ Cardinality(t) = n
  OBVIOUS
<1>5. PICK u \in SUBSET t : u # t /\ u \notin P
  BY <1>4
<1>6. /\ IsFiniteSet(t) /\ IsFiniteSet(u)
      /\ Cardinality(u) \in Nat /\ Cardinality(u) < Cardinality(t)
  BY <1>5, FS_Subset, FS_CardinalityType
<1>7. Cardinality(u) \in Bad
  BY <1>5, <1>6
<1> QED BY <1>3, <1>4, <1>6, <1>7

-----------------------------------------------------------------------------
(* The fold.                                                               *)

\* The fold of the library is that function.
LEMMA FoldIs ==
  ASSUME NEW f, NEW S
  PROVE  Sum(f, S) = Iteration(f, S)[S]
BY Zenon DEF Sum, FoldFunctionOnSet, MapThenFoldSet, Iteration, Iterates, Folded, Picked

\* What that function does on a set.
LEMMA IteratesAt ==
  ASSUME NEW g, NEW f, NEW S, Iterates(g, f, S), NEW s \in SUBSET S
  PROVE  g[s] = Folded(f, g, s)
<1>1. PICK h : h = [t \in SUBSET S |-> Folded(f, g, t)] /\ g = h
  BY DEF Iterates
<1>2. h[s] = Folded(f, g, s)
  BY <1>1
<1> QED BY <1>1, <1>2

\* The function the fold defines exists.
LEMMA IterationExists ==
  ASSUME NEW S, IsFiniteSet(S), NEW f
  PROVE  \E g : Iterates(g, f, S)
<1> DEFINE Upto(g, n) == /\ g = [s \in SUBSET S |-> g[s]]
                         /\ \A s \in SUBSET S : Cardinality(s) <= n => g[s] = Folded(f, g, s)
           Bad == {n \in Nat : ~ \E g : Upto(g, n)}
<1>c. \A s \in SUBSET S : /\ IsFiniteSet(s) /\ Cardinality(s) \in Nat
                          /\ Cardinality(s) <= Cardinality(S)
                          /\ Cardinality(s) = 0 <=> s = {}
                          /\ s # {} => /\ Picked(s) \in s
                                       /\ s \ {Picked(s)} \in SUBSET S
                                       /\ Cardinality(s \ {Picked(s)}) = Cardinality(s) - 1
  <2> SUFFICES ASSUME NEW s \in SUBSET S
               PROVE  /\ IsFiniteSet(s) /\ Cardinality(s) \in Nat
                      /\ Cardinality(s) <= Cardinality(S)
                      /\ Cardinality(s) = 0 <=> s = {}
                      /\ s # {} => /\ Picked(s) \in s
                                   /\ s \ {Picked(s)} \in SUBSET S
                                   /\ Cardinality(s \ {Picked(s)}) = Cardinality(s) - 1
    OBVIOUS
  <2>1. IsFiniteSet(s) /\ Cardinality(s) \in Nat /\ Cardinality(s) <= Cardinality(S)
    BY FS_Subset, FS_CardinalityType
  <2>2. Cardinality(s) = 0 <=> s = {}
    BY <2>1, FS_EmptySet
  <2>3. ASSUME s # {} PROVE Picked(s) \in s
    BY <2>3 DEF Picked
  <2>4. ASSUME s # {} PROVE Cardinality(s \ {Picked(s)}) = Cardinality(s) - 1
    BY <2>1, <2>3, <2>4, FS_RemoveElement
  <2> QED BY <2>1, <2>2, <2>3, <2>4
<1>1. SUFFICES Bad = {}
  <2>1. Cardinality(S) \in Nat
    BY FS_CardinalityType
  <2>2. PICK g : Upto(g, Cardinality(S))
    BY <2>1
  <2>3. \A s \in SUBSET S : g[s] = Folded(f, g, s)
    BY <1>c, <2>2
  <2> QED BY <2>2, <2>3 DEF Iterates
<1>2. SUFFICES ASSUME NEW n \in Bad, \A m \in Bad : n <= m PROVE FALSE
  BY LeastNat
<1>3. CASE n = 0
  <2> DEFINE g == [s \in SUBSET S |-> 0]
  <2>1. ASSUME NEW s \in SUBSET S, Cardinality(s) <= 0 PROVE s = {} /\ g[s] = 0
    <3>1. Cardinality(s) \in Nat /\ (Cardinality(s) = 0 <=> s = {})
      BY <1>c
    <3> QED BY <2>1, <3>1
  <2>2. g = [s \in SUBSET S |-> g[s]]
    OBVIOUS
  <2>3. Upto(g, 0)
    <3> HIDE DEF g
    <3> QED BY <2>1, <2>2 DEF Folded
  <2> QED BY <1>3, <2>3
<1>4. CASE n # 0
  <2>1. n - 1 \in Nat /\ n - 1 \notin Bad
    <3>1. n \in Nat /\ n # 0
      BY <1>4
    <3> HIDE DEF Bad
    <3> QED BY <1>2, <3>1
  <2>2. PICK g : Upto(g, n - 1)
    BY <2>1
  <2> DEFINE h == [s \in SUBSET S |-> IF Cardinality(s) <= n - 1 THEN g[s] ELSE Folded(f, g, s)]
  <2>3. \A s \in SUBSET S : Cardinality(s) <= n - 1 => h[s] = g[s]
    OBVIOUS
  <2>4. ASSUME NEW s \in SUBSET S, Cardinality(s) <= n PROVE h[s] = Folded(f, h, s)
    <3>1. h[s] = Folded(f, g, s)
      BY <2>2
    <3>2. s # {} => h[s \ {Picked(s)}] = g[s \ {Picked(s)}]
      BY <1>c, <2>1, <2>3, <2>4
    <3> HIDE DEF h
    <3> QED BY <3>1, <3>2 DEF Folded
  <2>5. h = [s \in SUBSET S |-> h[s]]
    OBVIOUS
  <2>6. Upto(h, n)
    <3> HIDE DEF h
    <3> QED BY <2>4, <2>5
  <2> QED BY <2>6
<1> QED BY <1>3, <1>4

\* The function chosen is one the fold defines.
LEMMA IterationIs ==
  ASSUME NEW S, IsFiniteSet(S), NEW f
  PROVE  Iterates(Iteration(f, S), f, S)
BY IterationExists DEF Iteration

\* On the subsets they have in common the folds over two sets agree.
LEMMA IterationAgree ==
  ASSUME NEW S, IsFiniteSet(S), NEW T \in SUBSET S, NEW f
  PROVE  \A s \in SUBSET T : Iteration(f, S)[s] = Iteration(f, T)[s]
<1> DEFINE P == {s \in SUBSET T : Iteration(f, S)[s] = Iteration(f, T)[s]}
<1>1. IsFiniteSet(T)
  BY FS_Subset
<1>2. ASSUME NEW s \in SUBSET T, \A t \in SUBSET s : t # s => t \in P PROVE s \in P
  <2>1. /\ Iteration(f, S)[s] = Folded(f, Iteration(f, S), s)
        /\ Iteration(f, T)[s] = Folded(f, Iteration(f, T), s)
    BY <1>1, IterationIs, IteratesAt
  <2>2. ASSUME s # {} PROVE s \ {Picked(s)} \in P
    <3>1. Picked(s) \in s
      BY <2>2 DEF Picked
    <3> QED BY <1>2, <3>1
  <2> QED BY <2>1, <2>2 DEF Folded
<1>3. \A s \in SUBSET T : s \in P
  <2> HIDE DEF P
  <2> QED BY <1>1, <1>2, SubsetInduction
<1> QED BY <1>3

\* One step of the fold.
LEMMA SumStep ==
  ASSUME NEW S, IsFiniteSet(S), NEW f
  PROVE  /\ S = {} => Sum(f, S) = 0
         /\ S # {} => Sum(f, S) = f[Picked(S)] + Sum(f, S \ {Picked(S)})
<1>1. Sum(f, S) = Folded(f, Iteration(f, S), S)
  BY FoldIs, IterationIs, IteratesAt
<1>2. Iteration(f, S)[S \ {Picked(S)}] = Sum(f, S \ {Picked(S)})
  BY IterationAgree, FoldIs
<1> QED BY <1>1, <1>2 DEF Folded

-----------------------------------------------------------------------------
(* What sums are.                                                          *)

\* A sum of integers is an integer.
LEMMA SumType ==
  ASSUME NEW S, IsFiniteSet(S), NEW f, \A x \in S : f[x] \in Int
  PROVE  Sum(f, S) \in Int
<1> DEFINE P == {s \in SUBSET S : Sum(f, s) \in Int}
<1>1. ASSUME NEW s \in SUBSET S, \A t \in SUBSET s : t # s => t \in P PROVE s \in P
  <2>1. IsFiniteSet(s)
    BY FS_Subset
  <2>2. CASE s = {}
    <3>1. Sum(f, s) = 0
      BY <2>1, <2>2, SumStep
    <3> QED BY <3>1
  <2>3. CASE s # {}
    <3>1. Picked(s) \in s
      BY <2>3 DEF Picked
    <3>2. s \ {Picked(s)} \in P
      BY <1>1, <3>1
    <3>3. Sum(f, s) = f[Picked(s)] + Sum(f, s \ {Picked(s)})
      BY <2>1, <2>3, SumStep
    <3> QED BY <3>1, <3>2, <3>3
  <2> QED BY <2>2, <2>3
<1>2. \A s \in SUBSET S : s \in P
  <2> HIDE DEF P
  <2> QED BY <1>1, SubsetInduction
<1> QED BY <1>2

\* Any element may be taken first.
LEMMA SumRemove ==
  ASSUME NEW S, IsFiniteSet(S), NEW f, \A x \in S : f[x] \in Int, NEW a \in S
  PROVE  Sum(f, S) = f[a] + Sum(f, S \ {a})
<1> DEFINE P == {s \in SUBSET S : \A x \in s : Sum(f, s) = f[x] + Sum(f, s \ {x})}
<1>1. ASSUME NEW s \in SUBSET S, \A t \in SUBSET s : t # s => t \in P PROVE s \in P
  <2> SUFFICES ASSUME NEW x \in s PROVE Sum(f, s) = f[x] + Sum(f, s \ {x})
    OBVIOUS
  <2> DEFINE p == Picked(s)
  <2>1. \A t \in SUBSET s : IsFiniteSet(t) /\ Sum(f, t) \in Int
    BY FS_Subset, SumType
  <2>2. p \in s
    BY DEF Picked
  <2>3. Sum(f, s) = f[p] + Sum(f, s \ {p})
    BY <2>1, SumStep
  <2>4. CASE x # p
    <3>1. s \ {p} \in P /\ s \ {x} \in P
      BY <1>1, <2>2
    <3>2. Sum(f, s \ {p}) = f[x] + Sum(f, (s \ {p}) \ {x})
      BY <2>4, <3>1
    <3>3. Sum(f, s \ {x}) = f[p] + Sum(f, (s \ {x}) \ {p})
      BY <2>2, <2>4, <3>1
    <3>4. (s \ {p}) \ {x} = (s \ {x}) \ {p}
      OBVIOUS
    <3>5. /\ Sum(f, (s \ {x}) \ {p}) \in Int /\ f[x] \in Int /\ f[p] \in Int
      BY <2>1, <2>2
    <3> DEFINE k == Sum(f, (s \ {x}) \ {p})
    <3>6. /\ Sum(f, s) = f[p] + (f[x] + k) /\ Sum(f, s \ {x}) = f[p] + k
      BY <2>3, <3>2, <3>3, <3>4
    <3> HIDE DEF p, k
    <3>7. k \in Int /\ f[x] \in Int /\ f[p] \in Int
      BY <3>5 DEF k
    <3> QED BY <3>6, <3>7
  <2> QED BY <2>3, <2>4
<1>2. \A s \in SUBSET S : s \in P
  <2> HIDE DEF P
  <2> QED BY <1>1, SubsetInduction
<1> QED BY <1>2

\* A sum of zeros is zero.
LEMMA SumZero ==
  ASSUME NEW S, IsFiniteSet(S), NEW f, \A x \in S : f[x] = 0
  PROVE  Sum(f, S) = 0
<1> DEFINE P == {s \in SUBSET S : Sum(f, s) = 0}
<1>1. ASSUME NEW s \in SUBSET S, \A t \in SUBSET s : t # s => t \in P PROVE s \in P
  <2>1. IsFiniteSet(s)
    BY FS_Subset
  <2>2. CASE s = {}
    <3>1. Sum(f, s) = 0
      BY <2>1, <2>2, SumStep
    <3> QED BY <3>1
  <2>3. CASE s # {}
    <3>1. Picked(s) \in s
      BY <2>3 DEF Picked
    <3>2. s \ {Picked(s)} \in P
      BY <1>1, <3>1
    <3>3. Sum(f, s) = f[Picked(s)] + Sum(f, s \ {Picked(s)})
      BY <2>1, <2>3, SumStep
    <3> QED BY <3>1, <3>2, <3>3
  <2> QED BY <2>2, <2>3
<1>2. \A s \in SUBSET S : s \in P
  <2> HIDE DEF P
  <2> QED BY <1>1, SubsetInduction
<1> QED BY <1>2

\* The sum of sums.
LEMMA SumPlus ==
  ASSUME NEW S, IsFiniteSet(S), NEW f, NEW g, NEW h,
         \A x \in S : f[x] \in Int /\ g[x] \in Int /\ h[x] = f[x] + g[x]
  PROVE  Sum(h, S) = Sum(f, S) + Sum(g, S)
<1> DEFINE P == {s \in SUBSET S : Sum(h, s) = Sum(f, s) + Sum(g, s)}
<1>1. ASSUME NEW s \in SUBSET S, \A t \in SUBSET s : t # s => t \in P PROVE s \in P
  <2>1. IsFiniteSet(s)
    BY FS_Subset
  <2>2. CASE s = {}
    <3>1. Sum(f, s) = 0 /\ Sum(g, s) = 0 /\ Sum(h, s) = 0
      BY <2>1, <2>2, SumStep
    <3> QED BY <3>1
  <2>3. CASE s # {}
    <3>1. Picked(s) \in s
      BY <2>3 DEF Picked
    <3>2. s \ {Picked(s)} \in P
      BY <1>1, <3>1
    <3>3. /\ Sum(h, s) = h[Picked(s)] + Sum(h, s \ {Picked(s)})
          /\ Sum(f, s) = f[Picked(s)] + Sum(f, s \ {Picked(s)})
          /\ Sum(g, s) = g[Picked(s)] + Sum(g, s \ {Picked(s)})
      BY <2>1, <2>3, SumStep
    <3>4. Sum(f, s \ {Picked(s)}) \in Int /\ Sum(g, s \ {Picked(s)}) \in Int
      <4>1. IsFiniteSet(s \ {Picked(s)})
        BY <2>1, FS_Subset
      <4> QED BY <4>1, SumType
    <3> QED BY <3>1, <3>2, <3>3, <3>4
  <2> QED BY <2>2, <2>3
<1>2. \A s \in SUBSET S : s \in P
  <2> HIDE DEF P
  <2> QED BY <1>1, SubsetInduction
<1> QED BY <1>2

\* The part of a sum of naturals over a subset is no greater than the whole.
LEMMA SumOverSubset ==
  ASSUME NEW S, IsFiniteSet(S), NEW f, \A x \in S : f[x] \in Nat, NEW T \in SUBSET S
  PROVE  Sum(f, T) <= Sum(f, S)
<1> DEFINE P == {s \in SUBSET S : Sum(f, s \cap T) <= Sum(f, s)}
<1>1. ASSUME NEW s \in SUBSET S, \A t \in SUBSET s : t # s => t \in P PROVE s \in P
  <2>0. \A t \in SUBSET S : IsFiniteSet(t) /\ Sum(f, t) \in Int
    BY FS_Subset, SumType
  <2>1. CASE s = {}
    <3>1. s \cap T = s
      BY <2>1
    <3> QED BY <2>0, <3>1
  <2>2. CASE s # {}
    <3>1. PICK x \in s : TRUE
      BY <2>2
    <3> DEFINE r == s \ {x}
    <3>2. r \in P
      BY <1>1
    <3>3. Sum(f, s) = f[x] + Sum(f, r)
      BY <2>0, SumRemove
    <3>4. CASE x \in T
      <4>1. (s \cap T) \ {x} = r \cap T /\ x \in s \cap T
        BY <3>4
      <4>2. \A y \in s \cap T : f[y] \in Int
        OBVIOUS
      <4>3. Sum(f, s \cap T) = f[x] + Sum(f, r \cap T)
        BY <2>0, <4>1, <4>2, SumRemove
      <4>4. f[x] \in Nat /\ Sum(f, r \cap T) \in Int /\ Sum(f, r) \in Int
        BY <2>0
      <4> QED BY <3>2, <3>3, <4>3, <4>4
    <3>5. CASE x \notin T
      <4>1. s \cap T = r \cap T
        BY <3>5
      <4>4. f[x] \in Nat /\ Sum(f, r \cap T) \in Int /\ Sum(f, r) \in Int
        BY <2>0
      <4>2. Sum(f, r \cap T) <= Sum(f, r)
        BY <3>2
      <4> HIDE DEF r
      <4>3. Sum(f, s \cap T) = Sum(f, r \cap T)
        BY <4>1
      <4> QED BY <3>3, <4>2, <4>3, <4>4
    <3> QED BY <3>4, <3>5
  <2> QED BY <2>1, <2>2
<1>2. \A s \in SUBSET S : s \in P
  <2> HIDE DEF P
  <2> QED BY <1>1, SubsetInduction
<1>3. S \in P /\ S \cap T = T
  BY <1>2
<1> QED BY <1>3
\* The part of a sum over a subset, and the rest.
LEMMA SumSplit ==
  ASSUME NEW S, IsFiniteSet(S), NEW f, \A x \in S : f[x] \in Int, NEW T
  PROVE  Sum(f, S) = Sum(f, S \cap T) + Sum(f, S \ T)
<1> DEFINE P == {s \in SUBSET S : Sum(f, s) = Sum(f, s \cap T) + Sum(f, s \ T)}
<1>1. ASSUME NEW s \in SUBSET S, \A t \in SUBSET s : t # s => t \in P PROVE s \in P
  <2>0. \A t \in SUBSET S : IsFiniteSet(t) /\ Sum(f, t) \in Int
    BY FS_Subset, SumType
  <2>1. CASE s = {}
    <3>1. Sum(f, {}) = 0
      BY FS_EmptySet, SumStep
    <3>2. Sum(f, s) = 0 /\ Sum(f, s \cap T) = 0 /\ Sum(f, s \ T) = 0
      <4>1. s = {} /\ s \cap T = {} /\ s \ T = {}
        BY <2>1
      <4> QED BY <3>1, <4>1
    <3> QED BY <3>2
  <2>2. CASE s # {}
    <3>1. PICK x \in s : TRUE
      BY <2>2
    <3> DEFINE r == s \ {x}
    <3>2. r \in P
      BY <1>1
    <3>3. Sum(f, s) = f[x] + Sum(f, r)
      BY <2>0, SumRemove
    <3>4. Sum(f, r) = Sum(f, r \cap T) + Sum(f, r \ T)
      BY <3>2
    <3>5. f[x] \in Int /\ Sum(f, r \cap T) \in Int /\ Sum(f, r \ T) \in Int
      BY <2>0
    <3>6. CASE x \in T
      <4>1. (s \cap T) \ {x} = r \cap T /\ x \in s \cap T /\ s \ T = r \ T
        BY <3>6
      <4>2. Sum(f, s \cap T) = f[x] + Sum(f, r \cap T)
        <5>1. \A y \in s \cap T : f[y] \in Int
          OBVIOUS
        <5> QED BY <2>0, <4>1, <5>1, SumRemove
      <4>3. Sum(f, s \ T) = Sum(f, r \ T)
        BY <4>1
      <4> HIDE DEF r
      <4> QED BY <3>3, <3>4, <3>5, <4>2, <4>3
    <3>7. CASE x \notin T
      <4>1. (s \ T) \ {x} = r \ T /\ x \in s \ T /\ s \cap T = r \cap T
        BY <3>7
      <4>2. Sum(f, s \ T) = f[x] + Sum(f, r \ T)
        <5>1. \A y \in s \ T : f[y] \in Int
          OBVIOUS
        <5> QED BY <2>0, <4>1, <5>1, SumRemove
      <4>3. Sum(f, s \cap T) = Sum(f, r \cap T)
        BY <4>1
      <4> HIDE DEF r
      <4> QED BY <3>3, <3>4, <3>5, <4>2, <4>3
    <3> QED BY <3>6, <3>7
  <2> QED BY <2>1, <2>2
<1>2. \A s \in SUBSET S : s \in P
  <2> HIDE DEF P
  <2> QED BY <1>1, SubsetInduction
<1> QED BY <1>2
=============================================================================
