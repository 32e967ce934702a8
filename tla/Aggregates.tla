------------------------------ MODULE Aggregates ------------------------------
(***************************************************************************)
(* Facts about the least and the greatest element of a set of numbers and  *)
(* about SumFunction, the sum of the values of a function on a finite set. *)
(* A statement about all finite sets is proved by looking at a smallest    *)
(* set for which it fails.                                                 *)
(***************************************************************************)
EXTENDS Integers, FiniteSets, FiniteSetsExt, Functions, FiniteSetTheorems,
        WellFoundedInduction, TLAPS

-----------------------------------------------------------------------------
(* Least and greatest elements *)

\* A non-empty set of natural numbers has a least element.
LEMMA MinOfNats ==
    ASSUME NEW S \in SUBSET Nat, S # {}
    PROVE  Min(S) \in S /\ \A y \in S : Min(S) <= y
<1>1. PICK x \in S : \A y \in S : ~(<<y, x>> \in OpToRel(<, Nat))
  BY NatLessThanWellFounded, WFMin
<1>2. ASSUME NEW y \in S PROVE x <= y
  <2>1. x \in Nat /\ y \in Nat
    OBVIOUS
  <2>2. ~(y < x)
    BY <1>1, <2>1 DEF OpToRel
  <2> QED  BY <2>1, <2>2
<1> QED  BY <1>2 DEF Min

\* A non-empty finite set of natural numbers has a greatest element: one with
\* as few elements above it as possible.
LEMMA MaxOfNats ==
    ASSUME NEW S \in SUBSET Nat, S # {}, IsFiniteSet(S)
    PROVE  Max(S) \in S /\ \A y \in S : y <= Max(S)
<1> DEFINE Above(x) == {y \in S : y > x}
           T == {Above(x) : x \in S}
<1>1. T \subseteq FiniteSubsetsOf(S) /\ T # {}
  <2>1. \A x \in S : Above(x) \in SUBSET S
    OBVIOUS
  <2>2. \A U \in SUBSET S : U \in FiniteSubsetsOf(S)
    BY FS_FiniteSubsetsOfFinite
  <2> QED  BY <2>1, <2>2
<1>2. PICK U \in T : \A V \in T : ~(<<V, U>> \in StrictSubsetOrdering(S))
  <2> HIDE DEF T
  <2> QED  BY <1>1, FS_StrictSubsetOrderingWellFounded, WFMin
<1>3. PICK x \in S : U = Above(x)
  OBVIOUS
<1>4. ASSUME NEW y \in S, y > x PROVE FALSE
  <2>1. Above(y) \subseteq Above(x) /\ y \in Above(x) /\ y \notin Above(y)
    <3>1. x \in Nat /\ y \in Nat
      OBVIOUS
    <3>2. \A z \in S : z \in Nat /\ (z > y => z > x)
      BY <1>4, <3>1
    <3>3. y \in Above(x) /\ ~(y > y)
      BY <1>4, <3>1
    <3> QED  BY <3>2, <3>3
  <2>2. <<Above(y), Above(x)>> \in StrictSubsetOrdering(S)
    BY <2>1 DEF StrictSubsetOrdering
  <2> QED  BY <1>2, <1>3, <2>2
<1>5. \A y \in S : x >= y
  BY <1>4
<1> QED  BY <1>5 DEF Max

\* Among subsets of a finite set there is one that no longer belongs to them
\* when any element is taken away.
LEMMA LeastSubset ==
    ASSUME NEW S, IsFiniteSet(S), NEW T, T \subseteq SUBSET S, T # {}
    PROVE  \E s \in T : \A x \in s : s \ {x} \notin T
<1>1. T \subseteq FiniteSubsetsOf(S)
  BY FS_FiniteSubsetsOfFinite
<1>2. PICK s \in T : \A t \in T : ~(<<t, s>> \in StrictSubsetOrdering(S))
  BY <1>1, FS_StrictSubsetOrderingWellFounded, WFMin
<1>3. ASSUME NEW x \in s PROVE s \ {x} \notin T
  <2>1. <<s \ {x}, s>> \in StrictSubsetOrdering(S)
    BY DEF StrictSubsetOrdering
  <2> QED  BY <1>2, <2>1
<1> QED  BY <1>3

-----------------------------------------------------------------------------
(***************************************************************************)
(* SumFunction(f) adds up f over the subsets of its domain, by taking away *)
(* one element after the other; g holds the sums over all subsets of A.    *)
(***************************************************************************)

Pick(s) == CHOOSE x \in s : TRUE

Sums(g, f, A) ==
    g = [s \in SUBSET A |-> IF s = {} THEN 0 ELSE f[Pick(s)] + g[s \ {Pick(s)}]]

\* The element taken away is one of the set.
LEMMA PickIn ==
    ASSUME NEW s, s # {}
    PROVE  Pick(s) \in s
BY DEF Pick

\* One step of the recursion.
LEMMA SumsUnfold ==
    ASSUME NEW f, NEW A, NEW g, Sums(g, f, A), NEW s \in SUBSET A
    PROVE  /\ s = {} => g[s] = 0
           /\ s # {} => g[s] = f[Pick(s)] + g[s \ {Pick(s)}]
BY DEF Sums

\* The sums over a set depend on nothing but the values on that set.
LEMMA SumsAgree ==
    ASSUME NEW f, NEW h, NEW A, NEW B, IsFiniteSet(A), NEW g1, NEW g2,
           Sums(g1, f, A), Sums(g2, h, B), \A x \in A \cap B : f[x] = h[x]
    PROVE  \A s \in SUBSET (A \cap B) : g1[s] = g2[s]
<1> DEFINE T == {s \in SUBSET (A \cap B) : g1[s] # g2[s]}
<1> SUFFICES ASSUME T # {} PROVE FALSE
  OBVIOUS
<1>1. T \subseteq SUBSET A
  OBVIOUS
<1>2. PICK s \in T : \A x \in s : s \ {x} \notin T
  <2> HIDE DEF T
  <2> QED  BY <1>1, LeastSubset
<1>3. s \in SUBSET A /\ s \in SUBSET B
  OBVIOUS
<1>4. s # {}
  BY <1>3, SumsUnfold
<1>5. Pick(s) \in s
  BY <1>4, PickIn
<1>6. g1[s] = f[Pick(s)] + g1[s \ {Pick(s)}] /\ g2[s] = h[Pick(s)] + g2[s \ {Pick(s)}]
  BY <1>3, <1>4, SumsUnfold
<1>7. g1[s \ {Pick(s)}] = g2[s \ {Pick(s)}]
  BY <1>2, <1>3, <1>5
<1>8. f[Pick(s)] = h[Pick(s)]
  BY <1>3, <1>5
<1> QED  BY <1>6, <1>7, <1>8

\* The recursion defines a function.
LEMMA SumsExist ==
    ASSUME NEW f, NEW S, IsFiniteSet(S)
    PROVE  \E g : Sums(g, f, S)
<1> DEFINE G(A) == CHOOSE g : Sums(g, f, A)
           T == {A \in SUBSET S : ~ \E g : Sums(g, f, A)}
<1> SUFFICES ASSUME T # {} PROVE FALSE
  OBVIOUS
<1>1. T \subseteq FiniteSubsetsOf(S)
  BY FS_FiniteSubsetsOfFinite
<1>2. PICK A \in T : \A B \in T : ~(<<B, A>> \in StrictSubsetOrdering(S))
  <2> HIDE DEF T
  <2> QED  BY <1>1, FS_StrictSubsetOrderingWellFounded, WFMin
<1>3. ASSUME NEW B \in SUBSET A, B # A PROVE Sums(G(B), f, B)
  <2>1. <<B, A>> \in StrictSubsetOrdering(S)
    BY <1>3 DEF StrictSubsetOrdering
  <2>2. B \notin T /\ B \in SUBSET S
    BY <1>2, <2>1
  <2> QED  BY <2>2
<1> DEFINE H == [s \in SUBSET A |-> IF s = {} THEN 0
                                      ELSE f[Pick(s)] + G(s \ {Pick(s)})[s \ {Pick(s)}]]
<1>4. ASSUME NEW s \in SUBSET A, s # {}
      PROVE  G(s \ {Pick(s)})[s \ {Pick(s)}] = H[s \ {Pick(s)}]
  <2> DEFINE B == s \ {Pick(s)}
             C == B \ {Pick(B)}
  <2>1. B \in SUBSET A /\ B # A
    BY <1>4, PickIn
  <2>2. Sums(G(B), f, B)
    BY <1>3, <2>1
  <2>3. CASE B = {}
    <3>1. G(B)[B] = 0 /\ H[B] = 0
      BY <2>1, <2>2, <2>3, SumsUnfold
    <3> QED  BY <3>1
  <2>4. CASE B # {}
    <3>1. Pick(B) \in B
      BY <2>4, PickIn
    <3>2. C \in SUBSET A /\ C # A /\ C \in SUBSET B
      BY <2>1, <3>1
    <3>3. Sums(G(C), f, C)
      BY <1>3, <3>2
    <3>4. IsFiniteSet(B)
      BY <2>1, FS_Subset
    <3> HIDE DEF G, C, B
    <3>5. C \in SUBSET (B \cap C)
      BY <3>2
    <3>6. G(B)[C] = G(C)[C]
      BY <2>2, <3>3, <3>4, <3>5, SumsAgree
    <3>7. G(B)[B] = f[Pick(B)] + G(B)[C]
      <4>1. B \in SUBSET B
        OBVIOUS
      <4>2. G(B)[B] = f[Pick(B)] + G(B)[B \ {Pick(B)}]
        <5> DEFINE gB == G(B)
        <5>1. Sums(gB, f, B)
          BY <2>2
        <5> HIDE DEF gB
        <5>2. gB[B] = f[Pick(B)] + gB[B \ {Pick(B)}]
          BY <2>4, <4>1, <5>1, SumsUnfold
        <5> QED  BY <5>2 DEF gB
      <4> QED  BY <4>2 DEF C
    <3>8. H[B] = f[Pick(B)] + G(C)[C]
      BY <2>1, <2>4 DEF C
    <3>9. G(B)[B] = H[B]
      BY <3>6, <3>7, <3>8
    <3> QED  BY <3>9 DEF B, G
  <2> QED  BY <2>3, <2>4
<1>5. H = [s \in SUBSET A |-> IF s = {} THEN 0 ELSE f[Pick(s)] + H[s \ {Pick(s)}]]
  <2> DEFINE K(s) == G(s \ {Pick(s)})[s \ {Pick(s)}]
             L(s) == H[s \ {Pick(s)}]
  <2>1. \A s \in SUBSET A : s # {} => K(s) = L(s)
    BY <1>4
  <2>2. H = [s \in SUBSET A |-> IF s = {} THEN 0 ELSE f[Pick(s)] + K(s)]
    OBVIOUS
  <2> HIDE DEF H, K, L
  <2>3. H = [s \in SUBSET A |-> IF s = {} THEN 0 ELSE f[Pick(s)] + L(s)]
    BY <2>1, <2>2
  <2> QED  BY <2>3 DEF L
<1>6. Sums(H, f, A)
  <2> HIDE DEF H
  <2> QED  BY <1>5 DEF Sums
<1> QED  BY <1>6

\* Sums of integers are integers.
LEMMA SumsInt ==
    ASSUME NEW S, IsFiniteSet(S), NEW f, \A x \in S : f[x] \in Int, NEW g, Sums(g, f, S)
    PROVE  \A s \in SUBSET S : g[s] \in Int
<1> DEFINE T == {s \in SUBSET S : g[s] \notin Int}
<1> SUFFICES ASSUME T # {} PROVE FALSE
  OBVIOUS
<1>1. T \subseteq SUBSET S
  OBVIOUS
<1>2. PICK s \in T : \A x \in s : s \ {x} \notin T
  <2> HIDE DEF T
  <2> QED  BY <1>1, LeastSubset
<1>3. s \in SUBSET S /\ g[s] \notin Int /\ \A x \in s : g[s \ {x}] \in Int
  BY <1>2
<1>4. s # {}
  <2> HIDE DEF T
  <2>1. s = {} => g[s] = 0
    BY <1>3, SumsUnfold
  <2> QED  BY <1>3, <2>1
<1>5. Pick(s) \in s
  BY <1>4, PickIn
<1>6. g[s] = f[Pick(s)] + g[s \ {Pick(s)}]
  BY <1>3, <1>4, SumsUnfold
<1>7. f[Pick(s)] \in Int /\ g[s \ {Pick(s)}] \in Int
  BY <1>3, <1>5
<1> QED  BY <1>3, <1>6, <1>7

\* It does not matter which element is taken away first.
LEMMA SumsLaw ==
    ASSUME NEW S, IsFiniteSet(S), NEW f, \A x \in S : f[x] \in Int, NEW g, Sums(g, f, S),
           NEW A \in SUBSET S, NEW a \in A
    PROVE  g[A] = f[a] + g[A \ {a}]
<1> DEFINE T == {s \in SUBSET S : ~ \A x \in s : g[s] = f[x] + g[s \ {x}]}
<1> SUFFICES ASSUME T # {} PROVE FALSE
  OBVIOUS
<1>1. T \subseteq SUBSET S
  OBVIOUS
<1>2. PICK s \in T : \A x \in s : s \ {x} \notin T
  <2> HIDE DEF T
  <2> QED  BY <1>1, LeastSubset
<1>3. /\ s \in SUBSET S
      /\ \A x \in s : \A y \in s \ {x} : g[s \ {x}] = f[y] + g[(s \ {x}) \ {y}]
  BY <1>2
<1>4. PICK x \in s : g[s] # f[x] + g[s \ {x}]
  OBVIOUS
<1> HIDE DEF T
<1> DEFINE c == Pick(s)
           r == (s \ {c}) \ {x}
<1>5. c \in s
  BY <1>4, PickIn
<1>6. g[s] = f[c] + g[s \ {c}]
  BY <1>3, <1>4, SumsUnfold
<1>7. x # c
  BY <1>4, <1>6
<1>8. r = (s \ {x}) \ {c}
  OBVIOUS
<1>9. g[s \ {c}] = f[x] + g[r] /\ g[s \ {x}] = f[c] + g[(s \ {x}) \ {c}]
  BY <1>3, <1>4, <1>5, <1>7
<1>10. f[x] \in Int /\ f[c] \in Int /\ g[r] \in Int
  BY <1>3, <1>4, <1>5, SumsInt
<1> HIDE DEF c, r
<1> QED  BY <1>4, <1>6, <1>8, <1>9, <1>10

\* What SumFunction computes.
LEMMA SumIs ==
    ASSUME NEW f
    PROVE  SumFunction(f) = (CHOOSE g : Sums(g, f, DOMAIN f))[DOMAIN f]
BY DEF SumFunction, SumFunctionOnSet, FoldFunctionOnSet, MapThenFoldSet, Sums, Pick

-----------------------------------------------------------------------------
(* Sums over part of a function's domain *)

SumOn(f, A) == SumFunction([x \in A |-> f[x]])

\* The sum over a part is one of the sums over the whole.
LEMMA SumOnIs ==
    ASSUME NEW S, IsFiniteSet(S), NEW f, NEW A \in SUBSET S, NEW g, Sums(g, f, S)
    PROVE  SumOn(f, A) = g[A]
<1> DEFINE h == [x \in A |-> f[x]]
           k == CHOOSE u : Sums(u, h, A)
<1>1. IsFiniteSet(A) /\ A \in SUBSET (A \cap S)
  BY FS_Subset
<1>2. Sums(k, h, A)
  BY <1>1, SumsExist
<1>3. SumOn(f, A) = k[A]
  BY SumIs DEF SumOn
<1>4. \A x \in A \cap S : h[x] = f[x]
  OBVIOUS
<1> HIDE DEF k, h
<1>5. k[A] = g[A]
  BY <1>1, <1>2, <1>4, SumsAgree
<1> QED  BY <1>3, <1>5

\* Nothing adds up to 0.
LEMMA SumOnEmpty ==
    ASSUME NEW f
    PROVE  SumOn(f, {}) = 0
<1>1. PICK g : Sums(g, f, {})
  BY SumsExist, FS_EmptySet
<1>2. {} \in SUBSET {}
  OBVIOUS
<1>3. g[{}] = 0
  BY <1>1, <1>2, SumsUnfold
<1>4. SumOn(f, {}) = g[{}]
  BY <1>1, <1>2, FS_EmptySet, SumOnIs
<1> QED  BY <1>3, <1>4

\* Integers add up to an integer.
LEMMA SumOnInt ==
    ASSUME NEW S, IsFiniteSet(S), NEW f, \A x \in S : f[x] \in Int, NEW A \in SUBSET S
    PROVE  SumOn(f, A) \in Int
<1>1. PICK g : Sums(g, f, S)
  BY SumsExist
<1>2. SumOn(f, A) = g[A]
  BY <1>1, SumOnIs
<1> QED  BY <1>1, <1>2, SumsInt

\* Any element can be taken out of a sum.
LEMMA SumOnLaw ==
    ASSUME NEW S, IsFiniteSet(S), NEW f, \A x \in S : f[x] \in Int,
           NEW A \in SUBSET S, NEW a \in A
    PROVE  SumOn(f, A) = f[a] + SumOn(f, A \ {a})
<1>1. PICK g : Sums(g, f, S)
  BY SumsExist
<1>2. A \ {a} \in SUBSET S
  OBVIOUS
<1>3. SumOn(f, A) = g[A] /\ SumOn(f, A \ {a}) = g[A \ {a}]
  BY <1>1, <1>2, SumOnIs
<1>4. f[a] \in Int /\ g[A] \in Int /\ g[A \ {a}] \in Int
  BY <1>1, <1>2, SumsInt
<1>5. g[A] = f[a] + g[A \ {a}]
  BY <1>1, <1>4, SumsLaw
<1> QED  BY <1>3, <1>5

\* Partial sums grow by one value after the other.
LEMMA SumOnUpTo ==
    ASSUME NEW S, \A x \in S : x \in Nat, IsFiniteSet(S),
           NEW f, \A x \in S : f[x] \in Int, NEW r \in S
    PROVE  SumOn(f, {x \in S : x <= r}) = f[r] + SumOn(f, {x \in S : x < r})
<1> DEFINE A == {x \in S : x <= r}
<1>1. A \in SUBSET S /\ r \in A
  OBVIOUS
<1>2. A \ {r} = {x \in S : x < r}
  <2>1. \A x \in S : x <= r /\ x # r <=> x < r
    OBVIOUS
  <2> QED  BY <2>1
<1> HIDE DEF A
<1>3. SumOn(f, A) = f[r] + SumOn(f, A \ {r})
  BY <1>1, SumOnLaw
<1> QED  BY <1>2, <1>3 DEF A

\* The sum of a function is the sum over its whole domain.
LEMMA SumOnAll ==
    ASSUME NEW S, NEW T, NEW f \in [S -> T]
    PROVE  SumFunction(f) = SumOn(f, S)
<1>1. f = [x \in S |-> f[x]]
  OBVIOUS
<1> QED  BY <1>1 DEF SumOn

\* Larger values add up to a larger sum.
LEMMA SumOnLeq ==
    ASSUME NEW S, IsFiniteSet(S), NEW f, NEW h,
           \A x \in S : f[x] \in Int /\ h[x] \in Int /\ f[x] <= h[x]
    PROVE  SumOn(f, S) <= SumOn(h, S)
<1> DEFINE T == {s \in SUBSET S : ~(SumOn(f, s) <= SumOn(h, s))}
<1> SUFFICES ASSUME T # {} PROVE FALSE
  OBVIOUS
<1>1. T \subseteq SUBSET S
  OBVIOUS
<1>2. PICK s \in T : \A x \in s : s \ {x} \notin T
  <2> HIDE DEF T
  <2> QED  BY <1>1, LeastSubset
<1>3. /\ s \in SUBSET S /\ ~(SumOn(f, s) <= SumOn(h, s))
      /\ \A x \in s : SumOn(f, s \ {x}) <= SumOn(h, s \ {x})
  BY <1>2
<1> HIDE DEF T
<1>4. CASE s = {}
  <2>1. SumOn(f, s) = 0 /\ SumOn(h, s) = 0
    BY <1>4, SumOnEmpty
  <2> QED  BY <1>3, <2>1
<1>5. ASSUME NEW x \in s PROVE FALSE
  <2>1. SumOn(f, s) = f[x] + SumOn(f, s \ {x}) /\ SumOn(h, s) = h[x] + SumOn(h, s \ {x})
    BY <1>3, SumOnLaw
  <2>2. s \ {x} \in SUBSET S
    BY <1>3
  <2>3. SumOn(f, s \ {x}) \in Int /\ SumOn(h, s \ {x}) \in Int
    BY <2>2, SumOnInt
  <2>4. f[x] \in Int /\ h[x] \in Int /\ f[x] <= h[x]
    BY <1>3
  <2> QED  BY <1>3, <2>1, <2>3, <2>4
<1> QED  BY <1>4, <1>5

\* More natural numbers add up to a larger sum.
LEMMA SumOnSubset ==
    ASSUME NEW S, IsFiniteSet(S), NEW f, \A x \in S : f[x] \in Nat,
           NEW A \in SUBSET S, NEW B \in SUBSET A
    PROVE  SumOn(f, B) <= SumOn(f, A)
<1> DEFINE T == {s \in SUBSET S : B \subseteq s /\ ~(SumOn(f, B) <= SumOn(f, s))}
<1> SUFFICES ASSUME T # {} PROVE FALSE
  OBVIOUS
<1>1. T \subseteq SUBSET S
  OBVIOUS
<1>2. PICK s \in T : \A x \in s : s \ {x} \notin T
  <2> HIDE DEF T
  <2> QED  BY <1>1, LeastSubset
<1>3. /\ s \in SUBSET S /\ B \subseteq s /\ ~(SumOn(f, B) <= SumOn(f, s))
      /\ \A x \in s : B \subseteq s \ {x} => SumOn(f, B) <= SumOn(f, s \ {x})
  BY <1>2
<1> HIDE DEF T
<1>4. SumOn(f, B) \in Int
  BY SumOnInt
<1>5. PICK x \in s : x \notin B
  BY <1>3, <1>4
<1>6. SumOn(f, s) = f[x] + SumOn(f, s \ {x})
  BY <1>3, SumOnLaw
<1>7. s \ {x} \in SUBSET S /\ f[x] \in Nat
  BY <1>3
<1>8. SumOn(f, s \ {x}) \in Int
  BY <1>7, SumOnInt
<1>9. SumOn(f, B) <= SumOn(f, s \ {x})
  BY <1>3, <1>5
<1> QED  BY <1>3, <1>4, <1>6, <1>7, <1>8, <1>9

\* The sum of what the values of a function leave of a number.
LEMMA SumOfRests ==
    ASSUME NEW S, IsFiniteSet(S), NEW f, NEW h, NEW n \in Int,
           \A x \in S : f[x] \in Int /\ h[x] = n - f[x]
    PROVE  SumOn(h, S) = Cardinality(S) * n - SumOn(f, S)
<1> DEFINE P(s) == SumOn(h, s) = Cardinality(s) * n - SumOn(f, s)
           T == {s \in SUBSET S : ~P(s)}
<1> SUFFICES ASSUME T # {} PROVE FALSE
  OBVIOUS
<1>1. T \subseteq SUBSET S
  OBVIOUS
<1>2. PICK s \in T : \A x \in s : s \ {x} \notin T
  <2> HIDE DEF T
  <2> QED  BY <1>1, LeastSubset
<1>3. s \in SUBSET S /\ ~P(s) /\ \A x \in s : P(s \ {x})
  BY <1>2
<1> HIDE DEF T
<1>4. CASE s = {}
  <2>1. SumOn(f, s) = 0 /\ SumOn(h, s) = 0 /\ Cardinality(s) = 0
    BY <1>4, SumOnEmpty, FS_EmptySet
  <2> QED  BY <1>3, <2>1
<1>5. ASSUME NEW x \in s PROVE FALSE
  <2> DEFINE r == s \ {x}
  <2>1. r \in SUBSET S /\ IsFiniteSet(s) /\ IsFiniteSet(r)
    BY <1>3, FS_Subset
  <2>2. \A y \in S : f[y] \in Int /\ h[y] \in Int
    OBVIOUS
  <2>3. SumOn(f, s) = f[x] + SumOn(f, r) /\ SumOn(h, s) = h[x] + SumOn(h, r)
    BY <1>3, <2>2, SumOnLaw
  <2>4. SumOn(f, r) \in Int /\ SumOn(h, r) \in Int
    BY <2>1, <2>2, SumOnInt
  <2>5. Cardinality(r) \in Nat /\ Cardinality(s) = Cardinality(r) + 1
    BY <2>1, FS_RemoveElement, FS_CardinalityType
  <2>6. h[x] = n - f[x] /\ f[x] \in Int
    BY <1>3
  <2>7. SumOn(h, r) = Cardinality(r) * n - SumOn(f, r)
    BY <1>3
  <2>8. SumOn(h, s) # Cardinality(s) * n - SumOn(f, s)
    BY <1>3
  <2> HIDE DEF r
  <2> DEFINE k == Cardinality(r)
  <2>9. (k + 1) * n = k * n + n /\ k * n \in Int
    <3> HIDE DEF k
    <3>1. k \in Int
      BY <2>5 DEF k
    <3> QED  BY <3>1
  <2> QED  BY <2>3, <2>4, <2>5, <2>6, <2>7, <2>8, <2>9
<1> QED  BY <1>4, <1>5

-----------------------------------------------------------------------------
(* Means *)

\* A quotient of numbers of which the first is at most b times the second.
LEMMA QuotientBetween ==
    ASSUME NEW s \in Nat, NEW n \in Nat \ {0}, NEW b \in Nat, s <= n * b
    PROVE  s \div n \in 0..b
<1> DEFINE q == s \div n
<1>1. q \in Int /\ s = (n * q) + (s % n) /\ s % n \in 0..(n - 1)
  OBVIOUS
<1> HIDE DEF q
<1> DEFINE p == n * q
           t == n * b
           r == s % n
<1>2. p \in Int /\ t \in Int /\ r \in Int /\ s = p + r /\ 0 <= r /\ r < n /\ s <= t
  BY <1>1
<1>3. q < 0 => p <= -n
  BY <1>1
<1>4. q > b => p >= t + n
  BY <1>1
<1> HIDE DEF p, t, r
<1>5. ~(q < 0) /\ ~(q > b)
  BY <1>2, <1>3, <1>4
<1> QED  BY <1>1, <1>5 DEF q

\* The mean of numbers up to b, rounded down, is a number up to b.
LEMMA MeanWithin ==
    ASSUME NEW S, IsFiniteSet(S), S # {}, NEW b \in Nat, NEW f \in [S -> 0..b]
    PROVE  SumFunction(f) \div Cardinality(S) \in 0..b
<1> DEFINE n == Cardinality(S)
           rest == [x \in S |-> b - f[x]]
<1>1. n \in Nat \ {0}
  BY FS_CardinalityType, FS_EmptySet
<1>2. \A x \in S : f[x] \in Nat /\ f[x] \in Int /\ rest[x] \in Nat /\ rest[x] \in Int
  OBVIOUS
<1>3. \A x \in S : f[x] \in Int /\ rest[x] = b - f[x]
  OBVIOUS
<1> HIDE DEF rest
<1>4. SumOn(f, S) \in Int /\ SumOn(rest, S) \in Int
  <2>1. (\A x \in S : f[x] \in Int) /\ (\A x \in S : rest[x] \in Int)
    BY <1>2
  <2>2. S \in SUBSET S
    OBVIOUS
  <2> QED  BY <2>1, <2>2, SumOnInt
<1>5. 0 <= SumOn(f, S) /\ 0 <= SumOn(rest, S)
  <2>1. (\A x \in S : f[x] \in Nat) /\ (\A x \in S : rest[x] \in Nat)
    BY <1>2
  <2>2. S \in SUBSET S /\ {} \in SUBSET S
    OBVIOUS
  <2> QED  BY <2>1, <2>2, SumOnSubset, SumOnEmpty
<1>6. SumOn(rest, S) = n * b - SumOn(f, S)
  <2>1. b \in Int
    OBVIOUS
  <2> QED  BY <1>3, <2>1, SumOfRests
<1>7. SumOn(f, S) \in Nat /\ SumOn(f, S) <= n * b
  <2> DEFINE t == n * b
  <2>1. t \in Int
    BY <1>1
  <2> HIDE DEF t, n
  <2>2. SumOn(rest, S) = t - SumOn(f, S)
    BY <1>6 DEF t
  <2>3. SumOn(f, S) \in Nat /\ SumOn(f, S) <= t
    BY <1>4, <1>5, <2>1, <2>2
  <2> QED  BY <2>3 DEF t
<1>8. SumFunction(f) = SumOn(f, S)
  BY SumOnAll
<1> HIDE DEF n
<1>9. SumOn(f, S) \div n \in 0..b
  BY <1>1, <1>7, QuotientBetween
<1> QED  BY <1>8, <1>9 DEF n

=============================================================================
