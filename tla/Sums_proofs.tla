----------------------------- MODULE Sums_proofs -----------------------------
(***************************************************************************)
(* Induction over the natural numbers, and sums over finite sets: lemmas   *)
(* for the proofs about descriptors, exchange and values.                  *)
(***************************************************************************)
EXTENDS Integers, FiniteSets, FiniteSetTheorems, WellFoundedInduction, TLAPS

\* Induction over the natural numbers, for a set of them.
LEMMA NatInSet ==
    ASSUME NEW S, 0 \in S, \A n \in Nat : n \in S => n + 1 \in S
    PROVE  \A n \in Nat : n \in S
<1> DEFINE Rest == Nat \ S
<1> SUFFICES ASSUME Rest # {} PROVE FALSE
  OBVIOUS
<1>1. PICK m \in Rest : \A n \in Rest : <<n, m>> \notin OpToRel(<, Nat)
  BY NatLessThanWellFounded, WFMin
<1>2. \A n \in Rest : ~ (n < m)
  BY <1>1 DEF OpToRel
<1>3. m - 1 \in Nat /\ m - 1 \notin Rest
  BY <1>2
<1> QED  BY <1>3

-----------------------------------------------------------------------------
(* Sums.                                                                   *)

\* What MapThenSumSet computes, for the weights w of the subsets of S.
AnyOf(s) == CHOOSE x \in s : TRUE
Sums(g, w, S) ==
    g = [s \in SUBSET S |-> IF s = {} THEN 0 ELSE w[AnyOf(s)] + g[s \ {AnyOf(s)}]]

\* Whichever member of a set is added last
AnyLast(g, w, S) == \A s \in SUBSET S : \A m \in s : g[s] = w[m] + g[s \ {m}]
Agree(g, h, S, T) == \A s \in SUBSET S : s \in SUBSET T => g[s] = h[s]

LEMMA AnyOfIsIn == \A s : s # {} => AnyOf(s) \in s
BY DEF AnyOf

\* A set without one of its members
LEMMA OneLess ==
    ASSUME NEW S, IsFiniteSet(S), NEW s \in SUBSET S, NEW n \in Nat, Cardinality(s) = n + 1
    PROVE  \A x \in s : s \ {x} \in SUBSET S /\ Cardinality(s \ {x}) = n
<1>1. IsFiniteSet(s)
  BY FS_Subset
<1>2. \A x \in s : Cardinality(s \ {x}) = Cardinality(s) - 1
  BY <1>1, FS_RemoveElement
<1> QED  BY <1>2

LEMMA SumsExist ==
    ASSUME NEW S, IsFiniteSet(S), NEW w, \A x \in S : w[x] \in Int
    PROVE  \E g \in [SUBSET S -> Int] : Sums(g, w, S)
<1> DEFINE UpTo(n) == {s \in SUBSET S : Cardinality(s) <= n}
           Good(g, n) == \A s \in UpTo(n) :
               g[s] = IF s = {} THEN 0 ELSE w[AnyOf(s)] + g[s \ {AnyOf(s)}]
           I == {n \in Nat : \E g \in [SUBSET S -> Int] : Good(g, n)}
<1>1. 0 \in I
  <2>1. [s \in SUBSET S |-> 0] \in [SUBSET S -> Int]
    OBVIOUS
  <2>2. ASSUME NEW s \in UpTo(0) PROVE s = {}
    BY FS_Subset, FS_CardinalityType, FS_EmptySet
  <2>3. Good([s \in SUBSET S |-> 0], 0)
    BY <2>2
  <2> QED  BY <2>1, <2>3
<1>2. ASSUME NEW n \in Nat, n \in I PROVE n + 1 \in I
  <2>1. PICK g \in [SUBSET S -> Int] : Good(g, n)
    BY <1>2
  <2> DEFINE new(s) == IF s = {} THEN 0 ELSE w[AnyOf(s)] + g[s \ {AnyOf(s)}]
             h == [s \in SUBSET S |-> new(s)]
  <2>2. ASSUME NEW s \in SUBSET S PROVE new(s) \in Int
    <3>1. CASE s = {}
      BY <3>1
    <3>2. CASE s # {}
      <4>1. AnyOf(s) \in s
        BY <3>2, AnyOfIsIn
      <4>2. w[AnyOf(s)] \in Int /\ g[s \ {AnyOf(s)}] \in Int
        BY <4>1
      <4> QED  BY <3>2, <4>2
    <3> QED  BY <3>1, <3>2
  <2>3. h \in [SUBSET S -> Int] /\ \A s \in SUBSET S : h[s] = new(s)
    <3> HIDE DEF new
    <3> QED  BY <2>2
  <2>4. \A s \in UpTo(n) : h[s] = g[s]
    <3> HIDE DEF h
    <3> QED  BY <2>1, <2>3
  <2>5. ASSUME NEW s \in UpTo(n + 1)
        PROVE  h[s] = IF s = {} THEN 0 ELSE w[AnyOf(s)] + h[s \ {AnyOf(s)}]
    <3>1. s # {} => h[s \ {AnyOf(s)}] = g[s \ {AnyOf(s)}]
      <4> SUFFICES ASSUME s # {} PROVE h[s \ {AnyOf(s)}] = g[s \ {AnyOf(s)}]
        OBVIOUS
      <4>1. PICK x \in s : x = AnyOf(s)
        BY AnyOfIsIn
      <4>2. s \in SUBSET S /\ Cardinality(s) <= n + 1 /\ IsFiniteSet(s)
        BY FS_Subset
      <4>3. Cardinality(s \ {x}) = Cardinality(s) - 1 /\ Cardinality(s) \in Nat
        BY <4>2, FS_RemoveElement, FS_CardinalityType
      <4> HIDE DEF h
      <4> QED  BY <2>4, <4>1, <4>3
    <3> HIDE DEF h
    <3> QED  BY <2>3, <3>1
  <2>6. Good(h, n + 1)
    BY <2>5
  <2>7. h \in [SUBSET S -> Int]
    BY <2>3
  <2> HIDE DEF h, Good
  <2> QED  BY <2>6, <2>7
<1>3. Cardinality(S) \in I
  <2>1. Cardinality(S) \in Nat
    BY FS_CardinalityType
  <2> HIDE DEF I
  <2> QED  BY <1>1, <1>2, <2>1, NatInSet
<1>4. PICK g \in [SUBSET S -> Int] : Good(g, Cardinality(S))
  BY <1>3
<1>5. UpTo(Cardinality(S)) = SUBSET S
  <2>1. \A s \in SUBSET S : Cardinality(s) <= Cardinality(S)
    BY FS_Subset
  <2> QED  BY <2>1
<1>6. \A s \in SUBSET S : g[s] = IF s = {} THEN 0 ELSE w[AnyOf(s)] + g[s \ {AnyOf(s)}]
  BY <1>4, <1>5, Zenon
<1>7. Sums(g, w, S)
  <2>1. g = [s \in SUBSET S |-> g[s]]
    BY <1>4
  <2> QED  BY <1>6, <2>1, Zenon DEF Sums
<1> QED  BY <1>4, <1>7

\* Any two ways to sum up agree on the sets they have in common.
LEMMA SumsAgree ==
    ASSUME NEW S, IsFiniteSet(S), NEW T, NEW w, NEW g, NEW h, Sums(g, w, S), Sums(h, w, T)
    PROVE  Agree(g, h, S, T)
<1> DEFINE Both(n) == \A s \in SUBSET S : s \in SUBSET T /\ Cardinality(s) = n => g[s] = h[s]
           I == {n \in Nat : Both(n)}
<1>1. /\ \A s \in SUBSET S : g[s] = IF s = {} THEN 0 ELSE w[AnyOf(s)] + g[s \ {AnyOf(s)}]
      /\ \A s \in SUBSET T : h[s] = IF s = {} THEN 0 ELSE w[AnyOf(s)] + h[s \ {AnyOf(s)}]
  BY Zenon DEF Sums
<1>2. 0 \in I
  <2>1. \A s \in SUBSET S : Cardinality(s) = 0 => s = {}
    BY FS_Subset, FS_EmptySet
  <2> QED  BY <1>1, <2>1
<1>3. ASSUME NEW n \in Nat, n \in I PROVE n + 1 \in I
  <2> SUFFICES ASSUME NEW s \in SUBSET S, s \in SUBSET T, Cardinality(s) = n + 1
               PROVE  g[s] = h[s]
    OBVIOUS
  <2>1. s # {}
    BY FS_EmptySet
  <2>2. PICK x \in s : x = AnyOf(s)
    BY <2>1, AnyOfIsIn
  <2>3. s \ {x} \in SUBSET S /\ Cardinality(s \ {x}) = n /\ s \ {x} \in SUBSET T
    BY OneLess
  <2>4. g[s \ {x}] = h[s \ {x}]
    BY <1>3, <2>3
  <2> QED  BY <1>1, <2>1, <2>2, <2>4
<1>4. \A n \in Nat : n \in I
  <2> HIDE DEF I
  <2> QED  BY <1>2, <1>3, NatInSet
<1>5. \A s \in SUBSET S : Cardinality(s) \in Nat
  BY FS_Subset, FS_CardinalityType
<1> QED  BY <1>4, <1>5 DEF Agree

\* It does not matter which member of a set is added last.
LEMMA SumsAny ==
    ASSUME NEW S, IsFiniteSet(S), NEW w, \A x \in S : w[x] \in Int,
           NEW g \in [SUBSET S -> Int], Sums(g, w, S)
    PROVE  AnyLast(g, w, S)
<1> DEFINE I == {n \in Nat : \A s \in SUBSET S : \A m \in s :
                     Cardinality(s) = n => g[s] = w[m] + g[s \ {m}]}
<1>1. \A s \in SUBSET S : s # {} => g[s] = w[AnyOf(s)] + g[s \ {AnyOf(s)}]
  BY Zenon DEF Sums
<1>2. 0 \in I
  BY FS_Subset, FS_EmptySet
<1>3. ASSUME NEW n \in Nat, n \in I PROVE n + 1 \in I
  <2> SUFFICES ASSUME NEW s \in SUBSET S, NEW m \in s, Cardinality(s) = n + 1
               PROVE  g[s] = w[m] + g[s \ {m}]
    OBVIOUS
  <2>1. PICK x \in s : x = AnyOf(s)
    BY AnyOfIsIn
  <2>2. g[s] = w[x] + g[s \ {x}]
    BY <1>1, <2>1
  <2>3. CASE x = m
    BY <2>2, <2>3
  <2>4. CASE x # m
    <3>1. /\ s \ {x} \in SUBSET S /\ Cardinality(s \ {x}) = n /\ m \in s \ {x}
          /\ s \ {m} \in SUBSET S /\ Cardinality(s \ {m}) = n /\ x \in s \ {m}
      <4>1. \A y \in s : s \ {y} \in SUBSET S /\ Cardinality(s \ {y}) = n
        BY OneLess
      <4> QED  BY <2>4, <4>1
    <3>2. g[s \ {x}] = w[m] + g[(s \ {x}) \ {m}] /\ g[s \ {m}] = w[x] + g[(s \ {m}) \ {x}]
      BY <1>3, <3>1
    <3>3. (s \ {x}) \ {m} = (s \ {m}) \ {x} /\ (s \ {x}) \ {m} \in SUBSET S
      OBVIOUS
    <3>4. w[m] \in Int /\ w[x] \in Int /\ g[(s \ {x}) \ {m}] \in Int
      BY <3>3
    <3>5. PICK r \in Int : r = g[(s \ {x}) \ {m}] /\ g[(s \ {m}) \ {x}] = r
      BY <3>3, <3>4
    <3> QED  BY <2>2, <3>2, <3>4, <3>5
  <2> QED  BY <2>3, <2>4
<1>4. \A n \in Nat : n \in I
  <2> HIDE DEF I
  <2> QED  BY <1>2, <1>3, NatInSet
<1>5. \A s \in SUBSET S : Cardinality(s) \in Nat
  BY FS_Subset, FS_CardinalityType
<1> QED  BY <1>4, <1>5, ZenonT(60) DEF AnyLast

\* The sum over a set, as MapThenSumSet has it
Total(w, S) == LET g == CHOOSE g : Sums(g, w, S) IN g[S]

LEMMA TotalStep ==
    ASSUME NEW S, IsFiniteSet(S), NEW w, \A x \in S : w[x] \in Int
    PROVE  /\ Total(w, S) \in Int
           /\ Total(w, {}) = 0
           /\ \A m \in S : Total(w, S) = Total(w, S \ {m}) + w[m]
<1>1. \A T \in SUBSET S : IsFiniteSet(T) /\ \A x \in T : w[x] \in Int
  BY FS_Subset
<1>2. ASSUME NEW T \in SUBSET S
      PROVE  \E g \in [SUBSET T -> Int] : Sums(g, w, T) /\ Total(w, T) = g[T]
  <2>1. PICK f \in [SUBSET T -> Int] : Sums(f, w, T)
    BY <1>1, SumsExist
  <2>2. PICK g : g = (CHOOSE h : Sums(h, w, T))
    OBVIOUS
  <2>3. Sums(g, w, T)
    BY <2>1, <2>2
  <2>4. Total(w, T) = g[T]
    BY <2>2 DEF Total
  <2>5. g[T] = f[T]
    <3>1. IsFiniteSet(T) /\ T \in SUBSET T
      BY <1>1
    <3>2. Agree(g, f, T, T)
      BY <2>1, <2>3, <3>1, SumsAgree
    <3> QED  BY <3>1, <3>2 DEF Agree
  <2> QED  BY <2>1, <2>4, <2>5
<1>3. PICK g \in [SUBSET S -> Int] : Sums(g, w, S) /\ Total(w, S) = g[S]
  BY <1>2
<1>4. ASSUME NEW m \in S PROVE Total(w, S) = Total(w, S \ {m}) + w[m]
  <2>1. PICK T \in SUBSET S : T = S \ {m}
    OBVIOUS
  <2>2. PICK h \in [SUBSET T -> Int] : Sums(h, w, T) /\ Total(w, T) = h[T]
    BY <1>2
  <2>3. h[T] = g[T]
    <3>1. Agree(h, g, T, S) /\ T \in SUBSET T
      BY <1>1, <1>3, <2>2, SumsAgree
    <3> QED  BY <3>1 DEF Agree
  <2>4. g[S] = w[m] + g[T]
    <3>1. AnyLast(g, w, S)
      BY <1>3, SumsAny
    <3>2. S \in SUBSET S
      OBVIOUS
    <3> QED  BY <2>1, <3>1, <3>2, Zenon DEF AnyLast
  <2>5. w[m] \in Int /\ g[T] \in Int
    OBVIOUS
  <2> QED  BY <1>3, <2>1, <2>2, <2>3, <2>4, <2>5
<1>5. Total(w, {}) = 0
  <2>1. PICK T \in SUBSET S : T = {}
    OBVIOUS
  <2>2. PICK h \in [SUBSET T -> Int] : Sums(h, w, T) /\ Total(w, T) = h[T]
    BY <1>2
  <2>3. h[T] = 0
    BY <2>1, <2>2 DEF Sums
  <2> QED  BY <2>1, <2>2, <2>3
<1> QED  BY <1>3, <1>4, <1>5

LEMMA TotalIsNat ==
    ASSUME NEW S, IsFiniteSet(S), NEW w, \A x \in S : w[x] \in Nat
    PROVE  Total(w, S) \in Nat
<1> DEFINE I == {n \in Nat : \A T \in SUBSET S : Cardinality(T) = n => Total(w, T) \in Nat}
<1>1. \A T \in SUBSET S : IsFiniteSet(T) /\ \A x \in T : w[x] \in Int
  BY FS_Subset
<1>2. 0 \in I
  <2>1. \A T \in SUBSET S : Cardinality(T) = 0 => T = {}
    BY FS_Subset, FS_EmptySet
  <2>2. Total(w, {}) = 0
    BY TotalStep
  <2> QED  BY <2>1, <2>2
<1>3. ASSUME NEW n \in Nat, n \in I PROVE n + 1 \in I
  <2> SUFFICES ASSUME NEW T \in SUBSET S, Cardinality(T) = n + 1 PROVE Total(w, T) \in Nat
    OBVIOUS
  <2>1. PICK m : m \in T
    BY FS_EmptySet
  <2>2. Total(w, T) = Total(w, T \ {m}) + w[m]
    <3>1. IsFiniteSet(T) /\ \A x \in T : w[x] \in Int
      BY <1>1
    <3>2. \A x \in T : Total(w, T) = Total(w, T \ {x}) + w[x]
      BY <3>1, TotalStep, ZenonT(60)
    <3> QED  BY <2>1, <3>2
  <2>3. T \ {m} \in SUBSET S /\ Cardinality(T \ {m}) = n
    BY <2>1, OneLess
  <2>4. Total(w, T \ {m}) \in Nat
    BY <1>3, <2>3
  <2> QED  BY <2>1, <2>2, <2>4
<1>4. Cardinality(S) \in I
  <2> HIDE DEF I
  <2> QED  BY <1>2, <1>3, NatInSet, FS_CardinalityType
<1> QED  BY <1>4

LEMMA TotalAgrees ==
    ASSUME NEW S, NEW v, NEW w, \A x \in S : v[x] = w[x]
    PROVE  Total(v, S) = Total(w, S)
<1>1. ASSUME NEW g PROVE Sums(g, v, S) <=> Sums(g, w, S)
  <2>1. \A s \in SUBSET S :
           (IF s = {} THEN 0 ELSE v[AnyOf(s)] + g[s \ {AnyOf(s)}])
           = IF s = {} THEN 0 ELSE w[AnyOf(s)] + g[s \ {AnyOf(s)}]
    BY AnyOfIsIn
  <2>2. [s \in SUBSET S |-> IF s = {} THEN 0 ELSE v[AnyOf(s)] + g[s \ {AnyOf(s)}]]
        = [s \in SUBSET S |-> IF s = {} THEN 0 ELSE w[AnyOf(s)] + g[s \ {AnyOf(s)}]]
    BY <2>1, Zenon
  <2> QED  BY <2>2 DEF Sums
<1>2. (CHOOSE g : Sums(g, v, S)) = (CHOOSE g : Sums(g, w, S))
  BY <1>1, Zenon
<1> QED  BY <1>2 DEF Total
=============================================================================
