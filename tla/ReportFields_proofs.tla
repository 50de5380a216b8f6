------------------------- MODULE ReportFields_proofs -------------------------
(***************************************************************************)
(* What each further item of a report descriptor does to the globals, the  *)
(* usages and the usage path that ReportFields reads off the items before  *)
(* it: lemmas for the proofs about the parser, which computes them in one  *)
(* pass.                                                                   *)
(***************************************************************************)
EXTENDS ReportFields, Sums_proofs, SequenceTheorems

\* A set of positions is finite, and has a greatest one if it has any.
LEMMA GreatestOf ==
    ASSUME NEW b \in Nat, NEW S \in SUBSET (1..b)
    PROVE  /\ IsFiniteSet(S) /\ Cardinality(S) \in Nat
           /\ S # {} => /\ Max(S) \in S
                        /\ \A k \in S : k <= Max(S)
<1>0. \A k \in S : k \in Nat /\ 0 < k /\ k <= b
  OBVIOUS
<1>1. IsFiniteSet(S) /\ Cardinality(S) \in Nat
  <2>1. IsFiniteSet(1..b)
    BY FS_Interval
  <2>2. IsFiniteSet(S)
    BY <2>1, FS_Subset
  <2> QED  BY <2>2, FS_CardinalityType
<1>2. ASSUME S # {} PROVE \E m \in S : \A k \in S : k <= m
  <2> DEFINE I == {n \in Nat : (\E k \in S : k <= n) =>
                                  \E m \in S : m <= n /\ \A k \in S : k <= n => k <= m}
  <2>1. 0 \in I
    BY <1>0
  <2>2. ASSUME NEW n \in Nat, n \in I PROVE n + 1 \in I
    <3>1. CASE n + 1 \in S
      BY <3>1, <1>0
    <3>2. CASE n + 1 \notin S
      <4>1. \A k \in S : k <= n + 1 => k <= n
        BY <3>2, <1>0
      <4>2. \A k \in S : k <= n => k <= n + 1
        BY <1>0
      <4> QED  BY <2>2, <4>1, <4>2, <1>0
    <3> QED  BY <3>1, <3>2
  <2>3. b \in I
    <3> HIDE DEF I
    <3> QED  BY <2>1, <2>2, NatInSet
  <2> QED  BY <1>0, <1>2, <2>3
<1> QED  BY <1>1, <1>2 DEF Max

-----------------------------------------------------------------------------
(* Sets of positions, in order.                                            *)

LEMMA AscendingEmpty == Ascending({}) = <<>>
<1>1. Cardinality({}) = 0
  BY FS_EmptySet
<1> QED  BY <1>1 DEF Ascending

\* A position behind all others comes last.
LEMMA AscendingAppend ==
    ASSUME NEW S \in SUBSET Nat, IsFiniteSet(S),
           NEW m \in Nat, \A k \in S : k < m
    PROVE  /\ Ascending(S \cup {m}) = Append(Ascending(S), m)
           /\ Cardinality(S \cup {m}) = Cardinality(S) + 1
<1> DEFINE c == Cardinality(S)
           U == S \cup {m}
           Upto(T, k) == {j \in T : j <= k}
<1>1. c \in Nat /\ Cardinality(U) = c + 1 /\ m \notin S
  BY FS_CardinalityType, FS_AddElement
<1>2. ASSUME NEW k \in S PROVE Upto(U, k) = Upto(S, k) /\ Cardinality(Upto(S, k)) <= c
                                /\ Cardinality(Upto(S, k)) \in Nat
  <2>1. Upto(U, k) = Upto(S, k)
    OBVIOUS
  <2>2. Upto(S, k) \in SUBSET S
    OBVIOUS
  <2> QED  BY <2>1, <2>2, FS_Subset, FS_CardinalityType
<1>3. Upto(U, m) = U
  <2>1. \A j \in U : j <= m
    OBVIOUS
  <2> QED  BY <2>1, Zenon
<1> DEFINE At(T, n) == CHOOSE k \in T : Cardinality(Upto(T, k)) = n
<1>4. ASSUME NEW n \in 1..c PROVE At(U, n) = At(S, n)
  <2>1. n # c + 1
    BY <1>1
  <2>2. \A k : (k \in U /\ Cardinality(Upto(U, k)) = n)
                    <=> (k \in S /\ Cardinality(Upto(S, k)) = n)
    BY <1>1, <1>2, <1>3, <2>1, ZenonT(60)
  <2> QED  BY <2>2
<1>5. At(U, c + 1) = m
  <2>1. \A k \in U : Cardinality(Upto(U, k)) = c + 1 <=> k = m
    <3> TAKE k \in U
    <3>1. CASE k = m  BY <3>1, <1>1, <1>3
    <3>2. CASE k # m  
      <4>1. k \in S
        BY <3>2
      <4>2. Cardinality(Upto(U, k)) <= c /\ Cardinality(Upto(U, k)) \in Nat
        BY <4>1, <1>2
      <4> QED  BY <4>2, <3>2, <1>1
    <3> QED  BY <3>1, <3>2
  <2> HIDE DEF Upto
  <2> QED  BY <2>1
<1>6. Ascending(S) = [n \in 1..c |-> At(S, n)] /\ Ascending(U) = [n \in 1..(c + 1) |-> At(U, n)]
  BY <1>1 DEF Ascending
<1> HIDE DEF At, U, c
<1>7. Append([n \in 1..c |-> At(S, n)], m)
        = [n \in 1..(c + 1) |-> IF n <= c THEN At(S, n) ELSE m]
  <2> DEFINE V == {At(S, n) : n \in 1..c} \cup {m}
             s == [n \in 1..c |-> At(S, n)]
  <2>1. s \in [1..c -> V]
    OBVIOUS
  <2>2. s \in Seq(V) /\ Len(s) = c
    BY <2>1, <1>1
  <2> QED  BY <2>2, <1>1
<1> QED
  <2>1. Ascending(U) = [n \in 1..(c + 1) |-> IF n <= c THEN At(S, n) ELSE m]
    BY <1>1, <1>4, <1>5, <1>6
  <2> QED  BY <2>1, <1>6, <1>7, <1>1 DEF U, c

LEMMA AscendingType ==
    ASSUME NEW b \in Nat, NEW S \in SUBSET (1..b)
    PROVE  Ascending(S) \in Seq(S) /\ Len(Ascending(S)) = Cardinality(S)
<1> DEFINE Below(n) == {k \in S : k < n}
           Fine(T) == Ascending(T) \in Seq(S) /\ Len(Ascending(T)) = Cardinality(T)
           I == {n \in Nat : Fine(Below(n))}
<1>0. \A k \in S : k \in Nat /\ 0 < k /\ k <= b
  OBVIOUS
<1>1. Below(0) = {}
  <2>1. \A k \in S : ~ (k < 0)
    BY <1>0
  <2> QED  BY <2>1, Zenon
<1>2. 0 \in I
  <2>1. Fine({})
    <3>1. Ascending({}) = <<>> /\ Cardinality({}) = 0
      BY AscendingEmpty, FS_EmptySet
    <3>2. <<>> \in Seq(S) /\ Len(<<>>) = 0
      OBVIOUS
    <3> QED  BY <3>1, <3>2
  <2> QED  BY <1>1, <2>1
<1>3. ASSUME NEW n \in Nat, n \in I PROVE n + 1 \in I
  <2>1. CASE n \notin S
    <3>1. \A k \in S : k < n + 1 <=> k < n
      BY <2>1, <1>0
    <3>2. Below(n + 1) = Below(n)
      BY <3>1, Zenon
    <3>3. Fine(Below(n + 1))
      BY <3>2, <1>3, Zenon
    <3> QED  BY <3>3
  <2>2. CASE n \in S
    <3>0. \A k \in S : k < n + 1 <=> k < n \/ k = n
      BY <2>2, <1>0
    <3>1. Below(n + 1) = Below(n) \cup {n}
      BY <2>2, <3>0, Zenon
    <3>2. Below(n) \in SUBSET S /\ \A k \in Below(n) : k < n
      OBVIOUS
    <3>3. Below(n) \in SUBSET (1..b) /\ Below(n) \in SUBSET Nat
      BY <3>2, <1>0
    <3> HIDE DEF Below
    <3>4. IsFiniteSet(Below(n)) /\ Cardinality(Below(n)) \in Nat
      BY <3>3, GreatestOf
    <3>5. /\ Ascending(Below(n) \cup {n}) = Append(Ascending(Below(n)), n)
          /\ Cardinality(Below(n) \cup {n}) = Cardinality(Below(n)) + 1
      BY <3>2, <3>3, <3>4, AscendingAppend
    <3>6. Fine(Below(n))
      BY <1>3
    <3>7. Append(Ascending(Below(n)), n) \in Seq(S)
          /\ Len(Append(Ascending(Below(n)), n)) = Len(Ascending(Below(n))) + 1
      BY <2>2, <3>6
    <3>8. Fine(Below(n + 1))
      BY <3>1, <3>5, <3>6, <3>7
    <3> QED  BY <3>8
  <2> QED  BY <2>1, <2>2
<1>4. b + 1 \in I
  <2> HIDE DEF I
  <2> QED  BY <1>2, <1>3, NatInSet
<1>5. Below(b + 1) = S
  <2>1. \A k \in S : k < b + 1
    BY <1>0
  <2> QED  BY <2>1, Zenon
<1> QED  BY <1>4, <1>5

-----------------------------------------------------------------------------
(* Sequences put together.                                                 *)

\* What FlattenSeq computes, up to each of the sequences.
Concatenates(f, ss, n) ==
    \A i \in 1..n : f[i] = IF i = 1 THEN ss[i] ELSE f[i - 1] \o ss[i]

LEMMA ConcatenationExists ==
    ASSUME NEW T, NEW ss \in Seq(Seq(T))
    PROVE  \E f \in [1..Len(ss) -> Seq(T)] : Concatenates(f, ss, Len(ss))
<1> DEFINE Done(n) == \E f \in [1..n -> Seq(T)] : Concatenates(f, ss, n)
           I == {n \in Nat : n <= Len(ss) => Done(n)}
<1>1. 0 \in I
  <2>1. [i \in 1..0 |-> <<>>] \in [1..0 -> Seq(T)]
    OBVIOUS
  <2>2. Concatenates([i \in 1..0 |-> <<>>], ss, 0)
    BY DEF Concatenates
  <2> QED  BY <2>1, <2>2
<1>2. ASSUME NEW n \in Nat, n \in I PROVE n + 1 \in I
  <2> SUFFICES ASSUME n + 1 <= Len(ss) PROVE Done(n + 1)
    OBVIOUS
  <2>1. PICK f \in [1..n -> Seq(T)] : Concatenates(f, ss, n)
    BY <1>2
  <2> DEFINE new == IF n = 0 THEN ss[1] ELSE f[n] \o ss[n + 1]
             g == [i \in 1..(n + 1) |-> IF i = n + 1 THEN new ELSE f[i]]
  <2>2. ss[n + 1] \in Seq(T)
    OBVIOUS
  <2>3. new \in Seq(T)
    <3>1. CASE n = 0  BY <3>1, <2>2
    <3>2. CASE n # 0
      <4>1. f[n] \in Seq(T)
        BY <3>2
      <4> QED  BY <4>1, <2>2, <3>2
    <3> QED  BY <3>1, <3>2
  <2>4. /\ g \in [1..(n + 1) -> Seq(T)]
        /\ g[n + 1] = new
        /\ \A i \in 1..n : g[i] = f[i]
    <3> HIDE DEF new
    <3> QED  BY <2>3
  <2> HIDE DEF g
  <2>5. ASSUME NEW i \in 1..(n + 1)
        PROVE  g[i] = IF i = 1 THEN ss[i] ELSE g[i - 1] \o ss[i]
    <3>1. CASE i = n + 1
      <4>1. CASE n = 0
        BY <3>1, <4>1, <2>4
      <4>2. CASE n # 0
        <5>1. g[i - 1] = f[n] /\ i # 1
          BY <2>4, <3>1, <4>2
        <5> QED  BY <5>1, <2>4, <3>1, <4>2
      <4> QED  BY <4>1, <4>2
    <3>2. CASE i \in 1..n
      <4>1. f[i] = IF i = 1 THEN ss[i] ELSE f[i - 1] \o ss[i]
        BY <2>1, <3>2 DEF Concatenates
      <4>2. g[i] = f[i] /\ (i # 1 => g[i - 1] = f[i - 1])
        BY <2>4, <3>2
      <4> QED  BY <4>1, <4>2
    <3> QED  BY <3>1, <3>2
  <2>6. Concatenates(g, ss, n + 1)
    BY <2>5 DEF Concatenates
  <2> QED  BY <2>4, <2>6
<1>3. Len(ss) \in I
  <2> HIDE DEF I
  <2> QED  BY <1>1, <1>2, NatInSet, SMTT(60)
<1> QED  BY <1>3

LEMMA ConcatenationUnique ==
    ASSUME NEW ss, NEW n \in Nat, NEW f, NEW g,
           Concatenates(f, ss, n), Concatenates(g, ss, n)
    PROVE  \A i \in 1..n : f[i] = g[i]
<1> DEFINE I == {i \in Nat : i \in 1..n => f[i] = g[i]}
<1>1. 0 \in I
  OBVIOUS
<1>2. ASSUME NEW i \in Nat, i \in I PROVE i + 1 \in I
  <2> SUFFICES ASSUME i + 1 \in 1..n PROVE f[i + 1] = g[i + 1]
    OBVIOUS
  <2>1. CASE i = 0
    BY <2>1 DEF Concatenates
  <2>2. CASE i # 0
    <3>1. f[i] = g[i] /\ i + 1 # 1 /\ (i + 1) - 1 = i
      BY <1>2, <2>2
    <3>2. f[i + 1] = f[(i + 1) - 1] \o ss[i + 1] /\ g[i + 1] = g[(i + 1) - 1] \o ss[i + 1]
      BY <3>1 DEF Concatenates
    <3> QED  BY <3>1, <3>2
  <2> QED  BY <2>1, <2>2
<1>3. \A i \in Nat : i \in I
  <2> HIDE DEF I
  <2> QED  BY <1>1, <1>2, NatInSet
<1> QED  BY <1>3

LEMMA FlattenIsConcatenation ==
    ASSUME NEW T, NEW ss \in Seq(Seq(T)), Len(ss) # 0,
           NEW f \in [1..Len(ss) -> Seq(T)], Concatenates(f, ss, Len(ss))
    PROVE  FlattenSeq(ss) = f[Len(ss)]
<1> DEFINE Unroll(g) == [i \in 1..Len(ss) |-> IF i = 1 THEN ss[i] ELSE g[i - 1] \o ss[i]]
           flatten == CHOOSE g : g = Unroll(g)
<1>1. FlattenSeq(ss) = flatten[Len(ss)]
  BY DEF FlattenSeq
<1>2. f = Unroll(f)
  BY DEF Concatenates
<1>3. flatten = Unroll(flatten)
  <2> HIDE DEF Unroll
  <2> QED  BY <1>2
<1> HIDE DEF flatten
<1>4. Concatenates(flatten, ss, Len(ss))
  BY <1>3 DEF Concatenates
<1> QED  BY <1>1, <1>4, ConcatenationUnique

LEMMA FlattenAppend ==
    ASSUME NEW T, NEW ss \in Seq(Seq(T)), NEW s \in Seq(T)
    PROVE  /\ FlattenSeq(ss) \in Seq(T)
           /\ FlattenSeq(Append(ss, s)) = FlattenSeq(ss) \o s
<1> DEFINE n == Len(ss)
           tt == Append(ss, s)
<1>1. /\ tt \in Seq(Seq(T)) /\ Len(tt) = n + 1 /\ tt[n + 1] = s
      /\ \A i \in 1..n : tt[i] = ss[i]
      /\ n \in Nat
  OBVIOUS
<1> HIDE DEF tt, n
<1>2. PICK f \in [1..(n + 1) -> Seq(T)] : Concatenates(f, tt, n + 1)
  BY <1>1, ConcatenationExists, ZenonT(60)
<1>3. FlattenSeq(tt) = f[n + 1]
  <2>1. Len(tt) # 0 /\ f \in [1..Len(tt) -> Seq(T)] /\ Concatenates(f, tt, Len(tt))
    BY <1>1, <1>2
  <2> QED  BY <1>1, <2>1, FlattenIsConcatenation
<1>4. CASE n = 0
  <2>1. ss = <<>>
    BY <1>4 DEF n
  <2>2. FlattenSeq(ss) = ss
    BY <1>4 DEF FlattenSeq, n
  <2>3. f[n + 1] = s
    BY <1>1, <1>2, <1>4 DEF Concatenates
  <2>4. <<>> \in Seq(T) /\ <<>> \o s = s
    BY ConcatEmptySeq, EmptySeq
  <2> QED  BY <1>3, <2>1, <2>2, <2>3, <2>4 DEF tt
<1>5. CASE n # 0
  <2> DEFINE g == [i \in 1..n |-> f[i]]
  <2>1. g \in [1..n -> Seq(T)] /\ \A i \in 1..n : g[i] = f[i]
    BY <1>1
  <2> HIDE DEF g
  <2>2. ASSUME NEW i \in 1..n
        PROVE  g[i] = IF i = 1 THEN ss[i] ELSE g[i - 1] \o ss[i]
    <3>1. f[i] = IF i = 1 THEN tt[i] ELSE f[i - 1] \o tt[i]
      <4>1. i \in 1..(n + 1)
        BY <1>1
      <4> QED  BY <1>2, <4>1 DEF Concatenates
    <3>2. g[i] = f[i] /\ tt[i] = ss[i] /\ (i # 1 => g[i - 1] = f[i - 1])
      <4>1. i # 1 => i - 1 \in 1..n
        BY <1>1, SMTT(60)
      <4> QED  BY <1>1, <2>1, <4>1
    <3> QED  BY <3>1, <3>2
  <2>3. FlattenSeq(ss) = g[n]
    <3>1. Concatenates(g, ss, n)
      BY <2>2 DEF Concatenates
    <3> QED  BY <1>1, <1>5, <2>1, <3>1, FlattenIsConcatenation DEF n
  <2>4. f[n + 1] = f[n] \o s
    <3>1. n + 1 \in 1..(n + 1) /\ n + 1 # 1 /\ (n + 1) - 1 = n
      <4>1. n \in Nat /\ n # 0
        BY <1>1, <1>5
      <4> QED  BY <4>1
    <3>2. f[n + 1] = f[(n + 1) - 1] \o tt[n + 1]
      BY <1>2, <3>1 DEF Concatenates
    <3> QED  BY <1>1, <3>1, <3>2
  <2>5. f[n] \in Seq(T) /\ g[n] = f[n]
    BY <1>1, <1>5, <2>1
  <2> QED  BY <1>3, <2>3, <2>4, <2>5 DEF tt
<1> QED  BY <1>4, <1>5

-----------------------------------------------------------------------------
(* The sequences of several positions, put together in their order.        *)

Gathered(w, S) == FlattenSeq([j \in DOMAIN Ascending(S) |-> w[Ascending(S)[j]]])

LEMMA GatheredEmpty == \A w : Gathered(w, {}) = <<>>
<1>1. \A w : [j \in DOMAIN Ascending({}) |-> w[Ascending({})[j]]] = <<>>
  BY AscendingEmpty
<1>2. FlattenSeq(<<>>) = <<>>
  BY DEF FlattenSeq
<1> QED  BY <1>1, <1>2, Zenon DEF Gathered

LEMMA GatheredAppend ==
    ASSUME NEW T, NEW m \in Nat \ {0}, NEW S \in SUBSET (1..(m - 1)),
           NEW w, \A j \in 1..m : w[j] \in Seq(T)
    PROVE  /\ Gathered(w, S) \in Seq(T)
           /\ Gathered(w, S \cup {m}) = Gathered(w, S) \o w[m]
<1> DEFINE here == Ascending(S)
           ss == [j \in DOMAIN here |-> w[here[j]]]
<1>0. m - 1 \in Nat /\ m \in Nat /\ S \in SUBSET Nat /\ \A j \in S : j < m
  OBVIOUS
<1>1. here \in Seq(S) /\ IsFiniteSet(S)
  BY <1>0, AscendingType, GreatestOf
<1>2. Ascending(S \cup {m}) = Append(here, m)
  BY <1>0, <1>1, AscendingAppend
<1> HIDE DEF here
<1>3. \A n \in 1..Len(here) : here[n] \in 1..m
  <2>1. \A n \in 1..Len(here) : here[n] \in S
    BY <1>1
  <2>2. \A j \in S : j \in 1..m
    BY <1>0
  <2> QED  BY <2>1, <2>2
<1>4. ss \in Seq(Seq(T))
  <2>1. ss = [j \in 1..Len(here) |-> w[here[j]]] /\ Len(here) \in Nat
    BY <1>1
  <2> QED  BY <1>3, <2>1
<1>5. [j \in DOMAIN Append(here, m) |-> w[Append(here, m)[j]]] = Append(ss, w[m])
  <2>1. /\ DOMAIN here = 1..Len(here) /\ DOMAIN Append(here, m) = 1..(Len(here) + 1)
        /\ Append(here, m)[Len(here) + 1] = m
        /\ \A n \in 1..Len(here) : Append(here, m)[n] = here[n]
        /\ Len(here) \in Nat
    BY <1>1
  <2>2. Append(ss, w[m])
          = [n \in 1..(Len(here) + 1) |-> IF n <= Len(here) THEN w[here[n]] ELSE w[m]]
    BY <1>4, <2>1
  <2>3. \A n \in 1..(Len(here) + 1) :
            w[Append(here, m)[n]] = IF n <= Len(here) THEN w[here[n]] ELSE w[m]
    BY <2>1
  <2> QED  BY <2>1, <2>2, <2>3
<1>6. Gathered(w, S) = FlattenSeq(ss)
  BY DEF Gathered, here
<1>7. Gathered(w, S \cup {m}) = FlattenSeq(Append(ss, w[m]))
  BY <1>2, <1>5 DEF Gathered
<1> HIDE DEF ss
<1>8. w[m] \in Seq(T)
  <2>1. m \in 1..m
    BY <1>0
  <2> QED  BY <2>1
<1> QED  BY <1>4, <1>6, <1>7, <1>8, FlattenAppend

-----------------------------------------------------------------------------
(* One more item: what has been tagged, and the globals.                   *)

LEMMA TaggedType ==
    ASSUME NEW d, NEW tags, NEW from \in Nat \ {0}, NEW to \in Int
    PROVE  /\ \A b \in Nat : to <= b => Tagged(d, tags, from, to) \in SUBSET (1..b)
           /\ \A k \in Tagged(d, tags, from, to) : k \in from..to /\ d[k].tag \in tags
BY DEF Tagged

LEMMA TaggedStep ==
    ASSUME NEW d, NEW tags, NEW k \in Nat \ {0}, NEW from \in 1..k
    PROVE  /\ d[k].tag \in tags
                => Tagged(d, tags, from, k) = Tagged(d, tags, from, k - 1) \cup {k}
           /\ d[k].tag \notin tags
                => Tagged(d, tags, from, k) = Tagged(d, tags, from, k - 1)
<1>1. from..k = (from..(k - 1)) \cup {k}
  OBVIOUS
<1>2. CASE d[k].tag \in tags
  BY <1>1, <1>2, Zenon DEF Tagged
<1>3. CASE d[k].tag \notin tags
  BY <1>1, <1>3, Zenon DEF Tagged
<1> QED  BY <1>2, <1>3

LEMMA TaggedOne ==
    ASSUME NEW d, NEW tag, NEW k \in Nat \ {0}, NEW from \in 1..k
    PROVE  /\ d[k].tag = tag
                => Tagged(d, {tag}, from, k) = Tagged(d, {tag}, from, k - 1) \cup {k}
           /\ d[k].tag # tag
                => Tagged(d, {tag}, from, k) = Tagged(d, {tag}, from, k - 1)
<1>1. PICK tags : tags = {tag}
  OBVIOUS
<1>2. /\ d[k].tag \in tags
           => Tagged(d, tags, from, k) = Tagged(d, tags, from, k - 1) \cup {k}
      /\ d[k].tag \notin tags
           => Tagged(d, tags, from, k) = Tagged(d, tags, from, k - 1)
  BY TaggedStep
<1> QED  BY <1>1, <1>2

LEMMA SeenStep ==
    ASSUME NEW d, NEW tag, NEW k \in Nat \ {0}, d[k].tag # tag
    PROVE  Tagged(d, {tag}, 1, k) = Tagged(d, {tag}, 1, k - 1)
<1>1. PICK from \in 1..k : from = 1
  OBVIOUS
<1>2. Tagged(d, {tag}, from, k) = Tagged(d, {tag}, from, k - 1)
  BY TaggedOne
<1> QED  BY <1>1, <1>2

LEMMA MainsStep ==
    ASSUME NEW d, NEW k \in Nat \ {0}
    PROVE  /\ d[k].tag \in MainTag
                => Tagged(d, MainTag, 1, k) = Tagged(d, MainTag, 1, k - 1) \cup {k}
           /\ d[k].tag \notin MainTag
                => Tagged(d, MainTag, 1, k) = Tagged(d, MainTag, 1, k - 1)
<1>1. PICK from \in 1..k : from = 1
  OBVIOUS
<1>2. /\ d[k].tag \in MainTag
           => Tagged(d, MainTag, from, k) = Tagged(d, MainTag, from, k - 1) \cup {k}
      /\ d[k].tag \notin MainTag
           => Tagged(d, MainTag, from, k) = Tagged(d, MainTag, from, k - 1)
  BY TaggedStep
<1> QED  BY <1>1, <1>2, Zenon

\* The greatest of some positions and one behind them
LEMMA MaxOfAppended ==
    ASSUME NEW S \in SUBSET Nat, NEW m \in Nat, \A k \in S : k <= m
    PROVE  Max(S \cup {m}) = m
<1>1. \A x \in S \cup {m} : (\A y \in S \cup {m} : x >= y) <=> x = m
  OBVIOUS
<1> QED  BY <1>1 DEF Max

LEMMA GlobalStep ==
    ASSUME NEW d, NEW k \in Nat \ {0}, NEW tag
    PROVE  GlobalAt(d, k + 1, tag)
              = IF d[k].tag = tag THEN Converted(d[k]) ELSE GlobalAt(d, k, tag)
<1> DEFINE S == Tagged(d, {tag}, 1, k - 1)
<1>1. Tagged(d, {tag}, 1, (k + 1) - 1)
        = IF d[k].tag = tag THEN S \cup {k} ELSE S
  <2>1. (k + 1) - 1 = k /\ 1 \in 1..k
    OBVIOUS
  <2>2. /\ d[k].tag = tag => Tagged(d, {tag}, 1, k) = S \cup {k}
        /\ d[k].tag # tag => Tagged(d, {tag}, 1, k) = S
    <3>1. PICK from \in 1..k : from = 1
      BY <2>1
    <3>2. /\ d[k].tag = tag
              => Tagged(d, {tag}, from, k) = Tagged(d, {tag}, from, k - 1) \cup {k}
          /\ d[k].tag # tag
              => Tagged(d, {tag}, from, k) = Tagged(d, {tag}, from, k - 1)
      BY TaggedOne
    <3> QED  BY <3>1, <3>2
  <2> QED  BY <2>1, <2>2, Zenon
<1>2. S \in SUBSET Nat /\ \A j \in S : j <= k
  <2>1. \A j \in S : j \in 1..(k - 1)
    BY TaggedType
  <2>2. \A j \in S : j \in Nat /\ j <= k
    BY <2>1
  <2> QED  BY <2>2, Zenon
<1> HIDE DEF S
<1>3. CASE d[k].tag = tag
  <2>1. Max(S \cup {k}) = k
    BY <1>2, MaxOfAppended
  <2> QED  BY <1>1, <1>3, <2>1 DEF GlobalAt
<1>4. CASE d[k].tag # tag
  BY <1>1, <1>4 DEF GlobalAt, S
<1> QED  BY <1>3, <1>4

\* The positions at which the usages are given up
Ends == MainTag \cup {"collection", "end"}
LastEnd(d, k) == Max(Tagged(d, Ends, 1, k - 1) \cup {0})
UsagesSince(d, k) == Tagged(d, {"usage"}, LastEnd(d, k) + 1, k - 1)

LEMMA UsagesOfDef ==
    ASSUME NEW d, NEW k
    PROVE  UsagesOf(d, k)
              = [n \in DOMAIN Ascending(UsagesSince(d, k)) |->
                    UsageNode(d[Ascending(UsagesSince(d, k))[n]],
                              GlobalAt(d, Ascending(UsagesSince(d, k))[n], "usagePage"))]
BY DEF UsagesOf, UsagesSince, LastEnd, Ends

LEMMA LastEndType ==
    ASSUME NEW d, NEW k \in Nat \ {0}
    PROVE  LastEnd(d, k) \in 0..(k - 1)
<1> DEFINE S == Tagged(d, Ends, 1, k - 1)
<1>1. S \in SUBSET (1..(k - 1))
  BY TaggedType
<1>a. k - 1 \in Nat /\ \A j \in S : j \in Nat /\ 0 < j
  BY <1>1
<1> HIDE DEF S
<1>2. CASE S = {}
  <2>1. Max({} \cup {0}) = 0
    BY MaxOfAppended
  <2> QED  BY <1>2, <2>1 DEF LastEnd, S
<1>3. CASE S # {}
  <2>1. Max(S) \in S /\ \A j \in S : j <= Max(S)
    BY <1>1, <1>3, <1>a, GreatestOf
  <2>2. \A x \in S \cup {0} : (\A y \in S \cup {0} : x >= y) <=> x = Max(S)
    BY <1>a, <2>1
  <2>3. Max(S \cup {0}) = Max(S)
    BY <2>1, <2>2 DEF Max
  <2> QED  BY <1>1, <2>1, <2>3 DEF LastEnd, S
<1> QED  BY <1>2, <1>3

LEMMA LastEndStep ==
    ASSUME NEW d, NEW k \in Nat \ {0}
    PROVE  LastEnd(d, k + 1) = IF d[k].tag \in Ends THEN k ELSE LastEnd(d, k)
<1>1. (k + 1) - 1 = k /\ 1 \in 1..k
  OBVIOUS
<1>2. CASE d[k].tag \in Ends
  <2>1. LastEnd(d, k + 1) = Max((Tagged(d, Ends, 1, k - 1) \cup {k}) \cup {0})
    BY <1>1, <1>2, TaggedStep DEF LastEnd
  <2> DEFINE S == Tagged(d, Ends, 1, k - 1) \cup {0}
  <2>2. S \in SUBSET Nat /\ \A j \in S : j <= k
    <3>1. \A j \in Tagged(d, Ends, 1, k - 1) : j \in 1..(k - 1)
      BY TaggedType
    <3>2. \A j \in S : j \in Nat /\ j <= k
      BY <3>1
    <3> QED  BY <3>2, Zenon
  <2>3. (Tagged(d, Ends, 1, k - 1) \cup {k}) \cup {0} = S \cup {k}
    BY Zenon
  <2> HIDE DEF S
  <2>4. Max(S \cup {k}) = k
    BY <2>2, MaxOfAppended
  <2> QED  BY <1>2, <2>1, <2>3, <2>4
<1>3. CASE d[k].tag \notin Ends
  BY <1>1, <1>3, TaggedStep DEF LastEnd
<1> QED  BY <1>2, <1>3

\* A usage is added to those since the last main item, collection or end of
\* collection, each of which gives them up; other items leave them alone.
LEMMA UsagesSinceStep ==
    ASSUME NEW d, NEW k \in Nat \ {0}
    PROVE  /\ d[k].tag \in Ends => UsagesSince(d, k + 1) = {}
           /\ d[k].tag = "usage" => UsagesSince(d, k + 1) = UsagesSince(d, k) \cup {k}
           /\ d[k].tag \notin Ends \cup {"usage"} => UsagesSince(d, k + 1) = UsagesSince(d, k)
<1>1. (k + 1) - 1 = k /\ LastEnd(d, k) + 1 \in 1..k
  BY LastEndType
<1>2. ASSUME d[k].tag \in Ends PROVE UsagesSince(d, k + 1) = {}
  <2>1. UsagesSince(d, k + 1) = Tagged(d, {"usage"}, k + 1, k)
    BY <1>1, <1>2, LastEndStep DEF UsagesSince
  <2>2. (k + 1)..k = {}
    OBVIOUS
  <2> QED  BY <2>1, <2>2, Zenon DEF Tagged
<1>3. ASSUME d[k].tag \notin Ends
      PROVE  /\ d[k].tag = "usage" => UsagesSince(d, k + 1) = UsagesSince(d, k) \cup {k}
             /\ d[k].tag # "usage" => UsagesSince(d, k + 1) = UsagesSince(d, k)
  <2>1. UsagesSince(d, k + 1) = Tagged(d, {"usage"}, LastEnd(d, k) + 1, k)
    BY <1>1, <1>3, LastEndStep DEF UsagesSince
  <2> QED  BY <1>1, <2>1, TaggedOne DEF UsagesSince
<1>4. "usage" \notin Ends
  BY DEF Ends, MainTag
<1> QED  BY <1>2, <1>3, <1>4

LEMMA ShortSpanIs == ShortSpan \in Nat /\ ShortSpan > 255
BY SMT DEF ShortSpan

LEMMA ConvertedType ==
    ASSUME NEW i \in Item
    PROVE  /\ i.tag \in {"reportId", "reportSize", "reportCount"}
                => Converted(i) = i.value % 256
           /\ i.tag = "usagePage" => Converted(i) = i.value % ShortSpan
           /\ i.value \in Nat
           /\ Converted(i) \in Int
<1>1. PICK v \in Nat : v = i.value
  BY DEF Item
<1>2. v % 256 \in Int /\ v % ShortSpan \in Int /\ v % 16 \in Int
  BY ShortSpanIs, SMT
<1>3. SignedByte(v) \in Int /\ SignedShort(v) \in Int
  BY <1>2, ShortSpanIs, SMT DEF SignedByte, SignedShort
<1>4. FormatValue(v, i.width) \in Int
  BY <1>3 DEF FormatValue
<1>5. UnitExponent(v) \in Int
  BY <1>2, <1>3 DEF UnitExponent
<1>6. CASE i.tag \in {"reportId", "reportSize", "reportCount"}
  <2>1. Converted(i) = i.value % 256 /\ i.tag # "usagePage"
    BY <1>6, SMT DEF Converted
  <2> QED  BY <1>1, <1>2, <2>1, SMT
<1>7. CASE i.tag = "usagePage"
  <2>1. Converted(i) = i.value % ShortSpan
    BY <1>7, SMT DEF Converted
  <2> QED  BY <1>1, <1>2, <1>7, <2>1, SMT
<1>8. CASE i.tag \notin {"reportId", "reportSize", "reportCount", "usagePage"}
  <2>1. Converted(i) \in {UnitExponent(v), v, FormatValue(v, i.width)}
    BY <1>1, <1>8, SMT DEF Converted
  <2> QED  BY <1>1, <1>4, <1>5, <1>8, <2>1, SMT
<1> QED  BY <1>6, <1>7, <1>8, SMT

LEMMA GlobalType ==
    ASSUME NEW d \in Seq(Item), NEW k \in 1..(Len(d) + 1), NEW tag
    PROVE  \/ Tagged(d, {tag}, 1, k - 1) = {} /\ GlobalAt(d, k, tag) = 0
           \/ \E i \in Item : i.tag = tag /\ GlobalAt(d, k, tag) = Converted(i)
<1>1. PICK S : S = Tagged(d, {tag}, 1, k - 1)
  OBVIOUS
<1>2. \A j \in S : j \in 1..(k - 1) /\ d[j].tag = tag
  BY <1>1 DEF Tagged
<1>3. CASE S = {}
  BY <1>1, <1>3 DEF GlobalAt
<1>4. CASE S # {}
  <2>1. k - 1 \in Nat /\ S \in SUBSET (1..(k - 1))
    BY <1>2
  <2>2. Max(S) \in S
    BY <1>4, <2>1, GreatestOf
  <2>3. GlobalAt(d, k, tag) = Converted(d[Max(S)])
    BY <1>1, <1>4 DEF GlobalAt
  <2>4. d[Max(S)] \in Item /\ d[Max(S)].tag = tag
    BY <1>2, <2>2
  <2> QED  BY <2>3, <2>4
<1> QED  BY <1>3, <1>4

LEMMA PageType ==
    ASSUME NEW d \in Seq(Item), NEW k \in 1..(Len(d) + 1)
    PROVE  GlobalAt(d, k, "usagePage") \in Nat
<1>1. PICK tag : tag = "usagePage"
  OBVIOUS
<1>2. \/ GlobalAt(d, k, tag) = 0
      \/ \E i \in Item : i.tag = tag /\ GlobalAt(d, k, tag) = Converted(i)
  BY GlobalType
<1>3. ASSUME NEW i \in Item, i.tag = "usagePage" PROVE Converted(i) \in Nat
  <2>1. PICK v \in Nat : v = i.value /\ Converted(i) = v % ShortSpan
    BY <1>3, ConvertedType
  <2> QED  BY <2>1, ShortSpanIs
<1> QED  BY <1>1, <1>2, <1>3, SMT

LEMMA UsageNodeType ==
    ASSUME NEW i \in Item, NEW page \in Nat
    PROVE  UsageNode(i, page) \in Node
<1>1. i.value \in Nat
  BY DEF Item
<1>2. i.value \div ShortSpan \in Nat /\ i.value % ShortSpan \in Nat
  BY <1>1, ShortSpanIs
<1> QED  BY <1>2 DEF UsageNode, Node

LEMMA UsagesSinceType ==
    ASSUME NEW d, NEW k \in Nat \ {0}
    PROVE  /\ UsagesSince(d, k) \in SUBSET (1..(k - 1)) /\ k - 1 \in Nat
           /\ Ascending(UsagesSince(d, k)) \in Seq(1..(k - 1))
<1>1. \A j \in UsagesSince(d, k) : j \in (LastEnd(d, k) + 1)..(k - 1)
  BY LastEndType, TaggedType, SMTT(60) DEF UsagesSince
<1>2. UsagesSince(d, k) \in SUBSET (1..(k - 1)) /\ k - 1 \in Nat
  BY <1>1, LastEndType
<1>3. Ascending(UsagesSince(d, k)) \in Seq(UsagesSince(d, k))
  BY <1>2, AscendingType
<1> QED  BY <1>2, <1>3, SeqMonotonic

LEMMA UsagesType ==
    ASSUME NEW d \in Seq(Item), NEW k \in 1..(Len(d) + 1)
    PROVE  UsagesOf(d, k) \in Seq(Node)
<1> DEFINE here == Ascending(UsagesSince(d, k))
           node(n) == UsageNode(d[here[n]], GlobalAt(d, here[n], "usagePage"))
<1>1. here \in Seq(1..(k - 1))
  BY UsagesSinceType
<1>2. UsagesOf(d, k) = [n \in 1..Len(here) |-> node(n)]
  BY <1>1, UsagesOfDef
<1>3. ASSUME NEW n \in 1..Len(here) PROVE node(n) \in Node
  <2>1. PICK j \in 1..Len(d) : j = here[n]
    BY <1>1
  <2>2. d[j] \in Item /\ GlobalAt(d, j, "usagePage") \in Nat
    <3>1. GlobalAt(d, j, "usagePage") \in Nat
      BY PageType
    <3> QED  BY <3>1
  <2> QED  BY <2>1, <2>2, UsageNodeType
<1>4. Len(here) \in Nat
  BY <1>1
<1> HIDE DEF here, node
<1> QED  BY <1>2, <1>3, <1>4

\* The usages as the parser collects them.
LEMMA UsagesStep ==
    ASSUME NEW d \in Seq(Item), NEW k \in 1..Len(d)
    PROVE  /\ d[k].tag \in Ends => UsagesOf(d, k + 1) = <<>>
           /\ d[k].tag = "usage" =>
                UsagesOf(d, k + 1)
                    = Append(UsagesOf(d, k), UsageNode(d[k], GlobalAt(d, k, "usagePage")))
           /\ d[k].tag \notin Ends \cup {"usage"} => UsagesOf(d, k + 1) = UsagesOf(d, k)
<1> DEFINE here == Ascending(UsagesSince(d, k))
           node(j) == UsageNode(d[j], GlobalAt(d, j, "usagePage"))
<1>1. here \in Seq(1..(k - 1)) /\ UsagesSince(d, k) \in SUBSET (1..(k - 1)) /\ k - 1 \in Nat
  BY UsagesSinceType
<1>2. UsagesOf(d, k) = [n \in DOMAIN here |-> node(here[n])]
  BY UsagesOfDef
<1>3. ASSUME d[k].tag \in Ends PROVE UsagesOf(d, k + 1) = <<>>
  <2>1. Ascending(UsagesSince(d, k + 1)) = <<>>
    <3>1. UsagesSince(d, k + 1) = {}
      BY <1>3, UsagesSinceStep
    <3> QED  BY <3>1, AscendingEmpty
  <2> QED  BY <2>1, UsagesOfDef
<1>4. ASSUME d[k].tag = "usage" PROVE UsagesOf(d, k + 1) = Append(UsagesOf(d, k), node(k))
  <2>1. UsagesSince(d, k + 1) = UsagesSince(d, k) \cup {k}
    BY <1>4, UsagesSinceStep
  <2>2. /\ UsagesSince(d, k) \in SUBSET Nat /\ IsFiniteSet(UsagesSince(d, k))
        /\ \A j \in UsagesSince(d, k) : j < k
    <3>1. \A j \in UsagesSince(d, k) : j \in Nat /\ j < k
      BY <1>1
    <3> QED  BY <1>1, <3>1, GreatestOf
  <2>3. Ascending(UsagesSince(d, k + 1)) = Append(here, k)
    BY <2>1, <2>2, AscendingAppend
  <2>4. UsagesOf(d, k + 1) = [n \in DOMAIN Append(here, k) |-> node(Append(here, k)[n])]
    BY <2>3, UsagesOfDef
  <2> HIDE DEF here, node
  <2>5. /\ DOMAIN here = 1..Len(here) /\ DOMAIN Append(here, k) = 1..(Len(here) + 1)
        /\ Append(here, k)[Len(here) + 1] = k
        /\ \A n \in 1..Len(here) : Append(here, k)[n] = here[n]
        /\ Len(here) \in Nat
    BY <1>1
  <2>6. \A j \in 1..k : node(j) \in Node
    <3> TAKE j \in 1..k
    <3>1. j \in 1..Len(d)
      OBVIOUS
    <3>2. d[j] \in Item /\ GlobalAt(d, j, "usagePage") \in Nat
      <4>1. GlobalAt(d, j, "usagePage") \in Nat
        BY <3>1, PageType
      <4> QED  BY <3>1, <4>1
    <3> QED  BY <3>2, UsageNodeType DEF node
  <2>7. [n \in DOMAIN here |-> node(here[n])] \in Seq(Node)
    BY <1>2, UsagesType
  <2>8. Append([n \in DOMAIN here |-> node(here[n])], node(k))
          = [n \in 1..(Len(here) + 1) |-> IF n <= Len(here) THEN node(here[n]) ELSE node(k)]
    BY <2>5, <2>6, <2>7
  <2>9. \A n \in 1..(Len(here) + 1) :
            node(Append(here, k)[n]) = IF n <= Len(here) THEN node(here[n]) ELSE node(k)
    BY <2>5
  <2> QED  BY <1>2, <2>4, <2>5, <2>8, <2>9
<1>5. ASSUME d[k].tag \notin Ends \cup {"usage"} PROVE UsagesOf(d, k + 1) = UsagesOf(d, k)
  BY <1>5, UsagesSinceStep, UsagesOfDef
<1> QED  BY <1>3, <1>4, <1>5

-----------------------------------------------------------------------------
(* One more item: the collections.                                         *)

Count(d, tag, c, e) == Cardinality(Tagged(d, {tag}, c, e))

\* The collections begun from c to e less those ended there
Balance(d, c, e) == Count(d, "collection", c, e) - Count(d, "end", c, e)

LEMMA CountStep ==
    ASSUME NEW d, NEW tag, NEW e \in Nat \ {0}, NEW c \in 1..e
    PROVE  /\ Count(d, tag, c, e - 1) \in Nat
           /\ d[e].tag = tag => Count(d, tag, c, e) = Count(d, tag, c, e - 1) + 1
           /\ d[e].tag # tag => Count(d, tag, c, e) = Count(d, tag, c, e - 1)
<1>1. PICK T : T = Tagged(d, {tag}, c, e - 1)
  OBVIOUS
<1>2. T \in SUBSET (1..(e - 1)) /\ e \notin T /\ e - 1 \in Nat
  BY <1>1 DEF Tagged
<1>3. IsFiniteSet(T) /\ Cardinality(T) \in Nat
  BY <1>2, GreatestOf
<1>4. Cardinality(T \cup {e}) = Cardinality(T) + 1
  BY <1>2, <1>3, FS_AddElement
<1>5. /\ d[e].tag = tag
           => Tagged(d, {tag}, c, e) = Tagged(d, {tag}, c, e - 1) \cup {e}
      /\ d[e].tag # tag
           => Tagged(d, {tag}, c, e) = Tagged(d, {tag}, c, e - 1)
  BY TaggedOne
<1> QED  BY <1>1, <1>3, <1>4, <1>5, Zenon DEF Count

LEMMA BalanceStep ==
    ASSUME NEW d, NEW e \in Nat \ {0}, NEW c \in 1..e
    PROVE  /\ Balance(d, c, e) \in Int /\ Balance(d, c, e - 1) \in Int
           /\ Balance(d, c, e) = Balance(d, c, e - 1)
                + (IF d[e].tag = "collection" THEN 1 ELSE IF d[e].tag = "end" THEN -1 ELSE 0)
<1>1. ASSUME NEW tag
      PROVE  /\ Count(d, tag, c, e - 1) \in Nat
             /\ d[e].tag = tag => Count(d, tag, c, e) = Count(d, tag, c, e - 1) + 1
             /\ d[e].tag # tag => Count(d, tag, c, e) = Count(d, tag, c, e - 1)
  BY CountStep
<1> QED  BY <1>1 DEF Balance

LEMMA BalanceStart ==
    ASSUME NEW d, NEW c \in Nat \ {0}
    PROVE  Balance(d, c, c - 1) = 0
<1>1. c..(c - 1) = {}
  OBVIOUS
<1>2. \A tags : Tagged(d, tags, c, c - 1) = {}
  BY <1>1, Zenon DEF Tagged
<1>3. Cardinality({}) = 0
  BY FS_EmptySet
<1> QED  BY <1>2, <1>3 DEF Balance, Count

LEMMA BalanceSplit ==
    ASSUME NEW d, NEW c \in Nat \ {0}, NEW m \in Nat, c <= m
    PROVE  \A e \in Nat : m - 1 <= e =>
              /\ Balance(d, c, e) = Balance(d, c, m - 1) + Balance(d, m, e)
              /\ Balance(d, c, e) \in Int /\ Balance(d, m, e) \in Int
<1>0. Balance(d, c, m - 1) \in Int
  <2>1. m \in Nat \ {0} /\ c \in 1..m
    OBVIOUS
  <2> QED  BY <2>1, BalanceStep
<1> DEFINE Holds(e) == /\ Balance(d, c, e) = Balance(d, c, m - 1) + Balance(d, m, e)
                       /\ Balance(d, c, e) \in Int /\ Balance(d, m, e) \in Int
           I == {e \in Nat : m - 1 <= e => Holds(e)}
<1>1. Holds(m - 1)
  BY <1>0, BalanceStart
<1>2. 0 \in I
  <2>1. CASE m = 1
    BY <1>1, <2>1
  <2>2. CASE m # 1
    BY <2>2
  <2> QED  BY <2>1, <2>2
<1>3. ASSUME NEW e \in Nat, e \in I PROVE e + 1 \in I
  <2>1. CASE e + 1 < m - 1
    BY <2>1
  <2>2. CASE e + 1 = m - 1
    BY <1>1, <2>2
  <2>3. CASE m - 1 <= e
    <3>1. Holds(e)
      BY <1>3, <2>3
    <3>2. e + 1 \in Nat \ {0} /\ c \in 1..(e + 1) /\ m \in 1..(e + 1) /\ (e + 1) - 1 = e
      BY <2>3
    <3> DEFINE step == IF d[e + 1].tag = "collection" THEN 1
                       ELSE IF d[e + 1].tag = "end" THEN -1 ELSE 0
    <3>3. ASSUME NEW x \in 1..(e + 1)
          PROVE  Balance(d, x, e + 1) = Balance(d, x, (e + 1) - 1) + step
      BY <3>2, BalanceStep
    <3>4. step \in Int
      OBVIOUS
    <3> HIDE DEF step
    <3>5. /\ Balance(d, c, e + 1) = Balance(d, c, e) + step
          /\ Balance(d, m, e + 1) = Balance(d, m, e) + step
      BY <3>2, <3>3
    <3>6. Holds(e + 1)
      BY <1>0, <3>1, <3>4, <3>5
    <3> QED  BY <3>6
  <2> QED  BY <2>1, <2>2, <2>3
<1>4. \A e \in Nat : e \in I
  <2> HIDE DEF I
  <2> QED  BY <1>2, <1>3, NatInSet
<1> QED  BY <1>4

LEMMA OpenIs ==
    ASSUME NEW d, NEW k \in Nat \ {0}
    PROVE  \A c : c \in OpenAt(d, k) <=>
              /\ c \in 1..(k - 1) /\ d[c].tag = "collection"
              /\ \A e \in c..(k - 1) : Balance(d, c, e) > 0
<1>1. ASSUME NEW c \in 1..(k - 1), NEW e \in c..(k - 1)
      PROVE  Count(d, "collection", c, e) > Count(d, "end", c, e) <=> Balance(d, c, e) > 0
  <2>1. e \in Nat \ {0} /\ c \in 1..e
    OBVIOUS
  <2>2. \A tag : Count(d, tag, c, e) \in Nat
    BY <2>1, CountStep
  <2> QED  BY <2>2 DEF Balance
<1>2. \A c : c \in OpenAt(d, k) <=>
        /\ c \in 1..(k - 1) /\ d[c].tag = "collection"
        /\ \A e \in c..(k - 1) : Count(d, "collection", c, e) > Count(d, "end", c, e)
  BY Zenon DEF OpenAt, Tagged, Count
<1> QED  BY <1>1, <1>2

LEMMA OpenType ==
    ASSUME NEW d, NEW k \in Nat \ {0}
    PROVE  /\ OpenAt(d, k) \in SUBSET (1..(k - 1)) /\ k - 1 \in Nat
           /\ IsFiniteSet(OpenAt(d, k))
<1>1. OpenAt(d, k) \in SUBSET (1..(k - 1)) /\ k - 1 \in Nat
  BY OpenIs
<1> QED  BY <1>1, GreatestOf

LEMMA CollectionOpens ==
    ASSUME NEW d, NEW k \in Nat \ {0}, d[k].tag = "collection"
    PROVE  OpenAt(d, k + 1) = OpenAt(d, k) \cup {k}
<1>1. ASSUME NEW c \in 1..k PROVE Balance(d, c, k) = Balance(d, c, k - 1) + 1
                                  /\ Balance(d, c, k - 1) \in Int
  BY BalanceStep
<1>2. Balance(d, k, k - 1) = 0
  BY BalanceStart
<1>3. ASSUME NEW c \in OpenAt(d, k + 1), c # k PROVE c \in OpenAt(d, k)
  <2>1. /\ c \in 1..((k + 1) - 1) /\ d[c].tag = "collection"
        /\ \A e \in c..((k + 1) - 1) : Balance(d, c, e) > 0
    BY OpenIs
  <2>2. c \in 1..(k - 1) /\ \A e \in c..(k - 1) : e \in c..((k + 1) - 1)
    BY <1>3, <2>1
  <2> QED  BY <2>1, <2>2, OpenIs
<1>4. k \in OpenAt(d, k + 1)
  <2>1. k \in 1..((k + 1) - 1) /\ \A e \in k..((k + 1) - 1) : Balance(d, k, e) > 0
    BY <1>1, <1>2
  <2> QED  BY <2>1, OpenIs
<1>5. ASSUME NEW c \in OpenAt(d, k) PROVE c \in OpenAt(d, k + 1)
  <2>1. /\ c \in 1..(k - 1) /\ d[c].tag = "collection"
        /\ \A e \in c..(k - 1) : Balance(d, c, e) > 0
    BY OpenIs
  <2>2. Balance(d, c, k) > 0
    BY <1>1, <2>1
  <2>3. c \in 1..((k + 1) - 1) /\ \A e \in c..((k + 1) - 1) : e \in c..(k - 1) \/ e = k
    BY <2>1
  <2>4. \A e \in c..((k + 1) - 1) : Balance(d, c, e) > 0
    BY <2>1, <2>2, <2>3
  <2> QED  BY <2>1, <2>3, <2>4, OpenIs
<1> QED  BY <1>3, <1>4, <1>5

LEMMA OthersLeaveOpen ==
    ASSUME NEW d, NEW k \in Nat \ {0}, d[k].tag \notin {"collection", "end"}
    PROVE  OpenAt(d, k + 1) = OpenAt(d, k)
<1>1. ASSUME NEW c \in 1..k PROVE Balance(d, c, k) = Balance(d, c, k - 1)
  BY BalanceStep
<1>2. ASSUME NEW c \in OpenAt(d, k + 1) PROVE c \in OpenAt(d, k)
  <2>1. /\ c \in 1..((k + 1) - 1) /\ d[c].tag = "collection"
        /\ \A e \in c..((k + 1) - 1) : Balance(d, c, e) > 0
    BY OpenIs
  <2>2. c # k
    BY <2>1
  <2>3. c \in 1..(k - 1) /\ \A e \in c..(k - 1) : e \in c..((k + 1) - 1)
    BY <2>1, <2>2
  <2> QED  BY <2>1, <2>3, OpenIs
<1>3. ASSUME NEW c \in OpenAt(d, k) PROVE c \in OpenAt(d, k + 1)
  <2>1. /\ c \in 1..(k - 1) /\ d[c].tag = "collection"
        /\ \A e \in c..(k - 1) : Balance(d, c, e) > 0
    BY OpenIs
  <2>2. Balance(d, c, k) > 0
    BY <1>1, <2>1
  <2>3. c \in 1..((k + 1) - 1) /\ \A e \in c..((k + 1) - 1) : e \in c..(k - 1) \/ e = k
    BY <2>1
  <2>4. \A e \in c..((k + 1) - 1) : Balance(d, c, e) > 0
    BY <2>1, <2>2, <2>3
  <2> QED  BY <2>1, <2>3, <2>4, OpenIs
<1> QED  BY <1>2, <1>3

\* Behind the last of the open collections as many have begun as ended.
LEMMA LastOpenBalance ==
    ASSUME NEW d, NEW k \in Nat \ {0}, OpenAt(d, k) # {}
    PROVE  Balance(d, Max(OpenAt(d, k)), k - 1) = 1
<1> DEFINE O == OpenAt(d, k)
<1>1. PICK M \in O : M = Max(O) /\ \A c \in O : c <= M
  BY OpenType, GreatestOf
<1>2. M \in 1..(k - 1) /\ d[M].tag = "collection" /\ \A e \in M..(k - 1) : Balance(d, M, e) > 0
  BY OpenIs
<1>3. \A e \in M..(k - 1) : Balance(d, M, e) \in Int
  <2> TAKE e \in M..(k - 1)
  <2>1. e \in Nat \ {0} /\ M \in 1..e
    BY <1>2
  <2> QED  BY <2>1, BalanceStep
<1> DEFINE E == {e \in M..(k - 1) : Balance(d, M, e) = 1}
<1>4. PICK x \in E : \A e \in E : e <= x
  <2>1. Balance(d, M, M) = 1
    <3>1. M \in Nat \ {0} /\ M \in 1..M
      BY <1>2
    <3> QED  BY <1>2, <3>1, BalanceStep, BalanceStart
  <2>2. M \in E
    BY <1>2, <2>1
  <2>3. \A e \in E : e \in 1..(k - 1)
    BY <1>2
  <2>4. E \in SUBSET (1..(k - 1)) /\ k - 1 \in Nat
    BY <2>3, Zenon, OpenType
  <2> HIDE DEF E
  <2> QED  BY <2>2, <2>4, GreatestOf
<1>5. x \in M..(k - 1) /\ Balance(d, M, x) = 1
  OBVIOUS
<1>6. \A e \in M..(k - 1) : e > x => Balance(d, M, e) >= 2
  <2>1. \A e \in M..(k - 1) : e > x => e \notin E
    BY <1>2, <1>4, <1>5
  <2> QED  BY <1>2, <1>3, <2>1
<1> HIDE DEF E
<1>7. CASE x = k - 1
  BY <1>1, <1>5, <1>7
<1>8. CASE x # k - 1
  <2>1. PICK y \in 1..(k - 1) : y = x + 1
    BY <1>2, <1>5, <1>8
  <2>2. d[y].tag = "collection"
    <3>1. y \in Nat \ {0} /\ M \in 1..y /\ y - 1 = x /\ y \in M..(k - 1) /\ y > x
      BY <1>2, <1>5, <2>1
    <3>2. Balance(d, M, y) >= 2
      BY <1>6, <3>1
    <3>3. Balance(d, M, y) = Balance(d, M, y - 1)
            + (IF d[y].tag = "collection" THEN 1 ELSE IF d[y].tag = "end" THEN -1 ELSE 0)
      BY <3>1, BalanceStep
    <3> QED  BY <1>5, <3>1, <3>2, <3>3
  <2>3. \A e \in y..(k - 1) : Balance(d, y, e) > 0
    <3> TAKE e \in y..(k - 1)
    <3>1. /\ M \in Nat \ {0} /\ y \in Nat /\ M <= y /\ e \in Nat /\ y - 1 <= e
          /\ e \in M..(k - 1) /\ e > x /\ y - 1 = x
      BY <1>2, <1>5, <2>1
    <3>2. /\ Balance(d, M, e) = Balance(d, M, y - 1) + Balance(d, y, e)
          /\ Balance(d, y, e) \in Int
      BY <3>1, BalanceSplit
    <3>3. Balance(d, M, e) >= 2
      BY <1>6, <3>1
    <3> QED  BY <1>5, <3>1, <3>2, <3>3
  <2>4. y \in O
    BY <2>2, <2>3, OpenIs
  <2> QED  BY <1>1, <1>2, <1>5, <2>1, <2>4
<1> QED  BY <1>7, <1>8

LEMMA EndCloses ==
    ASSUME NEW d, NEW k \in Nat \ {0}, d[k].tag = "end", OpenAt(d, k) # {}
    PROVE  OpenAt(d, k + 1) = OpenAt(d, k) \ {Max(OpenAt(d, k))}
<1>1. PICK M \in OpenAt(d, k) : M = Max(OpenAt(d, k)) /\ \A c \in OpenAt(d, k) : c <= M
  BY OpenType, GreatestOf
<1>2. M \in 1..(k - 1) /\ Balance(d, M, k - 1) = 1
  BY <1>1, OpenIs, LastOpenBalance
<1>3. ASSUME NEW c \in 1..k PROVE Balance(d, c, k) = Balance(d, c, k - 1) - 1
                                  /\ Balance(d, c, k - 1) \in Int
  BY BalanceStep
<1>4. ASSUME NEW c \in OpenAt(d, k + 1) PROVE c \in OpenAt(d, k) /\ c # M
  <2>1. /\ c \in 1..((k + 1) - 1) /\ d[c].tag = "collection"
        /\ \A e \in c..((k + 1) - 1) : Balance(d, c, e) > 0
    BY OpenIs
  <2>2. c # k
    BY <2>1
  <2>3. c \in 1..(k - 1) /\ \A e \in c..(k - 1) : e \in c..((k + 1) - 1)
    BY <2>1, <2>2
  <2>4. c \in OpenAt(d, k)
    BY <2>1, <2>3, OpenIs
  <2>5. Balance(d, c, k) > 0
    BY <2>1, <2>3
  <2> QED  BY <1>2, <1>3, <2>3, <2>4, <2>5
<1>5. ASSUME NEW c \in OpenAt(d, k), c # M PROVE c \in OpenAt(d, k + 1)
  <2>1. /\ c \in 1..(k - 1) /\ d[c].tag = "collection"
        /\ \A e \in c..(k - 1) : Balance(d, c, e) > 0
    BY OpenIs
  <2>2. Balance(d, c, k) > 0
    <3>1. c < M
      BY <1>1, <1>2, <1>5, <2>1
    <3>2. /\ c \in Nat \ {0} /\ M \in Nat /\ c <= M /\ k - 1 \in Nat /\ M - 1 <= k - 1
          /\ M - 1 \in c..(k - 1) /\ c \in 1..k
      BY <1>2, <2>1, <3>1
    <3>3. /\ Balance(d, c, k - 1) = Balance(d, c, M - 1) + Balance(d, M, k - 1)
          /\ Balance(d, c, k - 1) \in Int
      BY <3>2, BalanceSplit
    <3>4. Balance(d, c, M - 1) > 0 /\ Balance(d, c, M - 1) \in Int
      <4>1. M \in Nat \ {0} /\ c \in 1..M
        BY <3>2
      <4> QED  BY <2>1, <3>2, <4>1, BalanceStep
    <3> QED  BY <1>2, <1>3, <3>2, <3>3, <3>4
  <2>3. c \in 1..((k + 1) - 1) /\ \A e \in c..((k + 1) - 1) : e \in c..(k - 1) \/ e = k
    BY <2>1
  <2>4. \A e \in c..((k + 1) - 1) : Balance(d, c, e) > 0
    BY <2>1, <2>2, <2>3
  <2> QED  BY <2>1, <2>3, <2>4, OpenIs
<1> QED  BY <1>1, <1>4, <1>5, Zenon

-----------------------------------------------------------------------------
(* One more item: the usage path.                                          *)

\* The nodes of the collection that begins at c, and those of several, the
\* outermost first.
NodesAt(d, c) == CollectionNodes(d[c], UsageFor(d, c, 1))
NodesOver(d, S) ==
    FlattenSeq([j \in DOMAIN Ascending(S) |-> NodesAt(d, Ascending(S)[j])])

LEMMA PathIsNodesOver ==
    ASSUME NEW d, NEW k
    PROVE  PathTo(d, k) = NodesOver(d, OpenAt(d, k))
BY DEF PathTo, NodesOver, NodesAt

LEMMA UsageForType ==
    ASSUME NEW d \in Seq(Item), NEW k \in 1..(Len(d) + 1), NEW n
    PROVE  UsageFor(d, k, n) \in Node
<1>1. NoUsage \in Node
  BY DEF NoUsage, Node
<1>2. UsagesOf(d, k) \in Seq(Node)
  BY UsagesType
<1> QED  BY <1>1, <1>2 DEF UsageFor

LEMMA CollectionNodesAre ==
    ASSUME NEW i \in Item, NEW u \in Node
    PROVE  /\ CollectionNodes(i, u) \in Seq(Node)
           /\ \/ CollectionNodes(i, u) = <<u>> /\ i.value < 128
              \/ \E n \in Node : CollectionNodes(i, u) = <<u, n>> /\ n.page = IndexPage
<1>1. PICK v \in Nat : v = i.value
  BY DEF Item
<1>2. [page |-> IndexPage, usage |-> v % 128] \in Node
  BY DEF Node, IndexPage
<1>3. CASE v >= 128
  <2>1. PICK n \in Node : n = [page |-> IndexPage, usage |-> v % 128]
    BY <1>2
  <2>2. CollectionNodes(i, u) = <<u, n>>
    BY <1>1, <1>3, <2>1 DEF CollectionNodes
  <2>3. n.page = IndexPage
    BY <2>1
  <2> QED  BY <2>2, <2>3
<1>4. CASE v < 128
  <2>1. CollectionNodes(i, u) = <<u>>
    BY <1>1, <1>4 DEF CollectionNodes
  <2> QED  BY <1>1, <1>4, <2>1
<1> QED  BY <1>3, <1>4

LEMMA NodesAtType ==
    ASSUME NEW d \in Seq(Item), NEW c \in 1..Len(d)
    PROVE  NodesAt(d, c) \in Seq(Node)
<1>1. UsageFor(d, c, 1) \in Node
  BY UsageForType
<1> QED  BY <1>1, CollectionNodesAre DEF NodesAt

LEMMA NodesOverEmpty ==
    ASSUME NEW d
    PROVE  NodesOver(d, {}) = <<>>
<1>1. [j \in DOMAIN Ascending({}) |-> NodesAt(d, Ascending({})[j])] = <<>>
  BY AscendingEmpty
<1>2. FlattenSeq(<<>>) = <<>>
  BY DEF FlattenSeq
<1> QED  BY <1>1, <1>2 DEF NodesOver

NodesBy(d) == [c \in 1..Len(d) |-> NodesAt(d, c)]

LEMMA NodesGathered ==
    ASSUME NEW d \in Seq(Item), NEW S \in SUBSET (1..Len(d))
    PROVE  NodesOver(d, S) = Gathered(NodesBy(d), S)
<1>1. Ascending(S) \in Seq(S)
  <2>1. Len(d) \in Nat
    OBVIOUS
  <2> QED  BY <2>1, AscendingType
<1>2. \A j \in DOMAIN Ascending(S) : NodesBy(d)[Ascending(S)[j]] = NodesAt(d, Ascending(S)[j])
  <2>1. \A j \in DOMAIN Ascending(S) : Ascending(S)[j] \in S
    BY <1>1
  <2>2. \A c \in S : NodesBy(d)[c] = NodesAt(d, c)
    BY Zenon DEF NodesBy
  <2> QED  BY <2>1, <2>2, Zenon
<1>3. [j \in DOMAIN Ascending(S) |-> NodesAt(d, Ascending(S)[j])]
        = [j \in DOMAIN Ascending(S) |-> NodesBy(d)[Ascending(S)[j]]]
  BY <1>2, Zenon
<1> QED  BY <1>3, Zenon DEF NodesOver, Gathered

LEMMA NodesOverAppend ==
    ASSUME NEW d \in Seq(Item), NEW m \in 1..Len(d), NEW S \in SUBSET (1..(m - 1))
    PROVE  /\ NodesOver(d, S) \in Seq(Node)
           /\ NodesOver(d, S \cup {m}) = NodesOver(d, S) \o NodesAt(d, m)
<1>1. m \in Nat \ {0} /\ S \in SUBSET (1..Len(d)) /\ S \cup {m} \in SUBSET (1..Len(d))
  OBVIOUS
<1>2. PICK w : w = NodesBy(d)
  OBVIOUS
<1>3. \A j \in 1..m : w[j] \in Seq(Node)
  <2> TAKE j \in 1..m
  <2>1. j \in 1..Len(d)
    OBVIOUS
  <2> QED  BY <1>2, <2>1, NodesAtType, Zenon DEF NodesBy
<1>4. Gathered(w, S) \in Seq(Node)
  BY <1>1, <1>3, GatheredAppend
<1>5. Gathered(w, S \cup {m}) = Gathered(w, S) \o w[m]
  BY <1>1, <1>3, GatheredAppend, ZenonT(60)
<1>6. w[m] = NodesAt(d, m)
  BY <1>2 DEF NodesBy
<1>7. NodesOver(d, S) = Gathered(w, S)
  BY <1>1, <1>2, NodesGathered
<1>8. PICK U \in SUBSET (1..Len(d)) : U = S \cup {m}
  BY <1>1
<1>9. NodesOver(d, U) = Gathered(w, U)
  BY <1>2, NodesGathered
<1> QED  BY <1>4, <1>5, <1>6, <1>7, <1>8, <1>9, Zenon

LEMMA LastOpen ==
    ASSUME NEW d, NEW k \in Nat \ {0}, OpenAt(d, k) # {}
    PROVE  \E m \in 1..(k - 1) :
              /\ m = Max(OpenAt(d, k)) /\ d[m].tag = "collection"
              /\ OpenAt(d, k) = (OpenAt(d, k) \ {m}) \cup {m}
              /\ OpenAt(d, k) \ {m} \in SUBSET (1..(m - 1))
<1>1. PICK m \in OpenAt(d, k) : m = Max(OpenAt(d, k)) /\ \A c \in OpenAt(d, k) : c <= m
  BY OpenType, GreatestOf
<1>2. m \in 1..(k - 1) /\ d[m].tag = "collection"
  BY <1>1, OpenIs
<1>3. OpenAt(d, k) = (OpenAt(d, k) \ {m}) \cup {m}
  BY <1>1, Zenon
<1>4. \A c \in OpenAt(d, k) : c # m => c \in 1..(m - 1)
  <2>1. \A c \in OpenAt(d, k) : c \in Nat /\ 0 < c
    BY OpenType
  <2> QED  BY <1>1, <1>2, <2>1
<1> QED  BY <1>1, <1>2, <1>3, <1>4, Zenon

LEMMA PathType ==
    ASSUME NEW d \in Seq(Item), NEW k \in 1..(Len(d) + 1)
    PROVE  PathTo(d, k) \in Seq(Node)
<1>1. CASE OpenAt(d, k) = {}
  <2>1. PathTo(d, k) = <<>>
    BY <1>1, PathIsNodesOver, NodesOverEmpty, Zenon
  <2> QED  BY <2>1
<1>2. CASE OpenAt(d, k) # {}
  <2>1. PICK m \in 1..(k - 1) :
            /\ OpenAt(d, k) = (OpenAt(d, k) \ {m}) \cup {m}
            /\ OpenAt(d, k) \ {m} \in SUBSET (1..(m - 1))
    BY <1>2, LastOpen
  <2>2. PICK S : S = OpenAt(d, k) \ {m}
    OBVIOUS
  <2>3. m \in 1..Len(d) /\ S \in SUBSET (1..(m - 1))
    BY <2>1, <2>2
  <2>4. /\ NodesOver(d, S) \in Seq(Node) /\ NodesAt(d, m) \in Seq(Node)
        /\ NodesOver(d, S \cup {m}) = NodesOver(d, S) \o NodesAt(d, m)
    BY <2>3, NodesOverAppend, NodesAtType
  <2>5. NodesOver(d, S \cup {m}) \in Seq(Node)
    <3>1. PICK p \in Seq(Node), q \in Seq(Node) : NodesOver(d, S \cup {m}) = p \o q
      BY <2>4
    <3>2. p \o q \in Seq(Node)
      OBVIOUS
    <3> QED  BY <3>1, <3>2
  <2>6. PathTo(d, k) = NodesOver(d, S \cup {m})
    BY <2>1, <2>2, PathIsNodesOver, Zenon
  <2> QED  BY <2>5, <2>6
<1> QED  BY <1>1, <1>2

\* The path as the parser builds it: a collection adds its nodes, an end takes
\* off those of the last collection still open.
LEMMA PathStep ==
    ASSUME NEW d \in Seq(Item), NEW k \in 1..Len(d)
    PROVE  /\ d[k].tag = "collection" => PathTo(d, k + 1) = PathTo(d, k) \o NodesAt(d, k)
           /\ d[k].tag = "end" /\ OpenAt(d, k) # {} =>
                \E c \in 1..(k - 1) :
                    /\ d[c].tag = "collection"
                    /\ PathTo(d, k) = PathTo(d, k + 1) \o NodesAt(d, c)
           /\ d[k].tag \notin {"collection", "end"} => PathTo(d, k + 1) = PathTo(d, k)
<1>0. k \in Nat \ {0} /\ OpenAt(d, k) \in SUBSET (1..(k - 1)) /\ k - 1 \in Nat
  BY OpenType
<1>1. ASSUME d[k].tag = "collection" PROVE PathTo(d, k + 1) = PathTo(d, k) \o NodesAt(d, k)
  BY <1>0, <1>1, CollectionOpens, NodesOverAppend, PathIsNodesOver, ZenonT(60)
<1>2. ASSUME d[k].tag = "end", OpenAt(d, k) # {}
      PROVE  \E c \in 1..(k - 1) :
                /\ d[c].tag = "collection"
                /\ PathTo(d, k) = PathTo(d, k + 1) \o NodesAt(d, c)
  <2>1. PICK m \in 1..(k - 1) :
            /\ m = Max(OpenAt(d, k)) /\ d[m].tag = "collection"
            /\ OpenAt(d, k) = (OpenAt(d, k) \ {m}) \cup {m}
            /\ OpenAt(d, k) \ {m} \in SUBSET (1..(m - 1))
    BY <1>0, <1>2, LastOpen
  <2>2. PICK S : S = OpenAt(d, k + 1)
    OBVIOUS
  <2>3. S = OpenAt(d, k) \ {m}
    BY <1>0, <1>2, <2>1, <2>2, EndCloses
  <2>4. m \in 1..Len(d) /\ S \in SUBSET (1..(m - 1)) /\ OpenAt(d, k) = S \cup {m}
    BY <2>1, <2>3
  <2>5. NodesOver(d, S \cup {m}) = NodesOver(d, S) \o NodesAt(d, m)
    BY <2>4, NodesOverAppend
  <2> QED  BY <2>1, <2>2, <2>4, <2>5, PathIsNodesOver
<1>3. ASSUME d[k].tag \notin {"collection", "end"} PROVE PathTo(d, k + 1) = PathTo(d, k)
  BY <1>0, <1>3, OthersLeaveOpen, PathIsNodesOver
<1> QED  BY <1>1, <1>2, <1>3

-----------------------------------------------------------------------------
(* Sums of report sizes.                                                   *)

\* MapThenSumSet, of the report sizes of objects or fields, as its definition
\* unfolds; and the function that they are the values of
SizeSum(os, S) ==
    (CHOOSE g : g = [s \in SUBSET S |->
                        IF s = {} THEN 0
                        ELSE os[AnyOf(s)].data["reportSize"] + g[s \ {AnyOf(s)}]])[S]
SizesOf(os) == [k \in DOMAIN os |-> os[k].data["reportSize"]]

LEMMA SizeSumIs ==
    ASSUME NEW os, NEW S \in SUBSET DOMAIN os
    PROVE  SizeSum(os, S) = Total(SizesOf(os), S)
<1>1. ASSUME NEW g
      PROVE  [s \in SUBSET S |-> IF s = {} THEN 0
                 ELSE os[AnyOf(s)].data["reportSize"] + g[s \ {AnyOf(s)}]]
             = [s \in SUBSET S |-> IF s = {} THEN 0
                 ELSE SizesOf(os)[AnyOf(s)] + g[s \ {AnyOf(s)}]]
  <2>1. \A s \in SUBSET S : s # {} =>
           os[AnyOf(s)].data["reportSize"] = SizesOf(os)[AnyOf(s)]
    BY AnyOfIsIn DEF SizesOf
  <2>2. \A s \in SUBSET S :
           (IF s = {} THEN 0 ELSE os[AnyOf(s)].data["reportSize"] + g[s \ {AnyOf(s)}])
           = IF s = {} THEN 0 ELSE SizesOf(os)[AnyOf(s)] + g[s \ {AnyOf(s)}]
    BY <2>1, Zenon
  <2> QED  BY <2>2, Zenon
<1>2. (CHOOSE g : g = [s \in SUBSET S |-> IF s = {} THEN 0
                 ELSE os[AnyOf(s)].data["reportSize"] + g[s \ {AnyOf(s)}]])
      = (CHOOSE g : Sums(g, SizesOf(os), S))
  BY <1>1, Zenon DEF Sums
<1> QED  BY <1>2, Zenon DEF SizeSum, Total

-----------------------------------------------------------------------------
(* The bits of the fields of a report.                                     *)

KeyOf(d, j) == <<GlobalAt(d, j, "reportId"), d[j].tag>>
MainsOf(d, key, k) == {j \in Tagged(d, MainTag, 1, k - 1) : KeyOf(d, j) = key}
BitsOf(d) ==
    [j \in 1..Len(d) |-> GlobalAt(d, j, "reportCount") * GlobalAt(d, j, "reportSize")]
BitsIn(d, key, k) == Total(BitsOf(d), MainsOf(d, key, k))

LEMMA MainsOfType ==
    ASSUME NEW d \in Seq(Item), NEW key, NEW k \in 1..(Len(d) + 1)
    PROVE  /\ MainsOf(d, key, k) \in SUBSET (1..(k - 1)) /\ IsFiniteSet(MainsOf(d, key, k))
           /\ MainsOf(d, key, k) \in SUBSET (1..Len(d))
<1>1. k - 1 \in Nat /\ MainsOf(d, key, k) \in SUBSET (1..(k - 1))
  BY DEF MainsOf, Tagged
<1>2. IsFiniteSet(MainsOf(d, key, k))
  BY <1>1, GreatestOf
<1>3. Len(d) \in Nat /\ k - 1 <= Len(d)
  OBVIOUS
<1>4. 1..(k - 1) \subseteq 1..Len(d)
  BY <1>3
<1> QED  BY <1>1, <1>2, <1>4, Zenon

LEMMA ByteGlobal ==
    ASSUME NEW d \in Seq(Item), NEW k \in 1..(Len(d) + 1)
    PROVE  /\ GlobalAt(d, k, "reportId") \in 0..255
           /\ GlobalAt(d, k, "reportSize") \in 0..255
           /\ GlobalAt(d, k, "reportCount") \in 0..255
<1>1. ASSUME NEW tag \in {"reportId", "reportSize", "reportCount"}
      PROVE  GlobalAt(d, k, tag) \in 0..255
  <2>1. \/ GlobalAt(d, k, tag) = 0
        \/ \E i \in Item : i.tag = tag /\ GlobalAt(d, k, tag) = Converted(i)
    BY GlobalType
  <2>2. ASSUME NEW i \in Item, i.tag = tag PROVE Converted(i) \in 0..255
    <3>1. i.tag \in {"reportId", "reportSize", "reportCount"}
      BY <2>2
    <3>2. PICK v \in Nat : Converted(i) = v % 256
      <4>1. Converted(i) = i.value % 256 /\ i.value \in Nat
        BY <3>1, ConvertedType, SMT
      <4> QED  BY <4>1, Zenon
    <3> QED  BY <3>2, SMT
  <2>3. 0 \in 0..255
    OBVIOUS
  <2> QED  BY <2>1, <2>2, <2>3, ZenonT(60)
<1> QED  BY <1>1

LEMMA BitsOfType ==
    ASSUME NEW d \in Seq(Item)
    PROVE  BitsOf(d) \in [1..Len(d) -> Nat]
<1>1. ASSUME NEW j \in 1..Len(d)
      PROVE  GlobalAt(d, j, "reportCount") * GlobalAt(d, j, "reportSize") \in Nat
  <2>1. j \in 1..(Len(d) + 1)
    OBVIOUS
  <2>2. PICK a \in Nat, b \in Nat :
           a = GlobalAt(d, j, "reportCount") /\ b = GlobalAt(d, j, "reportSize")
    <3>1. /\ GlobalAt(d, j, "reportSize") \in 0..255
          /\ GlobalAt(d, j, "reportCount") \in 0..255
      BY <2>1, ByteGlobal, ZenonT(60)
    <3>2. 0..255 \subseteq Nat
      OBVIOUS
    <3> QED  BY <3>1, <3>2, Zenon
  <2> QED  BY <2>2
<1> QED  BY <1>1, Zenon DEF BitsOf

LEMMA BitsBeforeIs ==
    ASSUME NEW d \in Seq(Item), NEW k \in 1..Len(d)
    PROVE  BitsBefore(d, k) = BitsIn(d, KeyOf(d, k), k)
<1> DEFINE Bits(j) == GlobalAt(d, j, "reportCount") * GlobalAt(d, j, "reportSize")
           S == {j \in Tagged(d, MainTag, 1, k - 1) :
                    /\ d[j].tag = d[k].tag
                    /\ GlobalAt(d, j, "reportId") = GlobalAt(d, k, "reportId")}
           Unroll(g) == [s \in SUBSET S |-> IF s = {} THEN 0
                            ELSE Bits(AnyOf(s)) + g[s \ {AnyOf(s)}]]
<1>1. BitsBefore(d, k) = (CHOOSE g : g = Unroll(g))[S]
  BY DEF BitsBefore, MapThenSumSet, MapThenFoldSet, AnyOf
<1>2. S = MainsOf(d, KeyOf(d, k), k)
  BY DEF MainsOf, KeyOf
<1>3. \A g : Unroll(g) = [s \in SUBSET S |-> IF s = {} THEN 0
                            ELSE BitsOf(d)[AnyOf(s)] + g[s \ {AnyOf(s)}]]
  <2> TAKE g
  <2>1. ASSUME NEW s \in SUBSET S, s # {} PROVE Bits(AnyOf(s)) = BitsOf(d)[AnyOf(s)]
    <3>1. k \in 1..(Len(d) + 1)
      OBVIOUS
    <3>2. S \in SUBSET (1..Len(d))
      BY <1>2, <3>1, MainsOfType, Zenon
    <3>3. AnyOf(s) \in 1..Len(d)
      BY <2>1, <3>2, AnyOfIsIn
    <3> QED  BY <3>3 DEF BitsOf
  <2> HIDE DEF S, Bits
  <2>2. \A s \in SUBSET S :
           (IF s = {} THEN 0 ELSE Bits(AnyOf(s)) + g[s \ {AnyOf(s)}])
           = IF s = {} THEN 0 ELSE BitsOf(d)[AnyOf(s)] + g[s \ {AnyOf(s)}]
    BY <2>1, Zenon
  <2> QED  BY <2>2, Zenon
<1> HIDE DEF S, Unroll
<1>4. \A g : g = Unroll(g) <=> Sums(g, BitsOf(d), S)
  BY <1>3 DEF Sums
<1>5. (CHOOSE g : g = Unroll(g)) = (CHOOSE g : Sums(g, BitsOf(d), S))
  BY <1>4, Zenon
<1> QED  BY <1>1, <1>2, <1>5 DEF BitsIn, Total

LEMMA BitsStep ==
    ASSUME NEW d \in Seq(Item), NEW k \in 1..Len(d), NEW key
    PROVE  /\ BitsIn(d, key, k) \in Nat /\ BitsIn(d, key, k + 1) \in Nat
           /\ d[k].tag \in MainTag /\ KeyOf(d, k) = key =>
                BitsIn(d, key, k + 1) = BitsIn(d, key, k)
                    + GlobalAt(d, k, "reportCount") * GlobalAt(d, k, "reportSize")
           /\ d[k].tag \notin MainTag \/ KeyOf(d, k) # key =>
                BitsIn(d, key, k + 1) = BitsIn(d, key, k)
<1>1. PICK S, U : S = MainsOf(d, key, k) /\ U = MainsOf(d, key, k + 1)
  OBVIOUS
<1>2. /\ S \in SUBSET (1..Len(d)) /\ IsFiniteSet(S) /\ k \notin S
      /\ U \in SUBSET (1..Len(d)) /\ IsFiniteSet(U)
  <2>1. PICK j : j = k + 1 /\ j \in 1..(Len(d) + 1)
    OBVIOUS
  <2>2. k \in 1..(Len(d) + 1) /\ k \notin 1..(k - 1)
    OBVIOUS
  <2>3. U \in SUBSET (1..Len(d)) /\ IsFiniteSet(U)
    BY <1>1, <2>1, MainsOfType
  <2>4. S \in SUBSET (1..Len(d)) /\ IsFiniteSet(S) /\ S \in SUBSET (1..(k - 1))
    BY <1>1, <2>2, MainsOfType
  <2> QED  BY <2>2, <2>3, <2>4
<1>3. BitsOf(d) \in [1..Len(d) -> Nat]
  BY BitsOfType
<1>4. Total(BitsOf(d), S) \in Nat /\ Total(BitsOf(d), U) \in Nat
  <2>1. (\A x \in S : BitsOf(d)[x] \in Nat) /\ \A x \in U : BitsOf(d)[x] \in Nat
    BY <1>2, <1>3
  <2> QED  BY <1>2, <2>1, TotalIsNat
<1>5. (k + 1) - 1 = k
  OBVIOUS
<1>6. /\ d[k].tag \in MainTag => Tagged(d, MainTag, 1, k) = Tagged(d, MainTag, 1, k - 1) \cup {k}
      /\ d[k].tag \notin MainTag => Tagged(d, MainTag, 1, k) = Tagged(d, MainTag, 1, k - 1)
  <2>1. k \in Nat \ {0}
    OBVIOUS
  <2> QED  BY <2>1, MainsStep, Zenon
<1>7. CASE d[k].tag \in MainTag /\ KeyOf(d, k) = key
  <2>1. U = S \cup {k}
    BY <1>1, <1>5, <1>6, <1>7 DEF MainsOf
  <2>2. Total(BitsOf(d), U) = Total(BitsOf(d), U \ {k}) + BitsOf(d)[k]
    <3>1. \A x \in U : BitsOf(d)[x] \in Int
      BY <1>2, <1>3
    <3>2. PICK w : w = BitsOf(d) /\ \A x \in U : w[x] \in Int
      BY <3>1
    <3>3. Total(w, U) = Total(w, U \ {k}) + w[k]
      BY <1>2, <2>1, <3>2, TotalStep, Zenon
    <3> QED  BY <3>2, <3>3
  <2>3. U \ {k} = S
    BY <1>2, <2>1
  <2>4. BitsOf(d)[k] = GlobalAt(d, k, "reportCount") * GlobalAt(d, k, "reportSize")
    BY DEF BitsOf
  <2>5. BitsIn(d, key, k + 1) = BitsIn(d, key, k)
            + GlobalAt(d, k, "reportCount") * GlobalAt(d, k, "reportSize")
    BY <1>1, <2>2, <2>3, <2>4, Zenon DEF BitsIn
  <2> QED  BY <1>1, <1>4, <1>7, <2>5, Zenon DEF BitsIn
<1>8. CASE d[k].tag \notin MainTag \/ KeyOf(d, k) # key
  <2>1. U = S
    BY <1>1, <1>5, <1>6, <1>8 DEF MainsOf
  <2> QED  BY <1>1, <1>4, <1>8, <2>1, Zenon DEF BitsIn
<1> QED  BY <1>7, <1>8, Zenon

LEMMA BitsStart == \A d, key : BitsIn(d, key, 1) = 0
<1> SUFFICES ASSUME NEW d, NEW key PROVE BitsIn(d, key, 1) = 0
  OBVIOUS
<1>1. MainsOf(d, key, 1) = {}
  BY DEF MainsOf, Tagged
<1>2. PICK S : S = {} /\ IsFiniteSet(S)
  BY FS_EmptySet
<1>3. \A x \in S : BitsOf(d)[x] \in Int
  BY <1>2
<1>4. Total(BitsOf(d), {}) = 0
  BY <1>2, <1>3, TotalStep, Zenon
<1> QED  BY <1>1, <1>4, Zenon DEF BitsIn

-----------------------------------------------------------------------------
(* One more item: the fields.                                              *)

FieldsAt(d, k) == [n \in 1..GlobalAt(d, k, "reportCount") |-> Field(d, k, n)]
FieldSet(d) == {Field(d, k, n) : k \in 1..Len(d), n \in Nat}
FieldsBy(d) == [k \in 1..Len(d) |-> FieldsAt(d, k)]
FieldsUpTo(d, k) == Gathered(FieldsBy(d), Tagged(d, MainTag, 1, k - 1))

LEMMA FieldsAtType ==
    ASSUME NEW d \in Seq(Item), NEW k \in 1..Len(d)
    PROVE  FieldsAt(d, k) \in Seq(FieldSet(d))
            /\ Len(FieldsAt(d, k)) = GlobalAt(d, k, "reportCount")
<1>1. PICK c \in Nat : c = GlobalAt(d, k, "reportCount") /\ c <= 255
  <2>1. k \in 1..(Len(d) + 1)
    OBVIOUS
  <2>2. GlobalAt(d, k, "reportCount") \in 0..255
    BY <2>1, ByteGlobal, ZenonT(60)
  <2>3. \A c \in 0..255 : c \in Nat /\ c <= 255
    OBVIOUS
  <2> QED  BY <2>2, <2>3, Zenon
<1>2. \A n \in 1..c : n \in Nat
  BY <1>1
<1>3. ASSUME NEW n \in 1..c PROVE Field(d, k, n) \in FieldSet(d)
  <2>1. n \in Nat
    BY <1>2
  <2> QED  BY <2>1, SMT DEF FieldSet
<1>4. FieldsAt(d, k) = [n \in 1..c |-> Field(d, k, n)]
  BY <1>1, Zenon DEF FieldsAt
<1> HIDE DEF FieldSet
<1> QED  BY <1>1, <1>3, <1>4

LEMMA FieldsStep ==
    ASSUME NEW d \in Seq(Item), NEW k \in 1..Len(d)
    PROVE  /\ FieldsUpTo(d, k) \in Seq(FieldSet(d))
           /\ d[k].tag \in MainTag => FieldsUpTo(d, k + 1) = FieldsUpTo(d, k) \o FieldsAt(d, k)
           /\ d[k].tag \notin MainTag => FieldsUpTo(d, k + 1) = FieldsUpTo(d, k)
<1>1. k \in Nat \ {0} /\ 1 \in 1..k /\ (k + 1) - 1 = k
  OBVIOUS
<1>2. \A j \in 1..k : FieldsBy(d)[j] \in Seq(FieldSet(d))
  <2> TAKE j \in 1..k
  <2>1. j \in 1..Len(d)
    OBVIOUS
  <2> QED  BY <2>1, FieldsAtType, Zenon DEF FieldsBy
<1>3. PICK S : S = Tagged(d, MainTag, 1, k - 1) /\ S \in SUBSET (1..(k - 1))
  BY DEF Tagged
<1>4. PICK w : w = FieldsBy(d) /\ \A j \in 1..k : w[j] \in Seq(FieldSet(d))
  BY <1>2, Zenon
<1>5. Gathered(w, S) \in Seq(FieldSet(d)) /\ Gathered(w, S \cup {k}) = Gathered(w, S) \o w[k]
  <2>1. PICK T : T = FieldSet(d) /\ \A j \in 1..k : w[j] \in Seq(T)
    BY <1>4, Zenon
  <2>2. Gathered(w, S) \in Seq(T) /\ Gathered(w, S \cup {k}) = Gathered(w, S) \o w[k]
    <3>1. k \in Nat \ {0} /\ S \in SUBSET (1..(k - 1)) /\ \A j \in 1..k : w[j] \in Seq(T)
      BY <1>1, <1>3, <2>1
    <3>2. Gathered(w, S) \in Seq(T)
      BY <3>1, GatheredAppend
    <3>3. Gathered(w, S \cup {k}) = Gathered(w, S) \o w[k]
      BY <3>1, GatheredAppend, ZenonT(60)
    <3> QED BY <3>2, <3>3
  <2> QED  BY <2>1, <2>2, Zenon
<1>6. w[k] = FieldsAt(d, k)
  BY <1>4 DEF FieldsBy
<1>7. /\ d[k].tag \in MainTag => Tagged(d, MainTag, 1, k) = S \cup {k}
      /\ d[k].tag \notin MainTag => Tagged(d, MainTag, 1, k) = S
  BY <1>1, <1>3, MainsStep, Zenon
<1> QED  BY <1>1, <1>3, <1>4, <1>5, <1>6, <1>7, Zenon DEF FieldsUpTo

LEMMA FieldsAre ==
    ASSUME NEW d \in Seq(Item)
    PROVE  /\ Fields(d) = FieldsUpTo(d, Len(d) + 1)
           /\ FieldsUpTo(d, 1) = <<>>
<1>1. PICK S : S = Tagged(d, MainTag, 1, Len(d)) /\ S \in SUBSET (1..Len(d))
  BY DEF Tagged
<1>2. Ascending(S) \in Seq(S)
  <2>1. Len(d) \in Nat
    OBVIOUS
  <2> QED  BY <1>1, <2>1, AscendingType
<1>3. \A j \in DOMAIN Ascending(S) : FieldsBy(d)[Ascending(S)[j]] = FieldsAt(d, Ascending(S)[j])
  <2>1. \A j \in DOMAIN Ascending(S) : Ascending(S)[j] \in 1..Len(d)
    BY <1>1, <1>2
  <2> QED  BY <2>1 DEF FieldsBy
<1>4. Fields(d) = FlattenSeq([j \in DOMAIN Ascending(S) |-> FieldsAt(d, Ascending(S)[j])])
  BY <1>1 DEF Fields, FieldsAt
<1>5. [j \in DOMAIN Ascending(S) |-> FieldsAt(d, Ascending(S)[j])]
        = [j \in DOMAIN Ascending(S) |-> FieldsBy(d)[Ascending(S)[j]]]
  BY <1>3, Zenon
<1>6. Fields(d) = Gathered(FieldsBy(d), S)
  BY <1>4, <1>5, Zenon DEF Gathered
<1>7. (Len(d) + 1) - 1 = Len(d)
  OBVIOUS
<1>8. Tagged(d, MainTag, 1, 1 - 1) = {}
  BY DEF Tagged
<1> QED  BY <1>1, <1>6, <1>7, <1>8, GatheredEmpty, Zenon DEF FieldsUpTo
=============================================================================
