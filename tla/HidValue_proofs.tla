--------------------------- MODULE HidValue_proofs ---------------------------
(***************************************************************************)
(* Theorems about HidValue, for any fields, reports and values.            *)
(***************************************************************************)
EXTENDS HidValue, Sums_proofs, FunctionTheorems

-----------------------------------------------------------------------------
(* Powers of two.                                                          *)

\* A set has 2^n subsets: all there is to know about the exponent.
LEMMA Doubling ==
    ASSUME NEW n \in Nat
    PROVE  2^(n + 1) = 2 * 2^n /\ 2^n \in Nat /\ 2^n > 0
<1> DEFINE A == 1..n
           x == n + 1
           Ax == {B \cup {x} : B \in SUBSET A}
           f == [B \in SUBSET A |-> B \cup {x}]
<1>1. IsFiniteSet(A) /\ Cardinality(A) = n
  BY FS_Interval
<1>2. IsFiniteSet(1..(n + 1)) /\ Cardinality(1..(n + 1)) = n + 1
  BY FS_Interval
<1>3. 1..(n + 1) = A \cup {x} /\ x \notin A
  OBVIOUS
<1> HIDE DEF A, x
<1>4. IsFiniteSet(SUBSET A) /\ Cardinality(SUBSET A) = 2^n
  BY <1>1, FS_SUBSET
<1>5. Cardinality(SUBSET (A \cup {x})) = 2^(n + 1)
  BY <1>2, <1>3, FS_SUBSET
<1>6. ExistsBijection(SUBSET A, Ax)
  <2>1. f \in [SUBSET A -> Ax]
    BY Zenon
  <2>2. \A B, C \in SUBSET A : f[B] = f[C] => B = C
    <3> SUFFICES ASSUME NEW B \in SUBSET A, NEW C \in SUBSET A, f[B] = f[C] PROVE B = C
      BY Zenon
    <3> QED  BY <1>3
  <2>3. \A t \in Ax : \E B \in SUBSET A : f[B] = t
    BY Zenon
  <2> HIDE DEF f, Ax
  <2>4. f \in Bijection(SUBSET A, Ax)
    BY <2>1, <2>2, <2>3, Fun_IsBij, Zenon
  <2> QED  BY <2>4, Zenon DEF ExistsBijection
<1>7. IsFiniteSet(Ax) /\ Cardinality(Ax) = Cardinality(SUBSET A)
  <2> HIDE DEF f, Ax
  <2> QED  BY <1>4, <1>6, FS_Bijection, Zenon
<1>8. SUBSET (A \cup {x}) = (SUBSET A) \cup Ax
  <2>1. ASSUME NEW T \in SUBSET (A \cup {x}) PROVE T \in (SUBSET A) \cup Ax
    <3>1. CASE x \in T
      <4>1. T \ {x} \in SUBSET A /\ T = (T \ {x}) \cup {x}
        BY <3>1
      <4> QED  BY <4>1, Zenon
    <3>2. CASE x \notin T
      BY <3>2
    <3> QED  BY <3>1, <3>2
  <2>2. ASSUME NEW T \in (SUBSET A) \cup Ax PROVE T \in SUBSET (A \cup {x})
    OBVIOUS
  <2> HIDE DEF Ax
  <2> QED  BY <2>1, <2>2, Zenon
<1>9. (SUBSET A) \cap Ax = {}
  BY <1>3
<1>10. Cardinality((SUBSET A) \cup Ax)
         = Cardinality(SUBSET A) + Cardinality(Ax) - Cardinality((SUBSET A) \cap Ax)
  <2> HIDE DEF Ax
  <2> QED  BY <1>4, <1>7, FS_Union
<1>11. 2^(n + 1) = 2^n + 2^n /\ 2^n \in Nat
  <2>1. Cardinality((SUBSET A) \cap Ax) = 0
    BY <1>9, FS_EmptySet, Zenon
  <2>2. 2^n \in Nat
    BY <1>4, FS_CardinalityType, Zenon
  <2> HIDE DEF Ax
  <2>3. Cardinality(SUBSET (A \cup {x})) = 2^n + 2^n - 0
    BY <1>4, <1>7, <1>8, <1>10, <2>1, Zenon
  <2> QED  BY <1>5, <2>2, <2>3
<1>12. 2^n # 0
  <2>1. {} \in SUBSET A
    OBVIOUS
  <2> QED  BY <1>4, <2>1, FS_EmptySet, Zenon
<1> QED  BY <1>11, <1>12

\* A power of two divides the later ones.
LEMMA PowerDivides ==
    ASSUME NEW w \in Nat, NEW s \in Nat
    PROVE  \E k \in Nat : k > 0 /\ 2^(w + s) = 2^w * k
<1> DEFINE I == {n \in Nat : \E k \in Nat : k > 0 /\ 2^(w + n) = 2^w * k}
<1>1. 0 \in I
  <2>1. w + 0 = w /\ 2^w \in Nat
    BY Doubling
  <2>2. 2^(w + 0) = 2^w * 1
    BY <2>1
  <2> QED  BY <2>2
<1>2. ASSUME NEW n \in Nat, n \in I PROVE n + 1 \in I
  <2>1. PICK k \in Nat : k > 0 /\ 2^(w + n) = 2^w * k
    BY <1>2
  <2>2. 2^w \in Nat /\ 2^((w + n) + 1) = 2 * 2^(w + n)
    BY Doubling
  <2>3. 2^(w + (n + 1)) = 2^((w + n) + 1)
    <3>1. w + (n + 1) = (w + n) + 1
      OBVIOUS
    <3> QED  BY <3>1, Zenon
  <2>4. PICK p \in Nat : p = 2^w
    BY <2>2
  <2>5. 2 * (p * k) = p * (2 * k)
    OBVIOUS
  <2>6. 2^(w + (n + 1)) = 2^w * (2 * k)
    BY <2>1, <2>2, <2>3, <2>4, <2>5, Zenon
  <2>7. 2 * k \in Nat /\ 2 * k > 0
    BY <2>1
  <2>8. \E m \in Nat : m > 0 /\ 2^(w + (n + 1)) = 2^w * m
    BY <2>6, <2>7, Zenon
  <2>9. n + 1 \in Nat
    OBVIOUS
  <2> QED  BY <2>8, <2>9, Zenon
<1>3. \A n \in Nat : n \in I
  <2> HIDE DEF I
  <2> QED  BY <1>1, <1>2, NatInSet
<1> QED  BY <1>3

-----------------------------------------------------------------------------
(* Quotients and remainders.                                               *)

LEMMA DivMod ==
    ASSUME NEW a \in Int, NEW b \in Nat, b > 0
    PROVE  /\ a \div b \in Int /\ a % b \in 0..(b - 1)
           /\ a = b * (a \div b) + (a % b)
OBVIOUS

LEMMA DivUnique ==
    ASSUME NEW a \in Int, NEW b \in Nat, NEW q \in Int, NEW r \in 0..(b - 1), a = b * q + r
    PROVE  a \div b = q /\ a % b = r
<1>1. PICK p \in Int : p = a \div b
  OBVIOUS
<1>2. PICK t \in 0..(b - 1) : t = a % b
  BY DivMod
<1>3. b * p + t = b * q + r
  BY <1>1, <1>2, DivMod
<1>4. ASSUME NEW m \in Int, NEW n \in Int, NEW x \in 0..(b - 1), NEW y \in 0..(b - 1),
             b * m + x = b * n + y, m < n
      PROVE  FALSE
  <2>1. PICK d \in Nat : n = m + d /\ d >= 1
    BY <1>4
  <2>2. b * n = b * m + b * d
    BY <2>1
  <2>3. b * d >= b
    BY <2>1
  <2> QED  BY <1>4, <2>2, <2>3
<1>5. p = q
  BY <1>3, <1>4
<1> QED  BY <1>1, <1>2, <1>3, <1>5

LEMMA PowerIsNat == \A n \in Nat : 2^n \in Nat /\ 2^n > 0
BY Doubling

\* A higher power of two is an even multiple of a lower one.
LEMMA HigherPower ==
    ASSUME NEW w \in Nat, NEW s \in Nat, w < s
    PROVE  \E m \in Nat : m > 0 /\ 2^s = 2^w * (2 * m)
<1>1. PICK d \in Nat : s = w + (d + 1)
  <2>1. s - w - 1 \in Nat /\ s = w + ((s - w - 1) + 1)
    OBVIOUS
  <2> QED  BY <2>1
<1>2. PICK m \in Nat : m > 0 /\ 2^(w + d) = 2^w * m
  BY PowerDivides
<1>3. s = (w + d) + 1
  BY <1>1
<1>4. 2^s = 2 * 2^(w + d)
  BY <1>3, Doubling
<1>5. PICK p \in Nat : p = 2^w
  BY PowerIsNat
<1>6. 2 * (p * m) = p * (2 * m)
  OBVIOUS
<1>7. 2^s = 2^w * (2 * m)
  BY <1>2, <1>4, <1>5, <1>6, Zenon
<1> QED  BY <1>2, <1>7, Zenon

-----------------------------------------------------------------------------
(* Digits.                                                                 *)

LEMMA DigitType == ASSUME NEW v \in Int, NEW n \in Nat PROVE Digit(v, n) \in {0, 1}
<1>1. PICK q \in Int : q = v \div 2^n
  BY PowerIsNat, DivMod
<1>2. q % 2 \in 0..1
  OBVIOUS
<1> QED  BY <1>1, <1>2 DEF Digit

\* One digit more
LEMMA NextRemainder ==
    ASSUME NEW v \in Int, NEW n \in Nat
    PROVE  v % 2^(n + 1) = (v % 2^n) + Digit(v, n) * 2^n
<1>1. PICK p \in Nat : p = 2^n /\ p > 0
  BY PowerIsNat
<1>2. PICK q \in Int, r \in 0..(p - 1) : q = v \div p /\ r = v % p /\ v = p * q + r
  BY <1>1, DivMod
<1>3. PICK c \in Int, d \in 0..1 : d = q % 2 /\ q = 2 * c + d
  <2>1. q \div 2 \in Int /\ q % 2 \in 0..1 /\ q = 2 * (q \div 2) + (q % 2)
    BY DivMod
  <2> QED  BY <2>1
<1>4. d * p + r \in 0..(2 * p - 1)
  BY <1>1
<1>5. v = (2 * p) * c + (d * p + r)
  <2>1. p * (2 * c + d) = (2 * p) * c + d * p
    OBVIOUS
  <2>2. v = p * (2 * c + d) + r
    BY <1>2, <1>3, Zenon
  <2>3. PICK t \in Int, u \in Int : t = (2 * p) * c /\ u = d * p
    OBVIOUS
  <2>4. v = (t + u) + r
    BY <2>1, <2>2, <2>3, Zenon
  <2>5. v = t + (u + r)
    BY <2>4
  <2> QED  BY <2>3, <2>5, Zenon
<1>6. v % (2 * p) = d * p + r
  <2>1. 2 * p \in Nat
    OBVIOUS
  <2> QED  BY <1>4, <1>5, <2>1, DivUnique, Zenon
<1>7. 2^(n + 1) = 2 * p /\ Digit(v, n) = d
  BY <1>1, <1>2, <1>3, Doubling DEF Digit
<1>8. d * p + r = r + d * p
  OBVIOUS
<1> QED  BY <1>1, <1>2, <1>6, <1>7, <1>8, Zenon

\* What is added above does not reach a digit.
LEMMA LowDigit ==
    ASSUME NEW x \in Int, NEW k \in Int, NEW w \in Nat, NEW s \in Nat, w < s
    PROVE  Digit(x + k * 2^s, w) = Digit(x, w)
<1>1. PICK m \in Nat : 2^s = 2^w * (2 * m)
  BY HigherPower
<1>2. PICK p \in Nat : p = 2^w /\ p > 0
  BY PowerIsNat
<1>3. PICK q \in Int, r \in 0..(p - 1) : q = x \div p /\ x = p * q + r
  BY <1>2, DivMod
<1>4. x + k * (p * (2 * m)) = p * (q + 2 * (k * m)) + r
  <2>1. k * (p * (2 * m)) = p * (2 * (k * m))
    OBVIOUS
  <2>2. PICK t \in Int : t = 2 * (k * m)
    OBVIOUS
  <2>3. p * (q + t) = p * q + p * t
    OBVIOUS
  <2> QED  BY <1>3, <2>1, <2>2, <2>3
<1>5. (x + k * 2^s) \div 2^w = q + 2 * (k * m)
  <2>1. q + 2 * (k * m) \in Int /\ x + k * (p * (2 * m)) \in Int
    OBVIOUS
  <2>2. (x + k * (p * (2 * m))) \div p = q + 2 * (k * m)
    BY <1>4, <2>1, DivUnique, Zenon
  <2> QED  BY <1>1, <1>2, <2>2, Zenon
<1>6. (q + 2 * (k * m)) % 2 = q % 2
  <2>1. PICK t \in Int : t = k * m
    OBVIOUS
  <2>2. (q + 2 * t) % 2 = q % 2
    OBVIOUS
  <2> QED  BY <2>1, <2>2
<1> QED  BY <1>2, <1>3, <1>5, <1>6, Zenon DEF Digit

LEMMA TopDigit ==
    ASSUME NEW n \in Nat, NEW x \in 0..(2^n - 1), NEW d \in {0, 1}
    PROVE  Digit(x + d * 2^n, n) = d
<1>1. PICK p \in Nat : p = 2^n /\ p > 0
  BY PowerIsNat
<1>2. x + d * p = p * d + x /\ x \in 0..(p - 1) /\ d \in Int /\ x + d * p \in Int
  BY <1>1
<1>3. (x + d * p) \div p = d
  BY <1>2, DivUnique, Zenon
<1>4. d % 2 = d
  OBVIOUS
<1> QED  BY <1>1, <1>3, <1>4, Zenon DEF Digit

\* The digits of a number end before those of a power of two greater than it.
LEMMA NoDigit ==
    ASSUME NEW j \in Nat, NEW w \in Nat, j <= w, NEW y \in 0..(2^j - 1)
    PROVE  Digit(y, w) = 0
<1>1. PICK p \in Nat, q \in Nat : p = 2^j /\ q = 2^w /\ p > 0 /\ q > 0
  BY PowerIsNat
<1>2. p <= q
  <2>1. CASE j = w
    BY <1>1, <2>1
  <2>2. CASE j < w
    <3>1. PICK m \in Nat : m > 0 /\ q = p * (2 * m)
      BY <1>1, <2>2, HigherPower, ZenonT(60)
    <3> QED  BY <3>1
  <2> QED  BY <2>1, <2>2
<1>3. y \in 0..(q - 1) /\ y = q * 0 + y /\ y \in Int
  BY <1>1, <1>2
<1>4. y \div q = 0
  BY <1>3, DivUnique
<1> QED  BY <1>1, <1>4 DEF Digit

LEMMA OnesDigit ==
    ASSUME NEW j \in Nat, NEW w \in Nat, w < j
    PROVE  Digit(2^j - 1, w) = 1
<1>1. PICK m \in Nat : m > 0 /\ 2^j = 2^w * (2 * m)
  BY HigherPower
<1>2. PICK p \in Nat : p = 2^w /\ p > 0
  BY PowerIsNat
<1>3. p * (2 * m) - 1 = p * (2 * m - 1) + (p - 1)
  <2>1. PICK t \in Int : t = 2 * m
    OBVIOUS
  <2>2. p * (t - 1) = p * t - p
    OBVIOUS
  <2> QED  BY <2>1, <2>2
<1>4. (p * (2 * m) - 1) \div p = 2 * m - 1
  <2>1. 2 * m - 1 \in Int /\ p * (2 * m) - 1 \in Int /\ p - 1 \in 0..(p - 1)
    BY <1>2
  <2> QED  BY <1>3, <2>1, DivUnique, Zenon
<1>5. (2 * m - 1) % 2 = 1
  OBVIOUS
<1> QED  BY <1>1, <1>2, <1>4, <1>5, Zenon DEF Digit

-----------------------------------------------------------------------------
(* Sums of digits.                                                         *)

LEMMA SpanStep ==
    ASSUME NEW a \in Nat, NEW n \in Nat, NEW wt, \A x \in a..(a + n) : wt[x] \in Int
    PROVE  /\ Total(wt, a..(a + n)) = Total(wt, a..(a + n - 1)) + wt[a + n]
           /\ Total(wt, a..(a + n - 1)) \in Int
<1>1. PICK S : S = a..(a + n) /\ IsFiniteSet(S)
  BY FS_Interval
<1>2. PICK T : T = a..(a + n - 1) /\ IsFiniteSet(T)
  <2>1. a + n - 1 \in Int
    OBVIOUS
  <2> QED  BY <2>1, FS_Interval
<1>3. a + n \in S /\ S \ {a + n} = T /\ \A x \in T : wt[x] \in Int
  BY <1>1, <1>2
<1>4. Total(wt, S) = Total(wt, S \ {a + n}) + wt[a + n]
  BY <1>1, <1>3, TotalStep
<1>5. Total(wt, T) \in Int
  BY <1>2, <1>3, TotalStep
<1> QED  BY <1>1, <1>2, <1>3, <1>4, <1>5, Zenon

LEMMA NoSpan == ASSUME NEW a \in Nat, NEW wt PROVE Total(wt, a..(a + 0 - 1)) = 0
<1>1. a..(a + 0 - 1) = {}
  OBVIOUS
<1>2. Total(wt, {}) = 0
  BY FS_EmptySet, TotalStep
<1> QED  BY <1>1, <1>2, Zenon

\* The lower digits of a number, at their weights, are what is left of it.
LEMMA SumOfDigits ==
    ASSUME NEW v \in Int, NEW size \in Nat, NEW wt,
           \A u \in 0..(size - 1) : wt[u] = Digit(v, u) * 2^u
    PROVE  Total(wt, 0..(size - 1)) = v % 2^size
<1> DEFINE I == {n \in Nat : n <= size => Total(wt, 0..(0 + n - 1)) = v % 2^n}
<1>1. \A u \in 0..(size - 1) : wt[u] \in Int
  <2> SUFFICES ASSUME NEW u \in 0..(size - 1) PROVE wt[u] \in Int
    BY Zenon
  <2>1. u \in Nat
    OBVIOUS
  <2>2. Digit(v, u) \in Int /\ 2^u \in Int
    BY <2>1, DigitType, PowerIsNat
  <2> QED  BY <2>2
<1>2. 0 \in I
  <2>1. 2^0 = 1 /\ v % 1 = 0
    OBVIOUS
  <2>2. Total(wt, 0..(0 + 0 - 1)) = 0
    BY NoSpan
  <2> QED  BY <2>1, <2>2
<1>3. ASSUME NEW n \in Nat, n \in I PROVE n + 1 \in I
  <2> SUFFICES ASSUME n + 1 <= size PROVE Total(wt, 0..(0 + (n + 1) - 1)) = v % 2^(n + 1)
    OBVIOUS
  <2>1. Total(wt, 0..(0 + n - 1)) = v % 2^n
    BY <1>3
  <2>2. \A x \in 0..(0 + n) : wt[x] \in Int
    BY <1>1
  <2>3. Total(wt, 0..(0 + n)) = Total(wt, 0..(0 + n - 1)) + wt[0 + n]
    BY <2>2, SpanStep
  <2>4. wt[0 + n] = Digit(v, n) * 2^n /\ 0 + (n + 1) - 1 = 0 + n
    OBVIOUS
  <2> QED  BY <2>1, <2>3, <2>4, NextRemainder, Zenon
<1>4. \A n \in Nat : n \in I
  <2> HIDE DEF I
  <2> QED  BY <1>2, <1>3, NatInSet
<1>5. Total(wt, 0..(0 + size - 1)) = v % 2^size
  BY <1>4
<1>6. 0 + size - 1 = size - 1
  OBVIOUS
<1> QED  BY <1>5, <1>6, Zenon

\* From a on, wt has the digits d at their weights.
Weighs(wt, d, a, n) == \A u \in 0..(n - 1) : d[u] \in {0, 1} /\ wt[a + u] = d[u] * 2^u

\* Digits added at their weights are the digits of the sum.
LEMMA DigitsOfSum ==
    ASSUME NEW a \in Nat, NEW n \in Nat, NEW wt, NEW d, Weighs(wt, d, a, n)
    PROVE  /\ Total(wt, a..(a + n - 1)) \in 0..(2^n - 1)
           /\ \A w \in 0..(n - 1) : Digit(Total(wt, a..(a + n - 1)), w) = d[w]
<1> DEFINE Sum(k) == Total(wt, a..(a + k - 1))
           Good(k) == /\ Sum(k) \in 0..(2^k - 1)
                      /\ \A w \in 0..(k - 1) : Digit(Sum(k), w) = d[w]
           I == {k \in Nat : k <= n => Good(k)}
<1> USE DEF Weighs
<1>1. \A u \in 0..(n - 1) : wt[a + u] \in Int
  <2> SUFFICES ASSUME NEW u \in 0..(n - 1) PROVE wt[a + u] \in Int
    BY Zenon
  <2>1. d[u] \in Int /\ 2^u \in Int /\ wt[a + u] = d[u] * 2^u
    BY PowerIsNat
  <2> QED  BY <2>1
<1>2. \A x \in a..(a + n - 1) : wt[x] \in Int
  <2> SUFFICES ASSUME NEW x \in a..(a + n - 1) PROVE wt[x] \in Int
    BY Zenon
  <2>1. x - a \in 0..(n - 1) /\ a + (x - a) = x
    OBVIOUS
  <2> QED  BY <1>1, <2>1, Zenon
<1>3. 0 \in I
  <2>1. Sum(0) = 0
    BY NoSpan
  <2>2. 2^0 - 1 = 0 /\ 0..(0 - 1) = {}
    OBVIOUS
  <2>3. Good(0)
    <3> HIDE DEF Sum
    <3>1. Sum(0) \in 0..(2^0 - 1)
      BY <2>1, <2>2
    <3> QED  BY <2>2, <3>1, Zenon
  <2> HIDE DEF Good
  <2> QED  BY <2>3
<1>4. ASSUME NEW k \in Nat, k \in I PROVE k + 1 \in I
  <2> SUFFICES ASSUME k + 1 <= n PROVE Good(k + 1)
    <3> HIDE DEF Good
    <3> QED  OBVIOUS
  <2>1. Good(k)
    <3> HIDE DEF Good
    <3> QED  BY <1>4
  <2>2. \A x \in a..(a + k) : wt[x] \in Int
    BY <1>2
  <2>3. Total(wt, a..(a + k)) = Total(wt, a..(a + k - 1)) + wt[a + k]
    BY <2>2, SpanStep
  <2>4. d[k] \in {0, 1} /\ wt[a + k] = d[k] * 2^k /\ a + (k + 1) - 1 = a + k
    OBVIOUS
  <2>5. Sum(k + 1) = Sum(k) + d[k] * 2^k
    BY <2>3, <2>4, Zenon
  <2> HIDE DEF Sum
  <2>6. PICK p \in Nat : p = 2^k /\ p > 0
    BY PowerIsNat
  <2>7. PICK x \in 0..(p - 1) : x = Sum(k) /\ \A w \in 0..(k - 1) : Digit(x, w) = d[w]
    BY <2>6, <2>1, Zenon
  <2>8. Sum(k + 1) \in 0..(2^(k + 1) - 1)
    <3>1. Sum(k + 1) = x + d[k] * p /\ 2^(k + 1) = 2 * p
      BY <2>5, <2>6, <2>7, Doubling
    <3> QED  BY <2>4, <2>6, <2>7, <3>1
  <2>9. ASSUME NEW w \in 0..((k + 1) - 1) PROVE Digit(Sum(k + 1), w) = d[w]
    <3>1. Sum(k + 1) = x + d[k] * 2^k
      BY <2>5, <2>7, Zenon
    <3>2. CASE w = k
      <4>1. Digit(x + d[k] * 2^k, k) = d[k]
        BY <2>4, <2>6, <2>7, TopDigit, Zenon
      <4> QED  BY <3>1, <3>2, <4>1, Zenon
    <3>3. CASE w # k
      <4>1. w \in Nat /\ w < k /\ w \in 0..(k - 1) /\ x \in Int /\ d[k] \in Int
        BY <2>4, <3>3
      <4>2. Digit(x + d[k] * 2^k, w) = Digit(x, w)
        BY <4>1, LowDigit
      <4> QED  BY <2>7, <3>1, <4>1, <4>2, Zenon
    <3> QED  BY <3>2, <3>3
  <2> QED  BY <2>8, <2>9, Zenon
<1>5. \A k \in Nat : k \in I
  <2> HIDE DEF I
  <2> QED  BY <1>3, <1>4, NatInSet
<1>6. Good(n)
  <2> HIDE DEF Good
  <2> QED  BY <1>5
<1> QED  BY <1>6, Zenon

\* The digits that a number has not got, of the j lowest
LEMMA MissingDigits ==
    ASSUME NEW v \in Int, NEW j \in Nat, NEW n \in Nat, j <= n, NEW wt,
           \A u \in 0..(n - 1) :
               wt[u] = IF Digit(v, u) = 0 THEN Digit(2^j - 1, u) * 2^u ELSE 0
    PROVE  Total(wt, 0..(n - 1)) = (2^j - 1) - (v % 2^j)
<1> DEFINE Missing(k) == (2^k - 1) - (v % 2^k)
           Upto(k) == IF k <= j THEN k ELSE j
           I == {k \in Nat : k <= n => Total(wt, 0..(0 + k - 1)) = Missing(Upto(k))}
<1>1. ASSUME NEW u \in 0..(n - 1)
      PROVE  /\ u < j => wt[u] = IF Digit(v, u) = 0 THEN 2^u ELSE 0
             /\ u >= j => wt[u] = 0
             /\ wt[u] \in Int
  <2>1. u \in Nat /\ 2^u \in Int
    BY PowerIsNat
  <2>2. CASE u < j
    <3>1. Digit(2^j - 1, u) = 1 /\ 1 * 2^u = 2^u
      BY <2>1, <2>2, OnesDigit
    <3>2. wt[u] = IF Digit(v, u) = 0 THEN 2^u ELSE 0
      BY <3>1, Zenon
    <3> QED  BY <2>1, <2>2, <3>2
  <2>3. CASE u >= j
    <3>1. 2^j - 1 \in 0..(2^j - 1)
      BY PowerIsNat
    <3>2. Digit(2^j - 1, u) = 0 /\ 0 * 2^u = 0
      BY <2>1, <2>3, <3>1, NoDigit
    <3>3. wt[u] = 0
      BY <3>2, Zenon
    <3> QED  BY <2>3, <3>3
  <2> QED  BY <2>2, <2>3
<1>2. 0 \in I
  <2>1. 2^0 = 1 /\ v % 1 = 0
    OBVIOUS
  <2>2. Total(wt, 0..(0 + 0 - 1)) = 0
    BY NoSpan
  <2> QED  BY <2>1, <2>2
<1>3. ASSUME NEW k \in Nat, k \in I PROVE k + 1 \in I
  <2> SUFFICES ASSUME k + 1 <= n
               PROVE  Total(wt, 0..(0 + (k + 1) - 1)) = Missing(Upto(k + 1))
    OBVIOUS
  <2>1. Total(wt, 0..(0 + k - 1)) = Missing(Upto(k))
    BY <1>3
  <2>2. \A x \in 0..(0 + k) : wt[x] \in Int
    BY <1>1
  <2>3. Total(wt, 0..(0 + k)) = Total(wt, 0..(0 + k - 1)) + wt[0 + k]
    BY <2>2, SpanStep
  <2>4. 0 + k = k /\ 0 + (k + 1) - 1 = 0 + k /\ k \in 0..(n - 1)
    OBVIOUS
  <2>5. Total(wt, 0..(0 + (k + 1) - 1)) = Missing(Upto(k)) + wt[k]
    BY <2>1, <2>3, <2>4, Zenon
  <2>6. CASE k < j
    <3>1. Upto(k) = k /\ Upto(k + 1) = k + 1
      BY <2>6
    <3>2. wt[k] = IF Digit(v, k) = 0 THEN 2^k ELSE 0
      BY <1>1, <2>4, <2>6
    <3>3. v % 2^(k + 1) = (v % 2^k) + Digit(v, k) * 2^k
      BY NextRemainder
    <3>4. PICK p \in Nat : p = 2^k /\ 2^(k + 1) = 2 * p /\ p > 0
      BY Doubling
    <3>5. PICK r \in Nat, e \in {0, 1} : r = v % p /\ e = Digit(v, k)
      <4>1. v % p \in 0..(p - 1)
        BY <3>4, DivMod
      <4>2. v % p \in Nat
        BY <4>1
      <4> QED  BY <4>2, DigitType, Zenon
    <3>6. Missing(k + 1) = (2 * p - 1) - (r + e * p) /\ Missing(k) = (p - 1) - r
      BY <3>3, <3>4, <3>5, Zenon
    <3>7. wt[k] = IF e = 0 THEN p ELSE 0
      BY <3>2, <3>4, <3>5, Zenon
    <3>8. Missing(k + 1) = Missing(k) + wt[k]
      <4> HIDE DEF Missing
      <4> QED  BY <3>6, <3>7
    <3> QED  BY <2>5, <3>1, <3>8, Zenon
  <2>7. CASE ~ (k < j)
    <3>1. Upto(k) = j /\ Upto(k + 1) = j
      BY <2>7
    <3>2. wt[k] = 0
      BY <1>1, <2>4, <2>7
    <3>3. Missing(j) \in Int
      <4>1. 2^j \in Nat /\ 2^j > 0
        BY PowerIsNat
      <4>2. v % 2^j \in Int
        BY <4>1
      <4> QED  BY <4>1, <4>2
    <3>4. Missing(j) + wt[k] = Missing(j)
      BY <3>2, <3>3
    <3> QED  BY <2>5, <3>1, <3>4, Zenon
  <2> QED  BY <2>6, <2>7
<1>4. \A k \in Nat : k \in I
  <2> HIDE DEF I
  <2> QED  BY <1>2, <1>3, NatInSet
<1>5. Total(wt, 0..(0 + n - 1)) = Missing(Upto(n))
  BY <1>4
<1>6. 0 + n - 1 = n - 1 /\ Upto(n) = j
  OBVIOUS
<1> QED  BY <1>5, <1>6, Zenon

-----------------------------------------------------------------------------
(* The sums of the model, with the weights that they add.                  *)

BitWeights(bytes, from, size) == [w \in 0..(size - 1) |-> BitOf(bytes, from + w) * 2^w]
MissingWeights(m, v) == [w \in 0..29 |-> IF Digit(v, w) = 0 THEN Digit(m, w) * 2^w ELSE 0]
Added(v, here) == MapThenSumSet(LAMBDA w : Digit(v, w) * 2^(w % 8), here)
ByteWeights(v, here) == [w \in here |-> Digit(v, w) * 2^(w % 8)]

LEMMA BitsAreSum ==
    ASSUME NEW bytes, NEW from, NEW size
    PROVE  Bits(bytes, from, size) = Total(BitWeights(bytes, from, size), 0..(size - 1))
<1> DEFINE S == 0..(size - 1)
           wt == BitWeights(bytes, from, size)
<1>1. ASSUME NEW g
      PROVE  [s \in SUBSET S |-> IF s = {} THEN 0
                 ELSE BitOf(bytes, from + AnyOf(s)) * 2^AnyOf(s) + g[s \ {AnyOf(s)}]]
             = [s \in SUBSET S |-> IF s = {} THEN 0
                 ELSE wt[AnyOf(s)] + g[s \ {AnyOf(s)}]]
  <2>1. \A x \in S : BitOf(bytes, from + x) * 2^x = wt[x]
    BY Zenon DEF BitWeights
  <2> HIDE DEF wt, S
  <2>2. \A s \in SUBSET S :
           (IF s = {} THEN 0 ELSE BitOf(bytes, from + AnyOf(s)) * 2^AnyOf(s) + g[s \ {AnyOf(s)}])
           = IF s = {} THEN 0 ELSE wt[AnyOf(s)] + g[s \ {AnyOf(s)}]
    <3>1. \A s \in SUBSET S : s # {} => AnyOf(s) \in S
      BY AnyOfIsIn
    <3>2. \A s \in SUBSET S : s # {} => BitOf(bytes, from + AnyOf(s)) * 2^AnyOf(s) = wt[AnyOf(s)]
      BY <2>1, <3>1, Zenon
    <3> QED  BY <3>2, Zenon
  <2> QED  BY <2>2, Zenon
<1>2. (CHOOSE g : g = [s \in SUBSET S |-> IF s = {} THEN 0
                 ELSE BitOf(bytes, from + AnyOf(s)) * 2^AnyOf(s) + g[s \ {AnyOf(s)}]])
      = (CHOOSE g : Sums(g, wt, S))
  <2> HIDE DEF wt, S
  <2> QED  BY <1>1, Zenon DEF Sums
<1>3. Total(wt, S) = (CHOOSE g : Sums(g, wt, S))[S]
  <2> HIDE DEF wt, S
  <2> QED  BY Zenon DEF Total
<1> QED  BY <1>2, <1>3, Zenon DEF Bits, MapThenSumSet, MapThenFoldSet, AnyOf

LEMMA WithoutIsSum ==
    ASSUME NEW m, NEW v
    PROVE  Without(m, v) = Total(MissingWeights(m, v), 0..29)
<1> DEFINE S == 0..29
           wt == MissingWeights(m, v)
<1>1. ASSUME NEW g
      PROVE  [s \in SUBSET S |-> IF s = {} THEN 0
                 ELSE (IF Digit(v, AnyOf(s)) = 0 THEN Digit(m, AnyOf(s)) * 2^AnyOf(s) ELSE 0) + g[s \ {AnyOf(s)}]]
             = [s \in SUBSET S |-> IF s = {} THEN 0
                 ELSE wt[AnyOf(s)] + g[s \ {AnyOf(s)}]]
  <2>1. \A x \in S : (IF Digit(v, x) = 0 THEN Digit(m, x) * 2^x ELSE 0) = wt[x]
    BY Zenon DEF MissingWeights
  <2> HIDE DEF wt, S
  <2>2. \A s \in SUBSET S :
           (IF s = {} THEN 0 ELSE (IF Digit(v, AnyOf(s)) = 0 THEN Digit(m, AnyOf(s)) * 2^AnyOf(s) ELSE 0) + g[s \ {AnyOf(s)}])
           = IF s = {} THEN 0 ELSE wt[AnyOf(s)] + g[s \ {AnyOf(s)}]
    <3>1. \A s \in SUBSET S : s # {} => AnyOf(s) \in S
      BY AnyOfIsIn
    <3>2. \A s \in SUBSET S : s # {} => (IF Digit(v, AnyOf(s)) = 0 THEN Digit(m, AnyOf(s)) * 2^AnyOf(s) ELSE 0) = wt[AnyOf(s)]
      BY <2>1, <3>1, Zenon
    <3> QED  BY <3>2, Zenon
  <2> QED  BY <2>2, Zenon
<1>2. (CHOOSE g : g = [s \in SUBSET S |-> IF s = {} THEN 0
                 ELSE (IF Digit(v, AnyOf(s)) = 0 THEN Digit(m, AnyOf(s)) * 2^AnyOf(s) ELSE 0) + g[s \ {AnyOf(s)}]])
      = (CHOOSE g : Sums(g, wt, S))
  <2> HIDE DEF wt, S
  <2> QED  BY <1>1, Zenon DEF Sums
<1>3. Total(wt, S) = (CHOOSE g : Sums(g, wt, S))[S]
  <2> HIDE DEF wt, S
  <2> QED  BY Zenon DEF Total
<1> QED  BY <1>2, <1>3, Zenon DEF Without, MapThenSumSet, MapThenFoldSet, AnyOf

LEMMA AddedIsSum ==
    ASSUME NEW v, NEW here
    PROVE  Added(v, here) = Total(ByteWeights(v, here), here)
<1> DEFINE wt == ByteWeights(v, here)
<1>1. ASSUME NEW g
      PROVE  [s \in SUBSET here |-> IF s = {} THEN 0
                 ELSE Digit(v, AnyOf(s)) * 2^(AnyOf(s) % 8) + g[s \ {AnyOf(s)}]]
             = [s \in SUBSET here |-> IF s = {} THEN 0
                 ELSE wt[AnyOf(s)] + g[s \ {AnyOf(s)}]]
  <2>1. \A x \in here : Digit(v, x) * 2^(x % 8) = wt[x]
    BY Zenon DEF ByteWeights
  <2> HIDE DEF wt
  <2>2. \A s \in SUBSET here :
           (IF s = {} THEN 0 ELSE Digit(v, AnyOf(s)) * 2^(AnyOf(s) % 8) + g[s \ {AnyOf(s)}])
           = IF s = {} THEN 0 ELSE wt[AnyOf(s)] + g[s \ {AnyOf(s)}]
    <3>1. \A s \in SUBSET here : s # {} => AnyOf(s) \in here
      BY AnyOfIsIn
    <3>2. \A s \in SUBSET here : s # {} => Digit(v, AnyOf(s)) * 2^(AnyOf(s) % 8) = wt[AnyOf(s)]
      BY <2>1, <3>1, Zenon
    <3> QED  BY <3>2, Zenon
  <2> QED  BY <2>2, Zenon
<1>2. (CHOOSE g : g = [s \in SUBSET here |-> IF s = {} THEN 0
                 ELSE Digit(v, AnyOf(s)) * 2^(AnyOf(s) % 8) + g[s \ {AnyOf(s)}]])
      = (CHOOSE g : Sums(g, wt, here))
  <2> HIDE DEF wt
  <2> QED  BY <1>1, Zenon DEF Sums
<1>3. Total(wt, here) = (CHOOSE g : Sums(g, wt, here))[here]
  <2> HIDE DEF wt
  <2> QED  BY Zenon DEF Total
<1> QED  BY <1>2, <1>3, Zenon DEF Added, MapThenSumSet, MapThenFoldSet, AnyOf

\* The bits of a field that lie in byte k
Here(f, k) == {w \in 0..(f.size - 1) : (FirstBit(f) + w) \div 8 = k - 1}

\* What a byte takes of a number
Wrapped(x) == x % 256

LEMMA ByteSet ==
    ASSUME NEW bytes, NEW f, NEW v, NEW k \in DOMAIN bytes
    PROVE  SetValue(bytes, f, v)[k] = Wrapped(ByteBefore(bytes, f, k) + Added(v, Here(f, k)))
BY Zenon DEF SetValue, Here, Added, Wrapped

-----------------------------------------------------------------------------
(* What becomes of a byte.                                                 *)

Byte == 0..255
LEMMA ByteIs ==
    /\ \A x \in Byte : x \in Nat /\ Wrapped(x) = x
    /\ \A x \in Int : Wrapped(x) \in Byte
BY DEF Byte, Wrapped

Holds(bytes, f) == bytes \in Seq(Byte) /\ FirstBit(f) + f.size <= 8 * Len(bytes)

LEMMA FieldParts ==
    ASSUME NEW f \in Field
    PROVE  /\ f.offset \in Nat /\ f.size \in 1..30 /\ f.size \in Nat /\ f.logMin \in Int /\ f.logMax \in Int
           /\ FirstBit(f) \in Nat /\ FirstBit(f) = f.offset + 8
BY FieldType DEF FirstBit

LEMMA HereType ==
    ASSUME NEW f \in Field, NEW k
    PROVE  IsFiniteSet(Here(f, k)) /\ Here(f, k) \subseteq Nat
<1>1. IsFiniteSet(0..(f.size - 1))
  <2>1. f.size - 1 \in Int
    BY FieldParts
  <2> QED  BY <2>1, FS_Interval
<1>2. Here(f, k) \subseteq 0..(f.size - 1)
  BY DEF Here
<1>3. 0..(f.size - 1) \subseteq Nat
  BY FieldParts
<1> QED  BY <1>1, <1>2, <1>3, FS_Subset

LEMMA AddedType ==
    ASSUME NEW f \in Field, NEW v \in Int, NEW k
    PROVE  Added(v, Here(f, k)) \in Int /\ (Here(f, k) = {} => Added(v, Here(f, k)) = 0)
<1>1. PICK H : H = Here(f, k) /\ IsFiniteSet(H) /\ H \subseteq Nat
  BY HereType
<1>2. \A w \in H : ByteWeights(v, H)[w] \in Int
  <2> SUFFICES ASSUME NEW w \in H PROVE ByteWeights(v, H)[w] \in Int
    BY Zenon
  <2>1. w \in Nat /\ w % 8 \in Nat
    BY <1>1
  <2>2. Digit(v, w) \in Int /\ 2^(w % 8) \in Int
    BY <2>1, DigitType, PowerIsNat
  <2>3. ByteWeights(v, H)[w] = Digit(v, w) * 2^(w % 8)
    BY Zenon DEF ByteWeights
  <2> QED  BY <2>2, <2>3
<1>3. Added(v, H) = Total(ByteWeights(v, H), H)
  BY AddedIsSum
<1>4. Total(ByteWeights(v, H), H) \in Int /\ Total(ByteWeights(v, H), {}) = 0
  BY <1>1, <1>2, TotalStep
<1> QED  BY <1>1, <1>3, <1>4, Zenon

\* SetValue makes a report of the same length.
LEMMA SetType ==
    ASSUME NEW bytes \in Seq(Byte), NEW f \in Field, NEW v \in Int
    PROVE  SetValue(bytes, f, v) \in Seq(Byte) /\ Len(SetValue(bytes, f, v)) = Len(bytes)
<1>1. PICK b : b = SetValue(bytes, f, v)
  OBVIOUS
<1>2. b = [k \in DOMAIN bytes |-> b[k]] /\ DOMAIN bytes = 1..Len(bytes) /\ Len(bytes) \in Nat
  <2>1. b = [k \in DOMAIN bytes |-> b[k]]
    BY <1>1, Zenon DEF SetValue
  <2> QED  BY <2>1
<1>3. \A k \in 1..Len(bytes) : b[k] \in Byte
  <2> SUFFICES ASSUME NEW k \in 1..Len(bytes) PROVE b[k] \in Byte
    BY Zenon
  <2>1. k \in DOMAIN bytes /\ bytes[k] \in Byte
    BY <1>2
  <2>2. b[k] = Wrapped(ByteBefore(bytes, f, k) + Added(v, Here(f, k)))
    BY <1>1, <2>1, ByteSet, Zenon
  <2>3. PICK x \in Int : x = ByteBefore(bytes, f, k)
    BY <2>1, ByteIs DEF ByteBefore
  <2>4. PICK y \in Int : y = Added(v, Here(f, k))
    BY AddedType, Zenon
  <2>5. x + y \in Int
    OBVIOUS
  <2> QED  BY <2>2, <2>3, <2>4, <2>5, ByteIs, Zenon
<1>4. b \in [1..Len(bytes) -> Byte]
  BY <1>2, <1>3, Zenon
<1>5. b \in Seq(Byte) /\ Len(b) = Len(bytes)
  BY <1>2, <1>4
<1> QED  BY <1>1, <1>5

\* A byte that the field has no bit in stays what it is.
LEMMA ByteStays ==
    ASSUME NEW bytes \in Seq(Byte), NEW f \in Field, NEW v \in Int,
           NEW k \in 1..Len(bytes), k - 1 \notin BytesOf(f)
    PROVE  SetValue(bytes, f, v)[k] = bytes[k]
<1>1. Here(f, k) = {}
  <2> SUFFICES ASSUME NEW w \in Here(f, k) PROVE FALSE
    BY Zenon
  <2>1. w \in 0..(f.size - 1) /\ (FirstBit(f) + w) \div 8 = k - 1
    BY DEF Here
  <2>2. PICK n \in Nat, size \in Nat : n = FirstBit(f) /\ size = f.size
    BY FieldParts, Zenon
  <2>3. w \in 0..(size - 1)
    BY <2>1, <2>2, Zenon
  <2>4. n + w \in n..(n + size - 1)
    BY <2>3
  <2> QED  BY <2>1, <2>2, <2>4, Zenon DEF BytesOf
<1>2. ByteBefore(bytes, f, k) = bytes[k]
  <2>1. (8 * (k - 1)) \div 8 = k - 1
    BY SMT
  <2>2. 8 * (k - 1) \notin FirstBit(f)..(FirstBit(f) + f.size - 1)
    BY <2>1, Zenon DEF BytesOf
  <2> QED  BY <2>2, Zenon DEF ByteBefore
<1>3. Added(v, Here(f, k)) = 0
  BY <1>1, AddedType
<1>4. k \in DOMAIN bytes /\ bytes[k] \in Byte
  OBVIOUS
<1>5. SetValue(bytes, f, v)[k] = Wrapped(bytes[k] + 0)
  BY <1>2, <1>3, <1>4, ByteSet, ZenonT(60)
<1>6. PICK x \in Byte : x = bytes[k]
  BY <1>4
<1>7. Wrapped(x + 0) = x
  BY ByteIs
<1> QED  BY <1>5, <1>6, <1>7, Zenon

-----------------------------------------------------------------------------
(* The bits of a field.                                                    *)

\* Where a bit of a field lies
LEMMA BitPlace ==
    ASSUME NEW bytes, NEW f \in Field, Holds(bytes, f), NEW w \in 0..(f.size - 1)
    PROVE  /\ FirstBit(f) + w \in FirstBit(f)..(FirstBit(f) + f.size - 1)
           /\ (FirstBit(f) + w) \div 8 \in BytesOf(f)
           /\ (FirstBit(f) + w) \div 8 + 1 \in 2..Len(bytes)
           /\ (FirstBit(f) + w) % 8 \in Nat
           /\ bytes[(FirstBit(f) + w) \div 8 + 1] \in Nat
<1>1. PICK n \in Nat, size \in Nat : n = FirstBit(f) /\ size = f.size /\ n >= 8
  <2>1. FirstBit(f) \in Nat /\ f.size \in Nat /\ FirstBit(f) >= 8
    BY FieldParts
  <2> QED  BY <2>1, Zenon
<1>2. w \in 0..(size - 1)
  BY <1>1, Zenon
<1>3. n + w \in n..(n + size - 1) /\ (n + w) % 8 \in Nat
  BY <1>2
<1>4. bytes \in Seq(Byte) /\ n + size <= 8 * Len(bytes)
  BY <1>1, Zenon DEF Holds
<1>5. (n + w) \div 8 + 1 \in 2..Len(bytes)
  <2>1. PICK l \in Nat : l = Len(bytes)
    BY <1>4
  <2>2. n + w < 8 * l /\ n + w >= 8 /\ n + w \in Nat
    BY <1>1, <1>2, <1>4, <2>1, SMTT(60)
  <2>3. (n + w) \div 8 \in Nat /\ (n + w) \div 8 < l /\ (n + w) \div 8 >= 1
    BY <2>2
  <2> QED  BY <2>1, <2>3
<1>6. (n + w) \div 8 \in BytesOf(f)
  BY <1>1, <1>3, Zenon DEF BytesOf
<1>7. PICK k \in 1..Len(bytes) : k = (n + w) \div 8 + 1
  BY <1>5
<1>8. bytes[k] \in Nat
  BY <1>4, ByteIs
<1> QED  BY <1>1, <1>3, <1>5, <1>6, <1>7, <1>8, Zenon

LEMMA BitType ==
    ASSUME NEW bytes, NEW f \in Field, Holds(bytes, f), NEW w \in 0..(f.size - 1)
    PROVE  BitOf(bytes, FirstBit(f) + w) \in {0, 1}
<1>1. PICK b : b = FirstBit(f) + w
  OBVIOUS
<1>2. bytes[b \div 8 + 1] \in Int /\ b % 8 \in Nat
  BY <1>1, BitPlace
<1>3. Digit(bytes[b \div 8 + 1], b % 8) \in {0, 1}
  BY <1>2, DigitType, Zenon
<1> QED  BY <1>1, <1>3, Zenon DEF BitOf, Digit

\* The bits of a field make a number that fits into it.
LEMMA BitsType ==
    ASSUME NEW bytes, NEW f \in Field, Holds(bytes, f)
    PROVE  Bits(bytes, FirstBit(f), f.size) \in 0..(2^f.size - 1)
<1> DEFINE wt == BitWeights(bytes, FirstBit(f), f.size)
           d == [w \in 0..(f.size - 1) |-> BitOf(bytes, FirstBit(f) + w)]
<1>1. ASSUME NEW u \in 0..(f.size - 1) PROVE d[u] \in {0, 1} /\ wt[0 + u] = d[u] * 2^u
  <2>1. 0 + u = u
    OBVIOUS
  <2>2. d[u] = BitOf(bytes, FirstBit(f) + u) /\ wt[u] = d[u] * 2^u
    BY Zenon DEF BitWeights
  <2> QED  BY <2>1, <2>2, BitType, Zenon
<1> HIDE DEF wt, d
<1>2. PICK n \in Nat : n = f.size
  BY FieldParts, Zenon
<1>3. Weighs(wt, d, 0, n)
  BY <1>1, <1>2, Zenon DEF Weighs
<1>4. Total(wt, 0..(0 + n - 1)) \in 0..(2^n - 1)
  BY <1>3, DigitsOfSum
<1>5. 0 + n - 1 = n - 1
  OBVIOUS
<1>6. Bits(bytes, FirstBit(f), f.size) = Total(wt, 0..(n - 1))
  BY <1>2, BitsAreSum, Zenon DEF wt
<1> QED  BY <1>2, <1>4, <1>5, <1>6, Zenon

\* Equal bits are equal numbers.
SameBits(b, c, from, size) ==
    \A w \in 0..(size - 1) : BitOf(b, from + w) = BitOf(c, from + w)

LEMMA BitsAgree ==
    ASSUME NEW b, NEW c, NEW from, NEW size, SameBits(b, c, from, size)
    PROVE  Bits(b, from, size) = Bits(c, from, size)
<1>1. PICK S, v, w : S = 0..(size - 1) /\ v = BitWeights(b, from, size)
                     /\ w = BitWeights(c, from, size)
  OBVIOUS
<1>2. \A x \in S : v[x] = w[x]
  BY <1>1, Zenon DEF BitWeights, SameBits
<1>3. Total(v, S) = Total(w, S)
  BY <1>2, TotalAgrees
<1> QED  BY <1>1, <1>3, BitsAreSum, Zenon

-----------------------------------------------------------------------------
(* Two's complement.                                                       *)

\* A field's power of two, the half of it, and a lower power
LEMMA Halves ==
    ASSUME NEW size \in Nat, NEW j \in Nat, j < size
    PROVE  \E h \in Nat, q \in Nat, m \in Nat :
               /\ 2^size = 2 * h /\ 2^(size - 1) = h /\ 2^j = q
               /\ 2 * h = q * (2 * m) /\ q <= h /\ q > 0
<1>1. PICK n \in Nat : size = n + 1 /\ n = size - 1
  <2>1. size - 1 \in Nat /\ size = (size - 1) + 1
    OBVIOUS
  <2> QED  BY <2>1
<1>2. PICK h \in Nat : h = 2^n /\ 2^(n + 1) = 2 * h
  BY Doubling
<1>3. PICK q \in Nat : q = 2^j /\ q > 0
  BY PowerIsNat
<1>4. PICK m \in Nat : m > 0 /\ 2^size = 2^j * (2 * m)
  BY HigherPower
<1>5. 2^size = 2 * h /\ 2^(size - 1) = h /\ 2 * h = q * (2 * m)
  BY <1>1, <1>2, <1>3, <1>4, Zenon
<1>6. q <= h
  <2>1. q * (2 * m) = 2 * (q * m)
    OBVIOUS
  <2>2. PICK t \in Nat : t = q * m
    OBVIOUS
  <2>3. t = h
    BY <1>5, <2>1, <2>2
  <2>4. q * m >= q
    BY <1>4
  <2> QED  BY <2>2, <2>3, <2>4
<1> QED  BY <1>3, <1>5, <1>6, Zenon

\* Raw bits above a maximum of 2^j - 1, of a number from -2^j on, are extended
\* to that number.
LEMMA SignIsExtended ==
    ASSUME NEW size \in 1..30, NEW j \in 0..(size - 1), NEW x \in Int,
           x < 0, x >= -(2^j)
    PROVE  Extended(x + 2^size, 2^j - 1) = x
<1>1. PICK h \in Nat, q \in Nat, m \in Nat :
          /\ 2^size = 2 * h /\ 2^j = q /\ 2 * h = q * (2 * m) /\ q <= h /\ q > 0
  <2>1. size \in Nat /\ j \in Nat /\ j < size
    OBVIOUS
  <2> QED  BY <2>1, Halves, ZenonT(120)
<1>2. PICK r \in Int : r = x + 2^size /\ r = x + 2 * h
  BY <1>1
<1>3. r > q - 1 /\ q - 1 >= 0 /\ x + q \in 0..(q - 1) /\ x + q \in Int
  BY <1>1, <1>2
<1>4. r % q = x + q
  <2>1. PICK t \in Int : t = q * (2 * m)
    OBVIOUS
  <2>2. q * (2 * m - 1) = t - q
    <3>1. PICK u \in Int : u = 2 * m
      OBVIOUS
    <3>2. q * (u - 1) = q * u - q
      OBVIOUS
    <3> QED  BY <2>1, <3>1, <3>2
  <2>3. r = q * (2 * m - 1) + (x + q)
    BY <1>1, <1>2, <2>1, <2>2
  <2>4. 2 * m - 1 \in Int
    OBVIOUS
  <2> QED  BY <1>3, <2>3, <2>4, DivUnique, ZenonT(60)
<1>5. Without(q - 1, r) = (q - 1) - (r % q)
  <2> DEFINE wt == MissingWeights(q - 1, r)
  <2>1. \A u \in 0..(30 - 1) : wt[u] = IF Digit(r, u) = 0 THEN Digit(2^j - 1, u) * 2^u ELSE 0
    <3>1. 30 - 1 = 29
      OBVIOUS
    <3>2. \A u \in 0..29 : wt[u] = IF Digit(r, u) = 0 THEN Digit(2^j - 1, u) * 2^u ELSE 0
      BY <1>1, Zenon DEF MissingWeights
    <3> QED  BY <3>1, <3>2, Zenon
  <2> HIDE DEF wt
  <2>2. j \in Nat /\ 30 \in Nat /\ j <= 30 /\ 30 - 1 = 29
    OBVIOUS
  <2>3. Total(wt, 0..(30 - 1)) = (2^j - 1) - (r % 2^j)
    BY <2>1, <2>2, MissingDigits, ZenonT(120)
  <2>4. Without(q - 1, r) = Total(wt, 0..29)
    BY WithoutIsSum, Zenon DEF wt
  <2> QED  BY <1>1, <2>2, <2>3, <2>4, Zenon
<1>6. OrNot(r, q - 1) = -1 - ((q - 1) - (x + q))
  BY <1>3, <1>4, <1>5, Zenon DEF OrNot
<1>7. Extended(r, q - 1) = OrNot(r, q - 1)
  BY <1>3, Zenon DEF Extended
<1>8. -1 - ((q - 1) - (x + q)) = x
  OBVIOUS
<1> QED  BY <1>1, <1>2, <1>6, <1>7, <1>8, Zenon

\* GetValue takes out what the bits mean.
LEMMA MeaningGot ==
    ASSUME NEW bytes, NEW f \in Field, Holds(bytes, f), Representable(f),
           Meaning(bytes, f) \in f.logMin..f.logMax
    PROVE  GetValue(bytes, f) = Meaning(bytes, f)
<1>1. PICK raw \in Nat : raw = Bits(bytes, FirstBit(f), f.size) /\ raw < 2^f.size
  <2>1. 2^f.size \in Nat
    BY FieldParts, PowerIsNat, Zenon
  <2> QED  BY <2>1, BitsType
<1>2. FirstBit(f) = 8 + f.offset
  BY FieldParts
<1>3. GetValue(bytes, f) = Extended(raw, f.logMax)
  BY <1>1, Zenon DEF GetValue
<1>4. Meaning(bytes, f) =
          IF f.logMin < 0 /\ raw >= 2^(f.size - 1) THEN raw - 2^f.size ELSE raw
  BY <1>1, <1>2, Zenon DEF Meaning
<1>5. CASE f.logMin < 0 /\ raw >= 2^(f.size - 1)
  <2>1. PICK j \in 0..(f.size - 1) : f.logMax = 2^j - 1 /\ f.logMin >= -(2^j)
    BY <1>5, Zenon DEF Representable
  <2>2. PICK x \in Int, p \in Nat : p = 2^f.size /\ x = raw - p
    BY FieldParts, PowerIsNat
  <2>3. Meaning(bytes, f) = x
    BY <1>4, <1>5, <2>2, Zenon
  <2>4. x \in f.logMin..f.logMax
    BY <2>3, Zenon
  <2>5. j \in Nat /\ 2^j \in Nat /\ f.size \in 1..30
    BY FieldParts, PowerIsNat
  <2>6. x < 0 /\ x >= -(2^j) /\ x + p = raw
    BY <1>1, <2>1, <2>2, <2>4, <2>5, FieldParts
  <2>7. Extended(x + 2^f.size, 2^j - 1) = x
    BY <2>5, <2>6, SignIsExtended
  <2> QED  BY <1>3, <2>1, <2>2, <2>3, <2>6, <2>7, Zenon
<1>6. CASE ~ (f.logMin < 0 /\ raw >= 2^(f.size - 1))
  <2>1. Meaning(bytes, f) = raw
    BY <1>4, <1>6, Zenon
  <2>2. raw <= f.logMax
    BY <2>1, FieldParts
  <2>3. ~ (raw > f.logMax)
    BY <2>2, FieldParts
  <2> QED  BY <1>3, <2>1, <2>3, Zenon DEF Extended
<1> QED  BY <1>5, <1>6

\* The lowest bits of a value in the logical range mean that value.
LEMMA ValueMeant ==
    ASSUME NEW bytes, NEW f \in Field, Representable(f), NEW v \in Int,
           v \in f.logMin..f.logMax, Bits(bytes, FirstBit(f), f.size) = v % 2^f.size
    PROVE  Meaning(bytes, f) = v
<1>1. FirstBit(f) = 8 + f.offset
  BY FieldParts
<1>2. PICK p \in Nat : p = 2^f.size /\ p > 0
  BY FieldParts, PowerIsNat
<1>3. Meaning(bytes, f) =
          IF f.logMin < 0 /\ v % p >= 2^(f.size - 1) THEN (v % p) - p ELSE v % p
  BY <1>1, <1>2, Zenon DEF Meaning
<1>4. CASE f.logMin < 0
  <2>1. PICK j \in 0..(f.size - 1) : f.logMax = 2^j - 1 /\ f.logMin >= -(2^j)
    BY <1>4, Zenon DEF Representable
  <2>2. j \in Nat /\ f.size \in Nat /\ j < f.size
    BY FieldParts
  <2>3. PICK h \in Nat, q \in Nat : p = 2 * h /\ 2^(f.size - 1) = h /\ 2^j = q /\ q <= h
    BY <1>2, <2>2, Halves, ZenonT(120)
  <2>4. v < q /\ v >= -q
    BY <2>1, <2>3, FieldParts
  <2>5. CASE v >= 0
    <3>1. v = p * 0 + v /\ v \in 0..(p - 1)
      BY <2>3, <2>4, <2>5
    <3>2. v % p = v
      BY <3>1, DivUnique
    <3>3. ~ (v % p >= 2^(f.size - 1))
      BY <2>3, <2>4, <3>2
    <3> QED  BY <1>3, <3>2, <3>3, Zenon
  <2>6. CASE v < 0
    <3>1. PICK c \in Int, r \in 0..(p - 1) : r = v + p /\ v = p * c + r
      <4>1. v + p \in 0..(p - 1) /\ -1 \in Int /\ v = p * (-1) + (v + p)
        BY <2>3, <2>4, <2>6
      <4> QED  BY <4>1, Zenon
    <3>2. v % p = v + p
      BY <3>1, DivUnique, ZenonT(60)
    <3>3. v % p >= 2^(f.size - 1) /\ (v + p) - p = v
      BY <2>3, <2>4, <3>2
    <3> QED  BY <1>3, <1>4, <3>2, <3>3, Zenon
  <2> QED  BY <2>5, <2>6
<1>5. CASE ~ (f.logMin < 0)
  <2>1. f.logMax < p
    BY <1>2, <1>5, Zenon DEF Representable
  <2>2. v = p * 0 + v /\ v \in 0..(p - 1)
    BY <1>5, <2>1, FieldParts
  <2>3. v % p = v
    BY <2>2, DivUnique
  <2> QED  BY <1>3, <1>5, <2>3, Zenon
<1> QED  BY <1>4, <1>5

-----------------------------------------------------------------------------
(* What SetValue writes.                                                   *)

\* The bits of a field that starts at a byte, in each of its bytes, are those of
\* the value.
LEMMA BitSet ==
    ASSUME NEW bytes, NEW f \in Field, Holds(bytes, f), f.offset % 8 = 0, NEW v \in Int,
           NEW w \in 0..(f.size - 1)
    PROVE  BitOf(SetValue(bytes, f, v), FirstBit(f) + w) = Digit(v, w)
<1>1. PICK q \in Nat, size \in Nat : size = f.size /\ FirstBit(f) = 8 * q
  <2>1. f.offset \in Nat /\ FirstBit(f) = f.offset + 8 /\ f.size \in Nat
    BY FieldParts
  <2>2. f.offset \div 8 + 1 \in Nat /\ f.offset + 8 = 8 * (f.offset \div 8 + 1)
    BY <2>1
  <2> QED  BY <2>1, <2>2, Zenon
<1>2. PICK j \in Nat, u \in 0..7 : w = 8 * j + u /\ w < size
  <2>1. w \in 0..(size - 1)
    BY <1>1, Zenon
  <2>2. w \div 8 \in Nat /\ w % 8 \in 0..7 /\ w = 8 * (w \div 8) + (w % 8) /\ w < size
    BY <2>1
  <2> QED  BY <2>2, Zenon
<1>3. (8 * q + w) \div 8 = q + j /\ (8 * q + w) % 8 = u
  BY <1>2
<1>4. PICK a \in Nat, c \in Nat :
          a = 8 * j /\ ((c = 8 /\ a + 8 <= size) \/ (c = size - a /\ a + 8 > size))
  <2>1. PICK a \in Nat : a = 8 * j
    OBVIOUS
  <2>2. CASE a + 8 <= size
    <3>1. 8 \in Nat
      OBVIOUS
    <3> QED  BY <2>1, <2>2, <3>1, Zenon
  <2>3. CASE a + 8 > size
    <3>1. size - a \in Nat
      BY <1>2, <2>1
    <3> QED  BY <2>1, <2>3, <3>1, Zenon
  <2> QED  BY <2>1, <2>2, <2>3
<1>5. c <= 8 /\ u \in 0..(c - 1) /\ w = a + u
  BY <1>2, <1>4
<1>6. PICK k : k = q + j + 1
  OBVIOUS
<1>7. k \in DOMAIN bytes
  <2>1. (FirstBit(f) + w) \div 8 + 1 \in 2..Len(bytes)
    BY BitPlace
  <2>2. q + j + 1 \in 1..Len(bytes) /\ bytes \in Seq(Byte)
    <3>1. q + j + 1 \in 2..Len(bytes)
      BY <1>1, <1>3, <2>1, Zenon
    <3>2. bytes \in Seq(Byte)
      BY Zenon DEF Holds
    <3> QED  BY <3>1, <3>2
  <2> QED  BY <1>6, <2>2
<1>8. Here(f, k) = a..(a + c - 1)
  <2>1. Here(f, k) = {x \in 0..(size - 1) : (8 * q + x) \div 8 = k - 1}
    BY <1>1, Zenon DEF Here
  <2>2. ASSUME NEW x \in Nat
        PROVE  (8 * q + x) \div 8 = k - 1 <=> a <= x /\ x < a + 8
    BY <1>4, <1>6
  <2>3. ASSUME NEW x
        PROVE  x \in 0..(size - 1) /\ (8 * q + x) \div 8 = k - 1 <=> x \in a..(a + c - 1)
    <3>1. CASE x \in Nat
      <4>1. x \in 0..(size - 1) <=> x < size
        BY <3>1
      <4>2. x \in a..(a + c - 1) <=> a <= x /\ x < a + c
        BY <3>1
      <4>3. a <= x /\ x < a + c <=> x < size /\ a <= x /\ x < a + 8
        BY <1>4, <3>1
      <4> QED  BY <2>2, <3>1, <4>1, <4>2, <4>3, Zenon
    <3>2. CASE x \notin Nat
      <4>1. x \notin 0..(size - 1) /\ x \notin a..(a + c - 1)
        BY <3>2
      <4> QED  BY <4>1, Zenon
    <3> QED  BY <3>1, <3>2
  <2> QED  BY <2>1, <2>3
<1>9. ByteBefore(bytes, f, k) = 0
  <2>1. 8 * (k - 1) \in (8 * q)..(8 * q + size - 1)
    BY <1>2, <1>6
  <2> QED  BY <1>1, <2>1, Zenon DEF ByteBefore
<1> DEFINE H == a..(a + c - 1)
           wt == ByteWeights(v, H)
           d == [x \in 0..(c - 1) |-> Digit(v, a + x)]
<1>10. ASSUME NEW x \in 0..(c - 1) PROVE d[x] \in {0, 1} /\ wt[a + x] = d[x] * 2^x
  <2>1. a + x \in Nat /\ a + x \in H /\ (a + x) % 8 = x
    BY <1>4, <1>5
  <2>2. wt[a + x] = Digit(v, a + x) * 2^((a + x) % 8)
    BY <2>1, Zenon DEF ByteWeights
  <2>3. d[x] = Digit(v, a + x)
    BY Zenon
  <2> QED  BY <2>1, <2>2, <2>3, DigitType, Zenon
<1> HIDE DEF wt, d
<1>11. Total(wt, H) \in 0..(2^c - 1) /\ Digit(Total(wt, H), u) = d[u]
  <2>1. Weighs(wt, d, a, c)
    BY <1>10, Zenon DEF Weighs
  <2> HIDE DEF H
  <2>2. /\ Total(wt, a..(a + c - 1)) \in 0..(2^c - 1)
        /\ \A x \in 0..(c - 1) : Digit(Total(wt, a..(a + c - 1)), x) = d[x]
    BY <2>1, DigitsOfSum
  <2> QED  BY <1>5, <2>2, Zenon DEF H
<1>12. PICK T \in Byte : T = Total(wt, H)
  <2>1. PICK m \in Nat : m > 0 /\ 2^(c + (8 - c)) = 2^c * m
    <3>1. 8 - c \in Nat
      BY <1>5
    <3> QED  BY <3>1, PowerDivides
  <2>2. PICK p \in Nat : p = 2^c
    BY PowerIsNat
  <2>3. c + (8 - c) = 8 /\ 2^8 = 256
    BY <1>5, SMT
  <2>4. p * m >= p
    BY <2>1
  <2>5. p <= 256
    BY <2>1, <2>2, <2>3, <2>4
  <2>6. 0..(p - 1) \subseteq Byte
    BY <2>5 DEF Byte
  <2> QED  BY <1>11, <2>2, <2>6, Zenon
<1>13. SetValue(bytes, f, v)[k] = T
  <2>1. Added(v, Here(f, k)) = T
    BY <1>8, <1>12, AddedIsSum, Zenon DEF wt
  <2>2. SetValue(bytes, f, v)[k] = Wrapped(0 + T)
    BY <1>7, <1>9, <2>1, ByteSet, Zenon
  <2>3. 0 + T = T /\ Wrapped(T) = T
    BY ByteIs
  <2> QED  BY <2>2, <2>3, Zenon
<1>14. BitOf(SetValue(bytes, f, v), FirstBit(f) + w) = Digit(T, u)
  BY <1>1, <1>3, <1>6, <1>13, Zenon DEF BitOf, Digit
<1>15. d[u] = Digit(v, w)
  BY <1>5, Zenon DEF d
<1> QED  BY <1>11, <1>12, <1>14, <1>15, Zenon

LEMMA BitsSet ==
    ASSUME NEW bytes, NEW f \in Field, Holds(bytes, f), f.offset % 8 = 0, NEW v \in Int
    PROVE  Bits(SetValue(bytes, f, v), FirstBit(f), f.size) = v % 2^f.size
<1>1. PICK wt : wt = BitWeights(SetValue(bytes, f, v), FirstBit(f), f.size)
  OBVIOUS
<1>2. \A u \in 0..(f.size - 1) : wt[u] = Digit(v, u) * 2^u
  BY <1>1, BitSet, Zenon DEF BitWeights
<1>3. f.size \in Nat
  BY FieldParts
<1>4. Total(wt, 0..(f.size - 1)) = v % 2^f.size
  BY <1>2, <1>3, SumOfDigits, Zenon
<1> QED  BY <1>1, <1>4, BitsAreSum, Zenon

-----------------------------------------------------------------------------
(* The theorems.                                                           *)

\* The report in the buffer is as long as one that a device sends.
BufInv == buf \in Seq(Byte) /\ \E r \in Report : Len(buf) = Len(r)

LEMMA BufHolds ==
    ASSUME FieldsFit, BufInv, NEW f \in Field
    PROVE  Holds(buf, f)
BY DEF FieldsFit, BufInv, Holds

\* The reports stay as long as devices send them, whatever is written.
LEMMA BufKept == Spec => []BufInv
<1>1. ASSUME Init PROVE BufInv
  BY <1>1, ReportType DEF Init, BufInv, Byte
<1>2. ASSUME BufInv, [Next]_vars PROVE BufInv'
  <2>1. CASE Receive
    BY <2>1, ReportType DEF Receive, BufInv, Byte
  <2>2. ASSUME NEW f \in Field, Get(f) PROVE BufInv'
    BY <1>2, <2>2 DEF Get, BufInv
  <2>3. ASSUME NEW f \in Settable, NEW v \in Value, Set(f, v) PROVE BufInv'
    <3>1. f \in Field /\ v \in Int
      BY FieldType, ValueType
    <3>2. buf' = SetValue(buf, f, v)
      BY <2>3 DEF Set
    <3>3. buf' \in Seq(Byte) /\ Len(buf') = Len(buf)
      BY <1>2, <3>1, <3>2, SetType, Zenon DEF BufInv
    <3> QED  BY <1>2, <3>3, Zenon DEF BufInv
  <2>4. CASE UNCHANGED vars
    BY <1>2, <2>4, Zenon DEF BufInv, vars
  <2> QED  BY <1>2, <2>1, <2>2, <2>3, <2>4, Zenon DEF Next
<1> QED  BY <1>1, <1>2, PTL DEF Spec

\* GetValue takes out of a report what the bits of the field mean, signed or
\* not, wherever they lie and whatever has been received and written before, if
\* that is in the field's logical range.
THEOREM MeaningIsGot ==
    ASSUME FieldsFit, \A f \in Field : Representable(f)
    PROVE  Spec => []GetIsMeaning
<1>1. ASSUME Init PROVE GetIsMeaning
  BY <1>1 DEF Init, GetIsMeaning
<1>2. ASSUME BufInv, GetIsMeaning, [Next]_vars PROVE GetIsMeaning'
  <2>1. CASE Receive
    BY <2>1 DEF Receive, GetIsMeaning
  <2>2. ASSUME NEW f \in Field, Get(f) PROVE GetIsMeaning'
    <3>1. buf' = buf /\ pData' = f /\ val' = GetValue(buf, f)
      BY <2>2, Zenon DEF Get
    <3>2. Holds(buf, f) /\ Representable(f)
      BY <1>2, BufHolds, Zenon
    <3>3. Meaning(buf, f) \in f.logMin..f.logMax => GetValue(buf, f) = Meaning(buf, f)
      BY <3>2, MeaningGot, Zenon
    <3> QED  BY <3>1, <3>3, Zenon DEF GetIsMeaning
  <2>3. ASSUME NEW f \in Settable, NEW v \in Value, Set(f, v) PROVE GetIsMeaning'
    BY <2>3 DEF Set, GetIsMeaning
  <2>4. CASE UNCHANGED vars
    BY <1>2, <2>4, Zenon DEF GetIsMeaning, vars
  <2> QED  BY <1>2, <2>1, <2>2, <2>3, <2>4, Zenon DEF Next
<1> QED  BY <1>1, <1>2, BufKept, PTL DEF Spec

\* What SetValue has written into a field that starts at a byte, GetValue gets
\* from it, over any earlier contents of the report.
THEOREM ValueIsGot ==
    ASSUME FieldsFit, Aligned, \A f \in Settable : Representable(f)
    PROVE  Spec => []SetIsGot
<1>1. ASSUME Init PROVE SetIsGot
  BY <1>1 DEF Init, SetIsGot
<1>2. ASSUME BufInv, SetIsGot, [Next]_vars PROVE SetIsGot'
  <2>1. CASE Receive
    BY <2>1 DEF Receive, SetIsGot
  <2>2. ASSUME NEW f \in Field, Get(f) PROVE SetIsGot'
    BY <2>2 DEF Get, SetIsGot
  <2>3. ASSUME NEW f \in Settable, NEW v \in Value, Set(f, v) PROVE SetIsGot'
    <3>1. f \in Field /\ v \in Int /\ v \in f.logMin..f.logMax /\ Representable(f)
      BY <2>3, FieldType, ValueType DEF Set
    <3>2. Holds(buf, f) /\ f.offset % 8 = 0
      BY <1>2, <3>1, BufHolds, Zenon DEF Aligned
    <3>3. PICK b : b = SetValue(buf, f, v)
      OBVIOUS
    <3>4. Holds(b, f)
      <4>1. b \in Seq(Byte) /\ Len(b) = Len(buf)
        BY <1>2, <3>1, <3>3, SetType, Zenon DEF BufInv
      <4> QED  BY <3>2, <4>1, Zenon DEF Holds
    <3>5. Meaning(b, f) = v
      <4>1. Bits(b, FirstBit(f), f.size) = v % 2^f.size
        BY <3>1, <3>2, <3>3, BitsSet, Zenon
      <4> QED  BY <3>1, <4>1, ValueMeant, Zenon
    <3>6. GetValue(b, f) = v
      BY <3>1, <3>4, <3>5, MeaningGot, Zenon
    <3>7. buf' = b /\ pData' = f /\ val' = v
      BY <2>3, <3>3, Zenon DEF Set
    <3> QED  BY <3>6, <3>7, Zenon DEF SetIsGot
  <2>4. CASE UNCHANGED vars
    BY <1>2, <2>4, Zenon DEF SetIsGot, vars
  <2> QED  BY <1>2, <2>1, <2>2, <2>3, <2>4, Zenon DEF Next
<1> QED  BY <1>1, <1>2, BufKept, PTL DEF Spec

\* The report's number, which is in its first byte, belongs to no field.
LEMMA NumberApart == ASSUME NEW f \in Field PROVE 0 \notin BytesOf(f)
<1> SUFFICES ASSUME NEW b \in FirstBit(f)..(FirstBit(f) + f.size - 1), b \div 8 = 0 PROVE FALSE
  BY Zenon DEF BytesOf
<1>1. b \in Nat /\ b >= 8
  BY FieldParts
<1> QED  BY <1>1

\* Fields without a byte in common do not disturb each other.
LEMMA MeaningStays ==
    ASSUME NEW bytes, NEW f \in Field, NEW g \in Field, Holds(bytes, f), Holds(bytes, g),
           NEW v \in Int, BytesOf(f) \cap BytesOf(g) = {}
    PROVE  Meaning(SetValue(bytes, f, v), g) = Meaning(bytes, g)
<1>1. ASSUME NEW w \in 0..(g.size - 1)
      PROVE  BitOf(SetValue(bytes, f, v), FirstBit(g) + w) = BitOf(bytes, FirstBit(g) + w)
  <2>1. PICK n \in Nat : n = FirstBit(g) + w
    BY FieldParts
  <2>2. n \div 8 \in BytesOf(g) /\ n \div 8 + 1 \in 2..Len(bytes)
    BY <2>1, BitPlace, Zenon
  <2>3. PICK k \in 1..Len(bytes) : k = n \div 8 + 1 /\ k - 1 = n \div 8
    BY <2>2
  <2>4. bytes \in Seq(Byte) /\ k - 1 \notin BytesOf(f)
    BY <2>2, <2>3, Zenon DEF Holds
  <2>5. SetValue(bytes, f, v)[k] = bytes[k]
    BY <2>4, ByteStays, ZenonT(60)
  <2> QED  BY <2>1, <2>3, <2>5, Zenon DEF BitOf
<1>2. Bits(SetValue(bytes, f, v), FirstBit(g), g.size) = Bits(bytes, FirstBit(g), g.size)
  <2>1. PICK b, from, size : b = SetValue(bytes, f, v) /\ from = FirstBit(g) /\ size = g.size
    OBVIOUS
  <2>2. SameBits(b, bytes, from, size)
    BY <1>1, <2>1, Zenon DEF SameBits
  <2>3. Bits(b, from, size) = Bits(bytes, from, size)
    BY <2>2, BitsAgree
  <2> QED  BY <2>1, <2>3, Zenon
<1>3. FirstBit(g) = 8 + g.offset
  BY FieldParts
<1>4. PICK b, r : b = SetValue(bytes, f, v) /\ r = Bits(bytes, 8 + g.offset, g.size)
  OBVIOUS
<1>5. r = Bits(b, 8 + g.offset, g.size)
  BY <1>2, <1>3, <1>4, Zenon
<1>6. Meaning(b, g) = IF g.logMin < 0 /\ r >= 2^(g.size - 1) THEN r - 2^g.size ELSE r
  BY <1>5, Zenon DEF Meaning
<1>7. Meaning(bytes, g) = IF g.logMin < 0 /\ r >= 2^(g.size - 1) THEN r - 2^g.size ELSE r
  BY <1>4, Zenon DEF Meaning
<1> QED  BY <1>4, <1>6, <1>7, Zenon

\* Writing a field, of any place and length, leaves the report's number and all
\* fields that lie in other bytes what they are.
THEOREM OthersStay ==
    ASSUME FieldsFit, Apart
    PROVE  Spec => OthersKept
<1> DEFINE Kept == last' = "set" =>
               /\ buf'[1] = buf[1]
               /\ \A g \in Field : Overlap(pData', g) \/ Meaning(buf', g) = Meaning(buf, g)
<1>1. ASSUME BufInv, [Next]_vars PROVE [Kept]_vars
  <2>1. CASE Receive
    BY <2>1 DEF Receive
  <2>2. ASSUME NEW f \in Field, Get(f) PROVE Kept
    BY <2>2 DEF Get
  <2>3. ASSUME NEW f \in Settable, NEW v \in Value, Set(f, v) PROVE Kept
    <3>1. f \in Field /\ v \in Int
      BY FieldType, ValueType
    <3>2. buf' = SetValue(buf, f, v) /\ pData' = f
      BY <2>3, Zenon DEF Set
    <3>3. Holds(buf, f)
      BY <1>1, <3>1, BufHolds, Zenon
    <3>4. buf'[1] = buf[1]
      <4>1. 1 \in 1..Len(buf) /\ buf \in Seq(Byte) /\ 1 - 1 = 0
        BY <3>1, <3>3, FieldParts DEF Holds
      <4>2. 1 - 1 \notin BytesOf(f)
        BY <3>1, <4>1, NumberApart, Zenon
      <4> QED  BY <3>1, <3>2, <4>1, <4>2, ByteStays, Zenon
    <3>5. ASSUME NEW g \in Field PROVE Overlap(f, g) \/ Meaning(buf', g) = Meaning(buf, g)
      <4>1. CASE Overlap(f, g)
        BY <4>1, Zenon
      <4>2. CASE BytesOf(f) \cap BytesOf(g) = {}
        <5>1. Holds(buf, g)
          BY <1>1, BufHolds, Zenon
        <5> QED  BY <3>1, <3>2, <3>3, <4>2, <5>1, MeaningStays, ZenonT(60)
      <4> QED  BY <4>1, <4>2, Zenon DEF Apart
    <3> QED  BY <3>2, <3>4, <3>5, Zenon
  <2>4. CASE UNCHANGED vars
    BY <2>4
  <2> HIDE DEF Kept
  <2> QED  BY <1>1, <2>1, <2>2, <2>3, <2>4, Zenon DEF Next
<1>2. BufInv /\ [][Next]_vars /\ []BufInv => [][Kept]_vars
  <2> HIDE DEF Kept
  <2> QED  BY <1>1, PTL
<1> QED  BY <1>2, BufKept, PTL DEF Spec, OthersKept
=============================================================================
