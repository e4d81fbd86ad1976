--------------------------- MODULE Transfer_proofs ---------------------------
(***************************************************************************)
(* PartLayout: where the float quotient of get_part_size and of            *)
(* part_size_for_hashing_size has the right ceiling. Transfer, for every   *)
(* file, every distribution of its parts and every number of faults: what  *)
(* the master is told of is stored, what request_upload and                *)
(* request_download report, and which bytes recv_part writes.              *)
(***************************************************************************)
EXTENDS Transfer, FiniteSetTheorems, NaturalsInduction, WellFoundedInduction,
        FunctionTheorems, TLAPS

-----------------------------------------------------------------------------
(***************************************************************************)
(* Natural numbers and powers of 2.                                         *)
(***************************************************************************)
\* A set of natural numbers has a least element.
LEMMA LeastOf ==
    ASSUME NEW S, S \subseteq Nat, S # {}
    PROVE  \E x \in S : \A y \in S : x <= y
<1>1. PICK x \in S : \A y \in S : ~(<<y, x>> \in OpToRel(<, Nat))
  BY NatLessThanWellFounded, WFMin
<1>2. \A y \in S : x <= y
  <2> TAKE y \in S
  <2>1. x \in Nat /\ y \in Nat
    OBVIOUS
  <2>2. ~(y < x)
    BY <1>1, <2>1 DEF OpToRel
  <2>3. QED
    BY <2>1, <2>2
<1>3. QED
  BY <1>2

\* 2^n is the number of subsets of a set with n elements.
LEMMA Powers ==
    ASSUME NEW n \in Nat
    PROVE  /\ IsFiniteSet(SUBSET (1 .. n)) /\ Cardinality(SUBSET (1 .. n)) = 2^n
           /\ 2^n \in Nat /\ 2^n > 0
<1>1. IsFiniteSet(1 .. n) /\ Cardinality(1 .. n) = n
  BY FS_Interval
<1>2. IsFiniteSet(SUBSET (1 .. n)) /\ Cardinality(SUBSET (1 .. n)) = 2^n
  BY <1>1, FS_SUBSET
<1>3. 2^n \in Nat
  BY <1>2, FS_CardinalityType
<1>4. {} \in SUBSET (1 .. n)
  OBVIOUS
<1>5. 2^n # 0
  BY <1>2, <1>4, FS_EmptySet
<1>6. QED
  BY <1>2, <1>3, <1>5

\* Powers of 2 are positive.
LEMMA PowerIsNat == \A n \in Nat : 2^n \in Nat /\ 2^n \in Nat \ {0}
<1> TAKE n \in Nat
<1>1. 2^n \in Nat /\ 2^n > 0
  BY Powers
<1>2. QED
  BY <1>1

\* Powers of 2 grow.
LEMMA PowerGrows ==
    ASSUME NEW m \in Nat, NEW n \in Nat, m <= n
    PROVE  2^m <= 2^n
<1>1. SUBSET (1 .. m) \in SUBSET (SUBSET (1 .. n))
  OBVIOUS
<1>2. Cardinality(SUBSET (1 .. m)) <= Cardinality(SUBSET (1 .. n))
  BY <1>1, Powers, FS_Subset
<1>3. QED
  BY <1>2, Powers

\* The next power of 2 is twice as much.
LEMMA PowerStep ==
    ASSUME NEW n \in Nat
    PROVE  2^(n + 1) = 2 * 2^n
<1> DEFINE S == SUBSET (1 .. n)
           T == {X \cup {n + 1} : X \in S}
           f == [X \in S |-> X \cup {n + 1}]
<1>1. \A X \in S : n + 1 \notin X
  OBVIOUS
<1>2. f \in [S -> T]
  OBVIOUS
<1>3. \A X, Y \in S : f[X] = f[Y] => X = Y
  <2> TAKE X, Y \in S
  <2>1. X = (X \cup {n + 1}) \ {n + 1} /\ Y = (Y \cup {n + 1}) \ {n + 1}
    BY <1>1
  <2>2. QED
    BY <2>1
<1>4. \A Z \in T : \E X \in S : f[X] = Z
  OBVIOUS
<1>5. f \in Bijection(S, T)
  BY <1>2, <1>3, <1>4 DEF Bijection, Injection, Surjection, IsInjective
<1>6. ExistsBijection(S, T)
  BY <1>5 DEF ExistsBijection
<1>7. IsFiniteSet(S) /\ Cardinality(S) = 2^n /\ 2^n \in Nat
  BY Powers
<1>8. S \cap T = {}
  BY <1>1
<1>9. SUBSET (1 .. n + 1) = S \cup T
  <2>1. \A X \in SUBSET (1 .. n + 1) : X \in S \cup T
    <3> TAKE X \in SUBSET (1 .. n + 1)
    <3>1. CASE n + 1 \notin X
      <4>1. X \subseteq 1 .. n
        BY <3>1
      <4>2. QED
        BY <4>1
    <3>2. CASE n + 1 \in X
      <4>1. X \ {n + 1} \in S /\ X = (X \ {n + 1}) \cup {n + 1}
        BY <3>2
      <4>2. QED
        BY <4>1
    <3>3. QED
      BY <3>1, <3>2
  <2>2. S \subseteq SUBSET (1 .. n + 1) /\ T \subseteq SUBSET (1 .. n + 1)
    <3>1. \A X \in S : X \subseteq 1 .. n + 1
      <4>1. 1 .. n \subseteq 1 .. n + 1
        OBVIOUS
      <4>2. QED
        BY <4>1
    <3>2. n + 1 \in 1 .. n + 1
      OBVIOUS
    <3>3. \A X \in S : X \cup {n + 1} \subseteq 1 .. n + 1
      BY <3>1, <3>2
    <3>4. QED
      BY <3>1, <3>3
  <2>3. QED
    BY <2>1, <2>2
<1> HIDE DEF S, T, f
<1>10. IsFiniteSet(T) /\ Cardinality(T) = 2^n
  BY <1>6, <1>7, FS_Bijection
<1>11. Cardinality(S \cup T) = 2^n + 2^n
  BY <1>7, <1>8, <1>10, FS_Union, FS_EmptySet
<1>12. Cardinality(SUBSET (1 .. n + 1)) = 2^(n + 1)
  BY Powers
<1>13. QED
  BY <1>7, <1>9, <1>11, <1>12

\* The law of exponents.
LEMMA PowerSum ==
    ASSUME NEW m \in Nat, NEW n \in Nat
    PROVE  2^(m + n) = 2^m * 2^n
<1> DEFINE Bad == {i \in Nat : 2^(m + i) # 2^m * 2^i}
<1>1. SUFFICES ASSUME Bad # {} PROVE FALSE
  OBVIOUS
<1>2. PICK i \in Bad : \A j \in Bad : i <= j
  BY <1>1, LeastOf
<1>3. CASE i = 0
  <2>1. PICK a \in Nat : a = 2^m
    BY Powers
  <2>2. 2^0 = 1
    OBVIOUS
  <2>3. 2^(m + 0) = 2^m
    <3>1. m + 0 = m
      OBVIOUS
    <3>2. QED
      BY <3>1
  <2>4. 2^m * 2^0 = a
    BY <2>1, <2>2
  <2>5. QED
    BY <1>2, <1>3, <2>1, <2>3, <2>4
<1>4. CASE i # 0
  <2>1. i - 1 \in Nat /\ i - 1 \notin Bad
    BY <1>2, <1>4
  <2>2. 2^(m + (i - 1)) = 2^m * 2^(i - 1)
    BY <2>1
  <2>3. 2^((i - 1) + 1) = 2 * 2^(i - 1) /\ (i - 1) + 1 = i
    BY <2>1, PowerStep
  <2>4. 2^((m + (i - 1)) + 1) = 2 * 2^(m + (i - 1)) /\ (m + (i - 1)) + 1 = m + i
    BY <2>1, PowerStep
  <2>5. PICK a \in Nat, b \in Nat : a = 2^m /\ b = 2^(i - 1)
    BY <2>1, Powers
  <2>6. 2^(m + i) = 2 * (a * b) /\ 2^m * 2^i = a * (2 * b)
    BY <2>2, <2>3, <2>4, <2>5
  <2>7. 2 * (a * b) = a * (2 * b)
    BY <2>5
  <2>8. QED
    BY <1>2, <2>6, <2>7
<1>5. QED
  BY <1>3, <1>4

\* Products of natural numbers.
LEMMA Products ==
    ASSUME NEW a \in Nat, NEW b \in Nat, NEW c \in Nat, a <= b
    PROVE  /\ c * a \in Nat /\ c * b \in Nat /\ a * c = c * a
           /\ c * a <= c * b
           /\ a < b => c * a + c <= c * b
<1>1. PICK d \in Nat : b = a + d
  <2>1. b - a \in Nat /\ b = a + (b - a)
    OBVIOUS
  <2>2. QED
    BY <2>1
<1>2. c * a \in Nat /\ c * b \in Nat /\ c * d \in Nat
  OBVIOUS
<1>3. c * b = c * a + c * d
  BY <1>1
<1>4. a < b => \E e \in Nat : d = e + 1
  <2>1. a < b => d - 1 \in Nat /\ d = (d - 1) + 1
    BY <1>1
  <2>2. QED
    BY <2>1
<1>5. ASSUME a < b PROVE c * d >= c
  <2>1. PICK e \in Nat : d = e + 1
    BY <1>4, <1>5
  <2>2. c * d = c * e + c /\ c * e \in Nat
    BY <2>1
  <2>3. QED
    BY <2>2
<1>6. QED
  BY <1>2, <1>3, <1>5


\* Quotient and remainder are unique.
LEMMA Quotient ==
    ASSUME NEW a \in Nat, NEW d \in Nat \ {0}, NEW x \in Nat, NEW y \in Nat,
           a = d * x + y, y < d
    PROVE  a \div d = x /\ a % d = y
<1>1. PICK q \in Nat, r \in Nat : q = a \div d /\ r = a % d
  OBVIOUS
<1>2. a = d * q + r /\ r < d
  BY <1>1
<1>3. ASSUME q < x PROVE FALSE
  <2>1. d * q + d <= d * x
    BY <1>3, Products
  <2>2. d * q \in Nat /\ d * x \in Nat
    OBVIOUS
  <2>3. QED
    BY <1>2, <2>1, <2>2
<1>4. ASSUME x < q PROVE FALSE
  <2>1. d * x + d <= d * q
    BY <1>4, Products
  <2>2. d * q \in Nat /\ d * x \in Nat
    OBVIOUS
  <2>3. QED
    BY <1>2, <2>1, <2>2
<1>5. q = x
  BY <1>3, <1>4
<1>6. r = y
  <2>1. d * x \in Nat
    OBVIOUS
  <2>2. QED
    BY <1>2, <1>5, <2>1
<1>7. QED
  BY <1>1, <1>5, <1>6

\* The ceiling of a number between two multiples.
LEMMA CeilingIs ==
    ASSUME NEW a \in Nat, NEW d \in Nat \ {0}, NEW x \in Nat
    PROVE  /\ a = d * x => CeilDiv(a, d) = x
           /\ d * x < a /\ a <= d * x + d => CeilDiv(a, d) = x + 1
<1>1. PICK c \in Nat : c = d * x /\ d * (x + 1) = c + d
  OBVIOUS
<1>2. ASSUME a = d * x PROVE CeilDiv(a, d) = x
  <2>1. a + d - 1 = d * x + (d - 1) /\ d - 1 \in Nat /\ d - 1 < d /\ a + d - 1 \in Nat
    BY <1>1, <1>2
  <2>2. QED
    BY <2>1, Quotient DEF CeilDiv
<1>3. ASSUME d * x < a, a <= d * x + d PROVE CeilDiv(a, d) = x + 1
  <2>1. a + d - 1 = d * (x + 1) + (a - c - 1)
    BY <1>1
  <2>2. a - c - 1 \in Nat /\ a - c - 1 < d /\ a + d - 1 \in Nat /\ x + 1 \in Nat
    BY <1>1, <1>3
  <2>3. QED
    BY <2>1, <2>2, Quotient DEF CeilDiv
<1>4. QED
  BY <1>2, <1>3

\* The multiple of d that is nearest to a.
Nearest(a, d) ==
    IF 2 * (a % d) > d \/ (2 * (a % d) = d /\ (a \div d) % 2 = 1)
    THEN a \div d + 1 ELSE a \div d

\* A quotient that is rounded to one of V steps between two whole numbers, when 2 * V
\* exceeds the divisor: it is rounded neither to nor past a whole number.
LEMMA RoundedCeiling ==
    ASSUME NEW s \in Nat, NEW n \in Nat \ {0}, NEW K \in Nat \ {0}, NEW V \in Nat \ {0},
           n < 2 * V
    PROVE  CeilDiv(K * Nearest(s * (K * V), n * K), K * V) = CeilDiv(s, n)
<1> DEFINE a == s * (K * V)
           d == n * K
           X == Nearest(a, d)
<1>1. PICK m \in Nat, r \in Nat : s = n * m + r /\ r < n
  <2>1. s \div n \in Nat /\ s % n \in Nat /\ s = n * (s \div n) + (s % n) /\ s % n < n
    OBVIOUS
  <2>2. QED
    BY <2>1
<1>2. PICK h \in Nat, T \in Nat : r * V = n * h + T /\ T < n
  <2>1. PICK w \in Nat : w = r * V
    OBVIOUS
  <2>2. w \div n \in Nat /\ w % n \in Nat /\ w = n * (w \div n) + (w % n) /\ w % n < n
    OBVIOUS
  <2>3. QED
    BY <2>1, <2>2
<1> DEFINE Q == m * V + h
<1>3. Q \in Nat /\ d \in Nat \ {0} /\ a \in Nat /\ K * T \in Nat
  OBVIOUS
<1>4. s * V = n * Q + T
  <2>1. s * V = (n * m) * V + r * V
    BY <1>1
  <2>2. n * Q = n * (m * V) + n * h
    OBVIOUS
  <2>3. (n * m) * V = n * (m * V)
    OBVIOUS
  <2>4. QED
    BY <1>2, <2>1, <2>2, <2>3
<1>5. a = d * Q + K * T /\ K * T < d
  <2>1. a = K * (s * V)
    OBVIOUS
  <2>2. K * (n * Q + T) = d * Q + K * T
    OBVIOUS
  <2>3. K * T + K <= K * n
    BY <1>2, Products
  <2>4. K * n = d
    OBVIOUS
  <2>5. QED
    BY <1>3, <1>4, <2>1, <2>2, <2>3, <2>4
<1>6. a \div d = Q /\ a % d = K * T
  BY <1>3, <1>5, Quotient
<1>7. X = IF 2 * (K * T) > d \/ (2 * (K * T) = d /\ Q % 2 = 1) THEN Q + 1 ELSE Q
  BY <1>6 DEF Nearest
<1>11. X \in Nat
  BY <1>3, <1>7
<1> HIDE DEF X
<1>8. CASE r = 0
  <2>1. r * V = 0
    BY <1>8
  <2>2. T = 0 /\ h = 0
    <3>1. n * h \in Nat /\ (h # 0 => n * h >= n)
      <4>1. h # 0 => \E g \in Nat : h = g + 1
        <5>1. h # 0 => h - 1 \in Nat /\ h = (h - 1) + 1
          OBVIOUS
        <5>2. QED
          BY <5>1
      <4>2. \A g \in Nat : n * (g + 1) = n * g + n /\ n * g \in Nat
        OBVIOUS
      <4>3. QED
        BY <4>1, <4>2
    <3>2. n * h + T = 0
      BY <1>2, <2>1
    <3>3. QED
      BY <3>1, <3>2
  <2>3. X = m * V
    <3>1. K * T = 0 /\ m * V \in Nat
      BY <2>2
    <3>2. Q = m * V
      BY <2>2, <3>1
    <3>3. QED
      BY <1>3, <1>7, <3>1, <3>2
  <2>4. K * X = (K * V) * m
    <3>1. K * (m * V) = (K * V) * m
      OBVIOUS
    <3>2. QED
      BY <2>3, <3>1
  <2>5. CeilDiv(K * X, K * V) = m
    <3>1. K * X \in Nat /\ K * V \in Nat \ {0}
      BY <1>11
    <3>2. QED
      BY <2>4, <3>1, CeilingIs
  <2>6. CeilDiv(s, n) = m
    BY <1>1, <1>8, CeilingIs
  <2>7. QED
    BY <2>5, <2>6 DEF X
<1>9. CASE r # 0
  <2>1. CeilDiv(s, n) = m + 1
    <3>1. n * m \in Nat
      OBVIOUS
    <3>2. n * m < s /\ s <= n * m + n
      BY <1>1, <1>9, <3>1
    <3>3. QED
      BY <3>2, CeilingIs
  <2>2. h + 1 <= V
    <3>1. ASSUME V <= h PROVE FALSE
      <4>1. n * V <= n * h /\ n * h \in Nat /\ n * V \in Nat /\ n * V = V * n
        BY <3>1, Products
      <4>2. V * r + V <= V * n /\ V * r = r * V
        BY <1>1, Products
      <4>3. QED
        BY <1>2, <4>1, <4>2
    <3>2. QED
      BY <3>1
  <2>3. m * V < X /\ X <= m * V + V
    <3>1. PICK c \in Nat : c = m * V
      OBVIOUS
    <3>2. Q = c + h /\ (X = Q \/ X = Q + 1)
      BY <1>7, <3>1
    <3>3. CASE h # 0
      BY <2>2, <3>1, <3>2, <3>3
    <3>4. CASE h = 0
      <4>1. T = r * V /\ V <= r * V
        <5>1. n * h = 0
          BY <3>4
        <5>2. V * 1 <= V * r /\ V * r = r * V /\ V * 1 = V
          BY <1>9, Products
        <5>3. QED
          BY <1>2, <5>1, <5>2
      <4>2. n < 2 * T
        BY <4>1
      <4>3. 2 * (K * T) > d
        <5>1. K * n + K <= K * (2 * T)
          BY <4>2, Products
        <5>2. K * n = d /\ K * (2 * T) = 2 * (K * T)
          OBVIOUS
        <5>3. QED
          BY <1>3, <5>1, <5>2
      <4>4. X = Q + 1
        BY <1>7, <4>3
      <4>5. QED
        BY <2>2, <3>1, <3>2, <3>4, <4>4
    <3>5. QED
      BY <3>3, <3>4
  <2>4. (K * V) * m < K * X /\ K * X <= (K * V) * m + K * V
    <3>1. m * V \in Nat /\ m * V + V \in Nat
      OBVIOUS
    <3>2. K * (m * V) + K <= K * X /\ K * X <= K * (m * V + V)
      BY <1>11, <2>3, <3>1, Products
    <3>3. K * (m * V) = (K * V) * m /\ K * (m * V + V) = (K * V) * m + K * V
      OBVIOUS
    <3>4. PICK g \in Nat : g = K * (m * V)
      BY <3>1
    <3>5. g < K * X
      BY <1>11, <3>2, <3>4
    <3>6. QED
      BY <3>2, <3>3, <3>4, <3>5
  <2>5. K * X \in Nat /\ K * V \in Nat \ {0}
    BY <1>11
  <2>6. CeilDiv(K * X, K * V) = m + 1
    BY <2>4, <2>5, CeilingIs
  <2>7. QED
    BY <2>1, <2>6 DEF X
<1>10. QED
  BY <1>8, <1>9

\* The scale at which a quotient has FloatBits significant bits.
Scale(a, b, k) ==
    /\ a < b * 2^(FloatBits + k)
    /\ k > 0 => a >= b * 2^(FloatBits + k - 1)

\* ToFloat rounds at a scale that fits, if there is one.
LEMMA ToFloatIs ==
    ASSUME NEW a, NEW b, NEW i \in 0 .. WordBits, Scale(a, b, i)
    PROVE  \E k \in 0 .. WordBits : Scale(a, b, k) /\ ToFloat(a, b) = RoundTo(a, b, k)
<1> DEFINE k == CHOOSE k \in 0 .. WordBits : Scale(a, b, k)
<1>1. k \in 0 .. WordBits /\ Scale(a, b, k)
  OBVIOUS
<1>2. k = CHOOSE j \in 0 .. WordBits : /\ a < b * 2^(FloatBits + j)
                                       /\ j > 0 => a >= b * 2^(FloatBits + j - 1)
  BY DEF Scale
<1>3. ToFloat(a, b) = RoundTo(a, b, k)
  BY <1>2 DEF ToFloat
<1>4. QED
  BY <1>1, <1>3

\* A size below 2^FloatBits is a float.
LEMMA SmallIsFloat ==
    ASSUME NEW s \in Nat, s < 2^FloatBits
    PROVE  ToFloat(s, 1) = s
<1>1. FloatBits \in Nat /\ WordBits \in Nat /\ FloatBits >= 1
  BY LayoutAssumption
<1>2. PICK U \in Nat : U = 2^FloatBits
  BY <1>1, Powers
<1>3. 0 \in 0 .. WordBits /\ Scale(s, 1, 0)
  <2>1. FloatBits + 0 = FloatBits
    BY <1>1
  <2>2. 2^(FloatBits + 0) = U
    BY <1>2, <2>1
  <2>3. QED
    BY <1>1, <1>2, <2>2 DEF Scale
<1>4. PICK k \in 0 .. WordBits : Scale(s, 1, k) /\ ToFloat(s, 1) = RoundTo(s, 1, k)
  BY <1>3, ToFloatIs
<1>5. k = 0
  <2>1. ASSUME k > 0 PROVE FALSE
    <3>1. FloatBits + k - 1 \in Nat /\ FloatBits <= FloatBits + k - 1
      BY <1>1, <2>1
    <3>2. PICK P \in Nat : P = 2^(FloatBits + k - 1)
      BY <3>1, Powers
    <3>3. U <= P
      BY <1>1, <1>2, <3>1, <3>2, PowerGrows
    <3>4. s >= 1 * P
      BY <1>4, <2>1, <3>2 DEF Scale
    <3>5. QED
      BY <1>2, <3>3, <3>4
  <2>2. QED
    BY <1>1, <2>1
<1>6. 2^0 = 1
  OBVIOUS
<1>7. RoundTo(s, 1, 0) = s
  <2>1. s \div 1 = s /\ s % 1 = 0
    BY Quotient
  <2>2. 1 * 2^0 = 1
    BY <1>6
  <2>3. QED
    BY <1>6, <2>1, <2>2 DEF RoundTo
<1>8. QED
  BY <1>4, <1>5, <1>7

\* std::ceil((float)size / parts) is the exact ceiling for every size below 2^24:
\* although the quotient is rounded, it is rounded neither to nor past a whole number.
THEOREM FloatCeiling ==
    ASSUME NEW s \in Nat, NEW n \in Nat \ {0}, s < 2^FloatBits, FloatBits <= WordBits
    PROVE  CeilFloat(s, n) = CeilDiv(s, n)
<1>1. FloatBits \in Nat /\ WordBits \in Nat /\ FloatBits >= 1
  BY LayoutAssumption
<1>2. ToFloat(s, 1) = s
  BY SmallIsFloat
<1>3. CASE s < n
  <2>1. CeilFloat(s, n) = IF s = 0 THEN 0 ELSE 1
    BY <1>2, <1>3 DEF CeilFloat
  <2>2. s = n * 0 \/ (n * 0 < s /\ s <= n * 0 + n)
    BY <1>3
  <2>3. s = 0 <=> s = n * 0
    OBVIOUS
  <2>4. CeilDiv(s, n) = IF s = 0 THEN 0 ELSE 1
    BY <2>2, <2>3, CeilingIs
  <2>5. QED
    BY <2>1, <2>4
<1>4. CASE n <= s
  <2>1. PICK U \in Nat \ {0} : U = 2^FloatBits
    BY <1>1, Powers
  <2>2. CeilFloat(s, n) = CeilDiv(ToFloat(s * U, n), U)
    BY <1>2, <1>4, <2>1 DEF CeilFloat
  <2>3. PICK a \in Nat : a = s * U
    OBVIOUS
  <2>4. \E i \in 0 .. WordBits : Scale(a, n, i)
    <3> DEFINE Good == {i \in Nat : a < n * 2^(FloatBits + i)}
    <3>1. FloatBits \in Good
      <4>1. 2^(FloatBits + FloatBits) = U * U
        BY <1>1, <2>1, PowerSum
      <4>2. U * s + U <= U * U
        BY <2>1, Products
      <4>3. (U * U) * 1 <= (U * U) * n /\ U * U \in Nat
        BY Products
      <4>4. a < n * (U * U)
        <5>1. PICK w \in Nat : w = U * U
          OBVIOUS
        <5>2. w <= w * n /\ w * n = n * w /\ U * s = a
          BY <2>3, <4>3, <5>1
        <5>3. a + U <= w
          BY <4>2, <5>1, <5>2
        <5>4. w * n \in Nat
          OBVIOUS
        <5>5. QED
          BY <2>1, <5>1, <5>2, <5>3, <5>4
      <4>5. QED
        BY <1>1, <4>1, <4>4
    <3>2. PICK i \in Good : \A j \in Good : i <= j
      BY <3>1, LeastOf
    <3>3. i \in 0 .. WordBits
      BY <1>1, <3>1, <3>2
    <3>4. ASSUME i > 0 PROVE a >= n * 2^(FloatBits + i - 1)
      <4>1. i - 1 \in Nat /\ i - 1 \notin Good /\ FloatBits + (i - 1) = FloatBits + i - 1
        BY <1>1, <3>2, <3>4
      <4>2. PICK P \in Nat : P = 2^(FloatBits + i - 1)
        <5>1. FloatBits + i - 1 \in Nat
          BY <1>1, <4>1
        <5>2. QED
          BY <5>1, PowerIsNat
      <4>3. ~(a < n * P) /\ n * P \in Nat
        BY <4>1, <4>2
      <4>4. QED
        BY <4>2, <4>3
    <3>5. QED
      BY <3>2, <3>3, <3>4 DEF Scale
  <2>5. PICK k \in 0 .. WordBits : Scale(a, n, k) /\ ToFloat(a, n) = RoundTo(a, n, k)
    BY <2>4, ToFloatIs
  <2>6. k \in Nat
    BY <1>1
  <2>7. PICK K \in Nat \ {0} : K = 2^k
    BY <2>6, PowerIsNat
  <2>8. k > 0 => \E H \in Nat \ {0} : /\ H = 2^(k - 1) /\ K = 2 * H
                                      /\ 2^(FloatBits + k - 1) = U * H
                                      /\ n * H <= s
    <3> SUFFICES ASSUME k > 0
                 PROVE  \E H \in Nat \ {0} : /\ H = 2^(k - 1) /\ K = 2 * H
                                             /\ 2^(FloatBits + k - 1) = U * H
                                             /\ n * H <= s
      OBVIOUS
    <3>1. k - 1 \in Nat /\ (k - 1) + 1 = k /\ FloatBits + (k - 1) = FloatBits + k - 1
      BY <1>1, <2>6
    <3>2. PICK H \in Nat \ {0} : H = 2^(k - 1)
      BY <3>1, PowerIsNat
    <3>3. K = 2 * H
      BY <2>7, <3>1, <3>2, PowerStep
    <3>4. 2^(FloatBits + k - 1) = U * H
      BY <1>1, <2>1, <3>1, <3>2, PowerSum
    <3>5. a >= n * (U * H)
      BY <2>5, <3>4 DEF Scale
    <3>6. n * H <= s
      <4>1. PICK w \in Nat : w = n * H
        OBVIOUS
      <4>2. n * (U * H) = U * w
        BY <4>1
      <4>3. ASSUME s < w PROVE FALSE
        <5>1. U * s + U <= U * w /\ U * s \in Nat /\ U * s = a
          BY <2>3, <4>3, Products
        <5>2. U * w \in Nat
          OBVIOUS
        <5>3. QED
          BY <3>5, <4>2, <5>1, <5>2
      <4>4. QED
        BY <4>1, <4>3
    <3>7. QED
      BY <3>2, <3>3, <3>4, <3>6
  <2>9. k <= FloatBits
    <3>1. ASSUME k > FloatBits PROVE FALSE
      <4>1. k - 1 \in Nat /\ FloatBits <= k - 1 /\ k > 0
        BY <1>1, <2>6, <3>1
      <4>2. PICK H \in Nat \ {0} : H = 2^(k - 1) /\ n * H <= s
        BY <2>8, <4>1
      <4>3. U <= H
        BY <1>1, <2>1, <4>1, <4>2, PowerGrows
      <4>4. H * 1 <= H * n /\ H * n = n * H
        BY Products
      <4>5. QED
        BY <2>1, <4>2, <4>3, <4>4
    <3>2. QED
      BY <1>1, <2>6, <3>1
  <2>10. PICK V \in Nat \ {0} : V = 2^(FloatBits - k) /\ U = K * V
    <3>1. FloatBits - k \in Nat /\ k + (FloatBits - k) = FloatBits
      BY <1>1, <2>6, <2>9
    <3>2. PICK V \in Nat \ {0} : V = 2^(FloatBits - k)
      BY <3>1, PowerIsNat
    <3>3. U = K * V
      BY <2>1, <2>6, <2>7, <3>1, <3>2, PowerSum
    <3>4. QED
      BY <3>2, <3>3
  <2>11. n < 2 * V
    <3>1. CASE k = 0
      <4>1. K = 1
        BY <2>7, <3>1
      <4>2. U = V
        BY <2>10, <4>1
      <4>3. QED
        BY <1>4, <2>1, <4>2
    <3>2. CASE k > 0
      <4>1. PICK H \in Nat \ {0} : K = 2 * H /\ n * H <= s
        BY <2>8, <3>2
      <4>2. H * n < H * (2 * V)
        <5>1. U = H * (2 * V)
          BY <2>10, <4>1
        <5>2. H * n = n * H /\ n * H \in Nat
          OBVIOUS
        <5>3. QED
          BY <2>1, <4>1, <5>1, <5>2
      <4>3. ASSUME 2 * V <= n PROVE FALSE
        <5>1. H * (2 * V) <= H * n /\ H * n \in Nat /\ H * (2 * V) \in Nat
          BY <4>3, Products
        <5>2. QED
          BY <4>2, <5>1
      <4>4. QED
        BY <4>3
    <3>3. QED
      BY <2>6, <3>1, <3>2
  <2>12. ToFloat(a, n) = K * Nearest(s * (K * V), n * K)
    <3>1. a = s * (K * V)
      BY <2>3, <2>10
    <3>2. ToFloat(a, n) = K * Nearest(a, n * K)
      BY <2>5, <2>7 DEF RoundTo, Nearest
    <3>3. QED
      BY <3>1, <3>2
  <2>13. CeilDiv(K * Nearest(s * (K * V), n * K), K * V) = CeilDiv(s, n)
    BY <2>11, RoundedCeiling
  <2>14. QED
    BY <2>2, <2>3, <2>10, <2>12, <2>13
<1>5. QED
  BY <1>3, <1>4

-----------------------------------------------------------------------------
(***************************************************************************)
(* The layout.                                                              *)
(***************************************************************************)
\* A file that a float holds, in no more parts than its quotient and one, has this
\* layout: get_part_size is then exact, and rounding up costs less than a quotient.
THEOREM SmallFits ==
    ASSUME NEW size \in Nat, NEW parts \in Nat \ {0}, parts * (parts - 1) <= size,
           size < 2^FloatBits, FloatBits <= WordBits
    PROVE  FitParts(size, parts)
<1> DEFINE L == CeilFloat(size, parts)
<1>1. size \in Nat /\ parts \in Nat \ {0} /\ FloatBits \in Nat /\ WordBits \in Nat
  BY LayoutAssumption
<1>2. L = CeilDiv(size, parts)
  BY <1>1, FloatCeiling
<1>3. size < 2^WordBits
  <2>1. 2^FloatBits <= 2^WordBits
    BY <1>1, PowerGrows
  <2>2. PICK F \in Nat, W \in Nat : F = 2^FloatBits /\ W = 2^WordBits
    BY <1>1, PowerIsNat
  <2>3. QED
    BY <1>1, <2>1, <2>2
<1> HIDE DEF L
<1>4. PICK q \in Nat, r \in Nat : /\ q = size \div parts /\ r = size % parts
                                  /\ size = parts * q + r /\ r < parts
  BY <1>1
<1>5. L = IF r = 0 THEN q ELSE q + 1
  <2>1. PICK m \in Nat : m = parts * q
    BY <1>1
  <2>2. r = 0 => size = m
    BY <1>1, <1>4, <2>1
  <2>3. r # 0 => m < size /\ size <= m + parts
    BY <1>1, <1>4, <2>1
  <2>4. QED
    BY <1>1, <1>2, <2>1, <2>2, <2>3, CeilingIs
<1>6. parts - 1 <= q
  <2>1. ASSUME q < parts - 1 PROVE FALSE
    <3>1. parts * q + parts <= parts * (parts - 1)
      BY <1>1, <2>1, Products
    <3>2. parts * q \in Nat /\ parts * (parts - 1) \in Nat
      BY <1>1
    <3>3. QED
      BY <1>1, <1>4, <3>1, <3>2
  <2>2. QED
    BY <1>1, <2>1
<1>7. parts * L <= size + q
  <2>1. CASE r = 0
    <3>1. parts * L = size
      BY <1>1, <1>4, <1>5, <2>1
    <3>2. QED
      BY <1>1, <3>1
  <2>2. CASE r # 0
    <3>1. parts * L = parts * q + parts /\ parts * q \in Nat
      BY <1>1, <1>5, <2>2
    <3>2. QED
      BY <1>1, <1>4, <1>6, <2>2, <3>1
  <2>3. QED
    BY <2>1, <2>2
<1>8. L \in Nat /\ L >= q
  BY <1>5
<1>9. QED
  BY <1>3, <1>4, <1>7, <1>8 DEF FitParts, L

\* Every part lies within the file, and ends where the last part ends or before.
LEMMA PartsWithin ==
    ASSUME NEW size \in Nat, NEW parts \in Nat \ {0}, FitParts(size, parts),
           NEW p \in 0 .. parts - 1
    PROVE  LET Length(i) == PartSize(size, i, parts)
               q == size \div parts
               last == parts - 1
           IN  /\ q \in Nat /\ p * q \in Nat /\ p * q = q * p
               /\ last \in 0 .. parts - 1 /\ p <= last
               /\ Length(p) \in Nat /\ Length(last) \in Nat
               /\ p # last => q <= Length(p)
               /\ p * q + Length(p) <= size /\ Length(p) <= size
               /\ p * q + Length(p) <= last * q + Length(last)
<1> DEFINE Length(i) == PartSize(size, i, parts)
           q == size \div parts
           L == CeilFloat(size, parts)
           last == parts - 1
<1>1. parts \in Nat /\ parts >= 1 /\ p \in Nat /\ last \in Nat /\ p <= last
      /\ last \in 0 .. parts - 1
  OBVIOUS
<1>2. size \in Nat
  OBVIOUS
<1>3. q \in Nat
  BY <1>1, <1>2
<1>4. PICK W \in Nat : W = 2^WordBits
  BY PowerIsNat, LayoutAssumption
<1>5. L \in Nat /\ q <= L /\ parts * L <= size + q /\ size < W
  BY <1>4 DEF FitParts
<1>6. /\ \A i \in 0 .. parts - 1 : i # last => Length(i) = L
      /\ Length(last) = IF last * L + L > size
                        THEN (L - (last * L + L - size)) % W ELSE L
  BY <1>4 DEF PartSize, LastCut
<1> HIDE DEF L, q, Length
<1>7. PICK m \in Nat : m = last * L /\ parts * L = m + L
  <2>1. last * L \in Nat
    BY <1>1, <1>5
  <2>2. parts * L = (last + 1) * L
    BY <1>1
  <2>3. (last + 1) * L = last * L + L
    BY <1>1, <1>5
  <2>4. QED
    BY <2>1, <2>2, <2>3
<1>8. Length(last) = IF m + L > size THEN size - m ELSE L
  <2>1. CASE m + L > size
    <3>1. Length(last) = (L - (m + L - size)) % W
      BY <1>6, <1>7, <2>1
    <3>2. L - (m + L - size) = size - m /\ size - m \in Nat /\ size - m < W
      BY <1>2, <1>3, <1>4, <1>5, <1>7
    <3>3. \A v \in Nat : v < W => v % W = v
      BY <1>4
    <3>4. (size - m) % W = size - m
      BY <3>2, <3>3
    <3>5. QED
      BY <2>1, <3>1, <3>2, <3>4
  <2>2. CASE ~(m + L > size)
    BY <1>6, <1>7, <2>2
  <2>3. QED
    BY <2>1, <2>2
<1>9. /\ Length(last) \in Nat /\ Length(last) >= L - q /\ Length(last) <= size - m
  BY <1>2, <1>3, <1>5, <1>7, <1>8
<1>10. PICK a \in Nat : a = last * q /\ a = q * last /\ a <= m
  <2>1. last * q = q * last /\ last * q \in Nat
    BY <1>1, <1>3, Products
  <2>2. last * q <= last * L
    BY <1>1, <1>3, <1>5, Products
  <2>3. QED
    BY <1>7, <2>1, <2>2
<1>11. PICK b \in Nat : b = p * q /\ b = q * p /\ b <= a /\ (p # last => b + q <= a)
  <2>1. p * q = q * p /\ p * q \in Nat
    BY <1>1, <1>3, Products
  <2>2. q * p <= q * last /\ (p < last => q * p + q <= q * last)
    BY <1>1, <1>3, Products
  <2>3. QED
    BY <1>1, <1>10, <2>1, <2>2
<1>12. Length(p) = IF p = last THEN Length(last) ELSE L
  BY <1>6
<1>13. b + Length(p) <= a + Length(last) /\ a + Length(last) <= size
  BY <1>2, <1>3, <1>5, <1>7, <1>9, <1>10, <1>11, <1>12
<1>14. QED
  <2>1. Length(p) \in Nat /\ (p # last => q <= Length(p))
    BY <1>5, <1>9, <1>12
  <2>2. b + Length(p) <= size /\ Length(p) <= size
    BY <1>2, <1>9, <1>13, <2>1
  <2>3. QED
    BY <1>1, <1>3, <1>9, <1>10, <1>11, <1>13, <2>1, <2>2 DEF q, Length

-----------------------------------------------------------------------------
(***************************************************************************)
(* What the master is told of is stored.                                   *)
(***************************************************************************)
\* Part nb is in the files of storage s, unless s ended once.
Stored(s, nb) == nb \in disk[s] \/ s \in ended

Told == partAcks \cup {known[k] : k \in DOMAIN known}

\* The records that the proof looks into.
Shape ==
    /\ DOMAIN disk = Storages
    /\ DOMAIN wire = Tasks
    /\ DOMAIN handler = Tasks
    /\ \A t \in Tasks : wire[t] # None => DOMAIN wire[t] = {"kind", "nb", "whole"}
    /\ \A t \in Tasks : DOMAIN handler[t] = {"at", "nb"}
    /\ \E S : known \in Seq(S)

\* The invariant: only tasks of the upload send parts, a handler that is about to
\* tell the master has written the part, and what was told is stored.
StoredBeforeTold ==
    /\ Shape
    /\ \A t \in Tasks : At(t, "part") => t \in UpTasks
    /\ \A t \in Tasks : handler[t].at = "tell" =>
         t \in UpTasks /\ Stored(Fields[t].addr, handler[t].nb)
    /\ \A a \in Told : a.addr \in Storages /\ Stored(a.addr, a.nb)

\* A task of the upload talks to a storage.
LEMMA UpPeer ==
    ASSUME NEW t \in UpTasks
    PROVE  Peer(t) = Fields[t].addr /\ Fields[t].addr \in Storages
<1>1. t \in 1 .. Len(Fields)
  BY DEF UpTasks
<1>2. Fields[t] \in [addr : Storages, nb : Nat \ {0}]
  <2> DEFINE R == [addr : Storages, nb : Nat \ {0}]
  <2>1. Fields \in Seq(R)
    BY TransferAssumption
  <2> HIDE DEF R
  <2>2. Fields[t] \in R
    BY <1>1, <2>1
  <2>3. QED
    BY <2>2 DEF R
<1>3. Fields[t].addr \in Storages
  BY <1>2
<1>4. QED
  BY <1>3 DEF Peer

\* A part_ack that is taken is one more that the master knows.
LEMMA AppendTold ==
    ASSUME NEW S, known \in Seq(S), NEW a, known' = Append(known, a)
    PROVE  /\ \E T : known' \in Seq(T)
           /\ {known'[k] : k \in DOMAIN known'} =
                {known[k] : k \in DOMAIN known} \cup {a}
<1>1. known \in Seq(S \cup {a})
  OBVIOUS
<1>2. known' \in Seq(S \cup {a}) /\ Len(known') = Len(known) + 1
  BY <1>1
<1>3. DOMAIN known = 1 .. Len(known) /\ DOMAIN known' = 1 .. Len(known) + 1
      /\ Len(known) \in Nat
  BY <1>1, <1>2
<1>4. /\ \A k \in 1 .. Len(known) : known'[k] = known[k]
      /\ known'[Len(known) + 1] = a
  BY <1>1
<1>5. \A x : x \in {known'[k] : k \in DOMAIN known'} <=>
             x \in {known[k] : k \in DOMAIN known} \cup {a}
  <2>1. ASSUME NEW k \in DOMAIN known'
        PROVE  known'[k] \in {known[j] : j \in DOMAIN known} \cup {a}
    BY <1>3, <1>4
  <2>2. ASSUME NEW k \in DOMAIN known
        PROVE  known[k] \in {known'[j] : j \in DOMAIN known'}
    BY <1>3, <1>4
  <2>3. a \in {known'[j] : j \in DOMAIN known'}
    BY <1>3, <1>4
  <2>4. QED
    BY <2>1, <2>2, <2>3
<1>6. QED
  BY <1>2, <1>5

\* The end of a storage takes away only what is then excused.
LEMMA StorageEndsKeeps ==
    ASSUME StoredBeforeTold, NEW s, StorageEnds(s), UNCHANGED <<partAcks, known>>
    PROVE  StoredBeforeTold'
<1>1. /\ DOMAIN disk' = Storages
      /\ \A x \in Storages : x # s => disk'[x] = disk[x]
      /\ ended' = ended \cup {s}
  BY DEF StorageEnds, StoredBeforeTold, Shape
<1>2. \A x \in Storages : \A nb : Stored(x, nb) => Stored(x, nb)'
  BY <1>1 DEF Stored
<1>3. \A t \in Tasks :
        /\ wire'[t] = None \/ wire'[t] = wire[t]
        /\ handler'[t] = NoHandler \/ handler'[t] = handler[t]
  BY DEF StorageEnds
<1>4. DOMAIN wire' = Tasks /\ DOMAIN handler' = Tasks
  BY DEF StorageEnds
<1>5. Shape'
  BY <1>1, <1>3, <1>4 DEF StoredBeforeTold, Shape, NoHandler
<1>6. \A t \in Tasks : At(t, "part")' => t \in UpTasks
  BY <1>3 DEF StoredBeforeTold, At
<1>7. (\A t \in Tasks : handler[t].at = "tell" =>
         t \in UpTasks /\ Stored(Fields[t].addr, handler[t].nb))'
  <2> SUFFICES ASSUME NEW t \in Tasks, (handler[t].at = "tell")'
               PROVE  (t \in UpTasks /\ Stored(Fields[t].addr, handler[t].nb))'
    OBVIOUS
  <2>1. handler'[t] = handler[t]
    BY <1>3 DEF NoHandler
  <2>2. t \in UpTasks /\ Stored(Fields[t].addr, handler[t].nb)
    BY <2>1 DEF StoredBeforeTold
  <2>3. Fields[t].addr \in Storages
    BY <2>2, UpPeer
  <2>4. QED
    BY <1>1, <2>1, <2>2, <2>3 DEF Stored
<1>8. \A a \in Told' : a.addr \in Storages /\ Stored(a.addr, a.nb)'
  BY <1>1 DEF StoredBeforeTold, Told, Stored
<1>9. QED
  BY <1>5, <1>6, <1>7, <1>8 DEF StoredBeforeTold

\* A step that leaves the storages and the master alone keeps the invariant if no
\* message becomes a part and no handler begins to tell.
LEMMA QuietKeeps ==
    ASSUME StoredBeforeTold, UNCHANGED <<disk, ended, partAcks, known>>,
           DOMAIN wire' = Tasks, DOMAIN handler' = Tasks,
           \A t \in Tasks :
             /\ wire'[t] # None => DOMAIN wire'[t] = {"kind", "nb", "whole"}
             /\ At(t, "part")' => At(t, "part") \/ t \in UpTasks
             /\ DOMAIN handler'[t] = {"at", "nb"}
             /\ handler'[t].at = "tell" => handler'[t] = handler[t]
    PROVE  StoredBeforeTold'
<1>1. Shape'
  BY DEF StoredBeforeTold, Shape
<1>2. \A t \in Tasks : At(t, "part")' => t \in UpTasks
  BY DEF StoredBeforeTold
<1>3. (\A t \in Tasks : handler[t].at = "tell" =>
         t \in UpTasks /\ Stored(Fields[t].addr, handler[t].nb))'
  <2> SUFFICES ASSUME NEW t \in Tasks, (handler[t].at = "tell")'
               PROVE  (t \in UpTasks /\ Stored(Fields[t].addr, handler[t].nb))'
    OBVIOUS
  <2>1. handler'[t] = handler[t]
    OBVIOUS
  <2>2. t \in UpTasks /\ Stored(Fields[t].addr, handler[t].nb)
    BY <2>1 DEF StoredBeforeTold
  <2>3. QED
    BY <2>1, <2>2 DEF Stored
<1>4. \A a \in Told' : a.addr \in Storages /\ Stored(a.addr, a.nb)'
  BY DEF StoredBeforeTold, Told, Stored
<1>5. QED
  BY <1>1, <1>2, <1>3, <1>4 DEF StoredBeforeTold

\* The storage that wrote a part may tell the master of it.
LEMMA StorePartKeeps ==
    ASSUME StoredBeforeTold, NEW t \in Tasks, StorePart(t)
    PROVE  StoredBeforeTold'
<1>1. CASE ~wire[t].whole
  BY <1>1, QuietKeeps DEF StorePart, StoredBeforeTold, Shape, At, masterVars
<1>2. CASE wire[t].whole
  <2>1. /\ disk' = [disk EXCEPT ![Peer(t)] = @ \cup {wire[t].nb}]
        /\ handler' = [handler EXCEPT ![t] = [at |-> "tell", nb |-> wire[t].nb]]
        /\ wire' = [wire EXCEPT ![t] = None]
        /\ UNCHANGED <<ended, partAcks, known>>
    BY <1>2 DEF StorePart, masterVars
  <2>2. t \in UpTasks
    BY DEF StorePart, StoredBeforeTold
  <2>3. Peer(t) = Fields[t].addr /\ Fields[t].addr \in Storages
    BY <2>2, UpPeer
  <2>4. /\ DOMAIN disk = Storages /\ DOMAIN wire = Tasks /\ DOMAIN handler = Tasks
    BY DEF StoredBeforeTold, Shape
  <2>5. \A x \in Storages : \A nb : Stored(x, nb) => Stored(x, nb)'
    BY <2>1, <2>4 DEF Stored
  <2>6. \A u \in Tasks :
          /\ wire'[u] = None \/ wire'[u] = wire[u]
          /\ u # t => handler'[u] = handler[u]
    BY <2>1, <2>4
  <2>7. handler'[t] = [at |-> "tell", nb |-> wire[t].nb]
    BY <2>1, <2>4
  <2>8. Shape'
    BY <2>1, <2>4, <2>6, <2>7 DEF StoredBeforeTold, Shape
  <2>9. (\A u \in Tasks : At(u, "part") => u \in UpTasks)'
    BY <2>6 DEF StoredBeforeTold, At
  <2>10. (\A u \in Tasks : handler[u].at = "tell" =>
            u \in UpTasks /\ Stored(Fields[u].addr, handler[u].nb))'
    <3> SUFFICES ASSUME NEW u \in Tasks, (handler[u].at = "tell")'
                 PROVE  (u \in UpTasks /\ Stored(Fields[u].addr, handler[u].nb))'
      OBVIOUS
    <3>1. CASE u = t
      <4>1. wire[t].nb \in disk'[Fields[t].addr]
        BY <2>1, <2>3, <2>4
      <4>2. QED
        BY <3>1, <4>1, <2>2, <2>7 DEF Stored
    <3>2. CASE u # t
      <4>1. handler'[u] = handler[u]
        BY <3>2, <2>6
      <4>2. u \in UpTasks /\ Stored(Fields[u].addr, handler[u].nb)
        BY <4>1 DEF StoredBeforeTold
      <4>3. Stored(Fields[u].addr, handler[u].nb)'
        BY <4>1, <4>2, <2>5, UpPeer DEF Stored
      <4>4. QED
        BY <4>2, <4>3
    <3>3. QED
      BY <3>1, <3>2
  <2>11. (\A a \in Told : a.addr \in Storages /\ Stored(a.addr, a.nb))'
    BY <2>1, <2>5 DEF StoredBeforeTold, Told, Stored
  <2>12. QED
    BY <2>8, <2>9, <2>10, <2>11 DEF StoredBeforeTold
<1>3. QED
  BY <1>1, <1>2

\* The storage tells the master, or ends because it cannot.
LEMMA TellMasterKeeps ==
    ASSUME StoredBeforeTold, NEW t \in Tasks, TellMaster(t)
    PROVE  StoredBeforeTold'
<1>1. CASE StorageEnds(Peer(t)) /\ UNCHANGED partAcks
  BY <1>1, StorageEndsKeeps DEF TellMaster
<1>2. CASE /\ partAcks' = partAcks \cup {[addr |-> Peer(t), nb |-> handler[t].nb]}
           /\ handler' = [handler EXCEPT ![t].at = "ack"]
           /\ UNCHANGED <<conn, wire, storageVars, ended, faults>>
  <2>1. UNCHANGED <<wire, disk, ended, known>>
    BY <1>2 DEF TellMaster, storageVars
  <2>2. /\ t \in UpTasks
        /\ Stored(Fields[t].addr, handler[t].nb)
    BY DEF TellMaster, StoredBeforeTold
  <2>3. Peer(t) = Fields[t].addr /\ Fields[t].addr \in Storages
    BY <2>2, UpPeer
  <2>4. /\ DOMAIN handler = Tasks
        /\ \A u \in Tasks : DOMAIN handler[u] = {"at", "nb"}
    BY DEF StoredBeforeTold, Shape
  <2>5. /\ DOMAIN handler' = Tasks
        /\ \A u \in Tasks : /\ DOMAIN handler'[u] = {"at", "nb"}
                            /\ handler'[u].at = "tell" => handler'[u] = handler[u]
    BY <1>2, <2>4
  <2>6. Shape'
    BY <2>1, <2>5 DEF StoredBeforeTold, Shape
  <2>7. (\A u \in Tasks : At(u, "part") => u \in UpTasks)'
    BY <2>1 DEF StoredBeforeTold, At
  <2>8. (\A u \in Tasks : handler[u].at = "tell" =>
           u \in UpTasks /\ Stored(Fields[u].addr, handler[u].nb))'
    BY <2>1, <2>5 DEF StoredBeforeTold, Stored
  <2>9. (\A a \in Told : a.addr \in Storages /\ Stored(a.addr, a.nb))'
    BY <1>2, <2>1, <2>2, <2>3 DEF StoredBeforeTold, Told, Stored
  <2>10. QED
    BY <2>6, <2>7, <2>8, <2>9 DEF StoredBeforeTold
<1>3. QED
  BY <1>1, <1>2 DEF TellMaster


\* The client's tasks: only a task of the upload sends a part.
LEMMA ClientStepKeeps ==
    ASSUME StoredBeforeTold, NEW t \in Tasks, ClientStep(t)
    PROVE  StoredBeforeTold'
<1>1. /\ DOMAIN wire = Tasks /\ DOMAIN handler = Tasks
      /\ \A u \in Tasks : wire[u] # None => DOMAIN wire[u] = {"kind", "nb", "whole"}
      /\ \A u \in Tasks : DOMAIN handler[u] = {"at", "nb"}
  BY DEF StoredBeforeTold, Shape
<1>2. UNCHANGED <<disk, ended, partAcks, known, handler>>
  BY DEF ClientStep, Connect, Send, RecvAck, RecvPart, storageVars, masterVars
<1>3. /\ DOMAIN wire' = Tasks
      /\ \A u \in Tasks :
           /\ wire'[u] # None => DOMAIN wire'[u] = {"kind", "nb", "whole"}
           /\ At(u, "part")' => At(u, "part") \/ u \in UpTasks
  <2>1. CASE Connect(t)
    BY <1>1, <2>1 DEF Connect, At
  <2>2. CASE Send(t)
    BY <1>1, <2>2 DEF Send, At
  <2>3. CASE RecvAck(t)
    BY <1>1, <2>3 DEF RecvAck, At
  <2>4. CASE RecvPart(t)
    BY <1>1, <2>4 DEF RecvPart, At
  <2>5. QED
    BY <2>1, <2>2, <2>3, <2>4 DEF ClientStep
<1>4. QED
  BY <1>1, <1>2, <1>3, QuietKeeps

\* The handlers of the storage.
LEMMA HandlerStepKeeps ==
    ASSUME StoredBeforeTold, NEW t \in Tasks, HandlerStep(t)
    PROVE  StoredBeforeTold'
<1>1. /\ DOMAIN wire = Tasks /\ DOMAIN handler = Tasks
      /\ \A u \in Tasks : wire[u] # None => DOMAIN wire[u] = {"kind", "nb", "whole"}
      /\ \A u \in Tasks : DOMAIN handler[u] = {"at", "nb"}
  BY DEF StoredBeforeTold, Shape
<1>2. CASE AckClient(t)
  <2>1. UNCHANGED <<disk, ended, partAcks, known>>
    BY <1>2 DEF AckClient, storageVars, masterVars
  <2>2. /\ DOMAIN wire' = Tasks
        /\ \A u \in Tasks :
             /\ wire'[u] # None => DOMAIN wire'[u] = {"kind", "nb", "whole"}
             /\ At(u, "part")' => At(u, "part") \/ u \in UpTasks
    BY <1>1, <1>2 DEF AckClient, At
  <2>3. /\ DOMAIN handler' = Tasks
        /\ \A u \in Tasks : /\ DOMAIN handler'[u] = {"at", "nb"}
                            /\ handler'[u].at = "tell" => handler'[u] = handler[u]
    BY <1>1, <1>2 DEF AckClient
  <2>4. QED
    BY <2>1, <2>2, <2>3, QuietKeeps
<1>3. CASE CloseFile(t) \/ ServeEnds(t)
  <2>1. UNCHANGED <<disk, ended, partAcks, known, wire>>
    BY <1>3 DEF CloseFile, ServeEnds, storageVars, masterVars
  <2>2. /\ DOMAIN handler' = Tasks
        /\ \A u \in Tasks : /\ DOMAIN handler'[u] = {"at", "nb"}
                            /\ handler'[u].at = "tell" => handler'[u] = handler[u]
    BY <1>1, <1>3 DEF CloseFile, ServeEnds, NoHandler
  <2>3. \A u \in Tasks : At(u, "part")' => At(u, "part")
    BY <2>1 DEF At
  <2>4. QED
    BY <1>1, <2>1, <2>2, <2>3, QuietKeeps
<1>4. CASE ServePart(t)
  <2>1. CASE wire[t].nb \in disk[Peer(t)]
    <3>1. UNCHANGED <<disk, ended, partAcks, known>>
      BY <1>4, <2>1 DEF ServePart, storageVars, masterVars
    <3>2. /\ DOMAIN wire' = Tasks
          /\ \A u \in Tasks :
               /\ wire'[u] # None => DOMAIN wire'[u] = {"kind", "nb", "whole"}
               /\ At(u, "part")' => At(u, "part")
      BY <1>1, <1>4, <2>1 DEF ServePart, At
    <3>3. /\ DOMAIN handler' = Tasks
          /\ \A u \in Tasks : /\ DOMAIN handler'[u] = {"at", "nb"}
                              /\ handler'[u].at = "tell" => handler'[u] = handler[u]
      BY <1>1, <1>4, <2>1 DEF ServePart
    <3>4. QED
      BY <3>1, <3>2, <3>3, QuietKeeps
  <2>2. CASE wire[t].nb \notin disk[Peer(t)]
    BY <1>4, <2>2, StorageEndsKeeps DEF ServePart, masterVars
  <2>3. QED
    BY <2>1, <2>2
<1>5. QED
  BY <1>2, <1>3, <1>4, StorePartKeeps, TellMasterKeeps DEF HandlerStep

\* The master takes a part_ack that was told, or it is lost.
LEMMA MasterKeeps ==
    ASSUME StoredBeforeTold, NEW a \in partAcks, TakePartAck(a) \/ LosePartAck(a)
    PROVE  StoredBeforeTold'
<1>1. UNCHANGED <<wire, handler, disk, ended>>
  BY DEF TakePartAck, LosePartAck, taskVars, storageVars
<1>2. (\E S : known \in Seq(S))' /\ Told' \subseteq Told
  <2>1. CASE TakePartAck(a)
    <3>1. /\ \E T : known' \in Seq(T)
          /\ {known'[k] : k \in DOMAIN known'} =
               {known[k] : k \in DOMAIN known} \cup {a}
      BY <2>1, AppendTold DEF TakePartAck, StoredBeforeTold, Shape
    <3>2. partAcks' \subseteq partAcks
      BY <2>1 DEF TakePartAck
    <3>3. QED
      BY <3>1, <3>2 DEF Told
  <2>2. CASE LosePartAck(a)
    BY <2>2 DEF LosePartAck, StoredBeforeTold, Shape, Told
  <2>3. QED
    BY <2>1, <2>2
<1>3. Shape'
  BY <1>1, <1>2 DEF StoredBeforeTold, Shape
<1>4. (\A t \in Tasks : At(t, "part") => t \in UpTasks)'
  BY <1>1 DEF StoredBeforeTold, At
<1>5. (\A t \in Tasks : handler[t].at = "tell" =>
         t \in UpTasks /\ Stored(Fields[t].addr, handler[t].nb))'
  BY <1>1 DEF StoredBeforeTold, Stored
<1>6. (\A b \in Told : b.addr \in Storages /\ Stored(b.addr, b.nb))'
  BY <1>1, <1>2 DEF StoredBeforeTold, Stored
<1>7. QED
  BY <1>3, <1>4, <1>5, <1>6 DEF StoredBeforeTold

LEMMA StoredInit == Init => StoredBeforeTold
<1> SUFFICES ASSUME Init PROVE StoredBeforeTold
  OBVIOUS
<1>1. known = <<>> /\ partAcks = {} /\ Told = {}
  BY DEF Init, Told
<1>2. Shape
  <2>1. known \in Seq({})
    BY <1>1
  <2>2. QED
    BY <2>1 DEF Init, Shape, NoHandler
<1>3. QED
  BY <1>1, <1>2 DEF Init, StoredBeforeTold, At, NoHandler

LEMMA StoredNext == StoredBeforeTold /\ [Next]_vars => StoredBeforeTold'
<1> SUFFICES ASSUME StoredBeforeTold, [Next]_vars PROVE StoredBeforeTold'
  OBVIOUS
<1>1. /\ DOMAIN wire = Tasks /\ DOMAIN handler = Tasks
      /\ \A u \in Tasks : wire[u] # None => DOMAIN wire[u] = {"kind", "nb", "whole"}
      /\ \A u \in Tasks : DOMAIN handler[u] = {"at", "nb"}
  BY DEF StoredBeforeTold, Shape
<1>2. ASSUME UNCHANGED <<wire, handler, disk, ended, partAcks, known>>
      PROVE  StoredBeforeTold'
  BY <1>1, <1>2, QuietKeeps DEF At
<1>3. CASE MainStep
  <2>1. UNCHANGED <<wire, handler, disk, ended, partAcks, known>>
    BY <1>3 DEF MainStep, UploadBegins, UploadEnds, DownloadBegins, DownloadEnds,
                taskVars, storageVars, masterVars
  <2>2. QED
    BY <2>1, <1>2
<1>4. ASSUME NEW t \in Tasks, ClientStep(t) \/ HandlerStep(t) \/ BreakSession(t)
      PROVE  StoredBeforeTold'
  <2>1. CASE BreakSession(t)
    <3>1. UNCHANGED <<handler, disk, ended, partAcks, known>>
      BY <2>1 DEF BreakSession, storageVars, masterVars
    <3>2. /\ DOMAIN wire' = Tasks
          /\ \A u \in Tasks : wire'[u] = None \/ wire'[u] = wire[u]
      BY <1>1, <2>1 DEF BreakSession
    <3>3. QED
      BY <1>1, <3>1, <3>2, QuietKeeps DEF At
  <2>2. QED
    BY <1>4, <2>1, ClientStepKeeps, HandlerStepKeeps
<1>5. ASSUME NEW s \in Storages, StorageCrash(s) \/ StorageStart(s)
      PROVE  StoredBeforeTold'
  <2>1. CASE StorageCrash(s)
    BY <2>1, StorageEndsKeeps DEF StorageCrash, masterVars
  <2>2. CASE StorageStart(s)
    BY <2>2, <1>2 DEF StorageStart, taskVars, masterVars
  <2>3. QED
    BY <1>5, <2>1, <2>2
<1>6. ASSUME NEW a \in partAcks, TakePartAck(a) \/ LosePartAck(a)
      PROVE  StoredBeforeTold'
  BY <1>6, MasterKeeps
<1>7. CASE UNCHANGED vars
  BY <1>7, <1>2 DEF vars, taskVars, storageVars, masterVars
<1>8. QED
  BY <1>3, <1>4, <1>5, <1>6, <1>7 DEF Next

\* A storage writes a part before it sends part_ack: whatever part_acks are lost or
\* late, whichever sessions break and however the storages crash, what the master
\* was told of is in the files of the storage that told it, unless that storage
\* ended in the meantime.
THEOREM PartsAreStoredBeforeTold == Spec => []ToldIsStored
<1>1. StoredBeforeTold => ToldIsStored
  BY DEF StoredBeforeTold, ToldIsStored, Told, Stored
<1>2. QED
  BY <1>1, StoredInit, StoredNext, PTL DEF Spec

-----------------------------------------------------------------------------
(***************************************************************************)
(* The ranges of parts that the tasks of an upload send.                    *)
(***************************************************************************)

\* The counts of the fields.
LEMMA FieldCounts ==
    /\ Len(Fields) \in Nat
    /\ \A i \in 1 .. Len(Fields) : Fields[i].nb \in Nat \ {0}
<1> DEFINE R == [addr : Storages, nb : Nat \ {0}]
<1>1. Fields \in Seq(R)
  BY TransferAssumption
<1> HIDE DEF R
<1>2. Len(Fields) \in Nat /\ \A i \in 1 .. Len(Fields) : Fields[i] \in R
  BY <1>1
<1>3. QED
  BY <1>2 DEF R

\* The sums of the first n counts.
SumsTo(n, f) ==
    f = [i \in 0 .. n |-> IF i = 0 THEN 0 ELSE f[i - 1] + Fields[i].nb]

\* There are such sums for every n: if not, there is a first n without.
LEMMA SumsExist ==
    ASSUME NEW n \in 0 .. Len(Fields)
    PROVE  \E f : SumsTo(n, f)
<1> DEFINE Bad == {k \in 0 .. Len(Fields) : ~\E f : SumsTo(k, f)}
<1>1. SUFFICES ASSUME Bad # {} PROVE FALSE
  OBVIOUS
<1>2. PICK k \in Bad : \A j \in Bad : k <= j
  <2>1. Bad \subseteq Nat
    BY FieldCounts
  <2>2. QED
    BY <1>1, <2>1, LeastOf
<1>3. CASE k = 0
  <2>1. SumsTo(0, [i \in 0 .. 0 |-> 0])
    BY DEF SumsTo
  <2>2. QED
    BY <1>2, <1>3, <2>1
<1>4. CASE k # 0
  <2>1. k \in Nat /\ k > 0 /\ k - 1 \in 0 .. Len(Fields) /\ k - 1 \notin Bad
    <3>1. k \in Nat /\ k > 0 /\ k <= Len(Fields)
      BY <1>2, <1>4, FieldCounts
    <3>2. k - 1 \in 0 .. Len(Fields) /\ ~(k <= k - 1)
      BY <3>1, FieldCounts
    <3> HIDE DEF Bad
    <3>3. k - 1 \notin Bad
      BY <1>2, <3>2
    <3>4. QED
      BY <3>1, <3>2, <3>3
  <2>2. PICK f : SumsTo(k - 1, f)
    BY <2>1
  <2> DEFINE g == [i \in 0 .. k |-> IF i = k THEN f[k - 1] + Fields[k].nb
                                    ELSE f[i]]
  <2>3. \A i \in 0 .. k : g[i] = IF i = 0 THEN 0 ELSE g[i - 1] + Fields[i].nb
    <3> TAKE i \in 0 .. k
    <3>1. CASE i = k
      BY <2>1, <3>1
    <3>2. CASE i # k
      <4>1. i \in 0 .. k - 1 /\ g[i] = f[i]
        BY <2>1, <3>2
      <4>2. f[i] = IF i = 0 THEN 0 ELSE f[i - 1] + Fields[i].nb
        BY <2>2, <4>1 DEF SumsTo
      <4>3. i # 0 => i - 1 \in 0 .. k /\ i - 1 # k
        BY <2>1, <4>1
      <4> QED
        BY <4>1, <4>2, <4>3
    <3> QED
      BY <3>1, <3>2
  <2>4. SumsTo(k, g)
    <3> HIDE DEF g
    <3>1. DOMAIN g = 0 .. k /\ g = [i \in 0 .. k |-> g[i]]
      BY DEF g
    <3>2. QED
      BY <2>3, <3>1 DEF SumsTo
  <2>5. QED
    BY <1>2, <2>4
<1>5. QED
  BY <1>3, <1>4

\* Left is what its definition says.
LEMMA LeftIs ==
    /\ DOMAIN Left = 0 .. Len(Fields)
    /\ Left[0] = 0
    /\ \A i \in 1 .. Len(Fields) : Left[i] = Left[i - 1] + Fields[i].nb
<1>1. \E f : SumsTo(Len(Fields), f)
  BY SumsExist, FieldCounts
<1>2. SumsTo(Len(Fields), Left)
  BY <1>1 DEF Left, SumsTo
<1>3. QED
  BY <1>2, FieldCounts DEF SumsTo

\* It grows with each field.
LEMMA LeftGrows ==
    /\ \A i \in 0 .. Len(Fields) : Left[i] \in Nat /\ Left[i] >= i
    /\ \A i, j \in 0 .. Len(Fields) : i < j => Left[i] < Left[j]
<1>1. \A i \in 0 .. Len(Fields) : Left[i] \in Nat /\ Left[i] >= i
  <2> DEFINE Bad == {i \in 0 .. Len(Fields) : ~(Left[i] \in Nat /\ Left[i] >= i)}
  <2>1. SUFFICES ASSUME Bad # {} PROVE FALSE
    OBVIOUS
  <2>2. PICK i \in Bad : \A j \in Bad : i <= j
    <3>1. Bad \subseteq Nat
      BY FieldCounts
    <3>2. QED
      BY <2>1, <3>1, LeastOf
  <2>3. i # 0
    BY <2>2, LeftIs
  <2>4. i - 1 \in 0 .. Len(Fields) /\ i - 1 \notin Bad /\ i \in 1 .. Len(Fields)
    BY <2>2, <2>3, FieldCounts
  <2>5. QED
    BY SMTT(40), <2>2, <2>4, LeftIs, FieldCounts
<1>2. ASSUME NEW i \in 0 .. Len(Fields)
      PROVE  \A j \in 0 .. Len(Fields) : i < j => Left[i] < Left[j]
  <2> DEFINE Bad == {j \in 0 .. Len(Fields) : i < j /\ ~(Left[i] < Left[j])}
  <2>1. SUFFICES ASSUME Bad # {} PROVE FALSE
    OBVIOUS
  <2>2. PICK j \in Bad : \A k \in Bad : j <= k
    <3>1. Bad \subseteq Nat
      BY FieldCounts
    <3>2. QED
      BY <2>1, <3>1, LeastOf
  <2>3. /\ j - 1 \in 0 .. Len(Fields) /\ j - 1 \notin Bad
        /\ j \in 1 .. Len(Fields) /\ i <= j - 1
    BY <2>2, FieldCounts
  <2>4. Left[i] <= Left[j - 1]
    BY <1>1, <2>3, FieldCounts
  <2>5. Left[j - 1] < Left[j]
    <3>1. Left[j] = Left[j - 1] + Fields[j].nb /\ Fields[j].nb \in Nat \ {0}
      BY <2>3, LeftIs, FieldCounts
    <3>2. Left[j - 1] \in Nat
      BY <1>1, <2>3
    <3>3. QED
      BY <3>1, <3>2
  <2>6. QED
    BY <1>1, <2>2, <2>3, <2>4, <2>5
<1>3. QED
  BY <1>1, <1>2

\* The parts of a task of the upload.
Own(t) == BeginId(t) .. EndId(t) - 1

\* The ranges of the tasks are parts, and no two tasks share one.
LEMMA Ranges ==
    /\ NbParts \in Nat /\ Len(Fields) <= NbParts
    /\ \A t \in UpTasks :
         /\ BeginId(t) \in Int /\ EndId(t) \in Int
         /\ BeginId(t) >= 0 /\ BeginId(t) < EndId(t) /\ EndId(t) <= NbParts
    /\ \A t, u \in UpTasks : t # u => Own(t) \cap Own(u) = {}
<1>1. NbParts \in Nat /\ Len(Fields) <= NbParts
  BY LeftGrows, FieldCounts DEF NbParts
<1>2. ASSUME NEW t \in UpTasks
      PROVE  /\ t \in 1 .. Len(Fields) /\ t - 1 \in 0 .. Len(Fields)
             /\ t \in 0 .. Len(Fields)
             /\ Left[t - 1] \in Nat /\ Left[t] \in Nat
             /\ Left[t - 1] < Left[t] /\ Left[t] <= NbParts
  <2>1. t \in 1 .. Len(Fields) /\ t - 1 \in 0 .. Len(Fields) /\ t \in 0 .. Len(Fields)
    BY FieldCounts DEF UpTasks
  <2>2. Left[t] <= NbParts
    BY <2>1, LeftGrows, FieldCounts DEF NbParts
  <2>3. QED
    BY <2>1, <2>2, LeftGrows
<1>3. \A t \in UpTasks :
         /\ BeginId(t) \in Int /\ EndId(t) \in Int
         /\ BeginId(t) >= 0 /\ BeginId(t) < EndId(t) /\ EndId(t) <= NbParts
  BY <1>1, <1>2 DEF BeginId, EndId
<1>4. ASSUME NEW t \in UpTasks, NEW u \in UpTasks, t < u
      PROVE  EndId(u) <= BeginId(t)
  <2>1. Left[t] <= Left[u - 1]
    BY <1>2, <1>4, LeftGrows
  <2>2. QED
    BY <1>1, <1>2, <2>1 DEF BeginId, EndId
<1>5. ASSUME NEW t \in UpTasks, NEW u \in UpTasks, t # u
      PROVE  Own(t) \cap Own(u) = {}
  <2>1. t < u \/ u < t
    BY <1>2, <1>5
  <2>2. QED
    BY <1>3, <1>4, <2>1 DEF Own
<1>6. QED
  BY <1>1, <1>3, <1>5

-----------------------------------------------------------------------------
(***************************************************************************)
(* The invariant of the sessions and the tasks.                             *)
(***************************************************************************)
Place == [addr : Storages, nb : Parts]
Mains == {"start", "uploading", "uploaded", "downloading", "downloaded",
          "trapped", "failed"}
TaskStates == {"none", "connect", "send", "wait", "done", "failed"}
Handlers == [at : {"none", "tell", "ack", "close", "recv_ack"}, nb : 0 .. NbParts]

Typed ==
    /\ main \in Mains /\ progress \in Nat
    /\ listed \in Seq(Place) /\ known \in Seq(Place)
    /\ task \in [Tasks -> TaskStates]
    /\ part \in [Tasks -> Nat]
    /\ conn \in [Tasks -> {"none", "open", "broken"}]
    /\ wire \in [Tasks -> Message \cup {None}]
    /\ handler \in [Tasks -> Handlers]
    /\ up \subseteq Storages /\ ended \subseteq Storages
    /\ disk \in [Storages -> SUBSET Parts]
    /\ partAcks \subseteq Place
    /\ faults \in 0 .. MaxFaults

\* The main thread and the tasks: those of the upload are over before those of the
\* download begin.
Phases ==
    /\ main = "start" => \A t \in UpTasks : task[t] = "none"
    /\ main # "start" => \A t \in UpTasks : task[t] # "none"
    /\ main \in {"uploaded", "downloading", "downloaded", "trapped", "failed"} =>
         \A t \in UpTasks : task[t] \in {"done", "failed"}
    /\ main \notin {"downloading", "downloaded", "trapped"} =>
         \A t \in DownTasks : task[t] = "none"
    /\ main \in {"downloading", "downloaded", "trapped"} =>
         \A t \in DownTasks : t - NbParts \in DOMAIN listed => task[t] # "none"
    /\ main \in {"downloaded", "trapped"} => \A t \in DownTasks : Ended(t)

\* The part a task is at.
AtPart(t) ==
    task[t] # "none" =>
      /\ t \in UpTasks => part[t] \in Own(t)
      /\ t \in DownTasks =>
           t - NbParts \in DOMAIN listed /\ part[t] = listed[t - NbParts].nb

\* A message is about the part the task waits for, on a session that holds.
OnWire(t) ==
    /\ conn[t] = "open" => task[t] \in {"send", "wait"}
    /\ wire[t] # None =>
         /\ conn[t] = "open" /\ task[t] = "wait" /\ wire[t].nb = part[t]
         /\ wire[t].kind \in IF t \in UpTasks THEN {"part", "ack", "error"}
                             ELSE {"request", "data"}

\* A handler that has not answered works on the part the task waits for, unless
\* the session broke and the task went on.
InHandler(t) ==
    /\ task[t] \in {"none", "connect"} => conn[t] = "none" /\ handler[t] = NoHandler
    /\ handler[t].at \in {"tell", "ack", "close"} => t \in UpTasks
    /\ handler[t].at \in {"tell", "ack"} =>
         /\ wire[t] = None
         /\ handler[t].nb \in Own(t) /\ handler[t].nb <= part[t]
         /\ handler[t].nb = part[t] => task[t] # "send"
         /\ conn[t] = "open" => handler[t].nb = part[t] /\ task[t] = "wait"

Sessions == \A t \in Tasks : AtPart(t) /\ OnWire(t) /\ InHandler(t)

-----------------------------------------------------------------------------
\* The parts that the upload has counted, and the tasks the download has.
Passed(t, p) == p < part[t] \/ task[t] = "done"
Counted == {p \in Parts : \E t \in UpTasks : p \in Own(t) /\ Passed(t, p)}
Arrived == {t \in DownTasks : task[t] = "done"}

Counting ==
    /\ main = "start" => progress = 0
    /\ main \in {"uploading", "uploaded", "failed"} =>
         progress = 1 + Cardinality(Counted)
    /\ main \in {"downloading", "downloaded", "trapped"} =>
         progress = 1 + Cardinality(Arrived)
    /\ main \in {"uploaded", "downloading", "downloaded", "trapped", "failed"} =>
         Cardinality(LostParts) <= 1
    /\ main \in {"downloaded", "trapped"} => progress >= Len(listed)

\* What was counted over a session that holds is stored.
KeptBy(t) ==
    /\ task[t] # "none" =>
         \A p \in Own(t) : Passed(t, p) =>
           conn[t] = "broken" \/ Stored(Fields[t].addr, p)
    /\ handler[t].at = "ack" => Stored(Fields[t].addr, handler[t].nb)
    /\ At(t, "ack") => Stored(Fields[t].addr, wire[t].nb)

Kept == \A t \in UpTasks : KeptBy(t)

Untold(p) == \A a \in Told : a.nb # p

\* Each part is told of once: what a task has still to send, or a handler to tell
\* of, was not told.
ToldBy(t) ==
    /\ \A a \in Told : a.nb \in Own(t) => task[t] # "none" /\ a.nb <= part[t]
    /\ task[t] \in {"connect", "send"} => Untold(part[t])
    /\ At(t, "part") => Untold(part[t])
    /\ handler[t].at = "tell" => Untold(handler[t].nb)

DifferentParts ==
    /\ \A a, b \in partAcks : a.nb = b.nb => a = b
    /\ \A i \in DOMAIN known : \A a \in partAcks : a.nb # known[i].nb
    /\ \A i, j \in DOMAIN known : known[i].nb = known[j].nb => i = j
    /\ \A i, j \in DOMAIN listed : listed[i].nb = listed[j].nb => i = j

ToldOnce == (\A t \in UpTasks : ToldBy(t)) /\ DifferentParts

PutAt(p) == DownloadOffset(Size, p, Len(listed))
Length(p) == PartSize(Size, p, NbParts)

\* What is in the downloaded file.
OutIs ==
    /\ main \in {"downloading", "downloaded", "trapped"} => listed # <<>>
    /\ DOMAIN out = UNION {Bytes(PutAt(part[t]), Length(part[t])) : t \in Arrived}
    /\ \A b \in DOMAIN out : \E p \in Parts : \E i \in 0 .. Length(p) - 1 :
         b = PutAt(p) + i /\ out[b] = UploadOffset(Size, p, NbParts) + i

\* The tasks of the two transfers are different, and their parts are parts.
LEMMA TaskSets ==
    /\ UpTasks \subseteq Int /\ DownTasks \subseteq Int
    /\ UpTasks \cap DownTasks = {} /\ Tasks = UpTasks \cup DownTasks
    /\ \A t \in UpTasks : t - NbParts <= 0
    /\ \A t \in UpTasks : Own(t) \subseteq Parts
    /\ Parts \subseteq Nat
<1>1. NbParts \in Nat /\ Len(Fields) \in Nat /\ Len(Fields) <= NbParts
  BY Ranges, FieldCounts
<1>2. \A t \in UpTasks : t \in Nat /\ t <= NbParts
  BY <1>1 DEF UpTasks
<1>3. \A t \in DownTasks : t \in Nat /\ t > NbParts
  BY <1>1 DEF DownTasks
<1>4. \A t \in UpTasks : Own(t) \subseteq Parts
  BY Ranges DEF Own, Parts
<1>5. QED
  BY <1>1, <1>2, <1>3, <1>4 DEF Tasks, Parts

\* An element of a list.
LEMMA ElementOf ==
    ASSUME NEW S, NEW q \in Seq(S), NEW i \in DOMAIN q
    PROVE  q[i] \in S
  OBVIOUS

\* A task that was started talks to a storage.
LEMMA PeerIsStorage ==
    ASSUME Typed, NEW t \in Tasks, AtPart(t), task[t] # "none"
    PROVE  Peer(t) \in Storages
<1>1. CASE t \in UpTasks
  BY <1>1, UpPeer
<1>2. CASE t \notin UpTasks
  <2>1. t \in DownTasks /\ t - NbParts \in DOMAIN listed
    BY <1>2, TaskSets DEF AtPart
  <2>2. listed[t - NbParts] \in Place
    BY <2>1, ElementOf DEF Typed
  <2>3. QED
    BY <1>2, <2>2 DEF Peer, Place
<1>3. QED
  BY <1>1, <1>2

\* A task that was started is at a part of the file.
LEMMA PartIsPart ==
    ASSUME Typed, NEW t \in Tasks, AtPart(t), task[t] # "none"
    PROVE  part[t] \in Parts
<1>1. CASE t \in UpTasks
  BY <1>1, TaskSets DEF AtPart
<1>2. CASE t \notin UpTasks
  <2>1. t \in DownTasks /\ t - NbParts \in DOMAIN listed
        /\ part[t] = listed[t - NbParts].nb
    BY <1>2, TaskSets DEF AtPart
  <2>2. listed[t - NbParts] \in Place
    BY <2>1, ElementOf DEF Typed
  <2>3. QED
    BY <2>1, <2>2 DEF Place
<1>3. QED
  BY <1>1, <1>2

\* A step leaves a task alone, or its storage ended.
Same(u) ==
    /\ task'[u] = task[u] /\ part'[u] = part[u] /\ conn'[u] = conn[u]
    /\ wire'[u] = wire[u] /\ handler'[u] = handler[u]

Quit(u) ==
    /\ task'[u] = task[u] /\ part'[u] = part[u] /\ task[u] # "none"
    /\ conn'[u] = IF conn[u] = "open" THEN "broken" ELSE conn[u]
    /\ wire'[u] = None /\ handler'[u] = NoHandler

TypedTasks ==
    /\ task \in [Tasks -> TaskStates]
    /\ part \in [Tasks -> Nat]
    /\ conn \in [Tasks -> {"none", "open", "broken"}]
    /\ wire \in [Tasks -> Message \cup {None}]
    /\ handler \in [Tasks -> Handlers]

\* No handler is in the set of handlers.
LEMMA NoHandlerType == NoHandler \in Handlers
  BY Ranges DEF NoHandler, Handlers

\* What the end of a storage does.
LEMMA StorageEndsTyped ==
    ASSUME Typed, NEW s \in Storages, StorageEnds(s), UNCHANGED <<task, part>>
    PROVE  /\ TypedTasks'
           /\ up' \subseteq Storages /\ ended' = ended \cup {s}
           /\ disk' \in [Storages -> SUBSET Parts]
           /\ \A x \in Storages : disk'[x] \subseteq disk[x] /\ (x # s => disk'[x] = disk[x])
           /\ \A u \in Tasks : Same(u) \/ Quit(u)
<1> DEFINE its == {t \in Tasks : task[t] # "none" /\ Peer(t) = s}
<1>1. /\ up' = up \ {s} /\ ended' = ended \cup {s}
      /\ conn' = [t \in Tasks |-> IF t \in its /\ conn[t] = "open"
                                  THEN "broken" ELSE conn[t]]
      /\ wire' = [t \in Tasks |-> IF t \in its THEN None ELSE wire[t]]
      /\ handler' = [t \in Tasks |-> IF t \in its THEN NoHandler ELSE handler[t]]
  BY DEF StorageEnds
<1>2. PICK gone : disk' = [disk EXCEPT ![s] = @ \ gone]
  BY DEF StorageEnds
<1>3. \A u \in Tasks : Same(u) \/ Quit(u)
  <2> TAKE u \in Tasks
  <2>1. CASE u \in its
    BY <1>1, <2>1 DEF Quit
  <2>2. CASE u \notin its
    BY <1>1, <2>2 DEF Same
  <2>3. QED
    BY <2>1, <2>2
<1> HIDE DEF its
<1>4. TypedTasks'
  BY <1>1, NoHandlerType DEF Typed, TypedTasks
<1>5. /\ disk' \in [Storages -> SUBSET Parts]
      /\ \A x \in Storages : disk'[x] \subseteq disk[x] /\ (x # s => disk'[x] = disk[x])
  BY <1>2 DEF Typed
<1>6. QED
  BY <1>1, <1>3, <1>4, <1>5 DEF Typed

\* A task that is left alone, or whose storage ended, keeps its part of the
\* invariant.
LEMMA AloneKeeps ==
    ASSUME NEW u \in Tasks, AtPart(u), OnWire(u), InHandler(u),
           Same(u) \/ Quit(u), listed' = listed
    PROVE  AtPart(u)' /\ OnWire(u)' /\ InHandler(u)'
<1>1. CASE Same(u)
  BY <1>1 DEF Same, AtPart, OnWire, InHandler
<1>2. CASE Quit(u)
  <2>1. AtPart(u)'
    BY <1>2 DEF Quit, AtPart
  <2>2. OnWire(u)'
    BY <1>2 DEF Quit, OnWire
  <2>3. InHandler(u)'
    BY <1>2 DEF Quit, InHandler, NoHandler
  <2>4. QED
    BY <2>1, <2>2, <2>3
<1>3. QED
  BY <1>1, <1>2

Inv == Typed /\ Phases /\ Sessions

\* A step of one task keeps the others' part of the invariant.
LEMMA SessionsFollow ==
    ASSUME Sessions, listed' = listed, NEW t \in Tasks,
           \A u \in Tasks \ {t} : Same(u) \/ Quit(u),
           AtPart(t)', OnWire(t)', InHandler(t)'
    PROVE  Sessions'
<1>1. ASSUME NEW u \in Tasks, u # t
      PROVE  AtPart(u)' /\ OnWire(u)' /\ InHandler(u)'
  <2>1. Same(u) \/ Quit(u)
    BY <1>1
  <2>2. AtPart(u) /\ OnWire(u) /\ InHandler(u)
    BY DEF Sessions
  <2>3. QED
    BY <2>1, <2>2, AloneKeeps
<1>2. QED
  BY <1>1 DEF Sessions

\* A task that is not over yet may move.
LEMMA PhasesFollow ==
    ASSUME Phases, UNCHANGED <<main, listed>>,
           \A u \in Tasks : \/ task'[u] = task[u]
                            \/ ~Ended(u) /\ task'[u] # "none"
    PROVE  Phases'
<1>1. \A u \in Tasks : Ended(u) => task'[u] = task[u]
  OBVIOUS
<1>2. UpTasks \subseteq Tasks /\ DownTasks \subseteq Tasks
  BY TaskSets
<1>3. (main = "start" => \A t \in UpTasks : task[t] = "none")'
  BY <1>1, <1>2 DEF Phases, Ended
<1>4. (main # "start" => \A t \in UpTasks : task[t] # "none")'
  BY <1>2 DEF Phases
<1>5. (main \in {"uploaded", "downloading", "downloaded", "trapped", "failed"} =>
         \A t \in UpTasks : task[t] \in {"done", "failed"})'
  BY <1>1, <1>2 DEF Phases, Ended
<1>6. (main \notin {"downloading", "downloaded", "trapped"} =>
         \A t \in DownTasks : task[t] = "none")'
  BY <1>1, <1>2 DEF Phases, Ended
<1>7. (main \in {"downloading", "downloaded", "trapped"} =>
         \A t \in DownTasks : t - NbParts \in DOMAIN listed => task[t] # "none")'
  BY <1>2 DEF Phases
<1>8. (main \in {"downloaded", "trapped"} => \A t \in DownTasks : Ended(t))'
  BY <1>1, <1>2 DEF Phases, Ended
<1>9. QED
  BY <1>3, <1>4, <1>5, <1>6, <1>7, <1>8 DEF Phases

-----------------------------------------------------------------------------
\* The client's tasks.
LEMMA ConnectKeeps ==
    ASSUME Inv, NEW t \in Tasks, Connect(t)
    PROVE  Inv' /\ \A u \in Tasks \ {t} : Same(u)
<1>1. Typed /\ Phases /\ Sessions /\ AtPart(t) /\ OnWire(t) /\ InHandler(t)
  BY DEF Inv, Sessions
<1>2. /\ task[t] = "connect"
      /\ \/ conn' = [conn EXCEPT ![t] = "open"] /\ task' = [task EXCEPT ![t] = "send"]
         \/ conn' = conn /\ task' = [task EXCEPT ![t] = "failed"]
      /\ UNCHANGED <<main, progress, listed, part, wire, handler, up, ended, disk,
                     known, partAcks, faults>>
  BY DEF Connect, clientVars, storageVars, masterVars
<1>3. \A u \in Tasks \ {t} : Same(u)
  BY <1>1, <1>2 DEF Same, Typed
<1>4. Typed'
  BY <1>1, <1>2 DEF Typed, TaskStates
<1>5. /\ task'[t] \in {"send", "failed"}
      /\ conn'[t] = "open" => task'[t] = "send"
  BY <1>1, <1>2 DEF Typed, InHandler
<1>6. AtPart(t)' /\ OnWire(t)' /\ InHandler(t)'
  BY <1>1, <1>2, <1>5 DEF AtPart, OnWire, InHandler, NoHandler
<1>7. Phases'
  BY <1>1, <1>2, <1>3, <1>5, PhasesFollow DEF Same, Ended
<1>8. QED
  BY <1>1, <1>2, <1>3, <1>4, <1>6, <1>7, SessionsFollow DEF Inv

\* A part or a request is sent: nothing was on the session, and no handler works on the
\* part.
LEMMA SendKeeps ==
    ASSUME Inv, NEW t \in Tasks, Send(t)
    PROVE  Inv' /\ \A u \in Tasks \ {t} : Same(u)
<1>1. Typed /\ Phases /\ Sessions /\ AtPart(t) /\ OnWire(t) /\ InHandler(t)
  BY DEF Inv, Sessions
<1>2. /\ task[t] = "send" /\ task' = [task EXCEPT ![t] = "wait"]
      /\ UNCHANGED <<main, progress, listed, part, conn, handler, up, ended, disk,
                     known, partAcks>>
  BY DEF Send, clientVars, storageVars, masterVars
<1>3. \/ conn[t] # "open" /\ UNCHANGED <<wire, faults>>
      \/ /\ conn[t] = "open" /\ faults' \in 0 .. MaxFaults
         /\ \E whole \in BOOLEAN :
              wire' = [wire EXCEPT ![t] =
                         [kind |-> IF t \in UpTasks THEN "part" ELSE "request",
                          nb |-> part[t], whole |-> whole]]
  BY <1>1, TransferAssumption DEF Send, Fault, Typed
<1>4. part[t] \in Parts
  BY <1>1, <1>2, PartIsPart
<1>5. wire' \in [Tasks -> Message \cup {None}] /\ faults' \in 0 .. MaxFaults
      /\ \A u \in Tasks \ {t} : wire'[u] = wire[u]
  <2>1. ASSUME NEW whole \in BOOLEAN, NEW kind \in {"part", "request"}
        PROVE  [kind |-> kind, nb |-> part[t], whole |-> whole] \in Message
    BY <1>4, <2>1 DEF Message
  <2>2. \/ wire' = wire
        \/ \E m \in Message : wire' = [wire EXCEPT ![t] = m]
    BY <1>3, <2>1
  <2>3. faults' \in 0 .. MaxFaults
    BY <1>1, <1>3 DEF Typed
  <2> QED
    BY <1>1, <2>2, <2>3 DEF Typed
<1>6. /\ wire'[t] # None =>
           /\ conn[t] = "open" /\ wire'[t].nb = part[t]
           /\ wire'[t].kind = IF t \in UpTasks THEN "part" ELSE "request"
  BY <1>1, <1>2, <1>3 DEF Typed, OnWire
<1>7. \A u \in Tasks \ {t} : Same(u)
  BY <1>1, <1>2, <1>5 DEF Same, Typed
<1>8. Typed'
  BY <1>1, <1>2, <1>5 DEF Typed, TaskStates
<1>9. task'[t] = "wait"
  BY <1>1, <1>2 DEF Typed
<1>10. AtPart(t)' /\ OnWire(t)'
  BY <1>1, <1>2, <1>6, <1>9 DEF AtPart, OnWire
<1>11. InHandler(t)'
  BY <1>1, <1>2, <1>3, <1>9 DEF InHandler
<1>12. Phases'
  BY <1>1, <1>2, <1>7, <1>9, PhasesFollow DEF Same, Ended
<1>13. QED
  BY <1>1, <1>2, <1>7, <1>8, <1>10, <1>11, <1>12, SessionsFollow DEF Inv

\* What the end of a task does to its session.
LEMMA ClosedIs ==
    ASSUME Typed, NEW t \in Tasks, Closed(t)
    PROVE  /\ conn' \in [Tasks -> {"none", "open", "broken"}]
           /\ \A u \in Tasks \ {t} : conn'[u] = conn[u]
           /\ conn'[t] = IF conn[t] = "broken" THEN "broken" ELSE "none"
  BY DEF Typed, Closed

\* What Count does: the next part, or the end.
LEMMA CountIs ==
    ASSUME Inv, NEW t \in UpTasks, task[t] = "wait", Count(t)
    PROVE  /\ progress' = progress + 1
           /\ task' \in [Tasks -> TaskStates] /\ part' \in [Tasks -> Nat]
           /\ conn' \in [Tasks -> {"none", "open", "broken"}]
           /\ \A u \in Tasks \ {t} :
                task'[u] = task[u] /\ part'[u] = part[u] /\ conn'[u] = conn[u]
           /\ \/ /\ part[t] + 1 < EndId(t)
                 /\ task'[t] = "send" /\ part'[t] = part[t] + 1 /\ conn'[t] = conn[t]
              \/ /\ part[t] + 1 >= EndId(t)
                 /\ task'[t] = "done" /\ part'[t] = part[t]
                 /\ conn'[t] = IF conn[t] = "broken" THEN "broken" ELSE "none"
<1>1. Typed /\ t \in Tasks /\ part[t] \in Nat /\ EndId(t) \in Int
  BY TaskSets, Ranges DEF Inv, Typed
<1>2. CASE part[t] + 1 < EndId(t)
  <2>1. /\ progress' = progress + 1 /\ UNCHANGED conn
        /\ part' = [part EXCEPT ![t] = @ + 1]
        /\ task' = [task EXCEPT ![t] = "send"]
    BY <1>2 DEF Count
  <2>2. task' \in [Tasks -> TaskStates] /\ part' \in [Tasks -> Nat]
    BY <1>1, <2>1 DEF Typed, TaskStates
  <2> QED
    BY <1>1, <1>2, <2>1, <2>2 DEF Typed
<1>3. CASE ~(part[t] + 1 < EndId(t))
  <2>1. /\ progress' = progress + 1 /\ UNCHANGED part /\ Closed(t)
        /\ task' = [task EXCEPT ![t] = "done"]
    BY <1>3 DEF Count
  <2>2. task' \in [Tasks -> TaskStates]
    BY <1>1, <2>1 DEF Typed, TaskStates
  <2> QED
    BY <1>1, <1>3, <2>1, <2>2, ClosedIs DEF Typed
<1>4. QED
  BY <1>2, <1>3

\* What recv_ack does.
LEMMA RecvAckIs ==
    ASSUME Inv, NEW t \in Tasks, RecvAck(t)
    PROVE  /\ t \in UpTasks /\ task[t] = "wait"
           /\ wire' \in [Tasks -> Message \cup {None}]
           /\ \A u \in Tasks \ {t} : wire'[u] = wire[u]
           /\ wire'[t] = None
           /\ \/ At(t, "ack") /\ Count(t)
              \/ conn[t] = "broken" /\ Count(t)
              \/ /\ At(t, "error") /\ task' = [task EXCEPT ![t] = "failed"]
                 /\ Closed(t) /\ UNCHANGED <<progress, part>>
           /\ UNCHANGED <<main, listed, out, handler, up, disk, partAcks, known,
                          ended, faults>>
<1>1. Typed /\ OnWire(t)
  BY DEF Inv, Sessions
<1>2. \/ wire' = [wire EXCEPT ![t] = None]
      \/ conn[t] = "broken" /\ wire' = wire
  BY DEF RecvAck
<1>3. /\ wire' \in [Tasks -> Message \cup {None}]
      /\ \A u \in Tasks \ {t} : wire'[u] = wire[u]
      /\ wire'[t] = None
  BY <1>1, <1>2 DEF Typed, OnWire
<1>4. QED
  BY <1>3 DEF RecvAck, At, storageVars, masterVars

\* The task goes to its next part or ends; what its handler still has to do is about a
\* part before.
LEMMA RecvAckKeeps ==
    ASSUME Inv, NEW t \in Tasks, RecvAck(t)
    PROVE  Inv' /\ \A u \in Tasks \ {t} : Same(u)
<1>1. Typed /\ Phases /\ Sessions /\ AtPart(t) /\ OnWire(t) /\ InHandler(t)
  BY DEF Inv, Sessions
<1>2. /\ t \in UpTasks /\ task[t] = "wait"
      /\ wire' \in [Tasks -> Message \cup {None}]
      /\ \A u \in Tasks \ {t} : wire'[u] = wire[u]
      /\ wire'[t] = None
      /\ UNCHANGED <<main, listed, handler, up, disk, partAcks, known, ended, faults>>
  BY RecvAckIs
<1>3. part[t] \in Own(t) /\ part[t] \in Nat
  BY <1>1, <1>2 DEF AtPart, Typed
<1>4. CASE Count(t)
  <2>1. /\ progress' = progress + 1
        /\ task' \in [Tasks -> TaskStates] /\ part' \in [Tasks -> Nat]
        /\ conn' \in [Tasks -> {"none", "open", "broken"}]
        /\ \A u \in Tasks \ {t} :
             task'[u] = task[u] /\ part'[u] = part[u] /\ conn'[u] = conn[u]
        /\ \/ /\ part[t] + 1 < EndId(t)
              /\ task'[t] = "send" /\ part'[t] = part[t] + 1 /\ conn'[t] = conn[t]
           \/ /\ part[t] + 1 >= EndId(t)
              /\ task'[t] = "done" /\ part'[t] = part[t]
              /\ conn'[t] = IF conn[t] = "broken" THEN "broken" ELSE "none"
    BY <1>2, <1>4, CountIs
  <2>2. Typed'
    BY <1>1, <1>2, <2>1 DEF Typed
  <2>3. part'[t] \in Own(t)
    BY <1>2, <1>3, <2>1, Ranges DEF Own
  <2>4. AtPart(t)'
    BY <1>2, <2>3, TaskSets DEF AtPart
  <2>5. OnWire(t)'
    BY <1>2, <2>1 DEF OnWire
  <2>6. InHandler(t)'
    <3>1. handler[t].at \in {"tell", "ack"} => conn[t] # "open" \/ wire[t] # None
      BY <1>1, <1>2, <1>4 DEF RecvAck, InHandler
    <3>2. ASSUME handler[t].at \in {"tell", "ack"}
          PROVE  /\ handler[t].nb \in Own(t) /\ handler[t].nb <= part[t]
                 /\ conn[t] # "open"
      <4>1. /\ wire[t] = None /\ handler[t].nb \in Own(t) /\ handler[t].nb <= part[t]
        BY <1>1, <3>2 DEF InHandler
      <4>2. At(t, "ack") \/ conn[t] = "broken" \/ At(t, "error")
        BY RecvAckIs
      <4>3. QED
        BY <4>1, <4>2 DEF At
    <3>3. ASSUME handler[t].at \in {"tell", "ack"}
          PROVE  handler[t].nb <= part'[t]
                 /\ (handler[t].nb = part'[t] => task'[t] # "send")
                 /\ conn'[t] # "open"
      <4>1. handler[t].nb \in Int
        BY <3>2, <3>3 DEF Own
      <4>2. QED
        BY <1>3, <2>1, <3>2, <3>3, <4>1
    <3>4. QED
      BY <1>1, <1>2, <2>1, <3>2, <3>3 DEF InHandler
  <2>7. \A u \in Tasks \ {t} : Same(u)
    BY <1>2, <2>1 DEF Same
  <2>8. Phases'
    BY <1>1, <1>2, <2>1, PhasesFollow DEF Ended
  <2>9. QED
    BY <1>1, <1>2, <2>2, <2>4, <2>5, <2>6, <2>7, <2>8, SessionsFollow DEF Inv
<1>5. CASE ~Count(t)
  <2>1. /\ At(t, "error") /\ task' = [task EXCEPT ![t] = "failed"]
        /\ Closed(t) /\ UNCHANGED <<progress, part>>
    BY <1>5, RecvAckIs
  <2>2. /\ conn' \in [Tasks -> {"none", "open", "broken"}]
        /\ \A u \in Tasks \ {t} : conn'[u] = conn[u]
        /\ conn'[t] = IF conn[t] = "broken" THEN "broken" ELSE "none"
    BY <1>1, <2>1, ClosedIs
  <2>3. task' \in [Tasks -> TaskStates] /\ task'[t] = "failed"
        /\ \A u \in Tasks \ {t} : task'[u] = task[u]
    BY <1>1, <2>1 DEF Typed, TaskStates
  <2>4. Typed'
    BY <1>1, <1>2, <2>1, <2>2, <2>3 DEF Typed
  <2>5. AtPart(t)' /\ OnWire(t)'
    BY <1>1, <1>2, <1>3, <2>1, <2>2, <2>3, TaskSets DEF AtPart, OnWire
  <2>6. InHandler(t)'
    BY <1>1, <1>2, <2>1, <2>2, <2>3 DEF InHandler
  <2>7. \A u \in Tasks \ {t} : Same(u)
    BY <1>2, <2>1, <2>2, <2>3 DEF Same
  <2>8. Phases'
    BY <1>1, <1>2, <2>3, PhasesFollow DEF Ended
  <2>9. QED
    BY <1>1, <1>2, <2>4, <2>5, <2>6, <2>7, <2>8, SessionsFollow DEF Inv
<1>6. QED
  BY <1>4, <1>5

\* What the callback of recv_part does.
LEMMA RecvPartIs ==
    ASSUME Inv, NEW t \in Tasks, RecvPart(t)
    PROVE  /\ t \in DownTasks /\ task[t] = "wait"
           /\ wire' = [wire EXCEPT ![t] = None]
           /\ task' \in [Tasks -> TaskStates]
           /\ \A u \in Tasks \ {t} : task'[u] = task[u]
           /\ \/ /\ At(t, "data") /\ out' = Filled(Written(wire[t].nb))
                 /\ progress' = progress + 1 /\ task'[t] = "done"
              \/ /\ conn[t] = "broken" /\ task'[t] = "failed"
                 /\ UNCHANGED <<progress, out>>
           /\ Closed(t)
           /\ UNCHANGED <<main, listed, part, handler, up, disk, partAcks, known,
                          ended, faults>>
<1>1. Typed
  BY DEF Inv
<1>2. task' = [task EXCEPT ![t] = "done"] \/ task' = [task EXCEPT ![t] = "failed"]
  BY DEF RecvPart
<1>3. task' \in [Tasks -> TaskStates] /\ \A u \in Tasks \ {t} : task'[u] = task[u]
  BY <1>1, <1>2 DEF Typed, TaskStates
<1>4. \/ /\ At(t, "data") /\ out' = Filled(Written(wire[t].nb))
         /\ progress' = progress + 1 /\ task'[t] = "done"
      \/ /\ conn[t] = "broken" /\ task'[t] = "failed"
         /\ UNCHANGED <<progress, out>>
  BY <1>1 DEF RecvPart, At, Typed
<1>5. QED
  BY <1>3, <1>4 DEF RecvPart, storageVars, masterVars

\* A task of the download ends.
LEMMA RecvPartKeeps ==
    ASSUME Inv, NEW t \in Tasks, RecvPart(t)
    PROVE  Inv' /\ \A u \in Tasks \ {t} : Same(u)
<1>1. Typed /\ Phases /\ Sessions /\ AtPart(t) /\ OnWire(t) /\ InHandler(t)
  BY DEF Inv, Sessions
<1>2. /\ t \in DownTasks /\ task[t] = "wait"
      /\ wire' = [wire EXCEPT ![t] = None]
      /\ task' \in [Tasks -> TaskStates] /\ task'[t] \in {"done", "failed"}
      /\ \A u \in Tasks \ {t} : task'[u] = task[u]
      /\ progress' = progress \/ progress' = progress + 1
      /\ UNCHANGED <<main, listed, part, handler, up, disk, partAcks, known,
                     ended, faults>>
  BY RecvPartIs
<1>3. /\ conn' \in [Tasks -> {"none", "open", "broken"}]
      /\ \A u \in Tasks \ {t} : conn'[u] = conn[u]
      /\ conn'[t] = IF conn[t] = "broken" THEN "broken" ELSE "none"
  BY <1>1, RecvPartIs, ClosedIs
<1>4. wire' \in [Tasks -> Message \cup {None}] /\ wire'[t] = None
      /\ \A u \in Tasks \ {t} : wire'[u] = wire[u]
  BY <1>1, <1>2 DEF Typed
<1>5. Typed'
  BY <1>1, <1>2, <1>3, <1>4 DEF Typed
<1>6. AtPart(t)' /\ OnWire(t)'
  BY <1>1, <1>2, <1>3, <1>4 DEF AtPart, OnWire
<1>7. InHandler(t)'
  BY <1>1, <1>2, <1>3, <1>4, TaskSets DEF InHandler
<1>8. \A u \in Tasks \ {t} : Same(u)
  BY <1>2, <1>3, <1>4 DEF Same
<1>9. Phases'
  BY <1>1, <1>2, PhasesFollow DEF Ended
<1>10. QED
  BY <1>1, <1>2, <1>5, <1>6, <1>7, <1>8, <1>9, SessionsFollow DEF Inv

-----------------------------------------------------------------------------
\* The handlers of the storages.
LEMMA StorePartInv ==
    ASSUME Inv, NEW t \in Tasks, StorePart(t)
    PROVE  Inv' /\ \A u \in Tasks \ {t} : Same(u)
<1>1. Typed /\ Phases /\ Sessions /\ AtPart(t) /\ OnWire(t) /\ InHandler(t)
  BY DEF Inv, Sessions
<1>2. /\ wire[t] # None /\ wire[t].kind = "part" /\ handler[t] = NoHandler
      /\ UNCHANGED <<main, progress, listed, task, part, conn, up, ended, known,
                     partAcks, faults>>
  BY DEF StorePart, At, clientVars, masterVars
<1>3. /\ wire[t] \in Message /\ t \in UpTasks /\ task[t] = "wait"
      /\ conn[t] = "open" /\ wire[t].nb = part[t] /\ part[t] \in Own(t)
  BY <1>1, <1>2 DEF Typed, OnWire, AtPart
<1>4. part[t] \in Parts /\ part[t] \in 0 .. NbParts /\ part[t] \in Nat
  BY <1>3, TaskSets, Ranges DEF Parts
<1>5. CASE wire[t].whole
  <2>1. /\ disk' = [disk EXCEPT ![Peer(t)] = @ \cup {part[t]}]
        /\ handler' = [handler EXCEPT ![t] = [at |-> "tell", nb |-> part[t]]]
        /\ wire' = [wire EXCEPT ![t] = None]
    BY <1>3, <1>5 DEF StorePart
  <2>2. [at |-> "tell", nb |-> part[t]] \in Handlers
    BY <1>4 DEF Handlers
  <2>3. disk' \in [Storages -> SUBSET Parts]
    BY <1>1, <1>4, <2>1 DEF Typed
  <2>4. /\ handler' \in [Tasks -> Handlers] /\ wire' \in [Tasks -> Message \cup {None}]
        /\ handler'[t] = [at |-> "tell", nb |-> part[t]] /\ wire'[t] = None
        /\ \A u \in Tasks \ {t} : handler'[u] = handler[u] /\ wire'[u] = wire[u]
    BY <1>1, <2>1, <2>2 DEF Typed
  <2>5. Typed'
    BY <1>1, <1>2, <2>3, <2>4 DEF Typed
  <2>6. AtPart(t)' /\ OnWire(t)'
    BY <1>1, <1>2, <1>3, <2>4 DEF AtPart, OnWire
  <2>7. InHandler(t)'
    BY <1>2, <1>3, <1>4, <2>4 DEF InHandler
  <2>8. \A u \in Tasks \ {t} : Same(u)
    BY <1>2, <2>4 DEF Same
  <2>9. Phases'
    BY <1>1, <1>2, PhasesFollow
  <2>10. QED
    BY <1>1, <1>2, <2>5, <2>6, <2>7, <2>8, <2>9, SessionsFollow DEF Inv
<1>6. CASE ~wire[t].whole
  <2>1. wire' = [wire EXCEPT ![t].kind = "error"] /\ UNCHANGED <<disk, handler>>
    BY <1>6 DEF StorePart
  <2>2. wire'[t] = [wire[t] EXCEPT !.kind = "error"]
        /\ \A u \in Tasks \ {t} : wire'[u] = wire[u]
    BY <1>1, <2>1 DEF Typed
  <2>3. wire'[t] \in Message /\ wire'[t].kind = "error" /\ wire'[t].nb = part[t]
    BY <1>3, <2>2 DEF Message
  <2>4. wire' \in [Tasks -> Message \cup {None}]
    BY <1>1, <2>1, <2>2, <2>3 DEF Typed
  <2>5. Typed'
    BY <1>1, <1>2, <2>1, <2>4 DEF Typed
  <2>6. AtPart(t)' /\ OnWire(t)'
    BY <1>1, <1>2, <1>3, <2>3 DEF AtPart, OnWire
  <2>7. InHandler(t)'
    BY <1>1, <1>2, <1>3, <2>1 DEF InHandler, NoHandler
  <2>8. \A u \in Tasks \ {t} : Same(u)
    BY <1>2, <2>1, <2>2 DEF Same
  <2>9. Phases'
    BY <1>1, <1>2, PhasesFollow
  <2>10. QED
    BY <1>1, <1>2, <2>5, <2>6, <2>7, <2>8, <2>9, SessionsFollow DEF Inv
<1>7. QED
  BY <1>5, <1>6

\* The end of a storage.
LEMMA StorageEndsInv ==
    ASSUME Inv, NEW s \in Storages, StorageEnds(s),
           UNCHANGED <<main, progress, listed, task, part, known, partAcks>>,
           faults' \in 0 .. MaxFaults
    PROVE  Inv' /\ \A u \in Tasks : Same(u) \/ Quit(u)
<1>1. Typed /\ Phases /\ Sessions
  BY DEF Inv
<1>2. /\ TypedTasks' /\ up' \subseteq Storages /\ ended' = ended \cup {s}
      /\ disk' \in [Storages -> SUBSET Parts]
      /\ \A u \in Tasks : Same(u) \/ Quit(u)
  BY <1>1, StorageEndsTyped
<1>3. Typed'
  BY <1>1, <1>2 DEF Typed, TypedTasks
<1>4. Sessions'
  <2>1. ASSUME NEW u \in Tasks PROVE AtPart(u)' /\ OnWire(u)' /\ InHandler(u)'
    <3>1. Same(u) \/ Quit(u)
      BY <1>2
    <3>2. AtPart(u) /\ OnWire(u) /\ InHandler(u)
      BY <1>1 DEF Sessions
    <3>3. QED
      BY <3>1, <3>2, AloneKeeps
  <2>2. QED
    BY <2>1 DEF Sessions
<1>5. Phases'
  BY <1>1, PhasesFollow
<1>6. QED
  BY <1>2, <1>3, <1>4, <1>5 DEF Inv

\* A fault is one more.
LEMMA FaultIs == Typed /\ Fault => faults' \in 0 .. MaxFaults
  BY TransferAssumption DEF Typed, Fault

\* The storage tells the master, or ends.
LEMMA TellMasterInv ==
    ASSUME Inv, NEW t \in Tasks, TellMaster(t)
    PROVE  Inv' /\ \A u \in Tasks \ {t} : Same(u) \/ Quit(u)
<1>1. Typed /\ Phases /\ Sessions /\ AtPart(t) /\ OnWire(t) /\ InHandler(t)
  BY DEF Inv, Sessions
<1>2. /\ handler[t].at = "tell"
      /\ UNCHANGED <<main, progress, listed, task, part, known>>
  BY DEF TellMaster, clientVars
<1>3. /\ t \in UpTasks /\ handler[t].nb \in Own(t) /\ handler[t].nb <= part[t]
      /\ wire[t] = None /\ task[t] # "none"
  BY <1>1, <1>2 DEF InHandler, NoHandler
<1>4. Peer(t) \in Storages /\ handler[t].nb \in Parts
  BY <1>3, UpPeer, TaskSets
<1>5. CASE /\ partAcks' = partAcks \cup {[addr |-> Peer(t), nb |-> handler[t].nb]}
           /\ handler' = [handler EXCEPT ![t].at = "ack"]
           /\ UNCHANGED <<conn, wire, storageVars, ended, faults>>
  <2>1. UNCHANGED <<conn, wire, up, disk, ended, faults>>
    BY <1>5 DEF storageVars
  <2>2. handler[t] \in Handlers
    BY <1>1 DEF Typed
  <2>3. /\ handler'[t] = [handler[t] EXCEPT !.at = "ack"]
        /\ \A u \in Tasks \ {t} : handler'[u] = handler[u]
    BY <1>1, <1>5 DEF Typed
  <2>4. handler'[t] \in Handlers /\ handler'[t].at = "ack"
        /\ handler'[t].nb = handler[t].nb
    BY <2>2, <2>3 DEF Handlers
  <2>5. handler' \in [Tasks -> Handlers]
    BY <1>1, <1>5, <2>3, <2>4 DEF Typed
  <2>6. partAcks' \subseteq Place
    BY <1>1, <1>4, <1>5 DEF Typed, Place
  <2>7. Typed'
    BY <1>1, <1>2, <2>1, <2>5, <2>6 DEF Typed
  <2>8. AtPart(t)' /\ OnWire(t)'
    BY <1>1, <1>2, <2>1 DEF AtPart, OnWire
  <2>9. InHandler(t)'
    BY <1>1, <1>2, <2>1, <2>4 DEF InHandler, NoHandler
  <2>10. \A u \in Tasks \ {t} : Same(u)
    BY <1>2, <2>1, <2>3 DEF Same
  <2>11. Phases'
    BY <1>1, <1>2, PhasesFollow
  <2>12. QED
    BY <1>1, <1>2, <2>7, <2>8, <2>9, <2>10, <2>11, SessionsFollow DEF Inv
<1>6. CASE Fault /\ StorageEnds(Peer(t)) /\ UNCHANGED partAcks
  BY <1>1, <1>2, <1>4, <1>6, FaultIs, StorageEndsInv
<1>7. QED
  BY <1>5, <1>6 DEF TellMaster

\* The acknowledgement goes to the task that waits for it, or to nobody.
LEMMA AckClientInv ==
    ASSUME Inv, NEW t \in Tasks, AckClient(t)
    PROVE  Inv' /\ \A u \in Tasks \ {t} : Same(u)
<1>1. Typed /\ Phases /\ Sessions /\ AtPart(t) /\ OnWire(t) /\ InHandler(t)
  BY DEF Inv, Sessions
<1>2. /\ handler[t].at = "ack" /\ handler' = [handler EXCEPT ![t].at = "close"]
      /\ wire' = [wire EXCEPT ![t] =
                    IF conn[t] = "open"
                    THEN [kind |-> "ack", nb |-> handler[t].nb, whole |-> TRUE]
                    ELSE @]
      /\ UNCHANGED <<main, progress, listed, task, part, conn, up, disk, ended,
                     known, partAcks, faults>>
  BY DEF AckClient, clientVars, storageVars, masterVars
<1>3. /\ t \in UpTasks /\ handler[t].nb \in Own(t) /\ wire[t] = None
      /\ conn[t] = "open" => handler[t].nb = part[t] /\ task[t] = "wait"
  BY <1>1, <1>2 DEF InHandler
<1>4. handler[t].nb \in Parts
  BY <1>3, TaskSets
<1>5. handler[t] \in Handlers
  BY <1>1 DEF Typed
<1>6. /\ handler'[t] = [handler[t] EXCEPT !.at = "close"]
      /\ \A u \in Tasks \ {t} : handler'[u] = handler[u]
  BY <1>1, <1>2 DEF Typed
<1>7. handler'[t] \in Handlers /\ handler'[t].at = "close"
  BY <1>5, <1>6 DEF Handlers
<1>8. handler' \in [Tasks -> Handlers]
  BY <1>1, <1>2, <1>6, <1>7 DEF Typed
<1>9. [kind |-> "ack", nb |-> handler[t].nb, whole |-> TRUE] \in Message
  BY <1>4 DEF Message
<1>10. /\ wire' \in [Tasks -> Message \cup {None}]
       /\ \A u \in Tasks \ {t} : wire'[u] = wire[u]
       /\ wire'[t] = IF conn[t] = "open"
                     THEN [kind |-> "ack", nb |-> handler[t].nb, whole |-> TRUE]
                     ELSE None
  BY <1>1, <1>2, <1>3, <1>9 DEF Typed
<1>11. Typed'
  BY <1>1, <1>2, <1>8, <1>10 DEF Typed
<1>12. AtPart(t)'
  BY <1>1, <1>2 DEF AtPart
<1>13. OnWire(t)'
  BY <1>1, <1>2, <1>3, <1>10 DEF OnWire
<1>14. InHandler(t)'
  BY <1>1, <1>2, <1>3, <1>7 DEF InHandler, NoHandler
<1>15. \A u \in Tasks \ {t} : Same(u)
  BY <1>2, <1>6, <1>10 DEF Same
<1>16. Phases'
  BY <1>1, <1>2, PhasesFollow
<1>17. QED
  BY <1>1, <1>2, <1>11, <1>12, <1>13, <1>14, <1>15, <1>16, SessionsFollow DEF Inv

\* The handler returns.
LEMMA HandlerEndsInv ==
    ASSUME Inv, NEW t \in Tasks, CloseFile(t) \/ ServeEnds(t)
    PROVE  Inv' /\ \A u \in Tasks \ {t} : Same(u)
<1>1. Typed /\ Phases /\ Sessions /\ AtPart(t) /\ OnWire(t) /\ InHandler(t)
  BY DEF Inv, Sessions
<1>2. /\ handler' = [handler EXCEPT ![t] = NoHandler] /\ handler[t] # NoHandler
      /\ UNCHANGED <<main, progress, listed, task, part, conn, wire, up, disk, ended,
                     known, partAcks, faults>>
  BY DEF CloseFile, ServeEnds, clientVars, storageVars, masterVars, NoHandler
<1>3. /\ handler' \in [Tasks -> Handlers] /\ handler'[t] = NoHandler
      /\ \A u \in Tasks \ {t} : handler'[u] = handler[u]
  BY <1>1, <1>2, NoHandlerType DEF Typed
<1>4. Typed'
  BY <1>1, <1>2, <1>3 DEF Typed
<1>5. AtPart(t)' /\ OnWire(t)'
  BY <1>1, <1>2 DEF AtPart, OnWire
<1>6. InHandler(t)'
  BY <1>1, <1>2, <1>3 DEF InHandler, NoHandler
<1>7. \A u \in Tasks \ {t} : Same(u)
  BY <1>2, <1>3 DEF Same
<1>8. Phases'
  BY <1>1, <1>2, PhasesFollow
<1>9. QED
  BY <1>1, <1>2, <1>4, <1>5, <1>6, <1>7, <1>8, SessionsFollow DEF Inv

\* A part is served, or the storage ends.
LEMMA ServePartInv ==
    ASSUME Inv, NEW t \in Tasks, ServePart(t)
    PROVE  Inv' /\ \A u \in Tasks \ {t} : Same(u) \/ Quit(u)
<1>1. Typed /\ Phases /\ Sessions /\ AtPart(t) /\ OnWire(t) /\ InHandler(t)
  BY DEF Inv, Sessions
<1>2. /\ wire[t] # None /\ wire[t].kind = "request" /\ handler[t] = NoHandler
      /\ UNCHANGED <<main, progress, listed, task, part, known, partAcks, faults>>
  BY DEF ServePart, At, clientVars, masterVars
<1>3. /\ wire[t] \in Message /\ t \in DownTasks /\ task[t] = "wait"
      /\ conn[t] = "open" /\ wire[t].nb = part[t]
  BY <1>1, <1>2, TaskSets DEF Typed, OnWire
<1>4. part[t] \in Parts /\ Peer(t) \in Storages
  BY <1>1, <1>3, PartIsPart, PeerIsStorage
<1>5. CASE StorageEnds(Peer(t))
  <2>1. faults' \in 0 .. MaxFaults
    BY <1>1, <1>2 DEF Typed
  <2>2. QED
    BY <1>2, <1>4, <1>5, <2>1, StorageEndsInv
<1>6. CASE /\ wire' = [wire EXCEPT ![t].kind = "data"]
           /\ handler' = [handler EXCEPT ![t] = [at |-> "recv_ack", nb |-> wire[t].nb]]
           /\ UNCHANGED <<conn, storageVars, ended>>
  <2>1. UNCHANGED <<conn, up, disk, ended>>
    BY <1>6 DEF storageVars
  <2>2. wire'[t] = [wire[t] EXCEPT !.kind = "data"]
        /\ \A u \in Tasks \ {t} : wire'[u] = wire[u]
    BY <1>1, <1>6 DEF Typed
  <2>3. wire'[t] \in Message /\ wire'[t].kind = "data" /\ wire'[t].nb = part[t]
    BY <1>3, <2>2 DEF Message
  <2>4. wire' \in [Tasks -> Message \cup {None}]
    BY <1>1, <1>6, <2>2, <2>3 DEF Typed
  <2>5. [at |-> "recv_ack", nb |-> wire[t].nb] \in Handlers
    BY <1>3, <1>4, Ranges DEF Handlers, Parts
  <2>6. /\ handler' \in [Tasks -> Handlers] /\ handler'[t].at = "recv_ack"
        /\ \A u \in Tasks \ {t} : handler'[u] = handler[u]
    BY <1>1, <1>6, <2>5 DEF Typed
  <2>7. Typed'
    BY <1>1, <1>2, <2>1, <2>4, <2>6 DEF Typed
  <2>8. AtPart(t)' /\ OnWire(t)'
    BY <1>1, <1>2, <1>3, <2>1, <2>3, TaskSets DEF AtPart, OnWire
  <2>9. InHandler(t)'
    BY <1>2, <1>3, <2>6 DEF InHandler
  <2>10. \A u \in Tasks \ {t} : Same(u)
    BY <1>2, <2>1, <2>2, <2>6 DEF Same
  <2>11. Phases'
    BY <1>1, <1>2, PhasesFollow
  <2>12. QED
    BY <1>1, <1>2, <2>7, <2>8, <2>9, <2>10, <2>11, SessionsFollow DEF Inv
<1>7. QED
  BY <1>5, <1>6 DEF ServePart

\* A session breaks, and what is on it is lost.
LEMMA BreakSessionInv ==
    ASSUME Inv, NEW t \in Tasks, BreakSession(t)
    PROVE  Inv' /\ \A u \in Tasks \ {t} : Same(u)
<1>1. Typed /\ Phases /\ Sessions /\ AtPart(t) /\ OnWire(t) /\ InHandler(t)
  BY DEF Inv, Sessions
<1>2. /\ conn[t] = "open" /\ Fault
      /\ conn' = [conn EXCEPT ![t] = "broken"] /\ wire' = [wire EXCEPT ![t] = None]
      /\ UNCHANGED <<main, progress, listed, task, part, handler, up, disk, ended,
                     known, partAcks>>
  BY DEF BreakSession, clientVars, storageVars, masterVars
<1>3. /\ conn' \in [Tasks -> {"none", "open", "broken"}] /\ conn'[t] = "broken"
      /\ wire' \in [Tasks -> Message \cup {None}] /\ wire'[t] = None
      /\ \A u \in Tasks \ {t} : conn'[u] = conn[u] /\ wire'[u] = wire[u]
  BY <1>1, <1>2 DEF Typed
<1>4. faults' \in 0 .. MaxFaults
  BY <1>1, <1>2, FaultIs
<1>5. Typed'
  BY <1>1, <1>2, <1>3, <1>4 DEF Typed
<1>6. AtPart(t)' /\ OnWire(t)'
  BY <1>1, <1>2, <1>3 DEF AtPart, OnWire
<1>7. InHandler(t)'
  BY <1>1, <1>2, <1>3 DEF InHandler, NoHandler
<1>8. \A u \in Tasks \ {t} : Same(u)
  BY <1>2, <1>3 DEF Same
<1>9. Phases'
  BY <1>1, <1>2, PhasesFollow
<1>10. QED
  BY <1>1, <1>2, <1>5, <1>6, <1>7, <1>8, <1>9, SessionsFollow DEF Inv

-----------------------------------------------------------------------------
\* The main thread.  A task that was not started has no session and no handler.
LEMMA Unstarted ==
    ASSUME Inv, NEW t \in Tasks, task[t] = "none"
    PROVE  conn[t] = "none" /\ wire[t] = None /\ handler[t] = NoHandler
<1>1. OnWire(t) /\ InHandler(t)
  BY DEF Inv, Sessions
<1>2. QED
  BY <1>1 DEF OnWire, InHandler

\* What the start of an upload does: no task ran before.
LEMMA UploadBeginsIs ==
    ASSUME Inv, UploadBegins
    PROVE  /\ main = "start" /\ main' = "uploading" /\ progress' = 1
           /\ task' = [t \in Tasks |-> IF t \in UpTasks THEN "connect" ELSE "none"]
           /\ part' = [t \in Tasks |-> IF t \in UpTasks THEN BeginId(t) ELSE 0]
           /\ UNCHANGED <<listed, out, conn, wire, handler, up, disk, partAcks,
                          known, ended, faults>>
           /\ \A t \in Tasks : task[t] = "none"
<1>1. main = "start" /\ \A t \in Tasks : task[t] = "none"
  BY TaskSets DEF UploadBegins, Inv, Phases
<1>2. QED
  BY <1>1 DEF UploadBegins, storageVars, masterVars

\* The tasks of the upload start at the first of their parts.
LEMMA UploadBeginsInv ==
    ASSUME Inv, UploadBegins
    PROVE  Inv'
<1>1. Typed
  BY DEF Inv
<1>2. /\ main = "start" /\ main' = "uploading" /\ progress' = 1
      /\ task' = [t \in Tasks |-> IF t \in UpTasks THEN "connect" ELSE "none"]
      /\ part' = [t \in Tasks |-> IF t \in UpTasks THEN BeginId(t) ELSE 0]
      /\ UNCHANGED <<listed, out, conn, wire, handler, up, disk, partAcks,
                     known, ended, faults>>
      /\ \A t \in Tasks : task[t] = "none"
  BY UploadBeginsIs
<1>3. \A t \in UpTasks : BeginId(t) \in Nat /\ BeginId(t) \in Own(t)
  BY Ranges DEF Own
<1>4. part' \in [Tasks -> Nat] /\ task' \in [Tasks -> TaskStates]
  BY <1>2, <1>3 DEF TaskStates
<1>5. Typed'
  BY <1>1, <1>2, <1>4 DEF Typed, Mains
<1>6. ASSUME NEW t \in Tasks
      PROVE  AtPart(t)' /\ OnWire(t)' /\ InHandler(t)'
  <2>1. conn[t] = "none" /\ wire[t] = None /\ handler[t] = NoHandler
    BY <1>2, <1>6, Unstarted
  <2>2. AtPart(t)'
    <3>1. CASE t \in UpTasks
      BY <1>2, <1>3, <3>1, TaskSets DEF AtPart
    <3>2. CASE t \notin UpTasks
      BY <1>2, <3>2 DEF AtPart
    <3>3. QED
      BY <3>1, <3>2
  <2>3. OnWire(t)' /\ InHandler(t)'
    BY <1>2, <2>1 DEF OnWire, InHandler, NoHandler
  <2>4. QED
    BY <2>2, <2>3
<1>7. Phases'
  BY <1>2, TaskSets DEF Phases
<1>8. QED
  BY <1>5, <1>6, <1>7 DEF Inv, Sessions

\* The main thread goes on when the tasks it started are over.
LEMMA MainMovesInv ==
    ASSUME Inv, UploadEnds \/ DownloadEnds
    PROVE  Inv' /\ \A u \in Tasks : Same(u)
<1>1. Typed /\ Phases /\ Sessions
  BY DEF Inv
<1>2. /\ UNCHANGED <<progress, listed, out, task, part, conn, wire, handler, up,
                     disk, partAcks, known, ended, faults>>
      /\ main' \in {"uploaded", "downloaded", "trapped"}
  BY DEF UploadEnds, DownloadEnds, taskVars, storageVars, masterVars
<1>3. Typed'
  BY <1>1, <1>2 DEF Typed, Mains
<1>4. \A u \in Tasks : Same(u)
  BY <1>2 DEF Same
<1>5. Sessions'
  <2>1. ASSUME NEW u \in Tasks PROVE AtPart(u)' /\ OnWire(u)' /\ InHandler(u)'
    BY <1>1, <1>2, <1>4, AloneKeeps DEF Sessions
  <2>2. QED
    BY <2>1 DEF Sessions
<1>6. Phases'
  <2>1. CASE UploadEnds
    <3>1. main = "uploading" /\ main' = "uploaded" /\ \A t \in UpTasks : Ended(t)
      BY <2>1 DEF UploadEnds, EndAllTasks
    <3>2. \A t \in UpTasks : task[t] \in {"done", "failed"}
      BY <1>1, <3>1 DEF Phases, Ended
    <3>3. QED
      BY <1>1, <1>2, <3>1, <3>2 DEF Phases
  <2>2. CASE DownloadEnds
    <3>1. /\ main = "downloading" /\ main' \in {"downloaded", "trapped"}
          /\ \A t \in DownTasks : Ended(t) /\ Ended(t)'
      BY <1>2, <2>2 DEF DownloadEnds, EndAllTasks, Ended
    <3>2. QED
      BY <1>1, <1>2, <3>1 DEF Phases
  <2>3. QED
    BY <2>1, <2>2
<1>7. QED
  BY <1>3, <1>4, <1>5, <1>6 DEF Inv

\* What the start of a download does: none of its tasks ran before.
LEMMA DownloadBeginsIs ==
    ASSUME Inv, DownloadBegins
    PROVE  /\ main = "uploaded" /\ listed' = known
           /\ \A t \in DownTasks : task[t] = "none"
           /\ UNCHANGED <<out, conn, wire, handler, up, disk, partAcks, known,
                          ended, faults>>
           /\ \A t \in UpTasks : task'[t] = task[t] /\ part'[t] = part[t]
           /\ \/ /\ known = <<>> /\ main' = "failed"
                 /\ UNCHANGED <<progress, task, part>>
              \/ /\ known # <<>> /\ main' = "downloading" /\ progress' = 1
                 /\ task' \in [Tasks -> TaskStates] /\ part' \in [Tasks -> Nat]
                 /\ \A t \in DownTasks :
                      IF t - NbParts \in DOMAIN known
                      THEN task'[t] = "connect" /\ part'[t] = known[t - NbParts].nb
                      ELSE task'[t] = "none"
<1>1. Typed /\ Phases /\ Parts \subseteq Nat
  BY TaskSets DEF Inv
<1>2. /\ main = "uploaded" /\ listed' = known
      /\ \A t \in DownTasks : task[t] = "none"
      /\ UNCHANGED <<out, conn, wire, handler, up, disk, partAcks, known,
                     ended, faults>>
  BY <1>1 DEF DownloadBegins, Phases, storageVars, masterVars
<1>3. CASE known = <<>>
  BY <1>2, <1>3 DEF DownloadBegins
<1>4. CASE known # <<>>
  <2>1. /\ main' = "downloading" /\ progress' = 1
        /\ task' = [t \in Tasks |-> IF t - NbParts \in DOMAIN known
                                    THEN "connect" ELSE task[t]]
        /\ part' = [t \in Tasks |-> IF t - NbParts \in DOMAIN known
                                    THEN known[t - NbParts].nb ELSE part[t]]
    BY <1>4 DEF DownloadBegins
  <2>2. \A k \in DOMAIN known : known[k].nb \in Nat
    <3> TAKE k \in DOMAIN known
    <3>1. known[k] \in Place
      BY <1>1, ElementOf DEF Typed
    <3>2. QED
      BY <1>1, <3>1 DEF Place
  <2>3. task' \in [Tasks -> TaskStates]
    BY <1>1, <2>1 DEF Typed, TaskStates
  <2>4. part' \in [Tasks -> Nat]
    BY <1>1, <2>1, <2>2 DEF Typed
  <2>5. \A t \in UpTasks : t - NbParts \notin DOMAIN known
    <3>1. DOMAIN known = 1 .. Len(known)
      BY <1>1 DEF Typed
    <3>2. QED
      BY <3>1, TaskSets
  <2>6. \A t \in UpTasks : task'[t] = task[t] /\ part'[t] = part[t]
    BY <2>1, <2>5, TaskSets
  <2>7. \A t \in DownTasks :
          IF t - NbParts \in DOMAIN known
          THEN task'[t] = "connect" /\ part'[t] = known[t - NbParts].nb
          ELSE task'[t] = "none"
    BY <1>2, <2>1, TaskSets
  <2>8. QED
    BY <1>2, <1>4, <2>1, <2>3, <2>4, <2>6, <2>7
<1>5. QED
  BY <1>3, <1>4

\* The tasks of the download start at the parts the master listed.
LEMMA DownloadBeginsInv ==
    ASSUME Inv, DownloadBegins
    PROVE  Inv'
<1>1. Typed /\ Phases /\ Sessions
  BY DEF Inv
<1>2. /\ main = "uploaded" /\ listed' = known
      /\ \A t \in DownTasks : task[t] = "none"
      /\ UNCHANGED <<conn, wire, handler, up, disk, partAcks, known, ended, faults>>
      /\ \A t \in UpTasks : task'[t] = task[t] /\ part'[t] = part[t]
      /\ \/ known = <<>> /\ main' = "failed" /\ UNCHANGED <<progress, task, part>>
         \/ /\ known # <<>> /\ main' = "downloading" /\ progress' = 1
            /\ task' \in [Tasks -> TaskStates] /\ part' \in [Tasks -> Nat]
            /\ \A t \in DownTasks :
                 IF t - NbParts \in DOMAIN known
                 THEN task'[t] = "connect" /\ part'[t] = known[t - NbParts].nb
                 ELSE task'[t] = "none"
  BY DownloadBeginsIs
<1>3. Typed'
  BY <1>1, <1>2 DEF Typed, Mains
<1>4. ASSUME NEW t \in UpTasks
      PROVE  AtPart(t)' /\ OnWire(t)' /\ InHandler(t)'
  <2>1. t \in Tasks /\ t \notin DownTasks
    BY <1>4, TaskSets
  <2>2. AtPart(t) /\ OnWire(t) /\ InHandler(t)
    BY <1>1, <2>1 DEF Sessions
  <2>3. QED
    BY <1>2, <1>4, <2>1, <2>2 DEF AtPart, OnWire, InHandler
<1>5. ASSUME NEW t \in DownTasks
      PROVE  AtPart(t)' /\ OnWire(t)' /\ InHandler(t)'
  <2>1. t \in Tasks /\ t \notin UpTasks /\ task[t] = "none"
    BY <1>2, <1>5, TaskSets
  <2>2. conn[t] = "none" /\ wire[t] = None /\ handler[t] = NoHandler
    BY <2>1, Unstarted
  <2>3. AtPart(t)'
    BY <1>2, <2>1 DEF AtPart
  <2>4. OnWire(t)' /\ InHandler(t)'
    BY <1>2, <2>2 DEF OnWire, InHandler, NoHandler
  <2>5. QED
    BY <2>3, <2>4
<1>6. Phases'
  <2>1. \A t \in UpTasks : task[t] \in {"done", "failed"}
    BY <1>1, <1>2 DEF Phases
  <2>2. CASE main' = "failed"
    BY <1>2, <2>1, <2>2 DEF Phases
  <2>3. CASE main' = "downloading"
    BY <1>2, <2>1, <2>3 DEF Phases
  <2>4. QED
    BY <1>2, <2>2, <2>3
<1>7. QED
  BY <1>3, <1>4, <1>5, <1>6, TaskSets DEF Inv, Sessions

-----------------------------------------------------------------------------
\* The storages and the master.
LEMMA QuietInv ==
    ASSUME Inv, UNCHANGED <<main, progress, listed, task, part, conn, wire, handler,
                            disk, ended>>,
           known' \in Seq(Place), up' \subseteq Storages, partAcks' \subseteq Place,
           faults' \in 0 .. MaxFaults
    PROVE  Inv' /\ \A u \in Tasks : Same(u)
<1>1. Typed /\ Phases /\ Sessions
  BY DEF Inv
<1>2. Typed'
  BY <1>1 DEF Typed
<1>3. \A u \in Tasks : Same(u)
  BY DEF Same
<1>4. Sessions'
  <2>1. ASSUME NEW u \in Tasks PROVE AtPart(u)' /\ OnWire(u)' /\ InHandler(u)'
    BY <1>1, <1>3, AloneKeeps DEF Sessions
  <2>2. QED
    BY <2>1 DEF Sessions
<1>5. Phases'
  BY <1>1, PhasesFollow
<1>6. QED
  BY <1>2, <1>3, <1>4, <1>5 DEF Inv

\* A storage ends, and starts again.
LEMMA StorageCrashInv ==
    ASSUME Inv, NEW s \in Storages, StorageCrash(s)
    PROVE  Inv' /\ \A u \in Tasks : Same(u) \/ Quit(u)
  BY FaultIs, StorageEndsInv DEF StorageCrash, Inv, clientVars, masterVars

\* A storage that starts has no session.
LEMMA StorageStartInv ==
    ASSUME Inv, NEW s \in Storages, StorageStart(s)
    PROVE  Inv' /\ \A u \in Tasks : Same(u)
<1>1. Typed
  BY DEF Inv
<1>2. /\ up' = up \cup {s}
      /\ UNCHANGED <<main, progress, listed, task, part, conn, wire, handler, disk,
                     partAcks, known, ended, faults>>
  BY DEF StorageStart, clientVars, taskVars, masterVars
<1>3. QED
  BY <1>1, <1>2, QuietInv DEF Typed

\* The master takes a part_ack, or it is lost.
LEMMA MasterInv ==
    ASSUME Inv, NEW a \in partAcks, TakePartAck(a) \/ LosePartAck(a)
    PROVE  Inv' /\ \A u \in Tasks : Same(u)
<1>1. Typed /\ a \in Place
  BY DEF Inv, Typed
<1>2. /\ partAcks' = partAcks \ {a}
      /\ UNCHANGED <<main, progress, listed, task, part, conn, wire, handler, up,
                     disk, ended>>
  BY DEF TakePartAck, LosePartAck, clientVars, taskVars, storageVars
<1>3. faults' \in 0 .. MaxFaults
  BY <1>1, FaultIs DEF TakePartAck, LosePartAck, Typed
<1>4. known' \in Seq(Place)
  <2>1. known \in Seq(Place)
    BY <1>1 DEF Typed
  <2>2. known' = known \/ known' = Append(known, a)
    BY DEF TakePartAck, LosePartAck
  <2>3. QED
    BY <1>1, <2>1, <2>2
<1>5. QED
  BY <1>1, <1>2, <1>3, <1>4, QuietInv DEF Typed

\* The invariant of the sessions and the tasks holds at the start and is kept.
LEMMA InvInit == Init => Inv
<1> SUFFICES ASSUME Init PROVE Inv
  OBVIOUS
<1>1. Typed
  <2>1. \A S : <<>> \in Seq(S)
    OBVIOUS
  <2>2. handler \in [Tasks -> Handlers]
    BY NoHandlerType DEF Init
  <2>3. QED
    BY <2>1, <2>2, TransferAssumption DEF Init, Typed, Mains, TaskStates
<1>2. Phases
  BY TaskSets DEF Init, Phases
<1>3. Sessions
  BY DEF Init, Sessions, AtPart, OnWire, InHandler, NoHandler
<1>4. QED
  BY <1>1, <1>2, <1>3 DEF Inv

\* Every step keeps the invariant of the sessions and the tasks.
LEMMA InvNext == Inv /\ [Next]_vars => Inv'
<1> SUFFICES ASSUME Inv, [Next]_vars PROVE Inv'
  OBVIOUS
<1>1. CASE MainStep
  BY <1>1, UploadBeginsInv, MainMovesInv, DownloadBeginsInv DEF MainStep
<1>2. ASSUME NEW t \in Tasks, ClientStep(t) PROVE Inv'
  BY <1>2, ConnectKeeps, SendKeeps, RecvAckKeeps, RecvPartKeeps DEF ClientStep
<1>3. ASSUME NEW t \in Tasks, HandlerStep(t) PROVE Inv'
  BY <1>3, StorePartInv, TellMasterInv, AckClientInv, HandlerEndsInv, ServePartInv
     DEF HandlerStep
<1>4. ASSUME NEW t \in Tasks, BreakSession(t) PROVE Inv'
  BY <1>4, BreakSessionInv
<1>5. ASSUME NEW s \in Storages, StorageCrash(s) \/ StorageStart(s) PROVE Inv'
  BY <1>5, StorageCrashInv, StorageStartInv
<1>6. ASSUME NEW a \in partAcks, TakePartAck(a) \/ LosePartAck(a) PROVE Inv'
  BY <1>6, MasterInv
<1>7. CASE UNCHANGED vars
  <2>1. UNCHANGED <<main, progress, listed, task, part, conn, wire, handler, up,
                    disk, partAcks, known, ended, faults>>
    BY <1>7 DEF vars, clientVars, taskVars, storageVars, masterVars
  <2>2. QED
    BY <2>1, QuietInv DEF Inv, Typed
<1>8. QED
  BY <1>1, <1>2, <1>3, <1>4, <1>5, <1>6, <1>7 DEF Next

-----------------------------------------------------------------------------
(***************************************************************************)
(* progress_ counts the parts that are over.                                *)
(***************************************************************************)
LEMMA PartsFinite ==
    /\ IsFiniteSet(Parts) /\ Cardinality(Parts) = NbParts
    /\ IsFiniteSet(DownTasks) /\ Cardinality(DownTasks) = NbParts
<1>1. NbParts \in Nat
  BY Ranges
<1>2. /\ IsFiniteSet(0 .. NbParts - 1) /\ Cardinality(0 .. NbParts - 1) = NbParts
  BY <1>1, FS_Interval
<1>3. /\ IsFiniteSet(NbParts + 1 .. 2 * NbParts)
      /\ Cardinality(NbParts + 1 .. 2 * NbParts) = NbParts
  BY <1>1, FS_Interval
<1>4. QED
  BY <1>2, <1>3 DEF Parts, DownTasks

\* There are at most as many counted parts, or tasks that got theirs, as parts.
LEMMA CountsFinite ==
    /\ IsFiniteSet(Counted) /\ Cardinality(Counted) \in 0 .. NbParts
    /\ IsFiniteSet(Arrived) /\ Cardinality(Arrived) \in 0 .. NbParts
<1>1. Counted \in SUBSET Parts /\ Arrived \in SUBSET DownTasks
  BY DEF Counted, Arrived
<1>2. IsFiniteSet(Counted) /\ Cardinality(Counted) <= NbParts
  BY <1>1, PartsFinite, FS_Subset
<1>3. IsFiniteSet(Arrived) /\ Cardinality(Arrived) <= NbParts
  BY <1>1, PartsFinite, FS_Subset
<1>4. Cardinality(Counted) \in Nat /\ Cardinality(Arrived) \in Nat
  BY <1>2, <1>3, FS_CardinalityType
<1>5. QED
  BY <1>2, <1>3, <1>4, Ranges

\* A part that was given up was not counted.
LEMMA LostNotCounted ==
    ASSUME Inv
    PROVE  LostParts \subseteq Parts \ Counted
<1>1. ASSUME NEW p \in LostParts PROVE p \in Parts \ Counted
  <2>1. PICK t \in UpTasks : task[t] = "failed" /\ p \in part[t] .. EndId(t) - 1
    BY <1>1 DEF LostParts
  <2>2. t \in Tasks /\ part[t] \in Own(t)
    BY <2>1, TaskSets DEF Inv, Sessions, AtPart
  <2>3. p \in Own(t) /\ ~(p < part[t]) /\ p \in Parts
    BY <2>1, <2>2, Ranges, TaskSets DEF Own
  <2>4. ASSUME p \in Counted PROVE FALSE
    <3>1. PICK u \in UpTasks : p \in Own(u) /\ Passed(u, p)
      BY <2>4 DEF Counted
    <3>2. u = t
      BY <2>3, <3>1, Ranges
    <3>3. QED
      BY <2>1, <2>3, <3>1, <3>2 DEF Passed
  <2>5. QED
    BY <2>3, <2>4
<1>2. QED
  BY <1>1

\* When progress_ has reached the number of parts, at most one was given up.
LEMMA OneLost ==
    ASSUME Inv, progress = 1 + Cardinality(Counted), progress >= NbParts
    PROVE  Cardinality(LostParts) <= 1
<1>1. /\ IsFiniteSet(Parts \ Counted)
      /\ Cardinality(Parts \ Counted) = NbParts - Cardinality(Parts \cap Counted)
  BY PartsFinite, FS_Difference
<1>2. Parts \cap Counted = Counted
  BY DEF Counted
<1>3. Cardinality(Parts \ Counted) <= 1
  <2>1. PICK c \in Nat : c = Cardinality(Counted)
    BY CountsFinite
  <2>2. Cardinality(Parts \ Counted) = NbParts - c
    BY <1>1, <1>2, <2>1
  <2>3. QED
    BY <2>1, <2>2, Ranges
<1>4. LostParts \in SUBSET (Parts \ Counted)
  BY LostNotCounted
<1>5. IsFiniteSet(LostParts) /\ Cardinality(LostParts) <= Cardinality(Parts \ Counted)
  BY <1>1, <1>4, FS_Subset
<1>6. Cardinality(LostParts) \in Nat /\ Cardinality(Parts \ Counted) \in Nat
  BY <1>1, <1>5, FS_CardinalityType
<1>7. QED
  BY <1>3, <1>5, <1>6

\* The upload is not over while a task of it is not.
LEMMA WhileUploading ==
    ASSUME Inv, NEW t \in UpTasks, ~Ended(t)
    PROVE  main = "uploading"
<1>1. task[t] \notin {"none", "done", "failed"} /\ main \in Mains
  BY DEF Ended, Inv, Typed
<1>2. QED
  BY <1>1 DEF Inv, Phases, Mains

\* The download is not over while a task of it is not.
LEMMA WhileDownloading ==
    ASSUME Inv, NEW t \in DownTasks, ~Ended(t)
    PROVE  main = "downloading"
<1>1. task[t] \notin {"none", "done", "failed"} /\ main \in Mains
  BY DEF Ended, Inv, Typed
<1>2. QED
  BY <1>1 DEF Inv, Phases, Mains, Ended

\* A step that counts nothing.
LEMMA CountingFollows ==
    ASSUME Inv, Counting, UNCHANGED <<main, progress, listed>>,
           \A t \in Tasks :
             /\ part'[t] = part[t]
             /\ \/ task'[t] = task[t]
                \/ ~Ended(t) /\ task'[t] # "done"
    PROVE  Counting'
<1>1. UpTasks \subseteq Tasks /\ DownTasks \subseteq Tasks
  BY TaskSets
<1>2. Counted' = Counted
  <2>1. \A t \in UpTasks : \A p : Passed(t, p)' <=> Passed(t, p)
    BY <1>1 DEF Passed, Ended
  <2>2. QED
    BY <2>1 DEF Counted
<1>3. Arrived' = Arrived
  BY <1>1 DEF Arrived, Ended
<1>4. ASSUME main # "uploading" PROVE LostParts' = LostParts
  <2>1. \A t \in UpTasks : task'[t] = task[t] /\ part'[t] = part[t]
    BY <1>1, <1>4, WhileUploading
  <2>2. QED
    BY <2>1 DEF LostParts
<1>5. QED
  BY <1>2, <1>3, <1>4 DEF Counting

\* progress_ is 1 when nothing is counted.
LEMMA UploadBeginsCounts ==
    ASSUME Inv, UploadBegins
    PROVE  Counting'
<1>1. /\ main' = "uploading" /\ progress' = 1
      /\ task' = [t \in Tasks |-> IF t \in UpTasks THEN "connect" ELSE "none"]
      /\ part' = [t \in Tasks |-> IF t \in UpTasks THEN BeginId(t) ELSE 0]
  BY UploadBeginsIs
<1>2. \A t \in UpTasks : task'[t] = "connect" /\ part'[t] = BeginId(t)
  BY <1>1, TaskSets
<1>3. \A t \in UpTasks : \A p \in Own(t) : ~Passed(t, p)'
  BY <1>2, Ranges DEF Own, Passed
<1>4. Counted' = {}
  BY <1>3 DEF Counted
<1>5. Cardinality(Counted') = 0
  BY <1>4, FS_EmptySet
<1>6. QED
  BY <1>1, <1>5 DEF Counting

\* progress_while lets the main thread go on when one part at most is missing.
LEMMA MainMovesCounts ==
    ASSUME Inv, Counting, UploadEnds \/ DownloadEnds
    PROVE  Counting'
<1>1. UNCHANGED <<progress, listed, task, part>>
  BY DEF UploadEnds, DownloadEnds, taskVars
<1>2. Counted' = Counted /\ Arrived' = Arrived /\ LostParts' = LostParts
  BY <1>1 DEF Counted, Arrived, LostParts, Passed
<1>3. CASE UploadEnds
  <2>1. main = "uploading" /\ main' = "uploaded" /\ progress >= NbParts
    BY <1>3 DEF UploadEnds, ProgressWhile
  <2>2. Cardinality(LostParts) <= 1
    BY <2>1, OneLost DEF Counting
  <2>3. QED
    BY <1>1, <1>2, <2>1, <2>2 DEF Counting
<1>4. CASE DownloadEnds
  <2>1. /\ main = "downloading" /\ main' \in {"downloaded", "trapped"}
        /\ progress >= Len(listed)
    BY <1>4 DEF DownloadEnds, ProgressWhile
  <2>2. QED
    BY <1>1, <1>2, <2>1 DEF Counting
<1>5. QED
  BY <1>3, <1>4

\* progress_ is 1 again, and no task of the download has its part.
LEMMA DownloadBeginsCounts ==
    ASSUME Inv, Counting, DownloadBegins
    PROVE  Counting'
<1>1. /\ main = "uploaded"
      /\ \A t \in UpTasks : task'[t] = task[t] /\ part'[t] = part[t]
      /\ \/ main' = "failed" /\ UNCHANGED progress
         \/ /\ main' = "downloading" /\ progress' = 1
            /\ \A t \in DownTasks : task'[t] \in {"connect", "none"}
  BY DownloadBeginsIs
<1>2. Counted' = Counted /\ LostParts' = LostParts
  BY <1>1 DEF Counted, LostParts, Passed
<1>3. CASE main' = "failed" /\ UNCHANGED progress
  BY <1>1, <1>2, <1>3 DEF Counting
<1>4. CASE /\ main' = "downloading" /\ progress' = 1
           /\ \A t \in DownTasks : task'[t] \in {"connect", "none"}
  <2>1. Arrived' = {}
    BY <1>4 DEF Arrived
  <2>2. Cardinality(Arrived') = 0
    BY <2>1, FS_EmptySet
  <2>3. QED
    BY <1>1, <1>2, <1>4, <2>2 DEF Counting
<1>5. QED
  BY <1>1, <1>3, <1>4

\* A part that is counted was not counted before.
LEMMA CountCounts ==
    ASSUME Inv, Counting, NEW t \in UpTasks, task[t] = "wait", Count(t),
           UNCHANGED <<main, listed>>
    PROVE  Counting'
<1>1. /\ progress' = progress + 1
      /\ \A u \in Tasks \ {t} : task'[u] = task[u] /\ part'[u] = part[u]
      /\ \/ /\ part[t] + 1 < EndId(t) /\ task'[t] = "send" /\ part'[t] = part[t] + 1
         \/ /\ part[t] + 1 >= EndId(t) /\ task'[t] = "done" /\ part'[t] = part[t]
  BY CountIs
<1>2. part[t] \in Own(t) /\ part[t] \in Parts /\ part[t] \in Nat
  BY TaskSets DEF Inv, Sessions, AtPart
<1>3. main = "uploading"
  BY WhileUploading DEF Ended
<1>4. \A u \in UpTasks : u # t => \A p : Passed(u, p)' <=> Passed(u, p)
  BY <1>1, TaskSets DEF Passed
<1>5. \A p \in Own(t) : Passed(t, p)' <=> Passed(t, p) \/ p = part[t]
  <2> TAKE p \in Own(t)
  <2>1. p \in Int /\ p <= EndId(t) - 1 /\ EndId(t) \in Int
    BY Ranges DEF Own
  <2>2. QED
    BY <1>1, <1>2, <2>1 DEF Passed
<1>6. Counted' = Counted \cup {part[t]}
  <2>1. ASSUME NEW p \in Parts, NEW u \in UpTasks, p \in Own(u)
        PROVE  Passed(u, p)' <=> Passed(u, p) \/ p = part[t]
    <3>1. CASE u = t
      BY <1>5, <2>1, <3>1
    <3>2. CASE u # t
      BY <1>2, <1>4, <2>1, <3>2, Ranges
    <3>3. QED
      BY <3>1, <3>2
  <2>2. QED
    BY <1>2, <2>1 DEF Counted
<1>7. part[t] \notin Counted
  <2>1. \A u \in UpTasks : part[t] \in Own(u) => u = t
    BY <1>2, Ranges
  <2>2. ~Passed(t, part[t])
    BY <1>2 DEF Passed
  <2>3. QED
    BY <2>1, <2>2 DEF Counted
<1>8. Cardinality(Counted') = Cardinality(Counted) + 1
  BY <1>6, <1>7, CountsFinite, FS_AddElement
<1>9. progress' = 1 + Cardinality(Counted')
  BY <1>1, <1>3, <1>8, CountsFinite DEF Counting
<1>10. QED
  BY <1>3, <1>9 DEF Counting

\* A task that gets its part is counted once.
LEMMA ArriveCounts ==
    ASSUME Inv, Counting, NEW t \in DownTasks, task[t] = "wait", task'[t] = "done",
           \A u \in Tasks \ {t} : task'[u] = task[u],
           progress' = progress + 1, UNCHANGED <<main, listed, part>>
    PROVE  Counting'
<1>1. main = "downloading"
  BY WhileDownloading DEF Ended
<1>2. Arrived' = Arrived \cup {t} /\ t \notin Arrived
  BY TaskSets DEF Arrived
<1>3. Cardinality(Arrived') = Cardinality(Arrived) + 1
  BY <1>2, CountsFinite, FS_AddElement
<1>4. \A u \in UpTasks : task'[u] = task[u] /\ part'[u] = part[u]
  BY TaskSets
<1>5. LostParts' = LostParts
  BY <1>4 DEF LostParts
<1>6. progress' = 1 + Cardinality(Arrived')
  BY <1>1, <1>3, CountsFinite DEF Counting
<1>7. QED
  BY <1>1, <1>5, <1>6 DEF Counting

\* Every step keeps the meaning of progress_.
LEMMA CountingNext ==
    ASSUME Inv, Counting, [Next]_vars
    PROVE  Counting'
<1>1. CASE MainStep
  BY <1>1, UploadBeginsCounts, MainMovesCounts, DownloadBeginsCounts DEF MainStep
<1>2. ASSUME NEW t \in Tasks, ClientStep(t) PROVE Counting'
  <2>1. Typed
    BY DEF Inv
  <2>2. CASE Connect(t) \/ Send(t)
    <3>1. UNCHANGED <<main, progress, listed, part>> /\ ~Ended(t)
          /\ \E x \in {"send", "wait", "failed"} : task' = [task EXCEPT ![t] = x]
      BY <2>2 DEF Connect, Send, clientVars, Ended
    <3>2. QED
      BY <2>1, <3>1, CountingFollows DEF Typed
  <2>3. CASE RecvAck(t)
    <3>1. /\ t \in UpTasks /\ task[t] = "wait" /\ UNCHANGED <<main, listed>>
          /\ \/ Count(t)
             \/ task' = [task EXCEPT ![t] = "failed"] /\ UNCHANGED <<progress, part>>
      BY <2>3, RecvAckIs
    <3>2. CASE Count(t)
      BY <3>1, <3>2, CountCounts
    <3>3. CASE task' = [task EXCEPT ![t] = "failed"] /\ UNCHANGED <<progress, part>>
      BY <2>1, <3>1, <3>3, CountingFollows DEF Typed, Ended
    <3>4. QED
      BY <3>1, <3>2, <3>3
  <2>4. CASE RecvPart(t)
    <3>1. /\ t \in DownTasks /\ task[t] = "wait" /\ UNCHANGED <<main, listed, part>>
          /\ \A u \in Tasks \ {t} : task'[u] = task[u]
          /\ \/ progress' = progress + 1 /\ task'[t] = "done"
             \/ task'[t] = "failed" /\ UNCHANGED progress
      BY <2>4, RecvPartIs
    <3>2. CASE progress' = progress + 1 /\ task'[t] = "done"
      BY <3>1, <3>2, ArriveCounts
    <3>3. CASE task'[t] = "failed" /\ UNCHANGED progress
      BY <3>1, <3>3, CountingFollows DEF Ended
    <3>4. QED
      BY <3>1, <3>2, <3>3
  <2>5. QED
    BY <1>2, <2>2, <2>3, <2>4 DEF ClientStep
<1>3. ASSUME UNCHANGED <<main, progress, listed, task, part>> PROVE Counting'
  BY <1>3, CountingFollows
<1>4. ASSUME NEW t \in Tasks, HandlerStep(t) \/ BreakSession(t) PROVE Counting'
  BY <1>3, <1>4 DEF HandlerStep, StorePart, TellMaster, AckClient, CloseFile,
     ServePart, ServeEnds, BreakSession, clientVars
<1>5. ASSUME NEW s \in Storages, StorageCrash(s) \/ StorageStart(s) PROVE Counting'
  BY <1>3, <1>5 DEF StorageCrash, StorageStart, clientVars, taskVars
<1>6. ASSUME NEW a \in partAcks, TakePartAck(a) \/ LosePartAck(a) PROVE Counting'
  BY <1>3, <1>6 DEF TakePartAck, LosePartAck, clientVars, taskVars
<1>7. CASE UNCHANGED vars
  BY <1>3, <1>7 DEF vars, clientVars, taskVars
<1>8. QED
  BY <1>1, <1>2, <1>4, <1>5, <1>6, <1>7 DEF Next

-----------------------------------------------------------------------------
(***************************************************************************)
(* What was counted is stored.                                              *)
(***************************************************************************)
LEMMA StoredStays ==
    ASSUME Inv, [Next]_vars
    PROVE  \A x \in Storages : \A p : Stored(x, p) => Stored(x, p)'
<1>1. Typed
  BY DEF Inv
<1>2. ASSUME UNCHANGED <<disk, ended>>
      PROVE  \A x \in Storages : \A p : Stored(x, p) => Stored(x, p)'
  BY <1>2 DEF Stored
<1>3. ASSUME NEW s, StorageEnds(s)
      PROVE  \A x \in Storages : \A p : Stored(x, p) => Stored(x, p)'
  <2>1. ended' = ended \cup {s} /\ \A x \in Storages : x # s => disk'[x] = disk[x]
    BY <1>1, <1>3 DEF StorageEnds, Typed
  <2>2. QED
    BY <2>1 DEF Stored
<1>4. ASSUME NEW t \in Tasks, StorePart(t)
      PROVE  \A x \in Storages : \A p : Stored(x, p) => Stored(x, p)'
  <2>1. ended' = ended
    BY <1>4 DEF StorePart
  <2>2. \/ disk' = disk
        \/ disk' = [disk EXCEPT ![Peer(t)] = @ \cup {wire[t].nb}]
    BY <1>4 DEF StorePart
  <2>3. \A x \in Storages : disk[x] \subseteq disk'[x]
    BY <1>1, <2>2 DEF Typed
  <2>4. QED
    BY <2>1, <2>3 DEF Stored
<1>5. CASE MainStep
  BY <1>2, <1>5 DEF MainStep, UploadBegins, UploadEnds, DownloadBegins, DownloadEnds,
     storageVars
<1>6. ASSUME NEW t \in Tasks, ClientStep(t) \/ BreakSession(t)
      PROVE  \A x \in Storages : \A p : Stored(x, p) => Stored(x, p)'
  BY <1>2, <1>6 DEF ClientStep, Connect, Send, RecvAck, RecvPart, BreakSession,
     storageVars
<1>7. ASSUME NEW t \in Tasks, HandlerStep(t)
      PROVE  \A x \in Storages : \A p : Stored(x, p) => Stored(x, p)'
  <2>1. \/ StorePart(t) \/ StorageEnds(Peer(t)) \/ UNCHANGED <<disk, ended>>
    BY <1>7 DEF HandlerStep, TellMaster, AckClient, CloseFile, ServePart, ServeEnds,
       storageVars
  <2>2. QED
    BY <1>2, <1>3, <1>4, <2>1
<1>8. ASSUME NEW s \in Storages, StorageCrash(s) \/ StorageStart(s)
      PROVE  \A x \in Storages : \A p : Stored(x, p) => Stored(x, p)'
  BY <1>2, <1>3, <1>8 DEF StorageCrash, StorageStart
<1>9. ASSUME NEW a \in partAcks, TakePartAck(a) \/ LosePartAck(a)
      PROVE  \A x \in Storages : \A p : Stored(x, p) => Stored(x, p)'
  BY <1>2, <1>9 DEF TakePartAck, LosePartAck, storageVars
<1>10. CASE UNCHANGED vars
  BY <1>2, <1>10 DEF vars, storageVars
<1>11. QED
  BY <1>5, <1>6, <1>7, <1>8, <1>9, <1>10 DEF Next

\* A task that counts nothing, and gets no acknowledgement.
LEMMA KeptFollows ==
    ASSUME NEW t \in UpTasks, KeptBy(t), Inv, [Next]_vars,
           part'[t] = part[t],
           task'[t] = task[t] \/ (task[t] # "none" /\ task'[t] # "done"),
           conn[t] = "broken" => conn'[t] = "broken",
           handler'[t].at = "ack" => handler'[t] = handler[t],
           At(t, "ack")' => wire'[t] = wire[t]
    PROVE  KeptBy(t)'
<1>1. Fields[t].addr \in Storages
  BY UpPeer
<1>2. \A p : Stored(Fields[t].addr, p) => Stored(Fields[t].addr, p)'
  BY <1>1, StoredStays
<1>3. \A p : Passed(t, p)' => Passed(t, p)
  BY DEF Passed
<1>4. (task[t] # "none" =>
         \A p \in Own(t) : Passed(t, p) =>
           conn[t] = "broken" \/ Stored(Fields[t].addr, p))'
  BY <1>2, <1>3 DEF KeptBy
<1>5. (handler[t].at = "ack" => Stored(Fields[t].addr, handler[t].nb))'
  BY <1>2 DEF KeptBy
<1>6. (At(t, "ack") => Stored(Fields[t].addr, wire[t].nb))'
  BY <1>2 DEF KeptBy, At
<1>7. QED
  BY <1>4, <1>5, <1>6 DEF KeptBy

\* A task that is left alone, or whose storage ended.
LEMMA AloneKept ==
    ASSUME NEW t \in UpTasks, KeptBy(t), Inv, [Next]_vars, Same(t) \/ Quit(t)
    PROVE  KeptBy(t)'
<1>1. CASE Same(t)
  BY <1>1, KeptFollows DEF Same
<1>2. CASE Quit(t)
  <2>1. handler'[t].at # "ack" /\ ~At(t, "ack")'
    BY <1>2 DEF Quit, NoHandler, At
  <2>2. QED
    BY <1>2, <2>1, KeptFollows DEF Quit
<1>3. QED
  BY <1>1, <1>2

\* A task that counts its part has an acknowledgement, or its session is broken.
LEMMA CountKept ==
    ASSUME NEW t \in UpTasks, KeptBy(t), Inv, [Next]_vars, RecvAck(t), Count(t)
    PROVE  KeptBy(t)'
<1>1. /\ task[t] = "wait" /\ wire'[t] = None /\ handler' = handler
      /\ At(t, "ack") \/ conn[t] = "broken" \/ At(t, "error")
  BY TaskSets, RecvAckIs
<1>2. /\ \/ /\ part[t] + 1 < EndId(t)
            /\ task'[t] = "send" /\ part'[t] = part[t] + 1 /\ conn'[t] = conn[t]
         \/ /\ part[t] + 1 >= EndId(t)
            /\ task'[t] = "done" /\ part'[t] = part[t]
            /\ conn'[t] = IF conn[t] = "broken" THEN "broken" ELSE "none"
  BY <1>1, CountIs
<1>3. part[t] \in Own(t) /\ part[t] \in Nat /\ OnWire(t)
  BY <1>1, TaskSets DEF Inv, Sessions, AtPart, Typed
<1>4. Fields[t].addr \in Storages
  BY UpPeer
<1>5. \A p : Stored(Fields[t].addr, p) => Stored(Fields[t].addr, p)'
  BY <1>4, StoredStays
<1>6. conn[t] = "broken" => conn'[t] = "broken"
  BY <1>2
<1>7. conn[t] # "broken" => Stored(Fields[t].addr, part[t])
  <2>1. ASSUME At(t, "error") PROVE FALSE
    <3>1. conn[t] = "open" /\ ~At(t, "ack")
      BY <1>3, <2>1 DEF OnWire, At
    <3>2. task' = [task EXCEPT ![t] = "failed"]
      BY <2>1, <3>1 DEF RecvAck, At
    <3>3. task'[t] = "failed"
      BY <3>2, TaskSets DEF Inv, Typed
    <3>4. QED
      BY <1>2, <3>3
  <2>2. QED
    BY <1>1, <1>3, <2>1 DEF KeptBy, OnWire, At
<1>8. ASSUME NEW p \in Own(t), Passed(t, p)'
      PROVE  conn'[t] = "broken" \/ Stored(Fields[t].addr, p)'
  <2>1. p \in Int /\ p <= EndId(t) - 1 /\ EndId(t) \in Int
    BY Ranges DEF Own
  <2>2. p < part[t] \/ p = part[t]
    BY <1>2, <1>3, <1>8, <2>1 DEF Passed
  <2>3. CASE p < part[t]
    <3>1. conn[t] = "broken" \/ Stored(Fields[t].addr, p)
      BY <1>1, <2>3 DEF KeptBy, Passed
    <3>2. QED
      BY <1>5, <1>6, <3>1
  <2>4. CASE p = part[t]
    BY <1>5, <1>6, <1>7, <2>4
  <2>5. QED
    BY <2>2, <2>3, <2>4
<1>9. (handler[t].at = "ack" => Stored(Fields[t].addr, handler[t].nb))'
  BY <1>1, <1>5 DEF KeptBy
<1>10. QED
  BY <1>1, <1>8, <1>9 DEF KeptBy, At

\* Nothing is counted when the upload begins.
LEMMA UploadBeginsKept ==
    ASSUME Inv, UploadBegins
    PROVE  Kept'
<1>1. ASSUME NEW t \in UpTasks PROVE KeptBy(t)'
  <2>1. t \in Tasks /\ task[t] = "none"
    BY TaskSets, UploadBeginsIs
  <2>2. conn[t] = "none" /\ wire[t] = None /\ handler[t] = NoHandler
    BY <2>1, Unstarted
  <2>3. /\ task'[t] = "connect" /\ part'[t] = BeginId(t)
        /\ UNCHANGED <<conn, wire, handler>>
    BY <2>1, UploadBeginsIs
  <2>4. \A p \in Own(t) : ~Passed(t, p)'
    BY <2>3, Ranges DEF Own, Passed
  <2>5. QED
    BY <2>2, <2>3, <2>4 DEF KeptBy, At, NoHandler
<1>2. QED
  BY <1>1 DEF Kept

\* Every step keeps what was counted.
LEMMA KeptNext ==
    ASSUME Inv, StoredBeforeTold, Kept, [Next]_vars
    PROVE  Kept'
<1>1. \A t \in UpTasks : t \in Tasks /\ KeptBy(t)
  BY TaskSets DEF Kept
<1>2. Typed
  BY DEF Inv
<1>3. ASSUME NEW t \in Tasks, \A u \in Tasks \ {t} : Same(u) \/ Quit(u),
             t \in UpTasks => KeptBy(t)'
      PROVE  Kept'
  BY <1>1, <1>3, AloneKept DEF Kept
<1>4. CASE MainStep
  <2>1. ASSUME UploadEnds \/ DownloadEnds PROVE Kept'
    BY <1>1, <2>1, MainMovesInv, AloneKept DEF Kept
  <2>2. ASSUME DownloadBegins PROVE Kept'
    <3>1. /\ \A t \in UpTasks : task'[t] = task[t] /\ part'[t] = part[t]
          /\ UNCHANGED <<conn, wire, handler>>
      BY <2>2, DownloadBeginsIs
    <3>2. QED
      BY <1>1, <3>1, AloneKept DEF Kept, Same
  <2>3. QED
    BY <1>4, <2>1, <2>2, UploadBeginsKept DEF MainStep
<1>5. ASSUME NEW t \in Tasks, ClientStep(t) PROVE Kept'
  <2>1. \A u \in Tasks \ {t} : Same(u)
    BY <1>5, ConnectKeeps, SendKeeps, RecvAckKeeps, RecvPartKeeps DEF ClientStep
  <2>2. ASSUME t \in UpTasks PROVE KeptBy(t)'
    <3>1. KeptBy(t) /\ t \notin DownTasks /\ InHandler(t)
      BY <1>1, <2>2, TaskSets DEF Inv, Sessions
    <3>2. CASE Connect(t)
      <4>1. conn[t] = "none" /\ task[t] = "connect"
        BY <3>1, <3>2 DEF InHandler, Connect
      <4>2. /\ task'[t] \in {"send", "failed"}
            /\ UNCHANGED <<part, wire, handler>>
        BY <1>2, <3>2 DEF Connect, Typed
      <4>3. QED
        BY <2>2, <3>1, <4>1, <4>2, KeptFollows
    <3>3. CASE Send(t)
      <4>1. /\ task[t] = "send" /\ task'[t] = "wait"
            /\ UNCHANGED <<part, conn, handler>>
        BY <1>2, <3>3 DEF Send, Typed
      <4>2. At(t, "ack")' => wire'[t] = wire[t]
        BY <1>2, <2>2, <3>3 DEF Send, At, Typed
      <4>3. QED
        BY <2>2, <3>1, <4>1, <4>2, KeptFollows
    <3>4. CASE RecvAck(t)
      <4>1. CASE Count(t)
        BY <2>2, <3>1, <3>4, <4>1, CountKept
      <4>2. CASE ~Count(t)
        <5>1. /\ task[t] = "wait" /\ task' = [task EXCEPT ![t] = "failed"]
              /\ Closed(t) /\ UNCHANGED <<part, handler>> /\ wire'[t] = None
          BY <3>4, <4>2, RecvAckIs
        <5>2. task'[t] = "failed" /\ (conn[t] = "broken" => conn'[t] = "broken")
          BY <1>2, <5>1, ClosedIs DEF Typed
        <5>3. QED
          BY <2>2, <3>1, <5>1, <5>2, KeptFollows DEF At
      <4>3. QED
        BY <4>1, <4>2
    <3>5. CASE RecvPart(t)
      BY <3>1, <3>5 DEF RecvPart
    <3>6. QED
      BY <1>5, <3>2, <3>3, <3>4, <3>5 DEF ClientStep
  <2>3. QED
    BY <1>3, <2>1, <2>2
<1>6. ASSUME NEW t \in Tasks, HandlerStep(t) \/ BreakSession(t) PROVE Kept'
  <2>1. \A u \in Tasks \ {t} : Same(u) \/ Quit(u)
    BY <1>6, StorePartInv, TellMasterInv, AckClientInv, HandlerEndsInv, ServePartInv,
       BreakSessionInv DEF HandlerStep
  <2>2. ASSUME t \in UpTasks PROVE KeptBy(t)'
    <3>1. KeptBy(t) /\ OnWire(t) /\ InHandler(t)
      BY <1>1, <2>2 DEF Inv, Sessions
    <3>2. UNCHANGED <<task, part>>
      BY <1>6 DEF HandlerStep, StorePart, TellMaster, AckClient, CloseFile, ServePart,
         ServeEnds, BreakSession
    <3>3. CASE StorePart(t)
      <4>1. At(t, "part") /\ conn' = conn
        BY <3>3 DEF StorePart
      <4>2. handler'[t] = handler[t] \/ handler'[t].at = "tell"
        BY <1>2, <3>3 DEF StorePart, Typed
      <4>3. wire'[t] = None \/ wire'[t].kind = "error"
        <5>1. wire[t] \in Message
          BY <1>2, <4>1 DEF At, Typed
        <5>2. wire'[t] = None \/ wire'[t] = [wire[t] EXCEPT !.kind = "error"]
          BY <1>2, <3>3 DEF StorePart, Typed
        <5>3. QED
          BY <5>1, <5>2 DEF Message
      <4>4. QED
        BY <2>2, <3>1, <3>2, <4>1, <4>2, <4>3, KeptFollows DEF At
    <3>4. CASE TellMaster(t)
      <4>1. CASE StorageEnds(Peer(t))
        <5>1. Peer(t) \in Storages
          BY <2>2, UpPeer
        <5>2. Same(t) \/ Quit(t)
          BY <1>2, <3>2, <4>1, <5>1, StorageEndsTyped
        <5>3. QED
          BY <2>2, <3>1, <5>2, AloneKept
      <4>2. CASE handler' = [handler EXCEPT ![t].at = "ack"]
                 /\ UNCHANGED <<conn, wire, storageVars, ended, faults>>
        <5>1. handler[t].at = "tell" /\ wire[t] = None
          BY <3>1, <3>4 DEF TellMaster, InHandler
        <5>2. Stored(Fields[t].addr, handler[t].nb)
          BY <5>1 DEF StoredBeforeTold
        <5>3. handler'[t].nb = handler[t].nb
          BY <1>2, <4>2 DEF Typed, Handlers
        <5>4. Stored(Fields[t].addr, handler[t].nb)'
          BY <2>2, <5>2, <5>3, StoredStays, UpPeer
        <5>5. ~At(t, "ack")'
          BY <4>2, <5>1 DEF At
        <5>6. \A p : Passed(t, p)' => Passed(t, p)
          BY <3>2 DEF Passed
        <5>7. \A p : Stored(Fields[t].addr, p) => Stored(Fields[t].addr, p)'
          BY <2>2, StoredStays, UpPeer
        <5>8. QED
          BY <3>1, <3>2, <4>2, <5>4, <5>5, <5>6, <5>7 DEF KeptBy
      <4>3. QED
        BY <3>4, <4>1, <4>2 DEF TellMaster
    <3>5. CASE AckClient(t)
      <4>1. /\ handler[t].at = "ack" /\ UNCHANGED conn
            /\ handler'[t].at = "close"
        BY <1>2, <3>5 DEF AckClient, Typed, Handlers
      <4>2. wire'[t] = wire[t] \/ wire'[t].nb = handler[t].nb
        BY <1>2, <3>5 DEF AckClient, Typed
      <4>3. \A p : Passed(t, p)' => Passed(t, p)
        BY <3>2 DEF Passed
      <4>4. \A p : Stored(Fields[t].addr, p) => Stored(Fields[t].addr, p)'
        BY <2>2, StoredStays, UpPeer
      <4>5. (At(t, "ack") => Stored(Fields[t].addr, wire[t].nb))'
        BY <3>1, <4>1, <4>2, <4>4 DEF KeptBy, At
      <4>6. QED
        BY <3>1, <3>2, <4>1, <4>3, <4>4, <4>5 DEF KeptBy
    <3>6. CASE CloseFile(t) \/ ServeEnds(t)
      <4>1. UNCHANGED <<conn, wire>> /\ handler'[t] = NoHandler
        BY <1>2, <3>6 DEF CloseFile, ServeEnds, Typed
      <4>2. QED
        BY <2>2, <3>1, <3>2, <4>1, KeptFollows DEF NoHandler
    <3>7. CASE ServePart(t)
      BY <2>2, <3>1, <3>7 DEF ServePart, OnWire, At
    <3>8. CASE BreakSession(t)
      <4>1. handler' = handler /\ conn[t] = "open" /\ wire'[t] = None
        BY <1>2, <3>8 DEF BreakSession, Typed
      <4>2. QED
        BY <2>2, <3>1, <3>2, <4>1, KeptFollows DEF At
    <3>9. QED
      BY <1>6, <3>3, <3>4, <3>5, <3>6, <3>7, <3>8 DEF HandlerStep
  <2>3. QED
    BY <1>3, <2>1, <2>2
<1>7. ASSUME \A u \in Tasks : Same(u) \/ Quit(u) PROVE Kept'
  BY <1>1, <1>7, AloneKept DEF Kept
<1>8. ASSUME NEW s \in Storages, StorageCrash(s) \/ StorageStart(s) PROVE Kept'
  BY <1>7, <1>8, StorageCrashInv, StorageStartInv
<1>9. ASSUME NEW a \in partAcks, TakePartAck(a) \/ LosePartAck(a) PROVE Kept'
  BY <1>7, <1>9, MasterInv
<1>10. CASE UNCHANGED vars
  BY <1>7, <1>10 DEF vars, taskVars, Same
<1>11. QED
  BY <1>4, <1>5, <1>6, <1>8, <1>9, <1>10 DEF Next

-----------------------------------------------------------------------------
(***************************************************************************)
(* Each part is told of once.                                               *)
(***************************************************************************)

\* A task that goes to no new part, while nothing new of its own parts is told.
LEMMA ToldFollows ==
    ASSUME NEW t \in UpTasks, ToldBy(t), Inv,
           \A a \in Told' : a \in Told \/ a.nb \notin Own(t),
           part'[t] = part[t], task[t] # "none" => task'[t] # "none",
           task'[t] \in {"connect", "send"} => task[t] \in {"connect", "send"},
           At(t, "part")' => At(t, "part") \/ task[t] = "send",
           handler'[t].at = "tell" =>
             \/ handler'[t] = handler[t]
             \/ At(t, "part") /\ handler'[t].nb = part[t]
    PROVE  ToldBy(t)'
<1>1. AtPart(t) /\ OnWire(t) /\ InHandler(t)
  BY TaskSets DEF Inv, Sessions
<1>2. task[t] # "none" => part[t] \in Own(t)
  BY <1>1 DEF AtPart
<1>3. At(t, "part") => task[t] = "wait"
  BY <1>1 DEF OnWire, At
<1>4. ASSUME NEW p \in Own(t), Untold(p) PROVE Untold(p)'
  BY <1>4 DEF Untold
<1>5. (\A a \in Told : a.nb \in Own(t) => task[t] # "none" /\ a.nb <= part[t])'
  BY DEF ToldBy
<1>6. (task[t] \in {"connect", "send"} => Untold(part[t]))'
  BY <1>2, <1>4 DEF ToldBy, Untold
<1>7. (At(t, "part") => Untold(part[t]))'
  BY <1>2, <1>3, <1>4 DEF ToldBy, Untold
<1>8. (handler[t].at = "tell" => Untold(handler[t].nb))'
  <2>1. CASE handler'[t].at = "tell" /\ handler'[t] = handler[t]
    <3>1. handler[t].nb \in Own(t) /\ Untold(handler[t].nb)
      BY <1>1, <2>1 DEF ToldBy, InHandler
    <3>2. QED
      BY <1>4, <2>1, <3>1 DEF Untold
  <2>2. CASE handler'[t].at = "tell" /\ At(t, "part") /\ handler'[t].nb = part[t]
    <3>1. part[t] \in Own(t) /\ Untold(part[t])
      BY <1>2, <1>3, <2>2 DEF ToldBy
    <3>2. QED
      BY <1>4, <2>2, <3>1 DEF Untold
  <2>3. QED
    BY <2>1, <2>2
<1>9. QED
  BY <1>5, <1>6, <1>7, <1>8 DEF ToldBy

\* A task that is left alone, while nothing new of its own parts is told.
LEMMA AloneTold ==
    ASSUME NEW t \in UpTasks, ToldBy(t), Inv, Same(t) \/ Quit(t),
           \A a \in Told' : a \in Told \/ a.nb \notin Own(t)
    PROVE  ToldBy(t)'
<1>1. CASE Same(t)
  BY <1>1, ToldFollows DEF Same, At
<1>2. CASE Quit(t)
  <2>1. handler'[t].at # "tell" /\ ~At(t, "part")'
    BY <1>2 DEF Quit, NoHandler, At
  <2>2. QED
    BY <1>2, <2>1, ToldFollows DEF Quit
<1>3. QED
  BY <1>1, <1>2

\* The next part of a task was not told of: what was told are the parts before.
LEMMA CountTold ==
    ASSUME NEW t \in UpTasks, ToldBy(t), Inv, RecvAck(t), Count(t)
    PROVE  ToldBy(t)'
<1>1. /\ task[t] = "wait" /\ wire'[t] = None /\ handler' = handler
      /\ partAcks' = partAcks /\ known' = known
  BY TaskSets, RecvAckIs
<1>2. \/ /\ part[t] + 1 < EndId(t)
         /\ task'[t] = "send" /\ part'[t] = part[t] + 1
      \/ task'[t] = "done" /\ part'[t] = part[t]
  BY <1>1, CountIs
<1>3. Told' = Told
  BY <1>1 DEF Told
<1>4. CASE task'[t] = "done" /\ part'[t] = part[t]
  BY <1>1, <1>3, <1>4, ToldFollows DEF At
<1>5. CASE /\ part[t] + 1 < EndId(t)
           /\ task'[t] = "send" /\ part'[t] = part[t] + 1
  <2>1. part[t] \in Nat /\ part[t] \in Own(t)
    BY <1>1, TaskSets DEF Inv, Sessions, AtPart, Typed
  <2>2. part[t] + 1 \in Own(t) /\ \A p \in Own(t) : p \in Int
    BY <1>5, <2>1, Ranges DEF Own
  <2>3. \A a \in Told : a.nb \in Own(t) => a.nb <= part[t]
    BY DEF ToldBy
  <2>4. (\A a \in Told : a.nb \in Own(t) => task[t] # "none" /\ a.nb <= part[t])'
    BY <1>3, <1>5, <2>1, <2>2, <2>3
  <2>5. Untold(part[t])'
    BY <1>3, <1>5, <2>1, <2>2, <2>3 DEF Untold
  <2>6. (handler[t].at = "tell" => Untold(handler[t].nb))'
    BY <1>1, <1>3 DEF ToldBy, Untold
  <2>7. QED
    BY <1>1, <2>4, <2>5, <2>6 DEF ToldBy, At
<1>6. QED
  BY <1>2, <1>4, <1>5

\* The lists of the master and of the client have each part once.
LEMMA DifferentFollows ==
    ASSUME DifferentParts, UNCHANGED <<partAcks, known>>,
           listed' = listed \/ listed' = known
    PROVE  DifferentParts'
  BY DEF DifferentParts

\* No part was told of before its task began.
LEMMA UploadBeginsTold ==
    ASSUME Inv, ToldOnce, UploadBegins
    PROVE  ToldOnce'
<1>1. UNCHANGED <<listed, wire, handler, partAcks, known>>
  BY UploadBeginsIs
<1>2. Told' = Told
  BY <1>1 DEF Told
<1>3. ASSUME NEW t \in UpTasks PROVE ToldBy(t)'
  <2>1. t \in Tasks /\ task[t] = "none"
    BY TaskSets, UploadBeginsIs
  <2>2. wire[t] = None /\ handler[t] = NoHandler
    BY <2>1, Unstarted
  <2>3. task'[t] = "connect" /\ part'[t] = BeginId(t)
    BY <2>1, UploadBeginsIs
  <2>4. \A a \in Told : a.nb \notin Own(t)
    BY <2>1 DEF ToldOnce, ToldBy
  <2>5. BeginId(t) \in Own(t)
    BY Ranges DEF Own
  <2>6. Untold(BeginId(t))
    BY <2>4, <2>5 DEF Untold
  <2>7. (\A a \in Told : a.nb \in Own(t) => task[t] # "none" /\ a.nb <= part[t])'
    BY <1>2, <2>4
  <2>8. Untold(part[t])'
    BY <1>2, <2>3, <2>6 DEF Untold
  <2>9. ~At(t, "part")' /\ handler'[t].at # "tell"
    BY <1>1, <2>2 DEF At, NoHandler
  <2>10. QED
    BY <2>7, <2>8, <2>9 DEF ToldBy
<1>4. DifferentParts'
  BY <1>1, DifferentFollows DEF ToldOnce
<1>5. QED
  BY <1>3, <1>4 DEF ToldOnce

\* A storage tells the master of a part for the first time.
LEMMA TellMasterTold ==
    ASSUME Inv, ToldOnce, NEW t \in Tasks, TellMaster(t)
    PROVE  ToldOnce'
<1>1. UNCHANGED <<listed, task, part, known>>
  BY DEF TellMaster, clientVars
<1>2. \A u \in Tasks \ {t} : Same(u) \/ Quit(u)
  BY TellMasterInv
<1>3. /\ handler[t].at = "tell" /\ t \in UpTasks /\ wire[t] = None
      /\ handler[t].nb \in Own(t) /\ handler[t].nb <= part[t]
      /\ handler[t].nb = part[t] => task[t] # "send"
      /\ task[t] \notin {"none", "connect"}
  BY DEF TellMaster, Inv, Sessions, InHandler, NoHandler
<1>4. Typed /\ \A u \in UpTasks : u \in Tasks /\ ToldBy(u)
  BY TaskSets DEF Inv, ToldOnce
<1>5. CASE StorageEnds(Peer(t)) /\ UNCHANGED partAcks
  <2>1. Peer(t) \in Storages
    BY <1>3, UpPeer
  <2>2. \A u \in Tasks : Same(u) \/ Quit(u)
    BY <1>1, <1>4, <1>5, <2>1, StorageEndsTyped
  <2>3. Told' = Told
    BY <1>1, <1>5 DEF Told
  <2>4. \A u \in UpTasks : ToldBy(u)'
    BY <1>4, <2>2, <2>3, AloneTold
  <2>5. QED
    BY <1>1, <1>5, <2>4, DifferentFollows DEF ToldOnce
<1>6. CASE /\ partAcks' = partAcks \cup {[addr |-> Peer(t), nb |-> handler[t].nb]}
           /\ handler' = [handler EXCEPT ![t].at = "ack"]
           /\ UNCHANGED <<conn, wire, storageVars, ended, faults>>
  <2> DEFINE new == [addr |-> Peer(t), nb |-> handler[t].nb]
  <2>1. Told' = Told \cup {new} /\ new.nb = handler[t].nb /\ Untold(handler[t].nb)
    BY <1>1, <1>3, <1>4, <1>6 DEF Told, ToldBy
  <2>2. partAcks' = partAcks \cup {new} /\ UNCHANGED <<wire, task, part, known, listed>>
    BY <1>1, <1>6
  <2>3. handler'[t].at = "ack"
    BY <1>4, <1>6 DEF Typed, Handlers
  <2> HIDE DEF new
  <2>4. ASSUME NEW u \in UpTasks PROVE ToldBy(u)'
    <3>1. CASE u # t
      <4>1. handler[t].nb \notin Own(u)
        BY <1>3, <3>1, Ranges
      <4>2. QED
        BY <1>2, <1>4, <2>1, <3>1, <4>1, AloneTold
    <3>2. CASE u = t
      <4>1. (\A a \in Told : a.nb \in Own(t) => task[t] # "none" /\ a.nb <= part[t])'
        BY <1>3, <1>4, <2>1, <2>2 DEF ToldBy
      <4>2. (task[t] \in {"connect", "send"} => Untold(part[t]))'
        <5>1. task[t] = "send" => Untold(part[t])
          BY <1>3, <1>4 DEF ToldBy
        <5>2. QED
          BY <1>3, <2>1, <2>2, <5>1 DEF Untold
      <4>3. ~At(t, "part")'
        BY <1>3, <2>2 DEF At
      <4>4. ToldBy(t)'
        BY <2>3, <4>1, <4>2, <4>3 DEF ToldBy
      <4>5. QED
        BY <3>2, <4>4
    <3>3. QED
      BY <3>1, <3>2
  <2>5. DifferentParts'
    <3>1. /\ \A a \in partAcks : a.nb # new.nb
          /\ \A i \in DOMAIN known : known[i].nb # new.nb
      BY <2>1 DEF Untold, Told
    <3>2. QED
      BY <2>2, <3>1 DEF ToldOnce, DifferentParts
  <2>6. QED
    BY <2>4, <2>5 DEF ToldOnce
<1>7. QED
  BY <1>5, <1>6 DEF TellMaster

\* The master takes a part_ack, or it is lost.
LEMMA MasterTold ==
    ASSUME Inv, ToldOnce, NEW a \in partAcks, TakePartAck(a) \/ LosePartAck(a)
    PROVE  ToldOnce'
<1>1. (\A u \in Tasks : Same(u)) /\ listed' = listed /\ partAcks' = partAcks \ {a}
  BY MasterInv DEF TakePartAck, LosePartAck, clientVars
<1>2. Told' \subseteq Told /\ DifferentParts'
  <2>1. CASE TakePartAck(a)
    <3>1. known \in Seq(Place) /\ known' = Append(known, a) /\ a \in Place
      BY <2>1 DEF TakePartAck, Inv, Typed
    <3>2. {known'[k] : k \in DOMAIN known'} =
             {known[k] : k \in DOMAIN known} \cup {a}
      BY <3>1, AppendTold
    <3>3. Told' \subseteq Told
      BY <1>1, <3>2 DEF Told
    <3>4. /\ Len(known) \in Nat /\ DOMAIN known = 1 .. Len(known)
          /\ DOMAIN known' = 1 .. Len(known) + 1
          /\ \A i \in 1 .. Len(known) : known'[i] = known[i]
          /\ known'[Len(known) + 1] = a
      BY <3>1
    <3>5. \A i \in DOMAIN known : known[i].nb # a.nb
      BY DEF ToldOnce, DifferentParts
    <3>6. \A i, j \in DOMAIN known' : known'[i].nb = known'[j].nb => i = j
      <4> TAKE i, j \in DOMAIN known'
      <4>1. CASE i \in DOMAIN known /\ j \in DOMAIN known
        BY <3>4, <4>1 DEF ToldOnce, DifferentParts
      <4>2. CASE i \notin DOMAIN known \/ j \notin DOMAIN known
        BY <3>4, <3>5, <4>2
      <4>3. QED
        BY <4>1, <4>2
    <3>7. ASSUME NEW i \in DOMAIN known', NEW b \in partAcks' PROVE b.nb # known'[i].nb
      <4>1. b \in partAcks /\ b # a
        BY <1>1, <3>7
      <4>2. CASE i \in DOMAIN known
        BY <3>4, <4>1, <4>2 DEF ToldOnce, DifferentParts
      <4>3. CASE i \notin DOMAIN known
        <5>1. known'[i] = a
          BY <3>4, <4>3
        <5>2. QED
          BY <4>1, <5>1 DEF ToldOnce, DifferentParts
      <4>4. QED
        BY <4>2, <4>3
    <3>8. \A b, c \in partAcks' : b.nb = c.nb => b = c
      BY <1>1 DEF ToldOnce, DifferentParts
    <3>9. \A i, j \in DOMAIN listed' : listed'[i].nb = listed'[j].nb => i = j
      BY <1>1 DEF ToldOnce, DifferentParts
    <3>10. DifferentParts'
      BY <3>6, <3>7, <3>8, <3>9 DEF DifferentParts
    <3>11. QED
      BY <3>3, <3>10
  <2>2. CASE LosePartAck(a)
    <3>1. known' = known
      BY <2>2 DEF LosePartAck
    <3>2. QED
      BY <1>1, <3>1 DEF Told, ToldOnce, DifferentParts
  <2>3. QED
    BY <2>1, <2>2
<1>3. \A u \in UpTasks : ToldBy(u)'
  BY <1>1, <1>2, TaskSets, AloneTold DEF ToldOnce
<1>4. QED
  BY <1>2, <1>3 DEF ToldOnce

\* No step tells of a part again.
LEMMA ToldOnceNext ==
    ASSUME Inv, ToldOnce, [Next]_vars
    PROVE  ToldOnce'
<1>1. Typed /\ \A u \in UpTasks : u \in Tasks /\ ToldBy(u)
  BY TaskSets DEF Inv, ToldOnce
<1>2. ASSUME UNCHANGED <<partAcks, known>>, listed' = listed \/ listed' = known,
             \A u \in UpTasks : Same(u) \/ Quit(u) \/ ToldBy(u)'
      PROVE  ToldOnce'
  <2>1. Told' = Told
    BY <1>2 DEF Told
  <2>2. \A u \in UpTasks : ToldBy(u)'
    BY <1>1, <1>2, <2>1, AloneTold
  <2>3. QED
    BY <1>2, <2>2, DifferentFollows DEF ToldOnce
<1>3. CASE MainStep
  <2>1. ASSUME UploadEnds \/ DownloadEnds PROVE ToldOnce'
    <3>1. UNCHANGED <<partAcks, known, listed>>
      BY <2>1 DEF UploadEnds, DownloadEnds, masterVars
    <3>2. QED
      BY <1>1, <1>2, <2>1, <3>1, MainMovesInv
  <2>2. ASSUME DownloadBegins PROVE ToldOnce'
    <3>1. /\ \A t \in UpTasks : task'[t] = task[t] /\ part'[t] = part[t]
          /\ UNCHANGED <<conn, wire, handler, partAcks, known>> /\ listed' = known
      BY <2>2, DownloadBeginsIs
    <3>2. QED
      BY <1>2, <3>1 DEF Same
  <2>3. QED
    BY <1>3, <2>1, <2>2, UploadBeginsTold DEF MainStep
<1>4. ASSUME NEW t \in Tasks, ClientStep(t) PROVE ToldOnce'
  <2>1. \A u \in Tasks \ {t} : Same(u)
    BY <1>4, ConnectKeeps, SendKeeps, RecvAckKeeps, RecvPartKeeps DEF ClientStep
  <2>2. UNCHANGED <<partAcks, known, listed>>
    BY <1>4 DEF ClientStep, Connect, Send, RecvAck, RecvPart, clientVars, masterVars
  <2>3. Told' = Told
    BY <2>2 DEF Told
  <2>4. ASSUME t \in UpTasks PROVE ToldBy(t)'
    <3>1. ToldBy(t) /\ t \notin DownTasks
      BY <1>1, <2>4, TaskSets
    <3>2. CASE Connect(t)
      <4>1. /\ task[t] = "connect" /\ task'[t] \in {"send", "failed"}
            /\ UNCHANGED <<part, wire, handler>>
        BY <1>1, <3>2 DEF Connect, Typed
      <4>2. QED
        BY <2>3, <2>4, <3>1, <4>1, ToldFollows DEF At
    <3>3. CASE Send(t)
      <4>1. /\ task[t] = "send" /\ task'[t] = "wait"
            /\ UNCHANGED <<part, handler>>
        BY <1>1, <3>3 DEF Send, Typed
      <4>2. QED
        BY <2>3, <2>4, <3>1, <4>1, ToldFollows
    <3>4. CASE RecvAck(t)
      <4>1. CASE Count(t)
        BY <2>4, <3>1, <3>4, <4>1, CountTold
      <4>2. CASE ~Count(t)
        <5>1. /\ task[t] = "wait" /\ task' = [task EXCEPT ![t] = "failed"]
              /\ UNCHANGED <<part, handler>> /\ wire'[t] = None
          BY <3>4, <4>2, RecvAckIs
        <5>2. task'[t] = "failed"
          BY <1>1, <5>1 DEF Typed
        <5>3. QED
          BY <2>3, <2>4, <3>1, <5>1, <5>2, ToldFollows DEF At
      <4>3. QED
        BY <4>1, <4>2
    <3>5. CASE RecvPart(t)
      BY <3>1, <3>5 DEF RecvPart
    <3>6. QED
      BY <1>4, <3>2, <3>3, <3>4, <3>5 DEF ClientStep
  <2>5. QED
    BY <1>1, <1>2, <2>1, <2>2, <2>4
<1>5. ASSUME NEW t \in Tasks, HandlerStep(t) \/ BreakSession(t), ~TellMaster(t)
      PROVE  ToldOnce'
  <2>1. \A u \in Tasks \ {t} : Same(u) \/ Quit(u)
    BY <1>5, StorePartInv, AckClientInv, HandlerEndsInv, ServePartInv,
       BreakSessionInv DEF HandlerStep
  <2>2. UNCHANGED <<partAcks, known, listed, task, part>>
    BY <1>5 DEF HandlerStep, StorePart, AckClient, CloseFile, ServePart, ServeEnds,
       BreakSession, clientVars, masterVars
  <2>3. Told' = Told
    BY <2>2 DEF Told
  <2>4. ASSUME t \in UpTasks PROVE ToldBy(t)'
    <3>1. ToldBy(t) /\ OnWire(t)
      BY <1>1, <2>4 DEF Inv, Sessions
    <3>2. ASSUME At(t, "part")' => At(t, "part"),
                 handler'[t].at = "tell" =>
                   \/ handler'[t] = handler[t]
                   \/ At(t, "part") /\ handler'[t].nb = part[t]
          PROVE  ToldBy(t)'
      BY <2>2, <2>3, <2>4, <3>1, <3>2, ToldFollows
    <3>3. CASE StorePart(t)
      <4>1. At(t, "part") /\ wire[t].nb = part[t]
        BY <3>1, <3>3 DEF StorePart, OnWire, At
      <4>2. handler'[t] = handler[t] \/ handler'[t] = [at |-> "tell", nb |-> part[t]]
        BY <1>1, <3>3, <4>1 DEF StorePart, Typed
      <4>3. QED
        BY <3>2, <4>1, <4>2
    <3>4. CASE AckClient(t)
      <4>1. handler'[t].at = "close"
        BY <1>1, <3>4 DEF AckClient, Typed, Handlers
      <4>2. wire'[t] = wire[t] \/ wire'[t].kind = "ack"
        BY <1>1, <3>4 DEF AckClient, Typed
      <4>3. QED
        BY <3>2, <4>1, <4>2 DEF At
    <3>5. CASE CloseFile(t) \/ ServeEnds(t)
      <4>1. wire' = wire /\ handler'[t] = NoHandler
        BY <1>1, <3>5 DEF CloseFile, ServeEnds, Typed
      <4>2. QED
        BY <3>2, <4>1 DEF NoHandler, At
    <3>6. CASE ServePart(t)
      BY <2>4, <3>1, <3>6 DEF ServePart, OnWire, At
    <3>7. CASE BreakSession(t)
      <4>1. handler' = handler /\ wire'[t] = None
        BY <1>1, <3>7 DEF BreakSession, Typed
      <4>2. QED
        BY <3>2, <4>1 DEF At
    <3>8. QED
      BY <1>5, <3>3, <3>4, <3>5, <3>6, <3>7 DEF HandlerStep
  <2>5. QED
    BY <1>1, <1>2, <2>1, <2>2, <2>4
<1>6. ASSUME NEW s \in Storages, StorageCrash(s) \/ StorageStart(s) PROVE ToldOnce'
  <2>1. UNCHANGED <<partAcks, known, listed>>
    BY <1>6 DEF StorageCrash, StorageStart, clientVars, masterVars
  <2>2. QED
    BY <1>1, <1>2, <1>6, <2>1, StorageCrashInv, StorageStartInv
<1>7. CASE UNCHANGED vars
  <2>1. UNCHANGED <<partAcks, known, listed, task, part, conn, wire, handler>>
    BY <1>7 DEF vars, clientVars, taskVars, masterVars
  <2>2. QED
    BY <1>2, <2>1 DEF Same
<1>8. QED
  BY <1>3, <1>4, <1>5, <1>6, <1>7, TellMasterTold, MasterTold DEF Next, HandlerStep

\* The initial states.
LEMMA InvariantsInit == Init => Counting /\ Kept /\ ToldOnce
<1> SUFFICES ASSUME Init PROVE Counting /\ Kept /\ ToldOnce
  OBVIOUS
<1>1. Counting
  BY DEF Init, Counting
<1>2. \A t \in UpTasks : task[t] = "none" /\ wire[t] = None /\ handler[t].at = "none"
  BY TaskSets DEF Init, NoHandler
<1>3. Kept
  BY <1>2 DEF Kept, KeptBy, At
<1>4. Told = {} /\ DifferentParts
  BY DEF Init, Told, DifferentParts
<1>5. QED
  BY <1>1, <1>2, <1>3, <1>4 DEF ToldOnce, ToldBy, At

-----------------------------------------------------------------------------
(***************************************************************************)
(* The layout of the parts.                                                 *)
(***************************************************************************)

\* The parts that the float length gives lie within the file and cover it.
Layout == FitParts(Size, NbParts)

\* Every part lies within the file, and ends where the last part ends or before.
LEMMA PartsFit ==
    ASSUME Layout, NEW p \in Parts
    PROVE  LET q == Size \div NbParts
               last == NbParts - 1
           IN  /\ q \in Nat /\ p * q \in Nat /\ p * q = q * p
               /\ last \in Parts /\ p <= last
               /\ Length(p) \in Nat /\ Length(last) \in Nat
               /\ p # last => q <= Length(p)
               /\ p * q + Length(p) <= Size
               /\ p * q + Length(p) <= last * q + Length(last)
<1>1. Size \in Nat /\ NbParts \in Nat \ {0} /\ p \in 0 .. NbParts - 1
  BY TransferAssumption, Ranges DEF Parts
<1>2. FitParts(Size, NbParts)
  BY DEF Layout
<1>3. QED
  BY <1>1, <1>2, PartsWithin DEF Parts, Length

\* Every byte of the file up to the end of the last part is in a part.
LEMMA PartsCover ==
    ASSUME Layout, NbParts > 0, NEW b \in Nat,
           b < (NbParts - 1) * (Size \div NbParts) + Length(NbParts - 1)
    PROVE  \E p \in Parts : /\ p * (Size \div NbParts) <= b
                            /\ b < p * (Size \div NbParts) + Length(p)
<1> DEFINE q == Size \div NbParts
           last == NbParts - 1
<1>1. NbParts \in Nat /\ last \in Parts /\ last \in Nat
  BY Ranges DEF Parts
<1>2. q \in Nat /\ last * q \in Nat /\ Length(last) \in Nat
  BY <1>1, PartsFit
<1>3. CASE last * q <= b
  BY <1>1, <1>3
<1>4. CASE ~(last * q <= b)
  <2>1. q > 0
    <3>1. ASSUME q = 0 PROVE FALSE
      <4>1. last * q = 0
        BY <1>1, <3>1
      <4>2. QED
        BY <1>4, <4>1
    <3> HIDE DEF q
    <3>2. QED
      BY <1>2, <3>1
  <2> DEFINE p == b \div q
  <2>9. \A x \in Parts : x # last => q <= Length(x) /\ Length(x) \in Nat
    BY PartsFit
  <2> HIDE DEF q
  <2>2. p \in Nat /\ b = q * p + (b % q) /\ b % q \in Nat /\ b % q < q
    BY <1>2, <2>1
  <2> HIDE DEF p
  <2>3. q * p \in Nat /\ p * q = q * p /\ q * p <= b /\ b < q * p + q
    BY <1>2, <2>2, Products
  <2>4. p < last
    <3>1. ASSUME last <= p PROVE FALSE
      <4>1. q * last <= q * p /\ last * q = q * last
        BY <1>1, <1>2, <2>2, <3>1, Products
      <4>2. QED
        BY <1>2, <1>4, <2>3, <4>1
    <3>2. QED
      BY <1>1, <2>2, <3>1
  <2>5. p \in Parts
    BY <1>1, <2>2, <2>4 DEF Parts
  <2>6. Length(p) \in Nat /\ q <= Length(p)
    <3>1. p # last
      BY <1>1, <2>2, <2>4
    <3>2. QED
      BY <2>5, <2>9, <3>1
  <2>7. p * q <= b /\ b < p * q + Length(p)
    <3>1. PICK c \in Nat : c = p * q /\ c = q * p
      BY <2>3
    <3>2. c <= b /\ b < c + q
      BY <2>3, <3>1
    <3>3. c <= b /\ b < c + Length(p)
      BY <1>2, <2>6, <3>2
    <3>4. QED
      BY <3>1, <3>3
  <2>8. QED
    BY <2>5, <2>7 DEF q
<1>5. QED
  BY <1>3, <1>4

-----------------------------------------------------------------------------
(***************************************************************************)
(* What is written into the downloaded file.                                *)
(***************************************************************************)

LEMMA OutInit == Init => OutIs
<1> SUFFICES ASSUME Init PROVE OutIs
  OBVIOUS
<1>1. DOMAIN out = {}
  BY DEF Init
<1>2. Arrived = {}
  BY TaskSets DEF Init, Arrived
<1>3. QED
  BY <1>1, <1>2 DEF Init, OutIs

\* A step in which no task gets its part.
LEMMA OutFollows ==
    ASSUME OutIs, UNCHANGED <<out, listed>>,
           main' \in {"downloading", "downloaded", "trapped"} =>
             main \in {"downloading", "downloaded", "trapped"},
           \A t \in DownTasks :
             /\ task'[t] = "done" <=> task[t] = "done"
             /\ task[t] = "done" => part'[t] = part[t]
    PROVE  OutIs'
<1>1. Arrived' = Arrived /\ \A t \in Arrived : part'[t] = part[t]
  BY DEF Arrived
<1>2. \A p : PutAt(p)' = PutAt(p)
  BY DEF PutAt
<1>3. (main \in {"downloading", "downloaded", "trapped"} => listed # <<>>)'
  BY DEF OutIs
<1>4. (DOMAIN out = UNION {Bytes(PutAt(part[t]), Length(part[t])) : t \in Arrived})'
  BY <1>1, <1>2 DEF OutIs
<1>5. (\A b \in DOMAIN out : \E p \in Parts : \E i \in 0 .. Length(p) - 1 :
         b = PutAt(p) + i /\ out[b] = UploadOffset(Size, p, NbParts) + i)'
  BY <1>2 DEF OutIs
<1>6. QED
  BY <1>3, <1>4, <1>5 DEF OutIs

\* The number of parts the master listed changes where every part is put, but
\* nothing is put before it is known.
LEMMA DownloadBeginsOut ==
    ASSUME Inv, OutIs, DownloadBegins
    PROVE  OutIs'
<1>1. /\ main = "uploaded" /\ listed' = known /\ out' = out
      /\ \A t \in DownTasks : task[t] = "none"
      /\ \/ main' = "failed" /\ UNCHANGED task
         \/ /\ main' = "downloading" /\ known # <<>>
            /\ \A t \in DownTasks : task'[t] \in {"connect", "none"}
  BY DownloadBeginsIs
<1>2. Arrived = {} /\ Arrived' = {}
  BY <1>1 DEF Arrived
<1>3. DOMAIN out = {} /\ DOMAIN out' = {}
  BY <1>1, <1>2 DEF OutIs
<1>4. (DOMAIN out = UNION {Bytes(PutAt(part[t]), Length(part[t])) : t \in Arrived})'
  BY <1>2, <1>3
<1>5. QED
  BY <1>1, <1>3, <1>4 DEF OutIs

\* A task gets its part and copies it into the file.
LEMMA ArriveOut ==
    ASSUME Inv, OutIs, Layout, NEW t \in DownTasks, task[t] = "wait", task'[t] = "done",
           \A u \in Tasks \ {t} : task'[u] = task[u],
           out' = Filled(Written(part[t])), UNCHANGED <<main, listed, part>>
    PROVE  OutIs'
<1> DEFINE p == part[t]
           to == PutAt(p)
           new == Bytes(to, Length(p))
<1>1. t \in Tasks /\ main = "downloading" /\ listed # <<>>
  BY TaskSets, WhileDownloading DEF Ended, OutIs
<1>2. p \in Parts
  BY <1>1, PartIsPart DEF Inv, Sessions
<1>3. Arrived' = Arrived \cup {t}
  BY TaskSets DEF Arrived
<1>4. \A x : PutAt(x)' = PutAt(x)
  BY DEF PutAt
<1>5. to \in Nat /\ Length(p) \in Nat
  <2>1. Len(listed) \in Nat /\ Len(listed) # 0
    BY <1>1 DEF Inv, Typed
  <2>2. Size \div Len(listed) \in Nat
    <3>1. PICK n \in Nat \ {0} : n = Len(listed)
      BY <2>1
    <3>2. Size \in Nat
      BY TransferAssumption
    <3>3. Size \div n \in Nat
      BY <3>2
    <3>4. QED
      BY <3>1, <3>3
  <2>3. \A x \in Nat : x * (Size \div Len(listed)) \in Nat
    BY <2>2, Products
  <2>4. to \in Nat
    BY <1>2, <2>3, TaskSets DEF PutAt, DownloadOffset
  <2>5. QED
    BY <1>2, <2>4, PartsFit
<1>6. /\ DOMAIN Written(p) = new
      /\ \A b \in new : Written(p)[b] = UploadOffset(Size, p, NbParts) + (b - to)
  BY DEF Written, PutAt, Length
<1>7. /\ DOMAIN out' = DOMAIN out \cup new
      /\ \A b \in DOMAIN out' : out'[b] = IF b \in new THEN Written(p)[b] ELSE out[b]
  BY <1>6 DEF Filled
<1>8. (DOMAIN out = UNION {Bytes(PutAt(part[u]), Length(part[u])) : u \in Arrived})'
  <2>1. DOMAIN out = UNION {Bytes(PutAt(part[u]), Length(part[u])) : u \in Arrived}
    BY DEF OutIs
  <2>2. \A u \in Tasks : Bytes(PutAt(part[u]), Length(part[u]))' =
                         Bytes(PutAt(part[u]), Length(part[u]))
    BY DEF PutAt
  <2>3. Arrived \subseteq Tasks
    BY TaskSets DEF Arrived
  <2> DEFINE B(u) == Bytes(PutAt(part[u]), Length(part[u]))
  <2>4. \A b : b \in DOMAIN out' <=> \E u \in Arrived' : b \in B(u)'
    BY <1>1, <1>3, <1>7, <2>1, <2>2, <2>3
  <2>5. QED
    BY <2>4
<1>9. ASSUME NEW b \in DOMAIN out'
      PROVE  \E x \in Parts : \E i \in 0 .. Length(x) - 1 :
               b = PutAt(x)' + i /\ out'[b] = UploadOffset(Size, x, NbParts) + i
  <2>1. CASE b \in new
    <3>1. b - to \in 0 .. Length(p) - 1 /\ b = to + (b - to)
      BY <1>5, <2>1 DEF Bytes
    <3>2. out'[b] = UploadOffset(Size, p, NbParts) + (b - to)
      BY <1>6, <1>7, <1>9, <2>1
    <3>3. QED
      BY <1>2, <1>4, <3>1, <3>2
  <2>2. CASE b \notin new
    <3>1. b \in DOMAIN out /\ out'[b] = out[b]
      BY <1>7, <1>9, <2>2
    <3>2. QED
      BY <1>4, <3>1 DEF OutIs
  <2>3. QED
    BY <2>1, <2>2
<1>10. (main \in {"downloading", "downloaded", "trapped"} => listed # <<>>)'
  BY DEF OutIs
<1>11. QED
  BY <1>8, <1>9, <1>10 DEF OutIs

\* Every step keeps what is known of the downloaded file.
LEMMA OutNext ==
    ASSUME Inv, OutIs, Layout, [Next]_vars
    PROVE  OutIs'
<1>1. Typed /\ DownTasks \subseteq Tasks
  BY TaskSets DEF Inv
<1>2. ASSUME UNCHANGED <<main, out, listed, task, part>> PROVE OutIs'
  BY <1>2, OutFollows
<1>3. CASE MainStep
  <2>1. ASSUME UploadBegins PROVE OutIs'
    <3>1. /\ main' = "uploading" /\ UNCHANGED <<listed, out>>
          /\ \A t \in Tasks : task[t] = "none" /\ task'[t] \in {"connect", "none"}
      BY <2>1, UploadBeginsIs
    <3>2. QED
      BY <1>1, <3>1, OutFollows
  <2>2. ASSUME UploadEnds \/ DownloadEnds PROVE OutIs'
    <3>1. /\ main' = "uploaded" \/ main = "downloading"
          /\ UNCHANGED <<listed, out, task, part>>
      BY <2>2 DEF UploadEnds, DownloadEnds, taskVars
    <3>2. QED
      BY <3>1, OutFollows
  <2>3. QED
    BY <1>3, <2>1, <2>2, DownloadBeginsOut DEF MainStep
<1>4. ASSUME NEW t \in Tasks, ClientStep(t) PROVE OutIs'
  <2>1. CASE Connect(t) \/ Send(t)
    <3>1. /\ UNCHANGED <<main, listed, out, part>> /\ task[t] \in {"connect", "send"}
          /\ \E x \in {"send", "wait", "failed"} : task' = [task EXCEPT ![t] = x]
      BY <2>1 DEF Connect, Send, clientVars
    <3>2. QED
      BY <1>1, <3>1, OutFollows DEF Typed
  <2>2. CASE RecvAck(t)
    <3>1. UNCHANGED <<main, listed, out>> /\ t \in UpTasks
      BY <2>2, RecvAckIs
    <3>2. \A u \in Tasks \ {t} : Same(u)
      BY <2>2, RecvAckKeeps
    <3>3. QED
      BY <3>1, <3>2, TaskSets, OutFollows DEF Same
  <2>3. CASE RecvPart(t)
    <3>1. /\ t \in DownTasks /\ task[t] = "wait" /\ UNCHANGED <<main, listed, part>>
          /\ \A u \in Tasks \ {t} : task'[u] = task[u]
          /\ \/ /\ At(t, "data") /\ out' = Filled(Written(wire[t].nb))
                /\ task'[t] = "done"
             \/ task'[t] = "failed" /\ UNCHANGED out
      BY <2>3, RecvPartIs
    <3>2. CASE At(t, "data") /\ out' = Filled(Written(wire[t].nb)) /\ task'[t] = "done"
      <4>1. wire[t].nb = part[t]
        BY <3>2 DEF At, Inv, Sessions, OnWire
      <4>2. QED
        BY <3>1, <3>2, <4>1, ArriveOut
    <3>3. CASE task'[t] = "failed" /\ UNCHANGED out
      BY <1>1, <3>1, <3>3, OutFollows
    <3>4. QED
      BY <3>1, <3>2, <3>3
  <2>4. QED
    BY <1>4, <2>1, <2>2, <2>3 DEF ClientStep
<1>5. ASSUME NEW t \in Tasks, HandlerStep(t) \/ BreakSession(t) PROVE OutIs'
  BY <1>2, <1>5 DEF HandlerStep, StorePart, TellMaster, AckClient, CloseFile,
     ServePart, ServeEnds, BreakSession, clientVars
<1>6. ASSUME NEW s \in Storages, StorageCrash(s) \/ StorageStart(s) PROVE OutIs'
  BY <1>2, <1>6 DEF StorageCrash, StorageStart, clientVars, taskVars
<1>7. ASSUME NEW a \in partAcks, TakePartAck(a) \/ LosePartAck(a) PROVE OutIs'
  BY <1>2, <1>7 DEF TakePartAck, LosePartAck, clientVars, taskVars
<1>8. CASE UNCHANGED vars
  BY <1>2, <1>8 DEF vars, clientVars, taskVars
<1>9. QED
  BY <1>3, <1>4, <1>5, <1>6, <1>7, <1>8 DEF Next

-----------------------------------------------------------------------------
(***************************************************************************)
(* What the client reports.                                                 *)
(***************************************************************************)

\* A part that was not given up and whose session held was counted, and so stored.
LEMMA UploadReported ==
    ASSUME Inv, Counting, Kept
    PROVE  UploadReport
<1> SUFFICES ASSUME main \in {"uploaded", "downloading", "downloaded", "trapped"}
             PROVE  /\ Cardinality(LostParts) <= 1
                    /\ \A t \in UpTasks : \A p \in BeginId(t) .. EndId(t) - 1 :
                         \/ p \in LostParts \/ conn[t] = "broken"
                         \/ p \in disk[Peer(t)] \/ Peer(t) \in ended
  BY DEF UploadReport
<1>1. Cardinality(LostParts) <= 1
  BY DEF Counting
<1>2. ASSUME NEW t \in UpTasks, NEW p \in Own(t)
      PROVE  \/ p \in LostParts \/ conn[t] = "broken"
             \/ p \in disk[Peer(t)] \/ Peer(t) \in ended
  <2>1. t \in Tasks /\ task[t] \in {"done", "failed"} /\ KeptBy(t)
        /\ Peer(t) = Fields[t].addr
    BY TaskSets, UpPeer DEF Inv, Phases, Kept
  <2>2. part[t] \in Own(t) /\ part[t] \in Int /\ p \in Int
        /\ p <= EndId(t) - 1 /\ EndId(t) \in Int
    BY <2>1, Ranges DEF Inv, Sessions, AtPart, Own
  <2>3. CASE Passed(t, p)
    BY <2>1, <2>3 DEF KeptBy, Stored
  <2>4. CASE ~Passed(t, p)
    <3>1. task[t] = "failed" /\ p \in part[t] .. EndId(t) - 1
      BY <2>1, <2>2, <2>4 DEF Passed
    <3>2. QED
      BY <3>1 DEF LostParts
  <2>5. QED
    BY <2>3, <2>4
<1>3. QED
  BY <1>1, <1>2 DEF Own

\* With all parts listed, client and master cut the file at the same places.
LEMMA BytesRight ==
    ASSUME Layout, OutIs
    PROVE  BytesAreRight
<1> SUFFICES ASSUME Len(listed) = NbParts, NEW b \in DOMAIN out
             PROVE  out[b] = b /\ b < Size
  BY DEF BytesAreRight
<1> DEFINE q == Size \div NbParts
<1>1. PICK p \in Parts : \E i \in 0 .. Length(p) - 1 :
        b = PutAt(p) + i /\ out[b] = UploadOffset(Size, p, NbParts) + i
  BY DEF OutIs
<1>2. PICK i \in 0 .. Length(p) - 1 :
        b = PutAt(p) + i /\ out[b] = UploadOffset(Size, p, NbParts) + i
  BY <1>1
<1>3. PutAt(p) = p * q /\ UploadOffset(Size, p, NbParts) = q * p
  BY DEF PutAt, DownloadOffset, UploadOffset
<1>4. /\ p * q \in Nat /\ p * q = q * p
      /\ Length(p) \in Nat /\ p * q + Length(p) <= Size
  BY PartsFit
<1> HIDE DEF q
<1>5. PICK c \in Nat : c = p * q /\ c = q * p
  BY <1>4
<1>6. b = c + i /\ out[b] = c + i /\ c + Length(p) <= Size
  BY <1>2, <1>3, <1>4, <1>5
<1>7. i \in Int /\ i <= Length(p) - 1 /\ Length(p) \in Nat /\ Size \in Nat
  BY <1>2, <1>4, TransferAssumption
<1>8. QED
  BY <1>6, <1>7

\* At most one task of a download that is over has failed.
LEMMA OneFailed ==
    ASSUME Counting, main \in {"downloaded", "trapped"}, Len(listed) = NbParts
    PROVE  Cardinality(FailedDownloads) <= 1
<1>1. progress = 1 + Cardinality(Arrived) /\ progress >= NbParts
  BY DEF Counting
<1>2. /\ IsFiniteSet(DownTasks \ Arrived)
      /\ Cardinality(DownTasks \ Arrived) = NbParts - Cardinality(DownTasks \cap Arrived)
  BY PartsFinite, FS_Difference
<1>3. DownTasks \cap Arrived = Arrived
  BY DEF Arrived
<1>4. Cardinality(DownTasks \ Arrived) <= 1
  <2>1. PICK c \in Nat : c = Cardinality(Arrived)
    BY CountsFinite
  <2>2. Cardinality(DownTasks \ Arrived) = NbParts - c
    BY <1>2, <1>3, <2>1
  <2>3. QED
    BY <1>1, <2>1, <2>2, Ranges
<1>5. FailedDownloads \in SUBSET (DownTasks \ Arrived)
  BY DEF FailedDownloads, Arrived
<1>6. /\ IsFiniteSet(FailedDownloads)
      /\ Cardinality(FailedDownloads) <= Cardinality(DownTasks \ Arrived)
  BY <1>2, <1>5, FS_Subset
<1>7. /\ Cardinality(FailedDownloads) \in Nat
      /\ Cardinality(DownTasks \ Arrived) \in Nat
  BY <1>2, <1>6, FS_CardinalityType
<1>8. QED
  BY <1>4, <1>6, <1>7

\* A list of all parts has every part.
LEMMA AllListed ==
    ASSUME Typed, DifferentParts, Len(listed) = NbParts, NEW p \in Parts
    PROVE  \E i \in DOMAIN listed : listed[i].nb = p
<1> DEFINE f == [i \in DOMAIN listed |-> listed[i].nb]
<1>1. DOMAIN listed = 1 .. NbParts
  BY DEF Typed
<1>2. \A i \in DOMAIN listed : listed[i].nb \in Parts
  <2>1. \A i \in DOMAIN listed : listed[i] \in Place
    BY ElementOf DEF Typed
  <2>2. QED
    BY <2>1 DEF Place
<1>3. f \in [DOMAIN listed -> Parts]
  BY <1>2
<1>4. \A i, j \in DOMAIN listed : f[i] = f[j] => i = j
  BY DEF DifferentParts
<1>5. f \in Injection(DOMAIN listed, Parts)
  BY <1>3, <1>4 DEF Injection, IsInjective
<1>6. Cardinality(DOMAIN listed) = Cardinality(Parts)
  <2>1. Cardinality(1 .. NbParts) = NbParts
    BY FS_Interval, Ranges
  <2>2. QED
    BY <1>1, <2>1, PartsFinite
<1> HIDE DEF f
<1>7. f \in Surjection(DOMAIN listed, Parts)
  BY <1>5, <1>6, PartsFinite, FS_Injection
<1>8. PICK i \in DOMAIN listed : f[i] = p
  BY <1>7 DEF Surjection
<1>9. QED
  BY <1>8 DEF f

\* The parts of a download without a failed task cover the file to the end of the last.
LEMMA DownloadReported ==
    ASSUME Layout, Inv, Counting, ToldOnce, OutIs
    PROVE  DownloadReport
<1> DEFINE q == Size \div NbParts
           last == NbParts - 1
<1> SUFFICES ASSUME main \in {"downloaded", "trapped"}, Len(listed) = NbParts
             PROVE  /\ Cardinality(FailedDownloads) <= 1
                    /\ FailedDownloads = {} =>
                         DOMAIN out = 0 .. UploadOffset(Size, last, NbParts)
                                            + PartSize(Size, last, NbParts) - 1
  BY DEF DownloadReport
<1>1. Cardinality(FailedDownloads) <= 1
  BY OneFailed
<1>2. NbParts \in Nat /\ NbParts > 0 /\ last \in Parts
  <2>1. listed # <<>> /\ listed \in Seq(Place)
    BY DEF OutIs, Inv, Typed
  <2>2. Len(listed) # 0 /\ Len(listed) \in Nat
    BY <2>1
  <2>3. QED
    BY <2>2 DEF Parts
<1>3. /\ q \in Nat /\ last * q \in Nat /\ last * q = q * last /\ Length(last) \in Nat
      /\ \A p \in Parts : /\ p * q \in Nat /\ Length(p) \in Nat
                          /\ p * q + Length(p) <= last * q + Length(last)
  BY <1>2, PartsFit
<1>4. UploadOffset(Size, last, NbParts) = q * last
      /\ PartSize(Size, last, NbParts) = Length(last)
      /\ \A p \in Parts : PutAt(p) = p * q
  BY DEF UploadOffset, Length, PutAt, DownloadOffset
<1>5. ASSUME FailedDownloads = {}
      PROVE  DOMAIN out = 0 .. q * last + Length(last) - 1
  <2>1. \A t \in DownTasks : task[t] = "done"
    <3>1. \A t \in DownTasks : Ended(t) /\ (t - NbParts \in DOMAIN listed => task[t] # "none")
      BY DEF Inv, Phases
    <3>2. \A t \in DownTasks : t - NbParts \in DOMAIN listed
      <4>1. DOMAIN listed = 1 .. NbParts
        BY DEF Inv, Typed
      <4>2. QED
        BY <1>2, <4>1 DEF DownTasks
    <3>3. QED
      BY <1>5, <3>1, <3>2 DEF Ended, FailedDownloads
  <2>2. Arrived = DownTasks
    BY <2>1 DEF Arrived
  <2>3. \A t \in DownTasks : part[t] = listed[t - NbParts].nb /\ part[t] \in Parts
    BY <2>1, TaskSets, PartIsPart DEF Inv, Sessions, AtPart
  <2>4. \A p \in Parts : \E t \in DownTasks : part[t] = p
    <3> TAKE p \in Parts
    <3>1. PICK i \in DOMAIN listed : listed[i].nb = p
      BY AllListed DEF Inv, ToldOnce
    <3>2. i \in 1 .. NbParts
      BY DEF Inv, Typed
    <3>3. i + NbParts \in DownTasks /\ (i + NbParts) - NbParts = i
      BY <1>2, <3>2 DEF DownTasks
    <3>4. QED
      BY <2>3, <3>1, <3>3
  <2>5. DOMAIN out = UNION {Bytes(p * q, Length(p)) : p \in Parts}
    <3>1. DOMAIN out = UNION {Bytes(PutAt(part[t]), Length(part[t])) : t \in DownTasks}
      BY <2>2 DEF OutIs
    <3>2. \A t \in DownTasks : PutAt(part[t]) = part[t] * q
      BY <1>4, <2>3
    <3> HIDE DEF q
    <3>3. QED
      BY <2>3, <2>4, <3>1, <3>2
  <2>6. \A b \in DOMAIN out : b \in 0 .. q * last + Length(last) - 1
    <3> TAKE b \in DOMAIN out
    <3>1. PICK p \in Parts : b \in p * q .. p * q + Length(p) - 1
      BY <2>5 DEF Bytes
    <3> HIDE DEF q, last
    <3>2. PICK c \in Nat : c = p * q
      BY <1>3
    <3>3. PICK d \in Nat : d = last * q /\ d = q * last
      BY <1>3
    <3>4. c + Length(p) <= d + Length(last) /\ Length(p) \in Nat /\ Length(last) \in Nat
      BY <1>3, <3>2, <3>3
    <3>5. b \in 0 .. d + Length(last) - 1
      BY <3>1, <3>2, <3>4
    <3>6. QED
      BY <3>3, <3>5
  <2>7. \A b \in 0 .. q * last + Length(last) - 1 : b \in DOMAIN out
    <3> TAKE b \in 0 .. q * last + Length(last) - 1
    <3>1. b \in Nat /\ b < last * q + Length(last)
      <4> HIDE DEF q, last
      <4>1. PICK d \in Nat : d = last * q /\ d = q * last
        BY <1>3
      <4>2. b \in 0 .. d + Length(last) - 1
        BY <4>1
      <4>3. QED
        BY <1>3, <4>1, <4>2
    <3>2. PICK p \in Parts : p * q <= b /\ b < p * q + Length(p)
      BY <1>2, <3>1, PartsCover
    <3> HIDE DEF q
    <3>3. PICK c \in Nat : c = p * q
      BY <1>3
    <3>4. b \in c .. c + Length(p) - 1
      BY <1>3, <3>1, <3>2, <3>3
    <3>5. QED
      BY <2>5, <3>3, <3>4 DEF Bytes
  <2>8. QED
    BY <2>6, <2>7
<1>6. QED
  BY <1>1, <1>4, <1>5

\* progress_ is at most one more than the parts, and every byte of the downloaded
\* file is one of the uploaded file.
LEMMA TypesFollow ==
    ASSUME Layout, Inv, Counting, OutIs
    PROVE  TypeOK
<1>1. progress \in 0 .. NbParts + 1
  <2>1. main \in Mains /\ NbParts \in Nat
    BY Ranges DEF Inv, Typed
  <2>2. \/ progress = 0
        \/ progress = 1 + Cardinality(Counted)
        \/ progress = 1 + Cardinality(Arrived)
    BY <2>1 DEF Counting, Mains
  <2>3. QED
    BY <2>1, <2>2, CountsFinite
<1>2. \A b \in DOMAIN out : b \in Nat /\ out[b] \in 0 .. Size - 1
  <2> TAKE b \in DOMAIN out
  <2>1. PICK p \in Parts : \E i \in 0 .. Length(p) - 1 :
          b = PutAt(p) + i /\ out[b] = UploadOffset(Size, p, NbParts) + i
    BY DEF OutIs
  <2>2. PICK i \in 0 .. Length(p) - 1 :
          b = PutAt(p) + i /\ out[b] = UploadOffset(Size, p, NbParts) + i
    BY <2>1
  <2>3. PutAt(p) \in Nat
    <3>1. \E t \in DownTasks : task[t] # "none"
      <4>1. b \in UNION {Bytes(PutAt(part[t]), Length(part[t])) : t \in Arrived}
        BY DEF OutIs
      <4>2. QED
        BY <4>1 DEF Arrived
    <3>2. Len(listed) # 0 /\ Len(listed) \in Nat
      BY <3>1, TaskSets DEF Inv, Sessions, AtPart, Typed
    <3>3. PICK n \in Nat \ {0} : n = Len(listed)
      BY <3>2
    <3>4. Size \div n \in Nat
      BY TransferAssumption
    <3>5. p * (Size \div n) \in Nat
      BY <3>4, TaskSets, Products
    <3>6. QED
      BY <3>3, <3>5 DEF PutAt, DownloadOffset
  <2> DEFINE q == Size \div NbParts
  <2>4. UploadOffset(Size, p, NbParts) = q * p
    BY DEF UploadOffset
  <2>5. p * q \in Nat /\ p * q = q * p /\ Length(p) \in Nat /\ p * q + Length(p) <= Size
    BY PartsFit
  <2> HIDE DEF q
  <2>6. PICK c \in Nat : c = p * q /\ c = q * p
    BY <2>5
  <2>7. i \in Nat /\ i <= Length(p) - 1 /\ Size \in Nat
    BY <2>2, <2>5, TransferAssumption
  <2>8. out[b] = c + i /\ c + Length(p) <= Size /\ b = PutAt(p) + i
    BY <2>2, <2>4, <2>5, <2>6
  <2>9. QED
    BY <2>3, <2>5, <2>7, <2>8
<1>3. \A t \in Tasks : task[t] # "none" => part[t] \in Parts
  BY PartIsPart DEF Inv, Sessions
<1>4. QED
  BY <1>1, <1>2, <1>3 DEF TypeOK, Inv, Typed, Mains, TaskStates, Handlers, Place

-----------------------------------------------------------------------------
\* All invariants that need no layout.
LEMMA AllInvariants ==
    Spec => [](Inv /\ Counting /\ Kept /\ ToldOnce)
<1> DEFINE All == Inv /\ StoredBeforeTold /\ Counting /\ Kept /\ ToldOnce
<1>1. Init => All
  BY InvInit, StoredInit, InvariantsInit
<1>2. All /\ [Next]_vars => All'
  BY InvNext, StoredNext, CountingNext, KeptNext, ToldOnceNext
<1>3. All => Inv /\ Counting /\ Kept /\ ToldOnce
  OBVIOUS
<1> HIDE DEF All
<1>4. QED
  BY <1>1, <1>2, <1>3, PTL DEF Spec

\* What is known of the downloaded file is an invariant.
LEMMA OutInvariant ==
    ASSUME Layout
    PROVE  Spec => [](OutIs)
<1>1. Inv /\ OutIs /\ [Next]_vars => OutIs'
  BY OutNext
<1>2. Inv /\ Counting /\ Kept /\ ToldOnce => Inv
  OBVIOUS
<1>3. QED
  BY <1>1, <1>2, OutInit, AllInvariants, PTL DEF Spec

\* The variables stay in the sets the declarations of the code give them: progress_ is
\* never above the number of parts by more than one, no task works on a part outside
\* its range, and no byte that is written comes from outside the file.
THEOREM TypeCorrect ==
    ASSUME Layout
    PROVE  Spec => []TypeOK
<1>1. Inv /\ Counting /\ Kept /\ ToldOnce /\ OutIs => TypeOK
  BY TypesFollow
<1>2. QED
  BY <1>1, OutInvariant, AllInvariants, PTL

\* "Upload took" is said only when at most one part was given up and every other part
\* that went over a session that held is in the files of its storage, whatever sessions
\* break, storages crash and part_acks are lost: request_upload waits for progress_ and
\* then for every future.
THEOREM UploadIsReported == Spec => []UploadReport
<1>1. Inv /\ Counting /\ Kept /\ ToldOnce => UploadReport
  BY UploadReported
<1>2. QED
  BY <1>1, AllInvariants, PTL

\* recv_part puts every byte where it was taken from, in whatever order the tasks write
\* and although neighbouring parts may overlap, if the master listed every part.
THEOREM DownloadedBytes ==
    ASSUME Layout
    PROVE  Spec => []BytesAreRight
<1>1. OutIs => BytesAreRight
  BY BytesRight
<1>2. QED
  BY <1>1, OutInvariant, PTL

\* A download that is over has at most one failed task, and without one its file is
\* written without a hole to the end of the last part.
THEOREM DownloadIsReported ==
    ASSUME Layout
    PROVE  Spec => []DownloadReport
<1>1. Inv /\ Counting /\ Kept /\ ToldOnce /\ OutIs => DownloadReport
  BY DownloadReported
<1>2. QED
  BY <1>1, OutInvariant, AllInvariants, PTL
=============================================================================
