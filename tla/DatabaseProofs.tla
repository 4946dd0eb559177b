--------------------------- MODULE DatabaseProofs ----------------------------
(***************************************************************************)
(* Proofs about modules Data and Database, for any slots, any number of   *)
(* transactions in a block, any outputs and keys of any size: bytes and    *)
(* their order, transactions of calls, and what a consumer gets.           *)
(***************************************************************************)
EXTENDS Database, FiniteSetTheorems, WellFoundedInduction, TLAPS

-----------------------------------------------------------------------------
\* Induction, for a set of numbers.

LEMMA AllNumbers ==
  ASSUME NEW T \in SUBSET Nat, 0 \in T, \A n \in T : n + 1 \in T
  PROVE  T = Nat
<1> SUFFICES ASSUME Nat \ T # {}
             PROVE  FALSE
  OBVIOUS
<1>1. PICK n \in Nat \ T : \A m \in Nat \ T : ~(<<m, n>> \in OpToRel(<, Nat))
  BY WFMin, NatLessThanWellFounded
<1>2. n # 0 /\ n - 1 \in Nat
  OBVIOUS
<1>3. <<n - 1, n>> \in OpToRel(<, Nat)
  BY <1>2 DEF OpToRel
<1>4. n - 1 \in T
  BY <1>1, <1>2, <1>3
<1>5. (n - 1) + 1 = n
  OBVIOUS
<1>6. QED
  BY <1>4, <1>5

-----------------------------------------------------------------------------
\* The powers of Base.

\* The first n of them, and one more.
IsPower(g, n) == g = [i \in 0..n |-> IF i = 0 THEN 1 ELSE Base * g[i - 1]]

LEMMA PowersAgree ==
  ASSUME NEW g, NEW h, NEW n \in Nat, NEW m \in Nat, IsPower(g, n), IsPower(h, m), n <= m
  PROVE  \A i \in 0..n : g[i] = h[i]
<1> DEFINE T == {i \in Nat : i <= n => g[i] = h[i]}
<1>1. 0 \in T
  BY DEF IsPower
<1>2. ASSUME NEW i \in T
      PROVE  i + 1 \in T
  <2> SUFFICES ASSUME i + 1 <= n
               PROVE  g[i + 1] = h[i + 1]
    OBVIOUS
  <2>1. g[i] = h[i]
    OBVIOUS
  <2>2. PICK k \in 1..n : k = i + 1 /\ k - 1 = i
    OBVIOUS
  <2>3. k \in 0..n /\ k \in 0..m /\ k # 0
    OBVIOUS
  <2>4. g[k] = Base * g[k - 1]
    BY <2>3 DEF IsPower
  <2>5. h[k] = Base * h[k - 1]
    BY <2>3 DEF IsPower
  <2>6. QED
    BY <2>1, <2>2, <2>4, <2>5
<1>3. T = Nat
  <2> HIDE DEF T
  <2>1. T \in SUBSET Nat
    BY DEF T
  <2>2. QED
    BY <1>1, <1>2, <2>1, AllNumbers
<1>4. QED
  BY <1>3

LEMMA PowersExist ==
  ASSUME NEW n \in Nat
  PROVE  \E g : IsPower(g, n)
<1> DEFINE T == {k \in Nat : \E g : IsPower(g, k)}
<1>1. 0 \in T
  <2> DEFINE g == [i \in 0..0 |-> 1]
  <2>1. g = [i \in 0..0 |-> IF i = 0 THEN 1 ELSE Base * g[i - 1]]
    OBVIOUS
  <2>2. QED
    BY <2>1 DEF IsPower
<1>2. ASSUME NEW k \in T
      PROVE  k + 1 \in T
  <2>1. PICK g : IsPower(g, k)
    OBVIOUS
  <2>2. PICK h : h = [i \in 0..(k + 1) |-> IF i = 0 THEN 1 ELSE Base * g[i - 1]]
    OBVIOUS
  <2>3. ASSUME NEW i \in 0..k
        PROVE  h[i] = g[i]
    <3>1. i \in 0..(k + 1)
      OBVIOUS
    <3>2. QED
      BY <2>1, <2>2, <3>1 DEF IsPower
  <2>4. ASSUME NEW i \in 0..(k + 1), i # 0
        PROVE  g[i - 1] = h[i - 1]
    <3>1. i - 1 \in 0..k
      BY <2>4
    <3>2. QED
      BY <2>3, <3>1
  <2>5. h = [i \in 0..(k + 1) |-> IF i = 0 THEN 1 ELSE Base * h[i - 1]]
    BY <2>2, <2>4
  <2>6. QED
    BY <2>5 DEF IsPower
<1>3. T = Nat
  <2> HIDE DEF T
  <2>1. T \in SUBSET Nat
    BY DEF T
  <2>2. QED
    BY <1>1, <1>2, <2>1, AllNumbers
<1>4. QED
  BY <1>3

\* Power is what its recursive definition says.
LEMMA PowerDefined ==
  Power = [n \in Nat |-> IF n = 0 THEN 1 ELSE Base * Power[n - 1]]
<1> DEFINE G(n) == CHOOSE g : IsPower(g, n)
           p == [n \in Nat |-> G(n)[n]]
<1>1. \A n \in Nat : IsPower(G(n), n)
  BY PowersExist
<1>2. ASSUME NEW n \in Nat
      PROVE  p[n] = IF n = 0 THEN 1 ELSE Base * p[n - 1]
  <2>1. IsPower(G(n), n)
    BY <1>1
  <2> HIDE DEF G
  <2>2. G(n)[n] = IF n = 0 THEN 1 ELSE Base * G(n)[n - 1]
    BY <2>1 DEF IsPower
  <2>3. CASE n = 0
    BY <2>2, <2>3
  <2>4. CASE n # 0
    <3>1. n - 1 \in Nat /\ n - 1 <= n /\ n - 1 \in 0..(n - 1)
      BY <2>4
    <3>2. IsPower(G(n - 1), n - 1)
      BY <1>1, <3>1
    <3>3. G(n)[n - 1] = G(n - 1)[n - 1]
      BY <2>1, <3>1, <3>2, PowersAgree
    <3>4. p[n - 1] = G(n - 1)[n - 1]
      BY <3>1
    <3>5. QED
      BY <2>2, <2>4, <3>3, <3>4
  <2>5. QED
    BY <2>3, <2>4
<1> HIDE DEF G
<1>3. p = [n \in Nat |-> IF n = 0 THEN 1 ELSE Base * p[n - 1]]
  BY <1>2
<1>4. \E q : q = [n \in Nat |-> IF n = 0 THEN 1 ELSE Base * q[n - 1]]
  <2> HIDE DEF p
  <2>1. QED
    BY <1>3
<1>5. QED
  BY <1>4 DEF Power

LEMMA BaseNumber == Base \in Nat /\ Base > 1
  BY DataAssumption

LEMMA Powers ==
  /\ Power[0] = 1
  /\ \A n \in Nat : Power[n + 1] = Base * Power[n]
  /\ \A n \in Nat : Power[n] \in Nat /\ Power[n] > 0
<1> DEFINE P == Power
<1>1. P[0] = 1
  BY PowerDefined
<1>2. ASSUME NEW n \in Nat
      PROVE  P[n + 1] = Base * P[n]
  <2>1. n + 1 \in Nat /\ n + 1 # 0 /\ (n + 1) - 1 = n
    OBVIOUS
  <2>2. QED
    BY <2>1, PowerDefined
<1> DEFINE T == {n \in Nat : P[n] \in Nat /\ P[n] > 0}
<1>3. ASSUME NEW n \in T
      PROVE  n + 1 \in T
  <2>1. PICK q : q = P[n]
    OBVIOUS
  <2>2. q \in Nat /\ q > 0 /\ Base * q \in Nat /\ Base * q > 0
    BY <2>1, BaseNumber
  <2>3. QED
    BY <1>2, <2>1, <2>2
<1>4. T = Nat
  <2>1. 0 \in T
    BY <1>1
  <2> HIDE DEF T
  <2>2. T \in SUBSET Nat
    BY DEF T
  <2>3. QED
    BY <1>3, <2>1, <2>2, AllNumbers
<1>5. QED
  BY <1>1, <1>2, <1>4

-----------------------------------------------------------------------------
\* Quotients.

LEMMA Products ==
  ASSUME NEW a \in Nat, NEW b \in Nat, NEW c \in Nat, b <= c
  PROVE  a * b \in Nat /\ a * c \in Nat /\ a * b <= a * c
<1>1. PICK d \in Nat : c = b + d
  <2>1. c - b \in Nat /\ c = b + (c - b)
    OBVIOUS
  <2>2. QED
    BY <2>1
<1>2. a * c = a * b + a * d /\ a * d \in Nat /\ a * b \in Nat
  BY <1>1
<1>3. QED
  BY <1>2

LEMMA Quotient ==
  ASSUME NEW n \in Nat, NEW a \in Nat, a > 0
  PROVE  /\ n \div a \in Nat /\ n % a \in Nat /\ n % a < a
         /\ n = a * (n \div a) + (n % a)
<1>1. a \in Nat \ {0}
  OBVIOUS
<1>2. /\ n = a * (n \div a) + (n % a)
      /\ n % a \in 0..(a - 1)
      /\ n \div a \in Nat
  BY <1>1
<1>3. QED
  BY <1>2

LEMMA QuotientIsOne ==
  ASSUME NEW a \in Nat, NEW q \in Nat, NEW p \in Nat, NEW r \in Nat, NEW s \in Nat,
         r < a, s < a, a * q + r = a * p + s
  PROVE  q = p
<1>1. ASSUME NEW x \in Nat, NEW y \in Nat, NEW u \in Nat, NEW v \in Nat,
             u < a, v < a, a * x + u = a * y + v, x < y
      PROVE  FALSE
  <2>1. x + 1 <= y /\ x + 1 \in Nat
    BY <1>1
  <2>2. a * (x + 1) <= a * y
    BY <2>1, Products
  <2>3. a * (x + 1) = a * x + a
    OBVIOUS
  <2>4. a * x \in Nat /\ a * y \in Nat
    OBVIOUS
  <2>5. QED
    BY <1>1, <2>2, <2>3, <2>4
<1>2. ~(q < p)
  BY <1>1
<1>3. ~(p < q)
  BY <1>1
<1>4. QED
  BY <1>2, <1>3

LEMMA QuotientGrows ==
  ASSUME NEW m \in Nat, NEW n \in Nat, NEW a \in Nat, a > 0, m \div a < n \div a
  PROVE  m < n
<1>1. /\ m \div a \in Nat /\ m % a \in Nat /\ m % a < a
      /\ m = a * (m \div a) + (m % a)
  BY Quotient
<1>2. /\ n \div a \in Nat /\ n % a \in Nat
      /\ n = a * (n \div a) + (n % a)
  BY Quotient
<1>3. PICK p \in Nat, q \in Nat : p = m \div a /\ q = n \div a /\ p + 1 <= q
  BY <1>1, <1>2
<1>4. a * (p + 1) <= a * q /\ a * p \in Nat /\ a * q \in Nat
  <2>1. p + 1 \in Nat
    OBVIOUS
  <2>2. QED
    BY <1>3, <2>1, Products
<1>5. a * (p + 1) = a * p + a
  OBVIOUS
<1>6. m < a * q
  BY <1>1, <1>3, <1>4, <1>5
<1>7. a * q <= n
  BY <1>2, <1>3, <1>4
<1>8. QED
  BY <1>4, <1>6, <1>7

LEMMA QuotientTwice ==
  ASSUME NEW n \in Nat, NEW a \in Nat, NEW b \in Nat, a > 0, b > 0
  PROVE  (n \div a) \div b = n \div (b * a)
<1>1. PICK q \in Nat, r \in Nat : q = n \div a /\ r < a /\ n = a * q + r
  BY Quotient
<1>2. PICK s \in Nat, t \in Nat : s = q \div b /\ t + 1 <= b /\ q = b * s + t
  <2>1. /\ q \div b \in Nat /\ q % b \in Nat /\ q % b < b
        /\ q = b * (q \div b) + (q % b)
    BY Quotient
  <2>2. QED
    BY <2>1
<1>3. PICK c \in Nat : c = b * a /\ c > 0
  <2>1. a * 1 <= a * b
    BY Products
  <2>2. b * a \in Nat /\ b * a = a * b
    OBVIOUS
  <2>3. QED
    BY <2>1, <2>2
<1>4. a * (t + 1) <= a * b /\ a * t \in Nat
  BY <1>2, Products
<1>5. a * (t + 1) = a * t + a /\ a * b = c
  BY <1>3
<1>6. a * t + r \in Nat /\ a * t + r < c
  BY <1>1, <1>4, <1>5
<1>7. a * q = c * s + a * t
  <2>1. a * q = a * (b * s + t)
    BY <1>2
  <2>2. a * (b * s + t) = a * (b * s) + a * t
    OBVIOUS
  <2>3. a * (b * s) = (b * a) * s
    OBVIOUS
  <2>4. QED
    BY <1>3, <2>1, <2>2, <2>3
<1>8. n = c * s + (a * t + r)
  <2>1. c * s \in Nat
    OBVIOUS
  <2>2. QED
    BY <1>1, <1>4, <1>7, <2>1
<1>9. n \div c \in Nat /\ n % c \in Nat /\ n % c < c /\ n = c * (n \div c) + (n % c)
  BY <1>3, Quotient
<1>10. s = n \div c
  <2>1. c * s + (a * t + r) = c * (n \div c) + (n % c)
    BY <1>8, <1>9
  <2>2. QED
    BY <2>1, <1>6, <1>9, QuotientIsOne
<1>11. QED
  BY <1>1, <1>2, <1>3, <1>10

-----------------------------------------------------------------------------
\* Digits.

\* What the first i bytes of a number stand for.
Top(n, width, i) == n \div Power[width - i]

LEMMA Digits ==
  ASSUME NEW n \in Nat, NEW width \in Nat
  PROVE  /\ BigEndian(n, width) \in [1..width -> 0..(Base - 1)]
         /\ \A i \in 0..width : Top(n, width, i) \in Nat
         /\ Top(n, width, width) = n
         /\ n < Power[width] => Top(n, width, 0) = 0
         /\ \A i \in 1..width :
              Top(n, width, i) = Base * Top(n, width, i - 1) + BigEndian(n, width)[i]
<1>1. ASSUME NEW i \in 0..width
      PROVE  Power[width - i] \in Nat /\ Power[width - i] > 0 /\ Top(n, width, i) \in Nat
  <2>1. width - i \in Nat
    OBVIOUS
  <2>2. Power[width - i] \in Nat /\ Power[width - i] > 0
    BY <2>1, Powers
  <2>3. QED
    BY <2>2, Quotient DEF Top
<1>2. ASSUME NEW i \in 1..width
      PROVE  /\ BigEndian(n, width)[i] = Top(n, width, i) % Base
             /\ BigEndian(n, width)[i] \in 0..(Base - 1)
  <2>1. BigEndian(n, width)[i] = Top(n, width, i) % Base
    BY DEF BigEndian, Top
  <2>2. Top(n, width, i) \in Nat
    BY <1>1
  <2>3. QED
    BY <2>1, <2>2, BaseNumber
<1>3. BigEndian(n, width) \in [1..width -> 0..(Base - 1)]
  <2>1. BigEndian(n, width) = [i \in 1..width |-> BigEndian(n, width)[i]]
    BY DEF BigEndian
  <2>2. QED
    BY <1>2, <2>1
<1>4. Top(n, width, width) = n
  <2>1. width - width = 0
    OBVIOUS
  <2>2. n \div 1 = n
    OBVIOUS
  <2>3. QED
    BY <2>1, <2>2, Powers DEF Top
<1>5. ASSUME n < Power[width]
      PROVE  Top(n, width, 0) = 0
  <2>1. PICK p \in Nat : p = Power[width] /\ p > 0
    BY Powers
  <2>2. width - 0 = width
    OBVIOUS
  <2>3. Top(n, width, 0) = n \div p
    BY <2>1, <2>2 DEF Top
  <2>4. n < p
    BY <1>5, <2>1
  <2>5. n \div p \in Nat /\ n % p \in Nat /\ n % p < p /\ n = p * (n \div p) + (n % p)
    BY <2>1, Quotient
  <2>6. p * (n \div p) + (n % p) = p * 0 + n
    BY <2>5
  <2>7. n \div p = 0
    BY <2>4, <2>5, <2>6, QuotientIsOne
  <2>8. QED
    BY <2>3, <2>7
<1>6. ASSUME NEW i \in 1..width
      PROVE  Top(n, width, i) = Base * Top(n, width, i - 1) + BigEndian(n, width)[i]
  <2>1. width - i \in Nat /\ (width - i) + 1 = width - (i - 1)
    OBVIOUS
  <2>2. PICK p \in Nat : p = Power[width - i] /\ p > 0 /\ Power[width - (i - 1)] = Base * p
    BY <2>1, Powers
  <2>3. PICK t \in Nat : t = n \div p /\ t = Top(n, width, i)
    BY <2>2, Quotient DEF Top
  <2>4. t \div Base = Top(n, width, i - 1)
    <3>1. (n \div p) \div Base = n \div (Base * p)
      BY <2>2, BaseNumber, QuotientTwice
    <3>2. Top(n, width, i - 1) = n \div (Base * p)
      BY <2>2 DEF Top
    <3>3. QED
      BY <2>3, <3>1, <3>2
  <2>5. t = Base * (t \div Base) + (t % Base)
    <3>1. Base \in Nat /\ Base > 0
      BY BaseNumber
    <3>2. QED
      BY <3>1, Quotient
  <2>6. BigEndian(n, width)[i] = t % Base
    BY <1>2, <2>3
  <2>7. QED
    BY <2>3, <2>4, <2>5, <2>6
<1>7. QED
  BY <1>1, <1>3, <1>4, <1>5, <1>6

\* Keys are made of such digits.
Bytes(width) == [1..width -> 0..(Base - 1)]

LEMMA BytesSequence ==
  ASSUME NEW width \in Nat, NEW bytes \in Bytes(width)
  PROVE  /\ bytes \in Seq(Nat) /\ Len(bytes) = width /\ DOMAIN bytes = 1..width
         /\ \A i \in 1..width : bytes[i] \in Nat
<1>1. bytes \in [1..width -> 0..(Base - 1)]
  BY DEF Bytes
<1>2. \A i \in 1..width : bytes[i] \in Nat
  BY <1>1, BaseNumber
<1>3. DOMAIN bytes = 1..width /\ bytes \in [1..width -> Nat]
  BY <1>1, <1>2
<1>4. QED
  BY <1>2, <1>3

LEMMA NumberBytes ==
  ASSUME NEW n \in Nat, NEW width \in Nat
  PROVE  BigEndian(n, width) \in Bytes(width)
  BY Digits DEF Bytes

IsValue(value, bytes) ==
  value = [i \in 0..Len(bytes) |-> IF i = 0 THEN 0 ELSE value[i - 1] * Base + bytes[i]]

\* A number is read as it was written.
LEMMA ReadBack ==
  ASSUME NEW width \in Nat, NEW n \in Nat, n < Power[width]
  PROVE  FromBigEndian(BigEndian(n, width)) = n
<1>1. PICK bytes : bytes = BigEndian(n, width) /\ bytes \in Bytes(width)
  BY NumberBytes
<1>2. Len(bytes) = width
  BY <1>1, BytesSequence
<1>3. PICK top : top = [i \in 0..width |-> Top(n, width, i)]
  OBVIOUS
<1>4. /\ top[0] = 0 /\ top[width] = n
      /\ \A i \in 0..width : top[i] \in Nat
  <2>1. /\ \A i \in 0..width : Top(n, width, i) \in Nat
        /\ Top(n, width, width) = n /\ Top(n, width, 0) = 0
    BY Digits
  <2>2. 0 \in 0..width /\ width \in 0..width
    OBVIOUS
  <2>3. QED
    BY <1>3, <2>1, <2>2
<1>5. ASSUME NEW i \in 1..width
      PROVE  top[i] = top[i - 1] * Base + bytes[i]
  <2>1. i \in 0..width /\ i - 1 \in 0..width
    OBVIOUS
  <2>2. Top(n, width, i) = Base * Top(n, width, i - 1) + BigEndian(n, width)[i]
    BY Digits
  <2>3. PICK t \in Nat : t = top[i - 1]
    BY <1>4, <2>1
  <2>4. top[i] = Base * t + bytes[i]
    BY <1>1, <1>3, <2>1, <2>2, <2>3
  <2>5. Base * t = t * Base
    BY BaseNumber
  <2>6. QED
    BY <2>3, <2>4, <2>5
<1>6. top = [i \in 0..width |-> IF i = 0 THEN 0 ELSE top[i - 1] * Base + bytes[i]]
  <2>1. ASSUME NEW i \in 0..width
        PROVE  top[i] = IF i = 0 THEN 0 ELSE top[i - 1] * Base + bytes[i]
    BY <1>4, <1>5
  <2>2. QED
    BY <1>3, <2>1
<1>7. IsValue(top, bytes)
  BY <1>2, <1>6 DEF IsValue
<1>8. ASSUME NEW value, IsValue(value, bytes)
      PROVE  value[width] = n
  <2> DEFINE T == {i \in Nat : i <= width => value[i] = top[i]}
  <2>1. value = [i \in 0..width |-> IF i = 0 THEN 0 ELSE value[i - 1] * Base + bytes[i]]
    BY <1>2, <1>8 DEF IsValue
  <2>2. 0 \in T
    BY <1>4, <2>1
  <2>3. ASSUME NEW i \in T
        PROVE  i + 1 \in T
    <3> SUFFICES ASSUME i + 1 <= width
                 PROVE  value[i + 1] = top[i + 1]
      OBVIOUS
    <3>1. PICK k \in 1..width : k = i + 1 /\ k - 1 = i
      OBVIOUS
    <3>2. value[k] = value[k - 1] * Base + bytes[k]
      BY <2>1
    <3>3. top[k] = top[k - 1] * Base + bytes[k]
      BY <1>5
    <3>4. value[k - 1] = top[k - 1]
      BY <3>1
    <3>5. QED
      BY <3>1, <3>2, <3>3, <3>4
  <2>4. T = Nat
    <3> HIDE DEF T
    <3>1. T \in SUBSET Nat
      BY DEF T
    <3>2. QED
      BY <2>2, <2>3, <3>1, AllNumbers
  <2>5. QED
    BY <1>4, <2>4
<1>9. FromBigEndian(bytes) = (CHOOSE value : IsValue(value, bytes))[width]
  BY <1>2 DEF FromBigEndian, IsValue
<1>10. IsValue(CHOOSE value : IsValue(value, bytes), bytes)
  BY <1>7
<1>11. QED
  BY <1>1, <1>8, <1>9, <1>10

-----------------------------------------------------------------------------
\* The order of keys.

\* Of two keys of one length the one with the smaller byte where they part.
LEMMA BelowParts ==
  ASSUME NEW width \in Nat, NEW a \in Bytes(width), NEW b \in Bytes(width)
  PROVE  Below(a, b) <=> \E i \in 1..width :
                           a[i] < b[i] /\ \A j \in 1..(i - 1) : a[j] = b[j]
<1>1. Len(a) = width /\ Len(b) = width
  BY BytesSequence
<1>2. QED
  BY <1>1 DEF Below

LEMMA FirstDifference ==
  ASSUME NEW width \in Nat, NEW a \in Bytes(width), NEW b \in Bytes(width), a # b
  PROVE  \E i \in 1..width : a[i] # b[i] /\ \A j \in 1..(i - 1) : a[j] = b[j]
<1> DEFINE T == {i \in 1..width : a[i] # b[i]}
<1>1. T # {}
  <2>1. a \in [1..width -> 0..(Base - 1)] /\ b \in [1..width -> 0..(Base - 1)]
    BY DEF Bytes
  <2>2. SUFFICES ASSUME T = {}
                 PROVE  a = b
    OBVIOUS
  <2>3. \A i \in 1..width : a[i] = b[i]
    BY <2>2
  <2>4. QED
    BY <2>1, <2>3
<1>2. T \subseteq Nat
  OBVIOUS
<1>3. PICK i \in T : \A j \in T : ~(<<j, i>> \in OpToRel(<, Nat))
  <2> HIDE DEF T
  <2>1. QED
    BY <1>1, <1>2, WFMin, NatLessThanWellFounded
<1>4. ASSUME NEW j \in 1..(i - 1)
      PROVE  a[j] = b[j]
  <2>1. i \in 1..width /\ j \in 1..width /\ j < i
    OBVIOUS
  <2>2. <<j, i>> \in OpToRel(<, Nat)
    BY <2>1 DEF OpToRel
  <2>3. j \notin T
    BY <1>3, <2>2
  <2>4. QED
    BY <2>1, <2>3
<1>5. QED
  BY <1>4

LEMMA SameTop ==
  ASSUME NEW width \in Nat, NEW m \in Nat, NEW n \in Nat, m < Power[width], n < Power[width],
         NEW k \in 0..width,
         \A j \in 1..k : BigEndian(m, width)[j] = BigEndian(n, width)[j]
  PROVE  Top(m, width, k) = Top(n, width, k)
<1> DEFINE T == {i \in Nat : i <= k => Top(m, width, i) = Top(n, width, i)}
<1>1. 0 \in T
  <2>1. Top(m, width, 0) = 0 /\ Top(n, width, 0) = 0
    BY Digits
  <2>2. QED
    BY <2>1
<1>2. ASSUME NEW i \in T
      PROVE  i + 1 \in T
  <2> SUFFICES ASSUME i + 1 <= k
               PROVE  Top(m, width, i + 1) = Top(n, width, i + 1)
    OBVIOUS
  <2>1. PICK j \in 1..k : j = i + 1 /\ j - 1 = i /\ j \in 1..width
    OBVIOUS
  <2>2. Top(m, width, j) = Base * Top(m, width, j - 1) + BigEndian(m, width)[j]
    BY <2>1, Digits
  <2>3. Top(n, width, j) = Base * Top(n, width, j - 1) + BigEndian(n, width)[j]
    BY <2>1, Digits
  <2>4. Top(m, width, j - 1) = Top(n, width, j - 1)
    BY <2>1
  <2>5. QED
    BY <2>1, <2>2, <2>3, <2>4
<1>3. T = Nat
  <2> HIDE DEF T
  <2>1. T \in SUBSET Nat
    BY DEF T
  <2>2. QED
    BY <1>1, <1>2, <2>1, AllNumbers
<1>4. QED
  BY <1>3

\* The smaller byte, where two numbers part, is the smaller number's.
LEMMA SmallerByte ==
  ASSUME NEW width \in Nat, NEW m \in Nat, NEW n \in Nat, m < Power[width], n < Power[width],
         NEW i \in 1..width, BigEndian(m, width)[i] < BigEndian(n, width)[i],
         \A j \in 1..(i - 1) : BigEndian(m, width)[j] = BigEndian(n, width)[j]
  PROVE  m < n
<1>1. i - 1 \in 0..width /\ i \in 0..width /\ width - i \in Nat
  OBVIOUS
<1>2. Top(m, width, i - 1) = Top(n, width, i - 1)
  BY <1>1, SameTop
<1>3. PICK t \in Nat : t = Top(m, width, i - 1)
  BY <1>1, Digits
<1>4. PICK c \in Nat, d \in Nat : c = BigEndian(m, width)[i] /\ d = BigEndian(n, width)[i]
  BY NumberBytes, BytesSequence
<1>5. Top(m, width, i) = Base * t + c /\ Top(n, width, i) = Base * t + d
  BY <1>2, <1>3, <1>4, Digits
<1>6. Base * t \in Nat
  BY BaseNumber
<1>7. Top(m, width, i) < Top(n, width, i)
  BY <1>4, <1>5, <1>6
<1>8. PICK p \in Nat : p = Power[width - i] /\ p > 0
  BY <1>1, Powers
<1>9. m \div p < n \div p
  BY <1>7, <1>8 DEF Top
<1>10. QED
  BY <1>8, <1>9, QuotientGrows

\* Two numbers have different keys, in the order of the numbers.
LEMMA NumberKeys ==
  ASSUME NEW width \in Nat, NEW m \in Nat, NEW n \in Nat, m < Power[width], n < Power[width]
  PROVE  /\ BigEndian(m, width) = BigEndian(n, width) <=> m = n
         /\ Below(BigEndian(m, width), BigEndian(n, width)) <=> m < n
<1> DEFINE a == BigEndian(m, width)
           b == BigEndian(n, width)
<1>1. a \in Bytes(width) /\ b \in Bytes(width)
  BY NumberBytes
<1>2. a = b <=> m = n
  BY ReadBack
<1>3. Below(a, b) => m < n
  BY <1>1, BelowParts, SmallerByte
<1>4. ASSUME m < n
      PROVE  Below(a, b)
  <2>1. a # b
    BY <1>2, <1>4
  <2>2. PICK i \in 1..width : a[i] # b[i] /\ \A j \in 1..(i - 1) : a[j] = b[j]
    <3> HIDE DEF a, b
    <3>1. QED
      BY <1>1, <2>1, FirstDifference
  <2>3. ~(b[i] < a[i])
    <3>1. b[i] < a[i] => n < m
      BY <2>2, SmallerByte
    <3>2. QED
      BY <1>4, <3>1
  <2>4. a[i] \in Nat /\ b[i] \in Nat
    BY <1>1, BytesSequence
  <2>5. a[i] < b[i]
    BY <2>2, <2>3, <2>4
  <2> HIDE DEF a, b
  <2>6. QED
    BY <1>1, <2>2, <2>5, BelowParts
<1>5. QED
  BY <1>2, <1>3, <1>4

-----------------------------------------------------------------------------
\* Keys of two parts.

LEMMA Concatenated ==
  ASSUME NEW n \in Nat, NEW m \in Nat, NEW a \in Bytes(n), NEW b \in Bytes(m)
  PROVE  /\ a \o b \in Bytes(n + m)
         /\ \A i \in 1..n : (a \o b)[i] = a[i]
         /\ \A i \in 1..m : (a \o b)[n + i] = b[i]
<1>1. /\ a \in Seq(Nat) /\ Len(a) = n /\ DOMAIN a = 1..n
      /\ b \in Seq(Nat) /\ Len(b) = m /\ DOMAIN b = 1..m
  BY BytesSequence
<1>2. /\ DOMAIN (a \o b) = 1..(n + m) /\ a \o b \in Seq(Nat)
      /\ \A i \in 1..(n + m) : (a \o b)[i] = IF i <= n THEN a[i] ELSE b[i - n]
  BY <1>1
<1>3. ASSUME NEW i \in 1..n
      PROVE  (a \o b)[i] = a[i]
  <2>1. i \in 1..(n + m) /\ i <= n
    OBVIOUS
  <2>2. QED
    BY <1>2, <2>1
<1>4. ASSUME NEW i \in 1..m
      PROVE  (a \o b)[n + i] = b[i]
  <2>1. n + i \in 1..(n + m) /\ ~(n + i <= n) /\ (n + i) - n = i
    OBVIOUS
  <2>2. QED
    BY <1>2, <2>1
<1>5. ASSUME NEW i \in 1..(n + m)
      PROVE  (a \o b)[i] \in 0..(Base - 1)
  <2>1. /\ \A j \in 1..n : a[j] \in 0..(Base - 1)
        /\ \A j \in 1..m : b[j] \in 0..(Base - 1)
    BY DEF Bytes
  <2>2. CASE i <= n
    <3>1. i \in 1..n
      BY <2>2
    <3>2. QED
      BY <1>3, <2>1, <3>1
  <2>3. CASE ~(i <= n)
    <3>1. i - n \in 1..m
      BY <2>3
    <3>2. QED
      BY <1>2, <2>1, <2>3, <3>1
  <2>4. QED
    BY <2>2, <2>3
<1>6. PICK c \in Seq(Nat) : c = a \o b
  BY <1>2
<1>7. c \in Bytes(n + m)
  <2>1. c = [i \in 1..Len(c) |-> c[i]] /\ DOMAIN c = 1..Len(c)
    OBVIOUS
  <2>2. c = [i \in 1..(n + m) |-> c[i]]
    BY <1>2, <1>6, <2>1
  <2>3. \A i \in 1..(n + m) : c[i] \in 0..(Base - 1)
    BY <1>5, <1>6
  <2>4. QED
    BY <2>2, <2>3 DEF Bytes
<1>8. QED
  BY <1>3, <1>4, <1>6, <1>7

LEMMA Parts ==
  ASSUME NEW n \in Nat, NEW m \in Nat, NEW a \in Bytes(n), NEW b \in Bytes(m)
  PROVE  /\ SubSeq(a \o b, 1, n) = a
         /\ SubSeq(a \o b, n + 1, n + m) = b
<1>1. a \in Seq(Nat) /\ Len(a) = n /\ b \in Seq(Nat) /\ Len(b) = m
  BY BytesSequence
<1>2. PICK c : c = a \o b
  OBVIOUS
<1>3. /\ c \in Seq(Nat) /\ Len(c) = n + m
      /\ \A i \in 1..n : c[i] = a[i]
      /\ \A i \in 1..m : c[n + i] = b[i]
  <2>1. a \o b \in Seq(Nat) /\ Len(a \o b) = n + m
    BY <1>1
  <2>2. /\ \A i \in 1..n : (a \o b)[i] = a[i]
        /\ \A i \in 1..m : (a \o b)[n + i] = b[i]
    BY Concatenated
  <2>3. QED
    BY <1>2, <2>1, <2>2
<1>4. SubSeq(c, 1, n) = a
  <2>1. SubSeq(c, 1, n) = [i \in 1..n |-> c[i]]
    BY <1>3
  <2>2. a = [i \in 1..n |-> a[i]]
    BY <1>1
  <2>3. QED
    BY <1>3, <2>1, <2>2
<1>5. SubSeq(c, n + 1, n + m) = b
  <2>1. SubSeq(c, n + 1, n + m) = [i \in 1..m |-> c[n + i]]
    BY <1>3
  <2>2. b = [i \in 1..m |-> b[i]]
    BY <1>1
  <2>3. QED
    BY <1>3, <2>1, <2>2
<1>6. QED
  BY <1>2, <1>4, <1>5

\* Equal keys have equal parts; of two others the first parts decide, or
\* else the second.
LEMMA PairKeys ==
  ASSUME NEW n \in Nat, NEW m \in Nat, NEW a \in Bytes(n), NEW b \in Bytes(m),
         NEW c \in Bytes(n), NEW d \in Bytes(m)
  PROVE  /\ a \o b = c \o d <=> a = c /\ b = d
         /\ Below(a \o b, c \o d) <=> Below(a, c) \/ (a = c /\ Below(b, d))
<1>1. a \o b = c \o d <=> a = c /\ b = d
  <2>1. ASSUME a \o b = c \o d
        PROVE  a = c /\ b = d
    <3>1. /\ SubSeq(a \o b, 1, n) = a /\ SubSeq(a \o b, n + 1, n + m) = b
          /\ SubSeq(c \o d, 1, n) = c /\ SubSeq(c \o d, n + 1, n + m) = d
      BY Parts
    <3>2. QED
      BY <2>1, <3>1
  <2>2. QED
    BY <2>1
<1>2. PICK x \in Bytes(n + m) :
        x = a \o b /\ (\A i \in 1..n : x[i] = a[i]) /\ \A i \in 1..m : x[n + i] = b[i]
  BY Concatenated
<1>3. PICK y \in Bytes(n + m) :
        y = c \o d /\ (\A i \in 1..n : y[i] = c[i]) /\ \A i \in 1..m : y[n + i] = d[i]
  BY Concatenated
<1>4. /\ \A i \in 1..n : a[i] \in Nat /\ c[i] \in Nat
      /\ \A i \in 1..m : b[i] \in Nat /\ d[i] \in Nat
  BY BytesSequence
<1>5. n + m \in Nat
  OBVIOUS
<1>6. ASSUME Below(a, c)
      PROVE  Below(x, y)
  <2>1. PICK i \in 1..n : a[i] < c[i] /\ \A j \in 1..(i - 1) : a[j] = c[j]
    BY <1>6, BelowParts
  <2>2. i \in 1..(n + m)
    OBVIOUS
  <2>3. \A j \in 1..(i - 1) : j \in 1..n
    OBVIOUS
  <2>4. x[i] < y[i] /\ \A j \in 1..(i - 1) : x[j] = y[j]
    BY <1>2, <1>3, <2>1, <2>3
  <2>5. QED
    BY <1>5, <2>2, <2>4, BelowParts
<1>7. ASSUME a = c, Below(b, d)
      PROVE  Below(x, y)
  <2>1. PICK i \in 1..m : b[i] < d[i] /\ \A j \in 1..(i - 1) : b[j] = d[j]
    BY <1>7, BelowParts
  <2>2. n + i \in 1..(n + m)
    OBVIOUS
  <2>3. x[n + i] < y[n + i]
    BY <1>2, <1>3, <2>1
  <2>4. ASSUME NEW j \in 1..(n + i - 1)
        PROVE  x[j] = y[j]
    <3>1. CASE j <= n
      <4>1. j \in 1..n
        BY <3>1
      <4>2. QED
        BY <1>2, <1>3, <1>7, <4>1
    <3>2. CASE ~(j <= n)
      <4>1. PICK k \in 1..m : j = n + k /\ k \in 1..(i - 1)
        <5>1. j - n \in 1..m /\ j = n + (j - n) /\ j - n \in 1..(i - 1)
          BY <3>2
        <5>2. QED
          BY <5>1
      <4>2. QED
        BY <1>2, <1>3, <2>1, <4>1
    <3>3. QED
      BY <3>1, <3>2
  <2>5. QED
    BY <1>5, <2>2, <2>3, <2>4, BelowParts
<1>8. ASSUME Below(x, y)
      PROVE  Below(a, c) \/ (a = c /\ Below(b, d))
  <2>1. PICK i \in 1..(n + m) : x[i] < y[i] /\ \A j \in 1..(i - 1) : x[j] = y[j]
    BY <1>5, <1>8, BelowParts
  <2>2. CASE i <= n
    <3>1. i \in 1..n /\ \A j \in 1..(i - 1) : j \in 1..n
      BY <2>2
    <3>2. a[i] < c[i] /\ \A j \in 1..(i - 1) : a[j] = c[j]
      BY <1>2, <1>3, <2>1, <3>1
    <3>3. QED
      BY <3>1, <3>2, BelowParts
  <2>3. CASE ~(i <= n)
    <3>1. PICK k \in 1..m : i = n + k
      <4>1. i - n \in 1..m /\ i = n + (i - n)
        BY <2>3
      <4>2. QED
        BY <4>1
    <3>2. \A j \in 1..n : a[j] = c[j]
      <4>1. \A j \in 1..n : j \in 1..(i - 1)
        BY <2>3
      <4>2. QED
        BY <1>2, <1>3, <2>1, <4>1
    <3>3. a = c
      BY <3>2 DEF Bytes
    <3>4. b[k] < d[k]
      BY <1>2, <1>3, <2>1, <3>1
    <3>5. ASSUME NEW j \in 1..(k - 1)
          PROVE  b[j] = d[j]
      <4>1. n + j \in 1..(i - 1) /\ j \in 1..m
        BY <3>1
      <4>2. QED
        BY <1>2, <1>3, <2>1, <4>1
    <3>6. QED
      BY <3>3, <3>4, <3>5, BelowParts
  <2>4. QED
    BY <2>2, <2>3
<1>9. QED
  BY <1>1, <1>2, <1>3, <1>6, <1>7, <1>8

-----------------------------------------------------------------------------
\* The keys of the program's values.

LEMMA Widths ==
  SlotWidth \in Nat /\ IndexWidth \in Nat /\ HashSize \in Nat
  BY DataAssumption

\* A slot, or the slot 0 from which a reader may start.
LEMMA SlotNumber ==
  ASSUME NEW slot \in Slots \cup {0}
  PROVE  slot \in Nat /\ slot < Power[SlotWidth]
<1>1. PICK p \in Nat : p = Power[SlotWidth] /\ p > 0
  BY Powers, Widths
<1>2. slot \in Slots => slot \in 1..(p - 1)
  BY <1>1, DataAssumption
<1>3. QED
  BY <1>1, <1>2

LEMMA SlotKeys ==
  ASSUME NEW s \in Slots \cup {0}, NEW t \in Slots \cup {0}
  PROVE  /\ SlotNumberToKey(s) \in Bytes(SlotWidth)
         /\ SlotNumberToKey(s) = SlotNumberToKey(t) <=> s = t
         /\ Below(SlotNumberToKey(s), SlotNumberToKey(t)) <=> s < t
<1>1. s \in Nat /\ s < Power[SlotWidth] /\ t \in Nat /\ t < Power[SlotWidth]
  BY SlotNumber
<1>2. QED
  BY <1>1, Widths, NumberBytes, NumberKeys DEF SlotNumberToKey

LEMMA TxKeys ==
  ASSUME NEW t \in Tx, NEW u \in Tx
  PROVE  /\ TxKey(t) \in Bytes(SlotWidth + IndexWidth)
         /\ TxKey(t) = TxKey(u) <=> t = u
         /\ Below(TxKey(t), TxKey(u)) <=>
              \/ t.BlockSlot < u.BlockSlot
              \/ t.BlockSlot = u.BlockSlot /\ t.Indx < u.Indx
<1>1. ASSUME NEW v \in Tx
      PROVE  /\ v.BlockSlot \in Nat /\ v.BlockSlot < Power[SlotWidth]
             /\ v.Indx \in Nat /\ v.Indx < Power[IndexWidth]
  <2>1. v.BlockSlot \in Slots /\ v.Indx \in 0..(MaxTxs - 1)
    BY DEF Tx
  <2>2. PICK p \in Nat : p = Power[IndexWidth]
    BY Powers, Widths
  <2>3. MaxTxs \in 1..p
    BY <2>2, DataAssumption
  <2>4. v.Indx \in Nat /\ v.Indx < p
    BY <2>1, <2>3
  <2>5. QED
    BY <2>1, <2>2, <2>4, SlotNumber
<1>2. PICK a \in Bytes(SlotWidth), c \in Bytes(SlotWidth) :
        /\ a = BigEndian(t.BlockSlot, SlotWidth)
        /\ c = BigEndian(u.BlockSlot, SlotWidth)
  BY <1>1, Widths, NumberBytes
<1>3. PICK b \in Bytes(IndexWidth), d \in Bytes(IndexWidth) :
        b = BigEndian(t.Indx, IndexWidth) /\ d = BigEndian(u.Indx, IndexWidth)
  BY <1>1, Widths, NumberBytes
<1>4. /\ a = c <=> t.BlockSlot = u.BlockSlot
      /\ Below(a, c) <=> t.BlockSlot < u.BlockSlot
  BY <1>1, <1>2, Widths, NumberKeys
<1>5. /\ b = d <=> t.Indx = u.Indx
      /\ Below(b, d) <=> t.Indx < u.Indx
  BY <1>1, <1>3, Widths, NumberKeys
<1>6. TxKey(t) = a \o b /\ TxKey(u) = c \o d
  BY <1>2, <1>3 DEF TxKey
<1>7. t = u <=> t.BlockSlot = u.BlockSlot /\ t.Indx = u.Indx
  BY DEF Tx
<1>8. a \o b \in Bytes(SlotWidth + IndexWidth)
  BY Widths, Concatenated
<1>9. PICK n \in Nat, m \in Nat : n = SlotWidth /\ m = IndexWidth
  BY Widths
<1>10. a \o b = c \o d <=> a = c /\ b = d
  <2>1. a \in Bytes(n) /\ c \in Bytes(n) /\ b \in Bytes(m) /\ d \in Bytes(m)
    BY <1>9
  <2>2. /\ SubSeq(a \o b, 1, n) = a /\ SubSeq(a \o b, n + 1, n + m) = b
        /\ SubSeq(c \o d, 1, n) = c /\ SubSeq(c \o d, n + 1, n + m) = d
    BY <2>1, Parts
  <2>3. ASSUME a \o b = c \o d
        PROVE  a = c /\ b = d
    BY <2>2, <2>3
  <2>4. QED
    BY <2>3
<1>11. Below(a \o b, c \o d) <=> Below(a, c) \/ (a = c /\ Below(b, d))
  <2>1. a \in Bytes(n) /\ c \in Bytes(n) /\ b \in Bytes(m) /\ d \in Bytes(m)
    BY <1>9
  <2>2. QED
    BY <2>1, PairKeys
<1>12. QED
  BY <1>4, <1>5, <1>6, <1>7, <1>8, <1>10, <1>11

LEMMA TxInputKeys ==
  ASSUME NEW i \in TxInputs
  PROVE  /\ TxInputKey(i) \in Bytes(HashSize + IndexWidth)
         /\ NewTxInputFromBytes(TxInputKey(i)) = i
<1>1. PICK h \in Nat, x \in Nat : h = Power[HashSize] /\ x = Power[IndexWidth]
  BY Powers, Widths
<1>2. i \in [Hash : 0..(h - 1), Index : 0..(x - 1)]
  BY <1>1, DataAssumption
<1>3. i.Hash \in Nat /\ i.Hash < h /\ i.Index \in Nat /\ i.Index < x
  BY <1>2
<1>4. PICK a : a = BigEndian(i.Hash, HashSize) /\ a \in Bytes(HashSize)
  BY <1>3, Widths, NumberBytes
<1>5. PICK b : b = BigEndian(i.Index, IndexWidth) /\ b \in Bytes(IndexWidth)
  BY <1>3, Widths, NumberBytes
<1>6. TxInputKey(i) = a \o b
  BY <1>4, <1>5 DEF TxInputKey
<1>7. a \o b \in Bytes(HashSize + IndexWidth) /\ HashSize + IndexWidth \in Nat
  BY <1>4, <1>5, Widths, Concatenated
<1>8. Len(a \o b) = HashSize + IndexWidth
  BY <1>7, BytesSequence
<1>9. /\ SubSeq(a \o b, 1, HashSize) = a
      /\ SubSeq(a \o b, HashSize + 1, Len(a \o b)) = b
  <2>1. /\ SubSeq(a \o b, 1, HashSize) = a
        /\ SubSeq(a \o b, HashSize + 1, HashSize + IndexWidth) = b
    BY <1>4, <1>5, Widths, Parts
  <2>2. QED
    BY <1>8, <2>1
<1>10. FromBigEndian(a) = i.Hash /\ FromBigEndian(b) = i.Index
  BY <1>1, <1>3, <1>4, <1>5, Widths, ReadBack
<1>11. NewTxInputFromBytes(a \o b) = [Hash |-> i.Hash, Index |-> i.Index]
  BY <1>8, <1>9, <1>10 DEF NewTxInputFromBytes
<1>12. i = [Hash |-> i.Hash, Index |-> i.Index]
  BY <1>2
<1>13. QED
  BY <1>6, <1>7, <1>11, <1>12
-----------------------------------------------------------------------------
\* What the calls do to the store.

IsStore(s) ==
  s = [point |-> s.point, blocks |-> s.blocks, outputs |-> s.outputs,
       unprocessed |-> s.unprocessed, processed |-> s.processed]

\* A store with these values, whatever its outputs are.
Holds(s, point, blocks, unprocessed, processed) ==
  /\ IsStore(s)
  /\ s.point = point
  /\ s.blocks = blocks
  /\ s.unprocessed = unprocessed
  /\ s.processed = processed

LEMMA ApplySetsPoint ==
  ASSUME NEW s, NEW slot, NEW c, c.call = "SetLatestBlockPoint", c.slot = slot
  PROVE  Apply(s, c) = [s EXCEPT !.point = slot]
  BY DEF Apply

LEMMA ApplyAddsBlock ==
  ASSUME NEW s, NEW block, NEW c, c.call = "AddConfirmedBlock", c.block = block
  PROVE  Apply(s, c) = [s EXCEPT !.blocks = s.blocks \cup {block}]
  BY DEF Apply

LEMMA ApplyAddsTxs ==
  ASSUME NEW s, NEW txs, NEW c, c.call = "AddConfirmedTxs", c.txs = txs
  PROVE  Apply(s, c) = [s EXCEPT !.unprocessed = s.unprocessed \cup txs]
  BY DEF Apply

LEMMA ApplyAddsOutputs ==
  ASSUME NEW s, NEW inputs, NEW slot, NEW c, c.call = "AddTxOutputs", c.inputs = inputs,
         c.slot = slot
  PROVE  Apply(s, c) = [s EXCEPT !.outputs = WithAdded(s.outputs, inputs, slot)]
  BY DEF Apply

LEMMA ApplyUsesOutputs ==
  ASSUME NEW s, NEW inputs, NEW c, c.call = "RemoveTxOutputs", c.inputs = inputs,
         c.softDelete
  PROVE  Apply(s, c) = [s EXCEPT !.outputs = WithUsed(s.outputs, inputs)]
  BY DEF Apply

LEMMA ApplyRemovesOutputs ==
  ASSUME NEW s, NEW inputs, NEW c, c.call = "RemoveTxOutputs", c.inputs = inputs,
         ~c.softDelete
  PROVE  Apply(s, c) = [s EXCEPT !.outputs = Without(s.outputs, inputs)]
  BY DEF Apply

LEMMA ApplyDeletesOutputs ==
  ASSUME NEW s, NEW c, c.call \notin {"SetLatestBlockPoint", "AddConfirmedBlock",
                                      "AddConfirmedTxs", "AddTxOutputs", "RemoveTxOutputs"}
  PROVE  Apply(s, c) = [s EXCEPT !.outputs = <<>>]
  BY DEF Apply

\* A store of these values.
Stored(p, b, o, u, q) ==
  [point |-> p, blocks |-> b, outputs |-> o, unprocessed |-> u, processed |-> q]

LEMMA PointSet ==
  ASSUME NEW p, NEW b, NEW o, NEW u, NEW q, NEW slot
  PROVE  Apply(Stored(p, b, o, u, q), SetLatestBlockPoint(slot)) = Stored(slot, b, o, u, q)
<1>1. PICK c : c = SetLatestBlockPoint(slot)
  OBVIOUS
<1>2. c.call = "SetLatestBlockPoint" /\ c.slot = slot
  BY <1>1 DEF SetLatestBlockPoint
<1>3. \A s : Apply(s, c) = [s EXCEPT !.point = slot]
  BY <1>2, ApplySetsPoint
<1>4. QED
  BY <1>1, <1>3 DEF Stored

LEMMA BlockAdded ==
  ASSUME NEW p, NEW b, NEW o, NEW u, NEW q, NEW block
  PROVE  Apply(Stored(p, b, o, u, q), AddConfirmedBlock(block)) =
           Stored(p, b \cup {block}, o, u, q)
<1>1. PICK c : c = AddConfirmedBlock(block)
  OBVIOUS
<1>2. c.call = "AddConfirmedBlock" /\ c.block = block
  BY <1>1 DEF AddConfirmedBlock
<1>3. PICK s : s = Stored(p, b, o, u, q)
  OBVIOUS
<1>4. PICK all : all = b \cup {block}
  OBVIOUS
<1>5. Apply(s, c) = [s EXCEPT !.blocks = s.blocks \cup {block}]
  BY <1>2, ApplyAddsBlock
<1>6. s.blocks = b
  BY <1>3 DEF Stored
<1>7. Apply(s, c) = [s EXCEPT !.blocks = all]
  BY <1>4, <1>5, <1>6
<1>8. Apply(s, c) = Stored(p, all, o, u, q)
  BY <1>3, <1>7 DEF Stored
<1>9. QED
  BY <1>1, <1>3, <1>4, <1>8

LEMMA TxsAdded ==
  ASSUME NEW p, NEW b, NEW o, NEW u, NEW q, NEW txs
  PROVE  Apply(Stored(p, b, o, u, q), AddConfirmedTxs(txs)) = Stored(p, b, o, u \cup txs, q)
<1>1. PICK c : c = AddConfirmedTxs(txs)
  OBVIOUS
<1>2. c.call = "AddConfirmedTxs" /\ c.txs = txs
  BY <1>1 DEF AddConfirmedTxs
<1>3. PICK s : s = Stored(p, b, o, u, q)
  OBVIOUS
<1>4. PICK all : all = u \cup txs
  OBVIOUS
<1>5. Apply(s, c) = [s EXCEPT !.unprocessed = s.unprocessed \cup txs]
  BY <1>2, ApplyAddsTxs
<1>6. s.unprocessed = u
  BY <1>3 DEF Stored
<1>7. Apply(s, c) = [s EXCEPT !.unprocessed = all]
  BY <1>4, <1>5, <1>6
<1>8. Apply(s, c) = Stored(p, b, o, all, q)
  BY <1>3, <1>7 DEF Stored
<1>9. QED
  BY <1>1, <1>3, <1>4, <1>8

LEMMA OutputsAdded ==
  ASSUME NEW p, NEW b, NEW o, NEW u, NEW q, NEW inputs, NEW slot
  PROVE  Apply(Stored(p, b, o, u, q), AddTxOutputs(inputs, slot)) =
           Stored(p, b, WithAdded(o, inputs, slot), u, q)
<1>1. PICK c : c = AddTxOutputs(inputs, slot)
  OBVIOUS
<1>2. c.call = "AddTxOutputs" /\ c.inputs = inputs /\ c.slot = slot
  BY <1>1 DEF AddTxOutputs
<1>3. \A s : Apply(s, c) = [s EXCEPT !.outputs = WithAdded(s.outputs, inputs, slot)]
  BY <1>2, ApplyAddsOutputs
<1>4. QED
  BY <1>1, <1>3 DEF Stored

\* Outputs without some, or with some used.
WithoutOrUsed(outputs, inputs, softDelete) ==
  IF softDelete THEN WithUsed(outputs, inputs) ELSE Without(outputs, inputs)

LEMMA OutputsRemoved ==
  ASSUME NEW p, NEW b, NEW o, NEW u, NEW q, NEW inputs, NEW softDelete \in BOOLEAN
  PROVE  Apply(Stored(p, b, o, u, q), RemoveTxOutputs(inputs, softDelete)) =
           Stored(p, b, WithoutOrUsed(o, inputs, softDelete), u, q)
<1>1. PICK c : c = RemoveTxOutputs(inputs, softDelete)
  OBVIOUS
<1>2. c.call = "RemoveTxOutputs" /\ c.inputs = inputs /\ c.softDelete = softDelete
  BY <1>1 DEF RemoveTxOutputs
<1>3. PICK s : s = Stored(p, b, o, u, q)
  OBVIOUS
<1>4. s.outputs = o
  BY <1>3 DEF Stored
<1>5. PICK left : left = WithoutOrUsed(o, inputs, softDelete)
  OBVIOUS
<1>6. Apply(s, c) = [s EXCEPT !.outputs = left]
  <2>1. CASE softDelete
    BY <1>2, <1>4, <1>5, <2>1, ApplyUsesOutputs DEF WithoutOrUsed
  <2>2. CASE ~softDelete
    BY <1>2, <1>4, <1>5, <2>2, ApplyRemovesOutputs DEF WithoutOrUsed
  <2>3. QED
    BY <2>1, <2>2
<1>7. Apply(s, c) = Stored(p, b, left, u, q)
  BY <1>3, <1>6 DEF Stored
<1>8. QED
  BY <1>1, <1>3, <1>5, <1>7

LEMMA OutputsDeleted ==
  ASSUME NEW p, NEW b, NEW o, NEW u, NEW q
  PROVE  Apply(Stored(p, b, o, u, q), DeleteAllTxOutputsPhysically) = Stored(p, b, <<>>, u, q)
<1>1. PICK c : c = DeleteAllTxOutputsPhysically
  OBVIOUS
<1>2. c.call = "DeleteAllTxOutputsPhysically"
  BY <1>1 DEF DeleteAllTxOutputsPhysically
<1>3. \A s : Apply(s, c) = [s EXCEPT !.outputs = <<>>]
  BY <1>2, ApplyDeletesOutputs
<1>4. QED
  BY <1>1, <1>3 DEF Stored

-----------------------------------------------------------------------------
\* The calls of a transaction.  A fold is a recursive function on the subsets
\* of the calls' indices; up to five calls, that function is built here.

LEMMA LastIndex ==
  ASSUME NEW k \in 0..4, NEW s \in SUBSET (1..(k + 1)), s # {}
  PROVE  /\ Max(s) \in s
         /\ s \ {Max(s)} \in SUBSET (1..k)
<1>1. \E x \in s : \A y \in s : x >= y
  <2>1. s \subseteq {1, 2, 3, 4, 5}
    OBVIOUS
  <2>2. CASE 5 \in s
    BY <2>1, <2>2
  <2>3. CASE 5 \notin s /\ 4 \in s
    BY <2>1, <2>3
  <2>4. CASE 5 \notin s /\ 4 \notin s /\ 3 \in s
    BY <2>1, <2>4
  <2>5. CASE 5 \notin s /\ 4 \notin s /\ 3 \notin s /\ 2 \in s
    BY <2>1, <2>5
  <2>6. CASE 5 \notin s /\ 4 \notin s /\ 3 \notin s /\ 2 \notin s
    <3>1. s = {1}
      BY <2>1, <2>6
    <3>2. QED
      BY <3>1
  <2>7. QED
    BY <2>2, <2>3, <2>4, <2>5, <2>6
<1>2. Max(s) \in s /\ \A y \in s : Max(s) >= y
  BY <1>1 DEF Max
<1>3. Max(s) \in 1..(k + 1)
  BY <1>2
<1>4. ASSUME NEW y \in s, y # Max(s)
      PROVE  y \in 1..k
  <2>1. y \in 1..(k + 1) /\ Max(s) >= y
    BY <1>2
  <2>2. QED
    BY <2>1, <1>3, <1>4
<1>5. QED
  BY <1>2, <1>4

\* One step of the fold.
Folded(base, calls, g) ==
  [s \in SUBSET (DOMAIN calls) |->
     IF s = {} THEN base ELSE Apply(g[s \ {Max(s)}], calls[Max(s)])]

Agree(calls, g, h, k) ==
  \A s \in SUBSET (DOMAIN calls) : s \subseteq 1..k => h[s] = g[s]

LEMMA FoldStep ==
  ASSUME NEW base, NEW calls, NEW n \in 0..5, DOMAIN calls = 1..n, NEW k \in 0..4, NEW m, m = k + 1,
         NEW g, NEW h, h = Folded(base, calls, g), Agree(calls, g, h, k)
  PROVE  Agree(calls, h, Folded(base, calls, h), m)
<1> SUFFICES ASSUME NEW s \in SUBSET (DOMAIN calls), s \subseteq 1..(k + 1)
             PROVE  Folded(base, calls, h)[s] = h[s]
  BY DEF Agree
<1>1. CASE s = {}
  BY <1>1 DEF Folded
<1>2. CASE s # {}
  <2>1. s \ {Max(s)} \in SUBSET (DOMAIN calls) /\ s \ {Max(s)} \subseteq 1..k
    BY <1>2, LastIndex
  <2>2. h[s \ {Max(s)}] = g[s \ {Max(s)}]
    BY <2>1 DEF Agree
  <2>3. Folded(base, calls, h)[s] = Apply(h[s \ {Max(s)}], calls[Max(s)])
    BY <1>2 DEF Folded
  <2>4. h[s] = Apply(g[s \ {Max(s)}], calls[Max(s)])
    BY <1>2 DEF Folded
  <2>5. QED
    BY <2>2, <2>3, <2>4
<1>3. QED
  BY <1>1, <1>2

\* The function of the fold.
LEMMA FoldExists ==
  ASSUME NEW base, NEW calls, NEW n \in 0..5, DOMAIN calls = 1..n
  PROVE  \E g : g = Folded(base, calls, g)
<1>0. PICK g0 : g0 = [s \in SUBSET (DOMAIN calls) |-> base]
  OBVIOUS
<1>1. PICK g1 : g1 = Folded(base, calls, g0)
  OBVIOUS
<1>2. PICK g2 : g2 = Folded(base, calls, g1)
  OBVIOUS
<1>3. PICK g3 : g3 = Folded(base, calls, g2)
  OBVIOUS
<1>4. PICK g4 : g4 = Folded(base, calls, g3)
  OBVIOUS
<1>5. PICK g5 : g5 = Folded(base, calls, g4)
  OBVIOUS
<1>6. PICK g6 : g6 = Folded(base, calls, g5)
  OBVIOUS
<1>7. ASSUME NEW k \in 0..4, NEW m, m = k + 1,
             NEW g, NEW h, h = Folded(base, calls, g), Agree(calls, g, h, k)
      PROVE  Agree(calls, h, Folded(base, calls, h), m)
  BY <1>7, FoldStep
<1>10. Agree(calls, g0, g1, 0)
  BY <1>0, <1>1 DEF Agree, Folded
<1>11. Agree(calls, g1, g2, 1)
  <2>1. 0 \in 0..4 /\ 1 = 0 + 1
    OBVIOUS
  <2>2. QED
    BY <1>10, <1>1, <1>2, <2>1, <1>7
<1>12. Agree(calls, g2, g3, 2)
  <2>1. 1 \in 0..4 /\ 2 = 1 + 1
    OBVIOUS
  <2>2. QED
    BY <1>11, <1>2, <1>3, <2>1, <1>7
<1>13. Agree(calls, g3, g4, 3)
  <2>1. 2 \in 0..4 /\ 3 = 2 + 1
    OBVIOUS
  <2>2. QED
    BY <1>12, <1>3, <1>4, <2>1, <1>7
<1>14. Agree(calls, g4, g5, 4)
  <2>1. 3 \in 0..4 /\ 4 = 3 + 1
    OBVIOUS
  <2>2. QED
    BY <1>13, <1>4, <1>5, <2>1, <1>7
<1>15. Agree(calls, g5, g6, 5)
  <2>1. 4 \in 0..4 /\ 5 = 4 + 1
    OBVIOUS
  <2>2. QED
    BY <1>14, <1>5, <1>6, <2>1, <1>7
<1>16. \A s \in SUBSET (DOMAIN calls) : g6[s] = g5[s]
  BY <1>15 DEF Agree
<1>17. g5 = g6
  BY <1>16, <1>5, <1>6 DEF Folded
<1>18. QED
  BY <1>17, <1>6

IsFold(base, calls, g) == g = Folded(base, calls, g)

LEMMA FoldValue ==
  ASSUME NEW base, NEW calls, NEW n \in 0..5, DOMAIN calls = 1..n
  PROVE  \E g : /\ IsFold(base, calls, g)
                /\ FoldLeft(Apply, base, calls) = g[1..n]
<1> DEFINE g == CHOOSE f : f = Folded(base, calls, f)
<1>1. g = Folded(base, calls, g)
  BY FoldExists
<1>2. FoldLeft(Apply, base, calls) = g[DOMAIN calls]
  BY DEF FoldLeft, MapThenFoldSet, Folded
<1>3. QED
  BY <1>1, <1>2 DEF IsFold

\* What the fold says after k calls, and the next call.
After(g, k) == g[1..k]
Call(calls, k) == calls[k]

Total(base, calls) == FoldLeft(Apply, base, calls)
FewCalls(calls, n) == n \in 0..5 /\ DOMAIN calls = 1..n
Follows(k, m, n) == k \in 0..4 /\ m = k + 1 /\ m <= n

LEMMA FoldOfOneMore ==
  ASSUME NEW base, NEW calls, NEW n, FewCalls(calls, n),
         NEW g, IsFold(base, calls, g), NEW k, NEW m, Follows(k, m, n)
  PROVE  After(g, m) = Apply(After(g, k), Call(calls, m))
<1> USE DEF FewCalls, Follows
<1>1. 1..m # {} /\ 1..m \in SUBSET (DOMAIN calls) /\ m \in 1..m
  OBVIOUS
<1>2. Max(1..m) = m
  BY DEF Max
<1>3. (1..m) \ {m} = 1..k
  OBVIOUS
<1>4. g[1..m] = Apply(g[(1..m) \ {Max(1..m)}], calls[Max(1..m)])
  BY <1>1 DEF Folded, IsFold
<1>5. QED
  BY <1>2, <1>3, <1>4 DEF After, Call

LEMMA FoldInSteps ==
  ASSUME NEW base, NEW calls, NEW n, FewCalls(calls, n)
  PROVE  \E g : /\ Total(base, calls) = After(g, n)
                /\ After(g, 0) = base
                /\ \A k, m : Follows(k, m, n) =>
                               After(g, m) = Apply(After(g, k), Call(calls, m))
<1>1. PICK g : IsFold(base, calls, g) /\ FoldLeft(Apply, base, calls) = g[1..n]
  BY FoldValue DEF FewCalls
<1>2. IsFold(base, calls, g)
  BY <1>1
<1>3. Total(base, calls) = After(g, n)
  BY <1>1 DEF After, Total
<1>4. After(g, 0) = base
  <2>1. 1..0 = {}
    OBVIOUS
  <2>2. QED
    BY <1>2, <2>1 DEF After, IsFold, Folded
<1>5. \A k, m : Follows(k, m, n) => After(g, m) = Apply(After(g, k), Call(calls, m))
  BY <1>2, FoldOfOneMore
<1>6. QED
  BY <1>3, <1>4, <1>5

LEMMA TwoCalls ==
  ASSUME NEW base, NEW calls, DOMAIN calls = 1..2
  PROVE  FoldLeft(Apply, base, calls) =
           Apply(Apply(base, calls[1]), calls[2])
<1>1. FewCalls(calls, 2)
  BY DEF FewCalls
<1>2. PICK g : /\ Total(base, calls) = After(g, 2)
               /\ After(g, 0) = base
               /\ \A k, m : Follows(k, m, 2) =>
                              After(g, m) = Apply(After(g, k), Call(calls, m))
  BY <1>1, FoldInSteps
<1>3. After(g, 1) = Apply(After(g, 0), calls[1])
  <2>1. Follows(0, 1, 2)
    BY DEF Follows
  <2>2. QED
    BY <2>1, <1>2 DEF Call
<1>4. After(g, 2) = Apply(After(g, 1), calls[2])
  <2>1. Follows(1, 2, 2)
    BY DEF Follows
  <2>2. QED
    BY <2>1, <1>2 DEF Call
<1>5. QED
  BY <1>2, <1>3, <1>4 DEF Total

LEMMA FiveCalls ==
  ASSUME NEW base, NEW calls, DOMAIN calls = 1..5
  PROVE  FoldLeft(Apply, base, calls) =
           Apply(Apply(Apply(Apply(Apply(base, calls[1]), calls[2]), calls[3]), calls[4]), calls[5])
<1>1. FewCalls(calls, 5)
  BY DEF FewCalls
<1>2. PICK g : /\ Total(base, calls) = After(g, 5)
               /\ After(g, 0) = base
               /\ \A k, m : Follows(k, m, 5) =>
                              After(g, m) = Apply(After(g, k), Call(calls, m))
  BY <1>1, FoldInSteps
<1>3. After(g, 1) = Apply(After(g, 0), calls[1])
  <2>1. Follows(0, 1, 5)
    BY DEF Follows
  <2>2. QED
    BY <2>1, <1>2 DEF Call
<1>4. After(g, 2) = Apply(After(g, 1), calls[2])
  <2>1. Follows(1, 2, 5)
    BY DEF Follows
  <2>2. QED
    BY <2>1, <1>2 DEF Call
<1>5. After(g, 3) = Apply(After(g, 2), calls[3])
  <2>1. Follows(2, 3, 5)
    BY DEF Follows
  <2>2. QED
    BY <2>1, <1>2 DEF Call
<1>6. After(g, 4) = Apply(After(g, 3), calls[4])
  <2>1. Follows(3, 4, 5)
    BY DEF Follows
  <2>2. QED
    BY <2>1, <1>2 DEF Call
<1>7. After(g, 5) = Apply(After(g, 4), calls[5])
  <2>1. Follows(4, 5, 5)
    BY DEF Follows
  <2>2. QED
    BY <2>1, <1>2 DEF Call
<1>8. QED
  BY <1>2, <1>3, <1>4, <1>5, <1>6, <1>7 DEF Total

-----------------------------------------------------------------------------
\* The order of the chain.

LEMMA Numbers ==
  /\ Slots \subseteq Nat \ {0}
  /\ MaxTxs \in Nat
  BY DataAssumption

LEMMA TxNumbers ==
  ASSUME NEW t \in Tx
  PROVE  t.BlockSlot \in Nat /\ t.Indx \in Nat
<1>1. t.BlockSlot \in Slots /\ t.Indx \in 0..(MaxTxs - 1)
  BY DEF Tx
<1>2. t.BlockSlot \in Nat
  BY <1>1, Numbers
<1>3. t.Indx \in Nat
  BY <1>1, Numbers
<1>4. QED
  BY <1>2, <1>3

LEMMA ChainOrder ==
  ASSUME NEW t \in Tx, NEW u \in Tx
  PROVE  /\ ~IsBefore(t, t)
         /\ IsBefore(t, u) => ~IsBefore(u, t)
         /\ t # u => IsBefore(t, u) \/ IsBefore(u, t)
<1>1. /\ t.BlockSlot \in Nat /\ t.Indx \in Nat
      /\ u.BlockSlot \in Nat /\ u.Indx \in Nat
  BY TxNumbers
<1>2. t # u => t.BlockSlot # u.BlockSlot \/ t.Indx # u.Indx
  BY DEF Tx
<1>3. QED
  BY <1>1, <1>2 DEF IsBefore

LEMMA ChainOrderIsTransitive ==
  ASSUME NEW t \in Tx, NEW u \in Tx, NEW v \in Tx, IsBefore(t, u), IsBefore(u, v)
  PROVE  IsBefore(t, v)
<1>1. /\ t.BlockSlot \in Nat /\ t.Indx \in Nat /\ u.BlockSlot \in Nat /\ u.Indx \in Nat
      /\ v.BlockSlot \in Nat /\ v.Indx \in Nat
  BY TxNumbers
<1>2. QED
  BY <1>1 DEF IsBefore

\* A block's transactions are finitely many, and in its slot.
LEMMA BlockTxs ==
  ASSUME NEW b \in Block
  PROVE  /\ IsFiniteSet(TxsOf(b))
         /\ TxsOf(b) \in SUBSET Tx
         /\ \A t \in TxsOf(b) : t.BlockSlot = b.Slot
<1>1. b.Slot \in Slots /\ b.Txs \in 0..MaxTxs /\ b.Txs \in Nat
  BY Numbers DEF Block
<1> DEFINE f == [i \in 0..(b.Txs - 1) |-> [BlockSlot |-> b.Slot, Indx |-> i]]
<1>2. f \in Surjection(0..(b.Txs - 1), TxsOf(b))
  BY <1>1 DEF Surjection, TxsOf
<1>3. IsFiniteSet(0..(b.Txs - 1))
  BY <1>1, FS_Interval
<1>4. IsFiniteSet(TxsOf(b))
  BY <1>2, <1>3, FS_Surjection
<1>5. TxsOf(b) \in SUBSET Tx
  BY <1>1, Numbers DEF TxsOf, Tx
<1>6. QED
  BY <1>4, <1>5 DEF TxsOf

-----------------------------------------------------------------------------
\* Values in an order, a set of pairs.  Where a value goes is how many there
\* are before it.

IsOrder(V, R) ==
  /\ \A u \in V : <<u, u>> \notin R
  /\ \A u, v \in V : u # v => <<u, v>> \in R \/ <<v, u>> \in R
  /\ \A u, v, w \in V : <<u, v>> \in R /\ <<v, w>> \in R => <<u, w>> \in R

Before(V, R, v) == {u \in V : <<u, v>> \in R}
Place(V, R, v) == Cardinality(Before(V, R, v))
Ordered(V, R) == [i \in 1..Cardinality(V) |-> CHOOSE v \in V : Place(V, R, v) = i - 1]

LEMMA FewerBefore ==
  ASSUME NEW V, IsFiniteSet(V), NEW R, IsOrder(V, R), NEW v \in V
  PROVE  /\ IsFiniteSet(Before(V, R, v))
         /\ Place(V, R, v) \in 0..(Cardinality(V) - 1)
<1>1. Before(V, R, v) \in SUBSET V /\ v \notin Before(V, R, v)
  BY DEF Before, IsOrder
<1>2. Cardinality(V) \in Nat
  BY FS_CardinalityType
<1>3. /\ IsFiniteSet(Before(V, R, v))
      /\ Cardinality(Before(V, R, v)) <= Cardinality(V)
      /\ Cardinality(V) = Cardinality(Before(V, R, v)) => V = Before(V, R, v)
  BY <1>1, FS_Subset
<1>4. Cardinality(Before(V, R, v)) \in Nat
  BY <1>3, FS_CardinalityType
<1>5. QED
  BY <1>1, <1>2, <1>3, <1>4 DEF Place

LEMMA LaterPlace ==
  ASSUME NEW V, IsFiniteSet(V), NEW R, IsOrder(V, R), NEW u \in V, NEW v \in V, <<u, v>> \in R
  PROVE  Place(V, R, u) < Place(V, R, v)
<1>1. Before(V, R, u) \in SUBSET Before(V, R, v)
  BY DEF Before, IsOrder
<1>2. u \in Before(V, R, v) /\ u \notin Before(V, R, u)
  BY DEF Before, IsOrder
<1>3. IsFiniteSet(Before(V, R, u)) /\ IsFiniteSet(Before(V, R, v))
  BY FewerBefore
<1>4. /\ Cardinality(Before(V, R, u)) <= Cardinality(Before(V, R, v))
      /\ Cardinality(Before(V, R, u)) # Cardinality(Before(V, R, v))
  BY <1>1, <1>2, <1>3, FS_Subset
<1>5. Cardinality(Before(V, R, u)) \in Nat /\ Cardinality(Before(V, R, v)) \in Nat
  BY <1>3, FS_CardinalityType
<1>6. QED
  BY <1>4, <1>5 DEF Place

LEMMA OnePlace ==
  ASSUME NEW V, IsFiniteSet(V), NEW R, IsOrder(V, R), NEW u \in V, NEW v \in V
  PROVE  /\ Place(V, R, u) = Place(V, R, v) => u = v
         /\ Place(V, R, u) < Place(V, R, v) => <<u, v>> \in R
<1>1. Place(V, R, u) \in Nat /\ Place(V, R, v) \in Nat
  BY FewerBefore
<1>2. <<v, u>> \in R => Place(V, R, v) < Place(V, R, u)
  BY LaterPlace
<1>3. <<u, v>> \in R => Place(V, R, u) < Place(V, R, v)
  BY LaterPlace
<1>4. QED
  BY <1>1, <1>2, <1>3 DEF IsOrder

\* Each place in the order is one value's.
LEMMA EveryPlace ==
  ASSUME NEW V, IsFiniteSet(V), NEW R, IsOrder(V, R), NEW i \in 1..Cardinality(V)
  PROVE  \E v \in V : Place(V, R, v) = i - 1
<1> DEFINE n == Cardinality(V)
           f == [v \in V |-> Place(V, R, v)]
<1>1. n \in Nat
  BY FS_CardinalityType
<1>2. PICK places : places = 0..(n - 1)
  OBVIOUS
<1>3. f \in [V -> places]
  BY <1>2, FewerBefore
<1>4. ASSUME NEW u \in V, NEW v \in V, f[u] = f[v]
      PROVE  u = v
  BY <1>4, OnePlace
<1>5. f \in Injection(V, places)
  BY <1>3, <1>4 DEF Injection, IsInjective
<1>6. IsFiniteSet(places) /\ Cardinality(places) = Cardinality(V)
  BY <1>1, <1>2, FS_Interval
<1>7. f \in Surjection(V, places)
  <2> HIDE DEF f
  <2>1. QED
    BY <1>5, <1>6, FS_Injection
<1>8. i - 1 \in places
  BY <1>1, <1>2
<1>9. QED
  BY <1>7, <1>8 DEF Surjection

LEMMA OrderedValues ==
  ASSUME NEW V, IsFiniteSet(V), NEW R, IsOrder(V, R)
  PROVE  /\ Cardinality(V) \in Nat
         /\ Ordered(V, R) \in [1..Cardinality(V) -> V]
         /\ \A i \in 1..Cardinality(V) : Place(V, R, Ordered(V, R)[i]) = i - 1
<1>1. Cardinality(V) \in Nat
  BY FS_CardinalityType
<1> DEFINE At(i) == CHOOSE v \in V : Place(V, R, v) = i - 1
<1>2. Ordered(V, R) = [i \in 1..Cardinality(V) |-> At(i)]
  BY DEF Ordered
<1>3. ASSUME NEW i \in 1..Cardinality(V)
      PROVE  At(i) \in V /\ Place(V, R, At(i)) = i - 1
  BY EveryPlace
<1> HIDE DEF At
<1>4. QED
  BY <1>1, <1>2, <1>3

\* There is no other row of values in their places.
LEMMA OrderedOnce ==
  ASSUME NEW V, IsFiniteSet(V), NEW R, IsOrder(V, R), NEW row \in [1..Cardinality(V) -> V],
         \A i \in 1..Cardinality(V) : Place(V, R, row[i]) = i - 1
  PROVE  row = Ordered(V, R)
<1>1. PICK other \in [1..Cardinality(V) -> V] :
        other = Ordered(V, R) /\ \A i \in 1..Cardinality(V) : Place(V, R, other[i]) = i - 1
  BY OrderedValues
<1>2. ASSUME NEW i \in 1..Cardinality(V)
      PROVE  row[i] = other[i]
  <2>1. row[i] \in V /\ other[i] \in V /\ Place(V, R, row[i]) = Place(V, R, other[i])
    BY <1>1
  <2>2. QED
    BY <2>1, OnePlace
<1>3. row = other
  <2>1. PICK I : I = 1..Cardinality(V)
    OBVIOUS
  <2>2. row = [i \in I |-> row[i]] /\ other = [i \in I |-> other[i]]
    BY <2>1
  <2>3. QED
    BY <1>2, <2>1, <2>2
<1>4. QED
  BY <1>1, <1>3

\* Keys are ordered as their values.
KeysOf(V, key) == {key[v] : v \in V}
SameOrder(V, R, key, Q) ==
  \A u, v \in V : <<key[u], key[v]>> \in Q <=> <<u, v>> \in R

LEMMA KeyPlaces ==
  ASSUME NEW V, IsFiniteSet(V), NEW R, IsOrder(V, R), NEW key, NEW K, K = KeysOf(V, key),
         NEW Q, SameOrder(V, R, key, Q)
  PROVE  /\ \A u, v \in V : key[u] = key[v] => u = v
         /\ IsFiniteSet(K) /\ Cardinality(K) = Cardinality(V)
         /\ IsOrder(K, Q)
         /\ \A v \in V : Place(K, Q, key[v]) = Place(V, R, v)
<1> USE DEF KeysOf, SameOrder
<1>1. \A u, v \in V : key[u] = key[v] => u = v
  <2> SUFFICES ASSUME NEW u \in V, NEW v \in V, key[u] = key[v]
               PROVE  u = v
    OBVIOUS
  <2>1. ~(<<u, v>> \in R) /\ ~(<<v, u>> \in R)
    <3>1. <<u, u>> \notin R
      BY DEF IsOrder
    <3>2. <<key[u], key[u]>> \notin Q
      BY <3>1
    <3>3. <<key[u], key[v]>> \notin Q /\ <<key[v], key[u]>> \notin Q
      BY <3>2
    <3>4. QED
      BY <3>3
  <2>2. QED
    BY <2>1 DEF IsOrder
<1>2. ASSUME NEW S \in SUBSET V, NEW T, T = {key[v] : v \in S}
      PROVE  IsFiniteSet(T) /\ Cardinality(T) = Cardinality(S)
  <2> DEFINE f == [v \in S |-> key[v]]
  <2>1. f \in Bijection(S, T)
    BY <1>1, <1>2 DEF Bijection, Injection, IsInjective, Surjection
  <2>2. IsFiniteSet(S)
    BY FS_Subset
  <2>3. ExistsBijection(S, T)
    BY <2>1 DEF ExistsBijection
  <2>4. QED
    BY <2>2, <2>3, FS_Bijection
<1>3. IsFiniteSet(K) /\ Cardinality(K) = Cardinality(V)
  BY <1>2
<1>4. IsOrder(K, Q)
  <2>1. \A k \in K : \E v \in V : k = key[v]
    OBVIOUS
  <2>2. \A k \in K : <<k, k>> \notin Q
    BY <2>1 DEF IsOrder
  <2>3. \A j, k \in K : j # k => <<j, k>> \in Q \/ <<k, j>> \in Q
    BY <2>1 DEF IsOrder
  <2>4. ASSUME NEW j \in K, NEW k \in K, NEW l \in K, <<j, k>> \in Q, <<k, l>> \in Q
        PROVE  <<j, l>> \in Q
    <3>1. PICK u \in V, v \in V, w \in V : j = key[u] /\ k = key[v] /\ l = key[w]
      BY <2>1
    <3>2. <<u, v>> \in R /\ <<v, w>> \in R
      BY <2>4, <3>1
    <3>3. <<u, w>> \in R
      BY <3>2 DEF IsOrder
    <3>4. QED
      BY <3>1, <3>3
  <2>5. QED
    BY <2>2, <2>3, <2>4 DEF IsOrder
<1>5. ASSUME NEW v \in V
      PROVE  Place(K, Q, key[v]) = Place(V, R, v)
  <2>1. PICK S \in SUBSET V : S = Before(V, R, v)
    BY DEF Before
  <2>2. PICK T : T = Before(K, Q, key[v])
    OBVIOUS
  <2>3. T = {key[u] : u \in S}
    BY <2>1, <2>2 DEF Before
  <2>4. Cardinality(T) = Cardinality(S)
    BY <1>2, <2>3
  <2>5. QED
    BY <2>1, <2>2, <2>4 DEF Place
<1>6. QED
  BY <1>1, <1>3, <1>4, <1>5

\* Such keys stand in the order of their values.
LEMMA OrderedKeys ==
  ASSUME NEW V, IsFiniteSet(V), NEW R, IsOrder(V, R), NEW key, NEW K, K = KeysOf(V, key),
         NEW Q, SameOrder(V, R, key, Q)
  PROVE  /\ IsFiniteSet(K) /\ IsOrder(K, Q) /\ Cardinality(K) = Cardinality(V)
         /\ Ordered(K, Q) = [i \in 1..Cardinality(V) |-> key[Ordered(V, R)[i]]]
<1>1. PICK n : n = Cardinality(V)
  OBVIOUS
<1>2. PICK row \in [1..n -> V] :
        row = Ordered(V, R) /\ \A i \in 1..n : Place(V, R, row[i]) = i - 1
  BY <1>1, OrderedValues
<1>3. /\ IsFiniteSet(K) /\ IsOrder(K, Q) /\ Cardinality(K) = n
      /\ \A v \in V : Place(K, Q, key[v]) = Place(V, R, v)
  BY <1>1, KeyPlaces
<1>4. PICK keys : keys = [i \in 1..n |-> key[row[i]]]
  OBVIOUS
<1>5. ASSUME NEW i \in 1..n
      PROVE  keys[i] \in K /\ Place(K, Q, keys[i]) = i - 1
  <2>1. PICK v \in V : v = row[i]
    BY <1>2
  <2>2. keys[i] = key[v]
    BY <1>4, <2>1
  <2>3. key[v] \in K
    BY DEF KeysOf
  <2>4. QED
    BY <1>2, <1>3, <2>1, <2>2, <2>3
<1>6. keys = Ordered(K, Q)
  <2>1. keys \in [1..Cardinality(K) -> K]
    BY <1>3, <1>4, <1>5
  <2>2. \A i \in 1..Cardinality(K) : Place(K, Q, keys[i]) = i - 1
    BY <1>3, <1>5
  <2>3. QED
    BY <1>3, <2>1, <2>2, OrderedOnce
<1>7. QED
  BY <1>1, <1>2, <1>3, <1>4, <1>6

-----------------------------------------------------------------------------
\* What a reader gets: the first transactions in the order of the chain.

ChainPairs(txs) == {p \in txs \X txs : IsBefore(p[1], p[2])}

LEMMA ChainPairsOrder ==
  ASSUME NEW txs \in SUBSET Tx
  PROVE  /\ IsOrder(txs, ChainPairs(txs))
         /\ \A t, u \in txs : <<t, u>> \in ChainPairs(txs) <=> IsBefore(t, u)
<1>1. \A t, u \in txs : <<t, u>> \in ChainPairs(txs) <=> IsBefore(t, u)
  BY DEF ChainPairs
<1>2. QED
  BY <1>1, ChainOrder, ChainOrderIsTransitive DEF IsOrder

InChainOrder(txs) == Sorted(txs, IsBefore)

LEMMA SortedTxs ==
  ASSUME NEW txs \in SUBSET Tx, IsFiniteSet(txs)
  PROVE  InChainOrder(txs) = Ordered(txs, ChainPairs(txs))
<1> DEFINE n == Cardinality(txs)
           R == ChainPairs(txs)
           At(i) == CHOOSE t \in txs : Cardinality({u \in txs : IsBefore(u, t)}) = i - 1
<1>1. InChainOrder(txs) = [i \in 1..n |-> At(i)]
  BY DEF InChainOrder, Sorted
<1>2. \A t \in txs : Place(txs, R, t) = Cardinality({u \in txs : IsBefore(u, t)})
  BY ChainPairsOrder DEF Place, Before
<1>3. ASSUME NEW i \in 1..n
      PROVE  At(i) \in txs /\ Place(txs, R, At(i)) = i - 1
  <2>1. \E t \in txs : Place(txs, R, t) = i - 1
    BY EveryPlace, ChainPairsOrder
  <2>2. QED
    BY <1>2, <2>1
<1> HIDE DEF At, R
<1>4. PICK row : row = [i \in 1..n |-> At(i)]
  OBVIOUS
<1>5. row \in [1..n -> txs] /\ \A i \in 1..n : Place(txs, R, row[i]) = i - 1
  BY <1>3, <1>4
<1>6. row = Ordered(txs, R)
  BY <1>5, OrderedOnce, ChainPairsOrder DEF R
<1>7. QED
  BY <1>1, <1>4, <1>6 DEF R

\* Keys in the order of their bytes.
KeyPairs(keys) == {p \in keys \X keys : Below(p[1], p[2])}
InKeyOrder(keys) == Sorted(keys, Below)

LEMMA SortedKeys ==
  ASSUME NEW keys, IsFiniteSet(keys), IsOrder(keys, KeyPairs(keys))
  PROVE  InKeyOrder(keys) = Ordered(keys, KeyPairs(keys))
<1> DEFINE n == Cardinality(keys)
           R == KeyPairs(keys)
           At(i) == CHOOSE k \in keys : Cardinality({j \in keys : Below(j, k)}) = i - 1
<1>1. InKeyOrder(keys) = [i \in 1..n |-> At(i)]
  BY DEF InKeyOrder, Sorted
<1>2. \A k \in keys : Place(keys, R, k) = Cardinality({j \in keys : Below(j, k)})
  <2>1. \A j, k \in keys : <<j, k>> \in R <=> Below(j, k)
    BY DEF KeyPairs
  <2>2. \A k \in keys : Before(keys, R, k) = {j \in keys : Below(j, k)}
    <3> HIDE DEF R
    <3>1. QED
      BY <2>1 DEF Before
  <2>3. QED
    BY <2>2 DEF Place
<1>3. ASSUME NEW i \in 1..n
      PROVE  At(i) \in keys /\ Place(keys, R, At(i)) = i - 1
  <2>1. \E k \in keys : Place(keys, R, k) = i - 1
    BY EveryPlace
  <2>2. QED
    BY <1>2, <2>1
<1> HIDE DEF At, R
<1>4. PICK row : row = [i \in 1..n |-> At(i)]
  OBVIOUS
<1>5. row \in [1..n -> keys] /\ \A i \in 1..n : Place(keys, R, row[i]) = i - 1
  BY <1>3, <1>4
<1>6. row = Ordered(keys, R)
  BY <1>5, OrderedOnce DEF R
<1>7. QED
  BY <1>1, <1>4, <1>6 DEF R

\* Keys of values in some order, if the keys have the same.
KeysInOrder(V, R, key) ==
  \A u, v \in V : Below(key[u], key[v]) <=> <<u, v>> \in R

Keyed(n, key, row) == [i \in 1..n |-> key[row[i]]]

LEMMA KeyRow ==
  ASSUME NEW V, IsFiniteSet(V), NEW R, IsOrder(V, R), NEW key, KeysInOrder(V, R, key),
         NEW keys, keys = KeysOf(V, key)
  PROVE  /\ IsFiniteSet(keys)
         /\ InKeyOrder(keys) = Keyed(Cardinality(V), key, Ordered(V, R))
<1>1. SameOrder(V, R, key, KeyPairs(keys))
  <2>1. ASSUME NEW u \in V, NEW v \in V
        PROVE  <<key[u], key[v]>> \in KeyPairs(keys) <=> Below(key[u], key[v])
    <3>1. key[u] \in keys /\ key[v] \in keys
      BY DEF KeysOf
    <3>2. PICK j \in keys, k \in keys : j = key[u] /\ k = key[v]
      BY <3>1
    <3>3. <<j, k>> \in KeyPairs(keys) <=> Below(j, k)
      BY DEF KeyPairs
    <3>4. QED
      BY <3>2, <3>3
  <2>2. QED
    BY <2>1 DEF SameOrder, KeysInOrder
<1>2. /\ IsFiniteSet(keys) /\ IsOrder(keys, KeyPairs(keys))
      /\ Ordered(keys, KeyPairs(keys)) = [i \in 1..Cardinality(V) |-> key[Ordered(V, R)[i]]]
  BY <1>1, OrderedKeys
<1>3. QED
  BY <1>2, SortedKeys DEF Keyed

\* The values found with a cursor over the keys.
Found(keys, values) == [i \in DOMAIN InKeyOrder(keys) |-> values[InKeyOrder(keys)[i]]]

LEMMA FoundInOrder ==
  ASSUME NEW V, IsFiniteSet(V), NEW R, IsOrder(V, R), NEW key, KeysInOrder(V, R, key),
         NEW keys, keys = KeysOf(V, key), NEW values, \A v \in V : values[key[v]] = v
  PROVE  Found(keys, values) = Ordered(V, R)
<1>1. PICK n : n = Cardinality(V)
  OBVIOUS
<1>2. PICK row \in [1..n -> V] : row = Ordered(V, R)
  BY <1>1, OrderedValues
<1>3. PICK sorted : sorted = InKeyOrder(keys)
  OBVIOUS
<1>4. sorted = [i \in 1..n |-> key[row[i]]]
  <2>1. sorted = Keyed(n, key, row)
    BY <1>1, <1>2, <1>3, KeyRow
  <2>2. QED
    BY <2>1 DEF Keyed
<1>5. Found(keys, values) = [i \in 1..n |-> values[sorted[i]]]
  BY <1>3, <1>4 DEF Found
<1>6. ASSUME NEW i \in 1..n
      PROVE  values[sorted[i]] = row[i]
  <2>1. PICK v \in V : v = row[i]
    BY <1>2
  <2>2. sorted[i] = key[v]
    BY <1>4, <2>1
  <2>3. QED
    BY <2>1, <2>2
<1>7. Found(keys, values) = [i \in 1..n |-> row[i]]
  BY <1>5, <1>6
<1>8. QED
  BY <1>2, <1>7

IsRow(values, n, S) == n \in Nat /\ values \in [1..n -> S]
Firsts(values, m) == {values[i] : i \in 1..m}

LEMMA LimitedValues ==
  ASSUME NEW S, NEW n, NEW values, IsRow(values, n, S), NEW maxCnt \in Nat
  PROVE  \E m \in 0..n : ToSet(Limited(values, maxCnt)) = Firsts(values, m)
<1>1. /\ n \in Nat /\ values \in [1..n -> S]
      /\ values \in Seq(S) /\ Len(values) = n /\ DOMAIN values = 1..n
  BY DEF IsRow
<1>2. CASE maxCnt = 0 \/ n < maxCnt
  BY <1>1, <1>2 DEF Limited, ToSet, Firsts
<1>3. CASE maxCnt # 0 /\ ~(n < maxCnt)
  <2>1. Limited(values, maxCnt) = SubSeq(values, 1, maxCnt)
    BY <1>1, <1>3 DEF Limited
  <2>2. SubSeq(values, 1, maxCnt) = [i \in 1..maxCnt |-> values[i]]
    BY <1>1, <1>3
  <2>3. ToSet(Limited(values, maxCnt)) = {values[i] : i \in 1..maxCnt}
    BY <2>1, <2>2 DEF ToSet
  <2>4. maxCnt \in 0..n
    BY <1>1, <1>3
  <2>5. QED
    BY <2>3, <2>4 DEF Firsts
<1>4. QED
  BY <1>2, <1>3

FirstOnes(txs, maxCnt) == ToSet(Limited(InChainOrder(txs), maxCnt))

\* Whatever the limit, what a reader gets comes before what it does not get.
LEMMA Portion ==
  ASSUME NEW txs \in SUBSET Tx, IsFiniteSet(txs), NEW maxCnt \in Nat,
         NEW portion, portion = FirstOnes(txs, maxCnt)
  PROVE  /\ portion \in SUBSET txs
         /\ \A t \in portion, u \in txs \ portion : IsBefore(t, u)
<1> DEFINE n == Cardinality(txs)
           R == ChainPairs(txs)
<1>1. IsOrder(txs, R) /\ \A t, u \in txs : <<t, u>> \in R <=> IsBefore(t, u)
  BY ChainPairsOrder
<1> HIDE DEF R
<1>2. PICK s \in [1..n -> txs] :
        s = Ordered(txs, R) /\ \A i \in 1..n : Place(txs, R, s[i]) = i - 1
  BY <1>1, OrderedValues
<1>3. n \in Nat
  BY FS_CardinalityType
<1>4. PICK m \in 0..n : portion = {s[i] : i \in 1..m}
  <2>1. IsRow(s, n, txs)
    BY <1>2, <1>3 DEF IsRow
  <2>2. PICK m \in 0..n : ToSet(Limited(s, maxCnt)) = Firsts(s, m)
    BY <2>1, LimitedValues
  <2>3. s = InChainOrder(txs)
    BY <1>2, SortedTxs DEF R
  <2>4. QED
    BY <2>2, <2>3 DEF Firsts, FirstOnes
<1>5. ASSUME NEW u \in txs \ portion
      PROVE  Place(txs, R, u) \in Nat /\ Place(txs, R, u) >= m
  <2>1. Place(txs, R, u) \in 0..(n - 1)
    BY <1>1, FewerBefore
  <2>2. PICK k \in 1..n : k = Place(txs, R, u) + 1
    BY <1>3, <2>1
  <2>3. Place(txs, R, s[k]) = Place(txs, R, u) /\ s[k] \in txs
    BY <1>2, <2>1, <2>2
  <2>4. s[k] = u
    BY <1>1, <2>3, OnePlace
  <2>5. ~(k \in 1..m)
    BY <1>4, <2>4
  <2>6. QED
    BY <2>1, <2>2, <2>5
<1>6. ASSUME NEW t \in portion, NEW u \in txs \ portion
      PROVE  IsBefore(t, u)
  <2>1. PICK i \in 1..m : t = s[i]
    BY <1>4
  <2>2. i \in 1..n
    BY <1>3
  <2>3. Place(txs, R, t) = i - 1 /\ t \in txs
    BY <1>2, <2>1, <2>2
  <2>4. Place(txs, R, t) < Place(txs, R, u)
    <3>1. i \in Nat /\ i <= m /\ m \in Nat
      BY <1>3, <2>1
    <3>2. QED
      BY <1>5, <2>3, <3>1
  <2>5. <<t, u>> \in R
    BY <1>1, <2>3, <2>4, OnePlace
  <2>6. QED
    BY <1>1, <2>3, <2>5
<1>7. portion \in SUBSET txs
  BY <1>2, <1>3, <1>4
<1>8. QED
  BY <1>6, <1>7

-----------------------------------------------------------------------------
\* What the queries list: blocks by their slots, in either direction, and
\* outputs by their slots and by what identifies them.

LEMMA ReversedOrder ==
  ASSUME NEW V, IsFiniteSet(V), NEW R, IsOrder(V, R), NEW Q,
         \A u, v \in V : <<u, v>> \in Q <=> <<v, u>> \in R
  PROVE  /\ IsOrder(V, Q)
         /\ Ordered(V, Q) =
              [i \in 1..Cardinality(V) |-> Ordered(V, R)[Cardinality(V) - i + 1]]
<1>1. PICK n \in Nat : n = Cardinality(V)
  BY FS_CardinalityType
<1>2. IsOrder(V, Q)
  BY DEF IsOrder
<1>3. ASSUME NEW v \in V
      PROVE  Place(V, Q, v) = n - 1 - Place(V, R, v)
  <2>1. PICK below, above : below = Before(V, R, v) /\ above = Before(V, Q, v)
    OBVIOUS
  <2>2. IsFiniteSet(below) /\ IsFiniteSet(above)
    BY <1>2, <2>1, FewerBefore
  <2>3. \A u \in V : (u \in below <=> <<u, v>> \in R) /\ (u \in above <=> <<v, u>> \in R)
    BY <2>1 DEF Before
  <2>4. below \cap above = {} /\ below \cup above = V \ {v}
    <3>1. below \in SUBSET V /\ above \in SUBSET V
      BY <2>1 DEF Before
    <3>2. \A u \in V : ~(<<u, v>> \in R /\ <<v, u>> \in R) /\ <<v, v>> \notin R
      BY DEF IsOrder
    <3>3. \A u \in V : u # v => <<u, v>> \in R \/ <<v, u>> \in R
      BY DEF IsOrder
    <3>4. QED
      BY <2>3, <3>1, <3>2, <3>3
  <2>5. Cardinality(V \ {v}) = n - 1
    BY <1>1, FS_RemoveElement
  <2>6. Cardinality(below \cup above) =
          Cardinality(below) + Cardinality(above) - Cardinality(below \cap above)
    BY <2>2, FS_Union
  <2>7. Cardinality(below \cap above) = 0
    BY <2>4, FS_EmptySet
  <2>8. Cardinality(below) \in Nat /\ Cardinality(above) \in Nat
    BY <2>2, FS_CardinalityType
  <2>9. PICK x \in Nat, y \in Nat : x = Cardinality(below) /\ y = Cardinality(above)
    BY <2>8
  <2>10. Cardinality(below \cup above) = x + y - 0
    BY <2>6, <2>7, <2>9
  <2>11. n - 1 = x + y
    <3>1. Cardinality(below \cup above) = n - 1
      BY <2>4, <2>5
    <3>2. QED
      BY <2>9, <2>10, <3>1
  <2>12. Place(V, R, v) = x /\ Place(V, Q, v) = y
    BY <2>1, <2>9 DEF Place
  <2>13. QED
    BY <2>9, <2>11, <2>12
<1>4. PICK row \in [1..n -> V] :
        row = Ordered(V, R) /\ \A i \in 1..n : Place(V, R, row[i]) = i - 1
  BY <1>1, OrderedValues
<1>5. PICK back : back = [i \in 1..n |-> row[n - i + 1]]
  OBVIOUS
<1>6. ASSUME NEW i \in 1..n
      PROVE  back[i] \in V /\ Place(V, Q, back[i]) = i - 1
  <2>1. n - i + 1 \in 1..n /\ back[i] = row[n - i + 1]
    BY <1>5
  <2>2. Place(V, R, row[n - i + 1]) = (n - i + 1) - 1 /\ row[n - i + 1] \in V
    BY <1>4, <2>1
  <2>3. Place(V, Q, row[n - i + 1]) = n - 1 - ((n - i + 1) - 1)
    BY <1>3, <2>2
  <2>4. QED
    BY <2>1, <2>2, <2>3
<1>7. back \in [1..n -> V]
  BY <1>5, <1>6
<1>8. back = Ordered(V, Q)
  BY <1>1, <1>2, <1>6, <1>7, OrderedOnce
<1>9. QED
  BY <1>1, <1>2, <1>4, <1>5, <1>8

UniqueSlots(blocks) == \A b, c \in blocks : b.Slot = c.Slot => b = c
SlotPairs(blocks) == {p \in blocks \X blocks : p[1].Slot < p[2].Slot}
InSlotOrder(blocks) == Sorted(blocks, LAMBDA b, c : b.Slot < c.Slot)
LastSlotFirst(blocks) == Sorted(blocks, LAMBDA b, c : b.Slot > c.Slot)

LEMMA SlotPairsOrder ==
  ASSUME NEW blocks \in SUBSET Block, UniqueSlots(blocks)
  PROVE  /\ IsOrder(blocks, SlotPairs(blocks))
         /\ \A b, c \in blocks : <<b, c>> \in SlotPairs(blocks) <=> b.Slot < c.Slot
<1>1. \A b, c \in blocks : <<b, c>> \in SlotPairs(blocks) <=> b.Slot < c.Slot
  BY DEF SlotPairs
<1>2. \A b \in blocks : b.Slot \in Nat
  BY Numbers DEF Block
<1>3. QED
  BY <1>1, <1>2 DEF IsOrder, UniqueSlots

LEMMA SortedBlocks ==
  ASSUME NEW blocks \in SUBSET Block, IsFiniteSet(blocks), UniqueSlots(blocks)
  PROVE  InSlotOrder(blocks) = Ordered(blocks, SlotPairs(blocks))
<1> DEFINE n == Cardinality(blocks)
           R == SlotPairs(blocks)
           At(i) == CHOOSE b \in blocks : Cardinality({c \in blocks : c.Slot < b.Slot}) = i - 1
<1>1. InSlotOrder(blocks) = [i \in 1..n |-> At(i)]
  BY DEF InSlotOrder, Sorted
<1>2. \A b \in blocks : Place(blocks, R, b) = Cardinality({c \in blocks : c.Slot < b.Slot})
  BY SlotPairsOrder DEF Place, Before
<1>3. ASSUME NEW i \in 1..n
      PROVE  At(i) \in blocks /\ Place(blocks, R, At(i)) = i - 1
  <2>1. \E b \in blocks : Place(blocks, R, b) = i - 1
    BY EveryPlace, SlotPairsOrder
  <2>2. QED
    BY <1>2, <2>1
<1> HIDE DEF At, R
<1>4. PICK row : row = [i \in 1..n |-> At(i)]
  OBVIOUS
<1>5. row \in [1..n -> blocks] /\ \A i \in 1..n : Place(blocks, R, row[i]) = i - 1
  BY <1>3, <1>4
<1>6. row = Ordered(blocks, R)
  BY <1>5, OrderedOnce, SlotPairsOrder DEF R
<1>7. QED
  BY <1>1, <1>4, <1>6 DEF R

LEMMA SortedBack ==
  ASSUME NEW blocks \in SUBSET Block, IsFiniteSet(blocks), UniqueSlots(blocks)
  PROVE  LastSlotFirst(blocks) = Reverse(InSlotOrder(blocks))
<1> DEFINE n == Cardinality(blocks)
           R == SlotPairs(blocks)
           Q == {p \in blocks \X blocks : p[1].Slot > p[2].Slot}
           At(i) == CHOOSE b \in blocks : Cardinality({c \in blocks : c.Slot > b.Slot}) = i - 1
<1>1. LastSlotFirst(blocks) = [i \in 1..n |-> At(i)]
  BY DEF LastSlotFirst, Sorted
<1>2. \A b, c \in blocks : <<b, c>> \in Q <=> b.Slot > c.Slot
  OBVIOUS
<1>3. \A b, c \in blocks : <<b, c>> \in Q <=> <<c, b>> \in R
  <2>1. \A b \in blocks : b.Slot \in Nat
    BY Numbers DEF Block
  <2>2. QED
    BY <1>2, <2>1, SlotPairsOrder
<1> HIDE DEF R, Q
<1>4. IsOrder(blocks, R)
  BY SlotPairsOrder DEF R
<1>5. /\ IsOrder(blocks, Q)
      /\ Ordered(blocks, Q) = [i \in 1..n |-> Ordered(blocks, R)[n - i + 1]]
  BY <1>3, <1>4, ReversedOrder
<1>6. \A b \in blocks : Place(blocks, Q, b) = Cardinality({c \in blocks : c.Slot > b.Slot})
  BY <1>2 DEF Place, Before
<1>7. ASSUME NEW i \in 1..n
      PROVE  At(i) \in blocks /\ Place(blocks, Q, At(i)) = i - 1
  <2>1. \E b \in blocks : Place(blocks, Q, b) = i - 1
    BY <1>5, EveryPlace
  <2>2. QED
    BY <1>6, <2>1
<1> HIDE DEF At
<1>8. PICK row : row = [i \in 1..n |-> At(i)]
  OBVIOUS
<1>9. row \in [1..n -> blocks] /\ \A i \in 1..n : Place(blocks, Q, row[i]) = i - 1
  BY <1>7, <1>8
<1>10. row = Ordered(blocks, Q)
  BY <1>5, <1>9, OrderedOnce
<1>11. PICK up \in [1..n -> blocks] : up = InSlotOrder(blocks) /\ up = Ordered(blocks, R)
  BY <1>4, SortedBlocks, OrderedValues DEF R
<1>12. n \in Nat
  BY FS_CardinalityType
<1>13. Reverse(up) = [i \in 1..n |-> up[(n - i) + 1]]
  BY <1>11, <1>12 DEF Reverse
<1>14. QED
  BY <1>1, <1>5, <1>8, <1>10, <1>11, <1>13

\* Outputs as a query lists them.
Listed == [Input : TxInputs, Output : Output]
OutputBefore(r, s) ==
  \/ r.Output.Slot < s.Output.Slot
  \/ /\ r.Output.Slot = s.Output.Slot
     /\ \/ r.Input.Hash < s.Input.Hash
        \/ r.Input.Hash = s.Input.Hash /\ r.Input.Index < s.Input.Index
UniqueInputs(list) == \A r, s \in list : r.Input = s.Input => r = s
ListedPairs(list) == {p \in list \X list : OutputBefore(p[1], p[2])}

LEMMA InputNumbers ==
  ASSUME NEW i \in TxInputs
  PROVE  /\ i.Hash \in Nat /\ i.Index \in Nat
         /\ \A j \in TxInputs : i.Hash = j.Hash /\ i.Index = j.Index => i = j
<1>1. PICK h, x : h = Power[HashSize] - 1 /\ x = Power[IndexWidth] - 1
  OBVIOUS
<1>2. TxInputs \subseteq [Hash : 0..h, Index : 0..x]
  BY <1>1, DataAssumption
<1>3. QED
  BY <1>2

LEMMA ListedNumbers ==
  ASSUME NEW r \in Listed
  PROVE  /\ r.Input \in TxInputs /\ r.Output.Slot \in Nat
         /\ r.Input.Hash \in Nat /\ r.Input.Index \in Nat
<1>1. r.Input \in TxInputs /\ r.Output.Slot \in Slots
  BY DEF Listed, Output
<1>2. QED
  BY <1>1, Numbers, InputNumbers

LEMMA ListedPairsOrder ==
  ASSUME NEW list \in SUBSET Listed, UniqueInputs(list)
  PROVE  /\ IsOrder(list, ListedPairs(list))
         /\ \A r, s \in list : <<r, s>> \in ListedPairs(list) <=> OutputBefore(r, s)
<1>1. \A r, s \in list : <<r, s>> \in ListedPairs(list) <=> OutputBefore(r, s)
  BY DEF ListedPairs
<1>2. \A r \in list : /\ r.Input \in TxInputs /\ r.Output.Slot \in Nat
                      /\ r.Input.Hash \in Nat /\ r.Input.Index \in Nat
  BY ListedNumbers
<1>3. ASSUME NEW r \in list, NEW s \in list, r # s
      PROVE  OutputBefore(r, s) \/ OutputBefore(s, r)
  <2>1. r.Input # s.Input
    BY <1>3 DEF UniqueInputs
  <2>2. r.Input.Hash # s.Input.Hash \/ r.Input.Index # s.Input.Index
    BY <1>2, <2>1, InputNumbers
  <2>3. QED
    BY <1>2, <2>2 DEF OutputBefore
<1>4. ASSUME NEW r \in list, NEW s \in list, NEW t \in list,
             OutputBefore(r, s), OutputBefore(s, t)
      PROVE  OutputBefore(r, t)
  BY <1>2, <1>4 DEF OutputBefore
<1>5. \A r \in list : ~OutputBefore(r, r)
  BY <1>2 DEF OutputBefore
<1>6. QED
  BY <1>1, <1>3, <1>4, <1>5 DEF IsOrder

LEMMA SortedOutputs ==
  ASSUME NEW list \in SUBSET Listed, IsFiniteSet(list), UniqueInputs(list)
  PROVE  SortTxInputOutputs(list) = Ordered(list, ListedPairs(list))
<1> DEFINE n == Cardinality(list)
           R == ListedPairs(list)
           At(i) == CHOOSE r \in list : Cardinality({s \in list : OutputBefore(s, r)}) = i - 1
<1>1. SortTxInputOutputs(list) = [i \in 1..n |-> At(i)]
  BY Zenon DEF SortTxInputOutputs, Sorted, OutputBefore
<1>2. \A r \in list : Place(list, R, r) = Cardinality({s \in list : OutputBefore(s, r)})
  BY ListedPairsOrder DEF Place, Before
<1>3. ASSUME NEW i \in 1..n
      PROVE  At(i) \in list /\ Place(list, R, At(i)) = i - 1
  <2>1. \E r \in list : Place(list, R, r) = i - 1
    BY EveryPlace, ListedPairsOrder
  <2>2. QED
    BY <1>2, <2>1
<1> HIDE DEF At, R
<1>4. PICK row : row = [i \in 1..n |-> At(i)]
  OBVIOUS
<1>5. row \in [1..n -> list] /\ \A i \in 1..n : Place(list, R, row[i]) = i - 1
  BY <1>3, <1>4
<1>6. row = Ordered(list, R)
  BY <1>5, OrderedOnce, ListedPairsOrder DEF R
<1>7. QED
  BY <1>1, <1>4, <1>6 DEF R

\* The outputs come by their slots, each once.
IsListing(row, n, list) ==
  /\ n \in Nat /\ row \in [1..n -> list]
  /\ \A i, j \in 1..n : i < j => row[i] # row[j] /\ row[i].Output.Slot <= row[j].Output.Slot

LEMMA ListedBySlot ==
  ASSUME NEW list \in SUBSET Listed, IsFiniteSet(list), UniqueInputs(list)
  PROVE  IsListing(SortTxInputOutputs(list), Cardinality(list), list)
<1>1. PICK R : R = ListedPairs(list)
  OBVIOUS
<1>2. IsOrder(list, R) /\ \A r, s \in list : <<r, s>> \in R <=> OutputBefore(r, s)
  BY <1>1, ListedPairsOrder
<1>3. PICK n \in Nat : n = Cardinality(list)
  BY FS_CardinalityType
<1>4. PICK row \in [1..n -> list] :
        row = SortTxInputOutputs(list) /\ \A i \in 1..n : Place(list, R, row[i]) = i - 1
  BY <1>1, <1>2, <1>3, SortedOutputs, OrderedValues
<1>5. ASSUME NEW i \in 1..n, NEW j \in 1..n, i < j
      PROVE  row[i] # row[j] /\ row[i].Output.Slot <= row[j].Output.Slot
  <2>1. /\ row[i] \in list /\ row[j] \in list
        /\ Place(list, R, row[i]) = i - 1 /\ Place(list, R, row[j]) = j - 1
    BY <1>4
  <2>2. i - 1 < j - 1 /\ i - 1 # j - 1
    BY <1>5
  <2>3. OutputBefore(row[i], row[j])
    BY <1>2, <2>1, <2>2, OnePlace
  <2>4. QED
    BY <2>1, <2>2, <2>3, ListedNumbers DEF OutputBefore
<1>6. QED
  BY <1>3, <1>4, <1>5 DEF IsListing

LEMMA FiniteInputs == IsFiniteSet(TxInputs)
<1>1. PICK h \in Nat, x \in Nat : h = Power[HashSize] - 1 /\ x = Power[IndexWidth] - 1
  <2>1. PICK p \in Nat, q \in Nat :
          p = Power[HashSize] /\ p > 0 /\ q = Power[IndexWidth] /\ q > 0
    BY Powers, Widths
  <2>2. p - 1 \in Nat /\ q - 1 \in Nat
    BY <2>1
  <2>3. QED
    BY <2>1, <2>2
<1>2. TxInputs \subseteq [Hash : 0..h, Index : 0..x]
  BY <1>1, DataAssumption
<1>3. PICK hashes, indices : hashes = 0..h /\ indices = 0..x
  OBVIOUS
<1>4. IsFiniteSet(hashes) /\ IsFiniteSet(indices)
  BY <1>3, FS_Interval
<1>5. IsFiniteSet(hashes \X indices)
  BY <1>4, FS_Product
<1> DEFINE f == [i \in TxInputs |-> <<i.Hash, i.Index>>]
<1>6. f \in Injection(TxInputs, hashes \X indices)
  <2>1. \A i \in TxInputs : i.Hash \in hashes /\ i.Index \in indices
    BY <1>2, <1>3
  <2>2. f \in [TxInputs -> hashes \X indices]
    BY <2>1
  <2>3. ASSUME NEW i \in TxInputs, NEW j \in TxInputs, f[i] = f[j]
        PROVE  i = j
    <3>1. <<i.Hash, i.Index>> = <<j.Hash, j.Index>>
      BY <2>3
    <3>2. QED
      BY <3>1, InputNumbers
  <2>4. QED
    BY <2>2, <2>3 DEF Injection, IsInjective
<1>7. QED
  BY <1>5, <1>6, FS_Injection

LEMMA FiniteBlocks == IsFiniteSet(Block)
<1>1. PICK s \in Nat, m \in Nat : s = Power[SlotWidth] - 1 /\ m = MaxTxs
  <2>1. PICK p \in Nat : p = Power[SlotWidth] /\ p > 0
    BY Powers, Widths
  <2>2. p - 1 \in Nat
    BY <2>1
  <2>3. QED
    BY <2>1, <2>2, Numbers
<1>2. PICK slots, numbers : slots = 1..s /\ numbers = 0..m
  OBVIOUS
<1>3. IsFiniteSet(slots) /\ IsFiniteSet(numbers)
  BY <1>2, FS_Interval
<1>4. IsFiniteSet(slots \X numbers)
  BY <1>3, FS_Product
<1> DEFINE f == [b \in Block |-> <<b.Slot, b.Txs>>]
<1>5. f \in Injection(Block, slots \X numbers)
  <2>1. Slots \subseteq slots
    BY <1>1, <1>2, DataAssumption
  <2>2. f \in [Block -> slots \X numbers]
    BY <1>1, <1>2, <2>1 DEF Block
  <2>3. ASSUME NEW b \in Block, NEW c \in Block, f[b] = f[c]
        PROVE  b = c
    <3>1. <<b.Slot, b.Txs>> = <<c.Slot, c.Txs>>
      BY <2>3
    <3>2. QED
      BY <3>1 DEF Block
  <2>4. QED
    BY <2>2, <2>3 DEF Injection, IsInjective
<1>6. QED
  BY <1>4, <1>5, FS_Injection

-----------------------------------------------------------------------------
\* What a step does to the store.

\* What a block's transaction makes of a store.
WithBlock(s, slot, c) ==
  LET block == [Slot |-> slot, Txs |-> c.txs]
  IN Stored(slot, s.blocks \cup {block},
            WithoutOrUsed(WithAdded(s.outputs, c.added, slot), c.removed, c.softDelete),
            s.unprocessed \cup TxsOf(block), s.processed)

WithRefill(s, slot, added) ==
  Stored(s.point, s.blocks, WithAdded(<<>>, added, slot), s.unprocessed, s.processed)

LEMMA BlockTransaction ==
  ASSUME NEW s, IsStore(s), NEW slot, NEW c \in BlockContents,
         NEW calls, calls = BlockCalls(slot, c)
  PROVE  FoldLeft(Apply, s, calls) = WithBlock(s, slot, c)
<1>1. PICK block : block = [Slot |-> slot, Txs |-> c.txs]
  OBVIOUS
<1>2. DOMAIN calls = 1..5
  BY DEF BlockCalls
<1>3. /\ calls[1] = AddConfirmedTxs(TxsOf(block))
      /\ calls[2] = AddConfirmedBlock(block)
      /\ calls[3] = SetLatestBlockPoint(slot)
      /\ calls[4] = AddTxOutputs(c.added, slot)
      /\ calls[5] = RemoveTxOutputs(c.removed, c.softDelete)
  BY <1>1 DEF BlockCalls
<1> DEFINE p == s.point
           b == s.blocks
           o == s.outputs
           u == s.unprocessed
           q == s.processed
           b2 == b \cup {block}
           u2 == u \cup TxsOf(block)
           o2 == WithAdded(o, c.added, slot)
           o3 == WithoutOrUsed(o2, c.removed, c.softDelete)
<1>4. s = Stored(p, b, o, u, q)
  BY DEF IsStore, Stored
<1>5. WithBlock(s, slot, c) = Stored(slot, b2, o3, u2, q)
  BY <1>1 DEF WithBlock
<1> HIDE DEF p, b, o, u, q, b2, u2, o2, o3
<1>6. Apply(s, calls[1]) = Stored(p, b, o, u2, q)
  BY <1>3, <1>4, TxsAdded DEF u2
<1>7. Apply(Stored(p, b, o, u2, q), calls[2]) = Stored(p, b2, o, u2, q)
  BY <1>3, BlockAdded DEF b2
<1>8. Apply(Stored(p, b2, o, u2, q), calls[3]) = Stored(slot, b2, o, u2, q)
  BY <1>3, PointSet
<1>9. Apply(Stored(slot, b2, o, u2, q), calls[4]) = Stored(slot, b2, o2, u2, q)
  BY <1>3, OutputsAdded DEF o2
<1>10. Apply(Stored(slot, b2, o2, u2, q), calls[5]) = Stored(slot, b2, o3, u2, q)
  <2>1. c.softDelete \in BOOLEAN
    BY DEF BlockContents
  <2>2. QED
    BY <1>3, <2>1, OutputsRemoved DEF o3
<1>11. FoldLeft(Apply, s, calls) =
         Apply(Apply(Apply(Apply(Apply(s, calls[1]), calls[2]), calls[3]), calls[4]), calls[5])
  BY <1>2, FiveCalls
<1>12. QED
  BY <1>5, <1>6, <1>7, <1>8, <1>9, <1>10, <1>11

LEMMA RefillTransaction ==
  ASSUME NEW s, IsStore(s), NEW slot, NEW added,
         NEW calls, calls = <<DeleteAllTxOutputsPhysically, AddTxOutputs(added, slot)>>
  PROVE  FoldLeft(Apply, s, calls) = WithRefill(s, slot, added)
<1>1. /\ DOMAIN calls = 1..2
      /\ calls[1] = DeleteAllTxOutputsPhysically
      /\ calls[2] = AddTxOutputs(added, slot)
  OBVIOUS
<1>2. PICK p, b, o, u, q :
        p = s.point /\ b = s.blocks /\ o = s.outputs /\ u = s.unprocessed /\ q = s.processed
  OBVIOUS
<1>3. s = Stored(p, b, o, u, q)
  BY <1>2 DEF IsStore, Stored
<1>4. Apply(s, calls[1]) = Stored(p, b, <<>>, u, q)
  BY <1>1, <1>3, OutputsDeleted
<1>5. Apply(Stored(p, b, <<>>, u, q), calls[2]) =
        Stored(p, b, WithAdded(<<>>, added, slot), u, q)
  BY <1>1, OutputsAdded
<1>6. FoldLeft(Apply, s, calls) = Apply(Apply(s, calls[1]), calls[2])
  BY <1>1, TwoCalls
<1>7. QED
  BY <1>2, <1>4, <1>5, <1>6 DEF WithRefill

LEMMA OneBlockStored ==
  ASSUME IsStore(store), NEW slot \in Slots, NEW c \in BlockContents,
         NEW calls, calls = BlockCalls(slot, c), Execute(calls),
         NEW block, block = [Slot |-> slot, Txs |-> c.txs]
  PROVE  /\ block \in Block /\ block.Slot = slot
         /\ Holds(store', slot, store.blocks \cup {block},
                  store.unprocessed \cup TxsOf(block), store.processed)
<1>1. block \in Block /\ block.Slot = slot
  BY DEF Block, BlockContents
<1>2. store' = WithBlock(store, slot, c)
  BY BlockTransaction DEF Execute
<1>3. QED
  BY <1>1, <1>2 DEF WithBlock, Stored, Holds, IsStore

LEMMA Refills ==
  ASSUME IsStore(store), NEW slot, NEW calls \in RefillCalls(slot), Execute(calls)
  PROVE  Holds(store', store.point, store.blocks, store.unprocessed, store.processed)
<1>1. PICK added \in SUBSET TxInputs :
        calls = <<DeleteAllTxOutputsPhysically, AddTxOutputs(added, slot)>>
  BY DEF RefillCalls
<1>2. store' = WithRefill(store, slot, added)
  BY <1>1, RefillTransaction DEF Execute
<1>3. QED
  BY <1>2 DEF WithRefill, Stored, Holds, IsStore

\* Of the steps, only these change what is stored.
BlockStored(block) ==
  /\ store.point < block.Slot
  /\ Holds(store', block.Slot, store.blocks \cup {block},
           store.unprocessed \cup TxsOf(block), store.processed)
  /\ handed' = handed

LEMMA Executed ==
  ASSUME IsStore(store), NEW calls \in Calls(store.point, SoftDeletesOwn # {}), Execute(calls)
  PROVE  \/ \E block \in Block : BlockStored(block)
         \/ /\ Holds(store', store.point, store.blocks, store.unprocessed, store.processed)
            /\ handed' = handed
<1>1. handed' = handed
  BY DEF Execute
<1>2. CASE calls \in RefillCalls(store.point)
  BY <1>1, <1>2, Refills
<1>3. CASE \E slot \in Slots :
             slot > store.point /\ calls \in ConfirmedBlockCalls(slot, SoftDeletesOwn # {})
  <2>1. PICK slot \in Slots :
          slot > store.point /\ calls \in ConfirmedBlockCalls(slot, SoftDeletesOwn # {})
    BY <1>3
  <2>2. PICK c \in BlockContents : calls = BlockCalls(slot, c)
    BY <2>1 DEF ConfirmedBlockCalls
  <2>3. PICK block : block = [Slot |-> slot, Txs |-> c.txs]
    OBVIOUS
  <2>4. /\ block \in Block /\ block.Slot = slot
        /\ Holds(store', slot, store.blocks \cup {block},
                 store.unprocessed \cup TxsOf(block), store.processed)
    BY <2>2, <2>3, OneBlockStored
  <2>5. BlockStored(block)
    BY <1>1, <2>1, <2>4 DEF BlockStored
  <2>6. QED
    BY <2>4, <2>5
<1> DEFINE later == {s \in Slots : s > store.point}
           F(slot) == ConfirmedBlockCalls(slot, SoftDeletesOwn # {})
           new == UNION {F(slot) : slot \in later}
<1>4. calls \in new \/ calls \in RefillCalls(store.point)
  <2>1. calls \in new \cup (IF store.point = 0 THEN {} ELSE RefillCalls(store.point))
    BY DEF Calls
  <2> HIDE DEF new
  <2>2. QED
    BY <2>1
<1>5. CASE calls \in new
  <2>1. PICK slot \in later : calls \in F(slot)
    <3> HIDE DEF F, later
    <3>1. QED
      BY <1>5
  <2>2. QED
    BY <1>3, <2>1
<1>6. QED
  BY <1>2, <1>4, <1>5

LEMMA Marked ==
  ASSUME IsStore(store), MarkConfirmedTxsProcessed
  PROVE  /\ Holds(store', store.point, store.blocks,
                  store.unprocessed \ handed, store.processed \cup handed)
         /\ handed' = {}
<1>1. store' = [store EXCEPT !.unprocessed = store.unprocessed \ handed,
                             !.processed = store.processed \cup handed]
  BY DEF MarkConfirmedTxsProcessed
<1>2. QED
  BY <1>1 DEF Holds, IsStore, MarkConfirmedTxsProcessed

-----------------------------------------------------------------------------
\* The invariant: what the store is made of, that the reader has the first of
\* what is waiting, and the two promises, which need each other.

StoreTyped ==
  /\ IsStore(store)
  /\ store.point \in Slots \cup {0}
  /\ store.blocks \in SUBSET Block
  /\ store.unprocessed \in SUBSET Tx
  /\ store.processed \in SUBSET Tx
  /\ IsFiniteSet(store.unprocessed)

HandedFirst ==
  /\ handed \in SUBSET store.unprocessed
  /\ \A t \in handed, u \in store.unprocessed \ handed : IsBefore(t, u)

DatabaseInv == StoreTyped /\ HandedFirst /\ ProcessedInOrder /\ StoredTogether

LEMMA DatabaseInit ==
  ASSUME Init
  PROVE  DatabaseInv
<1>1. /\ IsStore(store) /\ store.point = 0 /\ store.blocks = {}
      /\ store.unprocessed = {} /\ store.processed = {} /\ handed = {}
  BY DEF Init, IsStore
<1>2. IsFiniteSet({})
  BY FS_EmptySet
<1>3. StoreTyped
  BY <1>1, <1>2 DEF StoreTyped
<1>4. HandedFirst
  BY <1>1 DEF HandedFirst
<1>5. ProcessedInOrder
  BY <1>1 DEF ProcessedInOrder
<1>6. StoredTogether
  BY <1>1 DEF StoredTogether
<1>7. QED
  BY <1>3, <1>4, <1>5, <1>6 DEF DatabaseInv

\* A step that leaves all this, but for the outputs, as it was.
LEMMA SameValues ==
  ASSUME DatabaseInv, handed' \in {handed, {}},
         Holds(store', store.point, store.blocks, store.unprocessed, store.processed)
  PROVE  DatabaseInv'
<1>1. /\ IsStore(store)' /\ store'.point = store.point /\ store'.blocks = store.blocks
      /\ store'.unprocessed = store.unprocessed /\ store'.processed = store.processed
  BY DEF Holds, IsStore
<1>2. StoreTyped'
  BY <1>1 DEF DatabaseInv, StoreTyped
<1>3. HandedFirst'
  BY <1>1 DEF DatabaseInv, HandedFirst
<1>4. ProcessedInOrder'
  BY <1>1 DEF DatabaseInv, ProcessedInOrder, IsBefore
<1>5. StoredTogether'
  BY <1>1 DEF DatabaseInv, StoredTogether
<1>6. QED
  BY <1>2, <1>3, <1>4, <1>5 DEF DatabaseInv

\* A block above the point: its transactions come after all others.
LEMMA BlockKeepsOrder ==
  ASSUME DatabaseInv, NEW block \in Block, BlockStored(block)
  PROVE  DatabaseInv'
<1>1. /\ IsStore(store)' /\ store'.point = block.Slot
      /\ store'.blocks = store.blocks \cup {block}
      /\ store'.unprocessed = store.unprocessed \cup TxsOf(block)
      /\ store'.processed = store.processed
      /\ handed' = handed
  BY DEF BlockStored, Holds, IsStore
<1>2. /\ block.Slot \in Slots /\ block.Slot \in Nat \ {0} /\ store.point \in Nat
      /\ store.point < block.Slot
  <2>1. block.Slot \in Slots /\ store.point \in Slots \cup {0} /\ store.point < block.Slot
    BY DEF Block, BlockStored, DatabaseInv, StoreTyped
  <2>2. block.Slot \in Nat \ {0}
    BY <2>1, Numbers
  <2>3. store.point \in Nat
    <3>1. CASE store.point = 0
      BY <3>1
    <3>2. CASE store.point \in Slots
      BY <3>2, Numbers
    <3>3. QED
      BY <2>1, <3>1, <3>2
  <2>4. QED
    BY <2>1, <2>2, <2>3
<1>3. /\ IsFiniteSet(TxsOf(block)) /\ TxsOf(block) \in SUBSET Tx
      /\ \A t \in TxsOf(block) : t.BlockSlot = block.Slot
  BY BlockTxs
<1>4. ASSUME NEW t \in store.unprocessed \cup store.processed
      PROVE  /\ t \in Tx
             /\ t.BlockSlot \in Nat /\ t.BlockSlot <= store.point
             /\ \A u \in TxsOf(block) : IsBefore(t, u)
  <2>1. t \in Tx
    BY DEF DatabaseInv, StoreTyped
  <2>2. PICK b \in store.blocks : t \in TxsOf(b)
    BY DEF DatabaseInv, StoredTogether
  <2>3. t.BlockSlot = b.Slot
    BY <2>2, BlockTxs DEF DatabaseInv, StoreTyped
  <2>4. b.Slot <= store.point
    BY <2>2 DEF DatabaseInv, StoredTogether
  <2>5. t.BlockSlot \in Nat /\ t.BlockSlot <= store.point
    BY <2>1, <2>3, <2>4, TxNumbers
  <2>6. \A u \in TxsOf(block) : IsBefore(t, u)
    BY <1>2, <1>3, <2>5 DEF IsBefore
  <2>7. QED
    BY <2>1, <2>5, <2>6
<1>5. StoreTyped'
  <2>1. IsFiniteSet(store.unprocessed \cup TxsOf(block))
    BY <1>3, FS_Union DEF DatabaseInv, StoreTyped
  <2>2. QED
    BY <1>1, <1>2, <1>3, <2>1 DEF DatabaseInv, StoreTyped
<1>6. HandedFirst'
  <2>1. handed \in SUBSET store.unprocessed
    BY DEF DatabaseInv, HandedFirst
  <2>2. ASSUME NEW t \in handed, NEW u \in (store.unprocessed \cup TxsOf(block)) \ handed
        PROVE  IsBefore(t, u)
    BY <1>4, <2>1 DEF DatabaseInv, HandedFirst
  <2>3. QED
    BY <1>1, <2>1, <2>2 DEF HandedFirst, IsBefore
<1>7. ProcessedInOrder'
  <2>1. ASSUME NEW t \in store.processed, NEW u \in store.unprocessed \cup TxsOf(block)
        PROVE  IsBefore(t, u)
    BY <1>4 DEF DatabaseInv, ProcessedInOrder
  <2>2. QED
    BY <1>1, <2>1 DEF ProcessedInOrder, IsBefore
<1>8. StoredTogether'
  <2> DEFINE before == UNION {TxsOf(b) : b \in store.blocks}
             after == UNION {TxsOf(b) : b \in store.blocks \cup {block}}
  <2>1. after = before \cup TxsOf(block)
    <3>1. ASSUME NEW t
          PROVE  t \in after <=> t \in before \/ t \in TxsOf(block)
      <4>1. t \in after <=> \E b \in store.blocks \cup {block} : t \in TxsOf(b)
        OBVIOUS
      <4>2. t \in before <=> \E b \in store.blocks : t \in TxsOf(b)
        OBVIOUS
      <4>3. QED
        BY <4>1, <4>2
    <3> HIDE DEF before, after
    <3>2. QED
      BY <3>1
  <2>2. store.processed \cap TxsOf(block) = {}
    BY <1>2, <1>3, <1>4
  <2>3. \A b \in store.blocks : b.Slot \in Nat /\ b.Slot <= store.point
    BY Numbers DEF DatabaseInv, StoredTogether, StoreTyped, Block
  <2>4. \A b \in store.blocks \cup {block} : b.Slot <= block.Slot
    BY <1>2, <2>3
  <2>5. /\ store.unprocessed \cup store.processed = before
        /\ store.unprocessed \cap store.processed = {}
    BY DEF DatabaseInv, StoredTogether
  <2>6. (store.unprocessed \cup TxsOf(block)) \cup store.processed =
          after
    <3> HIDE DEF before, after
    <3>1. QED
      BY <2>1, <2>5
  <2>7. QED
    BY <1>1, <2>2, <2>4, <2>5, <2>6 DEF StoredTogether
<1>9. QED
  BY <1>5, <1>6, <1>7, <1>8 DEF DatabaseInv

LEMMA MarkKeepsOrder ==
  ASSUME DatabaseInv, MarkConfirmedTxsProcessed
  PROVE  DatabaseInv'
<1>1. /\ IsStore(store)' /\ store'.point = store.point /\ store'.blocks = store.blocks
      /\ store'.unprocessed = store.unprocessed \ handed
      /\ store'.processed = store.processed \cup handed
      /\ handed' = {}
  BY Marked DEF DatabaseInv, StoreTyped, Holds, IsStore
<1>2. handed \in SUBSET store.unprocessed
  BY DEF DatabaseInv, HandedFirst
<1>3. StoreTyped'
  <2>1. IsFiniteSet(store.unprocessed \ handed)
    BY FS_Subset DEF DatabaseInv, StoreTyped
  <2>2. QED
    BY <1>1, <1>2, <2>1 DEF DatabaseInv, StoreTyped
<1>4. HandedFirst'
  BY <1>1 DEF HandedFirst
<1>5. ProcessedInOrder'
  <2>1. ASSUME NEW t \in store.processed \cup handed, NEW u \in store.unprocessed \ handed
        PROVE  IsBefore(t, u)
    BY DEF DatabaseInv, ProcessedInOrder, HandedFirst
  <2>2. QED
    BY <1>1, <2>1 DEF ProcessedInOrder, IsBefore
<1>6. StoredTogether'
  BY <1>1, <1>2 DEF DatabaseInv, StoredTogether
<1>7. QED
  BY <1>3, <1>4, <1>5, <1>6 DEF DatabaseInv

LEMMA ReadKeepsOrder ==
  ASSUME DatabaseInv, NEW maxCnt \in 0..2, ReadUnprocessed(maxCnt)
  PROVE  DatabaseInv'
<1>1. /\ store' = store
      /\ handed' = FirstOnes(store.unprocessed, maxCnt)
  BY DEF ReadUnprocessed, GetUnprocessedConfirmedTxs, FirstOnes, InChainOrder
<1>2. store.unprocessed \in SUBSET Tx /\ IsFiniteSet(store.unprocessed) /\ maxCnt \in Nat
  BY DEF DatabaseInv, StoreTyped
<1>3. /\ handed' \in SUBSET store.unprocessed
      /\ \A t \in handed', u \in store.unprocessed \ handed' : IsBefore(t, u)
  BY <1>1, <1>2, Portion
<1>4. HandedFirst'
  BY <1>1, <1>3 DEF HandedFirst, IsBefore
<1>5. StoreTyped' /\ ProcessedInOrder' /\ StoredTogether'
  BY <1>1 DEF DatabaseInv, StoreTyped, ProcessedInOrder, StoredTogether, IsStore, IsBefore
<1>6. QED
  BY <1>4, <1>5 DEF DatabaseInv

LEMMA DatabaseStep ==
  ASSUME DatabaseInv, [Next]_vars
  PROVE  DatabaseInv'
<1>1. IsStore(store)
  BY DEF DatabaseInv, StoreTyped
<1>2. Holds(store, store.point, store.blocks, store.unprocessed, store.processed)
  BY <1>1 DEF Holds
<1>3. CASE \E calls \in Calls(store.point, SoftDeletesOwn # {}) : Execute(calls)
  BY <1>1, <1>3, Executed, BlockKeepsOrder, SameValues
<1>4. CASE \E maxCnt \in 0..2 : ReadUnprocessed(maxCnt)
  BY <1>4, ReadKeepsOrder
<1>5. CASE MarkConfirmedTxsProcessed
  BY <1>5, MarkKeepsOrder
<1>6. CASE ConsumerFails
  BY <1>2, <1>6, SameValues DEF ConsumerFails
<1>7. CASE UNCHANGED vars
  BY <1>2, <1>7, SameValues DEF vars
<1>8. QED
  BY <1>3, <1>4, <1>5, <1>6, <1>7 DEF Next

LEMMA DatabaseInvariant == Spec => []DatabaseInv
<1>1. Init => DatabaseInv
  BY DatabaseInit
<1>2. DatabaseInv /\ [Next]_vars => DatabaseInv'
  BY DatabaseStep
<1>3. QED
  BY <1>1, <1>2, PTL DEF Spec

\* Whatever portions a consumer asks for, and whatever the indexer stores
\* between its reading and its marking, what it has processed comes before
\* what it has not (core/database.go, GetUnprocessedConfirmedTxs and
\* MarkConfirmedTxsProcessed).
THEOREM ProcessesInOrder == Spec => []ProcessedInOrder
<1>1. DatabaseInv => ProcessedInOrder
  BY DEF DatabaseInv
<1>2. QED
  BY <1>1, DatabaseInvariant, PTL

\* A block, its transactions and the point it leads to are stored together,
\* and a transaction is waiting or processed, never both or neither.
THEOREM StoresTogether == Spec => []StoredTogether
<1>1. DatabaseInv => StoredTogether
  BY DEF DatabaseInv
<1>2. QED
  BY <1>1, DatabaseInvariant, PTL
=============================================================================
