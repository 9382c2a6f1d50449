---------------------------- MODULE Arithmetic ----------------------------
(***************************************************************************)
(* Facts about division and bytes that the proofs of several modules use.  *)
(***************************************************************************)
EXTENDS Integers, TLAPS, WellFoundedInduction

LEMMA DivMod ==
  \A n \in Int, m \in Nat \ {0} :
    /\ n % m \in 0 .. (m - 1)
    /\ n \div m \in Int
    /\ n = m * (n \div m) + (n % m)
  BY SMT

LEMMA Monotone == \A a, b, k \in Nat : a <= b => a * k <= b * k
  BY SMT

\* A quotient of a natural number is one.
LEMMA QuotientNat == \A n \in Nat, m \in Nat \ {0} : n \div m \in Nat
<1> SUFFICES ASSUME NEW n \in Nat, NEW m \in Nat \ {0}, n \div m < 0
             PROVE  FALSE
  BY DivMod
<1> DEFINE q == -(n \div m) - 1
<1>1. q \in Nat /\ n \div m = -q - 1
  BY DivMod
<1>2. q * m \in Nat
  BY <1>1
<1>3. m * (n \div m) = -(q * m) - m
  BY <1>1
<1> QED
  BY <1>2, <1>3, DivMod

LEMMA ModSmall == \A n, m \in Nat : n < m => n % m = n
  BY SMT

-----------------------------------------------------------------------------
(* Bytes *)

\* There is one way to write a number as a multiple and a remainder.
LEMMA DivModUnique ==
  ASSUME NEW b \in Nat \ {0}, NEW q \in Nat, NEW r \in 0 .. (b - 1)
  PROVE  (q * b + r) \div b = q /\ (q * b + r) % b = r
<1> DEFINE n == q * b + r
           d == n \div b
           m == n % b
<1>1. q * b \in Nat /\ n \in Nat
  OBVIOUS
<1>2. d \in Nat /\ m \in 0 .. (b - 1) /\ n = b * d + m
  <2>1. n \in Int
    BY <1>1
  <2>2. m \in 0 .. (b - 1) /\ n = b * d + m
    BY <2>1, DivMod
  <2>3. d \in Nat
    BY <1>1, QuotientNat
  <2> QED
    BY <2>2, <2>3
<1>3. b * d = d * b /\ d * b \in Nat
  BY <1>2
<1>4. ~(d < q)
  <2>1. SUFFICES ASSUME d + 1 <= q PROVE FALSE
    BY <1>2
  <2>2. (d + 1) * b <= q * b
    BY <1>2, <2>1, Monotone
  <2>3. (d + 1) * b = d * b + b
    BY <1>2
  <2> QED
    BY <1>1, <1>2, <1>3, <2>2, <2>3
<1>5. ~(q < d)
  <2>1. SUFFICES ASSUME q + 1 <= d PROVE FALSE
    BY <1>2
  <2>2. (q + 1) * b <= d * b
    BY <1>2, <2>1, Monotone
  <2>3. (q + 1) * b = q * b + b
    OBVIOUS
  <2> QED
    BY <1>1, <1>2, <1>3, <2>2, <2>3
<1>6. d = q
  BY <1>2, <1>4, <1>5
<1> HIDE DEF d, m
<1>7. m = r
  BY <1>1, <1>2, <1>3, <1>6
<1> QED
  BY <1>6, <1>7 DEF d, m

\* The same for a negative multiple.
LEMMA DivModUniqueInt ==
  ASSUME NEW b \in Nat \ {0}, NEW q \in Int, NEW r \in 0 .. (b - 1)
  PROVE  (q * b + r) \div b = q /\ (q * b + r) % b = r
<1> DEFINE n == q * b + r
           d == n \div b
           m == n % b
           e == d - q
<1>1. q * b \in Int /\ n \in Int
  OBVIOUS
<1>2. d \in Int /\ m \in 0 .. (b - 1) /\ n = b * d + m
  BY <1>1, DivMod
<1>3. e \in Int /\ e * b = r - m
  <2>1. e * b = d * b - q * b /\ d * b = b * d /\ d * b \in Int
    BY <1>2
  <2> HIDE DEF d, m
  <2> QED
    BY <1>1, <1>2, <2>1
<1> HIDE DEF e, m
<1>4. ~(e >= 1)
  <2>1. SUFFICES ASSUME e >= 1 PROVE FALSE
    OBVIOUS
  <2>2. e \in Nat /\ 1 * b <= e * b
    BY <1>3, <2>1, Monotone
  <2> QED
    BY <1>2, <1>3, <2>2
<1>5. ~(e <= -1)
  <2>1. SUFFICES ASSUME e <= -1 PROVE FALSE
    OBVIOUS
  <2>2. -e \in Nat /\ 1 * b <= (-e) * b
    BY <1>3, <2>1, Monotone
  <2>3. (-e) * b = -(e * b)
    BY <1>3
  <2> QED
    BY <1>2, <1>3, <2>2, <2>3
<1>6. e = 0
  BY <1>3, <1>4, <1>5
<1>7. d = q
  <2>1. d - q = 0
    BY <1>6 DEF e
  <2> HIDE DEF d
  <2> QED
    BY <1>2, <2>1
<1>8. m = r
  BY <1>2, <1>3, <1>6
<1> QED
  BY <1>7, <1>8 DEF m

\* Numbers a multiple apart have one remainder.
LEMMA ModOfSum ==
  ASSUME NEW b \in Nat \ {0}, NEW n \in Int, NEW k \in Int
  PROVE  (n + k * b) % b = n % b
<1> DEFINE q == n \div b
           r == n % b
<1>1. q \in Int /\ r \in 0 .. (b - 1) /\ n = b * q + r
  BY DivMod
<1> HIDE DEF q, r
<1>2. n + k * b = (q + k) * b + r
  <2>1. (q + k) * b = q * b + k * b /\ b * q = q * b /\ q * b \in Int /\ k * b \in Int
    BY <1>1
  <2> QED
    BY <1>1, <2>1
<1>3. q + k \in Int
  BY <1>1
<1>4. (n + k * b) % b = r
  BY <1>1, <1>2, <1>3, DivModUniqueInt
<1> QED
  BY <1>4 DEF r

\* A number less its remainder has none.
LEMMA ModApart ==
  ASSUME NEW b \in Nat \ {0}, NEW n \in Int
  PROVE  ((n % b) - n) % b = 0
<1> DEFINE q == n \div b
           r == n % b
<1>1. q \in Int /\ r \in 0 .. (b - 1) /\ n = b * q + r
  BY DivMod
<1> HIDE DEF q, r
<1>2. r - n = (-q) * b + 0 /\ -q \in Int
  <2>1. (-q) * b = -(b * q) /\ b * q \in Int
    BY <1>1
  <2> QED
    BY <1>1, <2>1
<1>3. (r - n) % b = 0
  <2>1. 0 \in 0 .. (b - 1)
    OBVIOUS
  <2>2. ((-q) * b + 0) % b = 0
    BY <1>2, <2>1, DivModUniqueInt
  <2> QED
    BY <1>2, <2>2
<1> QED
  BY <1>3 DEF r

\* Two digits in base b are a number below b * b.
LEMMA TwoDigits ==
  ASSUME NEW b \in Nat \ {0}, NEW c0 \in 0 .. (b - 1), NEW c1 \in 0 .. (b - 1)
  PROVE  /\ c0 + b * c1 \in 0 .. (b * b - 1)
         /\ (c0 + b * c1) % b = c0
         /\ (c0 + b * c1) \div b = c1
<1> DEFINE v == c0 + b * c1
<1>1. c1 \in Nat /\ c0 \in Nat /\ c1 <= b - 1 /\ c1 * b \in Nat /\ b * b \in Nat
  OBVIOUS
<1>2. v = c1 * b + c0
  BY <1>1
<1>3. v % b = c0 /\ v \div b = c1
  BY <1>1, <1>2, DivModUnique
<1>4. c1 * b <= (b - 1) * b /\ (b - 1) * b = b * b - b
  <2>1. b - 1 \in Nat
    OBVIOUS
  <2> QED
    BY <1>1, <2>1, Monotone
<1>5. v \in 0 .. (b * b - 1)
  BY <1>1, <1>2, <1>4
<1> QED
  BY <1>3, <1>5

\* A number below b * b has two digits.
LEMMA TwoDigitsOf ==
  ASSUME NEW b \in Nat \ {0}, NEW v \in 0 .. (b * b - 1)
  PROVE  /\ v % b \in 0 .. (b - 1)
         /\ v \div b \in 0 .. (b - 1)
         /\ v = (v % b) + b * (v \div b)
<1> DEFINE q == v \div b
           r == v % b
<1>1. v \in Nat /\ v \in Int /\ b * b \in Nat /\ v < b * b
  OBVIOUS
<1>2. r \in 0 .. (b - 1) /\ v = b * q + r
  BY <1>1, DivMod
<1>3. q \in Nat
  BY <1>1, QuotientNat
<1>4. q < b
  <2>1. SUFFICES ASSUME b <= q PROVE FALSE
    BY <1>3
  <2>2. b * b <= q * b
    BY <1>3, <2>1, Monotone
  <2>3. q * b = b * q /\ q * b \in Nat
    BY <1>3
  <2> HIDE DEF q, r
  <2> QED
    BY <1>1, <1>2, <2>2, <2>3
<1>5. b * q \in Nat
  BY <1>3
<1> HIDE DEF q, r
<1>6. r \in 0 .. (b - 1) /\ q \in 0 .. (b - 1) /\ v = r + b * q
  BY <1>2, <1>3, <1>4, <1>5
<1> QED
  BY <1>6 DEF q, r

\* Four digits, two and two, and every way to take one of them out.
Compose(b, c0, c1, c2, c3) == (c0 + b * c1) + (b * b) * (c2 + b * c3)

LEMMA FourDigits ==
  ASSUME NEW b \in Nat \ {0},
         NEW c0 \in 0 .. (b - 1), NEW c1 \in 0 .. (b - 1),
         NEW c2 \in 0 .. (b - 1), NEW c3 \in 0 .. (b - 1)
  PROVE  /\ Compose(b, c0, c1, c2, c3) \in 0 .. ((b * b) * (b * b) - 1)
         /\ Compose(b, c0, c1, c2, c3) % b = c0
         /\ (Compose(b, c0, c1, c2, c3) \div b) % b = c1
         /\ (Compose(b, c0, c1, c2, c3) \div (b * b)) % b = c2
         /\ Compose(b, c0, c1, c2, c3) \div (b * b * b) = c3
<1> DEFINE v  == (c0 + b * c1) + (b * b) * (c2 + b * c3)
           h  == b * b
           h0 == c0 + b * c1
           h1 == c2 + b * c3
<1>1. h \in Nat \ {0}
  OBVIOUS
<1>2. h0 \in 0 .. (h - 1) /\ h1 \in 0 .. (h - 1) /\ h1 % b = c2
  BY TwoDigits
<1>3. v \in 0 .. (h * h - 1) /\ v \div h = h1
  BY <1>1, <1>2, TwoDigits
<1>4. v % b = c0 /\ v \div b = c1 + b * h1
  <2>1. c1 + b * h1 \in Nat
    BY <1>1, <1>2
  <2>2. b * (b * h1) = h * h1 /\ b * h1 \in Nat
    BY <1>1, <1>2
  <2>3. (c1 + b * h1) * b = b * c1 + b * (b * h1)
    BY <1>1, <1>2
  <2>4. v = (c1 + b * h1) * b + c0
    BY <1>1, <1>2, <2>1, <2>2, <2>3
  <2> QED
    BY <2>1, <2>4, DivModUnique
<1>5. (v \div b) % b = c1
  <2>1. h1 \in Nat /\ c1 + b * h1 = h1 * b + c1
    BY <1>1, <1>2
  <2>2. (h1 * b + c1) % b = c1
    BY <2>1, DivModUnique
  <2> QED
    BY <1>4, <2>1, <2>2
<1>6. v \div (b * b * b) = c3
  <2> DEFINE r == h0 + h * c2
  <2>1. b * b * b = b * h /\ b * h \in Nat \ {0}
    BY <1>1
  <2>2. r \in 0 .. (b * h - 1)
    <3>1. c2 * h <= (b - 1) * h
      <4>1. c2 \in Nat /\ b - 1 \in Nat /\ c2 <= b - 1
        OBVIOUS
      <4> QED
        BY <1>1, <4>1, Monotone
    <3>2. (b - 1) * h = b * h - h /\ c2 * h = h * c2 /\ h * c2 \in Nat
      BY <1>1
    <3> HIDE DEF h, h0
    <3> QED
      BY <1>1, <1>2, <2>1, <3>1, <3>2
  <2>3. h * h1 = h * c2 + c3 * (b * h)
    <3>1. h * (b * c3) = c3 * (b * h)
      BY <1>1
    <3>2. h * (c2 + b * c3) = h * c2 + h * (b * c3)
      BY <1>1
    <3> QED
      BY <3>1, <3>2
  <2>4. v = c3 * (b * h) + r
    <3>1. c3 * (b * h) \in Nat /\ h * c2 \in Nat
      BY <1>1
    <3>2. v = h0 + h * h1
      OBVIOUS
    <3>3. h0 \in Nat
      BY <1>1, <1>2
    <3>4. \A s, t, u \in Nat : u + (s + t) = t + (u + s)
      OBVIOUS
    <3> HIDE DEF h, h0, h1
    <3>5. v = h0 + (h * c2 + c3 * (b * h))
      BY <2>3, <3>2
    <3>6. h0 + (h * c2 + c3 * (b * h)) = c3 * (b * h) + (h0 + h * c2)
      BY <3>1, <3>3, <3>4
    <3> QED
      BY <3>5, <3>6
  <2> QED
    BY <2>1, <2>2, <2>4, DivModUnique
<1> QED
  BY <1>2, <1>3, <1>4, <1>5, <1>6 DEF Compose

\* A set of numbers has a least one.
LEMMA Least ==
  ASSUME NEW T, T \subseteq Nat, T # {}
  PROVE  \E i \in T : \A j \in T : ~(j < i)
<1> DEFINE R == {ss \in Nat \X Nat : ss[1] < ss[2]}
<1>1. IsWellFoundedOn(R, Nat)
  BY NatLessThanWellFounded DEF OpToRel
<1>2. PICK i \in T : \A j \in T : <<j, i>> \notin R
  BY <1>1, WFMin
<1> QED
  BY <1>2
=============================================================================
