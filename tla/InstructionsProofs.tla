------------------------- MODULE InstructionsProofs -------------------------
(***************************************************************************)
(* Theorems about Instructions: registers stay words and x0 stays 0,       *)
(* immediates are the ISA's, and results are what the ISA says, for        *)
(* registers of every width.                                               *)
(***************************************************************************)
EXTENDS Instructions, Arithmetic

-----------------------------------------------------------------------------
(* Words *)

LEMMA Sizes ==
  /\ Word \in Nat \ {0}
  /\ MostNegative \in Nat
  /\ Word = 2 * MostNegative
  /\ MostNegative >= 4
<1> DEFINE q == Word \div 8
<1>1. Word \in Nat \ {0} /\ Word % 8 = 0
  BY InstructionsAssumption
<1>2. q \in Int /\ Word = 8 * q
  BY <1>1, DivMod
<1> HIDE DEF q
<1>3. Word = 2 * (4 * q) /\ q >= 1
  BY <1>1, <1>2
<1>4. MostNegative = 4 * q
  BY <1>2, <1>3 DEF MostNegative
<1> QED
  BY <1>1, <1>2, <1>3, <1>4

LEMMA ModInRange == \A n \in Int : n % Word \in WordValue
  BY Sizes, DivMod DEF WordValue

LEMMA SameAsMod == \A n \in Int : ISA!Same(n % Word, n)
  BY Sizes, ModApart DEF ISA!Same

LEMMA SignedIs ==
  ASSUME NEW v \in WordValue
  PROVE  /\ ISA!Signed(v) = Int32(v)
         /\ Int32(v) \in (-MostNegative) .. (MostNegative - 1)
         /\ \E k \in Int : Int32(v) = v + k * Word
<1>1. v \in Nat /\ v < Word
  BY Sizes DEF WordValue
<1>2. Int32(v) = v + 0 * Word \/ Int32(v) = v + (-1) * Word
  BY <1>1, Sizes DEF Int32
<1> QED
  BY <1>1, <1>2, Sizes DEF Int32, ISA!Signed

-----------------------------------------------------------------------------
(* Division *)

\* Quotient rounds towards 0.
LEMMA QuotientDivides ==
  ASSUME NEW a \in Int, NEW b \in Int, b # 0
  PROVE  /\ Quotient(a, b) \in Int
         /\ Remainder(a, b) = a - Quotient(a, b) * b
         /\ ISA!Divides(a, b, Quotient(a, b))
         /\ ISA!Abs(Quotient(a, b)) <= ISA!Abs(a)
<1> DEFINE Size(v) == IF v < 0 THEN -v ELSE v
           x == Size(a)
           y == Size(b)
           q == x \div y
           r == x % y
           s == Quotient(a, b)
<1>1. x \in Nat /\ y \in Nat \ {0}
  OBVIOUS
<1>2. q \in Nat /\ r \in 0 .. (y - 1) /\ x = y * q + r
  <2>1. x \in Int
    BY <1>1
  <2> HIDE DEF x, y
  <2> QED
    BY <1>1, <2>1, DivMod, QuotientNat
<1>3. s = IF (a < 0) = (b < 0) THEN q ELSE -q
  BY DEF Quotient
<1>4. y * q \in Nat /\ q * y = y * q
  BY <1>1, <1>2
<1>5. q <= x
  <2>1. 1 * q <= y * q
    BY <1>1, <1>2, Monotone
  <2> QED
    BY <1>2, <1>4, <2>1
<1>6. a - s * b = IF a < 0 THEN -r ELSE r
  <2>1. CASE a < 0 /\ b < 0
    <3>1. s = q /\ a = -x /\ b = -y
      BY <1>3, <2>1
    <3> HIDE DEF q, r, s, x, y
    <3>2. q * (-y) = -(q * y)
      BY <1>1, <1>2
    <3> QED
      BY <1>2, <1>4, <2>1, <3>1, <3>2
  <2>2. CASE a < 0 /\ ~(b < 0)
    <3>1. s = -q /\ a = -x /\ b = y
      BY <1>3, <2>2
    <3> HIDE DEF q, r, s, x, y
    <3>2. (-q) * y = -(q * y)
      BY <1>1, <1>2
    <3> QED
      BY <1>2, <1>4, <2>2, <3>1, <3>2
  <2>3. CASE ~(a < 0) /\ b < 0
    <3>1. s = -q /\ a = x /\ b = -y
      BY <1>3, <2>3
    <3> HIDE DEF q, r, s, x, y
    <3>2. (-q) * (-y) = q * y
      BY <1>1, <1>2
    <3> QED
      BY <1>2, <1>4, <2>3, <3>1, <3>2
  <2>4. CASE ~(a < 0) /\ ~(b < 0)
    <3>1. s = q /\ a = x /\ b = y
      BY <1>3, <2>4
    <3> HIDE DEF q, r, s, x, y
    <3> QED
      BY <1>2, <1>4, <2>4, <3>1
  <2> QED
    BY <2>1, <2>2, <2>3, <2>4
<1>7. s \in Int /\ ISA!Abs(s) = q /\ ISA!Abs(a) = x /\ ISA!Abs(b) = y
  <2>1. q \in Nat
    BY <1>2
  <2> HIDE DEF q
  <2> QED
    BY <1>3, <2>1 DEF ISA!Abs
<1>8. Remainder(a, b) = a - s * b
  <2>1. b * s = s * b
    BY <1>7
  <2> QED
    BY <2>1 DEF Remainder
<1>9. ISA!Divides(a, b, s)
  <2> DEFINE t == a - s * b
  <2>1. t = IF a < 0 THEN -r ELSE r
    BY <1>6
  <2>2. r \in Nat /\ r < y
    BY <1>1, <1>2
  <2> HIDE DEF r, y, t
  <2>3. ISA!Abs(t) = r
    BY <2>1, <2>2 DEF ISA!Abs
  <2>4. t # 0 => (t < 0 <=> a < 0)
    BY <2>1, <2>2
  <2> QED
    BY <1>7, <2>2, <2>3, <2>4 DEF ISA!Divides, t
<1> QED
  BY <1>5, <1>7, <1>8, <1>9

\* What DIV, DIVU, REM and REMU leave in rd, by 0 and at the overflow too.
LEMMA DivideIsResult ==
  ASSUME NEW op \in {"DIV", "DIVU", "REM", "REMU"},
         NEW a \in WordValue, NEW b \in WordValue
  PROVE  /\ Divide(op, a, b) \in WordValue
         /\ ISA!IsResult(op, a, b, Divide(op, a, b))
<1> DEFINE v == Divide(op, a, b)
           x == Int32(a)
           y == Int32(b)
<1>1. a \in Nat /\ a < Word /\ b \in Nat /\ b < Word
  BY Sizes DEF WordValue
<1>2. /\ x \in (-MostNegative) .. (MostNegative - 1)
      /\ y \in (-MostNegative) .. (MostNegative - 1)
      /\ ISA!Signed(a) = x /\ ISA!Signed(b) = y
  BY SignedIs
<1>3. x \in Int /\ y \in Int /\ (b # 0 => y # 0)
  <2>1. b # 0 => y # 0
    BY <1>1, Sizes DEF Int32
  <2> HIDE DEF x, y
  <2> QED
    BY <1>2, <2>1, Sizes
<1>4. AllOnes \in WordValue /\ ISA!Signed(AllOnes) = -1
  BY Sizes DEF AllOnes, WordValue, ISA!Signed
<1>5. MostNegative \in WordValue /\ Int32(MostNegative) = -MostNegative
  BY Sizes DEF WordValue, Int32
<1>6. Int32(AllOnes) = -1 /\ AllOnes # 0
  BY Sizes DEF AllOnes, Int32
<1>7. CASE op = "DIV"
  <2>1. CASE a = MostNegative /\ b = AllOnes
    <3>1. v = MostNegative /\ x = -MostNegative /\ y = -1 /\ b # 0
      BY <1>5, <1>6, <1>7, <2>1 DEF Divide
    <3>2. MostNegative * (-1) = -MostNegative
      BY Sizes
    <3>3. ISA!Divides(x, y, MostNegative)
      BY <3>1, <3>2, Sizes DEF ISA!Divides, ISA!Abs
    <3>4. ISA!Same(v, MostNegative) /\ MostNegative \in ISA!Quotients
      BY <3>1, Sizes DEF ISA!Same, ISA!Quotients
    <3> QED
      BY <1>2, <1>5, <1>7, <3>1, <3>3, <3>4 DEF ISA!IsResult
  <2>2. CASE b = 0
    <3>1. v = AllOnes
      BY <1>6, <1>7, <2>2 DEF Divide
    <3> QED
      BY <1>4, <1>7, <2>2, <3>1 DEF ISA!IsResult
  <2>3. CASE ~(a = MostNegative /\ b = AllOnes) /\ b # 0
    <3> DEFINE q == Quotient(x, y)
    <3>1. v = q % Word
      BY <1>7, <2>3 DEF Divide
    <3>2. q \in Int /\ ISA!Divides(x, y, q) /\ ISA!Abs(q) <= ISA!Abs(x)
      <4> HIDE DEF x, y
      <4> QED
        BY <1>3, <2>3, QuotientDivides
    <3> HIDE DEF q
    <3>3. q \in ISA!Quotients
      BY <1>2, <3>2, Sizes DEF ISA!Quotients, ISA!Abs
    <3>4. v \in WordValue /\ ISA!Same(v, q)
      BY <3>1, <3>2, ModInRange, SameAsMod
    <3> QED
      BY <1>2, <1>7, <2>3, <3>2, <3>3, <3>4 DEF ISA!IsResult
  <2> QED
    BY <2>1, <2>2, <2>3
<1>8. CASE op = "REM"
  <2>1. CASE a = MostNegative /\ b = AllOnes
    <3>1. v = 0 /\ x = -MostNegative /\ y = -1 /\ b # 0
      BY <1>5, <1>6, <1>8, <2>1 DEF Divide
    <3>2. MostNegative * (-1) = -MostNegative
      BY Sizes
    <3>3. ISA!Divides(x, y, MostNegative)
      BY <3>1, <3>2, Sizes DEF ISA!Divides, ISA!Abs
    <3>4. /\ ISA!Same(v, x - MostNegative * y) /\ MostNegative \in ISA!Quotients
          /\ v \in WordValue
      BY <3>1, <3>2, Sizes DEF ISA!Same, ISA!Quotients, WordValue
    <3> QED
      BY <1>2, <1>8, <3>1, <3>3, <3>4 DEF ISA!IsResult
  <2>2. CASE b = 0
    <3>1. v = a
      BY <1>6, <1>8, <2>2 DEF Divide
    <3> QED
      BY <1>8, <2>2, <3>1 DEF ISA!IsResult
  <2>3. CASE ~(a = MostNegative /\ b = AllOnes) /\ b # 0
    <3> DEFINE q == Quotient(x, y)
    <3>1. v = Remainder(x, y) % Word
      BY <1>8, <2>3 DEF Divide
    <3>2. /\ q \in Int /\ ISA!Divides(x, y, q) /\ ISA!Abs(q) <= ISA!Abs(x)
          /\ Remainder(x, y) = x - q * y
      <4> HIDE DEF x, y
      <4> QED
        BY <1>3, <2>3, QuotientDivides
    <3> HIDE DEF q
    <3>3. q \in ISA!Quotients
      BY <1>2, <3>2, Sizes DEF ISA!Quotients, ISA!Abs
    <3>4. x - q * y \in Int
      BY <1>2, <3>2, Sizes
    <3>5. v \in WordValue /\ ISA!Same(v, x - q * y)
      BY <3>1, <3>2, <3>4, ModInRange, SameAsMod
    <3> QED
      BY <1>2, <1>8, <2>3, <3>2, <3>3, <3>5 DEF ISA!IsResult
  <2> QED
    BY <2>1, <2>2, <2>3
<1>9. ASSUME b # 0
      PROVE  /\ a \div b \in ISA!Quotients /\ ISA!Divides(a, b, a \div b)
             /\ a \div b \in WordValue /\ a % b \in WordValue
             /\ a % b = a - (a \div b) * b
  <2> DEFINE q == a \div b
             r == a % b
  <2>1. q \in Nat /\ r \in 0 .. (b - 1) /\ a = b * q + r
    <3>1. a \in Int /\ b \in Nat \ {0}
      BY <1>1, <1>9
    <3> QED
      BY <1>1, <3>1, DivMod, QuotientNat
  <2> HIDE DEF q, r
  <2>2. b * q = q * b /\ q * b \in Nat
    BY <1>1, <2>1
  <2>3. 1 * q <= b * q
    BY <1>1, <1>9, <2>1, Monotone
  <2>4. q <= a /\ a - q * b = r
    BY <1>1, <2>1, <2>2, <2>3
  <2>5. ISA!Divides(a, b, q)
    BY <1>1, <2>1, <2>4 DEF ISA!Divides, ISA!Abs
  <2>6. q \in ISA!Quotients /\ q \in WordValue /\ r \in WordValue
    BY <1>1, <2>1, <2>4, Sizes DEF ISA!Quotients, WordValue
  <2> QED
    BY <2>4, <2>5, <2>6 DEF q, r
<1>10. CASE op = "DIVU"
  <2>1. CASE b = 0
    BY <1>4, <1>10, <2>1 DEF Divide, ISA!IsResult
  <2>2. CASE b # 0
    BY <1>9, <1>10, <2>2 DEF Divide, ISA!IsResult
  <2> QED
    BY <2>1, <2>2
<1>11. CASE op = "REMU"
  <2>1. CASE b = 0
    BY <1>11, <2>1 DEF Divide, ISA!IsResult
  <2>2. CASE b # 0
    BY <1>9, <1>11, <2>2 DEF Divide, ISA!IsResult
  <2> QED
    BY <2>1, <2>2
<1> QED
  BY <1>7, <1>8, <1>10, <1>11

-----------------------------------------------------------------------------
(* Multiplication *)

LEMMA ProductBound ==
  ASSUME NEW m \in Nat, NEW n \in Nat,
         NEW x \in (-m) .. m, NEW y \in (-n) .. n
  PROVE  x * y \in (-(m * n)) .. (m * n)
<1>1. \A i, j \in Nat : i <= m /\ j <= n => i * j \in Nat /\ i * j <= m * n
  <2> SUFFICES ASSUME NEW i \in Nat, NEW j \in Nat, i <= m, j <= n
               PROVE  i * j \in Nat /\ i * j <= m * n
    OBVIOUS
  <2>1. i * j <= m * j
    BY Monotone
  <2>2. j * m <= n * m
    BY Monotone
  <2>3. j * m = m * j /\ n * m = m * n /\ i * j \in Nat
    OBVIOUS
  <2> QED
    BY <2>1, <2>2, <2>3
<1>2. m * n \in Nat
  OBVIOUS
<1>3. CASE x >= 0 /\ y >= 0
  BY <1>1, <1>2, <1>3
<1>4. CASE x >= 0 /\ y < 0
  <2>1. x * y = -(x * (-y)) /\ -y \in Nat /\ -y <= n /\ x \in Nat /\ x <= m
    BY <1>4
  <2> QED
    BY <1>1, <1>2, <2>1
<1>5. CASE x < 0 /\ y >= 0
  <2>1. x * y = -((-x) * y) /\ -x \in Nat /\ -x <= m /\ y \in Nat /\ y <= n
    BY <1>5
  <2> QED
    BY <1>1, <1>2, <2>1
<1>6. CASE x < 0 /\ y < 0
  <2>1. x * y = (-x) * (-y) /\ -x \in Nat /\ -x <= m /\ -y \in Nat /\ -y <= n
    BY <1>6
  <2> QED
    BY <1>1, <1>2, <2>1
<1> QED
  BY <1>3, <1>4, <1>5, <1>6

\* The high half of a product and its low half.
LEMMA HighHalfIs ==
  ASSUME NEW p \in Int
  PROVE  /\ HighHalf(p) \in WordValue
         /\ \E low \in WordValue, k \in Int :
              HighHalf(p) * Word + low = p + k * (Word * Word)
<1> DEFINE w == Word * Word
           r == p % w
           k == -(p \div w)
<1>1. w \in Nat \ {0}
  BY Sizes
<1>2. r \in 0 .. (w - 1) /\ p \div w \in Int /\ p = w * (p \div w) + r
  <2> HIDE DEF w
  <2> QED
    BY <1>1, DivMod
<1>3. r \in 0 .. (Word * Word - 1) /\ k \in Int
  BY <1>2
<1>4. r = p + k * w
  <2>1. k * w = -(w * (p \div w)) /\ k * w \in Int
    BY <1>1, <1>3
  <2> HIDE DEF w, r, k
  <2> QED
    BY <1>1, <1>2, <2>1
<1> HIDE DEF k, r
<1>5. /\ r % Word \in 0 .. (Word - 1)
      /\ r \div Word \in 0 .. (Word - 1)
      /\ r = (r % Word) + Word * (r \div Word)
  BY <1>3, Sizes, TwoDigitsOf
<1>6. HighHalf(p) = r \div Word
  BY DEF HighHalf, r
<1>7. (r \div Word) * Word + (r % Word) = r
  <2> DEFINE d == r \div Word
             e == r % Word
  <2> HIDE DEF d, e
  <2>1. d \in Int /\ e \in Int /\ r = e + Word * d
    BY <1>5 DEF d, e
  <2>2. d * Word + e = r
    BY <2>1, Sizes
  <2> QED
    BY <2>2 DEF d, e
<1> QED
  BY <1>3, <1>4, <1>5, <1>6, <1>7 DEF WordValue

LEMMA SignedHighHalf ==
  ASSUME NEW p \in Int, -(MostNegative * Word) <= p, p < MostNegative * Word
  PROVE  \E low \in WordValue : ISA!Signed(HighHalf(p)) * Word + low = p
<1> DEFINE w == Word * Word
           v == HighHalf(p)
           h == MostNegative * Word
<1>1. h \in Nat /\ w = 2 * h /\ w \in Nat /\ h > 0
  <2>1. Word * Word = (2 * MostNegative) * Word
    BY Sizes
  <2>2. (2 * MostNegative) * Word = 2 * (MostNegative * Word)
    BY Sizes
  <2>3. 1 * Word <= MostNegative * Word
    BY Sizes, Monotone
  <2> QED
    BY <2>1, <2>2, <2>3, Sizes
<1>2. v \in WordValue
  BY HighHalfIs
<1>3. PICK low \in WordValue, k \in Int : v * Word + low = p + k * w
  BY HighHalfIs
<1> HIDE DEF v
<1>4. v \in Nat /\ v <= Word - 1 /\ low \in Nat /\ low < Word
  BY <1>2, Sizes DEF WordValue
<1>5. v * Word \in Nat /\ v * Word <= w - Word
  <2>1. v * Word <= (Word - 1) * Word
    <3>1. Word - 1 \in Nat
      BY Sizes
    <3> QED
      BY <1>4, <3>1, Sizes, Monotone
  <2>2. (Word - 1) * Word = Word * Word - Word
    BY Sizes
  <2> QED
    BY <1>4, <2>1, <2>2, Sizes
<1> DEFINE m == v * Word + low
<1>6. m \in Nat /\ m < w
  BY <1>1, <1>4, <1>5, Sizes
<1>7. k = 0 \/ k = 1
  <2>1. ~(k >= 2)
    <3>1. SUFFICES ASSUME k >= 2 PROVE FALSE
      OBVIOUS
    <3>2. 2 * w <= k * w /\ k * w \in Int
      BY <1>1, <3>1, Monotone
    <3> HIDE DEF w, h, m
    <3> QED
      BY <1>1, <1>3, <1>6, <3>2 DEF h, m
  <2>2. ~(k <= -1)
    <3>1. SUFFICES ASSUME k <= -1 PROVE FALSE
      OBVIOUS
    <3>2. -k \in Nat /\ 1 * w <= (-k) * w
      BY <1>1, <3>1, Monotone
    <3>3. (-k) * w = -(k * w) /\ k * w \in Int
      BY <1>1
    <3> HIDE DEF w, h, m
    <3> QED
      BY <1>1, <1>3, <1>6, <3>2, <3>3 DEF h, m
  <2> QED
    BY <2>1, <2>2
<1>8. v < MostNegative => v * Word + Word <= h
  <2>1. ASSUME v + 1 <= MostNegative PROVE (v + 1) * Word <= h
    BY <1>4, <2>1, Sizes, Monotone
  <2>2. (v + 1) * Word = v * Word + Word
    BY <1>4, Sizes
  <2> QED
    BY <1>4, <2>1, <2>2, Sizes
<1>9. v >= MostNegative => h <= v * Word
  BY <1>4, Sizes, Monotone
<1>10. ISA!Signed(v) = IF v < MostNegative THEN v ELSE v - Word
  BY <1>4, Sizes DEF ISA!Signed
<1>11. (v - Word) * Word = v * Word - w
  BY <1>4, Sizes
<1>12. CASE k = 0
  <2>1. v * Word + low = p
    <3>1. 0 * w = 0
      BY <1>1
    <3> QED
      BY <1>3, <1>12, <3>1
  <2>2. v < MostNegative
    BY <1>4, <1>5, <1>9, <2>1, Sizes
  <2> QED
    BY <1>10, <2>1, <2>2 DEF v
<1>13. CASE k = 1
  <2>1. v * Word + low = p + w
    <3>1. 1 * w = w
      BY <1>1
    <3> QED
      BY <1>3, <1>13, <3>1
  <2>2. ~(v < MostNegative)
    <3> HIDE DEF w, h
    <3> QED
      BY <1>1, <1>4, <1>5, <1>8, <2>1, Sizes DEF h
  <2>3. (v - Word) * Word + low = p
    <3> HIDE DEF w
    <3> QED
      BY <1>1, <1>4, <1>5, <1>11, <2>1
  <2> QED
    BY <1>10, <2>2, <2>3 DEF v
<1> QED
  BY <1>7, <1>12, <1>13

LEMMA MultiplyIsResult ==
  ASSUME NEW op \in {"MUL", "MULH", "MULHSU", "MULHU"},
         NEW a \in WordValue, NEW b \in WordValue
  PROVE  /\ Multiply(op, a, b) \in WordValue
         /\ ISA!IsResult(op, a, b, Multiply(op, a, b))
<1> DEFINE x == Int32(a)
           y == Int32(b)
           h == MostNegative * Word
<1>1. a \in 0 .. (Word - 1) /\ b \in 0 .. (Word - 1) /\ ISA!Value = WordValue
  BY DEF WordValue, ISA!Value
<1>2. /\ x \in (-MostNegative) .. (MostNegative - 1)
      /\ y \in (-MostNegative) .. (MostNegative - 1)
      /\ ISA!Signed(a) = x /\ ISA!Signed(b) = y
  BY SignedIs
<1>3. x \in (-MostNegative) .. MostNegative /\ y \in (-MostNegative) .. MostNegative
  BY <1>2, Sizes
<1> HIDE DEF x, y
<1>4. CASE op = "MUL"
  <2>1. a * b \in Int
    BY <1>1, Sizes
  <2> QED
    BY <1>4, <2>1, ModInRange, SameAsMod DEF Multiply, ISA!IsResult
<1>5. CASE op = "MULH"
  <2>1. x * y \in (-(MostNegative * MostNegative)) .. (MostNegative * MostNegative)
    BY <1>3, Sizes, ProductBound
  <2>2. MostNegative * MostNegative < h
    <3>1. (MostNegative + 1) * MostNegative <= Word * MostNegative
      <4>1. MostNegative + 1 <= Word /\ MostNegative + 1 \in Nat
        BY Sizes
      <4> QED
        BY <4>1, Sizes, Monotone
    <3>2. /\ (MostNegative + 1) * MostNegative = MostNegative * MostNegative + MostNegative
          /\ Word * MostNegative = h
          /\ MostNegative * MostNegative \in Nat
      BY Sizes
    <3> QED
      BY <3>1, <3>2, Sizes
  <2>3. x * y \in Int /\ -h <= x * y /\ x * y < h
    <3>1. h \in Nat /\ MostNegative * MostNegative \in Nat
      BY Sizes
    <3> DEFINE n == MostNegative * MostNegative
               p == x * y
    <3> HIDE DEF h, n, p
    <3>2. n \in Nat /\ h \in Nat /\ n < h /\ p \in (-n) .. n
      BY <2>1, <2>2, <3>1 DEF n, p
    <3>3. p \in Int /\ -h <= p /\ p < h
      BY <3>2
    <3> QED
      BY <3>3 DEF p
  <2>4. \E low \in WordValue : ISA!Signed(HighHalf(x * y)) * Word + low = x * y
    BY <2>3, SignedHighHalf
  <2>5. Multiply(op, a, b) = HighHalf(x * y)
    BY <1>5 DEF Multiply, x, y
  <2>6. HighHalf(x * y) \in WordValue
    BY <2>3, HighHalfIs
  <2> QED
    BY <1>1, <1>2, <1>5, <2>4, <2>5, <2>6 DEF ISA!IsResult
<1>6. CASE op = "MULHSU"
  <2>1. x * b \in (-(MostNegative * (Word - 1))) .. (MostNegative * (Word - 1))
    <3>1. Word - 1 \in Nat /\ b \in (-(Word - 1)) .. (Word - 1)
      BY <1>1, Sizes
    <3> QED
      BY <1>3, <3>1, Sizes, ProductBound
  <2>2. MostNegative * (Word - 1) = h - MostNegative /\ h \in Nat
    BY Sizes
  <2>3. x * b \in Int /\ -h <= x * b /\ x * b < h
    <3> DEFINE p == x * b
    <3> HIDE DEF h, p
    <3>1. p \in (-(h - MostNegative)) .. (h - MostNegative)
      BY <2>1, <2>2 DEF p
    <3>2. p \in Int /\ -h <= p /\ p < h
      BY <2>2, <3>1, Sizes
    <3> QED
      BY <3>2 DEF p
  <2>4. \E low \in WordValue : ISA!Signed(HighHalf(x * b)) * Word + low = x * b
    BY <2>3, SignedHighHalf
  <2>5. Multiply(op, a, b) = HighHalf(x * b)
    BY <1>6 DEF Multiply, x
  <2>6. HighHalf(x * b) \in WordValue
    BY <2>3, HighHalfIs
  <2> QED
    BY <1>1, <1>2, <1>6, <2>4, <2>5, <2>6 DEF ISA!IsResult
<1>7. CASE op = "MULHU"
  <2> DEFINE w == Word * Word
             p == a * b
  <2>1. p \in Nat /\ w \in Nat /\ p < w
    <3>1. b \in Nat /\ a \in Nat /\ a <= Word - 1 /\ b <= Word - 1 /\ Word - 1 \in Nat
      BY <1>1, Sizes
    <3>2. a * b <= (Word - 1) * b
      BY <3>1, Monotone
    <3>3. b * (Word - 1) <= (Word - 1) * (Word - 1)
      BY <3>1, Monotone
    <3>4. (Word - 1) * b = b * (Word - 1)
      BY <3>1
    <3>5. (Word - 1) * (Word - 1) = Word * Word - 2 * Word + 1
      BY Sizes
    <3>6. a * b \in Nat /\ b * (Word - 1) \in Nat /\ Word * Word \in Nat
      BY <3>1, Sizes
    <3> QED
      BY <3>2, <3>3, <3>4, <3>5, <3>6, Sizes
  <2>2. p % w = p
    BY <2>1, ModSmall
  <2>3. p \in 0 .. (Word * Word - 1)
    BY <2>1
  <2> HIDE DEF p, w
  <2>4. /\ p % Word \in 0 .. (Word - 1)
        /\ p \div Word \in 0 .. (Word - 1)
        /\ p = (p % Word) + Word * (p \div Word)
    BY <2>3, Sizes, TwoDigitsOf
  <2>5. (p \div Word) * Word + (p % Word) = p
    <3> DEFINE d == p \div Word
               e == p % Word
    <3> HIDE DEF d, e
    <3>1. d \in Int /\ e \in Int /\ p = e + Word * d
      BY <2>4 DEF d, e
    <3>2. d * Word + e = p
      BY <3>1, Sizes
    <3> QED
      BY <3>2 DEF d, e
  <2>6. Multiply(op, a, b) = p \div Word
    BY <1>7, <2>2 DEF Multiply, HighHalf, p, w
  <2>7. /\ p \div Word \in WordValue
        /\ \E low \in ISA!Value : (p \div Word) * Word + low = a * b
    BY <1>1, <2>4, <2>5 DEF WordValue, p
  <2> QED
    BY <1>7, <2>6, <2>7 DEF ISA!IsResult
<1> QED
  BY <1>4, <1>5, <1>6, <1>7

-----------------------------------------------------------------------------
(* Sums, comparisons and bits *)

\* A bit is 0 or 1.
LEMMA BitsAre ==
  ASSUME NEW v \in WordValue, NEW k \in 0 .. (XLEN - 1)
  PROVE  /\ ISA!Bit(v, k) \in {0, 1}
         /\ k \in Bits(v) <=> ISA!Bit(v, k) = 1
<1>1. 2^k \in Nat \ {0} /\ v \in Int
  BY InstructionsAssumption, PowersAssumption, Sizes DEF WordValue
<1>2. v \div 2^k \in Int
  BY <1>1, DivMod
<1>3. (v \div 2^k) % 2 \in 0 .. 1
  BY <1>2, DivMod
<1> QED
  BY <1>3 DEF ISA!Bit, Bits

LEMMA SumIsResult ==
  ASSUME NEW op \in {"ADD", "SUB", "SLT", "SLTU"},
         NEW a \in WordValue, NEW b \in WordValue, NEW v \in Results(op, a, b)
  PROVE  v \in WordValue /\ ISA!IsResult(op, a, b, v)
<1>1. a \in Nat /\ b \in Nat
  BY Sizes DEF WordValue
<1>2. CASE op = "ADD"
  <2>1. a + b \in Int /\ v = (a + b) % Word
    BY <1>1, <1>2 DEF Results
  <2> QED
    BY <1>2, <2>1, ModInRange, SameAsMod DEF ISA!IsResult
<1>3. CASE op = "SUB"
  <2>1. a - b \in Int /\ v = (a - b) % Word
    BY <1>1, <1>3 DEF Results
  <2> QED
    BY <1>3, <2>1, ModInRange, SameAsMod DEF ISA!IsResult
<1>4. 0 \in WordValue /\ 1 \in WordValue
  BY Sizes DEF WordValue
<1>5. CASE op = "SLT"
  <2>1. v = IF ISA!Signed(a) < ISA!Signed(b) THEN 1 ELSE 0
    BY <1>5, SignedIs DEF Results, Flag
  <2> QED
    BY <1>4, <1>5, <2>1 DEF ISA!IsResult
<1>6. CASE op = "SLTU"
  <2>1. v = IF a < b THEN 1 ELSE 0
    BY <1>6 DEF Results, Flag
  <2> QED
    BY <1>4, <1>6, <2>1 DEF ISA!IsResult
<1> QED
  BY <1>2, <1>3, <1>5, <1>6

LEMMA LogicIsResult ==
  ASSUME NEW op \in {"XOR", "OR", "AND"},
         NEW a \in WordValue, NEW b \in WordValue, NEW v \in Results(op, a, b)
  PROVE  v \in WordValue /\ ISA!IsResult(op, a, b, v)
<1>1. CASE op = "XOR"
  <2>1. v \in WordValue /\ Bits(v) = (Bits(a) \ Bits(b)) \cup (Bits(b) \ Bits(a))
    BY <1>1 DEF Results, WithBits
  <2>2. ASSUME NEW k \in 0 .. (XLEN - 1)
        PROVE  ISA!Bit(v, k) = 1 <=> ISA!Bit(a, k) # ISA!Bit(b, k)
    BY <2>1, BitsAre
  <2> QED
    BY <1>1, <2>1, <2>2 DEF ISA!IsResult
<1>2. CASE op = "OR"
  <2>1. v \in WordValue /\ Bits(v) = Bits(a) \cup Bits(b)
    BY <1>2 DEF Results, WithBits
  <2>2. ASSUME NEW k \in 0 .. (XLEN - 1)
        PROVE  ISA!Bit(v, k) = 1 <=> ISA!Bit(a, k) = 1 \/ ISA!Bit(b, k) = 1
    BY <2>1, BitsAre
  <2> QED
    BY <1>2, <2>1, <2>2 DEF ISA!IsResult
<1>3. CASE op = "AND"
  <2>1. v \in WordValue /\ Bits(v) = Bits(a) \cap Bits(b)
    BY <1>3 DEF Results, WithBits
  <2>2. ASSUME NEW k \in 0 .. (XLEN - 1)
        PROVE  ISA!Bit(v, k) = 1 <=> ISA!Bit(a, k) = 1 /\ ISA!Bit(b, k) = 1
    BY <2>1, BitsAre
  <2> QED
    BY <1>3, <2>1, <2>2 DEF ISA!IsResult
<1> QED
  BY <1>1, <1>2, <1>3

-----------------------------------------------------------------------------
(* Shifts *)

\* A power of two in a word: what is above it, twice, and it make the word.
LEMMA Powers ==
  ASSUME NEW k \in 0 .. XLEN
  PROVE  /\ 2^k \in Nat \ {0}
         /\ \A i \in 0 .. k : 2^(k - i) \in Nat \ {0} /\ 2^k = 2^i * 2^(k - i)
         /\ \A i \in 0 .. (k - 1) :
              2^(k - i - 1) \in Nat \ {0} /\ 2^k = 2^i * (2 * 2^(k - i - 1))
<1>1. XLEN \in Nat \ {0} /\ k \in Nat /\ k <= XLEN
  BY InstructionsAssumption
<1>2. 2^k \in Nat \ {0}
  BY PowersAssumption
<1>3. ASSUME NEW i \in 0 .. k
      PROVE  2^(k - i) \in Nat \ {0} /\ 2^k = 2^i * 2^(k - i)
  <2>1. i \in 0 .. XLEN /\ k - i \in 0 .. XLEN /\ i + (k - i) = k
    BY <1>1
  <2> QED
    BY <1>1, <2>1, PowersAssumption
<1>4. ASSUME NEW i \in 0 .. (k - 1)
      PROVE  2^(k - i - 1) \in Nat \ {0} /\ 2^k = 2^i * (2 * 2^(k - i - 1))
  <2>1. i \in 0 .. k /\ 1 \in 0 .. XLEN /\ k - i - 1 \in 0 .. XLEN
        /\ 1 + (k - i - 1) = k - i /\ k - i <= XLEN
    BY <1>1
  <2>2. 2^(k - i) = 2^1 * 2^(k - i - 1) /\ 2^(k - i - 1) \in Nat \ {0}
    BY <2>1, PowersAssumption
  <2>3. 2^1 = 2
    OBVIOUS
  <2>4. 2^(k - i) = 2 * 2^(k - i - 1)
    BY <2>2, <2>3
  <2> QED
    BY <1>3, <2>1, <2>2, <2>4
<1> QED
  BY <1>2, <1>3, <1>4

\* The bits of a remainder are those of the number.
LEMMA BitOfRemainder ==
  ASSUME NEW x \in Int, NEW p \in Nat \ {0}, NEW q \in Nat \ {0}
  PROVE  ((x % (p * (2 * q))) \div p) % 2 = (x \div p) % 2
<1> DEFINE n == p * (2 * q)
           t == x \div n
           r == x % n
           d == r \div p
           e == r % p
<1>1. n \in Nat \ {0}
  BY SMT
<1>2. t \in Int /\ r \in 0 .. (n - 1) /\ x = n * t + r
  <2> HIDE DEF n
  <2> QED
    BY <1>1, DivMod
<1>3. r \in Int
  BY <1>1, <1>2
<1> HIDE DEF t, r
<1>4. d \in Int /\ e \in 0 .. (p - 1) /\ r = p * d + e
  BY <1>3, DivMod
<1> HIDE DEF d, e
<1>5. x = (d + (q * t) * 2) * p + e
  <2>1. n * t = ((q * t) * 2) * p
    BY <1>2
  <2>2. (d + (q * t) * 2) * p = d * p + ((q * t) * 2) * p
    BY <1>2, <1>4
  <2>3. p * d = d * p /\ d * p \in Int /\ ((q * t) * 2) * p \in Int
    BY <1>2, <1>4
  <2> DEFINE u == d * p
             w == ((q * t) * 2) * p
  <2> HIDE DEF n, u, w
  <2>4. u \in Int /\ w \in Int /\ n * t = w /\ p * d = u
        /\ (d + (q * t) * 2) * p = u + w
    BY <2>1, <2>2, <2>3 DEF u, w
  <2>5. x = w + (u + e)
    BY <1>2, <1>4, <2>4
  <2> QED
    BY <1>4, <2>4, <2>5
<1>6. q * t \in Int
  BY <1>2
<1>7. x \div p = d + (q * t) * 2
  <2>1. d + (q * t) * 2 \in Int
    BY <1>4, <1>6
  <2> QED
    BY <1>4, <1>5, <2>1, DivModUniqueInt
<1>8. (d + (q * t) * 2) % 2 = d % 2
  BY <1>4, <1>6, ModOfSum
<1> QED
  BY <1>7, <1>8 DEF d, r

LEMMA DivTwice ==
  ASSUME NEW x \in Int, NEW p \in Nat \ {0}, NEW q \in Nat \ {0}
  PROVE  (x \div p) \div q = x \div (p * q)
<1> DEFINE d == x \div p
           e == x % p
           c == d \div q
           f == d % q
           r == p * f + e
<1>1. d \in Int /\ e \in 0 .. (p - 1) /\ x = p * d + e
  BY DivMod
<1> HIDE DEF d, e
<1>2. c \in Int /\ f \in 0 .. (q - 1) /\ d = q * c + f
  BY <1>1, DivMod
<1> HIDE DEF c, f
<1>3. p * q \in Nat \ {0}
  BY SMT
<1>4. r \in 0 .. (p * q - 1)
  <2>1. f \in Nat /\ q - 1 \in Nat /\ f <= q - 1
    BY <1>2
  <2>2. f * p <= (q - 1) * p
    BY <2>1, Monotone
  <2>3. f * p = p * f /\ (q - 1) * p = p * q - p /\ p * f \in Nat
    BY <2>1
  <2> DEFINE u == p * f
             w == p * q
  <2> HIDE DEF u, w
  <2>4. u \in Nat /\ w \in Nat /\ u <= w - p
    BY <1>3, <2>2, <2>3 DEF u, w
  <2>5. u + e \in 0 .. (w - 1)
    BY <1>1, <2>4
  <2> QED
    BY <2>5 DEF u, w
<1>5. x = c * (p * q) + r
  <2>1. p * (q * c + f) = p * (q * c) + p * f
    BY <1>2
  <2>2. p * (q * c) = c * (p * q) /\ c * (p * q) \in Int /\ p * f \in Int
    BY <1>2
  <2> DEFINE u == p * f
             w == c * (p * q)
  <2>3. p * d = w + u /\ w \in Int /\ u \in Int
    BY <1>2, <2>1, <2>2
  <2> HIDE DEF u, w
  <2>4. x = w + (u + e)
    BY <1>1, <2>3
  <2> QED
    BY <2>4 DEF u, w
<1> HIDE DEF r
<1>6. x \div (p * q) = c
  BY <1>2, <1>3, <1>4, <1>5, DivModUniqueInt
<1> QED
  BY <1>6 DEF c, d

LEMMA ScaledDiv ==
  ASSUME NEW a \in Int, NEW s \in Nat \ {0}, NEW p \in Nat \ {0}
  PROVE  (a * s) \div (s * p) = a \div p
<1>1. a * s \in Int
  OBVIOUS
<1>2. ((a * s) \div s) \div p = (a * s) \div (s * p)
  BY <1>1, DivTwice
<1>3. (a * s + 0) \div s = a
  <2>1. 0 \in 0 .. (s - 1)
    OBVIOUS
  <2> QED
    BY <2>1, DivModUniqueInt
<1>4. a * s + 0 = a * s
  BY <1>1
<1> QED
  BY <1>2, <1>3, <1>4

LEMMA ShiftIsResult ==
  ASSUME NEW op \in {"SLL", "SRL", "SRA"}, NEW a \in WordValue, NEW b \in Nat
  PROVE  /\ Shift(op, a, b % XLEN) \in WordValue
         /\ ISA!IsResult(op, a, b, Shift(op, a, b % XLEN))
<1> DEFINE s == b % XLEN
           v == Shift(op, a, s)
<1>1. XLEN \in Nat \ {0} /\ Word = 2^XLEN /\ XLEN \in 0 .. XLEN
  BY InstructionsAssumption
<1>2. s \in 0 .. (XLEN - 1) /\ s \in 0 .. XLEN
  <2>1. b \in Int
    OBVIOUS
  <2>2. s \in 0 .. (XLEN - 1)
    BY <1>1, <2>1, DivMod
  <2> QED
    BY <1>1, <2>2
<1> HIDE DEF s
<1>3. a \in Nat /\ a < Word
  BY Sizes DEF WordValue
<1>4. 2^s \in Nat \ {0}
  BY <1>2, Powers
<1>5. ASSUME NEW x \in Int, NEW k \in 0 .. (XLEN - 1)
      PROVE  ISA!Bit(x % Word, k) = (x \div 2^k) % 2
  <2>1. /\ 2^k \in Nat \ {0} /\ 2^(XLEN - k - 1) \in Nat \ {0}
        /\ Word = 2^k * (2 * 2^(XLEN - k - 1))
    BY <1>1, Powers
  <2> QED
    BY <2>1, BitOfRemainder DEF ISA!Bit
<1>6. CASE op = "SLL"
  <2> DEFINE x == a * 2^s
  <2>1. v = x % Word /\ x \in Int
    BY <1>3, <1>4, <1>6 DEF Shift
  <2>2. ASSUME NEW k \in 0 .. (XLEN - 1)
        PROVE  ISA!Bit(v, k) = IF k < s THEN 0 ELSE ISA!Bit(a, k - s)
    <3>1. ISA!Bit(v, k) = (x \div 2^k) % 2
      BY <1>5, <2>1
    <3>2. CASE k < s
      <4> DEFINE p == 2^k
                 u == 2^(s - k - 1)
      <4>1. p \in Nat \ {0} /\ u \in Nat \ {0} /\ 2^s = p * (2 * u)
        BY <1>1, <1>2, <3>2, Powers
      <4> HIDE DEF p, u
      <4>2. a * u \in Int /\ (a * u) * 2 \in Int
        BY <1>3, <4>1
      <4>3. x = ((a * u) * 2) * p + 0
        <5>1. a * (p * (2 * u)) = ((a * u) * 2) * p
          BY <1>3, <4>1
        <5>2. ((a * u) * 2) * p \in Int
          BY <4>1, <4>2
        <5> QED
          BY <4>1, <5>1, <5>2
      <4>4. 0 \in 0 .. (p - 1) /\ 0 \in Int
        BY <4>1
      <4>5. x \div p = (a * u) * 2
        <5> HIDE DEF x
        <5> QED
          BY <4>1, <4>2, <4>3, <4>4, DivModUniqueInt
      <4>6. (0 + (a * u) * 2) % 2 = 0 % 2
        BY <4>2, <4>4, ModOfSum
      <4>7. 0 + (a * u) * 2 = (a * u) * 2 /\ 0 % 2 = 0
        BY <4>2
      <4>8. (x \div p) % 2 = 0
        BY <4>5, <4>6, <4>7
      <4> QED
        BY <3>1, <3>2, <4>8 DEF p
    <3>3. CASE ~(k < s)
      <4>1. s \in 0 .. k /\ k \in 0 .. XLEN
        BY <1>1, <1>2, <3>3
      <4>2. 2^(k - s) \in Nat \ {0} /\ 2^k = 2^s * 2^(k - s)
        BY <4>1, Powers
      <4>3. x \div 2^k = a \div 2^(k - s)
        BY <1>3, <1>4, <4>2, ScaledDiv
      <4> QED
        BY <3>1, <3>3, <4>3 DEF ISA!Bit
    <3> QED
      BY <3>2, <3>3
  <2>3. v \in WordValue
    BY <2>1, ModInRange
  <2> QED
    BY <1>6, <2>2, <2>3 DEF ISA!IsResult, s
<1>7. CASE op = "SRL"
  <2> DEFINE d == a \div 2^s
  <2>1. v = d
    BY <1>7 DEF Shift
  <2>2. d \in Nat /\ a = 2^s * d + (a % 2^s) /\ a % 2^s \in 0 .. (2^s - 1)
    <3>1. a \in Int
      BY <1>3
    <3> QED
      BY <1>3, <1>4, <3>1, DivMod, QuotientNat
  <2> HIDE DEF d
  <2>3. 2^s * d <= a /\ 2^s * d \in Nat
    BY <1>3, <1>4, <2>2
  <2>4. d <= a
    <3>1. 1 * d <= 2^s * d
      BY <1>4, <2>2, Monotone
    <3> QED
      BY <1>3, <2>2, <2>3, <3>1
  <2>5. v \in WordValue
    BY <1>3, <2>1, <2>2, <2>4, Sizes DEF WordValue
  <2>6. ASSUME NEW k \in 0 .. (XLEN - 1)
        PROVE  ISA!Bit(v, k) = IF k + s < XLEN THEN ISA!Bit(a, k + s) ELSE 0
    <3>1. 2^k \in Nat \ {0} /\ k \in 0 .. XLEN
      BY <1>1, Powers
    <3>2. CASE k + s < XLEN
      <4>1. k + s \in 0 .. XLEN /\ s \in 0 .. (k + s) /\ (k + s) - s = k
        BY <1>1, <1>2, <3>2
      <4>2. 2^(k + s) = 2^s * 2^k
        BY <4>1, Powers
      <4>3. (a \div 2^s) \div 2^k = a \div 2^(k + s)
        BY <1>3, <1>4, <3>1, <4>2, DivTwice
      <4> QED
        BY <2>1, <3>2, <4>3 DEF ISA!Bit, d
    <3>3. CASE ~(k + s < XLEN)
      <4> DEFINE u == 2^(XLEN - s)
      <4>1. XLEN - s \in 0 .. k /\ s \in 0 .. XLEN
        BY <1>1, <1>2, <3>3
      <4>2. u \in Nat \ {0} /\ Word = 2^s * u
        BY <1>1, <4>1, Powers
      <4>3. 2^(k - (XLEN - s)) \in Nat \ {0} /\ 2^k = u * 2^(k - (XLEN - s))
        BY <3>1, <4>1, Powers
      <4> HIDE DEF u
      <4>4. d < u
        <5>1. SUFFICES ASSUME u <= d PROVE FALSE
          BY <2>2, <4>2
        <5>2. u * 2^s <= d * 2^s
          BY <1>4, <2>2, <4>2, <5>1, Monotone
        <5>3. u * 2^s = Word /\ d * 2^s = 2^s * d
          BY <1>4, <2>2, <4>2
        <5> QED
          BY <1>3, <2>3, <5>2, <5>3, Sizes
      <4>5. u <= 2^k
        <5> DEFINE w == 2^(k - (XLEN - s))
        <5>1. w \in Nat \ {0} /\ 2^k = u * w
          BY <4>3
        <5> HIDE DEF w
        <5>2. 1 * u <= w * u /\ w * u = u * w
          BY <4>2, <5>1, Monotone
        <5> QED
          BY <4>2, <5>1, <5>2
      <4>6. d = 0 * 2^k + d /\ d \in 0 .. (2^k - 1)
        BY <2>2, <3>1, <4>2, <4>4, <4>5
      <4>7. (0 * 2^k + d) \div 2^k = 0
        BY <3>1, <4>6, DivModUniqueInt
      <4>8. (d \div 2^k) % 2 = 0
        BY <4>6, <4>7
      <4> QED
        BY <2>1, <3>3, <4>8 DEF ISA!Bit
    <3> QED
      BY <3>2, <3>3
  <2> QED
    BY <1>7, <2>5, <2>6 DEF ISA!IsResult, s
<1>8. CASE op = "SRA"
  <2> DEFINE n == Int32(a)
             d == n \div 2^s
  <2>1. n \in Int /\ n < MostNegative /\ -MostNegative <= n
    BY Sizes, SignedIs
  <2>2. d \in Int
    BY <1>4, <2>1, DivMod
  <2>3. v = d % Word
    BY <1>8 DEF Shift
  <2>4. v \in WordValue
    BY <2>2, <2>3, ModInRange
  <2>5. ASSUME NEW k \in 0 .. (XLEN - 1)
        PROVE  ISA!Bit(v, k) = IF k + s < XLEN THEN ISA!Bit(a, k + s)
                               ELSE ISA!Bit(a, XLEN - 1)
    <3>1. 2^k \in Nat \ {0} /\ k \in 0 .. XLEN
      BY <1>1, Powers
    <3> DEFINE m == 2^s * 2^k
    <3>2. m \in Nat \ {0}
      BY <1>4, <3>1
    <3>3. ISA!Bit(v, k) = (n \div m) % 2
      <4>1. ISA!Bit(v, k) = (d \div 2^k) % 2
        BY <1>5, <2>2, <2>3
      <4>2. d \div 2^k = n \div m
        BY <1>4, <2>1, <3>1, DivTwice
      <4> QED
        BY <4>1, <4>2
    <3>4. CASE k + s < XLEN
      <4> DEFINE u == 2^(XLEN - (k + s) - 1)
      <4>1. k + s \in 0 .. (XLEN - 1) /\ k + s \in 0 .. XLEN
            /\ s \in 0 .. (k + s) /\ (k + s) - s = k
        BY <1>1, <1>2, <3>4
      <4>2. 2^(k + s) = m
        BY <4>1, Powers
      <4>3. u \in Nat \ {0} /\ Word = m * (2 * u)
        BY <1>1, <4>1, <4>2, Powers
      <4>4. (a \div m) % 2 = (n \div m) % 2
        <5> HIDE DEF m, u, n
        <5>1. CASE n = a
          BY <5>1
        <5>2. CASE n = a - Word
          <6> DEFINE q == a \div m
                     r == a % m
          <6>1. q \in Int /\ r \in 0 .. (m - 1) /\ a = m * q + r
            <7>1. a \in Int
              BY <1>3
            <7> QED
              BY <3>2, <7>1, DivMod
          <6> HIDE DEF q, r
          <6>2. n = (q + (-u) * 2) * m + r
            <7>1. (q + (-u) * 2) * m = q * m + ((-u) * 2) * m
              BY <3>2, <4>3, <6>1
            <7>2. ((-u) * 2) * m = -(m * (2 * u)) /\ m * (2 * u) \in Int
              BY <3>2, <4>3
            <7>3. q * m = m * q /\ m * q \in Int
              BY <3>2, <6>1
            <7> DEFINE x == m * q
                       y == m * (2 * u)
            <7> HIDE DEF x, y
            <7>4. x \in Int /\ y \in Int /\ a = x + r /\ Word = y
                  /\ (q + (-u) * 2) * m = x + (-y)
              BY <4>3, <6>1, <7>1, <7>2, <7>3 DEF x, y
            <7>5. n = (x + r) - y
              BY <5>2, <7>4
            <7> QED
              BY <6>1, <7>4, <7>5
          <6>3. q + (-u) * 2 \in Int /\ -u \in Int
            BY <4>3, <6>1
          <6>4. n \div m = q + (-u) * 2
            BY <3>2, <6>1, <6>2, <6>3, DivModUniqueInt
          <6>5. (q + (-u) * 2) % 2 = q % 2
            BY <6>1, <6>3, ModOfSum
          <6> QED
            BY <6>4, <6>5 DEF q
        <5>3. n = a \/ n = a - Word
          BY DEF Int32, n
        <5> QED
          BY <5>1, <5>2, <5>3
      <4>5. ISA!Bit(a, k + s) = (a \div m) % 2
        BY <4>2 DEF ISA!Bit
      <4> QED
        BY <3>3, <3>4, <4>4, <4>5
    <3>5. CASE ~(k + s < XLEN)
      <4> DEFINE u == 2^(XLEN - s)
                 h == 2^(XLEN - 1)
      <4>1. XLEN - s \in 0 .. k /\ XLEN - 1 \in 0 .. (XLEN - 1)
        BY <1>1, <1>2, <3>5
      <4>2. u \in Nat \ {0} /\ Word = 2^s * u
        BY <1>1, <1>2, Powers
      <4>3. 2^(k - (XLEN - s)) \in Nat \ {0} /\ 2^k = u * 2^(k - (XLEN - s))
        BY <3>1, <4>1, Powers
      <4>4. Word <= m
        <5> DEFINE w == 2^(k - (XLEN - s))
        <5>1. w \in Nat \ {0} /\ 2^k = u * w
          BY <4>3
        <5> HIDE DEF w, u
        <5>2. m = w * (2^s * u)
          <6> DEFINE t == 2^s
          <6>1. t \in Nat /\ m = t * (u * w)
            BY <1>4, <5>1 DEF m
          <6> HIDE DEF t
          <6>2. t * (u * w) = w * (t * u)
            BY <4>2, <5>1, <6>1
          <6> QED
            BY <6>1, <6>2 DEF t
        <5>3. 1 * Word <= w * Word
          BY <5>1, Sizes, Monotone
        <5> QED
          BY <4>2, <5>2, <5>3, Sizes
      <4>5. h \in Nat \ {0} /\ Word = h * 2
        <5>1. XLEN - (XLEN - 1) = 1 /\ XLEN - 1 \in 0 .. XLEN
          BY <1>1
        <5>2. h \in Nat \ {0} /\ 2^XLEN = h * 2^1
          BY <1>1, <5>1, Powers
        <5>3. 2^1 = 2
          OBVIOUS
        <5> QED
          BY <1>1, <5>2, <5>3
      <4> HIDE DEF h, u, m, n
      <4>6. h = MostNegative
        BY <4>5, Sizes
      <4>7. CASE n >= 0
        <5>1. n = a /\ a < h
          BY <1>3, <2>1, <4>6, <4>7, Sizes DEF Int32, n
        <5>2. n = 0 * m + n /\ n \in 0 .. (m - 1) /\ a = 0 * h + a /\ a \in 0 .. (h - 1)
          BY <1>3, <3>2, <4>4, <4>5, <4>7, <5>1, Sizes
        <5>3. (0 * m + n) \div m = 0 /\ (0 * h + a) \div h = 0
          BY <3>2, <4>5, <5>2, DivModUniqueInt
        <5>4. n \div m = 0 /\ a \div h = 0
          BY <5>2, <5>3
        <5> QED
          BY <3>3, <3>5, <5>4 DEF ISA!Bit, h
      <4>8. CASE n < 0
        <5>1. n = a - Word /\ h <= a
          BY <1>3, <2>1, <4>6, <4>8, Sizes DEF Int32, n
        <5>2. /\ n = (-1) * m + (n + m) /\ n + m \in 0 .. (m - 1)
              /\ a = 1 * h + (a - h) /\ a - h \in 0 .. (h - 1)
          BY <1>3, <2>1, <3>2, <4>4, <4>5, <4>6, <4>8, <5>1, Sizes
        <5>3. ((-1) * m + (n + m)) \div m = -1 /\ (1 * h + (a - h)) \div h = 1
          <6>1. -1 \in Int /\ 1 \in Int
            OBVIOUS
          <6> DEFINE r == n + m
          <6>2. r \in 0 .. (m - 1)
            BY <5>2
          <6> HIDE DEF r
          <6>3. ((-1) * m + r) \div m = -1
            BY <3>2, <6>1, <6>2, DivModUniqueInt
          <6>4. (1 * h + (a - h)) \div h = 1
            BY <4>5, <5>2, <6>1, DivModUniqueInt
          <6> QED
            BY <6>3, <6>4 DEF r
        <5>4. n \div m = -1 /\ a \div h = 1
          BY <5>2, <5>3
        <5>5. (-1) % 2 = 1 /\ 1 % 2 = 1
          <6>1. ((-1) * 2 + 1) % 2 = 1
            <7>1. -1 \in Int /\ 2 \in Nat \ {0} /\ 1 \in 0 .. (2 - 1)
              OBVIOUS
            <7> QED
              BY <7>1, DivModUniqueInt
          <6>2. (-1) * 2 + 1 = -1
            OBVIOUS
          <6> QED
            BY <6>1, <6>2
        <5> QED
          BY <3>3, <3>5, <5>4, <5>5 DEF ISA!Bit, h
      <4> QED
        BY <2>1, <4>7, <4>8
    <3> QED
      BY <3>4, <3>5
  <2> QED
    BY <1>8, <2>4, <2>5 DEF ISA!IsResult, s
<1> QED
  BY <1>6, <1>7, <1>8

-----------------------------------------------------------------------------
(* Opcodes *)

OpNames == {"ADD", "SUB", "SLT", "SLTU", "XOR", "OR", "AND", "SLL", "SRL", "SRA",
            "MUL", "MULH", "MULHSU", "MULHU", "DIV", "DIVU", "REM", "REMU"}

OpImmNames == {"ADDI", "SLTI", "SLTIU", "XORI", "ORI", "ANDI",
               "SLLI", "SRLI", "SRAI"}

BranchNames == {"BEQ", "BNE", "BLT", "BGE", "BLTU", "BGEU"}

\* An instruction that is decoded has the opcode of its type.
LEMMA OpcodeOfType ==
  ASSUME NEW w \in Instruction, decodeOpcode(w) # Unknown
  PROVE  /\ decodeInstructionType(w) = "OP" => decodeOpcode(w) \in OpNames
         /\ decodeInstructionType(w) = "OP_IMM" => decodeOpcode(w) \in OpImmNames
         /\ decodeInstructionType(w) = "BRANCH" => decodeOpcode(w) \in BranchNames
         /\ decodeInstructionType(w) = "JUMP" =>
              decodeOpcode(w) = IF w.opcode = 103 THEN "JALR" ELSE "JAL"
         /\ decodeInstructionType(w) = "OP_UI" =>
              decodeOpcode(w) = IF w.opcode = 55 THEN "LUI" ELSE "AUIPC"
<1>0. w.funct3 \in 0 .. 7 /\ w.funct7 \in 0 .. 127
  BY DEF Instruction
<1>1. CASE decodeInstructionType(w) = "OP"
  <2>1. decodeOpcode(w) = DecodeOp(w)
    BY <1>1 DEF decodeOpcode
  <2>2. CASE w.funct7 % 2 = 1
    <3>1. DecodeOp(w) = <<"MUL", "MULH", "MULHSU", "MULHU", "DIV", "DIVU", "REM", "REMU">>
                          [w.funct3 + 1]
      BY <2>2 DEF DecodeOp
    <3> QED
      BY <1>0, <1>1, <2>1, <3>1 DEF OpNames
  <2>3. CASE w.funct7 % 2 = 0 /\ w.funct3 \in {0, 5}
    <3>1. DecodeOp(w) \in {ByFunct7(w, "ADD", "SUB"), ByFunct7(w, "SRL", "SRA")}
      BY <2>3 DEF DecodeOp
    <3>2. ByFunct7(w, "ADD", "SUB") \in {"ADD", "SUB", Unknown}
      BY DEF ByFunct7
    <3>3. ByFunct7(w, "SRL", "SRA") \in {"SRL", "SRA", Unknown}
      BY DEF ByFunct7
    <3> QED
      BY <1>1, <2>1, <3>1, <3>2, <3>3 DEF OpNames
  <2>4. CASE w.funct7 % 2 = 0 /\ w.funct3 \notin {0, 5}
    <3>1. DecodeOp(w) = <<Unknown, "SLL", "SLT", "SLTU", "XOR", Unknown, "OR", "AND">>
                          [w.funct3 + 1]
      BY <2>4 DEF DecodeOp
    <3> QED
      BY <1>0, <1>1, <2>1, <2>4, <3>1 DEF OpNames, Unknown
  <2>5. w.funct7 % 2 = 0 \/ w.funct7 % 2 = 1
    BY <1>0
  <2> QED
    BY <2>2, <2>3, <2>4, <2>5
<1>2. CASE decodeInstructionType(w) = "OP_IMM"
  <2>1. decodeOpcode(w) = DecodeOpImm(w)
    BY <1>2 DEF decodeOpcode
  <2>2. CASE w.funct3 = 5
    BY <1>2, <2>1, <2>2 DEF DecodeOpImm, ByFunct7, OpImmNames
  <2>3. CASE w.funct3 # 5
    BY <1>0, <1>2, <2>1, <2>3 DEF DecodeOpImm, OpImmNames, Unknown
  <2> QED
    BY <2>2, <2>3
<1>3. CASE decodeInstructionType(w) = "BRANCH"
  <2>1. decodeOpcode(w) = <<"BEQ", "BNE", Unknown, Unknown, "BLT", "BGE", "BLTU", "BGEU">>
                            [w.funct3 + 1]
    BY <1>3 DEF decodeOpcode
  <2> QED
    BY <1>0, <1>3, <2>1 DEF BranchNames, Unknown
<1>4. CASE decodeInstructionType(w) = "JUMP"
  BY <1>4 DEF decodeOpcode
<1>5. CASE decodeInstructionType(w) = "OP_UI"
  BY <1>5 DEF decodeOpcode
<1> QED
  BY <1>1, <1>2, <1>3, <1>4, <1>5

\* What an OP instruction leaves in rd is the one result that the ISA gives.
LEMMA ResultsAreResults ==
  ASSUME NEW op \in OpNames, NEW a \in WordValue, NEW b \in WordValue,
         NEW v \in Results(op, a, b)
  PROVE  v \in WordValue /\ ISA!IsResult(op, a, b, v)
<1>1. CASE op \in {"ADD", "SUB", "SLT", "SLTU"}
  BY <1>1, SumIsResult
<1>2. CASE op \in {"XOR", "OR", "AND"}
  BY <1>2, LogicIsResult
<1>3. CASE op \in {"SLL", "SRL", "SRA"}
  <2>1. v = Shift(op, a, b % XLEN)
    BY <1>3 DEF Results
  <2>2. b \in Nat
    BY Sizes DEF WordValue
  <2> QED
    BY <1>3, <2>1, <2>2, ShiftIsResult
<1>4. CASE op \in {"MUL", "MULH", "MULHSU", "MULHU"}
  <2>1. v = Multiply(op, a, b)
    BY <1>4 DEF Results
  <2> QED
    BY <1>4, <2>1, MultiplyIsResult
<1>5. CASE op \in {"DIV", "DIVU", "REM", "REMU"}
  <2>1. v = Divide(op, a, b)
    BY <1>5 DEF Results
  <2> QED
    BY <1>5, <2>1, DivideIsResult
<1> QED
  BY <1>1, <1>2, <1>3, <1>4, <1>5 DEF OpNames

-----------------------------------------------------------------------------
(* Types *)

\* setRegister keeps registers words and x0 zero, and is the ISA's write.
LEMMA WithIs ==
  ASSUME NEW g \in [Registers -> WordValue], g[0] = 0,
         NEW rd \in Registers, NEW v \in WordValue
  PROVE  /\ With(g, rd, v) \in [Registers -> WordValue]
         /\ With(g, rd, v)[0] = 0
         /\ With(g, rd, v) = [g EXCEPT ![rd] = IF rd = 0 THEN 0 ELSE v]
<1>1. 0 \in Registers /\ 0 \in WordValue
  BY InstructionsAssumption, Sizes DEF WordValue
<1> QED
  BY <1>1 DEF With

\* The registers that a decoded instruction names are there.
LEMMA RegistersOf ==
  ASSUME NEW w \in Words, decodeOpcode(w) # Unknown
  PROVE  /\ w \in Instruction
         /\ decodeInstructionType(w) \in {"OP", "BRANCH"} =>
              w.rs1 \in Registers /\ w.rs2 \in Registers
         /\ decodeInstructionType(w) = "OP_IMM" \/ decodeOpcode(w) = "JALR" =>
              w.rs1 \in Registers
         /\ decodeInstructionType(w) \notin NoDestination => w.rd \in Registers
<1>1. w \in Instruction /\ Reads(w) \subseteq Registers
  BY InstructionsAssumption
<1>2. CASE decodeInstructionType(w) \in {"OP", "BRANCH"}
  <2>1. Reads(w) = {w.rs1, w.rs2} /\ decodeOpcode(w) # "JALR"
    <3>1. decodeOpcode(w) \in OpNames \cup BranchNames
      BY <1>1, <1>2, OpcodeOfType
    <3> QED
      BY <1>2, <3>1 DEF Reads, OpNames, BranchNames
  <2> QED
    BY <1>1, <1>2, <2>1, InstructionsAssumption
<1>3. CASE decodeInstructionType(w) = "OP_IMM"
  <2>1. Reads(w) = {w.rs1}
    BY <1>3 DEF Reads
  <2> QED
    BY <1>1, <1>3, <2>1, InstructionsAssumption
<1>4. CASE decodeInstructionType(w) \notin {"OP", "BRANCH", "OP_IMM"}
  <2>1. decodeOpcode(w) = "JALR" => Reads(w) = {w.rs1}
    BY <1>4 DEF Reads
  <2> QED
    BY <1>1, <1>4, <2>1, InstructionsAssumption
<1> QED
  BY <1>2, <1>3, <1>4

LEMMA ImmediatesAreIntegers ==
  ASSUME NEW w \in Instruction
  PROVE  /\ ImmediateI(w) \in Int /\ ImmediateS(w) \in Int
         /\ ImmediateB(w) \in Int /\ ImmediateU(w) \in Int
         /\ ImmediateJ(w) \in Int
<1>0. /\ w.rd \in 0 .. 31 /\ w.funct3 \in 0 .. 7 /\ w.rs1 \in 0 .. 31
      /\ w.rs2 \in 0 .. 31 /\ w.funct7 \in 0 .. 127
  BY DEF Instruction
<1>1. /\ w.rd \in Int /\ w.funct3 \in Int /\ w.rs1 \in Int /\ w.rs2 \in Int
      /\ w.funct7 \in Int /\ w.rd % 2 \in Int /\ w.rd \div 2 \in Int
      /\ w.rs2 % 2 \in Int /\ w.rs2 \div 2 \in Int
      /\ w.funct7 % 64 \in Int /\ w.funct7 \div 64 \in Int
  BY <1>0, SMT
<1>2. ASSUME NEW n \in Int, NEW width \in Int
      PROVE  SignExtended(n, width) \in Int
  BY SMT DEF SignExtended
<1>3. ImmediateI(w) \in Int
  <2>1. 32 * w.funct7 + w.rs2 \in Int
    BY <1>1, SMT
  <2> QED
    BY <1>2, <2>1, SMT DEF ImmediateI
<1>4. ImmediateS(w) \in Int
  <2>1. 32 * w.funct7 + w.rd \in Int
    BY <1>1, SMT
  <2> QED
    BY <1>2, <2>1, SMT DEF ImmediateS
<1>5. ImmediateB(w) \in Int
  <2>1. 4096 * (w.funct7 \div 64) + 2048 * (w.rd % 2) + 32 * (w.funct7 % 64)
          + 2 * (w.rd \div 2) \in Int
    BY <1>1, SMT
  <2> QED
    BY <1>2, <2>1, SMT DEF ImmediateB
<1>6. ImmediateU(w) \in Int
  <2>1. 8192 * w.funct7 + 256 * w.rs2 + 8 * w.rs1 + w.funct3 \in Int
    BY <1>1, SMT
  <2>2. SignExtended(8192 * w.funct7 + 256 * w.rs2 + 8 * w.rs1 + w.funct3, 1048576)
          \in Int
    BY <1>2, <2>1, SMT
  <2> QED
    BY <2>2, SMT DEF ImmediateU
<1>7. ImmediateJ(w) \in Int
  <2>1. 1048576 * (w.funct7 \div 64) + 4096 * (8 * w.rs1 + w.funct3)
          + 2048 * (w.rs2 % 2) + 2 * (16 * (w.funct7 % 64) + (w.rs2 \div 2)) \in Int
    BY <1>1, SMT
  <2> QED
    BY <1>2, <2>1, SMT DEF ImmediateJ
<1> QED
  BY <1>3, <1>4, <1>5, <1>6, <1>7

\* The operation and operands of an OP_IMM instruction.
ImmediateOperand(w, op) ==
  IF op \in {"SLLI", "SRLI", "SRAI"} THEN w.rs2 ELSE ImmediateI(w) % Word

LEMMA ImmediateResults ==
  ASSUME NEW w \in Words, decodeInstructionType(w) = "OP_IMM",
         decodeOpcode(w) # Unknown, NEW a \in WordValue,
         NEW v \in ResultsWithImmediate(w, decodeOpcode(w), a)
  PROVE  /\ v \in WordValue
         /\ ISA!IsResult(Plain(decodeOpcode(w)), a,
                         ImmediateOperand(w, decodeOpcode(w)), v)
<1> DEFINE op == decodeOpcode(w)
<1>1. w \in Instruction /\ op \in OpImmNames
  BY RegistersOf, OpcodeOfType
<1>2. CASE op \in {"SLLI", "SRLI", "SRAI"}
  <2>1. v = Shift(Plain(op), a, w.rs2) /\ ImmediateOperand(w, op) = w.rs2
    BY <1>2 DEF ImmediateOperand, ResultsWithImmediate
  <2>2. Plain(op) \in {"SLL", "SRL", "SRA"}
    BY <1>2 DEF Plain
  <2>3. w.rs2 \in 0 .. 31 /\ w.rs2 < XLEN /\ XLEN \in Nat
    BY <1>1, <1>2, InstructionsAssumption DEF Instruction
  <2>4. w.rs2 % XLEN = w.rs2 /\ w.rs2 \in Nat
    BY <2>3
  <2> QED
    BY <2>1, <2>2, <2>4, ShiftIsResult
<1>3. CASE op \notin {"SLLI", "SRLI", "SRAI"}
  <2>1. v \in Results(Plain(op), a, ImmediateI(w) % Word)
    BY <1>3 DEF ResultsWithImmediate
  <2>2. Plain(op) \in OpNames
    BY <1>1, <1>3 DEF Plain, OpNames, OpImmNames
  <2>3. ImmediateI(w) % Word \in WordValue
    BY <1>1, ImmediatesAreIntegers, ModInRange
  <2>4. ImmediateOperand(w, op) = ImmediateI(w) % Word
    BY <1>3 DEF ImmediateOperand
  <2> QED
    BY <2>1, <2>2, <2>3, <2>4, ResultsAreResults
<1> QED
  BY <1>2, <1>3

LEMMA EvenInRange ==
  ASSUME NEW v \in WordValue
  PROVE  /\ Even(v) \in WordValue
         /\ Even(v) = v - (v % 2)
<1>1. v \in Nat /\ v < Word /\ Word \in Nat
  BY Sizes DEF WordValue
<1>2. v = 2 * (v \div 2) + (v % 2) /\ v % 2 \in 0 .. 1 /\ v \div 2 \in Nat
  BY <1>1, DivMod, QuotientNat
<1> QED
  BY <1>1, <1>2 DEF Even, WordValue

\* What an instruction does when it is executed has words for its operands.
LEMMA Entering ==
  ASSUME TypeOK, NEW type, Enters(type)
  PROVE  /\ stage = "execute" /\ opcode = decodeOpcode(instr)
         /\ instr \in Words /\ instr \in Instruction
         /\ decodeInstructionType(instr) = type
         /\ gpr \in [Registers -> WordValue] /\ gpr[0] = 0
         /\ pc \in WordValue /\ pc \in Nat
         /\ instr' \in Words /\ opcode' = Unknown /\ stage' = "fetch"
<1>1. NoInstruction \in Words
  BY InstructionsAssumption DEF NoInstruction
<1>2. instr \in Words /\ Words \subseteq Instruction
  BY InstructionsAssumption DEF TypeOK
<1>3. pc \in Nat
  BY Sizes DEF TypeOK, WordValue
<1> QED
  BY <1>1, <1>2, <1>3 DEF TypeOK, Enters

LEMMA Executing ==
  ASSUME TypeOK, NEW type, Executes(type)
  PROVE  /\ stage = "execute" /\ opcode = decodeOpcode(instr) /\ opcode # Unknown
         /\ instr \in Words /\ instr \in Instruction
         /\ decodeInstructionType(instr) = type
         /\ gpr \in [Registers -> WordValue] /\ gpr[0] = 0
         /\ pc \in WordValue /\ pc \in Nat
         /\ instr' \in Words /\ opcode' = Unknown /\ stage' = "fetch"
  BY Entering DEF Executes

LEMMA OpType == TypeOK /\ Op => TypeOK'
<1> SUFFICES ASSUME TypeOK, Op PROVE TypeOK'
  OBVIOUS
<1>1. Executes("OP")
  BY DEF Op
<1>2. PICK v \in Results(opcode, gpr[instr.rs1], gpr[instr.rs2]) :
        gpr' = With(gpr, instr.rd, v)
  BY DEF Op
<1>3. /\ instr.rs1 \in Registers /\ instr.rs2 \in Registers /\ instr.rd \in Registers
      /\ opcode \in OpNames
  BY <1>1, Executing, RegistersOf, OpcodeOfType DEF NoDestination, Unknown
<1>4. v \in WordValue
  BY <1>1, <1>3, Executing, ResultsAreResults
<1>5. gpr' \in [Registers -> WordValue] /\ gpr'[0] = 0
  <2>1. gpr \in [Registers -> WordValue] /\ gpr[0] = 0
    BY DEF TypeOK
  <2> QED
    BY <1>2, <1>3, <1>4, <2>1, WithIs
<1>6. pc' \in WordValue
  BY <1>1, Executing, ModInRange DEF Op, Next4
<1> QED
  BY <1>1, <1>5, <1>6, Executing DEF TypeOK

LEMMA OpImmType == TypeOK /\ OpImm => TypeOK'
<1> SUFFICES ASSUME TypeOK, OpImm PROVE TypeOK'
  OBVIOUS
<1>1. Executes("OP_IMM")
  BY DEF OpImm
<1>2. PICK v \in ResultsWithImmediate(instr, opcode, gpr[instr.rs1]) :
        gpr' = With(gpr, instr.rd, v)
  BY DEF OpImm
<1>3. instr.rs1 \in Registers /\ instr.rd \in Registers
  BY <1>1, Executing, RegistersOf DEF NoDestination, Unknown
<1>4. gpr[instr.rs1] \in WordValue /\ opcode = decodeOpcode(instr)
  BY <1>1, <1>3, Executing
<1>5. v \in WordValue
  <2>1. /\ instr \in Words /\ decodeInstructionType(instr) = "OP_IMM"
        /\ decodeOpcode(instr) # Unknown
    BY <1>1, Executing
  <2> QED
    BY <1>2, <1>4, <2>1, ImmediateResults
<1>6. gpr' \in [Registers -> WordValue] /\ gpr'[0] = 0
  <2>1. gpr \in [Registers -> WordValue] /\ gpr[0] = 0
    BY DEF TypeOK
  <2> QED
    BY <1>2, <1>3, <1>5, <2>1, WithIs
<1>7. pc' \in WordValue
  BY <1>1, Executing, ModInRange DEF OpImm, Next4
<1> QED
  BY <1>1, <1>6, <1>7, Executing DEF TypeOK

LEMMA OpUiType == TypeOK /\ OpUi => TypeOK'
<1> SUFFICES ASSUME TypeOK, OpUi PROVE TypeOK'
  OBVIOUS
<1>1. Executes("OP_UI")
  BY DEF OpUi
<1>2. instr.rd \in Registers
  BY <1>1, Executing, RegistersOf DEF NoDestination, Unknown
<1> DEFINE n == ImmediateU(instr) + (IF opcode = "AUIPC" THEN pc ELSE 0)
<1>3. n \in Int
  <2>1. ImmediateU(instr) \in Int /\ pc \in Int
    BY <1>1, Executing, ImmediatesAreIntegers
  <2> QED
    BY <2>1
<1>4. gpr' = With(gpr, instr.rd, n % Word)
  BY DEF OpUi
<1> HIDE DEF n
<1>5. gpr' \in [Registers -> WordValue] /\ gpr'[0] = 0
  BY <1>1, <1>2, <1>3, <1>4, Executing, WithIs, ModInRange
<1>6. pc' \in WordValue
  BY <1>1, Executing, ModInRange DEF OpUi, Next4
<1> QED
  BY <1>1, <1>5, <1>6, Executing DEF TypeOK

LEMMA BranchType == TypeOK /\ Branch => TypeOK'
<1> SUFFICES ASSUME TypeOK, Branch PROVE TypeOK'
  OBVIOUS
<1>1. Executes("BRANCH") /\ gpr' = gpr
  BY DEF Branch
<1>2. pc + ImmediateB(instr) \in Int /\ pc + 4 \in Int
  BY <1>1, Executing, ImmediatesAreIntegers
<1>3. pc' \in WordValue
  BY <1>2, ModInRange DEF Branch
<1> QED
  BY <1>1, <1>3, Executing DEF TypeOK

LEMMA JumpType == TypeOK /\ Jump => TypeOK'
<1> SUFFICES ASSUME TypeOK, Jump PROVE TypeOK'
  OBVIOUS
<1>1. Executes("JUMP")
  BY DEF Jump
<1>2. instr.rd \in Registers
  BY <1>1, Executing, RegistersOf DEF NoDestination, Unknown
<1>3. pc \in Nat /\ ImmediateI(instr) \in Int /\ ImmediateJ(instr) \in Int
  BY <1>1, Executing, ImmediatesAreIntegers
<1>4. (pc + 4) % Word \in WordValue
  BY <1>3, ModInRange
<1>5. gpr' \in [Registers -> WordValue] /\ gpr'[0] = 0
  BY <1>1, <1>2, <1>4, Executing, WithIs DEF Jump
<1>6. pc' \in WordValue
  <2>1. CASE opcode = "JAL"
    BY <1>3, <2>1, ModInRange DEF Jump
  <2>2. CASE opcode # "JAL"
    <3>1. opcode = "JALR" /\ instr.rs1 \in Registers
      BY <1>1, <2>2, Executing, OpcodeOfType, RegistersOf
    <3>2. gpr[instr.rs1] + ImmediateI(instr) \in Int
      BY <1>1, <1>3, <3>1, Executing, Sizes DEF WordValue
    <3> QED
      BY <2>2, <3>2, ModInRange, EvenInRange DEF Jump
  <2> QED
    BY <2>1, <2>2
<1> QED
  BY <1>1, <1>5, <1>6, Executing DEF TypeOK

LEMMA OtherType == TypeOK /\ Other => TypeOK'
<1> SUFFICES ASSUME TypeOK, Other PROVE TypeOK'
  OBVIOUS
<1>1. PICK type \in {"LOAD", "AMO", "SYSTEM", "STORE"} : Executes(type)
  BY DEF Other
<1>2. gpr' \in [Registers -> WordValue] /\ gpr'[0] = 0
  <2>1. CASE gpr' = gpr
    BY <1>1, <2>1, Executing
  <2>2. CASE /\ \E t \in {"LOAD", "AMO", "SYSTEM"} : Executes(t)
             /\ \E v \in OtherResults : gpr' = With(gpr, instr.rd, v)
    <3>1. PICK t \in {"LOAD", "AMO", "SYSTEM"} : Executes(t)
      BY <2>2
    <3>2. instr.rd \in Registers
      BY <3>1, Executing, RegistersOf DEF NoDestination, Unknown
    <3>3. PICK v \in OtherResults : gpr' = With(gpr, instr.rd, v)
      BY <2>2
    <3>4. v \in WordValue
      BY <3>3, InstructionsAssumption DEF WordValue
    <3> QED
      BY <3>1, <3>2, <3>3, <3>4, Executing, WithIs
  <2> QED
    BY <2>1, <2>2 DEF Other
<1>3. pc' \in WordValue
  <2>1. 0 \in WordValue
    BY Sizes DEF WordValue
  <2> QED
    BY <1>1, <2>1, Executing, ModInRange DEF Other, Next4
<1> QED
  BY <1>1, <1>2, <1>3, Executing DEF TypeOK

LEMMA FaultUndecodedType == TypeOK /\ FaultUndecoded => TypeOK'
<1> SUFFICES ASSUME TypeOK, FaultUndecoded PROVE TypeOK'
  OBVIOUS
<1>1. PICK type \in {"LOAD", "STORE"} : Enters(type)
  BY DEF FaultUndecoded
<1>2. pc' \in WordValue /\ gpr' = gpr
  BY Sizes DEF FaultUndecoded, WordValue
<1> QED
  BY <1>1, <1>2, Entering DEF TypeOK

LEMMA FenceType == TypeOK /\ Fence => TypeOK'
<1> SUFFICES ASSUME TypeOK, Fence PROVE TypeOK'
  OBVIOUS
<1>1. Enters("OP_FENCE") /\ gpr' = gpr
  BY DEF Fence
<1>2. pc' \in WordValue
  BY <1>1, Entering, ModInRange DEF Fence, Next4
<1> QED
  BY <1>1, <1>2, Entering DEF TypeOK

LEMMA InstructionsTypeStep == TypeOK /\ [Next]_vars => TypeOK'
<1> SUFFICES ASSUME TypeOK, [Next]_vars PROVE TypeOK'
  OBVIOUS
<1>1. 0 \in WordValue
  BY Sizes DEF WordValue
<1>2. CASE Realign
  BY <1>1, <1>2 DEF Realign, TypeOK
<1>3. CASE Fetch
  BY <1>3 DEF Fetch, TypeOK
<1>4. CASE Throw
  BY <1>4 DEF Throw, TypeOK
<1>5. CASE UNCHANGED vars
  BY <1>5 DEF vars, TypeOK
<1> QED
  BY <1>2, <1>3, <1>4, <1>5, OpType, OpImmType, OpUiType, BranchType, JumpType,
     OtherType, FaultUndecodedType, FenceType DEF Next

\* Registers and the pc stay words and x0 stays 0, and what is executed is
\* what was decoded, for registers of every width and every program.
THEOREM InstructionsTypeCorrect == Spec => []TypeOK
<1>1. Init => TypeOK
  <2>1. NoInstruction \in Words /\ 0 \in Registers /\ 0 \in WordValue
    BY InstructionsAssumption, Sizes DEF NoInstruction, WordValue
  <2> QED
    BY <2>1 DEF Init, TypeOK
<1> QED
  BY <1>1, InstructionsTypeStep, PTL DEF Spec

-----------------------------------------------------------------------------
(* Immediates *)

Weights == [0 .. 30 -> Int]

\* A sum defined by recursion is there, as far as it is asked for.
SumTo(f, weights, n) ==
  f = [k \in 0 .. n |-> IF k = 0 THEN 0 ELSE f[k - 1] + weights[k - 1]]

LEMMA SumExists ==
  ASSUME NEW weights \in Weights
  PROVE  \E f : SumTo(f, weights, 31)
<1> DEFINE T == {n \in Nat : n <= 31 /\ ~\E f : SumTo(f, weights, n)}
<1> SUFFICES ASSUME T # {} PROVE FALSE
  OBVIOUS
<1>1. PICK n \in T : \A m \in T : ~(m < n)
  <2>1. T \subseteq Nat
    OBVIOUS
  <2> HIDE DEF T
  <2> QED
    BY <2>1, Least
<1>2. n # 0
  <2>1. SumTo([k \in 0 .. 0 |-> 0], weights, 0)
    BY DEF SumTo
  <2> QED
    BY <2>1
<1>3. PICK f : SumTo(f, weights, n - 1)
  BY <1>1, <1>2
<1> DEFINE g == [k \in 0 .. n |-> IF k = n THEN f[n - 1] + weights[n - 1] ELSE f[k]]
<1>4. ASSUME NEW k \in 0 .. n
      PROVE  g[k] = IF k = 0 THEN 0 ELSE g[k - 1] + weights[k - 1]
  <2>1. n \in Nat
    OBVIOUS
  <2>2. CASE k = n
    <3>1. g[k] = f[n - 1] + weights[n - 1]
      BY <2>2
    <3>2. g[n - 1] = f[n - 1]
      BY <1>2, <2>1
    <3> HIDE DEF g
    <3> QED
      BY <1>2, <2>2, <3>1, <3>2
  <2>3. CASE k # n
    <3>1. k \in 0 .. (n - 1)
      BY <2>1, <2>3
    <3>2. f[k] = IF k = 0 THEN 0 ELSE f[k - 1] + weights[k - 1]
      BY <1>3, <3>1 DEF SumTo
    <3>3. g[k] = f[k] /\ (k # 0 => g[k - 1] = f[k - 1])
      BY <2>1, <3>1
    <3> HIDE DEF g
    <3> QED
      BY <3>2, <3>3
  <2> QED
    BY <2>2, <2>3
<1>5. SumTo(g, weights, n)
  <2>1. g = [k \in 0 .. n |-> g[k]]
    OBVIOUS
  <2> HIDE DEF g
  <2> QED
    BY <1>4, <2>1 DEF SumTo
<1> QED
  BY <1>1, <1>5

\* The sum of the weights, written out.
LEMMA TotalIs ==
  ASSUME NEW w \in Weights
  PROVE  ISA!Total(w) =
           (w[0] + w[1] + w[2] + w[3] + w[4] + w[5] + w[6] + w[7])
           + (w[8] + w[9] + w[10] + w[11] + w[12] + w[13] + w[14] + w[15])
           + (w[16] + w[17] + w[18] + w[19] + w[20] + w[21] + w[22] + w[23])
           + (w[24] + w[25] + w[26] + w[27] + w[28] + w[29] + w[30])
<1> DEFINE s == CHOOSE f : SumTo(f, w, 31)
<1>1. SumTo(s, w, 31)
  BY SumExists
<1>2. ISA!Total(w) = s[31]
  BY DEF ISA!Total, SumTo
<1> HIDE DEF s
<1>3. ASSUME NEW k \in 0 .. 31
      PROVE  s[k] = IF k = 0 THEN 0 ELSE s[k - 1] + w[k - 1]
  BY <1>1 DEF SumTo
<1>4. \A k \in 0 .. 30 : w[k] \in Int
  BY DEF Weights
<1>5. s[8] = w[0] + w[1] + w[2] + w[3] + w[4] + w[5] + w[6] + w[7]
  <2>1. /\ s[1] = w[0] /\ s[2] = s[1] + w[1] /\ s[3] = s[2] + w[2]
        /\ s[4] = s[3] + w[3] /\ s[5] = s[4] + w[4] /\ s[6] = s[5] + w[5]
        /\ s[7] = s[6] + w[6] /\ s[8] = s[7] + w[7]
    BY <1>3, <1>4, SMT
  <2> QED
    BY <1>4, <2>1, SMT
<1>6. s[16] = s[8] + (w[8] + w[9] + w[10] + w[11] + w[12] + w[13] + w[14] + w[15])
  <2>1. /\ s[9] = s[8] + w[8] /\ s[10] = s[9] + w[9] /\ s[11] = s[10] + w[10]
        /\ s[12] = s[11] + w[11] /\ s[13] = s[12] + w[12] /\ s[14] = s[13] + w[13]
        /\ s[15] = s[14] + w[14] /\ s[16] = s[15] + w[15]
    BY <1>3, <1>4, SMT
  <2>2. s[8] \in Int
    BY <1>5, <1>4, SMT
  <2> QED
    BY <1>4, <2>1, <2>2, SMT
<1>7. s[24] = s[16] + (w[16] + w[17] + w[18] + w[19] + w[20] + w[21] + w[22] + w[23])
  <2>1. /\ s[17] = s[16] + w[16] /\ s[18] = s[17] + w[17] /\ s[19] = s[18] + w[18]
        /\ s[20] = s[19] + w[19] /\ s[21] = s[20] + w[20] /\ s[22] = s[21] + w[21]
        /\ s[23] = s[22] + w[22] /\ s[24] = s[23] + w[23]
    BY <1>3, <1>4, SMT
  <2>2. s[16] \in Int
    BY <1>5, <1>6, <1>4, SMT
  <2> QED
    BY <1>4, <2>1, <2>2, SMT
<1>8. s[31] = s[24] + (w[24] + w[25] + w[26] + w[27] + w[28] + w[29] + w[30])
  <2>1. /\ s[25] = s[24] + w[24] /\ s[26] = s[25] + w[25] /\ s[27] = s[26] + w[26]
        /\ s[28] = s[27] + w[27] /\ s[29] = s[28] + w[28] /\ s[30] = s[29] + w[29]
        /\ s[31] = s[30] + w[30]
    BY <1>3, <1>4, SMT
  <2>2. s[24] \in Int
    BY <1>5, <1>6, <1>7, <1>4, SMT
  <2> QED
    BY <1>4, <2>1, <2>2, SMT
<1> QED
  BY <1>2, <1>5, <1>6, <1>7, <1>8, Zenon

LEMMA PowersOfTwo ==
  /\ 2^0 = 1 /\ 2^1 = 2 /\ 2^2 = 4
  /\ 2^3 = 8 /\ 2^4 = 16 /\ 2^5 = 32
  /\ 2^6 = 64 /\ 2^7 = 128 /\ 2^8 = 256
  /\ 2^9 = 512 /\ 2^10 = 1024 /\ 2^11 = 2048
  /\ 2^12 = 4096 /\ 2^13 = 8192 /\ 2^14 = 16384
  /\ 2^15 = 32768 /\ 2^16 = 65536 /\ 2^17 = 131072
  /\ 2^18 = 262144 /\ 2^19 = 524288 /\ 2^20 = 1048576
  /\ 2^21 = 2097152 /\ 2^22 = 4194304 /\ 2^23 = 8388608
  /\ 2^24 = 16777216 /\ 2^25 = 33554432 /\ 2^26 = 67108864
  /\ 2^27 = 134217728 /\ 2^28 = 268435456 /\ 2^29 = 536870912
  /\ 2^30 = 1073741824
  BY SMT

\* A field is the sum of its bits in the word.
LEMMA FieldBits ==
  ASSUME NEW w \in Instruction
  PROVE  /\ \A k \in 0 .. 31 : ISA!WordBit(w, k) \in {0, 1}
         /\ w.rd = ISA!WordBit(w, 7) + 2 * ISA!WordBit(w, 8) + 4 * ISA!WordBit(w, 9)
                  + 8 * ISA!WordBit(w, 10) + 16 * ISA!WordBit(w, 11)
         /\ w.funct3 = ISA!WordBit(w, 12) + 2 * ISA!WordBit(w, 13) + 4 * ISA!WordBit(w, 14)
         /\ w.rs1 = ISA!WordBit(w, 15) + 2 * ISA!WordBit(w, 16) + 4 * ISA!WordBit(w, 17)
                  + 8 * ISA!WordBit(w, 18) + 16 * ISA!WordBit(w, 19)
         /\ w.rs2 = ISA!WordBit(w, 20) + 2 * ISA!WordBit(w, 21) + 4 * ISA!WordBit(w, 22)
                  + 8 * ISA!WordBit(w, 23) + 16 * ISA!WordBit(w, 24)
         /\ w.funct7 = ISA!WordBit(w, 25) + 2 * ISA!WordBit(w, 26) + 4 * ISA!WordBit(w, 27)
                  + 8 * ISA!WordBit(w, 28) + 16 * ISA!WordBit(w, 29) + 32 * ISA!WordBit(w, 30)
                  + 64 * ISA!WordBit(w, 31)
<1>0. /\ w.opcode \in 0 .. 127 /\ w.rd \in 0 .. 31 /\ w.funct3 \in 0 .. 7
      /\ w.rs1 \in 0 .. 31 /\ w.rs2 \in 0 .. 31 /\ w.funct7 \in 0 .. 127
  BY DEF Instruction
<1>1. ASSUME NEW n \in 0 .. 127, NEW k \in 0 .. 6
      PROVE  ISA!Bit(n, k) \in {0, 1}
  <2>1. k \in {0, 1, 2, 3, 4, 5, 6}
    BY SMT
  <2> QED
    BY <2>1, PowersOfTwo, SMT DEF ISA!Bit
<1>2. w.rd = ISA!WordBit(w, 7) + 2 * ISA!WordBit(w, 8) + 4 * ISA!WordBit(w, 9)
              + 8 * ISA!WordBit(w, 10) + 16 * ISA!WordBit(w, 11)
  <2>1. /\ ISA!WordBit(w, 7) = ISA!Bit(w.rd, 0)
        /\ ISA!WordBit(w, 8) = ISA!Bit(w.rd, 1)
        /\ ISA!WordBit(w, 9) = ISA!Bit(w.rd, 2)
        /\ ISA!WordBit(w, 10) = ISA!Bit(w.rd, 3)
        /\ ISA!WordBit(w, 11) = ISA!Bit(w.rd, 4)
    BY SMT DEF ISA!WordBit
  <2>2. /\ ISA!Bit(w.rd, 0) = w.rd % 2
        /\ ISA!Bit(w.rd, 1) = (w.rd \div 2) % 2
        /\ ISA!Bit(w.rd, 2) = (w.rd \div 4) % 2
        /\ ISA!Bit(w.rd, 3) = (w.rd \div 8) % 2
        /\ ISA!Bit(w.rd, 4) = (w.rd \div 16) % 2
    BY <1>0, PowersOfTwo, SMT DEF ISA!Bit
  <2> QED
    BY <1>0, <2>1, <2>2, SMT
<1>3. w.funct3 = ISA!WordBit(w, 12) + 2 * ISA!WordBit(w, 13) + 4 * ISA!WordBit(w, 14)
  <2>1. /\ ISA!WordBit(w, 12) = ISA!Bit(w.funct3, 0)
        /\ ISA!WordBit(w, 13) = ISA!Bit(w.funct3, 1)
        /\ ISA!WordBit(w, 14) = ISA!Bit(w.funct3, 2)
    BY SMT DEF ISA!WordBit
  <2>2. /\ ISA!Bit(w.funct3, 0) = w.funct3 % 2
        /\ ISA!Bit(w.funct3, 1) = (w.funct3 \div 2) % 2
        /\ ISA!Bit(w.funct3, 2) = (w.funct3 \div 4) % 2
    BY <1>0, PowersOfTwo, SMT DEF ISA!Bit
  <2> QED
    BY <1>0, <2>1, <2>2, SMT
<1>4. w.rs1 = ISA!WordBit(w, 15) + 2 * ISA!WordBit(w, 16) + 4 * ISA!WordBit(w, 17)
              + 8 * ISA!WordBit(w, 18) + 16 * ISA!WordBit(w, 19)
  <2>1. /\ ISA!WordBit(w, 15) = ISA!Bit(w.rs1, 0)
        /\ ISA!WordBit(w, 16) = ISA!Bit(w.rs1, 1)
        /\ ISA!WordBit(w, 17) = ISA!Bit(w.rs1, 2)
        /\ ISA!WordBit(w, 18) = ISA!Bit(w.rs1, 3)
        /\ ISA!WordBit(w, 19) = ISA!Bit(w.rs1, 4)
    BY SMT DEF ISA!WordBit
  <2>2. /\ ISA!Bit(w.rs1, 0) = w.rs1 % 2
        /\ ISA!Bit(w.rs1, 1) = (w.rs1 \div 2) % 2
        /\ ISA!Bit(w.rs1, 2) = (w.rs1 \div 4) % 2
        /\ ISA!Bit(w.rs1, 3) = (w.rs1 \div 8) % 2
        /\ ISA!Bit(w.rs1, 4) = (w.rs1 \div 16) % 2
    BY <1>0, PowersOfTwo, SMT DEF ISA!Bit
  <2> QED
    BY <1>0, <2>1, <2>2, SMT
<1>5. w.rs2 = ISA!WordBit(w, 20) + 2 * ISA!WordBit(w, 21) + 4 * ISA!WordBit(w, 22)
              + 8 * ISA!WordBit(w, 23) + 16 * ISA!WordBit(w, 24)
  <2>1. /\ ISA!WordBit(w, 20) = ISA!Bit(w.rs2, 0)
        /\ ISA!WordBit(w, 21) = ISA!Bit(w.rs2, 1)
        /\ ISA!WordBit(w, 22) = ISA!Bit(w.rs2, 2)
        /\ ISA!WordBit(w, 23) = ISA!Bit(w.rs2, 3)
        /\ ISA!WordBit(w, 24) = ISA!Bit(w.rs2, 4)
    BY SMT DEF ISA!WordBit
  <2>2. /\ ISA!Bit(w.rs2, 0) = w.rs2 % 2
        /\ ISA!Bit(w.rs2, 1) = (w.rs2 \div 2) % 2
        /\ ISA!Bit(w.rs2, 2) = (w.rs2 \div 4) % 2
        /\ ISA!Bit(w.rs2, 3) = (w.rs2 \div 8) % 2
        /\ ISA!Bit(w.rs2, 4) = (w.rs2 \div 16) % 2
    BY <1>0, PowersOfTwo, SMT DEF ISA!Bit
  <2> QED
    BY <1>0, <2>1, <2>2, SMT
<1>6. w.funct7 = ISA!WordBit(w, 25) + 2 * ISA!WordBit(w, 26) + 4 * ISA!WordBit(w, 27)
              + 8 * ISA!WordBit(w, 28) + 16 * ISA!WordBit(w, 29) + 32 * ISA!WordBit(w, 30)
              + 64 * ISA!WordBit(w, 31)
  <2>1. /\ ISA!WordBit(w, 25) = ISA!Bit(w.funct7, 0)
        /\ ISA!WordBit(w, 26) = ISA!Bit(w.funct7, 1)
        /\ ISA!WordBit(w, 27) = ISA!Bit(w.funct7, 2)
        /\ ISA!WordBit(w, 28) = ISA!Bit(w.funct7, 3)
        /\ ISA!WordBit(w, 29) = ISA!Bit(w.funct7, 4)
        /\ ISA!WordBit(w, 30) = ISA!Bit(w.funct7, 5)
        /\ ISA!WordBit(w, 31) = ISA!Bit(w.funct7, 6)
    BY SMT DEF ISA!WordBit
  <2>2. /\ ISA!Bit(w.funct7, 0) = w.funct7 % 2
        /\ ISA!Bit(w.funct7, 1) = (w.funct7 \div 2) % 2
        /\ ISA!Bit(w.funct7, 2) = (w.funct7 \div 4) % 2
        /\ ISA!Bit(w.funct7, 3) = (w.funct7 \div 8) % 2
        /\ ISA!Bit(w.funct7, 4) = (w.funct7 \div 16) % 2
        /\ ISA!Bit(w.funct7, 5) = (w.funct7 \div 32) % 2
        /\ ISA!Bit(w.funct7, 6) = (w.funct7 \div 64) % 2
    BY <1>0, PowersOfTwo, SMT DEF ISA!Bit
  <2> QED
    BY <1>0, <2>1, <2>2, SMT
<1>7. \A k \in 0 .. 31 : ISA!WordBit(w, k) \in {0, 1}
  BY <1>0, <1>1 DEF ISA!WordBit
<1> QED
  BY <1>2, <1>3, <1>4, <1>5, <1>6, <1>7

\* An immediate is the sum of its bits, the sign with its negative weight.
LEMMA ImmediateSum ==
  ASSUME NEW w \in Instruction, NEW format,
         NEW c \in [0 .. 30 -> {0, 1}], NEW s \in {0, 1},
         \A k \in 0 .. 30 : ISA!ImmediateBit(w, format, k) = c[k],
         ISA!WordBit(w, 31) = s
  PROVE  ISA!Immediate(w, format) =
           (c[0] + 2 * c[1] + 4 * c[2] + 8 * c[3]
               + 16 * c[4] + 32 * c[5] + 64 * c[6] + 128 * c[7])
           + (256 * c[8] + 512 * c[9] + 1024 * c[10] + 2048 * c[11]
               + 4096 * c[12] + 8192 * c[13] + 16384 * c[14] + 32768 * c[15])
           + (65536 * c[16] + 131072 * c[17] + 262144 * c[18] + 524288 * c[19]
               + 1048576 * c[20] + 2097152 * c[21] + 4194304 * c[22] + 8388608 * c[23])
           + (16777216 * c[24] + 33554432 * c[25] + 67108864 * c[26] + 134217728 * c[27]
               + 268435456 * c[28] + 536870912 * c[29] + 1073741824 * c[30])
           + (IF s = 1 THEN -1 - 2147483647 ELSE 0)
<1> DEFINE negative == ISA!WordBit(w, 31) = 1
           t == [k \in 0 .. 30 |->
                   IF (ISA!ImmediateBit(w, format, k) = 1) = negative THEN 0 ELSE 2^k]
<1>1. ISA!Immediate(w, format) = IF s = 1 THEN -1 - ISA!Total(t) ELSE ISA!Total(t)
  BY DEF ISA!Immediate
<1>2. ASSUME NEW k \in 0 .. 30
      PROVE  t[k] = IF s = 1 THEN (IF c[k] = 1 THEN 0 ELSE 2^k)
                    ELSE (IF c[k] = 1 THEN 2^k ELSE 0)
  <2>1. t[k] = IF (c[k] = 1) = (s = 1) THEN 0 ELSE 2^k
    OBVIOUS
  <2> HIDE DEF t
  <2>2. CASE s = 1
    BY <2>1, <2>2
  <2>3. CASE s # 1
    BY <2>1, <2>3
  <2> QED
    BY <2>2, <2>3
<1>3. DOMAIN t = 0 .. 30 /\ t = [k \in 0 .. 30 |-> t[k]]
  OBVIOUS
<1> HIDE DEF t, negative
<1>4. t \in Weights
  <2>1. \A k \in 0 .. 30 : 2^k \in Int
    <3> SUFFICES ASSUME NEW k \in 0 .. 30 PROVE 2^k \in Int
      OBVIOUS
    <3> QED
      BY PowersOfTwo, SMT
  <2>2. \A k \in 0 .. 30 : t[k] \in Int
    BY <1>2, <2>1
  <2> QED
    BY <1>3, <2>2 DEF Weights
<1> DEFINE C1 == c[0] + 2 * c[1] + 4 * c[2] + 8 * c[3]
                 + 16 * c[4] + 32 * c[5] + 64 * c[6] + 128 * c[7]
           C2 == 256 * c[8] + 512 * c[9] + 1024 * c[10] + 2048 * c[11]
                 + 4096 * c[12] + 8192 * c[13] + 16384 * c[14] + 32768 * c[15]
           C3 == 65536 * c[16] + 131072 * c[17] + 262144 * c[18] + 524288 * c[19]
                 + 1048576 * c[20] + 2097152 * c[21] + 4194304 * c[22] + 8388608 * c[23]
           C4 == 16777216 * c[24] + 33554432 * c[25] + 67108864 * c[26] + 134217728 * c[27]
                 + 268435456 * c[28] + 536870912 * c[29] + 1073741824 * c[30]
           T1 == t[0] + t[1] + t[2] + t[3] + t[4] + t[5] + t[6] + t[7]
           T2 == t[8] + t[9] + t[10] + t[11] + t[12] + t[13] + t[14] + t[15]
           T3 == t[16] + t[17] + t[18] + t[19] + t[20] + t[21] + t[22] + t[23]
           T4 == t[24] + t[25] + t[26] + t[27] + t[28] + t[29] + t[30]
<1>5. ISA!Total(t) = (T1) + (T2) + (T3) + (T4)
  BY <1>4, TotalIs, Zenon
<1>6. s = 1 => C1 \in Int /\ T1 = 255 - C1
  <2> SUFFICES ASSUME s = 1 PROVE C1 \in Int /\ T1 = 255 - C1
    OBVIOUS
  <2>1. /\ c[0] \in {0, 1} /\ t[0] = (1 - c[0])
        /\ c[1] \in {0, 1} /\ t[1] = 2 * (1 - c[1])
        /\ c[2] \in {0, 1} /\ t[2] = 4 * (1 - c[2])
        /\ c[3] \in {0, 1} /\ t[3] = 8 * (1 - c[3])
        /\ c[4] \in {0, 1} /\ t[4] = 16 * (1 - c[4])
        /\ c[5] \in {0, 1} /\ t[5] = 32 * (1 - c[5])
        /\ c[6] \in {0, 1} /\ t[6] = 64 * (1 - c[6])
        /\ c[7] \in {0, 1} /\ t[7] = 128 * (1 - c[7])
    BY <1>2, PowersOfTwo, SMT
  <2> QED
    BY <2>1, SMT
<1>7. s = 0 => C1 \in Int /\ T1 = C1
  <2> SUFFICES ASSUME s = 0 PROVE C1 \in Int /\ T1 = C1
    OBVIOUS
  <2>1. /\ c[0] \in {0, 1} /\ t[0] = c[0]
        /\ c[1] \in {0, 1} /\ t[1] = 2 * c[1]
        /\ c[2] \in {0, 1} /\ t[2] = 4 * c[2]
        /\ c[3] \in {0, 1} /\ t[3] = 8 * c[3]
        /\ c[4] \in {0, 1} /\ t[4] = 16 * c[4]
        /\ c[5] \in {0, 1} /\ t[5] = 32 * c[5]
        /\ c[6] \in {0, 1} /\ t[6] = 64 * c[6]
        /\ c[7] \in {0, 1} /\ t[7] = 128 * c[7]
    BY <1>2, PowersOfTwo, SMT
  <2> QED
    BY <2>1, SMT
<1>8. s = 1 => C2 \in Int /\ T2 = 65280 - C2
  <2> SUFFICES ASSUME s = 1 PROVE C2 \in Int /\ T2 = 65280 - C2
    OBVIOUS
  <2>1. /\ c[8] \in {0, 1} /\ t[8] = 256 * (1 - c[8])
        /\ c[9] \in {0, 1} /\ t[9] = 512 * (1 - c[9])
        /\ c[10] \in {0, 1} /\ t[10] = 1024 * (1 - c[10])
        /\ c[11] \in {0, 1} /\ t[11] = 2048 * (1 - c[11])
        /\ c[12] \in {0, 1} /\ t[12] = 4096 * (1 - c[12])
        /\ c[13] \in {0, 1} /\ t[13] = 8192 * (1 - c[13])
        /\ c[14] \in {0, 1} /\ t[14] = 16384 * (1 - c[14])
        /\ c[15] \in {0, 1} /\ t[15] = 32768 * (1 - c[15])
    BY <1>2, PowersOfTwo, SMT
  <2> QED
    BY <2>1, SMT
<1>9. s = 0 => C2 \in Int /\ T2 = C2
  <2> SUFFICES ASSUME s = 0 PROVE C2 \in Int /\ T2 = C2
    OBVIOUS
  <2>1. /\ c[8] \in {0, 1} /\ t[8] = 256 * c[8]
        /\ c[9] \in {0, 1} /\ t[9] = 512 * c[9]
        /\ c[10] \in {0, 1} /\ t[10] = 1024 * c[10]
        /\ c[11] \in {0, 1} /\ t[11] = 2048 * c[11]
        /\ c[12] \in {0, 1} /\ t[12] = 4096 * c[12]
        /\ c[13] \in {0, 1} /\ t[13] = 8192 * c[13]
        /\ c[14] \in {0, 1} /\ t[14] = 16384 * c[14]
        /\ c[15] \in {0, 1} /\ t[15] = 32768 * c[15]
    BY <1>2, PowersOfTwo, SMT
  <2> QED
    BY <2>1, SMT
<1>10. s = 1 => C3 \in Int /\ T3 = 16711680 - C3
  <2> SUFFICES ASSUME s = 1 PROVE C3 \in Int /\ T3 = 16711680 - C3
    OBVIOUS
  <2>1. /\ c[16] \in {0, 1} /\ t[16] = 65536 * (1 - c[16])
        /\ c[17] \in {0, 1} /\ t[17] = 131072 * (1 - c[17])
        /\ c[18] \in {0, 1} /\ t[18] = 262144 * (1 - c[18])
        /\ c[19] \in {0, 1} /\ t[19] = 524288 * (1 - c[19])
        /\ c[20] \in {0, 1} /\ t[20] = 1048576 * (1 - c[20])
        /\ c[21] \in {0, 1} /\ t[21] = 2097152 * (1 - c[21])
        /\ c[22] \in {0, 1} /\ t[22] = 4194304 * (1 - c[22])
        /\ c[23] \in {0, 1} /\ t[23] = 8388608 * (1 - c[23])
    BY <1>2, PowersOfTwo, SMT
  <2> QED
    BY <2>1, SMT
<1>11. s = 0 => C3 \in Int /\ T3 = C3
  <2> SUFFICES ASSUME s = 0 PROVE C3 \in Int /\ T3 = C3
    OBVIOUS
  <2>1. /\ c[16] \in {0, 1} /\ t[16] = 65536 * c[16]
        /\ c[17] \in {0, 1} /\ t[17] = 131072 * c[17]
        /\ c[18] \in {0, 1} /\ t[18] = 262144 * c[18]
        /\ c[19] \in {0, 1} /\ t[19] = 524288 * c[19]
        /\ c[20] \in {0, 1} /\ t[20] = 1048576 * c[20]
        /\ c[21] \in {0, 1} /\ t[21] = 2097152 * c[21]
        /\ c[22] \in {0, 1} /\ t[22] = 4194304 * c[22]
        /\ c[23] \in {0, 1} /\ t[23] = 8388608 * c[23]
    BY <1>2, PowersOfTwo, SMT
  <2> QED
    BY <2>1, SMT
<1>12. s = 1 => C4 \in Int /\ T4 = 2130706432 - C4
  <2> SUFFICES ASSUME s = 1 PROVE C4 \in Int /\ T4 = 2130706432 - C4
    OBVIOUS
  <2>1. /\ c[24] \in {0, 1} /\ t[24] = 16777216 * (1 - c[24])
        /\ c[25] \in {0, 1} /\ t[25] = 33554432 * (1 - c[25])
        /\ c[26] \in {0, 1} /\ t[26] = 67108864 * (1 - c[26])
        /\ c[27] \in {0, 1} /\ t[27] = 134217728 * (1 - c[27])
        /\ c[28] \in {0, 1} /\ t[28] = 268435456 * (1 - c[28])
        /\ c[29] \in {0, 1} /\ t[29] = 536870912 * (1 - c[29])
        /\ c[30] \in {0, 1} /\ t[30] = 1073741824 * (1 - c[30])
    BY <1>2, PowersOfTwo, SMT
  <2> QED
    BY <2>1, SMT
<1>13. s = 0 => C4 \in Int /\ T4 = C4
  <2> SUFFICES ASSUME s = 0 PROVE C4 \in Int /\ T4 = C4
    OBVIOUS
  <2>1. /\ c[24] \in {0, 1} /\ t[24] = 16777216 * c[24]
        /\ c[25] \in {0, 1} /\ t[25] = 33554432 * c[25]
        /\ c[26] \in {0, 1} /\ t[26] = 67108864 * c[26]
        /\ c[27] \in {0, 1} /\ t[27] = 134217728 * c[27]
        /\ c[28] \in {0, 1} /\ t[28] = 268435456 * c[28]
        /\ c[29] \in {0, 1} /\ t[29] = 536870912 * c[29]
        /\ c[30] \in {0, 1} /\ t[30] = 1073741824 * c[30]
    BY <1>2, PowersOfTwo, SMT
  <2> QED
    BY <2>1, SMT
<1> HIDE DEF C1, C2, C3, C4, T1, T2, T3, T4
<1>14. ISA!Immediate(w, format) = C1 + C2 + C3 + C4
                                 + (IF s = 1 THEN -1 - 2147483647 ELSE 0)
  BY <1>1, <1>5, <1>6, <1>7, <1>8, <1>9, <1>10, <1>11, <1>12, <1>13, SMT
<1> QED
  BY <1>14 DEF C1, C2, C3, C4

\* Every bit of an immediate is 0 or a bit of the word.
LEMMA ImmediateBitIs ==
  ASSUME NEW w \in Instruction, NEW format \in {"I", "S", "B", "U", "J"},
         NEW k \in 0 .. 30
  PROVE  ISA!ImmediateBit(w, format, k) \in {0, 1}
<1>1. \A i \in 0 .. 31 : ISA!WordBit(w, i) \in {0, 1}
  BY FieldBits
<1>2. CASE format = "I"
  BY <1>1, <1>2 DEF ISA!ImmediateBit
<1>3. CASE format = "S"
  BY <1>1, <1>3 DEF ISA!ImmediateBit
<1>4. CASE format = "B"
  BY <1>1, <1>4 DEF ISA!ImmediateBit
<1>5. CASE format = "U"
  BY <1>1, <1>5 DEF ISA!ImmediateBit
<1>6. CASE format = "J"
  BY <1>1, <1>6 DEF ISA!ImmediateBit
<1> QED
  BY <1>2, <1>3, <1>4, <1>5, <1>6


LEMMA ImmediateIRight ==
  ASSUME NEW w \in Instruction
  PROVE  ImmediateI(w) = ISA!Immediate(w, "I")
<1> DEFINE b == [k \in 0 .. 31 |-> ISA!WordBit(w, k)]
           c == [k \in 0 .. 30 |-> ISA!ImmediateBit(w, "I", k)]
<1>1. c \in [0 .. 30 -> {0, 1}]
  BY ImmediateBitIs
<1>2. \A k \in 0 .. 31 : b[k] = ISA!WordBit(w, k) /\ b[k] \in {0, 1}
  BY FieldBits
<1>3. /\ c[0] = b[20] /\ c[1] = b[21] /\ c[2] = b[22] /\ c[3] = b[23]
      /\ c[4] = b[24] /\ c[5] = b[25] /\ c[6] = b[26] /\ c[7] = b[27]
      /\ c[8] = b[28] /\ c[9] = b[29] /\ c[10] = b[30] /\ c[11] = b[31]
      /\ c[12] = b[31] /\ c[13] = b[31] /\ c[14] = b[31] /\ c[15] = b[31]
      /\ c[16] = b[31] /\ c[17] = b[31] /\ c[18] = b[31] /\ c[19] = b[31]
      /\ c[20] = b[31] /\ c[21] = b[31] /\ c[22] = b[31] /\ c[23] = b[31]
      /\ c[24] = b[31] /\ c[25] = b[31] /\ c[26] = b[31] /\ c[27] = b[31]
      /\ c[28] = b[31] /\ c[29] = b[31] /\ c[30] = b[31]
  BY <1>2, SMT DEF ISA!ImmediateBit
<1>4. /\ \A k \in 0 .. 30 : ISA!ImmediateBit(w, "I", k) = c[k]
      /\ ISA!WordBit(w, 31) = b[31]
  OBVIOUS
<1> HIDE DEF b, c
<1> DEFINE C1 == c[0] + 2 * c[1] + 4 * c[2] + 8 * c[3]
                 + 16 * c[4] + 32 * c[5] + 64 * c[6] + 128 * c[7]
           C2 == 256 * c[8] + 512 * c[9] + 1024 * c[10] + 2048 * c[11]
                 + 4096 * c[12] + 8192 * c[13] + 16384 * c[14] + 32768 * c[15]
           C3 == 65536 * c[16] + 131072 * c[17] + 262144 * c[18] + 524288 * c[19]
                 + 1048576 * c[20] + 2097152 * c[21] + 4194304 * c[22] + 8388608 * c[23]
           C4 == 16777216 * c[24] + 33554432 * c[25] + 67108864 * c[26] + 134217728 * c[27]
                 + 268435456 * c[28] + 536870912 * c[29] + 1073741824 * c[30]
           s == b[31]
           rs2 == b[20] + 2 * b[21] + 4 * b[22] + 8 * b[23]
                + 16 * b[24]
           funct7a == b[25] + 2 * b[26] + 4 * b[27]
           funct7b == b[28] + 2 * b[29] + 4 * b[30]
<1>5. ISA!Immediate(w, "I") =
        (C1) + (C2) + (C3) + (C4)
        + (IF s = 1 THEN -1 - 2147483647 ELSE 0)
  BY <1>1, <1>2, <1>4, ImmediateSum
<1>6. /\ b[20] \in {0, 1} /\ b[21] \in {0, 1} /\ b[22] \in {0, 1} /\ b[23] \in {0, 1}
      /\ b[24] \in {0, 1} /\ b[25] \in {0, 1} /\ b[26] \in {0, 1} /\ b[27] \in {0, 1}
      /\ b[28] \in {0, 1} /\ b[29] \in {0, 1} /\ b[30] \in {0, 1} /\ b[31] \in {0, 1}
  BY <1>2, SMT
<1>7. /\ rs2 \in 0 .. 31 /\ funct7a \in 0 .. 7 /\ funct7b \in 0 .. 7
      /\ s \in {0, 1}
  BY <1>6, SMT
<1>8. /\ w.rs2 = rs2
      /\ w.funct7 = funct7a + 8 * funct7b + 64 * s
  <2>1. w.rs2 = rs2
    BY <1>2, <1>6, FieldBits, SMT
  <2>2. w.funct7 = funct7a + 8 * funct7b + 64 * s
    BY <1>2, <1>6, FieldBits, SMT
  <2> QED
    BY <2>1, <2>2
<1>9. /\ C1 = rs2 + 32 * funct7a
      /\ C2 = 256 * funct7b + 63488 * s
      /\ C3 = 16711680 * s
      /\ C4 = 2130706432 * s
  <2>1. C1 = rs2 + 32 * funct7a
    BY <1>3, <1>6, SMT
  <2>2. C2 = 256 * funct7b + 63488 * s
    BY <1>3, <1>6, SMT
  <2>3. C3 = 16711680 * s
    BY <1>3, <1>6, SMT
  <2>4. C4 = 2130706432 * s
    BY <1>3, <1>6, SMT
  <2> QED
    BY <2>1, <2>2, <2>3, <2>4
<1> HIDE DEF C1, C2, C3, C4, s, rs2, funct7a, funct7b
<1> QED
  BY <1>5, <1>7, <1>8, <1>9, SMT DEF ImmediateI, SignExtended

LEMMA ImmediateSRight ==
  ASSUME NEW w \in Instruction
  PROVE  ImmediateS(w) = ISA!Immediate(w, "S")
<1> DEFINE b == [k \in 0 .. 31 |-> ISA!WordBit(w, k)]
           c == [k \in 0 .. 30 |-> ISA!ImmediateBit(w, "S", k)]
<1>1. c \in [0 .. 30 -> {0, 1}]
  BY ImmediateBitIs
<1>2. \A k \in 0 .. 31 : b[k] = ISA!WordBit(w, k) /\ b[k] \in {0, 1}
  BY FieldBits
<1>3. /\ c[0] = b[7] /\ c[1] = b[8] /\ c[2] = b[9] /\ c[3] = b[10]
      /\ c[4] = b[11] /\ c[5] = b[25] /\ c[6] = b[26] /\ c[7] = b[27]
      /\ c[8] = b[28] /\ c[9] = b[29] /\ c[10] = b[30] /\ c[11] = b[31]
      /\ c[12] = b[31] /\ c[13] = b[31] /\ c[14] = b[31] /\ c[15] = b[31]
      /\ c[16] = b[31] /\ c[17] = b[31] /\ c[18] = b[31] /\ c[19] = b[31]
      /\ c[20] = b[31] /\ c[21] = b[31] /\ c[22] = b[31] /\ c[23] = b[31]
      /\ c[24] = b[31] /\ c[25] = b[31] /\ c[26] = b[31] /\ c[27] = b[31]
      /\ c[28] = b[31] /\ c[29] = b[31] /\ c[30] = b[31]
  BY <1>2, SMT DEF ISA!ImmediateBit
<1>4. /\ \A k \in 0 .. 30 : ISA!ImmediateBit(w, "S", k) = c[k]
      /\ ISA!WordBit(w, 31) = b[31]
  OBVIOUS
<1> HIDE DEF b, c
<1> DEFINE C1 == c[0] + 2 * c[1] + 4 * c[2] + 8 * c[3]
                 + 16 * c[4] + 32 * c[5] + 64 * c[6] + 128 * c[7]
           C2 == 256 * c[8] + 512 * c[9] + 1024 * c[10] + 2048 * c[11]
                 + 4096 * c[12] + 8192 * c[13] + 16384 * c[14] + 32768 * c[15]
           C3 == 65536 * c[16] + 131072 * c[17] + 262144 * c[18] + 524288 * c[19]
                 + 1048576 * c[20] + 2097152 * c[21] + 4194304 * c[22] + 8388608 * c[23]
           C4 == 16777216 * c[24] + 33554432 * c[25] + 67108864 * c[26] + 134217728 * c[27]
                 + 268435456 * c[28] + 536870912 * c[29] + 1073741824 * c[30]
           s == b[31]
           rd == b[7] + 2 * b[8] + 4 * b[9] + 8 * b[10]
               + 16 * b[11]
           funct7a == b[25] + 2 * b[26] + 4 * b[27]
           funct7b == b[28] + 2 * b[29] + 4 * b[30]
<1>5. ISA!Immediate(w, "S") =
        (C1) + (C2) + (C3) + (C4)
        + (IF s = 1 THEN -1 - 2147483647 ELSE 0)
  BY <1>1, <1>2, <1>4, ImmediateSum
<1>6. /\ b[7] \in {0, 1} /\ b[8] \in {0, 1} /\ b[9] \in {0, 1} /\ b[10] \in {0, 1}
      /\ b[11] \in {0, 1} /\ b[25] \in {0, 1} /\ b[26] \in {0, 1} /\ b[27] \in {0, 1}
      /\ b[28] \in {0, 1} /\ b[29] \in {0, 1} /\ b[30] \in {0, 1} /\ b[31] \in {0, 1}
  BY <1>2, SMT
<1>7. /\ rd \in 0 .. 31 /\ funct7a \in 0 .. 7 /\ funct7b \in 0 .. 7
      /\ s \in {0, 1}
  BY <1>6, SMT
<1>8. /\ w.rd = rd
      /\ w.funct7 = funct7a + 8 * funct7b + 64 * s
  <2>1. w.rd = rd
    BY <1>2, <1>6, FieldBits, SMT
  <2>2. w.funct7 = funct7a + 8 * funct7b + 64 * s
    BY <1>2, <1>6, FieldBits, SMT
  <2> QED
    BY <2>1, <2>2
<1>9. /\ C1 = rd + 32 * funct7a
      /\ C2 = 256 * funct7b + 63488 * s
      /\ C3 = 16711680 * s
      /\ C4 = 2130706432 * s
  <2>1. C1 = rd + 32 * funct7a
    BY <1>3, <1>6, SMT
  <2>2. C2 = 256 * funct7b + 63488 * s
    BY <1>3, <1>6, SMT
  <2>3. C3 = 16711680 * s
    BY <1>3, <1>6, SMT
  <2>4. C4 = 2130706432 * s
    BY <1>3, <1>6, SMT
  <2> QED
    BY <2>1, <2>2, <2>3, <2>4
<1> HIDE DEF C1, C2, C3, C4, s, rd, funct7a, funct7b
<1> QED
  BY <1>5, <1>7, <1>8, <1>9, SMT DEF ImmediateS, SignExtended

LEMMA ImmediateBRight ==
  ASSUME NEW w \in Instruction
  PROVE  ImmediateB(w) = ISA!Immediate(w, "B")
<1> DEFINE b == [k \in 0 .. 31 |-> ISA!WordBit(w, k)]
           c == [k \in 0 .. 30 |-> ISA!ImmediateBit(w, "B", k)]
<1>1. c \in [0 .. 30 -> {0, 1}]
  BY ImmediateBitIs
<1>2. \A k \in 0 .. 31 : b[k] = ISA!WordBit(w, k) /\ b[k] \in {0, 1}
  BY FieldBits
<1>3. /\ c[0] = 0 /\ c[1] = b[8] /\ c[2] = b[9] /\ c[3] = b[10]
      /\ c[4] = b[11] /\ c[5] = b[25] /\ c[6] = b[26] /\ c[7] = b[27]
      /\ c[8] = b[28] /\ c[9] = b[29] /\ c[10] = b[30] /\ c[11] = b[7]
      /\ c[12] = b[31] /\ c[13] = b[31] /\ c[14] = b[31] /\ c[15] = b[31]
      /\ c[16] = b[31] /\ c[17] = b[31] /\ c[18] = b[31] /\ c[19] = b[31]
      /\ c[20] = b[31] /\ c[21] = b[31] /\ c[22] = b[31] /\ c[23] = b[31]
      /\ c[24] = b[31] /\ c[25] = b[31] /\ c[26] = b[31] /\ c[27] = b[31]
      /\ c[28] = b[31] /\ c[29] = b[31] /\ c[30] = b[31]
  BY <1>2, SMT DEF ISA!ImmediateBit
<1>4. /\ \A k \in 0 .. 30 : ISA!ImmediateBit(w, "B", k) = c[k]
      /\ ISA!WordBit(w, 31) = b[31]
  OBVIOUS
<1> HIDE DEF b, c
<1> DEFINE C1 == c[0] + 2 * c[1] + 4 * c[2] + 8 * c[3]
                 + 16 * c[4] + 32 * c[5] + 64 * c[6] + 128 * c[7]
           C2 == 256 * c[8] + 512 * c[9] + 1024 * c[10] + 2048 * c[11]
                 + 4096 * c[12] + 8192 * c[13] + 16384 * c[14] + 32768 * c[15]
           C3 == 65536 * c[16] + 131072 * c[17] + 262144 * c[18] + 524288 * c[19]
                 + 1048576 * c[20] + 2097152 * c[21] + 4194304 * c[22] + 8388608 * c[23]
           C4 == 16777216 * c[24] + 33554432 * c[25] + 67108864 * c[26] + 134217728 * c[27]
                 + 268435456 * c[28] + 536870912 * c[29] + 1073741824 * c[30]
           s == b[31]
           rdb == b[8] + 2 * b[9] + 4 * b[10] + 8 * b[11]
           funct7a == b[25] + 2 * b[26] + 4 * b[27]
           funct7b == b[28] + 2 * b[29] + 4 * b[30]
           rda == b[7]
<1>5. ISA!Immediate(w, "B") =
        (C1) + (C2) + (C3) + (C4)
        + (IF s = 1 THEN -1 - 2147483647 ELSE 0)
  BY <1>1, <1>2, <1>4, ImmediateSum
<1>6. /\ b[7] \in {0, 1} /\ b[8] \in {0, 1} /\ b[9] \in {0, 1} /\ b[10] \in {0, 1}
      /\ b[11] \in {0, 1} /\ b[25] \in {0, 1} /\ b[26] \in {0, 1} /\ b[27] \in {0, 1}
      /\ b[28] \in {0, 1} /\ b[29] \in {0, 1} /\ b[30] \in {0, 1} /\ b[31] \in {0, 1}
  BY <1>2, SMT
<1>7. /\ rdb \in 0 .. 15 /\ funct7a \in 0 .. 7 /\ funct7b \in 0 .. 7
      /\ rda \in 0 .. 1 /\ s \in {0, 1}
  BY <1>6, SMT
<1>8. /\ w.rd = rda + 2 * rdb
      /\ w.funct7 = funct7a + 8 * funct7b + 64 * s
  <2>1. w.rd = rda + 2 * rdb
    BY <1>2, <1>6, FieldBits, SMT
  <2>2. w.funct7 = funct7a + 8 * funct7b + 64 * s
    BY <1>2, <1>6, FieldBits, SMT
  <2> QED
    BY <2>1, <2>2
<1>9. /\ C1 = 2 * rdb + 32 * funct7a
      /\ C2 = 256 * funct7b + 2048 * rda + 61440 * s
      /\ C3 = 16711680 * s
      /\ C4 = 2130706432 * s
  <2>1. C1 = 2 * rdb + 32 * funct7a
    BY <1>3, <1>6, SMT
  <2>2. C2 = 256 * funct7b + 2048 * rda + 61440 * s
    BY <1>3, <1>6, SMT
  <2>3. C3 = 16711680 * s
    BY <1>3, <1>6, SMT
  <2>4. C4 = 2130706432 * s
    BY <1>3, <1>6, SMT
  <2> QED
    BY <2>1, <2>2, <2>3, <2>4
<1> HIDE DEF C1, C2, C3, C4, s, rdb, funct7a, funct7b, rda
<1> QED
  BY <1>5, <1>7, <1>8, <1>9, SMT DEF ImmediateB, SignExtended

LEMMA ImmediateURight ==
  ASSUME NEW w \in Instruction
  PROVE  ImmediateU(w) = ISA!Immediate(w, "U")
<1> DEFINE b == [k \in 0 .. 31 |-> ISA!WordBit(w, k)]
           c == [k \in 0 .. 30 |-> ISA!ImmediateBit(w, "U", k)]
<1>1. c \in [0 .. 30 -> {0, 1}]
  BY ImmediateBitIs
<1>2. \A k \in 0 .. 31 : b[k] = ISA!WordBit(w, k) /\ b[k] \in {0, 1}
  BY FieldBits
<1>3. /\ c[0] = 0 /\ c[1] = 0 /\ c[2] = 0 /\ c[3] = 0
      /\ c[4] = 0 /\ c[5] = 0 /\ c[6] = 0 /\ c[7] = 0
      /\ c[8] = 0 /\ c[9] = 0 /\ c[10] = 0 /\ c[11] = 0
      /\ c[12] = b[12] /\ c[13] = b[13] /\ c[14] = b[14] /\ c[15] = b[15]
      /\ c[16] = b[16] /\ c[17] = b[17] /\ c[18] = b[18] /\ c[19] = b[19]
      /\ c[20] = b[20] /\ c[21] = b[21] /\ c[22] = b[22] /\ c[23] = b[23]
      /\ c[24] = b[24] /\ c[25] = b[25] /\ c[26] = b[26] /\ c[27] = b[27]
      /\ c[28] = b[28] /\ c[29] = b[29] /\ c[30] = b[30]
  BY <1>2, SMT DEF ISA!ImmediateBit
<1>4. /\ \A k \in 0 .. 30 : ISA!ImmediateBit(w, "U", k) = c[k]
      /\ ISA!WordBit(w, 31) = b[31]
  OBVIOUS
<1> HIDE DEF b, c
<1> DEFINE C1 == c[0] + 2 * c[1] + 4 * c[2] + 8 * c[3]
                 + 16 * c[4] + 32 * c[5] + 64 * c[6] + 128 * c[7]
           C2 == 256 * c[8] + 512 * c[9] + 1024 * c[10] + 2048 * c[11]
                 + 4096 * c[12] + 8192 * c[13] + 16384 * c[14] + 32768 * c[15]
           C3 == 65536 * c[16] + 131072 * c[17] + 262144 * c[18] + 524288 * c[19]
                 + 1048576 * c[20] + 2097152 * c[21] + 4194304 * c[22] + 8388608 * c[23]
           C4 == 16777216 * c[24] + 33554432 * c[25] + 67108864 * c[26] + 134217728 * c[27]
                 + 268435456 * c[28] + 536870912 * c[29] + 1073741824 * c[30]
           s == b[31]
           funct3 == b[12] + 2 * b[13] + 4 * b[14]
           rs1a == b[15]
           rs1b == b[16] + 2 * b[17] + 4 * b[18] + 8 * b[19]
           rs2a == b[20] + 2 * b[21] + 4 * b[22] + 8 * b[23]
           rs2b == b[24]
           funct7a == b[25] + 2 * b[26] + 4 * b[27] + 8 * b[28]
                    + 16 * b[29] + 32 * b[30]
<1>5. ISA!Immediate(w, "U") =
        (C1) + (C2) + (C3) + (C4)
        + (IF s = 1 THEN -1 - 2147483647 ELSE 0)
  BY <1>1, <1>2, <1>4, ImmediateSum
<1>6. /\ b[12] \in {0, 1} /\ b[13] \in {0, 1} /\ b[14] \in {0, 1} /\ b[15] \in {0, 1}
      /\ b[16] \in {0, 1} /\ b[17] \in {0, 1} /\ b[18] \in {0, 1} /\ b[19] \in {0, 1}
      /\ b[20] \in {0, 1} /\ b[21] \in {0, 1} /\ b[22] \in {0, 1} /\ b[23] \in {0, 1}
      /\ b[24] \in {0, 1} /\ b[25] \in {0, 1} /\ b[26] \in {0, 1} /\ b[27] \in {0, 1}
      /\ b[28] \in {0, 1} /\ b[29] \in {0, 1} /\ b[30] \in {0, 1} /\ b[31] \in {0, 1}
  BY <1>2, SMT
<1>7. /\ funct3 \in 0 .. 7 /\ rs1a \in 0 .. 1 /\ rs1b \in 0 .. 15
      /\ rs2a \in 0 .. 15 /\ rs2b \in 0 .. 1 /\ funct7a \in 0 .. 63
      /\ s \in {0, 1}
  BY <1>6, SMT
<1>8. /\ w.funct3 = funct3
      /\ w.rs1 = rs1a + 2 * rs1b
      /\ w.rs2 = rs2a + 16 * rs2b
      /\ w.funct7 = funct7a + 64 * s
  <2>1. w.funct3 = funct3
    BY <1>2, <1>6, FieldBits, SMT
  <2>2. w.rs1 = rs1a + 2 * rs1b
    BY <1>2, <1>6, FieldBits, SMT
  <2>3. w.rs2 = rs2a + 16 * rs2b
    BY <1>2, <1>6, FieldBits, SMT
  <2>4. w.funct7 = funct7a + 64 * s
    BY <1>2, <1>6, FieldBits, SMT
  <2> QED
    BY <2>1, <2>2, <2>3, <2>4
<1>9. /\ C1 = 0
      /\ C2 = 4096 * funct3 + 32768 * rs1a
      /\ C3 = 65536 * rs1b + 1048576 * rs2a
      /\ C4 = 16777216 * rs2b + 33554432 * funct7a
  <2>1. C1 = 0
    BY <1>3, <1>6, SMT
  <2>2. C2 = 4096 * funct3 + 32768 * rs1a
    BY <1>3, <1>6, SMT
  <2>3. C3 = 65536 * rs1b + 1048576 * rs2a
    BY <1>3, <1>6, SMT
  <2>4. C4 = 16777216 * rs2b + 33554432 * funct7a
    BY <1>3, <1>6, SMT
  <2> QED
    BY <2>1, <2>2, <2>3, <2>4
<1> HIDE DEF C1, C2, C3, C4, s, funct3, rs1a, rs1b, rs2a, rs2b, funct7a
<1> QED
  BY <1>5, <1>7, <1>8, <1>9, SMT DEF ImmediateU, SignExtended

LEMMA ImmediateJRight ==
  ASSUME NEW w \in Instruction
  PROVE  ImmediateJ(w) = ISA!Immediate(w, "J")
<1> DEFINE b == [k \in 0 .. 31 |-> ISA!WordBit(w, k)]
           c == [k \in 0 .. 30 |-> ISA!ImmediateBit(w, "J", k)]
<1>1. c \in [0 .. 30 -> {0, 1}]
  BY ImmediateBitIs
<1>2. \A k \in 0 .. 31 : b[k] = ISA!WordBit(w, k) /\ b[k] \in {0, 1}
  BY FieldBits
<1>3. /\ c[0] = 0 /\ c[1] = b[21] /\ c[2] = b[22] /\ c[3] = b[23]
      /\ c[4] = b[24] /\ c[5] = b[25] /\ c[6] = b[26] /\ c[7] = b[27]
      /\ c[8] = b[28] /\ c[9] = b[29] /\ c[10] = b[30] /\ c[11] = b[20]
      /\ c[12] = b[12] /\ c[13] = b[13] /\ c[14] = b[14] /\ c[15] = b[15]
      /\ c[16] = b[16] /\ c[17] = b[17] /\ c[18] = b[18] /\ c[19] = b[19]
      /\ c[20] = b[31] /\ c[21] = b[31] /\ c[22] = b[31] /\ c[23] = b[31]
      /\ c[24] = b[31] /\ c[25] = b[31] /\ c[26] = b[31] /\ c[27] = b[31]
      /\ c[28] = b[31] /\ c[29] = b[31] /\ c[30] = b[31]
  BY <1>2, SMT DEF ISA!ImmediateBit
<1>4. /\ \A k \in 0 .. 30 : ISA!ImmediateBit(w, "J", k) = c[k]
      /\ ISA!WordBit(w, 31) = b[31]
  OBVIOUS
<1> HIDE DEF b, c
<1> DEFINE C1 == c[0] + 2 * c[1] + 4 * c[2] + 8 * c[3]
                 + 16 * c[4] + 32 * c[5] + 64 * c[6] + 128 * c[7]
           C2 == 256 * c[8] + 512 * c[9] + 1024 * c[10] + 2048 * c[11]
                 + 4096 * c[12] + 8192 * c[13] + 16384 * c[14] + 32768 * c[15]
           C3 == 65536 * c[16] + 131072 * c[17] + 262144 * c[18] + 524288 * c[19]
                 + 1048576 * c[20] + 2097152 * c[21] + 4194304 * c[22] + 8388608 * c[23]
           C4 == 16777216 * c[24] + 33554432 * c[25] + 67108864 * c[26] + 134217728 * c[27]
                 + 268435456 * c[28] + 536870912 * c[29] + 1073741824 * c[30]
           s == b[31]
           rs2b == b[21] + 2 * b[22] + 4 * b[23] + 8 * b[24]
           funct7a == b[25] + 2 * b[26] + 4 * b[27]
           funct7b == b[28] + 2 * b[29] + 4 * b[30]
           rs2a == b[20]
           funct3 == b[12] + 2 * b[13] + 4 * b[14]
           rs1a == b[15]
           rs1b == b[16] + 2 * b[17] + 4 * b[18] + 8 * b[19]
<1>5. ISA!Immediate(w, "J") =
        (C1) + (C2) + (C3) + (C4)
        + (IF s = 1 THEN -1 - 2147483647 ELSE 0)
  BY <1>1, <1>2, <1>4, ImmediateSum
<1>6. /\ b[12] \in {0, 1} /\ b[13] \in {0, 1} /\ b[14] \in {0, 1} /\ b[15] \in {0, 1}
      /\ b[16] \in {0, 1} /\ b[17] \in {0, 1} /\ b[18] \in {0, 1} /\ b[19] \in {0, 1}
      /\ b[20] \in {0, 1} /\ b[21] \in {0, 1} /\ b[22] \in {0, 1} /\ b[23] \in {0, 1}
      /\ b[24] \in {0, 1} /\ b[25] \in {0, 1} /\ b[26] \in {0, 1} /\ b[27] \in {0, 1}
      /\ b[28] \in {0, 1} /\ b[29] \in {0, 1} /\ b[30] \in {0, 1} /\ b[31] \in {0, 1}
  BY <1>2, SMT
<1>7. /\ rs2b \in 0 .. 15 /\ funct7a \in 0 .. 7 /\ funct7b \in 0 .. 7
      /\ rs2a \in 0 .. 1 /\ funct3 \in 0 .. 7 /\ rs1a \in 0 .. 1
      /\ rs1b \in 0 .. 15 /\ s \in {0, 1}
  BY <1>6, SMT
<1>8. /\ w.funct3 = funct3
      /\ w.rs1 = rs1a + 2 * rs1b
      /\ w.rs2 = rs2a + 2 * rs2b
      /\ w.funct7 = funct7a + 8 * funct7b + 64 * s
  <2>1. w.funct3 = funct3
    BY <1>2, <1>6, FieldBits, SMT
  <2>2. w.rs1 = rs1a + 2 * rs1b
    BY <1>2, <1>6, FieldBits, SMT
  <2>3. w.rs2 = rs2a + 2 * rs2b
    BY <1>2, <1>6, FieldBits, SMT
  <2>4. w.funct7 = funct7a + 8 * funct7b + 64 * s
    BY <1>2, <1>6, FieldBits, SMT
  <2> QED
    BY <2>1, <2>2, <2>3, <2>4
<1>9. /\ C1 = 2 * rs2b + 32 * funct7a
      /\ C2 = 256 * funct7b + 2048 * rs2a + 4096 * funct3 + 32768 * rs1a
      /\ C3 = 65536 * rs1b + 15728640 * s
      /\ C4 = 2130706432 * s
  <2>1. C1 = 2 * rs2b + 32 * funct7a
    BY <1>3, <1>6, SMT
  <2>2. C2 = 256 * funct7b + 2048 * rs2a + 4096 * funct3 + 32768 * rs1a
    BY <1>3, <1>6, SMT
  <2>3. C3 = 65536 * rs1b + 15728640 * s
    BY <1>3, <1>6, SMT
  <2>4. C4 = 2130706432 * s
    BY <1>3, <1>6, SMT
  <2> QED
    BY <2>1, <2>2, <2>3, <2>4
<1> HIDE DEF C1, C2, C3, C4, s, rs2b, funct7a, funct7b, rs2a, funct3, rs1a, rs1b
<1> QED
  BY <1>5, <1>7, <1>8, <1>9, SMT DEF ImmediateJ, SignExtended

\* The immediates of the instruction that is executed are right, for every
\* word there is.
THEOREM ImmediatesAlwaysRight == Spec => []ImmediatesRight
<1>1. TypeOK => ImmediatesRight
  <2> SUFFICES ASSUME TypeOK PROVE ImmediatesRight
    OBVIOUS
  <2>1. instr \in Instruction
    BY InstructionsAssumption DEF TypeOK
  <2> QED
    BY <2>1, ImmediateIRight, ImmediateSRight, ImmediateBRight, ImmediateURight,
       ImmediateJRight DEF ImmediatesRight
<1> QED
  BY <1>1, InstructionsTypeCorrect, PTL

-----------------------------------------------------------------------------
(* Encodings *)

LEMMA ByFunct3Decoded ==
  ASSUME NEW w \in Instruction, NEW row \in DOMAIN ISA!ByFunct3, NEW n,
         w.opcode = ISA!ByFunct3[row].major,
         w.funct3 + 1 \in DOMAIN ISA!ByFunct3[row].names,
         n = ISA!ByFunct3[row].names[w.funct3 + 1], n # "none"
  PROVE  decodeOpcode(w) = n /\ n # Unknown
<1>0. w.funct3 \in 0 .. 7
  BY DEF Instruction
<1>1. row \in {"LOAD", "STORE", "BRANCH", "JALR", "OP_IMM", "SYSTEM", "FENCE"}
  BY DEF ISA!ByFunct3
<1>2. CASE row = "LOAD"
  <2>1. /\ w.opcode = 3 /\ w.funct3 + 1 \in 1 .. 6
        /\ n = <<"LB", "LH", "LW", "none", "LBU", "LHU">>[w.funct3 + 1]
    BY <1>2 DEF ISA!ByFunct3
  <2>2. decodeOpcode(w) = <<"LB", "LH", "LW", Unknown, "LBU", "LHU", Unknown, Unknown>>
                            [w.funct3 + 1]
    BY <2>1 DEF decodeOpcode, decodeInstructionType
  <2> QED
    BY <1>0, <2>1, <2>2 DEF Unknown
<1>3. CASE row = "STORE"
  <2>1. /\ w.opcode = 35 /\ w.funct3 + 1 \in 1 .. 3
        /\ n = <<"SB", "SH", "SW">>[w.funct3 + 1]
    BY <1>3 DEF ISA!ByFunct3
  <2>2. decodeOpcode(w) = <<"SB", "SH", "SW">>[w.funct3 + 1]
    BY <1>0, <2>1 DEF decodeOpcode, decodeInstructionType
  <2> QED
    BY <1>0, <2>1, <2>2 DEF Unknown
<1>4. CASE row = "BRANCH"
  <2>1. /\ w.opcode = 99
        /\ n = <<"BEQ", "BNE", "none", "none", "BLT", "BGE", "BLTU", "BGEU">>[w.funct3 + 1]
    BY <1>4 DEF ISA!ByFunct3
  <2>2. decodeOpcode(w) = <<"BEQ", "BNE", Unknown, Unknown, "BLT", "BGE", "BLTU", "BGEU">>
                            [w.funct3 + 1]
    BY <2>1 DEF decodeOpcode, decodeInstructionType
  <2> QED
    BY <1>0, <2>1, <2>2 DEF Unknown
<1>5. CASE row = "JALR"
  <2>1. w.opcode = 103 /\ w.funct3 + 1 \in 1 .. 1 /\ n = <<"JALR">>[w.funct3 + 1]
    BY <1>5 DEF ISA!ByFunct3
  <2>2. decodeOpcode(w) = "JALR"
    BY <2>1 DEF decodeOpcode, decodeInstructionType
  <2> QED
    BY <1>0, <2>1, <2>2 DEF Unknown
<1>6. CASE row = "OP_IMM"
  <2>1. /\ w.opcode = 19
        /\ n = <<"ADDI", "none", "SLTI", "SLTIU", "XORI", "none", "ORI", "ANDI">>[w.funct3 + 1]
    BY <1>6 DEF ISA!ByFunct3
  <2>2. w.funct3 # 1 /\ w.funct3 # 5
    BY <1>0, <2>1
  <2>3. decodeOpcode(w) =
          <<"ADDI", "SLLI", "SLTI", "SLTIU", "XORI", Unknown, "ORI", "ANDI">>[w.funct3 + 1]
    BY <2>1, <2>2 DEF decodeOpcode, decodeInstructionType, DecodeOpImm
  <2> QED
    BY <1>0, <2>1, <2>2, <2>3 DEF Unknown
<1>7. CASE row = "SYSTEM"
  <2>1. /\ w.opcode = 115
        /\ n = <<"none", "CSRRW", "CSRRS", "CSRRC", "none", "CSRRWI", "CSRRSI", "CSRRCI">>
                 [w.funct3 + 1]
    BY <1>7 DEF ISA!ByFunct3
  <2>2. w.funct3 # 0 /\ w.funct3 # 4
    BY <1>0, <2>1
  <2>3. decodeOpcode(w) =
          <<"CSRRW", "CSRRS", "CSRRC", Unknown, "CSRRWI", "CSRRSI", "CSRRCI">>[w.funct3]
    BY <2>1, <2>2 DEF decodeOpcode, decodeInstructionType, DecodeSystem
  <2> QED
    BY <1>0, <2>1, <2>2, <2>3 DEF Unknown
<1>8. CASE row = "FENCE"
  <2>1. /\ w.opcode = 15 /\ w.funct3 + 1 \in 1 .. 2
        /\ n = <<"FENCE", "FENCE_I">>[w.funct3 + 1]
    BY <1>8 DEF ISA!ByFunct3
  <2>2. decodeOpcode(w) = <<"FENCE", "FENCE_I">>[w.funct3 + 1]
    BY <1>0, <2>1 DEF decodeOpcode, decodeInstructionType
  <2> QED
    BY <1>0, <2>1, <2>2 DEF Unknown
<1> QED
  BY <1>1, <1>2, <1>3, <1>4, <1>5, <1>6, <1>7, <1>8

LEMMA ByFunct7Decoded ==
  ASSUME NEW w \in Instruction, NEW row \in ISA!ByFunct7,
         row = <<w.opcode, w.funct3, w.funct7, row[4]>>
  PROVE  decodeOpcode(w) = row[4] /\ row[4] # Unknown
<1>1. w.opcode = row[1] /\ w.funct3 = row[2] /\ w.funct7 = row[3]
  OBVIOUS
<1>2. CASE row[1] = 19
  <2>1. row \in {<<19, 1, 0, "SLLI">>, <<19, 5, 0, "SRLI">>, <<19, 5, 32, "SRAI">>}
    BY <1>2 DEF ISA!ByFunct7
  <2>2. decodeOpcode(w) = DecodeOpImm(w)
    BY <1>1, <1>2 DEF decodeOpcode, decodeInstructionType
  <2> QED
    BY <1>1, <2>1, <2>2 DEF DecodeOpImm, ByFunct7, Unknown
<1>3. CASE row[1] # 19
  <2>1. row[1] = 51
    BY <1>3 DEF ISA!ByFunct7
  <2>2. decodeOpcode(w) = DecodeOp(w)
    BY <1>1, <2>1 DEF decodeOpcode, decodeInstructionType
  <2>3. CASE row[3] = 1
    <3>1. row \in {<<51, 0, 1, "MUL">>, <<51, 1, 1, "MULH">>, <<51, 2, 1, "MULHSU">>,
                   <<51, 3, 1, "MULHU">>, <<51, 4, 1, "DIV">>, <<51, 5, 1, "DIVU">>,
                   <<51, 6, 1, "REM">>, <<51, 7, 1, "REMU">>}
      BY <1>3, <2>3 DEF ISA!ByFunct7
    <3>2. DecodeOp(w) =
            <<"MUL", "MULH", "MULHSU", "MULHU", "DIV", "DIVU", "REM", "REMU">>[row[2] + 1]
      BY <1>1, <2>3 DEF DecodeOp
    <3> QED
      BY <2>2, <3>1, <3>2 DEF Unknown
  <2>4. CASE row[3] # 1
    <3>1. row \in {<<51, 0, 0, "ADD">>, <<51, 0, 32, "SUB">>, <<51, 1, 0, "SLL">>,
                   <<51, 2, 0, "SLT">>, <<51, 3, 0, "SLTU">>, <<51, 4, 0, "XOR">>,
                   <<51, 5, 0, "SRL">>, <<51, 5, 32, "SRA">>, <<51, 6, 0, "OR">>,
                   <<51, 7, 0, "AND">>}
      BY <1>3, <2>4 DEF ISA!ByFunct7
    <3>2. w.funct7 % 2 = 0
      BY <1>1, <3>1
    <3>3. CASE row[2] \in {0, 5}
      BY <1>1, <2>2, <3>1, <3>2, <3>3 DEF DecodeOp, ByFunct7, Unknown
    <3>4. CASE row[2] \notin {0, 5}
      <4>1. DecodeOp(w) =
              <<Unknown, "SLL", "SLT", "SLTU", "XOR", Unknown, "OR", "AND">>[row[2] + 1]
        BY <1>1, <3>2, <3>4 DEF DecodeOp
      <4> QED
        BY <2>2, <3>1, <3>4, <4>1 DEF Unknown
    <3> QED
      BY <3>3, <3>4
  <2> QED
    BY <2>3, <2>4
<1> QED
  BY <1>2, <1>3

LEMMA AtomicDecoded ==
  ASSUME NEW w \in Instruction, w.opcode = 47, NEW row \in ISA!Atomics,
         row[1] = w.funct7 \div 4
  PROVE  decodeOpcode(w) = row[2] /\ row[2] # Unknown
<1>1. decodeOpcode(w) = DecodeAmo(w)
  BY DEF decodeOpcode, decodeInstructionType
<1> QED
  BY <1>1 DEF DecodeAmo, ISA!Atomics, Unknown

LEMMA PrivilegedDecoded ==
  ASSUME NEW w \in Instruction, w.opcode = 115, w.funct3 = 0
  PROVE  /\ \A row \in ISA!Privileged :
              row = <<w.funct7, w.rs2, row[3]>> =>
                decodeOpcode(w) = row[3] /\ row[3] # Unknown
         /\ w.funct7 = 9 => decodeOpcode(w) = "SFENCE_VMA"
         /\ w.funct7 = 11 => decodeOpcode(w) = "SINVAL_VMA"
<1>1. decodeOpcode(w) = DecodePrivileged(w)
  BY DEF decodeOpcode, decodeInstructionType, DecodeSystem
<1>2. w.rs2 \in 0 .. 31 /\ w.funct7 \in 0 .. 127
  BY DEF Instruction
<1>3. w.funct7 < 64 => ImmediateI(w) = 32 * w.funct7 + w.rs2
  BY <1>2 DEF ImmediateI, SignExtended
<1>4. ASSUME NEW row \in ISA!Privileged, row = <<w.funct7, w.rs2, row[3]>>
      PROVE  decodeOpcode(w) = row[3] /\ row[3] # Unknown
  <2>1. w.funct7 = row[1] /\ w.rs2 = row[2]
    BY <1>4
  <2>2. row \in {<<0, 0, "ECALL">>, <<0, 1, "EBREAK">>, <<8, 2, "SRET">>,
                 <<8, 5, "WFI">>, <<12, 0, "SFENCE_W_INVAL">>,
                 <<12, 1, "SFENCE_INVAL_IR">>}
    BY DEF ISA!Privileged
  <2>3. ImmediateI(w) = 32 * row[1] + row[2]
    BY <1>3, <2>1, <2>2
  <2> QED
    BY <1>1, <2>1, <2>2, <2>3 DEF DecodePrivileged, Unknown
<1>5. w.funct7 = 9 => decodeOpcode(w) = "SFENCE_VMA"
  BY <1>1, <1>2, <1>3 DEF DecodePrivileged
<1>6. w.funct7 = 11 => decodeOpcode(w) = "SINVAL_VMA"
  BY <1>1, <1>2, <1>3 DEF DecodePrivileged
<1> QED
  BY <1>4, <1>5, <1>6

\* A word that the ISA defines is decoded as what it is.
LEMMA NamesDecoded ==
  ASSUME NEW w \in Instruction, NEW n \in ISA!NamesOf(w)
  PROVE  decodeOpcode(w) = n /\ n # Unknown
<1>1. CASE n \in ISA!LargeNames(w)
  <2>1. PICK row \in {<<55, "LUI">>, <<23, "AUIPC">>, <<111, "JAL">>} :
          row[1] = w.opcode /\ n = row[2]
    BY <1>1 DEF ISA!LargeNames
  <2>2. CASE n = "LUI" /\ w.opcode = 55
    BY <2>2 DEF decodeOpcode, decodeInstructionType, Unknown
  <2>3. CASE n = "AUIPC" /\ w.opcode = 23
    BY <2>3 DEF decodeOpcode, decodeInstructionType, Unknown
  <2>4. CASE n = "JAL" /\ w.opcode = 111
    BY <2>4 DEF decodeOpcode, decodeInstructionType, Unknown
  <2> QED
    BY <2>1, <2>2, <2>3, <2>4
<1>2. CASE n \in ISA!Funct3Names(w)
  <2>1. PICK row \in DOMAIN ISA!ByFunct3 :
          /\ w.opcode = ISA!ByFunct3[row].major
          /\ w.funct3 + 1 \in DOMAIN ISA!ByFunct3[row].names
          /\ n = ISA!ByFunct3[row].names[w.funct3 + 1]
          /\ n # "none"
    BY <1>2, Zenon DEF ISA!Funct3Names
  <2> QED
    BY <2>1, ByFunct3Decoded
<1>3. CASE n \in ISA!Funct7Names(w)
  <2>1. PICK row \in ISA!ByFunct7 :
          row = <<w.opcode, w.funct3, w.funct7, row[4]>> /\ n = row[4]
    BY <1>3, Zenon DEF ISA!Funct7Names
  <2> QED
    BY <2>1, ByFunct7Decoded
<1>4. CASE n \in ISA!AtomicNames(w)
  <2>1. PICK row \in ISA!Atomics :
          w.opcode = 47 /\ row[1] = w.funct7 \div 4 /\ n = row[2]
    BY <1>4, Zenon DEF ISA!AtomicNames
  <2> QED
    BY <2>1, AtomicDecoded
<1>5. CASE n \in ISA!PrivilegedNames(w)
  <2>1. PICK row \in ISA!Privileged :
          /\ w.opcode = 115 /\ w.funct3 = 0 /\ n = row[3]
          /\ row = <<w.funct7, w.rs2, row[3]>>
    BY <1>5, Zenon DEF ISA!PrivilegedNames
  <2>2. decodeOpcode(w) = row[3] /\ row[3] # Unknown
    BY <2>1, PrivilegedDecoded, Zenon
  <2> QED
    BY <2>1, <2>2
<1>6. CASE n \in ISA!FenceNames(w)
  <2>1. PICK row \in {<<9, "SFENCE_VMA">>, <<11, "SINVAL_VMA">>} :
          w.opcode = 115 /\ w.funct3 = 0 /\ row[1] = w.funct7 /\ n = row[2]
    BY <1>6 DEF ISA!FenceNames
  <2> QED
    BY <2>1, PrivilegedDecoded DEF Unknown
<1> QED
  BY <1>1, <1>2, <1>3, <1>4, <1>5, <1>6 DEF ISA!NamesOf

-----------------------------------------------------------------------------
(* The refinement *)

LEMMA Going ==
  ASSUME NEW n \in Int, pc' = n % Word
  PROVE  ISA!Goes(n)
BY ModInRange, SameAsMod DEF ISA!Goes, ISA!Value, WordValue

LEMMA Getting ==
  ASSUME TypeOK, NEW rd \in Registers, NEW v \in WordValue, gpr' = With(gpr, rd, v)
  PROVE  ISA!Gets(rd, v)
<1>1. gpr \in [Registers -> WordValue] /\ gpr[0] = 0
  BY DEF TypeOK
<1> QED
  BY <1>1, WithIs DEF ISA!Gets

LEMMA GettingNothing ==
  ASSUME TypeOK, gpr' = gpr
  PROVE  0 \in Registers /\ 0 \in ISA!Value /\ ISA!Gets(0, 0)
<1>1. gpr \in [Registers -> WordValue] /\ gpr[0] = 0 /\ 0 \in Registers
  BY InstructionsAssumption DEF TypeOK
<1>2. [gpr EXCEPT ![0] = 0] = gpr
  BY <1>1
<1>3. 0 \in ISA!Value
  BY Sizes DEF ISA!Value
<1> QED
  BY <1>1, <1>2, <1>3 DEF ISA!Gets

\* A step that has its effect is a step of the ISA, on words that the ISA
\* reserves too.
LEMMA EffectiveEntered ==
  ASSUME TypeOK, NEW type, Enters(type),
         \E rd \in Registers, v \in ISA!Value : ISA!Gets(rd, v),
         pc' \in ISA!Value,
         \/ ISA!NamesOf(instr) = {}
         \/ ISA!Compute \/ ISA!ComputeImmediate \/ ISA!LoadUpper
         \/ ISA!Branch \/ ISA!JumpAndLink \/ ISA!Fence \/ ISA!Other
  PROVE  ISA!Execute
<1>1. stage = "execute" /\ stage' = "fetch"
  BY DEF Enters
<1> QED
  BY <1>1, Zenon DEF ISA!Execute

LEMMA Effective ==
  ASSUME TypeOK, NEW type, Executes(type),
         \E rd \in Registers, v \in ISA!Value : ISA!Gets(rd, v),
         pc' \in ISA!Value,
         \/ ISA!Compute \/ ISA!ComputeImmediate \/ ISA!LoadUpper
         \/ ISA!Branch \/ ISA!JumpAndLink \/ ISA!Other
  PROVE  ISA!Execute
<1>1. stage = "execute" /\ stage' = "fetch"
  BY DEF Executes, Enters
<1> QED
  BY <1>1, Zenon DEF ISA!Execute

LEMMA OpExecutes == TypeOK /\ Op => ISA!Execute
<1> SUFFICES ASSUME TypeOK, Op PROVE ISA!Execute
  OBVIOUS
<1>1. Executes("OP")
  BY DEF Op
<1>2. PICK v \in Results(opcode, gpr[instr.rs1], gpr[instr.rs2]) :
        gpr' = With(gpr, instr.rd, v)
  BY DEF Op
<1>3. /\ instr.rs1 \in Registers /\ instr.rs2 \in Registers /\ instr.rd \in Registers
      /\ opcode \in OpNames /\ instr.opcode = 51
  <2>1. instr.opcode = 51
    BY <1>1, Executing DEF decodeInstructionType, Unknown
  <2> QED
    BY <1>1, <2>1, Executing, RegistersOf, OpcodeOfType DEF NoDestination, Unknown
<1>4. gpr[instr.rs1] \in WordValue /\ gpr[instr.rs2] \in WordValue
  BY <1>3 DEF TypeOK
<1>5. v \in WordValue /\ ISA!IsResult(opcode, gpr[instr.rs1], gpr[instr.rs2], v)
  BY <1>3, <1>4, ResultsAreResults
<1>6. v \in ISA!Value /\ ISA!Gets(instr.rd, v)
  BY <1>2, <1>3, <1>5, Getting DEF ISA!Value, WordValue
<1>7. pc' = (pc + 4) % Word /\ pc + 4 \in Int
  BY <1>1, Executing DEF Op, Next4
<1>8. ISA!Goes(pc + 4)
  BY <1>7, Going
<1>9. pc' \in ISA!Value
  BY <1>8 DEF ISA!Goes
<1>10. ISA!Compute
  BY <1>3, <1>5, <1>6, <1>8 DEF ISA!Compute
<1> QED
  BY <1>1, <1>3, <1>6, <1>9, <1>10, Effective

LEMMA ShiftAmount ==
  ASSUME NEW w \in Instruction
  PROVE  ImmediateI(w) % 32 = w.rs2
<1>1. w.rs2 \in 0 .. 31 /\ w.funct7 \in 0 .. 127
  BY DEF Instruction
<1>2. PICK k \in Int : ImmediateI(w) = w.rs2 + k * 32
  <2> DEFINE r == w.rs2
             f == w.funct7
  <2>1. r \in Int /\ f \in Int
    BY <1>1
  <2>2. ImmediateI(w) = SignExtended(32 * f + r, 4096)
    BY DEF ImmediateI
  <2> HIDE DEF r, f
  <2>3. ImmediateI(w) = r + f * 32 \/ ImmediateI(w) = r + (f - 128) * 32
    BY <2>1, <2>2 DEF SignExtended
  <2>4. \/ ImmediateI(w) = w.rs2 + w.funct7 * 32
        \/ ImmediateI(w) = w.rs2 + (w.funct7 - 128) * 32
    BY <2>3 DEF r, f
  <2>5. w.funct7 \in Int /\ w.funct7 - 128 \in Int
    BY <1>1
  <2> QED
    BY <2>4, <2>5
<1>3. (w.rs2 + k * 32) % 32 = w.rs2 % 32
  BY <1>1, ModOfSum
<1>4. w.rs2 % 32 = w.rs2
  BY <1>1
<1> QED
  BY <1>2, <1>3, <1>4

LEMMA OpImmExecutes == TypeOK /\ OpImm => ISA!Execute
<1> SUFFICES ASSUME TypeOK, OpImm PROVE ISA!Execute
  OBVIOUS
<1>1. Executes("OP_IMM")
  BY DEF OpImm
<1>2. PICK v \in ResultsWithImmediate(instr, opcode, gpr[instr.rs1]) :
        gpr' = With(gpr, instr.rd, v)
  BY DEF OpImm
<1>3. instr.rs1 \in Registers /\ instr.rd \in Registers /\ instr.opcode = 19
      /\ opcode \in OpImmNames /\ instr \in Instruction
  <2>1. instr.opcode = 19
    BY <1>1, Executing DEF decodeInstructionType, Unknown
  <2> QED
    BY <1>1, <2>1, Executing, RegistersOf, OpcodeOfType DEF NoDestination, Unknown
<1>4. gpr[instr.rs1] \in WordValue /\ opcode = decodeOpcode(instr)
  BY <1>1, <1>3, Executing
<1>5. /\ v \in WordValue
      /\ ISA!IsResult(Plain(opcode), gpr[instr.rs1],
                      ImmediateOperand(instr, opcode), v)
  <2>1. /\ instr \in Words /\ decodeInstructionType(instr) = "OP_IMM"
        /\ decodeOpcode(instr) # Unknown
    BY <1>1, Executing
  <2> QED
    BY <1>2, <1>4, <2>1, ImmediateResults
<1>6. v \in ISA!Value /\ ISA!Gets(instr.rd, v)
  BY <1>2, <1>3, <1>5, Getting DEF ISA!Value, WordValue
<1>7. pc' = (pc + 4) % Word /\ pc + 4 \in Int
  BY <1>1, Executing DEF OpImm, Next4
<1>8. ISA!Goes(pc + 4)
  BY <1>7, Going
<1>9. pc' \in ISA!Value
  BY <1>8 DEF ISA!Goes
<1>10. ISA!WithImmediate[opcode] = Plain(opcode)
  BY <1>3 DEF ISA!WithImmediate, Plain, OpImmNames
<1>11. ImmediateOperand(instr, opcode) =
         IF opcode \in {"SLLI", "SRLI", "SRAI"}
         THEN ISA!Immediate(instr, "I") % 32
         ELSE ISA!Immediate(instr, "I") % Word
  <2>1. ImmediateI(instr) = ISA!Immediate(instr, "I") /\ ImmediateI(instr) % 32 = instr.rs2
    BY <1>3, ImmediateIRight, ShiftAmount
  <2> QED
    BY <2>1 DEF ImmediateOperand
<1>12. ISA!ComputeImmediate
  <2>1. ISA!IsResult(ISA!WithImmediate[opcode], gpr[instr.rs1],
                     IF opcode \in {"SLLI", "SRLI", "SRAI"}
                     THEN ISA!Immediate(instr, "I") % 32
                     ELSE ISA!Immediate(instr, "I") % Word, v)
    BY <1>5, <1>10, <1>11, Zenon
  <2> QED
    BY <1>3, <1>6, <1>8, <2>1, Zenon DEF ISA!ComputeImmediate
<1> QED
  BY <1>1, <1>3, <1>6, <1>9, <1>12, Effective

LEMMA OpUiExecutes == TypeOK /\ OpUi => ISA!Execute
<1> SUFFICES ASSUME TypeOK, OpUi PROVE ISA!Execute
  OBVIOUS
<1>1. Executes("OP_UI")
  BY DEF OpUi
<1>2. instr.rd \in Registers /\ instr \in Instruction /\ opcode \in {"LUI", "AUIPC"}
  BY <1>1, Executing, RegistersOf, OpcodeOfType DEF NoDestination, Unknown
<1> DEFINE n == ImmediateU(instr) + (IF opcode = "AUIPC" THEN pc ELSE 0)
<1>3. n \in Int
  <2>1. ImmediateU(instr) \in Int /\ pc \in Int
    BY <1>1, Executing, ImmediatesAreIntegers
  <2> QED
    BY <2>1
<1>4. gpr' = With(gpr, instr.rd, n % Word)
  BY DEF OpUi
<1>5. n = ISA!Immediate(instr, "U") + (IF opcode = "LUI" THEN 0 ELSE pc)
  BY <1>2, ImmediateURight
<1> HIDE DEF n
<1>6. /\ n % Word \in WordValue /\ n % Word \in ISA!Value
      /\ ISA!Same(n % Word, n)
  BY <1>3, ModInRange, SameAsMod DEF ISA!Value, WordValue
<1>7. ISA!Gets(instr.rd, n % Word)
  BY <1>2, <1>4, <1>6, Getting
<1>8. ISA!Goes(pc + 4)
  <2>1. pc' = (pc + 4) % Word /\ pc + 4 \in Int
    BY <1>1, Executing DEF OpUi, Next4
  <2> QED
    BY <2>1, Going
<1>9. pc' \in ISA!Value
  BY <1>8 DEF ISA!Goes
<1>10. ISA!LoadUpper
  <2>1. ISA!Same(n % Word, ISA!Immediate(instr, "U")
                             + (IF opcode = "LUI" THEN 0 ELSE pc))
    BY <1>5, <1>6, Zenon
  <2> QED
    BY <1>2, <1>6, <1>7, <1>8, <2>1 DEF ISA!LoadUpper
<1> QED
  BY <1>1, <1>2, <1>6, <1>7, <1>9, <1>10, Effective

LEMMA BranchExecutes == TypeOK /\ Branch => ISA!Execute
<1> SUFFICES ASSUME TypeOK, Branch PROVE ISA!Execute
  OBVIOUS
<1>1. Executes("BRANCH") /\ gpr' = gpr
  BY DEF Branch
<1>2. /\ instr.rs1 \in Registers /\ instr.rs2 \in Registers
      /\ opcode \in BranchNames /\ instr.opcode = 99 /\ instr \in Instruction
  <2>1. instr.opcode = 99
    BY <1>1, Executing DEF decodeInstructionType, Unknown
  <2> QED
    BY <1>1, <2>1, Executing, RegistersOf, OpcodeOfType
<1>3. gpr[instr.rs1] \in WordValue /\ gpr[instr.rs2] \in WordValue
  BY <1>2 DEF TypeOK
<1>4. Taken(opcode, gpr[instr.rs1], gpr[instr.rs2])
        <=> ISA!Branches(opcode, gpr[instr.rs1], gpr[instr.rs2])
  <2> SUFFICES ASSUME NEW a \in WordValue, NEW b \in WordValue
               PROVE  Taken(opcode, a, b) <=> ISA!Branches(opcode, a, b)
    BY <1>3
  <2>1. /\ ISA!Signed(a) = Int32(a) /\ ISA!Signed(b) = Int32(b)
        /\ Int32(a) \in Int /\ Int32(b) \in Int
    BY SignedIs, Sizes
  <2>2. a \in Int /\ b \in Int
    BY Sizes DEF WordValue
  <2> QED
    BY <1>2, <2>1, <2>2 DEF BranchNames, Taken, ISA!Branches
<1>5. pc + ImmediateB(instr) \in Int /\ pc + 4 \in Int
  BY <1>1, Executing, ImmediatesAreIntegers
<1>6. ImmediateB(instr) = ISA!Immediate(instr, "B")
  BY <1>2, ImmediateBRight
<1>7. ISA!Goes(IF ISA!Branches(opcode, gpr[instr.rs1], gpr[instr.rs2])
               THEN pc + ISA!Immediate(instr, "B") ELSE pc + 4)
  <2>1. CASE Taken(opcode, gpr[instr.rs1], gpr[instr.rs2])
    <3>1. pc' = (pc + ImmediateB(instr)) % Word
      BY <2>1 DEF Branch
    <3>2. ISA!Goes(pc + ImmediateB(instr))
      BY <1>5, <3>1, Going
    <3> QED
      BY <1>4, <1>6, <2>1, <3>2, Zenon
  <2>2. CASE ~Taken(opcode, gpr[instr.rs1], gpr[instr.rs2])
    <3>1. pc' = (pc + 4) % Word
      BY <2>2 DEF Branch
    <3>2. ISA!Goes(pc + 4)
      BY <1>5, <3>1, Going
    <3> QED
      BY <1>4, <2>2, <3>2, Zenon
  <2> QED
    BY <2>1, <2>2
<1>8. pc' \in ISA!Value
  BY <1>7, Zenon DEF ISA!Goes
<1>9. ISA!Branch
  BY <1>1, <1>2, <1>7, Zenon DEF ISA!Branch
<1> QED
  BY <1>1, <1>8, <1>9, GettingNothing, Effective

\* A target that is made even is the same made even after it has wrapped.
LEMMA EvenTarget ==
  ASSUME NEW t \in Int
  PROVE  /\ Even(t % Word) \in WordValue
         /\ ISA!Same(Even(t % Word), t - (t % 2))
<1> DEFINE u == t % Word
           q == t \div Word
           r == t % 2
<1>1. u \in WordValue /\ u \in Int /\ q \in Int /\ t = Word * q + u
  <2>1. Word \in Nat \ {0}
    BY Sizes
  <2>2. u \in 0 .. (Word - 1) /\ q \in Int /\ t = Word * q + u
    BY <2>1, DivMod
  <2> HIDE DEF u, q
  <2> QED
    BY <2>1, <2>2 DEF WordValue
<1>2. Word = 2 * MostNegative /\ MostNegative \in Nat
  BY Sizes
<1>3. Word * q = (MostNegative * q) * 2 /\ MostNegative * q \in Int
  <2> HIDE DEF q
  <2> QED
    BY <1>1, <1>2
<1> HIDE DEF u, q
<1>4. r = u % 2
  <2>1. t = u + (MostNegative * q) * 2
    <3> DEFINE m == MostNegative * q
    <3>1. m \in Int /\ t = m * 2 + u
      BY <1>1, <1>3
    <3> HIDE DEF m
    <3>2. t = u + m * 2
      BY <1>1, <3>1
    <3> QED
      BY <3>2 DEF m
  <2>2. (u + (MostNegative * q) * 2) % 2 = u % 2
    BY <1>1, <1>3, ModOfSum
  <2> QED
    BY <2>1, <2>2
<1>5. Even(u) \in WordValue /\ Even(u) = u - r
  BY <1>1, <1>4, EvenInRange
<1>6. r \in Int
  BY DivMod
<1> HIDE DEF r
<1>7. (u - r) - (t - r) = u - t
  BY <1>1, <1>6
<1>8. (u - t) % Word = 0
  BY Sizes, ModApart DEF u
<1>9. ISA!Same(Even(u), t - r)
  BY <1>5, <1>7, <1>8 DEF ISA!Same
<1> QED
  BY <1>5, <1>9 DEF u, r

LEMMA JumpExecutes == TypeOK /\ Jump => ISA!Execute
<1> SUFFICES ASSUME TypeOK, Jump PROVE ISA!Execute
  OBVIOUS
<1>1. Executes("JUMP")
  BY DEF Jump
<1>2. /\ instr.rd \in Registers /\ instr \in Instruction
      /\ opcode \in {"JAL", "JALR"}
      /\ opcode = "JALR" => instr.rs1 \in Registers
  BY <1>1, Executing, RegistersOf, OpcodeOfType DEF NoDestination, Unknown
<1>3. /\ pc \in Nat
      /\ ImmediateI(instr) \in Int /\ ImmediateI(instr) = ISA!Immediate(instr, "I")
      /\ ImmediateJ(instr) \in Int /\ ImmediateJ(instr) = ISA!Immediate(instr, "J")
  BY <1>1, <1>2, Executing, ImmediatesAreIntegers, ImmediateIRight, ImmediateJRight
<1> DEFINE link == (pc + 4) % Word
<1>4. /\ link \in WordValue /\ link \in ISA!Value
      /\ ISA!Same(link, pc + 4)
  BY <1>3, ModInRange, SameAsMod DEF ISA!Value, WordValue
<1>5. gpr' = With(gpr, instr.rd, link)
  BY DEF Jump
<1> HIDE DEF link
<1>6. ISA!Gets(instr.rd, link)
  BY <1>2, <1>4, <1>5, Getting
<1>7. CASE opcode = "JAL"
  <2>1. pc' = (pc + ImmediateJ(instr)) % Word /\ pc + ImmediateJ(instr) \in Int
    BY <1>3, <1>7 DEF Jump
  <2>2. ISA!Goes(pc + ISA!Immediate(instr, "J"))
    BY <1>3, <2>1, Going
  <2>3. pc' \in ISA!Value
    BY <2>2 DEF ISA!Goes
  <2>4. ISA!JumpAndLink
    BY <1>4, <1>6, <1>7, <2>2 DEF ISA!JumpAndLink
  <2> QED
    BY <1>1, <1>2, <1>4, <1>6, <2>3, <2>4, Effective
<1>8. CASE opcode = "JALR"
  <2> DEFINE t == gpr[instr.rs1] + ImmediateI(instr)
  <2>1. t \in Int /\ t = gpr[instr.rs1] + ISA!Immediate(instr, "I")
    <3>1. gpr[instr.rs1] \in Int
      BY <1>2, <1>8, Sizes DEF TypeOK, WordValue
    <3> QED
      BY <1>3, <3>1
  <2>2. pc' = Even(t % Word)
    BY <1>8 DEF Jump
  <2> HIDE DEF t
  <2>3. pc' \in ISA!Value /\ ISA!Same(pc', t - (t % 2))
    BY <2>1, <2>2, EvenTarget DEF ISA!Value, WordValue
  <2>4. ISA!JumpAndLink
    <3>1. ISA!Goes(t - (t % 2))
      BY <2>3 DEF ISA!Goes
    <3>2. opcode # "JAL"
      BY <1>8
    <3> QED
      BY <1>2, <1>4, <1>6, <2>1, <3>1, <3>2 DEF ISA!JumpAndLink
  <2> QED
    BY <1>1, <1>2, <1>4, <1>6, <2>3, <2>4, Effective
<1> QED
  BY <1>2, <1>7, <1>8

LEMMA OtherExecutes == TypeOK /\ Other => ISA!Execute
<1> SUFFICES ASSUME TypeOK, Other PROVE ISA!Execute
  OBVIOUS
<1>1. PICK type \in {"LOAD", "AMO", "SYSTEM", "STORE"} : Executes(type)
  BY DEF Other
<1>2. instr.opcode \in {3, 35, 47, 115}
  BY <1>1, Executing DEF decodeInstructionType, Unknown
<1>3. \E rd \in Registers, v \in ISA!Value : ISA!Gets(rd, v)
  <2>1. CASE gpr' = gpr
    BY <2>1, GettingNothing
  <2>2. CASE /\ \E t \in {"LOAD", "AMO", "SYSTEM"} : Executes(t)
             /\ \E v \in OtherResults : gpr' = With(gpr, instr.rd, v)
    <3>1. PICK t \in {"LOAD", "AMO", "SYSTEM"} : Executes(t)
      BY <2>2
    <3>2. instr.rd \in Registers
      BY <3>1, Executing, RegistersOf DEF NoDestination, Unknown
    <3>3. PICK v \in OtherResults : gpr' = With(gpr, instr.rd, v)
      BY <2>2
    <3>4. v \in WordValue
      BY <3>3, InstructionsAssumption DEF WordValue
    <3>5. ISA!Gets(instr.rd, v)
      BY <3>2, <3>3, <3>4, Getting
    <3> QED
      BY <3>2, <3>4, <3>5 DEF ISA!Value, WordValue
  <2> QED
    BY <2>1, <2>2 DEF Other
<1>4. pc' \in ISA!Value
  BY OtherType DEF TypeOK, ISA!Value, WordValue
<1>5. ISA!Other
  BY <1>2, <1>3, <1>4 DEF ISA!Other
<1> QED
  BY <1>1, <1>3, <1>4, <1>5, Effective

LEMMA FaultUndecodedExecutes == TypeOK /\ FaultUndecoded => ISA!Execute
<1> SUFFICES ASSUME TypeOK, FaultUndecoded PROVE ISA!Execute
  OBVIOUS
<1>1. PICK type \in {"LOAD", "STORE"} : Enters(type)
  BY DEF FaultUndecoded
<1>2. opcode = Unknown /\ gpr' = gpr
  BY DEF FaultUndecoded
<1>3. ISA!NamesOf(instr) = {}
  BY <1>1, <1>2, Entering, NamesDecoded
<1>4. \E rd \in Registers, v \in ISA!Value : ISA!Gets(rd, v)
  BY <1>2, GettingNothing
<1>5. pc' \in ISA!Value
  BY FaultUndecodedType DEF TypeOK, ISA!Value, WordValue
<1> QED
  BY <1>1, <1>3, <1>4, <1>5, EffectiveEntered

LEMMA FenceExecutes == TypeOK /\ Fence => ISA!Execute
<1> SUFFICES ASSUME TypeOK, Fence PROVE ISA!Execute
  OBVIOUS
<1>1. Enters("OP_FENCE") /\ gpr' = gpr
  BY DEF Fence
<1>2. \E rd \in Registers, v \in ISA!Value : ISA!Gets(rd, v)
  BY <1>1, GettingNothing
<1>3. pc' \in ISA!Value
  BY FenceType DEF TypeOK, ISA!Value, WordValue
<1>4. opcode = Unknown => ISA!NamesOf(instr) = {}
  BY <1>1, Entering, NamesDecoded
<1>5. opcode # Unknown => opcode \in {"FENCE", "FENCE_I"}
  <2>1. instr.funct3 \in 0 .. 7 /\ opcode = decodeOpcode(instr)
    BY <1>1, Entering DEF Instruction
  <2>2. opcode = IF instr.funct3 < 2 THEN <<"FENCE", "FENCE_I">>[instr.funct3 + 1]
                 ELSE Unknown
    BY <1>1, <2>1, Entering DEF decodeOpcode
  <2>3. CASE instr.funct3 = 0
    BY <2>2, <2>3
  <2>4. CASE instr.funct3 = 1
    BY <2>2, <2>4
  <2>5. CASE instr.funct3 \in 2 .. 7
    BY <2>2, <2>5
  <2> QED
    BY <2>1, <2>3, <2>4, <2>5
<1>6. ISA!Goes(pc + 4)
  BY <1>1, Entering, Going DEF Fence, Next4
<1>7. opcode # Unknown => ISA!Fence
  BY <1>1, <1>5, <1>6 DEF ISA!Fence
<1> QED
  BY <1>1, <1>2, <1>3, <1>4, <1>7, EffectiveEntered

\* From the fetched word to registers and pc, every step is the ISA's: the
\* opcode, the immediate, the result and the next address, for registers of
\* every width and for every program.
THEOREM InstructionsImplementRv32im == Spec => ImplementsRv32im
<1>1. Init => ISA!Init
  BY DEF Init, ISA!Init
<1>2. TypeOK /\ [Next]_vars => [ISA!Next]_<<pc, gpr, instr, opcode, stage>>
  <2> SUFFICES ASSUME TypeOK, [Next]_vars
               PROVE  [ISA!Next]_<<pc, gpr, instr, opcode, stage>>
    OBVIOUS
  <2>1. CASE Realign
    <3>1. pc' \in ISA!Value
      BY <2>1, Sizes DEF Realign, ISA!Value
    <3> QED
      BY <2>1, <3>1 DEF Realign, ISA!Realign, ISA!Next
  <2>2. CASE Fetch
    <3>1. instr' \in Words /\ instr' \in Instruction /\ opcode' = decodeOpcode(instr')
      BY <2>2, InstructionsAssumption DEF Fetch
    <3>2. ISA!NamesOf(instr') # {} => opcode' \in ISA!NamesOf(instr')
      <4> SUFFICES ASSUME NEW n \in ISA!NamesOf(instr')
                   PROVE  opcode' \in ISA!NamesOf(instr')
        OBVIOUS
      <4> QED
        BY <3>1, NamesDecoded
    <3> QED
      BY <2>2, <3>1, <3>2 DEF Fetch, ISA!Fetch, ISA!Next
  <2>3. CASE Throw
    <3>1. stage = "execute" /\ instr \in Instruction /\ opcode = decodeOpcode(instr)
      BY <2>3, InstructionsAssumption DEF Throw, TypeOK
    <3>2. ISA!NamesOf(instr) = {} \/ instr.opcode \in {3, 35, 47, 115}
      <4>1. CASE opcode = Unknown
        BY <3>1, <4>1, NamesDecoded
      <4>2. CASE decodeInstructionType(instr) \in {"LOAD", "STORE", "AMO", "SYSTEM"}
        BY <4>2 DEF decodeInstructionType, Unknown
      <4> QED
        BY <2>3, <4>1, <4>2 DEF Throw
    <3> QED
      BY <2>3, <3>1, <3>2 DEF Throw, ISA!Stop, ISA!Next
  <2>4. CASE UNCHANGED vars
    BY <2>4 DEF vars
  <2> QED
    BY <2>1, <2>2, <2>3, <2>4, OpExecutes, OpImmExecutes, OpUiExecutes,
       BranchExecutes, JumpExecutes, OtherExecutes, FaultUndecodedExecutes,
       FenceExecutes DEF Next, ISA!Next
<1> QED
  BY <1>1, <1>2, InstructionsTypeCorrect, PTL DEF Spec, ImplementsRv32im, ISA!Spec
=============================================================================
